# A verification of this lwIP port and its board

The repository is a firmware for an STM32F103 board with an ENC28J60 Ethernet
controller. Its network stack is lwIP 1.3.2 without an operating system
(`NO_SYS` is 1). This directory holds TLA+ modules translated from the C source,
TLC configurations that check them on small instances, and TLAPS proofs.
Paths below are relative to `src/LwIP_V1.3.2/`; file names without a directory
are in `LWIP-SRC/core/` (`tcp.c`, `pbuf.c`, `ipv4/ip_frag.c`, ...) or
`LWIP-SRC/netif/` (`etharp.c`, `ethernetif.c`).

Contents: [inventory](#inventory), [modules](#modules),
[runs](#runs), [what the violation runs show](#what-the-violation-runs-show),
[bounds](#bounds), [fairness](#fairness), [proofs](#proofs),
[limits](#what-is-not-modelled), [plan](#plan).

## Inventory

### How the program runs

`main.c` initialises the board and then loops: `LWIP_Polling`, keys, idle work, a
software timer, a delay of 10 ms. `LWIP_Polling`
(`LWIP-APP/app_test/lwipdemo.c`) takes frames from the controller
(`ethernetif_input`), moves looped-back packets (`netif_poll`), and calls
`tcp_tmr`, `etharp_tmr` and `ip_reass_tmr` when `timer_expired` says so. The only
concurrency is the SysTick interrupt, which advances the clock, the software
timers and the key scanner. Everything in the stack is therefore a handler that
runs to its end: the hard behaviours come from the *order* of frames, timers and
application calls, from frames that the network loses, repeats and reorders, from
allocations that fail in a heap of 10 kB and in pools of a few blocks, and from
applications whose callbacks call back into the stack. The interrupt is different: it
comes between any two accesses to memory of the main loop, and so does the Ethernet
controller, which fills its ring while the driver empties it.

### Components

| Component | State | Operations | Talks to | Hard |
|---|---|---|---|---|
| TCP input (`tcp_in.c`) | the block being served, `recv_data`, `recv_flags`, `ooseq` | `tcp_input`, `tcp_process`, `tcp_receive`, `tcp_listen_input`, `tcp_timewait_input` | IP, output, application callbacks | trimming of overlapping segments at four edges, FINs that must survive it, simultaneous close, callbacks that change the block |
| TCP output (`tcp_out.c`) | `unsent`, `unacked`, `snd_nxt`, `snd_lbb`, `snd_buf`, `snd_queuelen`, `cwnd` | `tcp_write`/`tcp_enqueue`, `tcp_output`, `tcp_send_empty_ack`, `tcp_rexmit*`, `tcp_zero_window_probe`, `tcp_keepalive`, `tcp_rst` | IP, `pbuf`, `memp` | the accounts of two queues, allocation failures half way, window against Nagle against ACKs |
| Blocks and timers (`tcp.c`) | lists of blocks, states, tick counters | `tcp_connect`, `tcp_listen`, `tcp_close`, `tcp_abandon`, `tcp_recved`, `tcp_slowtmr`, `tcp_fasttmr`, `tcp_alloc` | all of the above | timeouts against late answers, limits, blocks freed while a list is walked |
| Receive window (`tcp.c`, `tcp_in.c`, `tcp_out.c`) | `rcv_nxt`, `rcv_wnd`, `rcv_ann_wnd`, `rcv_ann_right_edge`, ACK flags, `refused_data` | every handler touches it | | unsigned 16-bit arithmetic, promises to the peer, updates nobody sends |
| IP (`ip.c`), reassembly and fragmentation (`ip_frag.c`) | datagrams being reassembled, count of their pbufs | `ip_input`, `ip_output_if`, `ip_reass`, `ip_reass_tmr`, `ip_frag` | ARP, TCP, UDP | holes and overlaps, timeout, eviction of the oldest |
| ARP (`etharp.c`) | table of entries with their queues, the cached index | `etharp_output`, `etharp_query`, `etharp_ip_input`, `etharp_arp_input`, `etharp_tmr` | IP, interface | an entry that is recycled while packets wait, a cached index that is stale |
| Ethernet interface (`ethernetif.c`), loopback (`loopif.c`) | the pbuf of the frame, loop list | `ethernetif_input`, `low_level_input`, `low_level_output`, `netif_loop_output`, `netif_poll` | ARP, driver, `pbuf` | frames without a pbuf, pbufs without a frame |
| ENC28J60 driver (`HARDWARE/ENC28J60`) | `NextPacketPtr`, `ENC_BreakDown_Cnt`, registers of the controller | `ENC28J60_Packet_Receive`, `_Packet_Send`, `_Full_Reset` | controller, interface | a ring shared with hardware, a receiver that stops, resets that fail |
| Buffers (`pbuf.c`, `mem.c`, `memp.c`) | reference counts, lengths, free lists, heap | `pbuf_alloc`, `_free`, `_cat`, `_chain`, `_realloc`, `_header`; `mem_*`, `memp_*` | everybody | sharing, leaks, partial failure, fragmentation of the heap |
| DNS client (`dns.c`) | table of names, `dns_seqno`, the server `dns_pcb` is connected to | `dns_gethostbyname`, `dns_tmr`, `dns_recv` | UDP, applications | late and repeated answers, retries and change of server, callbacks that ask again |
| UDP, RAW, ICMP | block lists | `udp_input`, `raw_input`, `icmp_input` | IP | little state |
| Clock and timers (`bsp_ticktimer.c`, `LWIP-APP/arch/sys_arch.c`) | counters, flags | `SysTick_ISR`, `bsp_CheckTimer`, `bsp_StartTimer`, `bsp_DelayMS`, `timer_expired` | main loop | interrupt against loop, wrap of the clock |
| Keys (`bsp_key.c`) | filter per key, ring of codes | `bsp_KeyScan`, `bsp_GetKey` | interrupt, main loop | bouncing contacts, a ring without a mask |
| Demo applications, web server | per connection | callbacks of the raw API | TCP, UDP | writes that fail, aborts inside callbacks |
| Sequential API, PPP, SLIP, SNMP, IPv6, DHCP, IGMP, AutoIP | | | | not built: `NO_SYS` 1 and the options of `lwipopts.h` |
| Board support, uIP, FAT, vendor libraries | | | | not the network stack |

The properties that make each correct:

- **Receive window**: bytes that leave `rcv_wnd` come back exactly once; the
  announced right edge never moves left, nor beyond the free buffer; what was
  received is acknowledged and a window that opened is announced.
- **Output**: `unacked` and `unsent` together hold every byte that is not
  acknowledged exactly once, sorted; `snd_buf` and `snd_queuelen` are what the
  queues say; a timer runs while something is unacknowledged; nothing is sent
  beyond the announced window.
- **Input and close**: the application takes the bytes its peer wrote, in order
  and once; it is told of the end only after the data, of bytes received only when
  they were; whoever closed without an error had its data received.
- **Timers**: a connection is given up after the documented number of
  retransmissions and both blocks are freed.
- **Control blocks**: each is on the one list its state says, free, or held by an
  application that was told of its end; the walks of the timers survive what
  their callbacks do.
- **ARP, reassembly**: a packet that waits is sent in its turn to the right host or
  freed; entries and datagrams go in the end; their counts are exact; room is made by
  freeing the right one.
- **Buffers**: blocks of the heap are apart and none is refused while there is room;
  a reference count is the number of references, a total length the sum of lengths.
- **DNS**: a name gets its own address; a request ends once, in time, with its callback.
- **Driver**: driver and controller agree on the ring; a receiver that stopped comes back.
- **Clock and keys**: no expiry is lost, early or reported twice; a key is reported once,
  in order, after its contact settled.

The hazards, each at its line and with the properties that cover it, are listed
under `hazards` in `PROJECT.json`.

## Modules

```
  TcpWnd <- TcpOut <- TcpApi <- TcpIn <- TcpConn --implements--> ByteStream
    ^                             ^                                   ^
    |                             +-- TcpReceiver              ByteStream_proofs
    |                             +-- TcpBlock_proofs <- TcpLife_proofs
    |                                     TcpConn, TcpLife_proofs <- TcpConn_proofs
    |                                     TcpReceiver, TcpBlock_proofs <- TcpReceiver_proofs
    +-- RcvWindow --+
        TcpPool ----+                          Board
        Mem --------+--> Resources               ^
        Pbuf -------+                            +-- Clock
        Dns --------+                            +-- Keys
                                                 +-- Netif -- Etharp
  Mem --implements--> Heap                       +-- IpReass
                                                 +-- Enc28j60
  RcvWindow_proofs <- Resources_proofs (Mem, Pbuf, TcpPool, Dns, all of them)
                      Board_proofs     (Clock, Netif, Keys, IpReass, Enc28j60, all of them)
                                        (<-, -- : is extended by)
```

### One connection

In `TcpWnd`, `TcpOut`, `TcpApi` and `TcpIn` a *control block* is a record and a C
function that changes the block is an operator from block to block, so that a
handler is the composition of the functions it calls, in the code's order.
Segments the function hands to IP are appended to the field `out`. `tcp_input_pcb`
is the field `busy`, and `mem` says whether the handler's allocations
succeed.

- **TcpWnd**: the window arithmetic of `tcp_update_rcv_ann_wnd`, `tcp_recved`,
  `tcp_receive`, and the macros `tcp_ack` and `tcp_ack_now`.
- **TcpOut** (`tcp_out.c`): `Segments`, `Chains`, `Joined` and `Queued` are
  `tcp_enqueue`; `Output` is `tcp_output` with Nagle's rule, the congestion window
  and the empty ACK; then the three retransmissions and the probe. The loop over
  `unsent` becomes "how many segments at the head pass the test" (`Lead`).
- **TcpApi** (`tcp.c`): connect, write, close, recved, abort, reset, purge, with
  the fields the application sees. `taken`, `unread`, `written`, `reported`,
  `eof`, `failed`, `closed` are history of the application and have no
  counterpart in `struct tcp_pcb`.
- **TcpIn** (`tcp_in.c`): `ReceiveAck` and `ReceiveData` are `tcp_receive`;
  `Overlaid`, `InsertOoseq`, `CutToOoseq`, `CutFront` and `CutToWindow` are its
  trimming; `Process` is `tcp_process`, one operator per state that differs;
  `Finish` and `ActiveInput` are the rest of `tcp_input` with the callbacks.
  Callback answers are a parameter, so that applications that consume, take and read
  later, refuse, close at the end of the stream, or reject the connection are all explored.
- **TcpConn**: two such blocks, and the network as a bag of segments for each end,
  so that any order of arrival is possible. Actions: `Open`, `Deliver`, `Lose`,
  `Duplicate`, `SlowTmr`, `FastTmr`, `Send`, `Shut`, `Read`.
- **TcpReceiver**: one such block after the handshake, against a peer that cuts its
  stream into segments in every way. The other end of TcpConn sends again what it
  sent before; most of the trimming in `tcp_receive` is for peers that do not, and for
  segments that run over the window. Its bytes keep to the announced window, or come in order; its
  FIN may lie one beyond, as that of this stack does (`tcp_out.c:586` compares without it).
- **RcvWindow**: the window fields alone, against *every* environment: segments
  of any length that the buffer holds, any application, allocations that fail. It is small
  enough to prove about. Bytes are counted, not followed. It announces the
  probe that `tcp_keepalive` sends, which TcpConn leaves out.
- **ByteStream**: what a connection promises its two users. It knows no
  segments, windows or timers.

The tick counters (`rto`, `persist_cnt`, `polltmr`, `tmr`) are left out: a timer
that runs may expire at any tick, which includes every value of the counters.
Sequence numbers are naturals; the comparisons of `tcp.h` are exact within half
the number space, and no run comes near it. Sixteen-bit fields keep their width
modulo a scaled `U16`, so that a subtraction that wraps is seen to wrap; `dupacks`
does so modulo `U8`. Assertions are not guards: `LWIP_PLATFORM_ASSERT` is empty on
this platform and the code runs on past them.

### What a connection stands on

- **TcpPool** (`tcp.c`, `tcp_in.c`): the blocks of `MEMP_TCP_PCB` with their `next`
  pointers, the three lists, `tcp_alloc` with what it kills, and `tcp_tmr` as a walk: one
  step per visit, with the callbacks of the application, which may abort, close or open
  connections, between the removal of a block and the next visit; then the blocks in
  TIME_WAIT, one a step. What is on a list is the least set that has the head and is closed
  under `next` (`From`): a definition without recursion, which the proofs can use. What
  happens within a connection is a free choice among its outcomes.
- **Mem** (`mem.c`): the list of `struct mem` as a function from addresses; `mem_malloc`
  with splitting, `mem_free` with `plug_holes`, `mem_realloc` with its two ways to shrink,
  `lfree`. **Heap** is what that promises: blocks and refusals, no list.
- **Pbuf** (`pbuf.c`): allocation in the three forms, `pbuf_free`, `pbuf_cat`,
  `pbuf_chain`, `pbuf_realloc`, `pbuf_header`, and the cut at the front of a segment in
  `tcp_receive` (`tcp_in.c:1136`). Loops along a chain go one turn at a time, which is what makes
  the module provable; nothing comes between two turns. `holders` is the history of the
  pointers callers keep.
- **Dns** (`dns.c`): the table, with the queries that a server may still answer; an
  answer may come late, twice, as an error, or never. `dns_tmr` looks at one entry
  a step. A name may begin with the labels of another (`NamePrefixes`, `LongerNames`), which is what
  `dns_compare_name` gets wrong; the field `rest` is what `strcpy` left of a longer name beyond a shorter
  one. Callbacks may ask again on every occasion (`AskAgainOn`).
- **Resources** puts these and RcvWindow side by side.

### The board around it

- **Clock** (`bsp_ticktimer.c`, `sys_arch.c`, `main.c`): the main loop access by
  access, `SysTick_ISR` between any two, but for where interrupts are masked.
- **Keys** (`bsp_key.c`): the scan in the interrupt, one key a step, with readings that bounce, and
  `bsp_GetKey` in three accesses.
- **Etharp** (`etharp.c`) is a library of functions on the table; **Netif** has the
  actions: a frame of any kind or none is polled, a packet is sent, a pbuf is released, the timer
  ticks. The pool of pbufs is kept with what its free pbufs hold, because
  `low_level_input` hands on a pbuf although there was no frame.
- **IpReass** (`ip_frag.c`): fragments that arrive in any order, repeat, overlap or never come,
  against the limits on blocks and pbufs.
- **Enc28j60**: the driver one register access at a time; the controller is external
  and as its data sheet says: it appends frames, may stop receiving, and may damage a header. The damage
  shows in the status of the header, or does not: then the address of the next frame is wrong though the
  status is good, the case that the comments at `enc28j60.c:379` and 399-404 fear. The driver follows it, whatever it
  reads next is arbitrary, and it gives back the wrong room. `enc.stray`, history, says that it did so
  since the last reset. Wrong addresses are those of the ring.
- **Board** puts these side by side.

The parts of Board share no variable, nor do those of Resources: what one hands to another
is a call or a frame that the other takes in any order as it is. A behaviour of all is thus an
interleaving of one of each, and a property of one is decided by that part alone. The
initial state chooses the part (`part`, `resource`) that moves; one run asks all of them.

## Runs

Passing:

| Run | Asks | States |
|---|---|---|
| `twoway` | both ends write and close at any time on a network that reorders: byte stream, truthful `sent` callbacks, no reset, both blocks freed | 244 k |
| `faults` | one loss, one duplicate, one early timer, any order: queues, accounts, timers and the byte stream | 850 k |
| `failures` | failing allocations, refused data, rejected connections, expired idle timeouts | 170 k |
| `slow` | a reader that takes its time closes the window; two losses against a limit of one retransmission | 230 k |
| `segments` | a peer that cuts the stream anew each time, failing allocations, expired queued data, a FIN beyond the window: is the trimming exact? | 10 k |
| `resources` | the window, the blocks, the heap, the pbufs, the table of names: is all of it accounted for, whatever is called? | 351 k |
| `board` | clock, keys, interface and ARP, reassembly, controller: against interrupts, frames and time | 140 k |

What the properties say:

- `WindowConserved`: free, refused, held and FIN bytes add up to `TCP_WND`.
- `PromiseKept`, `EdgeNeverRetreats`: the announced right edge lies within the buffer and
  never moves left. (`AnnUpToDate`, that `rcv_ann_wnd` is never stale, is proved.)
- `NothingUnsaid` (`UnackedHasAckPending` and `OpenWindowNotForgotten`), `AckEventually`:
  until an ACK that was due stayed behind (the history variable `missed`), what is not
  acknowledged has an ACK flag set and is acknowledged in the end, and a window
  that opened by `TCP_WND_UPDATE_THRESHOLD` has an ACK pending.
- `PoolSound` (`BlocksAccounted` and `WalkSound`): each block has one place, the one its state
  says; no application knows a block that was freed; `tcp_slowtmr` looks at a block that is on the
  list, with its true predecessor, and at each once.
- `ImplementsHeap`: every call of `mem.c` is a step of `Heap`. The deep part is the
  refusal: it is justified only if no gap between blocks could hold the request, which needs
  that holes are joined at once and that `lfree` is never above one.
- `PbufsSound`: `ref` is the number of pointers, at every turn of every loop; between calls
  `tot_len` is `len` and the `tot_len` of the next.
- `AddressesRight`: a completed entry, and every address passed to an application, is for its
  name or for one of which one begins with the other, whatever its entry was used for since the question. So the
  index of an entry, the server and the names together keep late answers apart, but for what run `late`
  shows; and the address that an earlier request left is told on one occasion only, which the property names (`LeftOver`).
- `RequestsEnd`: a request ends with its callback and not without; until then every tick of
  `dns_tmr` takes exactly one from what is left of its retries and servers. Whoever was told `ERR_INPROGRESS` has a
  request in the table, but on the one occasion that run `lost` shows (`FlushedAtOnce`).
- `QueuesSound` (`QueuesCoverUnacked` and `SendBufferAccounted`), `TimerRuns`: as in the inventory.
- `WindowRespected` (`WithinAnnounced` and `WindowNotOverrun`): the sender stays within what the receiver
  announced, at every moment and across the network, but for the byte of a probe;
  `rcv_wnd` does not wrap.
- `AckOnItsWay`: unless something was lost, data received and not known to be
  acknowledged has an ACK in flight, an ACK flag, or a segment coming that will be
  answered. It relates the two blocks and the network.
- `SentCallbacksTrue` (`ReportedIsReceived` and `ReportedIsAcked`): the `sent` callbacks announce only what
  the peer has received, all of what was acknowledged, and never SYN or FIN.
- `PrefixDelivered`, `ImplementsByteStream`: the application takes what was
  written. The second is the refinement: every handler, whatever it does inside, is
  for the two applications one step of `ByteStream` or none. That includes: no end of
  stream before the data, nothing taken after it, no write after a close.
- `StreamExact` (`StreamTaken` and `EndIsExact`), `OoseqSound`, `WindowExact` (run `segments`): after
  any sequence of overlapping segments the application has each byte up to `rcv_nxt`
  once; it was told of the end exactly if `rcv_nxt` has passed the FIN, so that no FIN is
  lost or kept by a cut; the out-of-order queue is sorted, disjoint, wholly beyond
  `rcv_nxt`, and only its last segment has a FIN; `rcv_wnd` is what the buffer has left, or wrapped by one
  when a FIN that waited joins at a full buffer.
- `FailsOnlyAfterLoss`, `WrittenIsTaken`, `ConnectionEnds`: once data was exchanged
  only loss makes a connection fail; what was written is taken in the end; both blocks are freed.

- `TimersExact`, `ClockServes`: a delay lasts as long as asked, a flag stands for expiries
  of this timer that were not reported, an automatic timer keeps its phase, a protocol's timer
  never runs early; and each of them happens.
- `KeysInOrder`, `KeysFiltered`: codes come out once and in order while the ring is not
  overrun; a press or release is taken after enough equal readings in a row, and always then.
- `ArpTableSound`, `SentRightly`, `QueuesDrain`: one entry per address and no block of the queues
  lost; packets go to the right host, in order, none past an earlier one that waits; what waits
  goes in the end.
- `ReassAccounted`, `RightOneEvicted`, `DatagramsExpire`: the pbuf count and the blocks are exact;
  room is never made by freeing the datagram of the fragment, nor a younger one before an older;
  nothing stays for ever.
- `RingInStep`, `ReceiverServes`: until the driver follows a wrong address, and again from the next reset that
  succeeds, no frame that is still to be copied lies in the room the
  controller may write, `NextPacketPtr` is where the oldest is, `ERXRDPT` is odd and just before it. A
  controller that stops, or that a wrong address left without room for a frame, receives again: the next bad status or the
  idle polls lead to a reset. Frames are taken or lost in a reset.
- `BoardTypeOK`, `ResourcesTypeOK`: ranges, of which those of subtractions and indices without a
  test are the point.

Each property has a mutant in `PROJECT.json`, a small plausible bug written beside
the definition it changes (its comment starts with "Mutant" or "Bug"), under which its run fails.

### What the violation runs show

These state what a comment, an option's text or an assertion of the code says,
and TLC finds an execution of the code that disagrees.

- `graceful`, **a FIN acknowledged before it was sent** (`tcp_in.c:744` and 732,
  761, 771). In the closing states `ackno == snd_nxt` is taken for the ACK of the
  FIN. When the peer's window was closed, `tcp_close` left data and FIN in
  `unsent`, and `snd_nxt` is before them: the block goes to FIN_WAIT_2 or, in
  LAST_ACK, is freed with its data, and the application hears nothing.
- `eof`, **the end overtakes refused data** (`tcp_in.c:355`). A segment with data
  and FIN whose data the application refuses causes both `refused_data` and
  `recv(NULL)`.
- `holes`, **a datagram with a hole** (`ip_frag.c:357`). The edge between a fragment and
  the one before it is compared only when the fragment is the last of the list. With
  fragments 0, 3, then 2 of four, the datagram is passed on without unit 1.
- `late`, **an answer for a shorter name** (`dns.c:505`). `dns_compare_name` stops where the response
  ends. A late or repeated answer for `www` that meets an entry which now asks for `www.foo` is taken, and
  the application is told the address of `www`; the comment says that the comparison is there against such answers.
- `lost`, **a request without a callback** (`dns.c:855`). An answer with an error marks the entry as done (784), calls
  the callback, and then flushes the entry. A request that the callback makes while no other entry is free gets this one, is
  told `ERR_INPROGRESS`, and vanishes with the flush.

Seen while modelling, without a run of their own (the number of runs is kept to a dozen). Of TCP:

- The window wraps (`tcp_in.c:1311`): a segment with its FIN one beyond the window, which `tcp_output` of this stack sends
  (`tcp_out.c:586`), is kept in `ooseq`; when it joins and its bytes have filled the buffer, the FIN is taken from a `rcv_wnd` of 0.
  The assertion that it is not (1309) is compiled to nothing. `WindowExact` and its theorem say that this is the only wrap, that it is by
  one, and that `tcp_recved` undoes it.
- The limit of retransmissions is jumped (`tcp.c:660`): `nrtx == TCP_MAXRTX` is an equality, and `tcp_rexmit`, called for
  every SYN repeated in SYN_RCVD (`tcp_in.c:710-713`), counts `nrtx` without a test. Past the limit the block is never
  given up. `opt.h:767` speaks of the "maximum number of retransmissions of data segments".
- A delayed ACK is dropped (`tcp_out.c:596`): with a short segment in `unsent` that fits but
  that Nagle's rule holds back, `tcp_output` sends neither it nor the empty ACK, and
  `tcp_fasttmr` clears both flags. The peer has to time out.
- `tcp_fasttmr` clears the ACK flags even when the ACK could not be allocated
  (`tcp.c:910`). No property catches this: those of RcvWindow end with `missed`, and no allocation fails in the run
  of `AckOnItsWay`.
- `pcb->acked` keeps its value when `tcp_process` returns early (a repeated SYN,
  `tcp_in.c:608`), and `tcp_input` then repeats the last `sent` callback. It takes a
  duplicated SYN; `twoway`, which has none, shows that nothing else does it.
- The byte of a window probe is taken by the receiver but not counted by the sender
  (`snd_nxt` is not moved), so the ACK that covers it is ignored as one for data never
  sent, until the segment itself is sent. `AckOnItsWay` excludes that byte.
- Data that waits out of order is given up more often than it must: a segment that
  starts inside a queued one cuts it, though the queued one reaches further
  (`tcp_in.c:1411`), and data in order is cut at the start of a queued segment it has just
  replaced (`tcp_in.c:1261`, read from freed memory). None of it was acknowledged, so the
  peer sends it again and `StreamTaken` holds.
- When the SYN-ACK comes, `nrtx` is reset only if segments remain unacknowledged
  (`tcp_in.c:652-658`), so retransmitted SYNs count against the limit for data.
- A connection that is given up sends no RST (`tcp.c:777` ff.); the peer finds out
  for itself.
- Data refused in the segment that moves the block to TIME_WAIT stays in
  `refused_data`; nothing offers or frees it any more.
- `tcp_slowtmr` unlinks a block before it calls its `errf` (`tcp.c:801-803`). A connection opened
  there goes to the head of the list and is dropped from it by the next removal, for which the walk
  still has no predecessor: `EachBlockHasItsPlace` fails with `Reconnects` TRUE, and the run has FALSE.
- A poll callback that aborts its own connection makes `pcb->next` that of a free block: NULL, so
  the slow walk ends early (`cut` in TcpPool). After a poll or recv callback that closes, `tcp_output`
  may be called for a block that was freed. The callbacks of TcpPool abort and close their own connection and open others;
  that one aborts *another* connection, the next of the walk for instance, is not modelled.
- `tcp_alloc` for a SYN is given `lpcb->prio`, which `tcp_listen_with_backlog` never sets (any value
  in the model); and `tcp_kill_prio`, of which the comment says "lower priority", also kills an equal.

Of the other parts:

- *ARP*: `etharp_query` returns `ERR_OK` for a packet it dropped (`etharp.c:1266`).
- *Reassembly*: `ip_reass_remove_oldest_datagram` advances `prev` to every datagram that has a successor
  (`ip_frag.c:241`), so that it may be the oldest itself, against the assertion at 162. If that is the first of the list, it is
  unlinked all the same; if not, which takes three datagrams (`MEMP_NUM_REASSDATA` is 5 here), it is freed and stays linked
  (`dangling` in IpReass, where the model stops). The flag that the last fragment came is set before the fragment is discarded as
  an overlap (`ip_frag.c:551`), so a datagram cut in two ways may end early.
- *DNS*: besides the runs `late` and `lost`: `dns_compare_name` also reads on where the name of the entry ends, so that an
  answer for a longer name is taken if the buffer still holds its end (`rest`). An error callback that asks for the same name again
  finds its entry marked as done (784) and is answered, with `ERR_OK`, an old or zero address. An answer with a TTL of 0
  wraps and stays for good (696). Once `dns_seqno` has wrapped, ages are negative, and the table counts as full
  though entries are completed (895-905). All requests share `dns_pcb`, connected to the server asked last: the
  answers of the other are dropped. In this program nothing calls `dns_tmr`, so a query that is lost is never repeated.
- *Keys*: the code of a long key is put when the count is reached exactly (`bsp_key.c:314`), once.
- *Clock*: nothing reads `g_iRunTime` (`bsp_ticktimer.c:88`), whose reset at its maximum would make intervals wrong.
- *Controller*: `ENC28J60_Full_Reset` writes 0 to `ERXRDPT` (`enc28j60.c:493`, 545) although the errata cited at 422 allow
  odd values only. An idle network resets a healthy controller every 1000 polls. A reset that fails is noticed
  by nobody until the next 1000. `ENC28J60_Packet_Send` waits for TXIF without limit (333). The length of a frame is
  reduced by 4 without a test and, if it wraps, cut to the buffer.
- *Main loop*: the case of key K3 has no break and falls into the reset of the controller (`main.c:292`).
- *Echo server*: it credits the window before it writes, ignores a write that fails, and echoes only the first
  pbuf of a chain (`lwipdemo.c:228`).

## Bounds

The instances scale the board's values (`TCP_WND` 4 segments, `TCP_SND_BUF` 8,
`TCP_SND_QUEUELEN` 40): `MSS` 2, `TCP_WND` 4 (6 in `faults` and `segments`),
`TCP_SND_BUF` 6, queue length 3 or 4.
With two bytes to a segment a segment can be cut in the middle and be half
within a window; with a window of two segments one can be lost, a second arrive
out of order, and a third be blocked; the send buffer exceeds the window, so that
data waits in `unsent`. With a window of six two segments wait out of order, one of them
with the FIN. `TCP_SND_QUEUELEN` is small enough to be reached. Named bounds of the runs of a connection:

- `ClientData`, `ServerData`, `WriteSizes`: at most 6 bytes (3 segments) one way, and 4
  against 2 both ways.
- `NetCap`: segments on their way to one end. A full link loses what is put on it;
  in `twoway` (7) and `slow` (6), whose properties depend on nothing being lost, it is
  high enough never to be exceeded.
- `MaxLoss`, `MaxDup`, `MaxEarly`: how often the network loses or repeats a segment
  and a timer expires while segments are on their way (a delay longer than the timeout).
- `TCP_MAXRTX`, `TCP_SYNMAXRTX`: 3 and 2 (12 and 6 in `opt.h`), or 1 and 0 in `slow` so
  that two losses reach them; `nrtx` is followed to one beyond the limit.
- `StreamLen` 8, `MaxSeg` 5 in `segments`: a window and more, and segments that cover
  several queued ones; up to four wait in `ooseq`.
- `U16` 64, `U8` 6, `MaxBackoff` 2: the widths of the 16-bit and 8-bit fields and the
  length of `tcp_persist_backoff`.

Three duplicate ACKs, hence fast retransmission, occur in `faults`, where every
reordered segment is answered. Only the client connects; the server has one block.

Some runs keep away from an execution that a violation run shows, because it would
end every other question:

- in `twoway`, `faults` and `slow` applications do not refuse (`eof`);
- `failures` checks `PrefixDelivered`, not `ImplementsByteStream`, which the same execution violates;
- nobody closes in `slow`, so that the FINs of `graceful` and of the wrap at `tcp_in.c:1311` do not occur; the wrap is in `segments`.

Of `resources`:

- *window*: `TCP_WND` 6, `MSS` 2, so that the two thresholds of an update differ from each other and
  from the buffer; `MaxSeq` 9, a window and more (the proof has no bound).
- *blocks*: three (`MEMP_NUM_TCP_PCB` is 5), one to walk from, one to visit, one to be killed; `TimeWait` 0, so that ages
  matter only where the code compares them.
- *heap*: 12 bytes, headers of 1, least size 2, requests of 1 (rounded up), 3 and 4: three blocks side by side,
  holes too small for a request, remainders too small to be split off.
- *pbufs*: two of the pool, one of ROM, lengths 1 and 2 and buffers of 1, so that chains are made by allocation and by
  joining, up to three long; one reference of a caller to each besides the link. A RAM pbuf is like a pool pbuf alone.
  The proof has no bound.
- *names*: three names, one of which begins with another; two entries, two servers, two retries, one query under way; `dns_seqno`
  and `ttl` modulo 2, so that both wrap. Callbacks ask again on a timeout, an answer and an error. `late` and `lost` need
  one entry.

Of `board`:

- *clock*: 2 interrupts for 10 ms, `lwip_timer` modulo 5 against an interval of 2, a period of 3, delays of 0, 1
  and 3, at most `MaxStall` 3 interrupts in a pass: everything wraps, and an automatic timer can expire twice before anybody looks.
- *keys*: one key (the code treats each alone, the ring is shared by its three codes), filter 2, long after 1, repeated every 2,
  ring of 3.
- *interface*: three hosts for a table of two, ages 2, two queue blocks, one pbuf.
- *reassembly*: three datagrams of three units, one cut in several ways, against two blocks and three pbufs, with which no
  freed datagram stays in the list; `holes` needs four units.
- *controller*: a ring of 12 with frames of 4 and 6, so that frames wrap at different places; `EPKTCNT_MAX` 2 (255), as
  many as fit; only with a wrong `ERXRDPT` would there be more, over each other; a reset after 2 idle polls.

## Fairness

`FairSpec` of TcpConn is weak fairness of each action that the main loop or a correct
application performs for ever, with the condition written out (`SlowTmrDue`,
`ShutDue`, ...) since TLC evaluates it faster than `ENABLED`:

- `Open` and `Deliver`: the loop polls the driver at every turn. `Lose` and
  `Duplicate` have none.
- `SlowTmr`, `FastTmr`: `tcp_tmr` is called whenever 250 ms have passed, for ever. A
  slow tick is demanded only once the network is quiet: a retransmission time is longer than a
  round trip.
- `Read`, `Shut`: an application that takes data reads it, and one that wants to
  close, or was told of the end, closes. Nothing demands that it writes.

In Resources only the fast timer of the window is fair (`WndFairness`), over the window's own
variables: `tcp_tmr` runs for as long as the program does. Board has weak fairness of
the interrupt, of the key scan it makes, of the timers of ARP and reassembly, and of the main loop (its own steps, `bsp_GetKey`,
the poll of the driver); not of frames, hosts, the application or a hand on a key. The
fairness of several parts is written as one disjunction: since only one part ever moves, it is
fairness of that part's disjunct. The controller needs strong fairness of `Initialize`: a reset that is
tried again and again succeeds once; a controller that never answers is beyond the program. `CHECK_DEADLOCK` is off in
TcpConn alone: a connection that was closed, or whose bounded budget is spent, does stop.

## Proofs

`tlapm` checks the eight proof modules from nothing. All constants are arbitrary within the
named assumptions of the modules: any window, heap, pool, clock, period or size.

**RcvWindow_proofs.** `WindowInvariant` is `WndSpec => []WindowInv`. Neither
`PromiseKept` nor `WndTypeOK` is inductive alone: that `rcv_ann_wnd` fits in sixteen
bits needs that the announced edge lies within the free buffer, which needs that
the announced window was computed from the present `rcv_nxt` and `rcv_wnd`, which
needs the conservation of the buffer to bound what may be credited. `WindowInv` is
their conjunction. One lemma per operator of the model says that it maps a sound
block to a sound block and what it does to the edge and to the flags; one step per
action composes them. From it follow

- `TypeCorrect`, `BufferConserved`, `PromiseAlwaysKept`, `AnnouncementUpToDate`;
- `EdgeMonotone`, the action property, by showing for each handler that the block it leaves
  announces no less (`Later`);
- `NothingLeftUnsaid` (`UnackedIsPending` and `OpenWindowIsAnnounced`), with a second invariant
  (`AckInv`, `PendingInv`) that holds while nothing was missed: a change of `rcv_nxt`
  sets a flag, and flags are cleared only by a segment that left. It is needed because the
  second property follows only if every credit since the last announcement was below
  the threshold.

**Resources_proofs**, the heap. `MemInv`: the list is linked both ways, in order, each area at least the least size, and *every byte
of the heap lies in an area of it*; no two holes are neighbours; `lfree` is the lowest hole. The clause about every byte is what a list
invariant of the kind one first writes down lacks: without it a search that finds nothing proves nothing, and a hole that is
freed is not known to have a neighbour. Lemmas say of each way to change the list (`Placed`, `Unlinked`, `Marked`) that it stays a list, and
of each function what it does to holes. `HeapKeepsItsPromise` is the refinement `MemSpec => ImplementsHeap`; its hard case is the refusal
(`RefusesInNeed`), where any gap between blocks is shown to lie within one hole.

**Resources_proofs**, pbufs. `PbufInv`: each pbuf has one link to it at most, the tail to be joined none, the count is exact, and *what the
loop owes*: the pbufs before the present turn have been changed and those after it have not, so that the total lengths are off by a known amount at
exactly one link (`LengthsOwed`). That is why the loops are modelled a turn at a time: the invariant of the loop takes the place of an
induction along the chain. `PbufsStaySound`, `PbufTyped`.

**Board_proofs**, clock. `ClockInv` has a part for each thing that interrupt and loop share. Each says exactly what the history knows: the count of a delay is what is left of
it, that of a timer what is left of its period, `timer_expired` computes the time since it remembered the clock until the interval
has passed. `TimersAreExact` and the four theorems it joins.

**TcpBlock_proofs, TcpLife_proofs.** Lemmas about the operators of TcpWnd, TcpOut, TcpApi and TcpIn, one or a few for each function of the code. They say
which fields a function changes (`Changes(p, q, S)`) and what it keeps of these parts of a block, where the own stream begins at `fb` and holds `w` bytes and, if `c`, the FIN, and the
peer's is `fr` up to `lim` and, if `d`, its FIN:

- `Snd(p, fb, w, c)`: every segment in `unsent`, in `unacked` and on its way out holds bytes that were written, or the FIN behind all of them, or the SYN before them. So whatever order
  retransmissions, partial sends and fast retransmits bring the queues into, nothing leaves that the application did not write.
- `OoseqOK(p, lim, d)`: the out-of-order queue is sorted, overlaps nowhere, begins after `rcv_nxt`, lies within the peer's stream and has a FIN only at its end. Each way of trimming
  keeps this (`InOrderStep`, `OutOfOrderStep`), which is where the loops over the queue come in: they are recursive functions over an index, and what holds of them is shown by induction
  with a set in place of a predicate (`IndexInduction`, from the well-foundedness of `<`).
- `Got(p, start, lim, d)`: within one handler, `recv_data` is the run of the peer's bytes from the `rcv_nxt` the handler began with, and a FIN was noted exactly if `rcv_nxt` went past it.
- `Own` and `Their`: what holds of the two sides in each state of the connection; in particular that `taken`, then `refused`, then `recv_data` is one run of the peer's bytes up to `rcv_nxt`,
  that the states after the peer's FIN have `rcv_nxt` beyond it, and that the states of an end that closed are those with its FIN queued. `Both` is their conjunction, `Idle` what holds of it
  between two handlers.

`ProcessBoth` goes through `tcp_process` state by state, `ActiveInputBoth` through the whole of `tcp_input` with its callbacks: it may offer refused data first, and close, reset or be
aborted at every callback.

**TcpConn_proofs.** `ConnInv`: both ends are `Idle` with respect to *what the other has written until now*, and every segment on its way to an end is one that the other could send now. It is inductive because an
end's knowledge of its peer is monotone (`TheirGrow`, `IdleGrow`) and the network adds nothing (`PutDomain`, `NetworkInv`). `CommitInv` is the end that all handlers share; then one lemma per action.

- `ConnInvariant`, `PrefixAlways`: the application of each end has taken a prefix of what its peer wrote, for every amount of data, size of window, segment and buffer, capacity and behaviour of the
  network, and application.
- `StreamImplemented`: `Spec => ImplementsByteStream`. Each action lemma also says what the step does to what the applications see (`Served`: nothing, or `Heard`: bytes and possibly the end,
  with a close in the callback; or `Lost`: the error callback), and `StreamStep` maps that to a step of ByteStream or a stutter. Its hypothesis is that the receive callback never refuses
  data (`"refuse" \notin Answers`): with refused data the end of the stream is told before the data is taken, which is the finding of run `eof`. `ConnInvariant` and `PrefixAlways` need no such hypothesis.

**TcpReceiver_proofs.** `RInv`, the same block against a peer that need not run this stack. What it adds to the above is the right edge of the buffer, `Edge(p) = rcv_nxt + rcv_wnd`. Taking
data moves `rcv_nxt` and `rcv_wnd` by the same amount and leaves it, `tcp_recved` moves it by what is given back, and announcing the window leaves it; so it is always what the application took and has not given
back short of a full window beyond what was taken. From this follow

- that the bytes of a segment within the announced window fit into the buffer with all they overlap, and those of one in order after the trimming (`FitsTheRoom`, `StrippedFits`); only a FIN may
  be one beyond. `Bound(p)` is where the buffer ends by what the application took and gave back, and the edge is there, or, if the FIN was taken at a full buffer, one beyond with `rcv_wnd` wrapped. So `rcv_wnd`, which
  the code decreases without a test as an unsigned field of sixteen bits, wraps in this case only, and the credit of `tcp_recved` wraps it back. That is `WindowAlwaysExact`;
- the place of the end: a queue that fits in the room the buffer has of the stream (`Room`), with the FIN only if there is room beyond it (`RoomForFin`), is in place of `lim` and `d` above. The queue then needs no
  look at what the peer is yet to send, and `StreamAlwaysExact` and `OoseqAlwaysSound` follow as for a connection.

The peer is that of the module (its bytes keep to the announced window but for a segment in order, which may be longer, and its FIN is not counted) and the
application takes data at once or later; refused data is in TcpConn and RcvWindow. `ReceiverInvariant` holds for every stream, segment and buffer size, and starts with the handshake: that
`tcp_listen_input` sends its SYN, so that the ACK of it is acceptable, is `SynAnswered`.

**ByteStream_proofs.** `StreamInvariant` and `StreamDelivers`: each end of a byte
stream has taken exactly the bytes `1..n` of its peer, all of them once it was told of the end. Together with
`StreamImplemented` this says what that refinement buys.

**Resources_proofs**, the pool (TcpPool). `SoundPool` says of each block where it is (`PlacedAt`): in the pool, on the one list of its state,
unused in an application's hands, or *in the hand* of the function that moves it, so that the parts of `tcp_connect`, `ToTimeWait` or `Abandon`
have something to keep between them. What a head leads to is a list (`IsList`) if nothing leads back to the head and no two blocks to one; from these
two alone, without numbering the blocks of a list, follow what `TCP_REG`, `TCP_RMV` and the unlinking by `prev` leave of it. `WalkRight` is what the walks need: the
block to be visited is on the list, `prev` is the one before it, and what is due is exactly what the block leads to. That is inductive only because a
callback takes off at most the block it is called for, and puts none on. An error callback of `tcp_slowtmr` that connects puts one on in front of a walk without predecessor;
hence the hypothesis `Reconnects = FALSE` of `PoolInvariant`, which is what is told of `tcp.c:801` above. `PoolTypesKept` needs no hypothesis.

**Resources_proofs**, the DNS client. `SoundTable`: the counters of an entry that asks are in their ranges. Each function of the client is shown to
*ask more* (`AsksMore`: what asked before asks on with the same counters, or was told of its end) and each look of `dns_tmr` to take one from
what is left (`LookShortens`, with the product of servers and retries), which is `DnsRequestsEnd`. `Right` relates the addresses of the table and of what was told to
their names, or to names of which one begins with the other (`AddressesOfNames`): whatever `dns_compare_name` accepts is so related. An entry that asks keeps `Old`,
and one that is marked as done without an address is done only within the handler; `DnsAddressesRight` follows for any names and callbacks that ask on every occasion, with no hypothesis on either. That the
name for which `ERR_INPROGRESS` was returned has an entry is the other half of `DnsRequestsEnd`: the one exception, named in the property, is shown to be the only one.

**Resources_proofs**, all of them. The parts share no variable, so a step of the program is a step of one and none of the others (`ResourcesStep`); hence the specification of each
holds of the program (`EachRuns`), and what was proved of a part of the whole: `ResourcesTypes`, `ResourcesPromises`, `ResourcesSteps`, `ResourcesPool`, `ResourcesNames`.

**Board_proofs**, the interface. `Sound` (the table), `SentSound` (what was sent) and `PbufsSound` of the interface. That packets to a host leave in order is proved by giving each packet its number among those
for its host: those sent and those queued on the host's entry are all of them, and the place in the queue is the number less what was sent. The blocks of the queues are counted
with the cardinality of what is queued on each entry.

**Board_proofs**, keys. The ring, from its read to its write index, holds the codes that were put and not got (`RingHolds`); the main loop's copy of the index is right wherever the interrupt comes in (`GetKnows`);
the counters of a key say how long it was up or down (`BtnKnows`). The run has one key, the theorems any number.

**Board_proofs**, reassembly. The list has the newest datagram first, so that the timers fall along it and the oldest is the last; the blocks and pbufs that are not free are those of the datagrams in
the list (`RecordSound`, with the set of those not freed yet as a parameter, so that the loops have an invariant). `ReassAccountedFor` says that this holds until a datagram that is its own predecessor is freed and stays in the list, which takes
three blocks; the run `board` has two, where it never happens.

**Board_proofs**, controller. Places in the ring are compared by their distance from the oldest unread frame, in the direction in which the controller writes (`Laid`); `RoomGiven`: `ERXRDPT` is just before that frame, or
nothing was read; `DriverKnows`: at each access of the driver, where the first frame is and what of it was read. These are claimed while no wrong address was followed since
the last reset (`~enc.stray`); of the rest of the time the invariant keeps only the ranges, which is enough for `Initialize` to establish all of it anew. From these, `RingStaysInStep`, with a controller
that may damage any header with or without a sign of it.

**Board_proofs**, the board: as for Resources (`BoardInvariant`, `BoardTypes`, `BoardPromises`, `BoardSteps`).

Only model-checked: of TcpConn the accounts of the sender and what relates the two ends' numbers (`TypeOK`, `QueuesSound`, `SendBufferAccounted`, `TimerRuns`, `SentCallbacksTrue`,
`WindowRespected`, `AckOnItsWay`, `FailsOnlyAfterLoss`): `ConnInv` says which bytes the queues hold, not that they hold each once, and sums over them need an induction of their own;
and all liveness
(`AckEventually`, `KeysFiltered` beyond its safety part, `QueuesDrain`, `DatagramsExpire`, `ReceiverServes`, `ClockServes`,
`WrittenIsTaken`, `ConnectionEnds`), since the prover has no rule for fairness.

## What is not modelled

- Of TCP: keepalive as a timer, RTT estimation and the values of timeouts, options,
  urgent data, checksums, wrap of sequence numbers, ports, `tcp_listen` backlog, `tcp_abort` of a block that is only bound
  (which leaves it on `tcp_bound_pcbs`).
- An error returned by `ip_output`, which the code ignores: to TCP it is a lost segment.
- Of the driver: `ENC28J60_Packet_Send`, the SPI transfers with the shadow of the register bank (it is right again after a soft reset
  because the first access then is to a register of every bank), the PHY.
- Of the interface: transmission, and the loopback queue, a plain list of single pbufs.
- Of IP: `ip_frag` and the headers, which keep nothing between calls but a counter.
- UDP, RAW and ICMP: a lookup per datagram.
- Of DNS: the encoding of messages, `dns_setserver` while requests are out.
- `memp.c` beyond the pools as sets; `pbuf_copy`, `pbuf_take`, `pbuf_dechain` and `pbuf_coalesce`, which nothing built here calls.
- The demo applications and the web server: parsing and text. Their use of the raw API is within what the applications of
  TcpConn and TcpPool may do.
- Everything that is not built (`NO_SYS` 1, no DHCP, IGMP, AutoIP, SNMP, PPP, IPv6), and what is not the network stack: by far the most of the
  repository's lines are vendored code (FAT, uIP, the STM32 library), tables of fonts and code pages, and pages of the web server as data. The
  share of all lines that these modules cover is small for that reason.

## Plan

Done, in this order: the window with its proofs; one connection end to end; the byte stream and the refinement; the receiver
against any peer; the pool of blocks; clock and keys; ARP and the interface; reassembly; the driver; the heap with
its proofs; pbufs with theirs; the DNS client; then the proofs about
the DNS client, the interface, the keys, reassembly, the controller, the pool of blocks,
about Board and Resources as wholes, about one connection, up to the refinement, and about the receiver against any peer.

What could follow: proofs about the accounts of a connection. `SendBufferAccounted` needs lemmas about sums over `unsent` and `unacked` across
enqueue, output and acknowledgement; `WindowRespected` follows from `PromiseKept` of each end and the segments under way. Transmission through
the controller, with the wait for TXIF; the loopback queue; the telnet and web servers as instances of TcpConn's application.
