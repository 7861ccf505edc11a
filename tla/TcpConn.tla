------------------------------- MODULE TcpConn ------------------------------
(***************************************************************************)
(* One connection between two hosts that run this stack, over a network    *)
(* that loses, duplicates and reorders segments.                           *)
(*                                                                         *)
(* The main loop runs one thing at a time to its end: tcp_input for a      *)
(* frame, tcp_slowtmr, tcp_fasttmr, or a call of the application.  Each is *)
(* one action; the segments it hands to IP are then on their way.  The     *)
(* client connects once; the server has one control block for it, so that  *)
(* a SYN that comes later finds no block (tcp_alloc fails).                *)
(*                                                                         *)
(* The counters of ticks (rto, persist_cnt, polltmr, tmr) are left out: a  *)
(* running timer may expire at any tick.  Delay is bounded, however: a     *)
(* timer expires while segments are on their way at most MaxEarly times.   *)
(***************************************************************************)
EXTENDS TcpIn, BagsExt, Bags

CONSTANTS
  Client, Server,
  TCP_MAXRTX, TCP_SYNMAXRTX,
  ClientData, ServerData,  \* bounds: the bytes each end writes
  WriteSizes,   \* the sizes it writes them in
  Copies,       \* whether tcp_write copies the data
  Flushes,      \* whether tcp_output is called after it
  Answers,      \* what the application answers to new data, cf. TcpIn
  Closers,      \* the ends whose application closes of its own accord
  CloseAtEof,   \* whether it closes when told of the end
  Accepted,     \* the answers of the accept callback
  NetCap,       \* bound: segments on their way to one end
  MaxLoss,      \* bound: segments lost
  MaxDup,       \* bound: segments duplicated
  MaxEarly,     \* bound: timers expired while segments were on their way
  MemFail,      \* may allocations fail?
  Stuck         \* may the timeouts of a connection that stands still expire?

Ends == {Client, Server}
Peer(e) == IF e = Client THEN Server ELSE Client

MaxData(e) == IF e = Client THEN ClientData ELSE ServerData

(* tcp_next_iss; the numbers differ so that they cannot be confused. *)
Iss(e) == IF e = Client THEN 20 ELSE 50

(* The sequence number of the first byte: the SYN of tcp_connect takes
   iss - 1, that of tcp_listen_input takes iss. *)
FirstByte(e) == IF e = Client THEN Iss(e) ELSE Iss(e) + 1

ASSUME ConnAssumption ==
  /\ Client # Server
  /\ TCP_MAXRTX \in Nat /\ TCP_SYNMAXRTX \in Nat
  /\ ClientData \in Nat /\ ServerData \in Nat /\ WriteSizes \subseteq Nat \ {0}
  /\ Copies \subseteq BOOLEAN /\ Flushes \subseteq BOOLEAN
  /\ Answers \subseteq {"consume", "take", "refuse"}
  /\ Closers \subseteq Ends /\ CloseAtEof \subseteq BOOLEAN /\ Accepted \subseteq BOOLEAN
  /\ NetCap \in Nat /\ MaxLoss \in Nat /\ MaxDup \in Nat /\ MaxEarly \in Nat
  /\ MemFail \in BOOLEAN /\ Stuck \in BOOLEAN

VARIABLES
  tcb,     \* the control block of each end, cf. TcpOut and TcpApi
  net,     \* the segments on their way to each end
  opened,  \* the ends that have had a control block
  faults   \* what the network and the timers did so far

vars == <<tcb, net, opened, faults>>

InFlight == \E e \in Ends : net[e] # EmptyBag

Memory == IF MemFail THEN BOOLEAN ELSE {TRUE}

(* What is left after n of a budget was used. *)
Spend(kind, max) ==
  /\ faults[kind] < max
  /\ faults' = [faults EXCEPT ![kind] = @ + 1]

(* A link that is full loses the segment. *)
Carry(bag, s) == IF BagCardinality(bag) < NetCap THEN BagAdd(bag, s) ELSE bag

Put(bag, segs) ==
  LET after[i \in 0..Len(segs)] ==
        IF i = 0 THEN bag ELSE Carry(after[i - 1], segs[i])
  IN  after[Len(segs)]

(* The handler of e is done with its block: p.out is on its way.  "queue" is
   what remains on the way to e. *)
Commit(e, p, queue) ==
  /\ tcb' = [tcb EXCEPT ![e] = [p EXCEPT !.out = <<>>, !.mem = TRUE]]
  /\ net' = [net EXCEPT ![e] = queue, ![Peer(e)] = Put(@, p.out)]
  /\ opened' = IF p.state = "CLOSED" THEN opened ELSE opened \cup {e}

Init ==
  /\ tcb = [e \in Ends |-> Blank]
  /\ net = [e \in Ends |-> EmptyBag]
  /\ opened = {}
  /\ faults = [loss |-> 0, dup |-> 0, early |-> 0]

-----------------------------------------------------------------------------
(* tcp_input: which block, or whom, a segment is for *)

Input(e, p, s, cb) ==
  CASE p.state = "TIME_WAIT" -> TimewaitInput(p, s)
    [] p.state = "CLOSED" /\ e = Server ->
         ListenInput(p, s, Iss(e), e \notin opened)
    [] p.state = "CLOSED" /\ e = Client -> ClosedInput(p, s)
    [] OTHER -> ActiveInput(p, s, cb)

(* What it answers to data it refused before. *)
Again(p) == IF p.refused = <<>> THEN {"consume"} ELSE Answers

Callbacks(p) ==
  [accept : Accepted, recv : Answers, eof : CloseAtEof, again : Again(p)]

Deliver(e) ==
  \E s \in DOMAIN net[e], cb \in Callbacks(tcb[e]), m \in Memory :
    /\ Commit(e, Input(e, [tcb[e] EXCEPT !.mem = m], s, cb),
              BagRemove(net[e], s))
    /\ UNCHANGED faults

Lose(e) ==
  \E s \in DOMAIN net[e] :
    /\ Spend("loss", MaxLoss)
    /\ net' = [net EXCEPT ![e] = BagRemove(@, s)]
    /\ UNCHANGED <<tcb, opened>>

Duplicate(e) ==
  \E s \in DOMAIN net[e] :
    /\ Spend("dup", MaxDup)
    /\ net' = [net EXCEPT ![e] = BagAdd(@, s)]
    /\ UNCHANGED <<tcb, opened>>

-----------------------------------------------------------------------------
(* tcp_slowtmr and tcp_fasttmr *)

(* The retransmission timer expired. *)
Timeout(p) ==
  LET half == Lesser(p.cwnd, p.snd_wnd) \div 2
  IN  RexmitRto([p EXCEPT !.ssthresh = IF half < MSS THEN 2 * MSS ELSE half,
                          !.cwnd = MSS])

(* Mutant of Persist: the table of intervals is overrun. *)
PersistUncapped(p) == ZeroWindowProbe([p EXCEPT !.persist_backoff = @ + 1])

(* The persist timer expired. *)
Persist(p) ==
  ZeroWindowProbe([p EXCEPT !.persist_backoff = Lesser(@ + 1, MaxBackoff)])

(* The retransmissions reached their limit. *)
GaveUp(p) ==
  \/ p.state = "SYN_SENT" /\ p.nrtx = TCP_SYNMAXRTX
  \/ p.nrtx = TCP_MAXRTX

(* The timer that runs, if one does. *)
Expire(p) ==
  CASE p.persist_backoff > 0 -> Persist(p)
    [] p.persist_backoff = 0 /\ p.unacked # <<>> /\ p.rtime >= 0 -> Timeout(p)
    [] OTHER -> p

(* The application is told; no delayed ACK and no RST is sent. *)
Removed(p) == [Freed(Purge(p)) EXCEPT !.failed = TRUE]

(* A tick for an active block: "late" says that the state timeouts expired,
   "stale" that the out-of-order data did, "poll" that it is polled. *)
SlowTick(p, late, stale, poll) ==
  LET q == IF GaveUp(p) THEN p ELSE Expire(p)
      r == IF stale THEN [q EXCEPT !.ooseq = <<>>] ELSE q
      overdue == late /\ q.state \in {"FIN_WAIT_2", "SYN_RCVD", "LAST_ACK"}
  IN  IF GaveUp(p) \/ overdue
        THEN Removed(r)
      ELSE IF poll THEN Output(r)
      ELSE r

(* A block in TIME_WAIT is freed after 2 * TCP_MSL, which the peer's
   retransmissions do not outlast unless the connection stands still.  Bound:
   nrtx, which may pass TCP_MAXRTX, is followed to one beyond it. *)
SlowTmr(e) ==
  \E m \in Memory, late \in {FALSE, Stuck}, stale \in {FALSE, Stuck}, poll \in BOOLEAN :
    LET p == [tcb[e] EXCEPT !.mem = m]
    IN  /\ p.state # "CLOSED"
        /\ p.nrtx <= TCP_MAXRTX + 1
        /\ IF InFlight THEN Spend("early", MaxEarly) ELSE UNCHANGED faults
        /\ IF p.state = "TIME_WAIT"
             THEN /\ ~InFlight
                  /\ Stuck \/ tcb[Peer(e)].unacked = <<>>
                  /\ Commit(e, Freed(p), net[e])
             ELSE Commit(e, SlowTick(p, late, stale, poll), net[e])

(* Refused data is offered again, then delayed ACKs are sent. *)
FastTick(p, answer) ==
  LET q == IF p.refused = <<>> THEN p ELSE Offer(p, p.refused, answer)
  IN  IF "TF_ACK_DELAY" \in q.flags
        THEN [AckNow(q) EXCEPT !.flags = @ \ AckFlagSet] ELSE q

FastTmr(e) ==
  \E answer \in Again(tcb[e]), m \in Memory :
    /\ tcb[e].state \notin {"CLOSED", "TIME_WAIT"}
    /\ Commit(e, FastTick([tcb[e] EXCEPT !.mem = m], answer), net[e])
    /\ UNCHANGED faults

-----------------------------------------------------------------------------
(* The application *)

(* The application of e holds a block it has not closed. *)
Holds(e) ==
  /\ tcb[e].state \notin {"CLOSED", "SYN_RCVD", "TIME_WAIT"}
  /\ ~tcb[e].closed

Open ==
  /\ opened = {}
  /\ Commit(Client, Connect(tcb[Client], Iss(Client)), net[Client])
  /\ UNCHANGED faults

(* tcp_write, then tcp_output or not. *)
Send(e) ==
  \E n \in WriteSizes, copy \in Copies, flush \in Flushes, m \in Memory :
    LET p == Write([tcb[e] EXCEPT !.mem = m], n, copy)
    IN  /\ Holds(e) /\ tcb[e].written + n <= MaxData(e)
        /\ Commit(e, IF flush THEN Output(p) ELSE p, net[e])
        /\ UNCHANGED faults

ShutDue(e) == Holds(e) /\ (e \in Closers \/ tcb[e].eof)

Shut(e) ==
  \E m \in Memory :
    /\ ShutDue(e)
    /\ Commit(e, Close([tcb[e] EXCEPT !.mem = m]), net[e])
    /\ UNCHANGED faults

Read(e) ==
  \E n \in 1..tcb[e].unread, m \in Memory :
    /\ tcb[e].state \notin {"CLOSED", "TIME_WAIT"}
    /\ Commit(e, Recved([tcb[e] EXCEPT !.mem = m], n), net[e])
    /\ UNCHANGED faults

Next ==
  \/ Open
  \/ \E e \in Ends : Deliver(e)
  \/ \E e \in Ends : Lose(e)
  \/ \E e \in Ends : Duplicate(e)
  \/ \E e \in Ends : SlowTmr(e)
  \/ \E e \in Ends : FastTmr(e)
  \/ \E e \in Ends : Send(e)
  \/ \E e \in Ends : Shut(e)
  \/ \E e \in Ends : Read(e)

Spec == Init /\ [][Next]_vars

Network == \E e \in Ends : Deliver(e)

(* When a tick, of a network that is quiet, changes something at e. *)
SlowTmrDue(e) ==
  LET p == tcb[e]
  IN  /\ ~InFlight /\ p.nrtx <= TCP_MAXRTX + 1
      /\ CASE p.state = "CLOSED"    -> FALSE
           [] p.state = "TIME_WAIT" -> tcb[Peer(e)].unacked = <<>>
           [] OTHER                 -> SlowTick(p, FALSE, FALSE, TRUE) # p

FastTmrDue(e) ==
  /\ tcb[e].state \notin {"CLOSED", "TIME_WAIT"}
  /\ tcb[e].refused # <<>> \/ "TF_ACK_DELAY" \in tcb[e].flags

ReadDue(e) ==
  tcb[e].unread > 0 /\ tcb[e].state \notin {"CLOSED", "TIME_WAIT"}

(* Weak fairness, with the condition of each action written out.  The main
   loop polls the driver and calls tcp_tmr for ever; the applications read
   what they took, accept refused data when it is offered often enough, and
   close. *)
FairSpec ==
  /\ Spec
  /\ []<>~(opened = {}) \/ []<><<Open>>_vars
  /\ []<>~InFlight \/ []<><<Network>>_vars
  /\ \A e \in Ends :
       /\ []<>~SlowTmrDue(e) \/ []<><<SlowTmr(e)>>_vars
       /\ []<>~FastTmrDue(e) \/ []<><<FastTmr(e)>>_vars
       /\ []<>~ShutDue(e) \/ []<><<Shut(e)>>_vars
       /\ []<>~ReadDue(e) \/ []<><<Read(e)>>_vars

-----------------------------------------------------------------------------
(* Properties *)

States == {"CLOSED", "SYN_SENT", "SYN_RCVD", "TIME_WAIT"} \cup Synchronized

QueuedSegment == [seq : Nat, len : 0..TCP_SND_BUF, fl : SUBSET {"SYN", "FIN"},
                  pb : 1..TCP_SND_QUEUELEN]

(* The control blocks are well typed; the 16-bit fields stay in range. *)
TypeOK ==
  \A e \in Ends : LET p == tcb[e] IN
    /\ DOMAIN p = DOMAIN Blank /\ p.state \in States
    /\ \A f \in {"snd_wnd", "snd_buf", "snd_queuelen", "cwnd", "ssthresh",
                 "acked", "rcv_wnd", "rcv_ann_wnd"} : p[f] \in 0..U16 - 1
    /\ \A s \in ToSet(p.unsent \o p.unacked) : s \in QueuedSegment
    /\ p.dupacks \in 0..U8 - 1 /\ p.persist_backoff \in 0..MaxBackoff
    /\ p.rtime \in {-1, 0} /\ p.out = <<>> /\ ~p.busy
    /\ p.recv_data = <<>> /\ p.recv_flags = {}

Active(e) == tcb[e].state \notin {"CLOSED", "TIME_WAIT"}

(* Every sequence number from the oldest unacknowledged one to snd_lbb is in
   exactly one segment of unacked and unsent, and both are sorted: what
   tcp_output, tcp_rexmit and the freeing loops of tcp_receive leave. *)
QueuesCoverUnacked ==
  \A e \in Ends : Active(e) =>
    LET p == tcb[e]
        all == p.unacked \o p.unsent
        covered(n) == {i \in DOMAIN all : n \in all[i].seq .. EndSeq(all[i]) - 1}
        sorted(q) == \A i, j \in DOMAIN q : i < j => q[i].seq < q[j].seq
    IN  /\ sorted(p.unacked) /\ sorted(p.unsent)
        /\ \A n \in p.lastack .. p.snd_lbb - 1 : Cardinality(covered(n)) = 1

(* snd_buf is the room that is left and snd_queuelen the pbufs in use, which
   never exceed the limit: what tcp_enqueue takes, the acknowledgement gives
   back. *)
SendBufferAccounted ==
  \A e \in Ends : tcb[e].state \in Synchronized =>
    LET p == tcb[e]
    IN  /\ p.snd_queuelen <= TCP_SND_QUEUELEN
        /\ p.snd_buf = (TCP_SND_BUF - (p.snd_lbb - p.lastack)) % U16
        /\ p.snd_queuelen = Pbufs(p.unacked) + Pbufs(p.unsent)

(* What is unacknowledged is in the queues once, and accounted for once. *)
QueuesSound == QueuesCoverUnacked /\ SendBufferAccounted

(* While something is unacknowledged, a timer runs that sends it again. *)
TimerRuns ==
  \A e \in Ends : tcb[e].unacked # <<>> =>
    tcb[e].rtime >= 0 \/ tcb[e].persist_backoff > 0

(* The application has taken a prefix of what the peer wrote: nothing is
   lost, duplicated or out of order, whatever the network does. *)
PrefixDelivered ==
  \A e \in Ends : LET got == tcb[e].taken IN
    /\ Len(got) <= tcb[Peer(e)].written
    /\ \A i \in DOMAIN got : got[i] = FirstByte(Peer(e)) + i - 1

(* recv is called with NULL once everything the peer wrote was taken and the
   peer has closed. *)
EofAfterData ==
  \A e \in Ends : tcb[e].eof =>
    tcb[Peer(e)].closed /\ Len(tcb[e].taken) = tcb[Peer(e)].written

(* The bytes of the peer that rcv_nxt has passed. *)
Received(e) == tcb[e].rcv_nxt - FirstByte(Peer(e))

(* The sent callbacks announce bytes only after the peer received them, and
   never the SYN or the FIN. *)
ReportedIsReceived ==
  \A e \in Ends : tcb[Peer(e)].state \in Synchronized =>
    tcb[e].reported <= Lesser(Received(Peer(e)), tcb[e].written)

(* The application that is still connected was told of every byte that was
   acknowledged. *)
ReportedIsAcked ==
  \A e \in Ends : tcb[e].state \in {"ESTABLISHED", "CLOSE_WAIT"} =>
    tcb[e].reported = tcb[e].lastack - FirstByte(e)

(* The sent callbacks tell the truth, of the peer and of the ACKs. *)
SentCallbacksTrue == ReportedIsReceived /\ ReportedIsAcked

(* rcv_wnd never goes below zero: tcp_in.c asserts before both places that
   take from it that enough is left. *)
WindowNotOverrun ==
  \A e \in Ends : Active(e) => tcb[e].rcv_wnd <= TCP_WND

(* No data is sent beyond the right edge the peer announced; a probe of a
   closed window carries the first byte beyond it. *)
WithinAnnounced ==
  \A e \in Ends : Active(e) => \A s \in DOMAIN net[e] :
    s.len > 0 => \/ s.seq + s.len <= tcb[e].rcv_ann_right_edge
                 \/ s.len = 1 /\ s.seq = tcb[e].rcv_ann_right_edge

(* The window holds at both of its ends. *)
WindowRespected == WithinAnnounced /\ WindowNotOverrun

(* Unless the network lost something, what e received and its peer does not
   know to be acknowledged has an ACK on its way, one that the timer will
   send, or a segment of the peer on its way that will be answered.  The byte
   of a window probe is not counted as sent, so its ACK is not awaited. *)
AckOnItsWay ==
  faults.loss = 0 => \A e \in Ends :
    LET p == tcb[e]
        q == tcb[Peer(e)]
    IN  p.state \in Synchronized /\ q.state \in Synchronized
       /\ p.rcv_nxt \in q.lastack + 1 .. q.snd_nxt
        => \/ p.flags \cap AckFlagSet # {}
           \/ \E s \in DOMAIN net[Peer(e)] : "ACK" \in s.fl /\ s.ack = p.rcv_nxt
           \/ \E s \in DOMAIN net[e] : TcpLen(s) > 0

(* Whoever closed and was not told of a failure has had everything it wrote
   received, and its FIN. *)
GracefulClose ==
  \A e \in Ends :
    /\ tcb[e].closed /\ ~tcb[e].failed
    /\ tcb[e].state \in {"CLOSED", "TIME_WAIT", "FIN_WAIT_2"}
    => \/ Received(Peer(e)) = tcb[e].written + 1
       \/ tcb[Peer(e)].eof

(* Once data was exchanged an application is told of a failure only when the
   network lost a segment: nothing that the two ends send each other in time
   resets the connection. *)
FailsOnlyAfterLoss ==
  \A e \in Ends :
    tcb[e].failed /\ (tcb[e].taken # <<>> \/ tcb[e].reported > 0)
    => faults.loss > 0

(* What was written is taken by the peer in the end; only if the network lost
   something may one of the two applications be told of a failure instead. *)
WrittenIsTaken ==
  \A e \in Ends :
    (tcb[e].state \in Synchronized /\ tcb[e].written = MaxData(e))
      ~> \/ Len(tcb[Peer(e)].taken) = MaxData(e)
         \/ faults.loss > 0 /\ (tcb[Client].failed \/ tcb[Server].failed)

(* The connection as its users see it. *)
Stream == INSTANCE ByteStream WITH
  A <- Client, B <- Server, Limit <- Max({ClientData, ServerData}),
  written <- [e \in Ends |-> tcb[e].written],
  taken   <- [e \in Ends |->
                [i \in DOMAIN tcb[e].taken |-> tcb[e].taken[i] - FirstByte(Peer(e)) + 1]],
  closed  <- [e \in Ends |-> tcb[e].closed],
  eof     <- [e \in Ends |-> tcb[e].eof],
  failed  <- [e \in Ends |-> tcb[e].failed]

(* Whatever is lost, repeated or late, every handler does to the two
   applications what one step of a byte stream does, or nothing. *)
ImplementsByteStream == Stream!Spec

(* Both blocks are freed in the end, whichever end closes first. *)
ConnectionEnds == <>[](\A e \in Ends : tcb[e].state = "CLOSED")

=============================================================================
