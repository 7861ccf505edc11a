------------------------------- MODULE Etharp -------------------------------
(***************************************************************************)
(* The ARP table and its queues (netif/etharp.c), as functions on a        *)
(* record:                                                                 *)
(*   table   the entries [state, ipaddr, ethaddr, ctime, q]                *)
(*   cached  etharp_cached_entry                                           *)
(*   blocks  free blocks of MEMP_ARP_QUEUE                                 *)
(*   sent    the IP packets that left, [ip, to, n], in order               *)
(* A hardware address is named by the host that has it.  A packet is named *)
(* by its place n among those that wait for the same address, after those  *)
(* of the same step.  Of the ARP frames that are sent nothing is kept.     *)
(***************************************************************************)
EXTENDS Naturals, FiniteSets, Sequences, SequencesExt

CONSTANTS
  Hosts,                \* the other hosts of the local network
  Self,                 \* this one
  NoAddr,               \* IP_ADDR_ANY
  ARP_TABLE_SIZE,
  ARP_MAXAGE,           \* ticks of etharp_tmr that a stable entry lives
  ARP_MAXPENDING,       \* ticks that a pending entry lives
  MEMP_NUM_ARP_QUEUE    \* blocks for packets that wait

ASSUME EtharpAssumption ==
  /\ Self \notin Hosts /\ NoAddr \notin Hosts \cup {Self}
  /\ ARP_TABLE_SIZE \in Nat \ {0}
  /\ ARP_MAXAGE \in Nat \ {0} /\ ARP_MAXPENDING \in Nat \ {0}
  /\ MEMP_NUM_ARP_QUEUE \in Nat

Addresses == Hosts \cup {Self}
ArpIndex  == 1..ARP_TABLE_SIZE

(* Of an empty entry the code reads nothing but the state, and the hardware   *)
(* address of none that is not stable. *)
EmptyEntry == [state |-> "EMPTY", ipaddr |-> NoAddr, ethaddr |-> NoAddr, ctime |-> 0, q |-> <<>>]

ArpReset == [table |-> [i \in ArpIndex |-> EmptyEntry], cached |-> 1,
             blocks |-> MEMP_NUM_ARP_QUEUE, sent |-> <<>>]

(* What waits on the entries of S. *)
QueuedOn(a, S) == UNION {{i} \X DOMAIN a.table[i].q : i \in S}

-----------------------------------------------------------------------------
(* find_entry *)

InState(a, st) == {i \in ArpIndex : a.table[i].state = st}
Waiting(a)     == {i \in InState(a, "PENDING") : a.table[i].q # <<>>}

Matches(a, ip) == {i \in ArpIndex : a.table[i].state # "EMPTY" /\ a.table[i].ipaddr = ip}
First(S)       == CHOOSE i \in S : \A j \in S : i <= j

(* The last of those that have the largest age. *)
OldestOf(a, S) ==
  CHOOSE i \in S : \A j \in S : /\ a.table[j].ctime <= a.table[i].ctime
                                /\ a.table[j].ctime = a.table[i].ctime => j <= i

(* The candidates for a new entry, the least destructive first. *)
Recyclable(a) ==
  CASE InState(a, "EMPTY") # {}                -> First(InState(a, "EMPTY"))
    [] InState(a, "EMPTY") = {} /\ InState(a, "STABLE") # {} -> OldestOf(a, InState(a, "STABLE"))
    [] InState(a, "PENDING") = ArpIndex /\ Waiting(a) # ArpIndex ->
         OldestOf(a, ArpIndex \ Waiting(a))
    [] Waiting(a) = ArpIndex                   -> OldestOf(a, ArpIndex)

(* Bug: what waited is dropped, and its blocks with it. *)
RecycleLeaks(a, i, ip) ==
  [a EXCEPT !.table[i] = [EmptyEntry EXCEPT !.ipaddr = ip], !.cached = i]

(* The entry becomes an empty one for ip; what waited on it is freed. *)
Recycle(a, i, ip) ==
  LET freed == IF i \in Waiting(a) THEN Len(a.table[i].q) ELSE 0
  IN  [a EXCEPT !.table[i] = [EmptyEntry EXCEPT !.ipaddr = ip,
                                                !.q = IF i \in Waiting(a) THEN <<>> ELSE a.table[i].q],
                !.blocks = @ + freed, !.cached = i]

(* Bug: the address of the cached entry is not compared. *)
CacheHitAny(a, ip) == a.table[a.cached].state = "STABLE"

CacheHit(a, ip) == a.table[a.cached].state = "STABLE" /\ a.table[a.cached].ipaddr = ip

(* The table with a.cached at the entry found or made; found says if there is *)
(* one.                                                                       *)
FindEntry(a, ip, hard) ==
  LET give(b, ok) == [arp |-> b, found |-> ok]
  IN  CASE CacheHit(a, ip) -> give(a, TRUE)
        [] ~CacheHit(a, ip) /\ Matches(a, ip) # {} ->
             give([a EXCEPT !.cached = First(Matches(a, ip))], TRUE)
        [] Matches(a, ip) = {} /\ InState(a, "EMPTY") = {} /\ ~hard -> give(a, FALSE)
        [] OTHER -> give(Recycle(a, Recyclable(a), ip), TRUE)

-----------------------------------------------------------------------------
(* The other functions *)

Packet(ip, to, n) == [ip |-> ip, to |-> to, n |-> n]

(* update_arp_entry: what waits on the entry is sent, the first first. *)
UpdateArpEntry(a, ip, mac, hard) ==
  LET f == FindEntry(a, ip, hard)
      i == f.arp.cached
      q == f.arp.table[i].q
  IN  IF ip = NoAddr \/ ~f.found THEN a
      ELSE [f.arp EXCEPT
              !.table[i] = [@ EXCEPT !.state = "STABLE", !.ethaddr = mac, !.ctime = 0, !.q = <<>>],
              !.blocks = @ + Len(q),
              !.sent = @ \o [k \in DOMAIN q |-> Packet(ip, mac, q[k])]]

Enqueue(q, n) == Append(q, n)

(* Bug: an entry that waits for an answer is as good as new. *)
PendingAnew(e) == [e EXCEPT !.state = "PENDING", !.ctime = 0]

Pending(e) == [e EXCEPT !.state = "PENDING"]

(* etharp_query with a packet for a host of the local network; copy: there is *)
(* memory for a copy of it.                                                   *)
EtharpQuery(a, ip, copy) ==
  LET b == FindEntry(a, ip, TRUE).arp
      i == b.cached
      e == b.table[i]
      kept == copy /\ b.blocks > 0
      next == Packet(ip, e.ethaddr, Len(b.sent) + Len(e.q) + 1)
  IN  IF e.state = "STABLE" THEN [b EXCEPT !.sent = Append(@, next)]
      ELSE [b EXCEPT
              !.table[i] = [Pending(e) EXCEPT !.q = IF kept THEN Enqueue(@, next.n) ELSE @],
              !.blocks = IF kept THEN @ - 1 ELSE @]

Expired(e) ==
  \/ e.state = "STABLE" /\ e.ctime + 1 >= ARP_MAXAGE
  \/ e.state = "PENDING" /\ e.ctime + 1 >= ARP_MAXPENDING

(* etharp_tmr.  The age of an empty entry is never read: it is left alone. *)
EtharpTmr(a) ==
  LET dead == {i \in ArpIndex : Expired(a.table[i])}
      aged(e) == IF e.state = "EMPTY" THEN e ELSE [e EXCEPT !.ctime = @ + 1]
  IN  [a EXCEPT
         !.table = [i \in ArpIndex |-> IF i \in dead THEN EmptyEntry ELSE aged(a.table[i])],
         !.blocks = @ + Cardinality(QueuedOn(a, dead))]
=============================================================================
