------------------------------ MODULE IpReass -------------------------------
(***************************************************************************)
(* Reassembly of IP datagrams (core/ipv4/ip_frag.c).                       *)
(*                                                                         *)
(* A datagram of IpLength units was cut into fragments of one unit on its  *)
(* way here, one of the set Recut any way and more than once, so that      *)
(* fragments overlap.  They arrive in any order, some twice, some never.   *)
(* A fragment is [id, start, end]; one pbuf of the pool holds it, so that  *)
(* pbuf_clen is 1 throughout.                                              *)
(***************************************************************************)
EXTENDS Naturals, FiniteSets, Sequences, SequencesExt

CONSTANTS
  IpIds,                \* bound: source, destination and ID of the datagrams
  IpLength,             \* bound: the units of a datagram
  Recut,                \* the datagrams that are cut in more than one way
  MEMP_NUM_REASSDATA,   \* blocks for datagrams
  IP_REASS_MAX_PBUFS,   \* pbufs that may wait for reassembly
  IP_REASS_MAXAGE       \* ticks a datagram waits

ASSUME ReassAssumption ==
  /\ IpLength \in Nat /\ Recut \subseteq IpIds
  /\ MEMP_NUM_REASSDATA \in Nat \ {0} /\ IP_REASS_MAX_PBUFS \in Nat \ {0}
  /\ IP_REASS_MAXAGE \in Nat

VARIABLES
  reassdatagrams,      \* the list: [id, p, last, timer], newest first
  reassblocks,         \* free blocks of MEMP_REASSDATA
  ip_reass_pbufcount,
  reassevent           \* what the last step did, cf. NoEvent

reassVars == <<reassdatagrams, reassblocks, ip_reass_pbufcount, reassevent>>

FragmentSet ==
  {f \in [id : IpIds, start : 0..IpLength, end : 0..IpLength] :
     /\ f.start < f.end /\ (f.start # 0 \/ f.end # IpLength)
     /\ f.id \in Recut \/ f.end = f.start + 1}

(* got: the datagram a fragment came for; whole: what was passed on;          *)
(* dangling: a datagram was freed and stayed in the list.                     *)
NoEvent == [got |-> {}, whole |-> <<>>, dangling |-> FALSE]

ReassInit ==
  /\ reassdatagrams = <<>>
  /\ reassblocks = MEMP_NUM_REASSDATA
  /\ ip_reass_pbufcount = 0
  /\ reassevent = NoEvent

-----------------------------------------------------------------------------
(* The functions below work on the variables as one record *)

Reass == [list |-> reassdatagrams, blocks |-> reassblocks,
          count |-> ip_reass_pbufcount, event |-> NoEvent]

(* Bug: the datagram the fragment belongs to is not spared. *)
AnyDatagram(l, id) == DOMAIN l

Others(l, id) == {i \in DOMAIN l : l[i].id # id}

(* The last of the datagrams that have the fewest ticks left. *)
Oldest(l, S) ==
  CHOOSE i \in S : \A j \in S : /\ l[i].timer <= l[j].timer
                                /\ l[i].timer = l[j].timer => j <= i

(* Bug: the pbufs are freed and still counted. *)
FreeCompleteUncounted(r, i) == [r EXCEPT !.list = RemoveAt(@, i), !.blocks = @ + 1]

(* ip_reass_free_complete_datagram for the last datagram or the one before,   *)
(* which are the oldest.  prev is the last that has a successor, be it the    *)
(* datagram itself, against the assertion that it is not: this is then freed  *)
(* and, unless it is the first, stays in the list.                            *)
FreeComplete(r, i) ==
  LET prev == Len(r.list) - 1
      kept == i > 1 /\ prev = i
  IN  [r EXCEPT !.list   = IF kept THEN @ ELSE RemoveAt(@, i),
                !.blocks = @ + 1,
                !.count  = @ - Len(r.list[i].p),
                !.event.dangling = kept]

(* ip_reass_remove_oldest_datagram: one pbuf is needed, and every datagram    *)
(* holds one.                                                                 *)
RemoveOldest(r, id) ==
  LET S == Others(r.list, id)
  IN  IF S = {} THEN r ELSE FreeComplete(r, Oldest(r.list, S))

(* ip_reass_enqueue_new_datagram: to the front of the list. *)
EnqueueNew(r, id) ==
  LET s == IF r.blocks = 0 THEN RemoveOldest(r, id) ELSE r
  IN  IF s.blocks = 0 THEN s
      ELSE [s EXCEPT
              !.list = <<[id |-> id, p |-> <<>>, last |-> FALSE,
                          timer |-> IP_REASS_MAXAGE]>> \o @,
              !.blocks = @ - 1]

-----------------------------------------------------------------------------
(* ip_reass_chain_frag_into_datagram_and_validate *)

Before(p, f) == {i \in DOMAIN p : p[i].start <= f.start}

(* The fragment goes after the n-th. *)
Place(p, f) == Cardinality(Before(p, f))

(* Overlap with an earlier fragment, and with the next unless the new one is  *)
(* the first.                                                                 *)
Overlaps(p, f) ==
  LET n == Place(p, f)
  IN  \/ \E i \in Before(p, f) : f.start < p[i].end
      \/ n > 0 /\ n < Len(p) /\ f.end > p[n + 1].start

Touch(p, i) == p[i].end = p[i + 1].start

(* Whether the validation finds no hole in q, p with the new one at n + 1:    *)
(* the edge between the n-th and the new one is looked at only when the new   *)
(* one is the last.                                                           *)
NoHoleSeen(q, n) ==
  /\ \A i \in 1..(Len(q) - 1) : (i # n \/ n + 1 = Len(q)) => Touch(q, i)
  /\ q[1].start = 0

-----------------------------------------------------------------------------
(* Handlers *)

SetReass(r) ==
  /\ reassdatagrams' = r.list
  /\ reassblocks' = r.blocks
  /\ ip_reass_pbufcount' = r.count
  /\ reassevent' = r.event

(* Bug: every fragment gives the datagram its full time. *)
ReceivedFresh(d, f) == [d EXCEPT !.last = @ \/ f.end = IpLength, !.timer = IP_REASS_MAXAGE]

Received(d, f) == [d EXCEPT !.last = @ \/ f.end = IpLength]

(* The fragment f joins the i-th datagram, which is passed on when it seems   *)
(* to be complete.                                                            *)
Join(r, i, f) ==
  LET d == Received(r.list[i], f)
      n == Place(d.p, f)
      q == InsertAt(d.p, n + 1, f)
  IN  CASE Overlaps(d.p, f) -> [r EXCEPT !.list[i] = d]
        [] ~Overlaps(d.p, f) /\ d.last /\ NoHoleSeen(q, n) ->
             [r EXCEPT !.list = RemoveAt(@, i), !.blocks = @ + 1,
                       !.count = @ - Len(d.p), !.event.whole = q]
        [] OTHER -> [r EXCEPT !.list[i] = [d EXCEPT !.p = q], !.count = @ + 1]

Find(l, id) == CHOOSE i \in DOMAIN l : l[i].id = id

IpReassemble(f) ==
  LET r1 == IF Reass.count + 1 > IP_REASS_MAX_PBUFS THEN RemoveOldest(Reass, f.id) ELSE Reass
      known == \E d \in ToSet(r1.list) : d.id = f.id
      r2 == IF known THEN r1 ELSE EnqueueNew(r1, f.id)
      fits == r1.count + 1 <= IP_REASS_MAX_PBUFS
      room == \E d \in ToSet(r2.list) : d.id = f.id
      r3 == CASE ~fits        -> r1
              [] fits /\ ~room -> r2
              [] OTHER         -> Join(r2, Find(r2.list, f.id), f)
  IN  SetReass([r3 EXCEPT !.event.got = {f.id}])

ip_reass == \E f \in FragmentSet : IpReassemble(f)

(* The elements of l at the places S, in their order. *)
Selected(l, S) ==
  LET nth(k) == CHOOSE i \in S : Cardinality({j \in S : j <= i}) = k
  IN  [k \in 1..Cardinality(S) |-> l[nth(k)]]

(* The pbufs of the datagrams D, which differ in their id. *)
PbufsOf(D) == UNION {{d.id} \X DOMAIN d.p : d \in D}
PbufsIn(D) == Cardinality(PbufsOf(D))

Ticked(d) == [d EXCEPT !.timer = @ - 1]

ip_reass_tmr ==
  LET l    == reassdatagrams
      live == Selected(l, {i \in DOMAIN l : l[i].timer > 0})
      dead == {d \in ToSet(l) : d.timer = 0}
  IN  /\ l # <<>>
      /\ SetReass([Reass EXCEPT !.list = [i \in DOMAIN live |-> Ticked(live[i])],
                                !.blocks = @ + Cardinality(dead),
                                !.count = @ - PbufsIn(dead)])

(* Once the list runs through a freed block, anything can happen. *)
ReassNext == ~reassevent.dangling /\ (ip_reass \/ ip_reass_tmr)

ReassSpec == ReassInit /\ [][ReassNext]_reassVars /\ WF_reassVars(ip_reass_tmr)

-----------------------------------------------------------------------------
(* Properties *)

(* The types of the variables of ip_frag.c. *)
ReassTypeOK ==
  /\ \A d \in ToSet(reassdatagrams) :
       /\ d.id \in IpIds /\ d.last \in BOOLEAN /\ d.timer \in 0..IP_REASS_MAXAGE
       /\ d.p # <<>> /\ \A f \in ToSet(d.p) : f \in FragmentSet /\ f.id = d.id
  /\ reassblocks \in 0..MEMP_NUM_REASSDATA
  /\ ip_reass_pbufcount \in 0..IP_REASS_MAX_PBUFS

(* No pbuf and no block is lost: ip_reass_pbufcount is the number of pbufs    *)
(* that wait, and a block is free or in the list, once for each datagram,     *)
(* whichever way datagrams leave (delivered, expired, evicted).               *)
ReassAccounted ==
  /\ ip_reass_pbufcount = PbufsIn(ToSet(reassdatagrams))
  /\ reassblocks + Len(reassdatagrams) = MEMP_NUM_REASSDATA
  /\ \A i, j \in DOMAIN reassdatagrams : reassdatagrams[i].id = reassdatagrams[j].id => i = j

(* What ip_reass passes on is the datagram from its first unit to its last,   *)
(* every unit once.  One that was cut in two ways may end early: its last     *)
(* fragment counts as received even when it is thrown away as an overlap.     *)
DatagramWhole ==
  LET w == reassevent.whole
  IN  w # <<>> => /\ w[1].start = 0
                  /\ Last(w).end = IpLength \/ w[1].id \in Recut
                  /\ \A i \in 1..(Len(w) - 1) : Touch(w, i)

(* A fragment makes room by freeing other datagrams, never the one it belongs *)
(* to, which keeps what it has until it is complete.                          *)
OwnDatagramKept ==
  [][\A d \in ToSet(reassdatagrams) :
       d.id \in reassevent'.got /\ reassevent'.whole = <<>>
         => \E e \in ToSet(reassdatagrams') :
              e.id = d.id /\ ToSet(d.p) \subseteq ToSet(e.p)]_reassVars

(* The datagram freed to make room is the one that was begun first: the list  *)
(* has the newest first.                                                      *)
OldestMakesRoom ==
  [][reassevent'.got # {} =>
       \A i, j \in DOMAIN reassdatagrams :
         LET gone(k) == reassdatagrams[k].id \notin {d.id : d \in ToSet(reassdatagrams')}
         IN  i < j /\ gone(i) /\ reassevent'.whole = <<>>
               => gone(j) \/ reassdatagrams[j].id \in reassevent'.got]_reassVars

(* Room is made by freeing the right datagrams. *)
RightOneEvicted == OwnDatagramKept /\ OldestMakesRoom

(* A datagram that lacks a fragment goes away, however many fragments of it   *)
(* keep arriving: nothing restarts its timer.                                 *)
DatagramsExpire ==
  \A id \in IpIds :
    (\E d \in ToSet(reassdatagrams) : d.id = id)
      ~> (\A d \in ToSet(reassdatagrams) : d.id # id)
=============================================================================
