-------------------------------- MODULE Pbuf --------------------------------
(***************************************************************************)
(* Packet buffers (core/pbuf.c): chains of pbufs that count the pointers   *)
(* to them, and that know at every pbuf the length of what is left.        *)
(*                                                                         *)
(* The functions that walk along a chain (pbuf_free, pbuf_cat,             *)
(* pbuf_realloc and the cut at the front in tcp_receive) are taken one     *)
(* turn of their loops at a time; nothing happens between two turns.       *)
(* A packet is a pbuf that no other links to.  Callers change only packets *)
(* that they hold, but may refer to any pbuf.                              *)
(***************************************************************************)
EXTENDS Integers, FiniteSets

CONSTANTS
  PoolBufs, RamBufs, RomBufs,   \* the pbufs of each type; PBUF_REF is like PBUF_ROM
  NoPbuf,
  PBUF_POOL_BUFSIZE,
  Offsets,    \* the room for headers that a layer asks for
  Lengths,    \* of packets, parts and headers
  MaxHeld     \* the references that callers keep to one pbuf

Pbufs == PoolBufs \cup RamBufs \cup RomBufs

ASSUME PbufAssumption ==
  /\ NoPbuf \notin Pbufs
  /\ PBUF_POOL_BUFSIZE \in Nat /\ Lengths \subseteq Nat /\ Offsets \subseteq Nat
  /\ \A o \in Offsets : o < PBUF_POOL_BUFSIZE

VARIABLES
  pb,       \* from each pbuf that is allocated to its fields; room: before payload
  holders,  \* the references of the callers to each
  turn      \* the loop under way: in op, at a pbuf, with its local variables

pbufVars == <<pb, holders, turn>>

NoWalk == [op |-> "none", at |-> NoPbuf, tail |-> NoPbuf, rem |-> 0, grow |-> 0]

PbufInit ==
  /\ pb = [p \in {} |-> NoWalk]
  /\ holders = [p \in Pbufs |-> 0]
  /\ turn = NoWalk

Linked(p)    == \E q \in DOMAIN pb : pb[q].next = p
HeldPacket(p) == p \in DOMAIN pb /\ holders[p] > 0 /\ ~Linked(p)

AtRest == turn.op = "none"

Start(op, p, tail, rem, grow) ==
  turn' = [op |-> op, at |-> p, tail |-> tail, rem |-> rem, grow |-> grow]

Holds(p, n) == holders' = [holders EXCEPT ![p] = @ + n]

-----------------------------------------------------------------------------
(* pbuf_alloc.  When the pool is exhausted half way, what it gave goes back.  *)

Least(a, b) == IF a < b THEN a ELSE b

(* What the first i pbufs of a chain from the pool hold.                      *)
Capacity(i, offset) == IF i = 0 THEN 0 ELSE i * PBUF_POOL_BUFSIZE - offset

(* The i-th of the k pbufs in s.                                              *)
ChainPbuf(s, k, i, offset, n) ==
  LET rem == n - Capacity(i - 1, offset)
  IN  [room    |-> IF i = 1 THEN offset ELSE 0,
       len     |-> Least(rem, Capacity(i, offset) - Capacity(i - 1, offset)),
       tot_len |-> rem,
       next    |-> IF i = k THEN NoPbuf ELSE s[i + 1],
       ref     |-> 1]

AllocPool(offset, n) ==
  \E k \in 1..Cardinality(PoolBufs \ DOMAIN pb) :
  \E s \in [1..k -> PoolBufs \ DOMAIN pb] :
    /\ \A i, j \in 1..k : s[i] = s[j] => i = j
    /\ n <= Capacity(k, offset) /\ (k > 1 => n > Capacity(k - 1, offset))
    /\ pb' = [p \in DOMAIN pb \cup {s[i] : i \in 1..k} |->
                IF p \in DOMAIN pb THEN pb[p]
                ELSE ChainPbuf(s, k, CHOOSE i \in 1..k : s[i] = p, offset, n)]
    /\ Holds(s[1], 1)

AllocOne(p, room, n) ==
  /\ pb' = [q \in DOMAIN pb \cup {p} |->
              IF q # p THEN pb[q]
              ELSE [room |-> room, len |-> n, tot_len |-> n, next |-> NoPbuf, ref |-> 1]]
  /\ Holds(p, 1)

pbuf_alloc ==
  /\ AtRest /\ UNCHANGED turn
  /\ \E offset \in Offsets, n \in Lengths :
       \/ AllocPool(offset, n)
       \/ \E p \in (RamBufs \cup RomBufs) \ DOMAIN pb :
            AllocOne(p, IF p \in RomBufs THEN 0 ELSE offset, n)

-----------------------------------------------------------------------------
(* pbuf_ref, pbuf_header *)

pbuf_ref ==
  /\ AtRest /\ UNCHANGED turn
  /\ \E p \in DOMAIN pb :
       /\ holders[p] < MaxHeld
       /\ pb' = [pb EXCEPT ![p].ref = @ + 1]
       /\ Holds(p, 1)

(* A header of n bytes is revealed or hidden; in a ROM it cannot be revealed  *)
(* again.                                                                     *)
Reveal(p, n) ==
  /\ p \notin RomBufs /\ n <= pb[p].room
  /\ pb' = [pb EXCEPT ![p].room = @ - n, ![p].len = @ + n, ![p].tot_len = @ + n]

Hide(p, n) ==
  /\ n <= pb[p].len
  /\ pb' = [pb EXCEPT ![p].room = @ + n, ![p].len = @ - n, ![p].tot_len = @ - n]

pbuf_header ==
  /\ AtRest /\ UNCHANGED <<turn, holders>>
  /\ \E p \in DOMAIN pb, n \in Lengths : HeldPacket(p) /\ (Reveal(p, n) \/ Hide(p, n))

-----------------------------------------------------------------------------
(* pbuf_free *)

pbuf_free ==
  /\ AtRest /\ UNCHANGED pb
  /\ \E p \in DOMAIN pb :
       /\ holders[p] > 0
       /\ Holds(p, -1)
       /\ Start("free", p, NoPbuf, 0, 0)

(* Where the loop goes from p when its reference is gone.                     *)
AfterFree(p) ==
  IF pb[p].ref = 1 /\ pb[p].next # NoPbuf THEN [turn EXCEPT !.at = pb[p].next] ELSE NoWalk

FreeStep ==
  LET p == turn.at
  IN  /\ turn.op = "free"
      /\ pb' = IF pb[p].ref = 1 THEN [q \in DOMAIN pb \ {p} |-> pb[q]]
               ELSE [pb EXCEPT ![p].ref = @ - 1]
      /\ turn' = AfterFree(p)
      /\ UNCHANGED holders

-----------------------------------------------------------------------------
(* pbuf_cat, which takes over the caller's reference to the tail, and         *)
(* pbuf_chain, which adds one.                                                *)

Concatenate(op) ==
  /\ AtRest /\ UNCHANGED <<pb, holders>>
  /\ \E h, t \in DOMAIN pb :
       h # t /\ HeldPacket(h) /\ HeldPacket(t) /\ Start(op, h, t, 0, 0)

pbuf_cat   == Concatenate("cat")
pbuf_chain == Concatenate("chain")

Referred(r, t) == [r EXCEPT ![t].ref = @ + 1]

JoinStep ==
  LET p == turn.at
      t == turn.tail
      longer == [pb EXCEPT ![p].tot_len = @ + pb[t].tot_len]
      joined == [longer EXCEPT ![p].next = t]
  IN  \/ /\ turn.op \in {"cat", "chain"} /\ pb[p].next # NoPbuf
         /\ pb' = longer /\ turn' = [turn EXCEPT !.at = pb[p].next] /\ UNCHANGED holders
      \/ /\ turn.op = "cat" /\ pb[p].next = NoPbuf
         /\ pb' = joined /\ Holds(t, -1) /\ turn' = NoWalk
      \/ /\ turn.op = "chain" /\ pb[p].next = NoPbuf
         /\ pb' = Referred(joined, t) /\ turn' = NoWalk /\ UNCHANGED holders

-----------------------------------------------------------------------------
(* pbuf_realloc.  The memory that a PBUF_RAM gives back is not followed.      *)

pbuf_realloc ==
  /\ AtRest /\ UNCHANGED <<pb, holders>>
  /\ \E p \in DOMAIN pb, n \in Lengths :
       /\ HeldPacket(p) /\ n < pb[p].tot_len
       /\ Start("realloc", p, NoPbuf, n, n - pb[p].tot_len)

ReallocStep ==
  LET p == turn.at
      rest == pb[p].next
  IN  /\ turn.op = "realloc" /\ UNCHANGED holders
      /\ \/ /\ turn.rem > pb[p].len
            /\ pb' = [pb EXCEPT ![p].tot_len = @ + turn.grow]
            /\ turn' = [turn EXCEPT !.rem = @ - pb[p].len, !.at = rest]
         \/ /\ turn.rem <= pb[p].len
            /\ pb' = [pb EXCEPT ![p].len = turn.rem, ![p].tot_len = turn.rem, ![p].next = NoPbuf]
            /\ IF rest = NoPbuf THEN turn' = NoWalk ELSE Start("free", rest, NoPbuf, 0, 0)

-----------------------------------------------------------------------------
(* tcp_receive cuts off what was received before, rem bytes; grow carries     *)
(* new_tot_len, and the last turn is pbuf_header.                             *)

CutFrontOf ==
  /\ AtRest /\ UNCHANGED <<pb, holders>>
  /\ \E p \in DOMAIN pb, n \in Lengths :
       /\ HeldPacket(p) /\ n > 0 /\ n <= pb[p].tot_len
       /\ Start("cut", p, NoPbuf, n, pb[p].tot_len - n)

(* Bug: only the length of the pbuf itself. *)
EmptiedKeeping(r, p, new_tot_len) == [r EXCEPT ![p].len = 0]

Emptied(r, p, new_tot_len) == [r EXCEPT ![p].tot_len = new_tot_len, ![p].len = 0]

CutStep ==
  LET p == turn.at
  IN  /\ turn.op = "cut" /\ UNCHANGED holders
      /\ \/ /\ pb[p].len < turn.rem
            /\ pb' = Emptied(pb, p, turn.grow)
            /\ turn' = [turn EXCEPT !.rem = @ - pb[p].len, !.at = pb[p].next]
         \/ Hide(p, turn.rem) /\ turn' = NoWalk

-----------------------------------------------------------------------------
PbufNext ==
  \/ pbuf_alloc \/ pbuf_ref \/ pbuf_header
  \/ pbuf_free \/ FreeStep
  \/ pbuf_cat \/ pbuf_chain \/ JoinStep
  \/ pbuf_realloc \/ ReallocStep
  \/ CutFrontOf \/ CutStep

PbufSpec == PbufInit /\ [][PbufNext]_pbufVars

-----------------------------------------------------------------------------
(* Properties *)

(* Lengths are never negative, nobody holds or walks on a pbuf that was       *)
(* freed, and no link leads to one.                                           *)
PbufTypeOK ==
  /\ DOMAIN pb \subseteq Pbufs
  /\ \A p \in DOMAIN pb :
       /\ pb[p].room \in Nat /\ pb[p].len \in Nat /\ pb[p].tot_len \in Nat /\ pb[p].ref \in Nat
       /\ pb[p].next \in DOMAIN pb \cup {NoPbuf}
  /\ \A p \in Pbufs : holders[p] \in Nat /\ (holders[p] > 0 => p \in DOMAIN pb)
  /\ AtRest \/ turn.at \in DOMAIN pb

(* "The reference counter of a pbuf equals the number of pointers that refer  *)
(* to the pbuf": those of callers, the link of a pbuf before it, and the one  *)
(* that pbuf_free is about to take off.  A pbuf that nothing refers to is     *)
(* free.                                                                      *)
References(p) ==
  holders[p] + (IF Linked(p) THEN 1 ELSE 0)
             + (IF turn.op = "free" /\ turn.at = p THEN 1 ELSE 0)

RefsExact == \A p \in DOMAIN pb : pb[p].ref = References(p) /\ pb[p].ref > 0

(* Between calls tot_len is at every pbuf its own length and that of all      *)
(* after it, however the chains were joined, cut, shortened and given up.     *)
TotLen(p) == pb[p].len + (IF pb[p].next = NoPbuf THEN 0 ELSE pb[pb[p].next].tot_len)

LengthsExact == turn.op \in {"none", "free"} => \A p \in DOMAIN pb : pb[p].tot_len = TotLen(p)

(* The accounts that chains of pbufs keep of themselves.                      *)
PbufsSound == RefsExact /\ LengthsExact
=============================================================================
