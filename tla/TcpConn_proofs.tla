--------------------------- MODULE TcpConn_proofs ---------------------------
(***************************************************************************)
(* What holds of a connection for every value of the constants: the        *)
(* inductive invariant of TcpConn, and what follows from it.               *)
(***************************************************************************)
EXTENDS TcpConn, TcpLife_proofs

-----------------------------------------------------------------------------
(* What an end knows of its peer stays right when the peer writes more, or
   closes: what it is still to be offered. *)
LEMMA TheirGrow ==
  ASSUME NEW fr \in Int, NEW lim \in Int, NEW d \in BOOLEAN, NEW lim2 \in Int, NEW d2 \in BOOLEAN,
         lim <= lim2, d => d2 /\ lim2 = lim, NEW rd, rd = <<>>, NEW p, Their(p, rd, fr, lim, d)
  PROVE  Their(p, rd, fr, lim2, d2)
<1>1. OoseqOK(p, lim2, d2)
  BY OrderedGrow DEF Their, OoseqOK
<1>2. Len(p.taken) \in Nat /\ Len(rd) = 0 /\ Len(p.refused) \in Nat
  <2>1. p.taken \in Seq(Int) /\ p.refused \in Seq(Int)
    BY DEF Their
  <2> QED  BY <2>1, EmptySeq
<1>3. /\ fr + Len(p.taken) <= lim2
      /\ p.state \notin {"CLOSED", "SYN_SENT"} => fr + Len(p.taken) + Len(rd) <= lim2
  BY <1>2 DEF Their
<1>4. p.state \notin {"CLOSED", "SYN_SENT"} =>
        p.rcv_nxt \in fr..lim2 + 1 /\ (p.rcv_nxt = lim2 + 1 => d2)
  BY DEF Their
<1>5. p.state \notin {"CLOSED", "SYN_SENT"} => Lesser(p.rcv_nxt, lim2) = Lesser(p.rcv_nxt, lim)
  BY DEF Their, Lesser
<1>6. p.state \in Ended \/ (p.eof /\ p.state # "CLOSED") => p.rcv_nxt = lim2 + 1
  BY DEF Their, Ended
<1> QED  BY <1>1, <1>3, <1>4, <1>5, <1>6 DEF Their

(* And so does a block between two handlers. *)
LEMMA IdleGrow ==
  ASSUME NEW fb \in Int, NEW fr \in Int, NEW lim \in Int, NEW d \in BOOLEAN, NEW lim2 \in Int,
         NEW d2 \in BOOLEAN, lim <= lim2, d => d2 /\ lim2 = lim,
         NEW p, Idle(p, fb, fr, lim, d)
  PROVE  Idle(p, fb, fr, lim2, d2)
<1>e. PICK none : none = <<>>
  OBVIOUS
<1>1. Their(p, none, fr, lim, d) /\ Own(p, fb)
  BY <1>e DEF Idle, Both
<1>2. Their(p, none, fr, lim2, d2)
  BY <1>e, <1>1, TheirGrow
<1> QED  BY <1>e, <1>1, <1>2 DEF Idle, Both

(* A block that is not in use expects nothing and holds nothing. *)
LEMMA BlankIdle ==
  ASSUME NEW fb \in Int, NEW fr \in Int, NEW lim \in Int, fr <= lim, NEW d \in BOOLEAN
  PROVE  Idle(Blank, fb, fr, lim, d)
<1>e. PICK none : none = <<>>
  OBVIOUS
<1>p. PICK p : p = Blank
  OBVIOUS
<1>w. PICK w \in Nat, c \in BOOLEAN : w = 0 /\ c = FALSE
  OBVIOUS
<1>1. /\ DOMAIN p = Fields /\ p.unsent = <<>> /\ p.unacked = <<>> /\ p.out = <<>>
      /\ p.dupacks = 0 /\ p.written = 0 /\ p.closed = FALSE /\ p.taken = <<>>
      /\ p.refused = <<>> /\ p.ooseq = <<>> /\ p.eof = FALSE /\ p.failed = FALSE
      /\ p.busy = FALSE /\ p.recv_data = <<>> /\ p.recv_flags = {} /\ p.state = "CLOSED"
      /\ p.lastack = 0 /\ p.snd_nxt = 0 /\ p.rcv_nxt = 0 /\ p.rcv_ann_wnd = 0
      /\ p.rcv_ann_right_edge = 0 /\ p.rcv_wnd = 0
  BY <1>p DEF Blank, Fields
<1>2. Snd(p, fb, w, c)
  <2>1. <<>> \in Seq(QSegs(fb, w, c)) /\ <<>> \in Seq(WSegs(fb, w, c))
    BY EmptySeq
  <2> QED  BY <1>1, <2>1 DEF Snd
<1>3. Own(p, fb)
  <2>1. p.written = w /\ p.closed = c
    BY <1>1, <1>w
  <2>2. Snd(p, fb, p.written, p.closed)
    BY <1>2, <2>1
  <2>3. p.state \notin Opening /\ p.state \notin Closing
    BY <1>1 DEF Opening, Closing
  <2>4. p.written \in Nat /\ p.closed \in BOOLEAN /\ p.state = "CLOSED"
    BY <1>1, <1>w, <2>1
  <2> QED  BY <2>2, <2>3, <2>4 DEF Own
<1>4. Their(p, none, fr, lim, d)
  <2>1. <<>> \in Seq(Int) /\ Len(<<>>) = 0 /\ \A from : IsRun(<<>>, from)
    BY RunEmpty
  <2>2. OoseqOK(p, lim, d)
    BY <1>1, OrderedEmpty DEF OoseqOK
  <2>3. fr + 0 <= lim
    OBVIOUS
  <2> QED  BY <1>e, <1>1, <2>1, <2>2, <2>3 DEF Their, Ended
<1> QED  BY <1>e, <1>p, <1>1, <1>3, <1>4 DEF Idle, Both

-----------------------------------------------------------------------------
(* Segments on their way *)

(* The network after one more segment holds that segment and what it held.
   *)
LEMMA CarryDomain ==
  ASSUME NEW bag, NEW s
  PROVE  DOMAIN Carry(bag, s) \subseteq DOMAIN bag \cup {s}
BY DEF Carry, BagAdd

(* A segment leaves, none comes. *)
LEMMA RemoveDomain ==
  ASSUME NEW bag, NEW s
  PROVE  DOMAIN BagRemove(bag, s) \subseteq DOMAIN bag
BY DEF BagRemove

(* The recursion of Put has a solution. *)
PutInto(bag, segs) ==
  CHOOSE f : f = [i \in 0..Len(segs) |-> IF i = 0 THEN bag ELSE Carry(f[i - 1], segs[i])]

(* The recursive function behind Put satisfies its equations. *)
LEMMA PutSolved ==
  ASSUME NEW S, NEW bag, NEW segs \in Seq(S)
  PROVE  /\ PutInto(bag, segs)[0] = bag
         /\ \A i \in 1..Len(segs) : PutInto(bag, segs)[i] = Carry(PutInto(bag, segs)[i - 1], segs[i])
         /\ Put(bag, segs) = PutInto(bag, segs)[Len(segs)]
<1> DEFINE n == Len(segs)
           T == {m \in 0..n : \E f : /\ DOMAIN f = 0..m /\ f[0] = bag
                                     /\ \A i \in 1..m : f[i] = Carry(f[i - 1], segs[i])}
           into == PutInto(bag, segs)
<1>1. n \in Nat
  OBVIOUS
<1>2. 0 \in T
  <2>1. 0 \in 0..n /\ \A i \in 1..0 : FALSE
    BY <1>1
  <2>2. DOMAIN [i \in 0..0 |-> bag] = 0..0 /\ [i \in 0..0 |-> bag][0] = bag
    OBVIOUS
  <2> QED  BY <2>1, <2>2
<1>3. \A m \in 0..n - 1 : m \in T => m + 1 \in T
  <2> SUFFICES ASSUME NEW m \in 0..n - 1, m \in T PROVE m + 1 \in T
    OBVIOUS
  <2>1. PICK f : /\ DOMAIN f = 0..m /\ f[0] = bag
                 /\ \A i \in 1..m : f[i] = Carry(f[i - 1], segs[i])
    OBVIOUS
  <2> DEFINE g == [i \in 0..m + 1 |->
                     IF i = m + 1 THEN Carry(f[m], segs[m + 1]) ELSE f[i]]
  <2>2. DOMAIN g = 0..m + 1 /\ g[0] = bag
    BY <1>1, <2>1
  <2>3. \A i \in 1..m + 1 : g[i] = Carry(g[i - 1], segs[i])
    <3> SUFFICES ASSUME NEW i \in 1..m + 1 PROVE g[i] = Carry(g[i - 1], segs[i])
      OBVIOUS
    <3>1. g[i - 1] = f[i - 1]
      BY <1>1
    <3>2. CASE i = m + 1
      BY <3>1, <3>2, <1>1
    <3>3. CASE i # m + 1
      <4>1. i \in 1..m /\ g[i] = f[i]
        BY <3>3, <1>1
      <4> QED  BY <4>1, <3>1, <2>1
    <3> QED  BY <3>2, <3>3
  <2>4. m + 1 \in 0..n
    BY <1>1
  <2> HIDE DEF g
  <2> QED  BY <2>2, <2>3, <2>4
<1>4. n \in T
  <2> HIDE DEF T, n
  <2>1. \A i \in 0..n : i \in T
    BY <1>1, <1>2, <1>3, IndexInduction
  <2> QED  BY <1>1, <2>1
<1>5. PICK f : /\ DOMAIN f = 0..n /\ f[0] = bag
               /\ \A i \in 1..n : f[i] = Carry(f[i - 1], segs[i])
  BY <1>4
<1>6. \E h : h = [i \in 0..n |-> IF i = 0 THEN bag ELSE Carry(h[i - 1], segs[i])]
  <2> DEFINE g == [i \in 0..n |-> IF i = 0 THEN bag ELSE Carry(f[i - 1], segs[i])]
  <2>1. \A i \in 0..n : g[i] = f[i]
    BY <1>1, <1>5
  <2>2. g = [i \in 0..n |-> IF i = 0 THEN bag ELSE Carry(g[i - 1], segs[i])]
    <3>1. \A i \in 1..n : i - 1 \in 0..n
      BY <1>1
    <3>2. \A i \in 1..n : g[i - 1] = f[i - 1]
      BY <2>1, <3>1
    <3>3. \A i \in 0..n : (IF i = 0 THEN bag ELSE Carry(g[i - 1], segs[i]))
                            = (IF i = 0 THEN bag ELSE Carry(f[i - 1], segs[i]))
      BY <3>2, <1>1
    <3> QED  BY <3>3
  <2> HIDE DEF g
  <2> QED  BY <2>2
<1>7. into = [i \in 0..n |-> IF i = 0 THEN bag ELSE Carry(into[i - 1], segs[i])]
  BY <1>6 DEF PutInto
<1>8. Put(bag, segs) = into[n]
  BY DEF Put, PutInto
<1> HIDE DEF into
<1>9. into[0] = bag /\ \A i \in 1..n : into[i] = Carry(into[i - 1], segs[i])
  BY <1>1, <1>7
<1> QED  BY <1>8, <1>9 DEF into

(* Putting segments of S on a network of segments of S leaves one. *)
LEMMA PutDomain ==
  ASSUME NEW S, NEW bag, DOMAIN bag \subseteq S, NEW segs \in Seq(S)
  PROVE  DOMAIN Put(bag, segs) \subseteq S
<1> DEFINE into == PutInto(bag, segs)
           T == {i \in 0..Len(segs) : DOMAIN into[i] \subseteq S}
<1>1. /\ into[0] = bag
      /\ \A i \in 1..Len(segs) : into[i] = Carry(into[i - 1], segs[i])
      /\ Put(bag, segs) = into[Len(segs)]
  BY PutSolved
<1>2. Len(segs) \in Nat /\ \A i \in 1..Len(segs) : segs[i] \in S
  OBVIOUS
<1> HIDE DEF into
<1>3. 0 \in T
  BY <1>1, <1>2
<1>4. \A i \in 0..Len(segs) - 1 : i \in T => i + 1 \in T
  <2> SUFFICES ASSUME NEW i \in 0..Len(segs) - 1, DOMAIN into[i] \subseteq S
               PROVE  i + 1 \in T
    OBVIOUS
  <2>1. into[i + 1] = Carry(into[i], segs[i + 1]) /\ segs[i + 1] \in S
    <3>1. i + 1 \in 1..Len(segs) /\ (i + 1) - 1 = i
      BY <1>2
    <3> QED  BY <3>1, <1>1, <1>2
  <2>2. DOMAIN Carry(into[i], segs[i + 1]) \subseteq S
    BY <2>1, CarryDomain
  <2> QED  BY <2>1, <2>2, <1>2
<1>5. \A i \in 0..Len(segs) : i \in T
  <2> HIDE DEF T
  <2> QED  BY <1>2, <1>3, <1>4, IndexInduction
<1> QED  BY <1>1, <1>2, <1>5

-----------------------------------------------------------------------------
(* The timers *)

(* A block the retransmission or the persist timer has seen to. *)
ExpireFields == OutputFields \cup {"nrtx", "ssthresh", "cwnd", "persist_backoff"}

(* The retransmission timer keeps both sides sound. *)
LEMMA ExpireBoth ==
  ASSUME NEW fb \in Int, NEW fr \in Int, NEW lim \in Int, NEW d \in BOOLEAN, NEW rd,
         NEW p, Both(p, rd, fb, fr, lim, d)
  PROVE  Both(Expire(p), rd, fb, fr, lim, d) /\ Changes(p, Expire(p), ExpireFields)
<1>w. PICK w \in Nat, c \in BOOLEAN : w = p.written /\ c = p.closed
  BY BothSnd
<1>1. Snd(p, fb, w, c) /\ DOMAIN p = Fields
  BY <1>w, BothSnd
<1>z. PICK z : z = Expire(p)
  OBVIOUS
<1>t. PICK half : half = Lesser(p.cwnd, p.snd_wnd) \div 2
  OBVIOUS
<1>u. PICK t : t = [p EXCEPT !.ssthresh = IF half < MSS THEN 2 * MSS ELSE half, !.cwnd = MSS]
  OBVIOUS
<1>v. PICK u : u = [p EXCEPT !.persist_backoff = Lesser(@ + 1, MaxBackoff)]
  OBVIOUS
<1>2. z = p \/ z = RexmitRto(t) \/ z = ZeroWindowProbe(u)
  BY <1>z, <1>t, <1>u, <1>v DEF Expire, Timeout, Persist
<1>3. /\ Changes(p, t, {"ssthresh", "cwnd"}) /\ Changes(p, u, {"persist_backoff"})
  BY <1>1, <1>u, <1>v, FieldsAre DEF Changes
<1>4. Snd(t, fb, w, c) /\ Snd(u, fb, w, c)
  BY <1>1, <1>3, SndChanges DEF SndFields
<1>5. Snd(z, fb, w, c) /\ Changes(p, z, ExpireFields)
  <2>1. CASE z = p
    BY <1>1, <2>1, ChangesNone
  <2>2. CASE z = RexmitRto(t)
    <3>1. Snd(z, fb, w, c) /\ Changes(t, z, OutputFields \cup {"nrtx"})
      BY <1>4, <2>2, RexmitRtoSnd
    <3> QED  BY <1>3, <3>1 DEF Changes, ExpireFields
  <2>3. CASE z = ZeroWindowProbe(u)
    <3>1. Snd(z, fb, w, c) /\ Changes(u, z, {"rcv_ann_right_edge", "out"})
      BY <1>4, <2>3, ZeroWindowProbeSnd
    <3> QED  BY <1>3, <3>1 DEF Changes, ExpireFields, OutputFields
  <2> QED  BY <1>2, <2>1, <2>2, <2>3
<1>6. ExpireFields \cap LifeFields = {} /\ Snd(z, fb, p.written, p.closed)
  BY <1>5, <1>w DEF ExpireFields, LifeFields, OutputFields
<1>7. Both(z, rd, fb, fr, lim, d)
  BY <1>5, <1>6, BothKept
<1> QED  BY <1>5, <1>7, <1>z

(* The out-of-order data was given up. *)
LEMMA StaleBoth ==
  ASSUME NEW fb \in Int, NEW fr \in Int, NEW lim \in Int, NEW d \in BOOLEAN, NEW rd,
         NEW p, Both(p, rd, fb, fr, lim, d), NEW q, q = [p EXCEPT !.ooseq = <<>>]
  PROVE  Both(q, rd, fb, fr, lim, d) /\ Changes(p, q, {"ooseq"})
<1>1. Snd(p, fb, p.written, p.closed) /\ DOMAIN p = Fields /\ p.closed \in BOOLEAN
  BY BothSnd
<1>2. Changes(p, q, {"ooseq"}) /\ q.ooseq = <<>>
  BY <1>1, FieldsAre DEF Changes
<1>3. Snd(q, fb, p.written, p.closed)
  BY <1>1, <1>2, SndChanges DEF SndFields
<1>4. Own(q, fb)
  <2>1. Agree(p, q, OwnFields) /\ Own(p, fb)
    BY <1>2, FieldsAre DEF Changes, Agree, OwnFields, Both
  <2> QED  BY <1>3, <2>1, OwnKept
<1>5. Their(q, rd, fr, lim, d)
  <2>1. OoseqOK(q, lim, d)
    BY <1>2, OrderedEmpty DEF OoseqOK
  <2>2. Agree(p, q, TheirFields \ {"ooseq"})
    BY <1>2, FieldsAre DEF Changes, Agree, TheirFields
  <2>3. Their(p, rd, fr, lim, d)
    BY DEF Both
  <2> QED  BY <1>2, <2>1, <2>2, <2>3 DEF Their, Agree, TheirFields
<1> QED  BY <1>2, <1>4, <1>5 DEF Both

(* tcp_slowtmr on an active block: retransmission, the persist timer, the
   give-up after too many attempts, and the poll. *)
LEMMA SlowTickBoth ==
  ASSUME NEW fb \in Int, NEW fr \in Int, NEW lim \in Int, NEW d \in BOOLEAN,
         NEW p, Idle(p, fb, fr, lim, d), p.state \notin {"CLOSED", "TIME_WAIT"},
         NEW late \in BOOLEAN, NEW stale \in BOOLEAN, NEW poll \in BOOLEAN
  PROVE  /\ Idle(SlowTick(p, late, stale, poll), fb, fr, lim, d)
         /\ Onward(p, SlowTick(p, late, stale, poll))
         /\ p.refused = <<>> => Served(p, SlowTick(p, late, stale, poll), fr, lim, d)
<1>e. PICK none : none = <<>>
  OBVIOUS
<1>z. PICK z : z = SlowTick(p, late, stale, poll)
  OBVIOUS
<1>q. PICK q : q = IF GaveUp(p) THEN p ELSE Expire(p)
  OBVIOUS
<1>r. PICK r : r = IF stale THEN [q EXCEPT !.ooseq = <<>>] ELSE q
  OBVIOUS
<1>g. PICK g : g = Freed(Purge(r))
  OBVIOUS
<1>1. z = [g EXCEPT !.failed = TRUE] \/ z = Output(r) \/ z = r
  BY <1>z, <1>q, <1>r, <1>g DEF SlowTick, Removed
<1>2. Both(p, none, fb, fr, lim, d) /\ DOMAIN p = Fields
  <2>1. Both(p, none, fb, fr, lim, d)
    BY <1>e DEF Idle
  <2> QED  BY <2>1, BothSnd
<1>3. Both(q, none, fb, fr, lim, d) /\ Changes(p, q, ExpireFields)
  BY <1>2, <1>q, ExpireBoth, ChangesNone
<1>4. Both(r, none, fb, fr, lim, d) /\ Changes(p, r, ExpireFields \cup {"ooseq"})
  <2>1. CASE ~stale
    BY <1>3, <1>r, <2>1 DEF Changes
  <2>2. CASE stale
    <3>1. r = [q EXCEPT !.ooseq = <<>>]
      BY <1>r, <2>2
    <3>2. Both(r, none, fb, fr, lim, d) /\ Changes(q, r, {"ooseq"})
      BY <1>3, <3>1, StaleBoth
    <3> QED  BY <1>3, <3>2 DEF Changes
  <2> QED  BY <2>1, <2>2
<1>5. Agree(p, r, AppSees \cup {"refused", "state", "busy", "recv_data", "recv_flags"})
  BY <1>4, FieldsAre DEF Changes, Agree, AppSees, ExpireFields, OutputFields
<1>6. p.failed = FALSE /\ p.taken \in Seq(Int)
  BY <1>2 DEF Both, Their
<1>7. CASE z = r
  <2>1. Idle(z, fb, fr, lim, d)
    BY <1>4, <1>5, <1>7, <1>e DEF Idle, Agree
  <2> QED  BY <1>5, <1>7, <1>z, <2>1 DEF Onward, Served, Agree, AppSees
<1>8. CASE z = Output(r)
  <2>1. Both(z, none, fb, fr, lim, d) /\ Changes(r, z, OutputFields)
    BY <1>4, <1>8, OutputBoth
  <2>2. Agree(p, z, AppSees \cup {"refused", "busy", "recv_data", "recv_flags"})
    BY <1>5, <2>1, FieldsAre DEF Changes, Agree, AppSees, OutputFields
  <2>3. Idle(z, fb, fr, lim, d)
    BY <2>1, <2>2, <1>e DEF Idle, Agree
  <2> QED  BY <1>z, <2>2, <2>3 DEF Onward, Served, Agree, AppSees
<1>9. CASE z = [g EXCEPT !.failed = TRUE]
  <2>1. PICK y : y = Purge(r)
    OBVIOUS
  <2>2. Rest(r, fb, fr, lim)
    BY <1>4, BothRest
  <2>3. Rest(y, fb, fr, lim) /\ Changes(r, y, PurgeFields)
    <3>1. PICK w \in Nat, c \in BOOLEAN : w = r.written /\ c = r.closed
      BY <2>2 DEF Rest
    <3>2. Snd(y, fb, w, c) /\ Changes(r, y, PurgeFields)
      BY <2>1, <2>2, <3>1, PurgeIs DEF Rest
    <3>3. Agree(r, y, RestFields) /\ Snd(y, fb, r.written, r.closed)
      BY <3>1, <3>2, FieldsAre DEF Changes, Agree, RestFields, PurgeFields
    <3> QED  BY <2>2, <3>2, <3>3, RestKept
  <2>4. Changes(Freed(y), z, {"failed"}) /\ z.failed = TRUE
    <3>1. DOMAIN Freed(y) = Fields
      BY FreedIs
    <3> QED  BY <1>9, <1>g, <2>1, <3>1, FieldsAre DEF Changes
  <2>5. /\ Both(z, none, fb, fr, lim, d)
        /\ Agree(y, z, {"written", "closed", "taken", "eof", "reported", "unread", "out"})
    <3>1. z.failed \in BOOLEAN
      BY <2>4
    <3> QED  BY <1>e, <2>3, <2>4, <3>1, FreedBoth
  <2>6. Agree(r, y, RestFields)
    BY <2>3, FieldsAre DEF Changes, Agree, RestFields, PurgeFields
  <2>7. Agree(p, z, {"written", "closed", "taken", "eof"})
    BY <1>5, <2>5, <2>6 DEF Agree, RestFields, AppSees
  <2>8. /\ z.busy = FALSE /\ z.recv_data = <<>> /\ z.recv_flags = {} /\ z.refused = <<>>
    <3>1. /\ Freed(y).busy = Blank.busy /\ Freed(y).recv_data = Blank.recv_data
          /\ Freed(y).recv_flags = Blank.recv_flags /\ Freed(y).refused = Blank.refused
      BY FreedIs, FieldsAre DEF AppFields
    <3> QED  BY <2>4, <3>1, FieldsAre DEF Changes, Blank
  <2>9. Idle(z, fb, fr, lim, d)
    BY <1>e, <2>5, <2>8 DEF Idle
  <2>10. Lost(p, z)
    <3>1. Len(p.taken) \in Nat /\ Len(z.taken) = Len(p.taken)
      BY <1>6, <2>7 DEF Agree
    <3> QED  BY <1>6, <2>4, <2>7, <3>1 DEF Lost, Agree
  <2> QED  BY <1>z, <2>7, <2>8, <2>9, <2>10 DEF Onward, Served, Agree
<1> QED  BY <1>1, <1>7, <1>8, <1>9

(* tcp_fasttmr on an active block: the refused data offered again and the
   delayed ACK. *)
LEMMA FastTickBoth ==
  ASSUME NEW fb \in Int, NEW fr \in Int, NEW lim \in Int, NEW d \in BOOLEAN,
         NEW p, Idle(p, fb, fr, lim, d), p.state \notin {"CLOSED", "TIME_WAIT"},
         NEW answer \in {"consume", "take", "refuse"}
  PROVE  /\ Idle(FastTick(p, answer), fb, fr, lim, d)
         /\ Onward(p, FastTick(p, answer))
         /\ p.refused = <<>> => Served(p, FastTick(p, answer), fr, lim, d)
<1>e. PICK none : none = <<>>
  OBVIOUS
<1>z. PICK z : z = FastTick(p, answer)
  OBVIOUS
<1>q. PICK q : q = IF p.refused = <<>> THEN p ELSE Offer(p, p.refused, answer)
  OBVIOUS
<1>k. PICK k : k = AckNow(q)
  OBVIOUS
<1>1. z = q \/ z = [k EXCEPT !.flags = @ \ AckFlagSet]
  BY <1>z, <1>q, <1>k DEF FastTick
<1>2. Both(p, none, fb, fr, lim, d) /\ DOMAIN p = Fields
  <2>1. Both(p, none, fb, fr, lim, d)
    BY <1>e DEF Idle
  <2> QED  BY <2>1, BothSnd
<1>3. /\ Both(q, none, fb, fr, lim, d) /\ Changes(p, q, OfferFields)
      /\ p.refused = <<>> => q = p
  <2>1. CASE p.refused = <<>>
    BY <1>2, <1>q, <2>1, ChangesNone
  <2>2. CASE p.refused # <<>>
    <3>1. PICK y : y = [p EXCEPT !.refused = <<>>]
      OBVIOUS
    <3>2. PICK data : data = p.refused
      OBVIOUS
    <3>3. Waiting(p, y, data, fb, fr, lim, d)
      BY <2>2, <3>1, <3>2, RefusedWaits
    <3>4. /\ Both(Offer(p, data, answer), none, fb, fr, lim, d)
          /\ Offered(p, Offer(p, data, answer), data, answer)
      BY <1>e, <3>3, OfferBoth
    <3> QED  BY <1>q, <2>2, <3>2, <3>4 DEF Offered
  <2> QED  BY <2>1, <2>2
<1>4. Both(z, none, fb, fr, lim, d) /\ Changes(q, z, OutputFields)
  <2>1. CASE z = q
    BY <1>3, <2>1, ChangesNone, BothSnd
  <2>2. CASE z = [k EXCEPT !.flags = @ \ AckFlagSet]
    <3>1. Both(k, none, fb, fr, lim, d) /\ Changes(q, k, OutputFields)
      BY <1>3, <1>k, OutputBoth
    <3>2. Snd(k, fb, k.written, k.closed) /\ DOMAIN k = Fields /\ k.closed \in BOOLEAN
      BY <3>1, BothSnd
    <3>3. Changes(k, z, {"flags"})
      BY <2>2, <3>2, FieldsAre DEF Changes
    <3>4. Snd(z, fb, k.written, k.closed) /\ {"flags"} \cap LifeFields = {}
      BY <3>2, <3>3, SndChanges DEF SndFields, LifeFields
    <3>5. Both(z, none, fb, fr, lim, d)
      BY <3>1, <3>3, <3>4, BothKept
    <3> QED  BY <3>1, <3>3, <3>5 DEF Changes, OutputFields
  <2> QED  BY <1>1, <2>1, <2>2
<1>5. Agree(p, z, {"written", "closed", "busy", "recv_data", "recv_flags"})
  BY <1>3, <1>4, FieldsAre DEF Changes, Agree, OfferFields, RecvedFields, OutputFields
<1>6. Idle(z, fb, fr, lim, d)
  BY <1>e, <1>4, <1>5 DEF Idle, Agree
<1>7. p.refused = <<>> => Agree(p, z, AppSees) /\ z.refused = <<>>
  BY <1>3, <1>4, FieldsAre DEF Changes, Agree, AppSees, OutputFields
<1> QED  BY <1>z, <1>5, <1>6, <1>7 DEF Onward, Served, Agree

-----------------------------------------------------------------------------
(* The inductive invariant *)

EndIdle(e, p, w, d) ==
  Idle(p, FirstByte(e), FirstByte(Peer(e)), FirstByte(Peer(e)) + w, d)

(* Between two handlers: each end has queued what it wrote and did not see
   acknowledged, it holds and expects what its peer wrote, and all that is on
   its way to it is what its peer wrote. *)
EndInv(e) ==
  LET w == tcb[Peer(e)].written
      d == tcb[Peer(e)].closed
  IN  /\ EndIdle(e, tcb[e], w, d)
      /\ tcb[e].out = <<>> /\ tcb[e].mem = TRUE
      /\ DOMAIN net[e] \subseteq WSegs(FirstByte(Peer(e)), w, d)
      /\ e \notin opened => Changes(Blank, tcb[e], {})

ConnInv ==
  /\ tcb = [e \in Ends |-> tcb[e]] /\ net = [e \in Ends |-> net[e]] /\ opened \subseteq Ends
  /\ \A e \in Ends : EndInv(e)

(* The two ends, and where each one's stream begins. *)
LEMMA EndsAre ==
  ASSUME NEW e \in Ends
  PROVE  /\ Peer(e) \in Ends /\ Peer(e) # e /\ Peer(Peer(e)) = e
         /\ \A x \in Ends : x = e \/ x = Peer(e)
         /\ FirstByte(e) \in Int /\ Iss(e) \in Int
BY ConnAssumption DEF Ends, Peer, FirstByte, Iss

(* The sender of an end that is between two handlers. *)
LEMMA EndFacts ==
  ASSUME NEW e, NEW w, NEW d, NEW p, EndIdle(e, p, w, d)
  PROVE  /\ Snd(p, FirstByte(e), p.written, p.closed) /\ p.written \in Nat
         /\ p.closed \in BOOLEAN /\ DOMAIN p = Fields
BY DEF EndIdle, Idle, Both, Own, Snd

(* A handler of e leaves the block q for the block p. *)
Steps(e, p, q, w, d) ==
  /\ EndIdle(e, q, w, d)
  /\ p.written <= q.written /\ (p.closed = TRUE => q.closed = TRUE /\ q.written = p.written)
  /\ q.state = "CLOSED" /\ Changes(Blank, p, {}) => Changes(Blank, q, {"out", "mem"})

(* The end of every handler. When it leaves the block between two handlers
   and what it sends comes from what was written, the invariant holds after
   the segments have been put on the network. *)
LEMMA CommitInv ==
  ASSUME ConnInv, NEW e \in Ends, NEW q,
         Steps(e, tcb[e], q, tcb[Peer(e)].written, tcb[Peer(e)].closed),
         NEW queue, DOMAIN queue \subseteq DOMAIN net[e], Commit(e, q, queue)
  PROVE  ConnInv'
<1>x. PICK x \in Ends : x = Peer(e)
  BY EndsAre
<1>n. PICK none : none = <<>>
  OBVIOUS
<1>r. PICK r : r = [q EXCEPT !.out = <<>>, !.mem = TRUE]
  OBVIOUS
<1>f. PICK fe \in Int, fx \in Int : fe = FirstByte(e) /\ fx = FirstByte(x)
  BY EndsAre
<1>1. /\ x # e /\ Peer(x) = e /\ (\A y \in Ends : y = e \/ y = x)
  BY <1>x, EndsAre
<1>2. /\ DOMAIN tcb = Ends /\ DOMAIN net = Ends /\ EndInv(e) /\ EndInv(x)
  BY DEF ConnInv
<1>w. PICK w \in Nat, d \in BOOLEAN : w = tcb[x].written /\ d = tcb[x].closed
  BY <1>2, EndFacts DEF EndInv
<1>v. PICK v \in Nat, c \in BOOLEAN : v = tcb[e].written /\ c = tcb[e].closed
  BY <1>2, EndFacts DEF EndInv
<1>q. PICK v2 \in Nat, c2 \in BOOLEAN : v2 = q.written /\ c2 = q.closed
  BY EndFacts DEF Steps
<1>3. /\ tcb'[e] = r /\ tcb'[x] = tcb[x] /\ net'[e] = queue /\ net'[x] = Put(net[x], q.out)
      /\ opened' = IF q.state = "CLOSED" THEN opened ELSE opened \cup {e}
      /\ tcb' = [y \in Ends |-> tcb'[y]] /\ net' = [y \in Ends |-> net'[y]]
  BY <1>1, <1>2, <1>x, <1>r DEF Commit, ConnInv
<1>4. /\ EndIdle(e, q, w, d) /\ EndIdle(x, tcb[x], v, c)
      /\ Snd(q, fe, v2, c2) /\ DOMAIN q = Fields
      /\ v <= v2 /\ (c => c2 /\ v2 = v)
      /\ DOMAIN net[e] \subseteq WSegs(fx, w, d) /\ DOMAIN net[x] \subseteq WSegs(fe, v, c)
  BY <1>x, <1>1, <1>2, <1>w, <1>v, <1>q, <1>f, EndFacts DEF Steps, EndInv
<1>5. EndIdle(e, r, w, d) /\ r.out = <<>> /\ r.mem = TRUE /\ r.written = v2 /\ r.closed = c2
  <2>1. /\ Changes(q, r, {"out", "mem"}) /\ r.out = <<>> /\ r.mem = TRUE
    BY <1>4, <1>r, FieldsAre DEF Changes
  <2>2. r.written = q.written /\ r.closed = q.closed
    BY <2>1, FieldsAre DEF Changes
  <2>3. Snd(r, fe, v2, c2)
    <3>1. <<>> \in Seq(WSegs(fe, v2, c2))
      BY EmptySeq
    <3> QED  BY <1>4, <2>1, <3>1, FieldsAre DEF Snd, Changes
  <2>4. PICK lim \in Int : lim = fx + w
    OBVIOUS
  <2>5. Idle(q, fe, fx, lim, d)
    BY <1>4, <1>x, <1>f, <2>4 DEF EndIdle
  <2>6. Both(q, none, fe, fx, lim, d)
    BY <2>5, <1>n DEF Idle
  <2>7. Both(r, none, fe, fx, lim, d)
    <3>1. {"out", "mem"} \cap LifeFields = {} /\ Snd(r, fe, q.written, q.closed)
      BY <1>q, <2>3 DEF LifeFields
    <3> QED  BY <2>1, <2>6, <3>1, BothKept
  <2>8. {"out", "mem"} \cap {"busy", "recv_data", "recv_flags"} = {}
    OBVIOUS
  <2>9. Idle(r, fe, fx, lim, d)
    BY <1>n, <2>1, <2>5, <2>7, <2>8, IdleKept
  <2> QED  BY <1>x, <1>f, <1>q, <2>1, <2>2, <2>4, <2>9 DEF EndIdle
<1>6. EndIdle(x, tcb[x], v2, c2)
  <2>1. PICK lim \in Int, lim2 \in Int : lim = fe + v /\ lim2 = fe + v2
    OBVIOUS
  <2>2. Idle(tcb[x], fx, fe, lim, c)
    BY <1>1, <1>4, <1>f, <2>1 DEF EndIdle
  <2>3. lim <= lim2 /\ (c => c2 /\ lim2 = lim)
    BY <1>4, <2>1
  <2>4. Idle(tcb[x], fx, fe, lim2, c2)
    BY <2>2, <2>3, IdleGrow
  <2> QED  BY <1>1, <1>f, <2>1, <2>4 DEF EndIdle
<1>7. DOMAIN net'[x] \subseteq WSegs(fe, v2, c2)
  <2>1. WSegs(fe, v, c) \subseteq WSegs(fe, v2, c2)
    BY <1>4, SegsGrow
  <2>2. DOMAIN net[x] \subseteq WSegs(fe, v2, c2) /\ q.out \in Seq(WSegs(fe, v2, c2))
    BY <1>4, <2>1 DEF Snd
  <2> QED  BY <1>3, <2>2, PutDomain
<1>8. EndInv(e)'
  <2>1. tcb'[Peer(e)].written = w /\ tcb'[Peer(e)].closed = d
    BY <1>3, <1>w, <1>x
  <2>2. DOMAIN net'[e] \subseteq WSegs(FirstByte(Peer(e)), w, d)
    BY <1>3, <1>4, <1>f, <1>x
  <2>3. e \notin opened' => Changes(Blank, tcb'[e], {})
    <3> SUFFICES ASSUME e \notin opened' PROVE Changes(Blank, tcb'[e], {})
      OBVIOUS
    <3>1. q.state = "CLOSED" /\ e \notin opened
      BY <1>3
    <3>2. Changes(Blank, q, {"out", "mem"})
      BY <1>2, <3>1 DEF EndInv, Steps
    <3>3. Changes(q, r, {"out", "mem"}) /\ r.out = <<>> /\ r.mem = TRUE
      BY <1>4, <1>r, FieldsAre DEF Changes
    <3>4. Blank.out = <<>> /\ Blank.mem = TRUE
      BY DEF Blank
    <3> QED  BY <1>3, <3>2, <3>3, <3>4, FieldsAre DEF Changes
  <2> QED  BY <1>3, <1>5, <2>1, <2>2, <2>3 DEF EndInv
<1>9. EndInv(x)'
  <2>1. tcb'[Peer(x)].written = v2 /\ tcb'[Peer(x)].closed = c2
    BY <1>1, <1>3, <1>5
  <2>2. x \notin opened' => Changes(Blank, tcb'[x], {})
    BY <1>2, <1>3 DEF EndInv
  <2>3. tcb'[x].out = <<>> /\ tcb'[x].mem = TRUE
    BY <1>2, <1>3 DEF EndInv
  <2> QED  BY <1>1, <1>3, <1>6, <1>7, <1>f, <2>1, <2>2, <2>3 DEF EndInv
<1>10. opened' \subseteq Ends
  BY <1>3 DEF ConnInv
<1> QED  BY <1>1, <1>3, <1>8, <1>9, <1>10 DEF ConnInv

(* The invariant holds at the start. *)
LEMMA InitInv == Init => ConnInv
<1> SUFFICES ASSUME Init PROVE ConnInv
  OBVIOUS
<1>1. /\ tcb = [e \in Ends |-> Blank] /\ net = [e \in Ends |-> EmptyBag] /\ opened = {}
  BY DEF Init
<1>2. DOMAIN EmptyBag = {}
  BY DEF EmptyBag, SetToBag
<1>3. ASSUME NEW e \in Ends PROVE EndInv(e)
  <2>1. PICK x \in Ends : x = Peer(e)
    BY EndsAre
  <2>2. tcb[e] = Blank /\ tcb[x] = Blank /\ DOMAIN net[e] = {}
    BY <1>1, <1>2
  <2>3. Blank.written = 0 /\ Blank.closed = FALSE /\ Blank.out = <<>> /\ Blank.mem = TRUE
    BY DEF Blank
  <2>4. PICK fe \in Int, fx \in Int : fe = FirstByte(e) /\ fx = FirstByte(x)
    BY EndsAre
  <2>5. PICK w \in Nat, d \in BOOLEAN : w = 0 /\ d = FALSE
    OBVIOUS
  <2>6. PICK lim \in Int : lim = fx + w
    OBVIOUS
  <2>7. fx <= lim
    BY <2>5, <2>6
  <2>8. Idle(Blank, fe, fx, lim, d)
    BY <2>7, BlankIdle
  <2>9. EndIdle(e, Blank, w, d)
    BY <2>1, <2>4, <2>6, <2>8 DEF EndIdle
  <2>10. Changes(Blank, Blank, {})
    BY ChangesNone DEF Fields
  <2> QED  BY <2>1, <2>2, <2>3, <2>5, <2>9, <2>10 DEF EndInv
<1> QED  BY <1>1, <1>3 DEF ConnInv

(* The block a handler begins with: its allocations may fail. *)
LEMMA MemIdle ==
  ASSUME ConnInv, NEW e \in Ends, NEW m \in BOOLEAN, NEW p, p = [tcb[e] EXCEPT !.mem = m],
         NEW w \in Nat, w = tcb[Peer(e)].written, NEW d \in BOOLEAN, d = tcb[Peer(e)].closed
  PROVE  EndIdle(e, p, w, d) /\ Changes(tcb[e], p, {"mem"})
<1>n. PICK none : none = <<>>
  OBVIOUS
<1>f. PICK fe \in Int, fx \in Int : fe = FirstByte(e) /\ fx = FirstByte(Peer(e))
  BY EndsAre
<1>l. PICK lim \in Int : lim = fx + w
  OBVIOUS
<1>1. EndIdle(e, tcb[e], w, d)
  BY DEF ConnInv, EndInv
<1>2. Snd(tcb[e], fe, tcb[e].written, tcb[e].closed) /\ DOMAIN tcb[e] = Fields
      /\ tcb[e].closed \in BOOLEAN
  BY <1>1, <1>f, EndFacts
<1>3. Changes(tcb[e], p, {"mem"})
  BY <1>2, FieldsAre DEF Changes
<1>4. Idle(tcb[e], fe, fx, lim, d)
  BY <1>1, <1>f, <1>l DEF EndIdle
<1>5. Both(p, none, fe, fx, lim, d)
  <2>1. Both(tcb[e], none, fe, fx, lim, d)
    BY <1>4, <1>n DEF Idle
  <2>2. Snd(p, fe, tcb[e].written, tcb[e].closed) /\ {"mem"} \cap LifeFields = {}
    BY <1>2, <1>3, SndChanges DEF SndFields, LifeFields
  <2> QED  BY <1>3, <2>1, <2>2, BothKept
<1>6. {"mem"} \cap {"busy", "recv_data", "recv_flags"} = {}
  OBVIOUS
<1>7. Idle(p, fe, fx, lim, d)
  BY <1>3, <1>4, <1>5, <1>6, <1>n, IdleKept
<1> QED  BY <1>3, <1>7, <1>f, <1>l DEF EndIdle

(* What the application of e sees of a handler that is not its own. *)
SeenBy(e, p, q, w, d) == Served(p, q, FirstByte(Peer(e)), FirstByte(Peer(e)) + w, d)

(* A handler of the stack: p is tcb[e] with what its allocations do. *)
LEMMA OnwardSteps ==
  ASSUME NEW e, NEW t, NEW p, NEW q, NEW w, NEW d, Changes(t, p, {"mem"}),
         EndIdle(e, p, w, d), EndIdle(e, q, w, d), Onward(p, q),
         q.state = "CLOSED" /\ Changes(Blank, t, {}) => Changes(p, q, {"out", "mem"})
  PROVE  Steps(e, t, q, w, d)
<1>1. p.written \in Nat /\ t.written = p.written /\ t.closed = p.closed
  BY EndFacts, FieldsAre DEF Changes
<1>2. t.written <= q.written /\ (t.closed = TRUE => q.closed = TRUE /\ q.written = t.written)
  BY <1>1 DEF Onward
<1>3. q.state = "CLOSED" /\ Changes(Blank, t, {}) => Changes(Blank, q, {"out", "mem"})
  BY DEF Changes
<1> QED  BY <1>2, <1>3 DEF Steps

(* Whether memory was there is no part of what the application sees. *)
LEMMA ServedFrom ==
  ASSUME NEW e, NEW t, NEW p, NEW q, NEW w, NEW d, Changes(t, p, {"mem"}),
         SeenBy(e, p, q, w, d)
  PROVE  SeenBy(e, t, q, w, d)
<1>1. Agree(t, p, AppSees)
  BY FieldsAre DEF Changes, Agree, AppSees
<1> QED  BY <1>1 DEF SeenBy, Served, Heard, Lost, Agree, AppSees

(* Whether the applications refuse data. *)
Willing(t) == "refuse" \notin Answers /\ t.refused = <<>>

Handled(e, t, q, w, d) ==
  /\ Steps(e, t, q, w, d)
  /\ Willing(t) => SeenBy(e, t, q, w, d)

(* A step that touches nothing the application sees. *)
LEMMA UnseenServed ==
  ASSUME NEW e, NEW p, NEW q, NEW w, NEW d, NEW S, Changes(p, q, S),
         S \cap (AppSees \cup {"refused"}) = {}
  PROVE  Onward(p, q) /\ (p.refused = <<>> => SeenBy(e, p, q, w, d))
<1>1. Agree(p, q, AppSees \cup {"refused"})
  BY FieldsAre DEF Changes, Agree, AppSees
<1> QED  BY <1>1 DEF Onward, SeenBy, Served, Agree, AppSees

(* tcp_input, for every segment on its way, state, callback answer and
   supply of memory. *)
LEMMA InputHandled ==
  ASSUME ConnInv, NEW e \in Ends, NEW s \in DOMAIN net[e], NEW cb \in Callbacks(tcb[e]),
         NEW m \in BOOLEAN, NEW p, p = [tcb[e] EXCEPT !.mem = m]
  PROVE  Handled(e, tcb[e], Input(e, p, s, cb), tcb[Peer(e)].written, tcb[Peer(e)].closed)
<1>t. PICK t : t = tcb[e]
  OBVIOUS
<1>q. PICK q : q = Input(e, p, s, cb)
  OBVIOUS
<1>f. PICK fe \in Int, fx \in Int : fe = FirstByte(e) /\ fx = FirstByte(Peer(e))
  BY EndsAre
<1>w. PICK w \in Nat, d \in BOOLEAN : w = tcb[Peer(e)].written /\ d = tcb[Peer(e)].closed
  <2>1. PICK x \in Ends : x = Peer(e)
    BY EndsAre
  <2>2. EndIdle(x, tcb[x], tcb[Peer(x)].written, tcb[Peer(x)].closed)
    BY DEF ConnInv, EndInv
  <2> QED  BY <2>1, <2>2, EndFacts
<1>l. PICK lim \in Int : lim = fx + w
  OBVIOUS
<1>1. EndIdle(e, p, w, d) /\ Changes(t, p, {"mem"})
  BY <1>t, <1>w, MemIdle
<1>2. Idle(p, fe, fx, lim, d)
  BY <1>1, <1>f, <1>l DEF EndIdle
<1>3. s \in WSegs(fx, w, d)
  BY <1>f, <1>w DEF ConnInv, EndInv
<1>4. /\ Answering(cb) /\ ("refuse" \notin Answers => cb.recv # "refuse")
  <2>1. /\ cb.recv \in Answers /\ cb.eof \in CloseAtEof
        /\ cb.again \in Again(tcb[e])
    BY DEF Callbacks
  <2>2. Again(tcb[e]) \subseteq {"consume", "take", "refuse"}
    BY ConnAssumption DEF Again
  <2> QED  BY <2>1, <2>2, ConnAssumption DEF Answering
<1>5. p.state = t.state /\ p.refused = t.refused /\ (Changes(Blank, t, {}) => t.state = "CLOSED")
  BY <1>1, FieldsAre DEF Changes, Blank
<1>6. ASSUME EndIdle(e, q, w, d), Onward(p, q),
             q.state = "CLOSED" /\ Changes(Blank, t, {}) => Changes(p, q, {"out", "mem"}),
             Willing(t) => SeenBy(e, p, q, w, d)
      PROVE  Handled(e, t, q, w, d)
  <2>1. Steps(e, t, q, w, d)
    BY <1>1, <1>6, OnwardSteps
  <2>2. Willing(t) => SeenBy(e, t, q, w, d)
    BY <1>1, <1>6, ServedFrom
  <2> QED  BY <2>1, <2>2 DEF Handled
<1>7. CASE p.state = "TIME_WAIT"
  <2>1. q = TimewaitInput(p, s)
    BY <1>q, <1>7 DEF Input
  <2>2. Idle(q, fe, fx, lim, d) /\ Changes(p, q, OutputFields)
    BY <1>2, <1>3, <1>l, <2>1, TimewaitInputBoth
  <2>3. OutputFields \cap (AppSees \cup {"refused"}) = {}
    BY DEF OutputFields, AppSees
  <2>4. Onward(p, q) /\ (p.refused = <<>> => SeenBy(e, p, q, w, d))
    BY <2>2, <2>3, UnseenServed
  <2>5. EndIdle(e, q, w, d)
    BY <2>2, <1>f, <1>l DEF EndIdle
  <2> QED  BY <1>5, <1>6, <1>7, <1>q, <1>t, <1>w, <2>4, <2>5 DEF Willing
<1>8. CASE p.state = "CLOSED"
  <2>1. /\ Idle(q, fe, fx, lim, d)
        /\ Fresh(p, q)
    <3>1. CASE e = Server
      <4>1. PICK iss \in Int : iss = Iss(e) /\ fe = iss + 1
        BY <1>f, <3>1, ConnAssumption, EndsAre DEF FirstByte
      <4>2. PICK free \in BOOLEAN : free = (e \notin opened)
        OBVIOUS
      <4>3. q = ListenInput(p, s, iss, free)
        <5>1. q = ListenInput(p, s, Iss(e), e \notin opened)
          BY <1>q, <1>8, <3>1, ConnAssumption DEF Input
        <5>2. ListenInput(p, s, Iss(e), e \notin opened) = ListenInput(p, s, iss, free)
          BY <4>1, <4>2, Zenon
        <5> QED  BY <5>1, <5>2
      <4>4. free => Changes(Blank, p, {"mem"})
        <5>1. free => Changes(Blank, t, {})
          BY <1>t, <4>2 DEF ConnInv, EndInv
        <5> QED  BY <1>1, <5>1 DEF Changes
      <4> QED  BY <1>2, <1>3, <1>l, <4>1, <4>3, <4>4, ListenInputBoth
    <3>2. CASE e # Server
      <4>1. q = ClosedInput(p, s)
        BY <1>q, <1>8, <3>2, ConnAssumption DEF Input, Ends
      <4>2. PICK seq \in Int, ack \in Int : seq = s.ack /\ ack = EndSeq(s)
        BY <1>3 DEF WSegs, EndSeq, TcpLen
      <4>3. q = p \/ q = Reset(p, seq, ack)
        BY <4>1, <4>2 DEF ClosedInput
      <4>4. Idle(q, fe, fx, lim, d) /\ Changes(p, q, {"out"})
        BY <1>2, <4>3, AnsweredBoth
      <4> QED  BY <4>4 DEF Fresh, Changes
    <3> QED  BY <3>1, <3>2
  <2>2. EndIdle(e, q, w, d)
    BY <2>1, <1>f, <1>l DEF EndIdle
  <2>3. CASE Changes(p, q, {"out", "mem"})
    <3>1. {"out", "mem"} \cap (AppSees \cup {"refused"}) = {}
      BY DEF AppSees
    <3>2. Onward(p, q) /\ (p.refused = <<>> => SeenBy(e, p, q, w, d))
      BY <2>3, <3>1, UnseenServed
    <3> QED  BY <1>5, <1>6, <1>q, <1>t, <1>w, <2>2, <2>3, <3>2 DEF Willing
  <2>4. CASE Agree(p, q, AppSees) /\ q.state # "CLOSED" /\ q.refused = <<>>
    <3>1. Onward(p, q) /\ SeenBy(e, p, q, w, d)
      BY <2>4 DEF Onward, SeenBy, Served, Agree, AppSees
    <3> QED  BY <1>5, <1>6, <1>q, <1>t, <1>w, <2>2, <2>4, <3>1
  <2> QED  BY <2>1, <2>3, <2>4 DEF Fresh
<1>9. CASE p.state \notin {"CLOSED", "TIME_WAIT"}
  <2>1. q = ActiveInput(p, s, cb)
    BY <1>q, <1>9 DEF Input
  <2>2. /\ Idle(q, fe, fx, lim, d) /\ Onward(p, q)
        /\ p.refused = <<>> /\ cb.recv # "refuse" => Served(p, q, fx, lim, d)
    <3>1. Answering(cb) /\ p.state \notin {"CLOSED", "TIME_WAIT"} /\ lim = fx + w
      BY <1>4, <1>9, <1>l
    <3>2. Idle(ActiveInput(p, s, cb), fe, fx, lim, d) /\ Onward(p, ActiveInput(p, s, cb))
      BY <1>2, <1>3, <3>1, ActiveInputBoth, ZenonT(30)
    <3>3. /\ p.refused = <<>> /\ cb.recv # "refuse" =>
               Served(p, ActiveInput(p, s, cb), fx, lim, d)
      BY <1>2, <1>3, <3>1, ActiveInputBoth, ZenonT(30)
    <3> QED  BY <2>1, <3>2, <3>3
  <2>3. EndIdle(e, q, w, d)
    BY <2>2, <1>f, <1>l DEF EndIdle
  <2>4. Willing(t) => SeenBy(e, p, q, w, d)
    BY <1>4, <1>5, <1>f, <1>l, <2>2 DEF SeenBy, Willing
  <2> QED  BY <1>5, <1>6, <1>9, <1>q, <1>t, <1>w, <2>2, <2>3, <2>4
<1> QED  BY <1>7, <1>8, <1>9

-----------------------------------------------------------------------------
(* The actions *)

(* Memory is there or it is not. *)
LEMMA MemoryIs == Memory \subseteq BOOLEAN
BY DEF Memory

(* What an end knows of its peer, from the invariant. *)
LEMMA PeerFacts ==
  ASSUME ConnInv, NEW e \in Ends
  PROVE  /\ tcb[Peer(e)].written \in Nat /\ tcb[Peer(e)].closed \in BOOLEAN
         /\ EndIdle(e, tcb[e], tcb[Peer(e)].written, tcb[Peer(e)].closed)
<1>1. PICK x \in Ends : x = Peer(e)
  BY EndsAre
<1>2. EndIdle(x, tcb[x], tcb[Peer(x)].written, tcb[Peer(x)].closed)
  BY DEF ConnInv, EndInv
<1>3. tcb[x].written \in Nat /\ tcb[x].closed \in BOOLEAN
  BY <1>2, EndFacts
<1> QED  BY <1>1, <1>3 DEF ConnInv, EndInv

(* The stack has handled something for e, that the application of e sees as
   Served says if it never refuses data. *)
Did(e) ==
  \E q, queue :
    /\ Commit(e, q, queue) /\ DOMAIN queue \subseteq DOMAIN net[e]
    /\ Handled(e, tcb[e], q, tcb[Peer(e)].written, tcb[Peer(e)].closed)

(* The arrival of a segment is a handler that keeps the invariant and serves
   the application. *)
LEMMA DeliverDid == ASSUME ConnInv, NEW e \in Ends, Deliver(e) PROVE Did(e)
<1>1. PICK s \in DOMAIN net[e], cb \in Callbacks(tcb[e]), m \in Memory :
        Commit(e, Input(e, [tcb[e] EXCEPT !.mem = m], s, cb), BagRemove(net[e], s))
  BY DEF Deliver
<1>2. PICK p : p = [tcb[e] EXCEPT !.mem = m]
  OBVIOUS
<1>3. PICK queue : queue = BagRemove(net[e], s)
  OBVIOUS
<1>4. m \in BOOLEAN
  BY MemoryIs
<1>5. Handled(e, tcb[e], Input(e, p, s, cb), tcb[Peer(e)].written, tcb[Peer(e)].closed)
  BY <1>2, <1>4, InputHandled
<1>6. DOMAIN queue \subseteq DOMAIN net[e]
  BY <1>3, RemoveDomain
<1>7. Commit(e, Input(e, p, s, cb), queue)
  BY <1>1, <1>2, <1>3
<1> QED  BY <1>5, <1>6, <1>7 DEF Did

(* A tick, or a call of tcp_recved, leaves q; the connection was open. *)
LEMMA ActiveHandled ==
  ASSUME ConnInv, NEW e \in Ends, NEW m \in BOOLEAN, NEW p, p = [tcb[e] EXCEPT !.mem = m],
         p.state # "CLOSED", NEW q, Onward(p, q),
         EndIdle(e, q, tcb[Peer(e)].written, tcb[Peer(e)].closed),
         p.refused = <<>> => SeenBy(e, p, q, tcb[Peer(e)].written, tcb[Peer(e)].closed)
  PROVE  Handled(e, tcb[e], q, tcb[Peer(e)].written, tcb[Peer(e)].closed)
<1>t. PICK t : t = tcb[e]
  OBVIOUS
<1>w. PICK w \in Nat, d \in BOOLEAN : w = tcb[Peer(e)].written /\ d = tcb[Peer(e)].closed
  BY PeerFacts
<1>1. EndIdle(e, p, w, d) /\ Changes(t, p, {"mem"}) /\ EndIdle(e, q, w, d)
  BY <1>t, <1>w, MemIdle
<1>2. p.state = t.state /\ p.refused = t.refused
  BY <1>1, FieldsAre DEF Changes
<1>3. ~Changes(Blank, t, {})
  BY <1>2, FieldsAre DEF Changes, Blank
<1>4. Steps(e, t, q, w, d)
  BY <1>1, <1>3, OnwardSteps
<1>5. Willing(t) => SeenBy(e, t, q, w, d)
  <2>1. Willing(t) => SeenBy(e, p, q, w, d)
    BY <1>2, <1>w DEF Willing
  <2> QED  BY <1>1, <2>1, ServedFrom
<1> QED  BY <1>4, <1>5, <1>t, <1>w DEF Handled

(* So is the slow timer. *)
LEMMA SlowTmrDid == ASSUME ConnInv, NEW e \in Ends, SlowTmr(e) PROVE Did(e)
<1>1. PICK m \in Memory, late \in {FALSE, Stuck}, stale \in {FALSE, Stuck}, poll \in BOOLEAN :
        LET p == [tcb[e] EXCEPT !.mem = m]
        IN  /\ p.state # "CLOSED"
            /\ Commit(e, IF p.state = "TIME_WAIT" THEN Freed(p)
                         ELSE SlowTick(p, late, stale, poll), net[e])
  BY DEF SlowTmr
<1>2. PICK p : p = [tcb[e] EXCEPT !.mem = m]
  OBVIOUS
<1>3. PICK q : q = IF p.state = "TIME_WAIT" THEN Freed(p) ELSE SlowTick(p, late, stale, poll)
  OBVIOUS
<1>4. p.state # "CLOSED" /\ Commit(e, q, net[e])
  BY <1>1, <1>2, <1>3
<1>5. m \in BOOLEAN /\ late \in BOOLEAN /\ stale \in BOOLEAN
  BY MemoryIs, ConnAssumption
<1>w. PICK w \in Nat, d \in BOOLEAN : w = tcb[Peer(e)].written /\ d = tcb[Peer(e)].closed
  BY PeerFacts
<1>f. PICK fe \in Int, fx \in Int : fe = FirstByte(e) /\ fx = FirstByte(Peer(e))
  BY EndsAre
<1>l. PICK lim \in Int : lim = fx + w
  OBVIOUS
<1>6. Idle(p, fe, fx, lim, d)
  <2>1. EndIdle(e, p, w, d)
    BY <1>2, <1>5, <1>w, MemIdle
  <2> QED  BY <2>1, <1>f, <1>l DEF EndIdle
<1>7. Idle(q, fe, fx, lim, d) /\ Onward(p, q) /\ (p.refused = <<>> => Served(p, q, fx, lim, d))
  <2>1. CASE p.state # "TIME_WAIT"
    <3>1. q = SlowTick(p, late, stale, poll) /\ p.state \notin {"CLOSED", "TIME_WAIT"}
      BY <1>3, <1>4, <2>1
    <3> QED  BY <1>5, <1>6, <3>1, SlowTickBoth
  <2>2. CASE p.state = "TIME_WAIT"
    <3>n. PICK none : none = <<>>
      OBVIOUS
    <3>1. q = Freed(p) /\ DOMAIN q = Fields
      BY <1>3, <2>2, FreedIs
    <3>2. Both(p, none, fe, fx, lim, d)
      BY <1>6, <3>n DEF Idle
    <3>3. Rest(p, fe, fx, lim) /\ p.failed = FALSE
      BY <3>2, <2>2, BothRest DEF Both, Their
    <3>4. Agree(p, q, AppSees)
      BY <3>1, FreedIs, FieldsAre DEF Agree, AppFields, AppSees
    <3>5. Changes(Freed(p), q, {"failed"}) /\ q.failed \in BOOLEAN
      BY <3>1, <3>3, <3>4 DEF Changes, Agree, AppSees
    <3>6. Both(q, none, fe, fx, lim, d)
      BY <3>n, <3>3, <3>5, FreedBoth
    <3>7. /\ q.busy = FALSE /\ q.recv_data = <<>> /\ q.recv_flags = {} /\ q.refused = <<>>
      BY <3>1, FreedIs, FieldsAre DEF AppFields, Blank
    <3>8. Idle(q, fe, fx, lim, d)
      BY <3>n, <3>6, <3>7 DEF Idle
    <3> QED  BY <3>4, <3>7, <3>8 DEF Onward, Served, Agree, AppSees
  <2> QED  BY <2>1, <2>2
<1>8. EndIdle(e, q, w, d) /\ (p.refused = <<>> => SeenBy(e, p, q, w, d))
  BY <1>7, <1>f, <1>l DEF EndIdle, SeenBy
<1>9. Handled(e, tcb[e], q, tcb[Peer(e)].written, tcb[Peer(e)].closed)
  BY <1>2, <1>4, <1>5, <1>7, <1>8, <1>w, ActiveHandled
<1> QED  BY <1>4, <1>9 DEF Did

(* So is the fast timer. *)
LEMMA FastTmrDid == ASSUME ConnInv, NEW e \in Ends, FastTmr(e) PROVE Did(e)
<1>1. PICK answer \in Again(tcb[e]), m \in Memory :
        /\ tcb[e].state \notin {"CLOSED", "TIME_WAIT"}
        /\ Commit(e, FastTick([tcb[e] EXCEPT !.mem = m], answer), net[e])
  BY DEF FastTmr
<1>2. PICK p : p = [tcb[e] EXCEPT !.mem = m]
  OBVIOUS
<1>3. PICK q : q = FastTick(p, answer)
  OBVIOUS
<1>5. m \in BOOLEAN /\ answer \in {"consume", "take", "refuse"}
  BY MemoryIs, ConnAssumption DEF Again
<1>w. PICK w \in Nat, d \in BOOLEAN : w = tcb[Peer(e)].written /\ d = tcb[Peer(e)].closed
  BY PeerFacts
<1>f. PICK fe \in Int, fx \in Int : fe = FirstByte(e) /\ fx = FirstByte(Peer(e))
  BY EndsAre
<1>l. PICK lim \in Int : lim = fx + w
  OBVIOUS
<1>6. EndIdle(e, p, w, d) /\ Changes(tcb[e], p, {"mem"})
  BY <1>2, <1>5, <1>w, MemIdle
<1>7. Idle(p, fe, fx, lim, d)
  BY <1>6, <1>f, <1>l DEF EndIdle
<1>8. p.state \notin {"CLOSED", "TIME_WAIT"}
  BY <1>1, <1>6, FieldsAre DEF Changes
<1>9. Idle(q, fe, fx, lim, d) /\ Onward(p, q) /\ (p.refused = <<>> => Served(p, q, fx, lim, d))
  BY <1>3, <1>5, <1>7, <1>8, FastTickBoth
<1>10. EndIdle(e, q, w, d) /\ (p.refused = <<>> => SeenBy(e, p, q, w, d))
  BY <1>9, <1>f, <1>l DEF EndIdle, SeenBy
<1>11. Handled(e, tcb[e], q, tcb[Peer(e)].written, tcb[Peer(e)].closed)
  BY <1>2, <1>5, <1>8, <1>9, <1>10, <1>w, ActiveHandled
<1>12. Commit(e, q, net[e])
  BY <1>1, <1>2, <1>3
<1> QED  BY <1>11, <1>12 DEF Did

(* So is the application taking bytes back up: tcp_recved. *)
LEMMA ReadDid == ASSUME ConnInv, NEW e \in Ends, Read(e) PROVE Did(e)
<1>1. PICK n \in 1..tcb[e].unread, m \in Memory :
        /\ tcb[e].state \notin {"CLOSED", "TIME_WAIT"}
        /\ Commit(e, Recved([tcb[e] EXCEPT !.mem = m], n), net[e])
  BY DEF Read
<1>n. PICK none : none = <<>>
  OBVIOUS
<1>2. PICK p : p = [tcb[e] EXCEPT !.mem = m]
  OBVIOUS
<1>3. PICK q : q = Recved(p, n)
  OBVIOUS
<1>5. m \in BOOLEAN /\ n \in Int
  BY MemoryIs
<1>w. PICK w \in Nat, d \in BOOLEAN : w = tcb[Peer(e)].written /\ d = tcb[Peer(e)].closed
  BY PeerFacts
<1>f. PICK fe \in Int, fx \in Int : fe = FirstByte(e) /\ fx = FirstByte(Peer(e))
  BY EndsAre
<1>l. PICK lim \in Int : lim = fx + w
  OBVIOUS
<1>6. EndIdle(e, p, w, d) /\ Changes(tcb[e], p, {"mem"})
  BY <1>2, <1>5, <1>w, MemIdle
<1>7. Idle(p, fe, fx, lim, d)
  BY <1>6, <1>f, <1>l DEF EndIdle
<1>8. p.state # "CLOSED"
  BY <1>1, <1>6, FieldsAre DEF Changes
<1>9. Both(q, none, fe, fx, lim, d) /\ Changes(p, q, RecvedFields)
  <2>1. Both(p, none, fe, fx, lim, d)
    BY <1>7, <1>n DEF Idle
  <2> QED  BY <2>1, <1>3, <1>5, RecvedBoth
<1>10. Idle(q, fe, fx, lim, d)
  <2>1. RecvedFields \cap {"busy", "recv_data", "recv_flags"} = {}
    BY DEF RecvedFields, OutputFields
  <2> QED  BY <1>7, <1>9, <1>n, <2>1, IdleKept
<1>11. EndIdle(e, q, w, d)
  BY <1>10, <1>f, <1>l DEF EndIdle
<1>12. Onward(p, q) /\ (p.refused = <<>> => SeenBy(e, p, q, w, d))
  <2>1. RecvedFields \cap (AppSees \cup {"refused"}) = {}
    BY DEF RecvedFields, OutputFields, AppSees
  <2> QED  BY <1>9, <2>1, UnseenServed
<1>13. Handled(e, tcb[e], q, tcb[Peer(e)].written, tcb[Peer(e)].closed)
  BY <1>2, <1>5, <1>8, <1>11, <1>12, <1>w, ActiveHandled
<1>14. Commit(e, q, net[e])
  BY <1>1, <1>2, <1>3
<1> QED  BY <1>13, <1>14 DEF Did

(* So is tcp_connect, at the client. *)
LEMMA OpenDid == ASSUME ConnInv, Open PROVE Did(Client)
<1>e. PICK e \in Ends : e = Client
  BY DEF Ends
<1>1. PICK fe \in Int, fx \in Int : fe = FirstByte(e) /\ fx = FirstByte(Peer(e)) /\ Iss(e) = fe
  BY <1>e, EndsAre DEF FirstByte
<1>t. PICK t : t = tcb[e]
  OBVIOUS
<1>q. PICK q : q = Connect(t, fe)
  OBVIOUS
<1>2. opened = {} /\ Commit(e, q, net[e])
  BY <1>1, <1>e, <1>t, <1>q DEF Open
<1>3. Changes(Blank, t, {})
  BY <1>2, <1>t DEF ConnInv, EndInv
<1>w. PICK w \in Nat, d \in BOOLEAN : w = tcb[Peer(e)].written /\ d = tcb[Peer(e)].closed
  BY PeerFacts
<1>l. PICK lim \in Int : lim = fx + w
  OBVIOUS
<1>4. fx <= lim
  BY <1>l
<1>5. Idle(q, fe, fx, lim, d) /\ Agree(t, q, AppSees) /\ q.state = "SYN_SENT" /\ q.refused = <<>>
  BY <1>3, <1>4, <1>q, ConnectBoth
<1>6. EndIdle(e, q, w, d) /\ SeenBy(e, t, q, w, d)
  BY <1>1, <1>5, <1>l DEF EndIdle, SeenBy, Served
<1>7. t.written \in Nat
  BY <1>t, PeerFacts, EndFacts
<1>8. Steps(e, t, q, w, d)
  BY <1>5, <1>6, <1>7 DEF Steps, Agree, AppSees
<1>9. Handled(e, t, q, w, d)
  BY <1>6, <1>8 DEF Handled
<1> QED  BY <1>2, <1>9, <1>e, <1>t, <1>w DEF Did

(* Such a handler keeps the invariant. *)
LEMMA DidInv == ASSUME ConnInv, NEW e \in Ends, Did(e) PROVE ConnInv'
<1>1. PICK q, queue :
        /\ Commit(e, q, queue) /\ DOMAIN queue \subseteq DOMAIN net[e]
        /\ Handled(e, tcb[e], q, tcb[Peer(e)].written, tcb[Peer(e)].closed)
  BY DEF Did
<1>2. Steps(e, tcb[e], q, tcb[Peer(e)].written, tcb[Peer(e)].closed)
  BY <1>1 DEF Handled
<1> QED  BY <1>1, <1>2, CommitInv

(* The application of e wrote, or closed. *)
Called(e, q) ==
  /\ Steps(e, tcb[e], q, tcb[Peer(e)].written, tcb[Peer(e)].closed) /\ Commit(e, q, net[e])
  /\ tcb[e].state # "CLOSED" /\ tcb[e].closed = FALSE

(* tcp_write followed by tcp_output: the end has written n bytes more or
   none, and sees what it saw. *)
LEMMA SendCalled ==
  ASSUME ConnInv, NEW e \in Ends, Send(e)
  PROVE  \E n \in WriteSizes : \E q :
           /\ Called(e, q) /\ Agree(tcb[e], q, {"taken", "closed", "eof", "failed", "refused"})
           /\ tcb[e].written + n <= MaxData(e)
           /\ q.written = tcb[e].written \/ q.written = tcb[e].written + n
<1>1. PICK n \in WriteSizes, copy \in Copies, flush \in Flushes, m \in Memory :
        LET p == Write([tcb[e] EXCEPT !.mem = m], n, copy)
        IN  /\ Holds(e) /\ tcb[e].written + n <= MaxData(e)
            /\ Commit(e, IF flush THEN Output(p) ELSE p, net[e])
  BY DEF Send
<1>n. PICK none : none = <<>>
  OBVIOUS
<1>t. PICK t : t = tcb[e]
  OBVIOUS
<1>2. PICK p : p = [t EXCEPT !.mem = m]
  OBVIOUS
<1>3. PICK r : r = Write(p, n, copy)
  OBVIOUS
<1>4. PICK q : q = IF flush THEN Output(r) ELSE r
  OBVIOUS
<1>5. m \in BOOLEAN /\ n \in Nat \ {0}
  BY MemoryIs, ConnAssumption
<1>w. PICK w \in Nat, d \in BOOLEAN : w = tcb[Peer(e)].written /\ d = tcb[Peer(e)].closed
  BY PeerFacts
<1>f. PICK fe \in Int, fx \in Int : fe = FirstByte(e) /\ fx = FirstByte(Peer(e))
  BY EndsAre
<1>l. PICK lim \in Int : lim = fx + w
  OBVIOUS
<1>6. EndIdle(e, p, w, d) /\ Changes(t, p, {"mem"})
  BY <1>2, <1>5, <1>t, <1>w, MemIdle
<1>7. Idle(p, fe, fx, lim, d)
  BY <1>6, <1>f, <1>l DEF EndIdle
<1>8. Both(p, none, fe, fx, lim, d)
  BY <1>7, <1>n DEF Idle
<1>9. /\ Both(r, none, fe, fx, lim, d) /\ Changes(p, r, WriteFields)
      /\ r.written = p.written \/ r.written = p.written + n
  <2>1. PICK k \in Nat \ {0} : k = n
    BY <1>5
  <2>2. r = Write(p, k, copy)
    BY <1>3, <2>1
  <2>3. Both(r, none, fe, fx, lim, d) /\ Wrote(p, r, k)
    BY <1>8, <2>2, WriteBoth
  <2> QED  BY <2>1, <2>3 DEF Wrote
<1>10. /\ Both(q, none, fe, fx, lim, d) /\ Changes(p, q, WriteFields \cup OutputFields)
       /\ q.written = r.written
  <2>1. CASE flush
    <3>1. Both(q, none, fe, fx, lim, d) /\ Changes(r, q, OutputFields)
      BY <1>4, <1>9, <2>1, OutputBoth
    <3> QED  BY <1>9, <3>1, FieldsAre DEF Changes, OutputFields
  <2>2. CASE ~flush
    BY <1>4, <1>9, <2>2 DEF Changes
  <2> QED  BY <2>1, <2>2
<1>11. Idle(q, fe, fx, lim, d)
  <2>1. (WriteFields \cup OutputFields) \cap {"busy", "recv_data", "recv_flags"} = {}
    BY DEF WriteFields, EnqueueFields, OutputFields
  <2> QED  BY <1>7, <1>10, <1>n, <2>1, IdleKept
<1>12. EndIdle(e, q, w, d)
  BY <1>11, <1>f, <1>l DEF EndIdle
<1>13. Agree(t, q, {"state", "taken", "closed", "eof", "failed", "refused"})
  BY <1>6, <1>10, FieldsAre DEF Changes, Agree, WriteFields, EnqueueFields, OutputFields
<1>14. q.written = t.written \/ q.written = t.written + n
  BY <1>6, <1>9, <1>10, FieldsAre DEF Changes
<1>15. t.state # "CLOSED" /\ t.closed = FALSE
  <2>1. t.closed \in BOOLEAN
    BY <1>t, PeerFacts, EndFacts
  <2> QED  BY <1>1, <1>t, <2>1 DEF Holds
<1>16. Steps(e, t, q, w, d)
  <2>1. t.written \in Nat
    BY <1>t, PeerFacts, EndFacts
  <2>2. t.written <= q.written
    BY <1>5, <1>14, <2>1
  <2>3. q.state # "CLOSED"
    BY <1>13, <1>15 DEF Agree
  <2> QED  BY <1>12, <1>15, <2>2, <2>3 DEF Steps
<1>17. Commit(e, q, net[e]) /\ t.written + n <= MaxData(e)
  BY <1>1, <1>2, <1>3, <1>4, <1>t
<1>18. Called(e, q)
  BY <1>15, <1>16, <1>17, <1>t, <1>w DEF Called
<1>19. Agree(t, q, {"taken", "closed", "eof", "failed", "refused"})
  BY <1>13 DEF Agree
<1>20. /\ Called(e, q) /\ Agree(tcb[e], q, {"taken", "closed", "eof", "failed", "refused"})
       /\ tcb[e].written + n <= MaxData(e)
       /\ q.written = tcb[e].written \/ q.written = tcb[e].written + n
  BY <1>14, <1>17, <1>18, <1>19, <1>t
<1> QED  BY <1>20

(* tcp_close: the end has closed or not, and sees what it saw. *)
LEMMA ShutCalled ==
  ASSUME ConnInv, NEW e \in Ends, Shut(e)
  PROVE  \E q :
           /\ Called(e, q) /\ Agree(tcb[e], q, {"taken", "written", "eof", "failed"})
           /\ q.closed = tcb[e].closed \/ q.closed = TRUE
           /\ tcb[e].refused = <<>> => q.refused = <<>>
<1>1. PICK m \in Memory :
        Holds(e) /\ Commit(e, Close([tcb[e] EXCEPT !.mem = m]), net[e])
  BY DEF Shut, ShutDue
<1>n. PICK none : none = <<>>
  OBVIOUS
<1>t. PICK t : t = tcb[e]
  OBVIOUS
<1>2. PICK p : p = [t EXCEPT !.mem = m]
  OBVIOUS
<1>3. PICK q : q = Close(p)
  OBVIOUS
<1>5. m \in BOOLEAN
  BY MemoryIs
<1>w. PICK w \in Nat, d \in BOOLEAN : w = tcb[Peer(e)].written /\ d = tcb[Peer(e)].closed
  BY PeerFacts
<1>f. PICK fe \in Int, fx \in Int : fe = FirstByte(e) /\ fx = FirstByte(Peer(e))
  BY EndsAre
<1>l. PICK lim \in Int : lim = fx + w
  OBVIOUS
<1>6. EndIdle(e, p, w, d) /\ Changes(t, p, {"mem"})
  BY <1>2, <1>5, <1>t, <1>w, MemIdle
<1>7. Idle(p, fe, fx, lim, d)
  BY <1>6, <1>f, <1>l DEF EndIdle
<1>8. Both(p, none, fe, fx, lim, d)
  BY <1>7, <1>n DEF Idle
<1>9. Both(q, none, fe, fx, lim, d) /\ Closes(p, q)
  BY <1>3, <1>8, <1>n, CloseBoth
<1>10. q.busy = FALSE /\ q.recv_data = <<>> /\ q.recv_flags = {}
  <2>1. CASE p.state # "SYN_SENT"
    <3>1. Changes(p, q, CloseFields)
      BY <1>9, <2>1 DEF Closes
    <3>2. Agree(p, q, {"busy", "recv_data", "recv_flags"})
      BY <3>1, FieldsAre DEF Changes, Agree, CloseFields, EnqueueFields, OutputFields
    <3> QED  BY <1>7, <3>2 DEF Idle, Agree
  <2>2. CASE p.state = "SYN_SENT"
    <3>1. q = RemovePcb(p)
      BY <1>3, <2>2 DEF Close
    <3>2. PICK x : q = Freed(x)
      BY <3>1 DEF RemovePcb
    <3> QED  BY <3>2, FreedIs, FieldsAre DEF AppFields, Blank
  <2> QED  BY <2>1, <2>2
<1>11. Idle(q, fe, fx, lim, d)
  BY <1>9, <1>10, <1>n DEF Idle
<1>12. EndIdle(e, q, w, d)
  BY <1>11, <1>f, <1>l DEF EndIdle
<1>13. Agree(t, p, {"state", "taken", "written", "eof", "failed", "closed", "refused"})
  BY <1>6, FieldsAre DEF Changes, Agree
<1>14. /\ Agree(t, q, {"taken", "written", "eof", "failed"})
       /\ q.closed = t.closed \/ q.closed = TRUE
  BY <1>9, <1>13 DEF Closes, Agree
<1>15. t.state # "CLOSED" /\ t.closed = FALSE
  <2>1. t.closed \in BOOLEAN
    BY <1>t, PeerFacts, EndFacts
  <2> QED  BY <1>1, <1>t, <2>1 DEF Holds
<1>16. Steps(e, t, q, w, d)
  <2>1. t.written \in Nat
    BY <1>t, PeerFacts, EndFacts
  <2>2. ~Changes(Blank, t, {})
    BY <1>15, FieldsAre DEF Changes, Blank
  <2> QED  BY <1>12, <1>14, <1>15, <2>1, <2>2 DEF Steps, Agree
<1>17. t.refused = <<>> => q.refused = <<>>
  <2>1. q.state = "CLOSED" => q.refused = <<>>
    BY <1>9 DEF Both, Their
  <2> QED  BY <1>9, <1>13, <2>1 DEF Closes, Agree
<1>18. Commit(e, q, net[e])
  BY <1>1, <1>2, <1>3, <1>t
<1>19. Called(e, q)
  BY <1>15, <1>16, <1>18, <1>t, <1>w DEF Called
<1> QED  BY <1>14, <1>17, <1>19, <1>t

(* A call by the application keeps the invariant. *)
LEMMA CalledInv == ASSUME ConnInv, NEW e \in Ends, NEW q, Called(e, q) PROVE ConnInv'
BY CommitInv DEF Called

(* What the network does adds no segment that is not on its way already. *)
LEMMA NetworkInv ==
  ASSUME ConnInv, NEW e \in Ends, Lose(e) \/ Duplicate(e)
  PROVE  ConnInv' /\ tcb' = tcb
<1>1. PICK s \in DOMAIN net[e] :
        /\ \/ net' = [net EXCEPT ![e] = BagRemove(@, s)]
           \/ net' = [net EXCEPT ![e] = BagAdd(@, s)]
        /\ UNCHANGED <<tcb, opened>>
  BY DEF Lose, Duplicate
<1>2. DOMAIN net'[e] \subseteq DOMAIN net[e]
  <2>1. DOMAIN net = Ends
    BY DEF ConnInv
  <2>2. CASE net' = [net EXCEPT ![e] = BagRemove(@, s)]
    BY <2>1, <2>2, RemoveDomain
  <2>3. CASE net' = [net EXCEPT ![e] = BagAdd(@, s)]
    <3>1. net'[e] = BagAdd(net[e], s)
      BY <2>1, <2>3
    <3> QED  BY <3>1 DEF BagAdd
  <2> QED  BY <1>1, <2>2, <2>3
<1>3. \A x \in Ends : DOMAIN net'[x] \subseteq DOMAIN net[x]
  <2>1. \A x \in Ends : x # e => net'[x] = net[x]
    BY <1>1 DEF ConnInv
  <2> QED  BY <1>2, <2>1
<1>4. net' = [x \in Ends |-> net'[x]]
  BY <1>1 DEF ConnInv
<1>5. \A x \in Ends : EndInv(x)'
  BY <1>1, <1>3 DEF ConnInv, EndInv
<1> QED  BY <1>1, <1>4, <1>5 DEF ConnInv

(* Every step keeps the invariant. *)
LEMMA NextInv == ConnInv /\ [Next]_vars => ConnInv'
<1> SUFFICES ASSUME ConnInv, [Next]_vars PROVE ConnInv'
  OBVIOUS
<1>1. CASE Open
  BY <1>1, OpenDid, DidInv DEF Ends
<1>2. ASSUME NEW e \in Ends, Deliver(e) PROVE ConnInv'
  BY <1>2, DeliverDid, DidInv
<1>3. ASSUME NEW e \in Ends, Lose(e) \/ Duplicate(e) PROVE ConnInv'
  BY <1>3, NetworkInv
<1>4. ASSUME NEW e \in Ends, SlowTmr(e) PROVE ConnInv'
  BY <1>4, SlowTmrDid, DidInv
<1>5. ASSUME NEW e \in Ends, FastTmr(e) PROVE ConnInv'
  BY <1>5, FastTmrDid, DidInv
<1>6. ASSUME NEW e \in Ends, Send(e) PROVE ConnInv'
  BY <1>6, SendCalled, CalledInv
<1>7. ASSUME NEW e \in Ends, Shut(e) PROVE ConnInv'
  BY <1>7, ShutCalled, CalledInv
<1>8. ASSUME NEW e \in Ends, Read(e) PROVE ConnInv'
  BY <1>8, ReadDid, DidInv
<1>9. CASE UNCHANGED vars
  BY <1>9 DEF vars, ConnInv, EndInv
<1> QED  BY <1>1, <1>2, <1>3, <1>4, <1>5, <1>6, <1>7, <1>8, <1>9 DEF Next

(* Whatever the network loses, repeats and reorders, each end holds what it
   has to send, and only that is on its way. *)
THEOREM ConnInvariant == Spec => []ConnInv
BY InitInv, NextInv, PTL DEF Spec

(* The application of each end has taken a prefix of what its peer wrote:
   nothing is lost, repeated or out of order. *)
THEOREM PrefixAlways == Spec => []PrefixDelivered
<1>1. ConnInv => PrefixDelivered
  <2> SUFFICES ASSUME ConnInv, NEW e \in Ends
               PROVE  /\ Len(tcb[e].taken) <= tcb[Peer(e)].written
                      /\ \A i \in DOMAIN tcb[e].taken :
                           tcb[e].taken[i] = FirstByte(Peer(e)) + i - 1
    BY DEF PrefixDelivered
  <2>1. PICK w \in Nat, d \in BOOLEAN : w = tcb[Peer(e)].written /\ d = tcb[Peer(e)].closed
    BY PeerFacts
  <2>2. PICK fe \in Int, fx \in Int : fe = FirstByte(e) /\ fx = FirstByte(Peer(e))
    BY EndsAre
  <2>3. PICK got : got = tcb[e].taken
    OBVIOUS
  <2>4. got \in Seq(Int) /\ IsRun(got, fx) /\ fx + Len(got) <= fx + w
    <3>1. EndIdle(e, tcb[e], w, d)
      BY <2>1, PeerFacts
    <3> QED  BY <2>2, <2>3, <3>1 DEF EndIdle, Idle, Both, Their
  <2>5. Len(got) <= w
    <3>1. Len(got) \in Nat
      BY <2>4
    <3> QED  BY <2>4, <3>1
  <2>6. \A i \in DOMAIN got : got[i] = fx + i - 1
    <3>1. DOMAIN got = 1..Len(got)
      BY <2>4
    <3> QED  BY <2>4, <3>1 DEF IsRun
  <2> QED  BY <2>1, <2>2, <2>3, <2>5, <2>6
<1> QED  BY <1>1, ConnInvariant, PTL

-----------------------------------------------------------------------------
(* The byte stream: what each application sees of its end *)

SWritten == [e \in Ends |-> tcb[e].written]
STaken   == [e \in Ends |->
               [i \in DOMAIN tcb[e].taken |-> tcb[e].taken[i] - FirstByte(Peer(e)) + 1]]
SClosed  == [e \in Ends |-> tcb[e].closed]
SEof     == [e \in Ends |-> tcb[e].eof]
SFailed  == [e \in Ends |-> tcb[e].failed]

(* The variables and ends of the abstract stream, seen from the connection.
   *)
LEMMA StreamIs ==
  /\ Stream!vars = <<SWritten, STaken, SClosed, SEof, SFailed>>
  /\ Stream!Ends = Ends /\ \A e : Stream!Other(e) = Peer(e)
BY DEF Stream!vars, SWritten, STaken, SClosed, SEof, SFailed, Stream!Ends, Ends, Stream!Other, Peer

(* The bytes 1 to n are a sequence of length n. *)
FirstN(n) == [i \in 1..n |-> i]

(* The first n bytes of a stream are n. *)
LEMMA FirstNLen == \A n \in Nat : Len(FirstN(n)) = n
BY DEF FirstN

(* A handler that hands over bytes, the end of file, and perhaps closes in
   answer, is a step of the abstract stream. *)
LEMMA StreamReceive ==
  ASSUME NEW e \in Ends, NEW n \in Len(STaken[e])..SWritten[Peer(e)], NEW end \in BOOLEAN,
         NEW close \in BOOLEAN, SFailed[e] = FALSE, SEof[e] = FALSE,
         end => SClosed[Peer(e)] /\ n = SWritten[Peer(e)],
         close => end /\ ~SClosed[e],
         STaken' = [STaken EXCEPT ![e] = FirstN(n)],
         SEof' = [SEof EXCEPT ![e] = end],
         SClosed' = [SClosed EXCEPT ![e] = @ \/ close],
         UNCHANGED <<SWritten, SFailed>>
  PROVE  Stream!Receive(e)
BY StreamIs DEF Stream!Receive, SWritten, STaken, SClosed, SEof, SFailed, FirstN

(* One that hands over bytes and then fails is a step of it too. *)
LEMMA StreamFail ==
  ASSUME NEW e \in Ends, NEW n \in Len(STaken[e])..SWritten[Peer(e)], SFailed[e] = FALSE,
         STaken' = [STaken EXCEPT ![e] = FirstN(n)],
         SFailed' = [SFailed EXCEPT ![e] = TRUE],
         UNCHANGED <<SWritten, SClosed, SEof>>
  PROVE  Stream!Fail(e)
BY StreamIs DEF Stream!Fail, SWritten, STaken, SClosed, SEof, SFailed, FirstN

(* A write. *)
LEMMA StreamWrite ==
  ASSUME NEW e \in Ends, NEW n \in SWritten[e] + 1..Max({ClientData, ServerData}),
         SClosed[e] = FALSE, SFailed[e] = FALSE,
         SWritten' = [SWritten EXCEPT ![e] = n],
         UNCHANGED <<STaken, SClosed, SEof, SFailed>>
  PROVE  Stream!Write(e)
BY StreamIs DEF Stream!Write, SWritten, STaken, SClosed, SEof, SFailed

(* A close. *)
LEMMA StreamClose ==
  ASSUME NEW e \in Ends, SClosed[e] = FALSE, SFailed[e] = FALSE,
         SClosed' = [SClosed EXCEPT ![e] = TRUE],
         UNCHANGED <<SWritten, STaken, SEof, SFailed>>
  PROVE  Stream!Close(e)
BY StreamIs DEF Stream!Close, SWritten, STaken, SClosed, SEof, SFailed

(* A step the application does not see is a stutter. *)
LEMMA StreamStill ==
  ASSUME UNCHANGED <<SWritten, STaken, SClosed, SEof, SFailed>>
  PROVE  UNCHANGED Stream!vars
BY DEF Stream!vars, SWritten, STaken, SClosed, SEof, SFailed

(* Each of these is a step of the abstract specification. *)
LEMMA StreamNext ==
  ASSUME NEW e \in Ends, Stream!Write(e) \/ Stream!Close(e) \/ Stream!Receive(e) \/ Stream!Fail(e)
  PROVE  Stream!Next
BY StreamIs, Zenon DEF Stream!Next

(* What the invariant says of the two applications. *)
LEMMA StreamFacts ==
  ASSUME ConnInv, NEW e \in Ends
  PROVE  /\ STaken[e] = FirstN(Len(tcb[e].taken)) /\ Len(tcb[e].taken) \in Nat
         /\ Len(STaken[e]) = Len(tcb[e].taken) /\ Len(tcb[e].taken) <= SWritten[Peer(e)]
         /\ SWritten[e] = tcb[e].written /\ tcb[e].written \in Nat
         /\ SClosed[e] = tcb[e].closed /\ tcb[e].closed \in BOOLEAN
         /\ SEof[e] = tcb[e].eof /\ tcb[e].eof \in BOOLEAN
         /\ SFailed[e] = tcb[e].failed /\ tcb[e].failed \in BOOLEAN
         /\ tcb[e].failed = TRUE => tcb[e].state = "CLOSED"
<1>1. PICK w \in Nat, d \in BOOLEAN : w = tcb[Peer(e)].written /\ d = tcb[Peer(e)].closed
  BY PeerFacts
<1>2. PICK fe \in Int, fx \in Int : fe = FirstByte(e) /\ fx = FirstByte(Peer(e))
  BY EndsAre
<1>3. PICK p : p = tcb[e]
  OBVIOUS
<1>4. PICK got : got = p.taken
  OBVIOUS
<1>5. EndIdle(e, p, w, d)
  BY <1>1, <1>3, PeerFacts
<1>6. /\ got \in Seq(Int) /\ IsRun(got, fx) /\ fx + Len(got) <= fx + w
      /\ p.eof \in BOOLEAN /\ p.failed \in BOOLEAN /\ p.written \in Nat /\ p.closed \in BOOLEAN
      /\ p.failed => p.state = "CLOSED"
  BY <1>2, <1>4, <1>5 DEF EndIdle, Idle, Both, Own, Their
<1>7. PICK n \in Nat : n = Len(got) /\ DOMAIN got = 1..n
  BY <1>6
<1>8. n <= w
  BY <1>6, <1>7
<1>9. STaken[e] = FirstN(n)
  <2>1. STaken[e] = [i \in 1..n |-> got[i] - fx + 1]
    BY <1>2, <1>3, <1>4, <1>7 DEF STaken
  <2>2. \A i \in 1..n : got[i] - fx + 1 = i
    BY <1>6, <1>7 DEF IsRun
  <2> QED  BY <2>1, <2>2 DEF FirstN
<1>10. Len(STaken[e]) = n
  BY <1>9, FirstNLen
<1>11. SWritten[Peer(e)] = w
  BY <1>1, EndsAre DEF SWritten
<1> QED  BY <1>3, <1>4, <1>6, <1>7, <1>8, <1>9, <1>10, <1>11 DEF SWritten, SClosed, SEof, SFailed

(* A handler of e changes what the application of e sees, no more. *)
LEMMA CommitViews ==
  ASSUME ConnInv, NEW e \in Ends, NEW q, NEW queue, Commit(e, q, queue)
  PROVE  /\ SWritten' = [SWritten EXCEPT ![e] = q.written]
         /\ SClosed' = [SClosed EXCEPT ![e] = q.closed]
         /\ SEof' = [SEof EXCEPT ![e] = q.eof]
         /\ SFailed' = [SFailed EXCEPT ![e] = q.failed]
         /\ \A x \in Ends : x # e => STaken'[x] = STaken[x]
         /\ tcb'[e].taken = q.taken /\ tcb'[e].refused = q.refused
         /\ \A x \in Ends : x # e => tcb'[x] = tcb[x]
<1>1. /\ \A x \in Ends : x # e => tcb'[x] = tcb[x]
      /\ tcb'[e] = [q EXCEPT !.out = <<>>, !.mem = TRUE]
  BY DEF Commit, ConnInv
<1>2. /\ tcb'[e].written = q.written /\ tcb'[e].closed = q.closed /\ tcb'[e].eof = q.eof
      /\ tcb'[e].failed = q.failed /\ tcb'[e].taken = q.taken /\ tcb'[e].refused = q.refused
  BY <1>1
<1> QED  BY <1>1, <1>2 DEF SWritten, STaken, SClosed, SEof, SFailed

TakenBytes == \A e \in Ends : STaken[e] = FirstN(Len(tcb[e].taken))

(* What an end has taken is the first bytes of its peer's stream. *)
LEMMA TakenAreBytes == ConnInv => TakenBytes
BY StreamFacts DEF TakenBytes

(* How a handler's change of taken is seen by the abstract stream. *)
LEMMA TakenView ==
  ASSUME ConnInv, ConnInv', NEW e \in Ends, NEW q, NEW queue, Commit(e, q, queue)
  PROVE  STaken' = [STaken EXCEPT ![e] = FirstN(Len(q.taken))]
<1>1. STaken'[e] = FirstN(Len(tcb'[e].taken))
  <2>1. TakenBytes'
    BY TakenAreBytes, PTL
  <2> QED  BY <2>1 DEF TakenBytes
<1>2. tcb'[e].taken = q.taken /\ \A x \in Ends : x # e => STaken'[x] = STaken[x]
  BY CommitViews
<1>3. STaken' = [x \in Ends |-> STaken'[x]] /\ STaken = [x \in Ends |-> STaken[x]]
  BY DEF STaken
<1> QED  BY <1>1, <1>2, <1>3

(* What SeenBy says is what a step of the stream does, or nothing. *)
LEMMA SeenStep ==
  ASSUME ConnInv, ConnInv', NEW e \in Ends, NEW q, NEW queue, Commit(e, q, queue),
         EndIdle(e, q, tcb[Peer(e)].written, tcb[Peer(e)].closed),
         SeenBy(e, tcb[e], q, tcb[Peer(e)].written, tcb[Peer(e)].closed)
  PROVE  Stream!Next \/ UNCHANGED Stream!vars
<1>t. PICK t : t = tcb[e]
  OBVIOUS
<1>w. PICK w \in Nat, d \in BOOLEAN : w = tcb[Peer(e)].written /\ d = tcb[Peer(e)].closed
  BY PeerFacts
<1>x. PICK fx \in Int : fx = FirstByte(Peer(e))
  BY EndsAre
<1>1. /\ Agree(t, q, AppSees) \/ Heard(t, q, fx, fx + w, d) \/ Lost(t, q)
      /\ q.refused = <<>>
  BY <1>t, <1>w, <1>x DEF SeenBy, Served
<1>2. /\ SWritten' = [SWritten EXCEPT ![e] = q.written]
      /\ SClosed' = [SClosed EXCEPT ![e] = q.closed]
      /\ SEof' = [SEof EXCEPT ![e] = q.eof]
      /\ SFailed' = [SFailed EXCEPT ![e] = q.failed]
      /\ STaken' = [STaken EXCEPT ![e] = FirstN(Len(q.taken))]
  BY CommitViews, TakenView
<1>3. /\ STaken[e] = FirstN(Len(t.taken)) /\ Len(STaken[e]) = Len(t.taken)
      /\ SWritten[e] = t.written /\ SClosed[e] = t.closed /\ t.closed \in BOOLEAN
      /\ SEof[e] = t.eof /\ SFailed[e] = t.failed
      /\ SWritten[Peer(e)] = w /\ SClosed[Peer(e)] = d
  <2>1. SWritten[Peer(e)] = w /\ SClosed[Peer(e)] = d
    BY <1>w, EndsAre DEF SWritten, SClosed
  <2> QED  BY <1>t, <2>1, StreamFacts
<1>4. PICK n \in Nat, end \in BOOLEAN :
        n = Len(q.taken) /\ end = q.eof /\ n <= w /\ q.closed \in BOOLEAN
  <2>1. EndIdle(e, q, w, d)
    BY <1>w
  <2>2. /\ q.taken \in Seq(Int) /\ fx + Len(q.taken) <= fx + w
        /\ q.eof \in BOOLEAN /\ q.closed \in BOOLEAN
    BY <1>x, <2>1 DEF EndIdle, Idle, Both, Own, Their
  <2>3. PICK n \in Nat : n = Len(q.taken)
    BY <2>2
  <2> QED  BY <2>2, <2>3
<1>5. CASE Agree(t, q, AppSees)
  <2>1. /\ q.written = t.written /\ q.closed = t.closed /\ q.eof = t.eof
        /\ q.failed = t.failed /\ q.taken = t.taken
    BY <1>5 DEF Agree, AppSees
  <2>2. UNCHANGED <<SWritten, STaken, SClosed, SEof, SFailed>>
    <3>1. /\ SWritten = [x \in Ends |-> SWritten[x]] /\ SClosed = [x \in Ends |-> SClosed[x]]
          /\ SEof = [x \in Ends |-> SEof[x]] /\ SFailed = [x \in Ends |-> SFailed[x]]
          /\ STaken = [x \in Ends |-> STaken[x]]
      BY DEF SWritten, STaken, SClosed, SEof, SFailed
    <3> QED  BY <1>2, <1>3, <2>1, <3>1
  <2>3. UNCHANGED Stream!vars
    BY <2>2, StreamStill
  <2> QED  BY <2>3
<1>6. CASE Heard(t, q, fx, fx + w, d)
  <2>1. /\ q.written = t.written /\ q.failed = t.failed /\ t.failed = FALSE /\ t.eof = FALSE
        /\ Len(t.taken) <= n
        /\ q.closed = t.closed \/ (q.closed = TRUE /\ q.eof = TRUE)
    BY <1>4, <1>6 DEF Heard, Agree
  <2>2. end => d /\ n = w
    <3>1. end => d /\ fx + n = fx + w
      BY <1>4, <1>6 DEF Heard
    <3> QED  BY <3>1
  <2>3. PICK close \in BOOLEAN : close = (q.closed = TRUE /\ t.closed = FALSE)
    OBVIOUS
  <2>4. (close => end /\ ~SClosed[e]) /\ q.closed = (SClosed[e] \/ close)
    BY <1>3, <1>4, <2>1, <2>3
  <2>5. n \in Len(STaken[e])..SWritten[Peer(e)]
    BY <1>3, <1>4, <2>1, StreamFacts, <1>t
  <2>6. end => SClosed[Peer(e)] /\ n = SWritten[Peer(e)]
    BY <1>3, <2>2
  <2>7. UNCHANGED <<SWritten, SFailed>>
    <3>1. /\ SWritten = [x \in Ends |-> SWritten[x]] /\ SFailed = [x \in Ends |-> SFailed[x]]
      BY DEF SWritten, SFailed
    <3> QED  BY <1>2, <1>3, <2>1, <3>1
  <2>8. /\ STaken' = [STaken EXCEPT ![e] = FirstN(n)] /\ SEof' = [SEof EXCEPT ![e] = end]
        /\ SClosed' = [SClosed EXCEPT ![e] = @ \/ close]
    BY <1>2, <1>4, <2>4
  <2>9. Stream!Receive(e)
    BY <1>3, <2>1, <2>4, <2>5, <2>6, <2>7, <2>8, StreamReceive
  <2> QED  BY <2>9, StreamNext
<1>7. CASE Lost(t, q)
  <2>1. /\ q.written = t.written /\ q.closed = t.closed /\ q.eof = t.eof
        /\ q.failed = TRUE /\ t.failed = FALSE /\ Len(t.taken) <= n
    BY <1>4, <1>7 DEF Lost, Agree
  <2>2. n \in Len(STaken[e])..SWritten[Peer(e)]
    BY <1>3, <1>4, <2>1, StreamFacts, <1>t
  <2>3. UNCHANGED <<SWritten, SClosed, SEof>>
    <3>1. /\ SWritten = [x \in Ends |-> SWritten[x]] /\ SClosed = [x \in Ends |-> SClosed[x]]
          /\ SEof = [x \in Ends |-> SEof[x]]
      BY DEF SWritten, SClosed, SEof
    <3> QED  BY <1>2, <1>3, <2>1, <3>1
  <2>4. /\ STaken' = [STaken EXCEPT ![e] = FirstN(n)] /\ SFailed' = [SFailed EXCEPT ![e] = TRUE]
    BY <1>2, <1>4, <2>1
  <2>5. Stream!Fail(e)
    BY <1>3, <2>1, <2>2, <2>3, <2>4, StreamFail
  <2> QED  BY <2>5, StreamNext
<1> QED  BY <1>1, <1>5, <1>6, <1>7

(* No application has data it refused, if none refuses any. *)
NoneRefused == "refuse" \notin Answers => \A e \in Ends : tcb[e].refused = <<>>

(* A step of the stack, seen through the stream. *)
LEMMA DidStep ==
  ASSUME ConnInv, NoneRefused, "refuse" \notin Answers, NEW e \in Ends, Did(e)
  PROVE  NoneRefused' /\ (Stream!Next \/ UNCHANGED Stream!vars)
<1>1. PICK q, queue :
        /\ Commit(e, q, queue)
        /\ Handled(e, tcb[e], q, tcb[Peer(e)].written, tcb[Peer(e)].closed)
  BY DEF Did
<1>2. ConnInv'
  BY DidInv
<1>3. /\ SeenBy(e, tcb[e], q, tcb[Peer(e)].written, tcb[Peer(e)].closed)
      /\ EndIdle(e, q, tcb[Peer(e)].written, tcb[Peer(e)].closed)
  BY <1>1 DEF Handled, Willing, NoneRefused, Steps
<1>4. Stream!Next \/ UNCHANGED Stream!vars
  BY <1>1, <1>2, <1>3, SeenStep
<1>5. NoneRefused'
  <2>1. q.refused = <<>>
    BY <1>3 DEF SeenBy, Served
  <2>2. tcb'[e].refused = q.refused /\ \A x \in Ends : x # e => tcb'[x] = tcb[x]
    BY <1>1, CommitViews
  <2> QED  BY <2>1, <2>2 DEF NoneRefused
<1> QED  BY <1>4, <1>5

(* No end writes more than the abstract stream allows. *)
LEMMA DataBound ==
  ASSUME NEW e
  PROVE  MaxData(e) <= Max({ClientData, ServerData}) /\ Max({ClientData, ServerData}) \in Nat
         /\ MaxData(e) \in Nat
<1>1. \E x \in {ClientData, ServerData} : \A y \in {ClientData, ServerData} : x >= y
  <2>1. ClientData \in Nat /\ ServerData \in Nat
    BY ConnAssumption
  <2>2. CASE ClientData >= ServerData
    BY <2>1, <2>2
  <2>3. CASE ServerData >= ClientData
    BY <2>1, <2>3
  <2> QED  BY <2>1, <2>2, <2>3
<1>2. /\ Max({ClientData, ServerData}) \in {ClientData, ServerData}
      /\ \A y \in {ClientData, ServerData} : Max({ClientData, ServerData}) >= y
  BY <1>1 DEF Max
<1> QED  BY <1>2, ConnAssumption DEF MaxData

(* A call of tcp_write is a step of the abstract stream or a stutter. *)
LEMMA SendStep ==
  ASSUME ConnInv, NoneRefused, NEW e \in Ends, Send(e)
  PROVE  NoneRefused' /\ (Stream!Next \/ UNCHANGED Stream!vars)
<1>t. PICK t : t = tcb[e]
  OBVIOUS
<1>1. PICK n \in WriteSizes : \E q :
        /\ Called(e, q) /\ Agree(t, q, {"taken", "closed", "eof", "failed", "refused"})
        /\ t.written + n <= MaxData(e)
        /\ q.written = t.written \/ q.written = t.written + n
  BY <1>t, SendCalled
<1>2. PICK q :
        /\ Called(e, q) /\ Agree(t, q, {"taken", "closed", "eof", "failed", "refused"})
        /\ t.written + n <= MaxData(e)
        /\ q.written = t.written \/ q.written = t.written + n
  BY <1>1
<1>3. /\ q.taken = t.taken /\ q.closed = t.closed /\ q.eof = t.eof /\ q.failed = t.failed
      /\ q.refused = t.refused
  BY <1>2 DEF Agree
<1>4. Commit(e, q, net[e]) /\ ConnInv' /\ t.state # "CLOSED" /\ t.closed = FALSE
  BY <1>2, <1>t, CalledInv DEF Called
<1>5. /\ SWritten' = [SWritten EXCEPT ![e] = q.written]
      /\ SClosed' = [SClosed EXCEPT ![e] = q.closed]
      /\ SEof' = [SEof EXCEPT ![e] = q.eof]
      /\ SFailed' = [SFailed EXCEPT ![e] = q.failed]
      /\ STaken' = [STaken EXCEPT ![e] = FirstN(Len(q.taken))]
  BY <1>4, CommitViews, TakenView
<1>6. /\ STaken[e] = FirstN(Len(t.taken)) /\ SWritten[e] = t.written /\ t.written \in Nat
      /\ SClosed[e] = t.closed /\ SEof[e] = t.eof /\ SFailed[e] = t.failed
      /\ t.failed = FALSE
  BY <1>4, <1>t, StreamFacts
<1>7. UNCHANGED <<STaken, SClosed, SEof, SFailed>>
  <2>1. /\ SClosed = [x \in Ends |-> SClosed[x]] /\ STaken = [x \in Ends |-> STaken[x]]
        /\ SEof = [x \in Ends |-> SEof[x]] /\ SFailed = [x \in Ends |-> SFailed[x]]
    BY DEF STaken, SClosed, SEof, SFailed
  <2> QED  BY <1>3, <1>5, <1>6, <2>1
<1>8. ASSUME q.written = t.written PROVE Stream!Next \/ UNCHANGED Stream!vars
  <2>1. SWritten = [x \in Ends |-> SWritten[x]]
    BY DEF SWritten
  <2>2. SWritten' = SWritten
    BY <1>5, <1>6, <1>8, <2>1
  <2>3. UNCHANGED Stream!vars
    BY <1>7, <2>2, StreamStill
  <2> QED  BY <2>3
<1>9. ASSUME q.written = t.written + n PROVE Stream!Next \/ UNCHANGED Stream!vars
  <2>1. PICK k \in Nat : k = t.written + n
    BY <1>6, ConnAssumption
  <2>2. k \in SWritten[e] + 1..Max({ClientData, ServerData})
    <3>1. PICK mx \in Nat, md \in Nat :
            mx = Max({ClientData, ServerData}) /\ md = MaxData(e) /\ md <= mx
      BY DataBound
    <3>2. n \in Nat \ {0} /\ k <= md
      BY <1>2, <2>1, <3>1, ConnAssumption
    <3>3. k >= t.written + 1 /\ k <= mx
      BY <1>6, <2>1, <3>1, <3>2
    <3> QED  BY <1>6, <3>1, <3>3
  <2>3. SWritten' = [SWritten EXCEPT ![e] = k]
    BY <1>5, <1>9, <2>1
  <2>4. Stream!Write(e)
    BY <1>4, <1>6, <1>7, <2>2, <2>3, StreamWrite
  <2> QED  BY <2>4, StreamNext
<1>10. NoneRefused'
  <2>1. tcb'[e].refused = t.refused /\ \A x \in Ends : x # e => tcb'[x] = tcb[x]
    BY <1>3, <1>4, CommitViews
  <2> QED  BY <1>t, <2>1 DEF NoneRefused
<1> QED  BY <1>2, <1>8, <1>9, <1>10

(* So is a call of tcp_close. *)
LEMMA ShutStep ==
  ASSUME ConnInv, NoneRefused, NEW e \in Ends, Shut(e)
  PROVE  NoneRefused' /\ (Stream!Next \/ UNCHANGED Stream!vars)
<1>t. PICK t : t = tcb[e]
  OBVIOUS
<1>2. PICK q :
        /\ Called(e, q) /\ Agree(t, q, {"taken", "written", "eof", "failed"})
        /\ q.closed = t.closed \/ q.closed = TRUE
        /\ t.refused = <<>> => q.refused = <<>>
  BY <1>t, ShutCalled
<1>3. /\ q.taken = t.taken /\ q.written = t.written /\ q.eof = t.eof /\ q.failed = t.failed
  BY <1>2 DEF Agree
<1>4. Commit(e, q, net[e]) /\ ConnInv' /\ t.state # "CLOSED" /\ t.closed = FALSE
  BY <1>2, <1>t, CalledInv DEF Called
<1>5. /\ SWritten' = [SWritten EXCEPT ![e] = q.written]
      /\ SClosed' = [SClosed EXCEPT ![e] = q.closed]
      /\ SEof' = [SEof EXCEPT ![e] = q.eof]
      /\ SFailed' = [SFailed EXCEPT ![e] = q.failed]
      /\ STaken' = [STaken EXCEPT ![e] = FirstN(Len(q.taken))]
  BY <1>4, CommitViews, TakenView
<1>6. /\ STaken[e] = FirstN(Len(t.taken)) /\ SWritten[e] = t.written
      /\ SClosed[e] = t.closed /\ SEof[e] = t.eof /\ SFailed[e] = t.failed
      /\ t.failed = FALSE
  BY <1>4, <1>t, StreamFacts
<1>7. UNCHANGED <<SWritten, STaken, SEof, SFailed>>
  <2>1. /\ SWritten = [x \in Ends |-> SWritten[x]] /\ STaken = [x \in Ends |-> STaken[x]]
        /\ SEof = [x \in Ends |-> SEof[x]] /\ SFailed = [x \in Ends |-> SFailed[x]]
    BY DEF SWritten, STaken, SEof, SFailed
  <2> QED  BY <1>3, <1>5, <1>6, <2>1
<1>8. ASSUME q.closed = t.closed PROVE Stream!Next \/ UNCHANGED Stream!vars
  <2>1. SClosed = [x \in Ends |-> SClosed[x]]
    BY DEF SClosed
  <2>2. SClosed' = SClosed
    BY <1>5, <1>6, <1>8, <2>1
  <2>3. UNCHANGED Stream!vars
    BY <1>7, <2>2, StreamStill
  <2> QED  BY <2>3
<1>9. ASSUME q.closed = TRUE PROVE Stream!Next \/ UNCHANGED Stream!vars
  <2>1. SClosed' = [SClosed EXCEPT ![e] = TRUE]
    BY <1>5, <1>9
  <2>2. Stream!Close(e)
    BY <1>4, <1>6, <1>7, <2>1, StreamClose
  <2> QED  BY <2>2, StreamNext
<1>10. NoneRefused'
  <2>1. tcb'[e].refused = q.refused /\ \A x \in Ends : x # e => tcb'[x] = tcb[x]
    BY <1>4, CommitViews
  <2> QED  BY <1>2, <1>t, <2>1 DEF NoneRefused
<1> QED  BY <1>2, <1>8, <1>9, <1>10

(* A step that leaves both blocks alone is a stutter. *)
LEMMA StillStep ==
  ASSUME tcb' = tcb, NoneRefused
  PROVE  NoneRefused' /\ (Stream!Next \/ UNCHANGED Stream!vars)
<1>1. UNCHANGED Stream!vars
  BY DEF Stream!vars
<1> QED  BY <1>1 DEF NoneRefused

(* When the recv callback never refuses data, every step of the connection
   is a step of the abstract stream or a stutter. *)
LEMMA StreamStep ==
  ASSUME "refuse" \notin Answers
  PROVE  ConnInv /\ NoneRefused /\ [Next]_vars => NoneRefused' /\ [Stream!Next]_(Stream!vars)
<1> SUFFICES ASSUME ConnInv, NoneRefused, [Next]_vars
             PROVE  NoneRefused' /\ (Stream!Next \/ UNCHANGED Stream!vars)
  OBVIOUS
<1>1. CASE Open
  BY <1>1, OpenDid, DidStep DEF Ends
<1>2. ASSUME NEW e \in Ends, Deliver(e)
      PROVE  NoneRefused' /\ (Stream!Next \/ UNCHANGED Stream!vars)
  BY <1>2, DeliverDid, DidStep
<1>3. ASSUME NEW e \in Ends, Lose(e) \/ Duplicate(e)
      PROVE  NoneRefused' /\ (Stream!Next \/ UNCHANGED Stream!vars)
  BY <1>3, NetworkInv, StillStep
<1>4. ASSUME NEW e \in Ends, SlowTmr(e)
      PROVE  NoneRefused' /\ (Stream!Next \/ UNCHANGED Stream!vars)
  BY <1>4, SlowTmrDid, DidStep
<1>5. ASSUME NEW e \in Ends, FastTmr(e)
      PROVE  NoneRefused' /\ (Stream!Next \/ UNCHANGED Stream!vars)
  BY <1>5, FastTmrDid, DidStep
<1>6. ASSUME NEW e \in Ends, Send(e)
      PROVE  NoneRefused' /\ (Stream!Next \/ UNCHANGED Stream!vars)
  BY <1>6, SendStep
<1>7. ASSUME NEW e \in Ends, Shut(e)
      PROVE  NoneRefused' /\ (Stream!Next \/ UNCHANGED Stream!vars)
  BY <1>7, ShutStep
<1>8. ASSUME NEW e \in Ends, Read(e)
      PROVE  NoneRefused' /\ (Stream!Next \/ UNCHANGED Stream!vars)
  BY <1>8, ReadDid, DidStep
<1>9. CASE UNCHANGED vars
  <2>1. tcb' = tcb
    BY <1>9 DEF vars
  <2> QED  BY <2>1, StillStep
<1> QED  BY <1>1, <1>2, <1>3, <1>4, <1>5, <1>6, <1>7, <1>8, <1>9 DEF Next

(* The initial states map to initial states. *)
LEMMA StreamInit == Init => NoneRefused /\ Stream!Init
<1> SUFFICES ASSUME Init PROVE NoneRefused /\ Stream!Init
  OBVIOUS
<1>1. \A e \in Ends : tcb[e] = Blank
  BY DEF Init
<1>2. /\ Blank.written = 0 /\ Blank.taken = <<>> /\ Blank.closed = FALSE
      /\ Blank.eof = FALSE /\ Blank.failed = FALSE /\ Blank.refused = <<>>
  BY DEF Blank
<1>4. NoneRefused
  BY <1>1, <1>2 DEF NoneRefused
<1>5. /\ SWritten = [e \in Ends |-> 0] /\ SClosed = [e \in Ends |-> FALSE]
      /\ SEof = [e \in Ends |-> FALSE] /\ SFailed = [e \in Ends |-> FALSE]
  BY <1>1, <1>2 DEF SWritten, SClosed, SEof, SFailed
<1>6. STaken = [e \in Ends |-> <<>>]
  <2>1. \A e \in Ends :
          [i \in DOMAIN tcb[e].taken |-> tcb[e].taken[i] - FirstByte(Peer(e)) + 1] = <<>>
    BY <1>1, <1>2
  <2> QED  BY <2>1 DEF STaken
<1>7. Stream!Init
  <2>1. Stream!Ends = Ends
    BY StreamIs
  <2> QED  BY <1>5, <1>6, <2>1 DEF Stream!Init, SWritten, STaken, SClosed, SEof, SFailed
<1> QED  BY <1>4, <1>7

(* If the applications take what they are offered, every handler does to the
   two of them what one step of a byte stream does, or nothing: TCP as this
   stack implements it is a byte stream. *)
THEOREM StreamImplemented ==
  ASSUME "refuse" \notin Answers
  PROVE  Spec => ImplementsByteStream
<1>1. Init => NoneRefused /\ Stream!Init
  BY StreamInit
<1>2. ConnInv /\ NoneRefused /\ [Next]_vars => NoneRefused' /\ [Stream!Next]_(Stream!vars)
  BY StreamStep
<1> QED  BY <1>1, <1>2, ConnInvariant, PTL DEF Spec, ImplementsByteStream, Stream!Spec

=============================================================================
