-------------------------- MODULE TcpBlock_proofs --------------------------
(***************************************************************************)
(* Lemmas about the operators of TcpWnd, TcpOut, TcpApi and TcpIn, which   *)
(* map a control block to the one a function of the code leaves behind:    *)
(* the sending half, then what tcp_receive does.  What it takes is the run *)
(* of the peer's bytes up to rcv_nxt, and the out-of-order queue stays     *)
(* ordered and within what the peer wrote.                                 *)
(***************************************************************************)
EXTENDS TcpIn, FiniteSetTheorems, SequenceTheorems, NaturalsInduction,
        WellFoundedInduction, TLAPS

-----------------------------------------------------------------------------
(* Maxima, induction over indices, and sequences *)

(* A set of numbers from 0 to n that holds 0, and with i also i + 1, has them
   all. *)
LEMMA IndexInduction ==
  ASSUME NEW n \in Nat, NEW T, 0 \in T,
         \A i \in 0..n - 1 : i \in T => i + 1 \in T
  PROVE  \A i \in 0..n : i \in T
<1> DEFINE R == OpToRel(<, Nat)
           B == {i \in 0..n : i \notin T}
<1>1. IsWellFoundedOn(R, Nat)
  BY NatLessThanWellFounded
<1> SUFFICES ASSUME B # {} PROVE FALSE
  OBVIOUS
<1>2. \E x \in B : \A y \in B : <<y, x>> \notin R
  <2>1. B \subseteq Nat
    OBVIOUS
  <2> HIDE DEF R, B
  <2> QED  BY <1>1, <2>1, WFMin
<1>3. PICK x \in B : \A y \in B : <<y, x>> \notin R
  <2> HIDE DEF R, B
  <2> QED  BY <1>2
<1>4. x \in 1..n /\ x \notin T
  OBVIOUS
<1>5. x - 1 \notin T
  BY <1>4
<1>6. x - 1 \in B
  BY <1>4, <1>5
<1>7. <<x - 1, x>> \in R
  BY <1>4 DEF OpToRel
<1> QED  BY <1>3, <1>6, <1>7

(* A set of numbers of which none is above n has a largest. *)
LEMMA MaxIs ==
  ASSUME NEW n \in Int, NEW S, S # {}, S \subseteq Int, \A x \in S : x <= n
  PROVE  Max(S) \in S /\ \A y \in S : y <= Max(S)
<1>1. PICK a \in S : TRUE
  OBVIOUS
<1> DEFINE k == n - a
           T == {i \in 0..k : (\E m \in S : \A y \in S : y <= m)
                                \/ \A y \in S : y <= n - i}
<1>2. a \in Int /\ k \in Nat
  BY <1>1
<1>3. 0 \in T
  BY <1>2
<1>4. \A i \in 0..k - 1 : i \in T => i + 1 \in T
  <2> SUFFICES ASSUME NEW i \in 0..k - 1, i \in T PROVE i + 1 \in T
    OBVIOUS
  <2>1. CASE \E m \in S : \A y \in S : y <= m
    BY <2>1, <1>2
  <2>2. CASE \A y \in S : y <= n - i
    <3>1. CASE n - i \in S
      BY <3>1, <2>2, <1>2
    <3>2. CASE n - i \notin S
      <4>1. \A y \in S : y <= n - (i + 1)
        BY <3>2, <2>2, <1>2
      <4> QED  BY <4>1, <1>2
    <3> QED  BY <3>1, <3>2
  <2> QED  BY <2>1, <2>2
<1>5. k \in T
  <2> HIDE DEF T, k
  <2> QED  BY <1>2, <1>3, <1>4, IndexInduction
<1>6. \E m \in S : \A y \in S : y <= m
  <2>1. CASE \A y \in S : y <= n - k
    BY <2>1, <1>1, <1>2
  <2> QED  BY <2>1, <1>5
<1>7. \E m \in S : \A y \in S : m >= y
  BY <1>6
<1> QED  BY <1>7 DEF Max

(* How far a loop over n segments runs. *)
LEMMA LeadMax ==
  ASSUME NEW n \in Nat, NEW T
  PROVE  LET k == Max({i \in 0..n : \A j \in 1..i : j \in T})
         IN  /\ k \in 0..n
             /\ \A j \in 1..k : j \in T
             /\ k < n => k + 1 \notin T
<1> DEFINE S == {i \in 0..n : \A j \in 1..i : j \in T}
           k == Max(S)
<1>1. 0 \in S /\ S \subseteq Int /\ \A x \in S : x <= n
  OBVIOUS
<1>2. k \in S /\ \A y \in S : y <= k
  <2>1. n \in Int
    OBVIOUS
  <2> HIDE DEF S
  <2>2. Max(S) \in S /\ \A y \in S : y <= Max(S)
    BY <1>1, <2>1, MaxIs
  <2> QED  BY <2>2
<1>3. ASSUME k < n, k + 1 \in T PROVE FALSE
  <2>1. k + 1 \in S
    BY <1>2, <1>3
  <2> QED  BY <2>1, <1>2
<1> QED  BY <1>2, <1>3

(* Finitely many numbers have a bound. *)
LEMMA BoundOfInts ==
  ASSUME NEW n \in Nat, NEW f, \A i \in 1..n : f[i] \in Int
  PROVE  \E b \in Int : \A i \in 1..n : f[i] <= b
<1> DEFINE T == {i \in 0..n : \E b \in Int : \A j \in 1..i : f[j] <= b}
<1>1. 0 \in T
  OBVIOUS
<1>2. \A i \in 0..n - 1 : i \in T => i + 1 \in T
  <2> SUFFICES ASSUME NEW i \in 0..n - 1, i \in T PROVE i + 1 \in T
    OBVIOUS
  <2>1. PICK b \in Int : \A j \in 1..i : f[j] <= b
    OBVIOUS
  <2>2. f[i + 1] \in Int
    OBVIOUS
  <2>3. CASE f[i + 1] <= b
    <3>1. \A j \in 1..i + 1 : f[j] <= b
      BY <2>1, <2>3
    <3> QED  BY <3>1
  <2>4. CASE f[i + 1] > b
    <3>1. \A j \in 1..i + 1 : f[j] <= f[i + 1]
      BY <2>1, <2>2, <2>4
    <3> QED  BY <3>1, <2>2
  <2> QED  BY <2>2, <2>3, <2>4
<1>3. n \in T
  <2> HIDE DEF T
  <2> QED  BY <1>1, <1>2, IndexInduction
<1> QED  BY <1>3

(* What is left of a queue after the first n, and the first n. *)
LEMMA DropIs ==
  ASSUME NEW S, NEW q \in Seq(S), NEW n \in 0..Len(q)
  PROVE  /\ Drop(q, n) \in Seq(S) /\ Len(Drop(q, n)) = Len(q) - n
         /\ \A i \in 1..Len(q) - n : Drop(q, n)[i] = q[n + i]
         /\ (Drop(q, n) = <<>>) = (n = Len(q))
         /\ n < Len(q) => Head(Drop(q, n)) = q[n + 1]
         /\ SubSeq(q, 1, n) \in Seq(S) /\ Len(SubSeq(q, 1, n)) = n
         /\ \A i \in 1..n : SubSeq(q, 1, n)[i] = q[i]
<1>1. Len(q) \in Nat /\ \A i \in 1..Len(q) : q[i] \in S
  OBVIOUS
<1>2. /\ Drop(q, n) \in Seq(S) /\ Len(Drop(q, n)) = Len(q) - n
      /\ \A i \in 1..Len(q) - n : Drop(q, n)[i] = q[n + i]
  <2>1. n + 1 \in Int /\ \A i \in n + 1..Len(q) : q[i] \in S
    BY <1>1
  <2>2. /\ SubSeq(q, n + 1, Len(q)) \in Seq(S)
        /\ Len(SubSeq(q, n + 1, Len(q))) = IF n + 1 <= Len(q) THEN Len(q) - (n + 1) + 1 ELSE 0
        /\ \A i \in 1..Len(q) - (n + 1) + 1 : SubSeq(q, n + 1, Len(q))[i] = q[(n + 1) + i - 1]
    BY <1>1, <2>1, SubSeqProperties
  <2> QED  BY <1>1, <2>2 DEF Drop
<1>3. /\ SubSeq(q, 1, n) \in Seq(S) /\ Len(SubSeq(q, 1, n)) = n
      /\ \A i \in 1..n : SubSeq(q, 1, n)[i] = q[i]
  <2>1. \A i \in 1..n : q[i] \in S
    BY <1>1
  <2>2. /\ SubSeq(q, 1, n) \in Seq(S)
        /\ Len(SubSeq(q, 1, n)) = IF 1 <= n THEN n - 1 + 1 ELSE 0
        /\ \A i \in 1..n - 1 + 1 : SubSeq(q, 1, n)[i] = q[1 + i - 1]
    BY <2>1, SubSeqProperties
  <2> QED  BY <2>2
<1>4. (Drop(q, n) = <<>>) = (n = Len(q))
  BY <1>1, <1>2
<1>5. n < Len(q) => Head(Drop(q, n)) = q[n + 1]
  BY <1>1, <1>2
<1> QED  BY <1>2, <1>3, <1>4, <1>5

(* A queue of one segment. *)
LEMMA SingletonSeq ==
  ASSUME NEW S, NEW s \in S
  PROVE  /\ <<s>> \in Seq(S) /\ <<s>> # <<>> /\ Len(<<s>>) = 1 /\ <<s>>[1] = s
         /\ Head(<<s>>) = s /\ Tail(<<s>>) = <<>>
OBVIOUS

(* A segment put into a queue. *)
LEMMA InsertAtIs ==
  ASSUME NEW S, NEW q \in Seq(S), NEW n \in 0..Len(q), NEW s \in S
  PROVE  InsertAt(q, 1 + n, s) \in Seq(S)
<1>1. SubSeq(q, 1, n) \in Seq(S) /\ Drop(q, n) \in Seq(S)
  BY DropIs
<1>2. InsertAt(q, 1 + n, s) = SubSeq(q, 1, n) \o <<s>> \o Drop(q, n)
  <2>1. (1 + n) - 1 = n /\ 1 + n = n + 1
    OBVIOUS
  <2> QED  BY <2>1 DEF InsertAt, Drop
<1>3. <<s>> \in Seq(S)
  BY SMT
<1>4. SubSeq(q, 1, n) \o <<s>> \in Seq(S)
  BY <1>1, <1>3, ConcatProperties
<1> QED  BY <1>1, <1>2, <1>4, ConcatProperties

-----------------------------------------------------------------------------
(* The fields of a block, and which of them an operator writes *)

Fields == DOMAIN Blank

(* q is p but for fields of S. *)
Changes(p, q, S) ==
  /\ DOMAIN q = Fields
  /\ \A f \in Fields \ S : q[f] = p[f]

(* The fields of a control block, one by one. *)
LEMMA FieldsAre ==
  Fields = {"state", "unsent", "unacked", "ooseq", "refused", "flags",
            "snd_nxt", "snd_lbb", "lastack", "snd_wnd", "snd_wl1", "snd_wl2",
            "snd_buf", "snd_queuelen", "acked", "cwnd", "ssthresh", "dupacks",
            "nrtx", "rtime", "persist_backoff", "rcv_nxt", "rcv_wnd",
            "rcv_ann_wnd", "rcv_ann_right_edge", "recv_data", "recv_flags",
            "busy", "mem", "out", "taken", "eof", "reported", "failed",
            "written", "unread", "closed"}
BY DEF Fields, Blank

(* A block that is left alone changes in no field. *)
LEMMA ChangesNone ==
  ASSUME NEW p, DOMAIN p = Fields, NEW S
  PROVE  Changes(p, p, S)
BY DEF Changes

(* What changes only in S changes only in a larger set. *)
LEMMA ChangesMore ==
  ASSUME NEW p, NEW q, NEW S, Changes(p, q, S), NEW T, S \subseteq T
  PROVE  Changes(p, q, T)
BY DEF Changes

(* Two steps that each change only the fields in S change only those. *)
LEMMA ChangesThen ==
  ASSUME NEW p, NEW q, NEW r, NEW S, Changes(p, q, S), Changes(q, r, S)
  PROVE  Changes(p, r, S)
BY DEF Changes

(* The fields tcp_output writes. *)
OutputFields == {"unsent", "unacked", "snd_nxt", "rtime", "flags", "out",
                 "persist_backoff", "rcv_ann_right_edge"}

(* tcp_update_rcv_ann_wnd moves only the announced right edge. *)
LEMMA AnnounceChanges ==
  ASSUME NEW p, DOMAIN p = Fields
  PROVE  /\ Changes(p, Announce(p), {"rcv_ann_right_edge"})
         /\ Announce(p).rcv_ann_right_edge = p.rcv_nxt + p.rcv_ann_wnd
BY FieldsAre DEF Announce, Changes

(* tcp_send_empty_ack puts one ACK on its way when there is memory and only
   then drops the pending ACK flags. *)
LEMMA SendEmptyAckChanges ==
  ASSUME NEW p, DOMAIN p = Fields
  PROVE  /\ Changes(p, SendEmptyAck(p), {"rcv_ann_right_edge", "flags", "out"})
         /\ SendEmptyAck(p).flags = IF p.mem THEN p.flags \ AckFlagSet ELSE p.flags
         /\ SendEmptyAck(p).out =
              IF p.mem THEN Append(p.out, Wire(p, p.snd_nxt, {"ACK"}, 0)) ELSE p.out
         /\ SendEmptyAck(p).rcv_ann_right_edge =
              IF p.mem THEN p.rcv_nxt + p.rcv_ann_wnd ELSE p.rcv_ann_right_edge
BY FieldsAre DEF Announce, Changes, SendEmptyAck

(* The flags every segment but a SYN of the client carries, and the segments
   that leave when those of sent do. *)
AckOf(p) == IF p.state = "SYN_SENT" THEN {} ELSE {"ACK"}

WiresOf(p, sent, n) ==
  [i \in 1..n |-> Wire(p, sent[i].seq, sent[i].fl \cup AckOf(p), sent[i].len)]

EndsOf(p, sent, n) == {p.snd_nxt} \cup {EndSeq(sent[i]) : i \in 1..n}

(* What the loop of tcp_output leaves when it has sent n segments: they
   moved from unsent to unacked, snd_nxt is past the last of them. *)
LEMMA SendSegmentsChanges ==
  ASSUME NEW p, DOMAIN p = Fields, NEW n
  PROVE  LET q    == SendSegments(p, n)
             sent == SubSeq(p.unsent, 1, n)
         IN  /\ Changes(p, q, OutputFields \ {"persist_backoff"})
             /\ q.unsent = Drop(p.unsent, n)
             /\ q.unacked = InsertAllSent(p.unacked, sent)
             /\ q.snd_nxt = Max(EndsOf(p, sent, n))
             /\ q.rtime = 0
             /\ q.flags \subseteq p.flags
             /\ q.out = p.out \o WiresOf(p, sent, n)
             /\ q.rcv_ann_right_edge = p.rcv_nxt + p.rcv_ann_wnd
BY FieldsAre DEF Announce, Changes, SendSegments, OutputFields, AckOf, WiresOf, EndsOf

(* q has the fields of S from p. *)
Agree(p, q, S) == \A f \in S : q[f] = p[f]

SentFields == OutputFields \ {"flags", "persist_backoff"}

(* What tcp_output does to the queues: nothing, an empty ACK, or the first n
   unsent segments go out. *)
Outcomes(p) ==
  {p} \cup (IF p.mem THEN {SendEmptyAck(p)} ELSE {})
      \cup {SendSegments(p, n) : n \in 1..Len(p.unsent)}

(* tcp_output changes only OutputFields, nothing while the block is in input
   processing, and agrees on SentFields with one of its named outcomes. *)
LEMMA OutputChanges ==
  ASSUME NEW p, DOMAIN p = Fields, Len(p.unsent) \in Nat
  PROVE  /\ Changes(p, Output(p), OutputFields)
         /\ p.busy => Output(p) = p
         /\ \E q \in Outcomes(p) : Agree(q, Output(p), SentFields)
<1> DEFINE wnd == Lesser(p.snd_wnd, p.cwnd)
           T == {i \in Nat : /\ Fits(p, p.unsent[i], wnd)
                             /\ \/ Nagle(p, i)
                                \/ p.flags \cap {"TF_NAGLEMEMERR", "TF_FIN"} # {}}
           n == Lead(Len(p.unsent),
                  LAMBDA i : /\ Fits(p, p.unsent[i], wnd)
                             /\ \/ Nagle(p, i)
                                \/ p.flags \cap {"TF_NAGLEMEMERR", "TF_FIN"} # {})
           q == IF n = 0 THEN p ELSE SendSegments(p, n)
           r == [q EXCEPT !.flags = @ \ {"TF_NAGLEMEMERR"},
                          !.persist_backoff = IF Blocked(q) THEN 1 ELSE @]
           ack == /\ "TF_ACK_NOW" \in p.flags
                  /\ p.unsent = <<>> \/ ~Fits(p, Head(p.unsent), wnd)
<1>1. n \in 0..Len(p.unsent)
  <2>1. n = Max({k \in 0..Len(p.unsent) : \A j \in 1..k : j \in T})
    <3>1. \A k \in 0..Len(p.unsent) : \A j \in 1..k : j \in Nat
      OBVIOUS
    <3>2. {k \in 0..Len(p.unsent) : \A j \in 1..k : j \in T}
            = {k \in 0..Len(p.unsent) : \A j \in 1..k :
                 /\ Fits(p, p.unsent[j], wnd)
                 /\ \/ Nagle(p, j)
                    \/ p.flags \cap {"TF_NAGLEMEMERR", "TF_FIN"} # {}}
      <4> HIDE DEF wnd
      <4> QED  BY <3>1
    <3> QED  BY <3>2 DEF Lead
  <2> HIDE DEF T, n
  <2> QED  BY <2>1, LeadMax
<1>2. Output(p) = IF p.busy THEN p ELSE IF ack THEN SendEmptyAck(p) ELSE r
  BY DEF Output
<1>3. DOMAIN q = Fields /\ Changes(p, q, OutputFields)
  <2> HIDE DEF n
  <2>1. CASE n = 0
    BY <2>1, ChangesNone
  <2>2. CASE n # 0
    <3>1. Changes(p, SendSegments(p, n), OutputFields \ {"persist_backoff"})
      BY SendSegmentsChanges
    <3>2. q = SendSegments(p, n)
      BY <2>2
    <3> QED  BY <3>1, <3>2 DEF Changes
  <2> QED  BY <2>1, <2>2
<1>4. q \in Outcomes(p)
  <2> HIDE DEF n
  <2> QED  BY <1>1 DEF Outcomes
<1>5. Changes(p, r, OutputFields) /\ Agree(q, r, SentFields)
  <2> HIDE DEF q
  <2> QED  BY <1>3, FieldsAre DEF Changes, Agree, SentFields, OutputFields
<1>6. Changes(p, p, OutputFields) /\ Agree(p, p, SentFields)
  BY ChangesNone DEF Agree
<1>7. Changes(p, SendEmptyAck(p), OutputFields)
  BY SendEmptyAckChanges, FieldsAre DEF Changes, OutputFields
<1>8. SendEmptyAck(p) \in Outcomes(p)
  BY DEF Outcomes, SendEmptyAck
<1> HIDE DEF q, r, ack, n
<1> QED  BY <1>2, <1>4, <1>5, <1>6, <1>7, <1>8 DEF Agree, Outcomes

-----------------------------------------------------------------------------
(* Queues of a sender that has written the bytes fb .. fb + w - 1 and, if c,
   its FIN: the segments of the queues, and of the wire *)

QSegs(fb, w, c) ==
  {s \in [seq : Int, len : Nat, fl : SUBSET {"SYN", "FIN"}, pb : Nat] :
     /\ "SYN" \in s.fl => s.fl = {"SYN"} /\ s.len = 0 /\ s.seq = fb - 1
     /\ "SYN" \notin s.fl => s.seq >= fb /\ (s.fl = {} => s.len > 0)
     /\ s.seq + s.len <= fb + w
     /\ "FIN" \in s.fl => c /\ s.seq + s.len = fb + w}

WSegs(fb, w, c) ==
  {s \in [seq : Int, ack : Int, wnd : Int,
          fl : SUBSET {"SYN", "FIN", "RST", "ACK"}, len : Nat] :
     /\ "SYN" \in s.fl => "FIN" \notin s.fl /\ s.len = 0 /\ s.seq = fb - 1
     /\ "RST" \in s.fl => "SYN" \notin s.fl /\ "FIN" \notin s.fl /\ s.len = 0
     /\ s.len > 0 => s.seq + s.len <= fb + w
     /\ "FIN" \in s.fl => c /\ s.seq + s.len = fb + w}

(* What was queued or sent is still right when more is written. *)
LEMMA SegsGrow ==
  ASSUME NEW fb \in Int, NEW w \in Nat, NEW c \in BOOLEAN, NEW w2 \in Nat, NEW c2 \in BOOLEAN,
         w <= w2, c => c2 /\ w2 = w
  PROVE  QSegs(fb, w, c) \subseteq QSegs(fb, w2, c2) /\ WSegs(fb, w, c) \subseteq WSegs(fb, w2, c2)
BY DEF QSegs, WSegs

(* A queued segment has a first and an end sequence number. *)
LEMMA EndSeqIs ==
  ASSUME NEW fb \in Int, NEW w \in Nat, NEW c \in BOOLEAN, NEW s \in QSegs(fb, w, c)
  PROVE  EndSeq(s) \in Int /\ s.seq \in Int
BY DEF QSegs, EndSeq, TcpLen

(* Inserting in sequence order keeps a sequence over S. *)
LEMMA InsertBySeqIn ==
  ASSUME NEW S, NEW q \in Seq(S), NEW s \in S
  PROVE  InsertBySeq(q, s) \in Seq(S)
<1> DEFINE T == {i \in Nat : q[i].seq < s.seq}
           n == Lead(Len(q), LAMBDA i : q[i].seq < s.seq)
<1>1. n \in 0..Len(q)
  <2>1. \A k \in 0..Len(q) : \A j \in 1..k : j \in Nat
    OBVIOUS
  <2>2. {k \in 0..Len(q) : \A j \in 1..k : j \in T}
          = {k \in 0..Len(q) : \A j \in 1..k : q[j].seq < s.seq}
    BY <2>1
  <2>3. n = Max({k \in 0..Len(q) : \A j \in 1..k : j \in T})
    BY <2>2 DEF Lead
  <2>4. Len(q) \in Nat
    OBVIOUS
  <2> HIDE DEF T, n
  <2> QED  BY <2>3, <2>4, LeadMax
<1>2. InsertBySeq(q, s) = InsertAt(q, 1 + n, s)
  BY DEF InsertBySeq
<1> HIDE DEF n
<1> QED  BY <1>1, <1>2, InsertAtIs

(* So does the insertion tcp_output makes into unacked. *)
LEMMA InsertSentIn ==
  ASSUME NEW S, NEW q \in Seq(S), NEW s \in S
  PROVE  InsertSent(q, s) \in Seq(S)
BY InsertBySeqIn DEF InsertSent

(* The recursion of InsertAllSent has a solution. *)
SentInto(q, sent) ==
  CHOOSE f : f = [i \in 0..Len(sent) |->
                    IF i = 0 THEN q ELSE InsertSent(f[i - 1], sent[i])]

(* The recursive function behind InsertAllSent satisfies its equations on
   the indices of the segments sent. *)
LEMMA InsertAllSentSolved ==
  ASSUME NEW S, NEW q, NEW sent \in Seq(S)
  PROVE  /\ SentInto(q, sent)[0] = q
         /\ \A i \in 1..Len(sent) :
              SentInto(q, sent)[i] = InsertSent(SentInto(q, sent)[i - 1], sent[i])
         /\ InsertAllSent(q, sent) = SentInto(q, sent)[Len(sent)]
<1> DEFINE n == Len(sent)
           T == {m \in 0..n : \E f : /\ DOMAIN f = 0..m /\ f[0] = q
                                     /\ \A i \in 1..m : f[i] = InsertSent(f[i - 1], sent[i])}
           into == SentInto(q, sent)
<1>1. n \in Nat
  OBVIOUS
<1>2. 0 \in T
  <2>1. 0 \in 0..n /\ \A i \in 1..0 : FALSE
    BY <1>1
  <2>2. DOMAIN [i \in 0..0 |-> q] = 0..0 /\ [i \in 0..0 |-> q][0] = q
    OBVIOUS
  <2> QED  BY <2>1, <2>2
<1>3. \A m \in 0..n - 1 : m \in T => m + 1 \in T
  <2> SUFFICES ASSUME NEW m \in 0..n - 1, m \in T PROVE m + 1 \in T
    OBVIOUS
  <2>1. PICK f : /\ DOMAIN f = 0..m /\ f[0] = q
                 /\ \A i \in 1..m : f[i] = InsertSent(f[i - 1], sent[i])
    OBVIOUS
  <2> DEFINE g == [i \in 0..m + 1 |->
                     IF i = m + 1 THEN InsertSent(f[m], sent[m + 1]) ELSE f[i]]
  <2>2. DOMAIN g = 0..m + 1 /\ g[0] = q
    BY <1>1, <2>1
  <2>3. \A i \in 1..m + 1 : g[i] = InsertSent(g[i - 1], sent[i])
    <3> SUFFICES ASSUME NEW i \in 1..m + 1 PROVE g[i] = InsertSent(g[i - 1], sent[i])
      OBVIOUS
    <3>1. g[i - 1] = f[i - 1]
      BY <1>1
    <3>2. CASE i = m + 1
      BY <3>1, <3>2, <1>1
    <3>3. CASE i # m + 1
      <4>1. i \in 1..m /\ g[i] = f[i]
        BY <3>3, <1>1
      <4> QED  BY <4>1, <3>1, <2>1
    <3> QED  BY <3>2, <3>3
  <2>4. m + 1 \in 0..n
    BY <1>1
  <2> HIDE DEF g
  <2> QED  BY <2>2, <2>3, <2>4
<1>4. n \in T
  <2> HIDE DEF T, n
  <2>1. \A i \in 0..n : i \in T
    BY <1>1, <1>2, <1>3, IndexInduction
  <2> QED  BY <1>1, <2>1
<1>5. PICK f : /\ DOMAIN f = 0..n /\ f[0] = q
               /\ \A i \in 1..n : f[i] = InsertSent(f[i - 1], sent[i])
  BY <1>4
<1>6. \E h : h = [i \in 0..n |-> IF i = 0 THEN q ELSE InsertSent(h[i - 1], sent[i])]
  <2> DEFINE g == [i \in 0..n |-> IF i = 0 THEN q ELSE InsertSent(f[i - 1], sent[i])]
  <2>1. \A i \in 0..n : g[i] = f[i]
    BY <1>1, <1>5
  <2>2. g = [i \in 0..n |-> IF i = 0 THEN q ELSE InsertSent(g[i - 1], sent[i])]
    <3>1. \A i \in 1..n : i - 1 \in 0..n
      BY <1>1
    <3>2. \A i \in 1..n : g[i - 1] = f[i - 1]
      BY <2>1, <3>1
    <3>3. \A i \in 0..n : (IF i = 0 THEN q ELSE InsertSent(g[i - 1], sent[i]))
                            = (IF i = 0 THEN q ELSE InsertSent(f[i - 1], sent[i]))
      BY <3>2, <1>1
    <3> QED  BY <3>3
  <2> HIDE DEF g
  <2> QED  BY <2>2
<1>7. into = [i \in 0..n |-> IF i = 0 THEN q ELSE InsertSent(into[i - 1], sent[i])]
  BY <1>6 DEF SentInto
<1>8. InsertAllSent(q, sent) = into[n]
  BY DEF InsertAllSent, SentInto
<1> HIDE DEF into
<1>9. into[0] = q /\ \A i \in 1..n : into[i] = InsertSent(into[i - 1], sent[i])
  BY <1>1, <1>7
<1> QED  BY <1>8, <1>9 DEF into

(* Moving all the segments sent keeps unacked a sequence over S. *)
LEMMA InsertAllSentIn ==
  ASSUME NEW S, NEW q \in Seq(S), NEW sent \in Seq(S)
  PROVE  InsertAllSent(q, sent) \in Seq(S)
<1> DEFINE into == SentInto(q, sent)
           T == {i \in 0..Len(sent) : into[i] \in Seq(S)}
<1>1. /\ into[0] = q
      /\ \A i \in 1..Len(sent) : into[i] = InsertSent(into[i - 1], sent[i])
      /\ InsertAllSent(q, sent) = into[Len(sent)]
  BY InsertAllSentSolved
<1>2. Len(sent) \in Nat /\ \A i \in 1..Len(sent) : sent[i] \in S
  OBVIOUS
<1> HIDE DEF into
<1>3. 0 \in T
  BY <1>1, <1>2
<1>4. \A i \in 0..Len(sent) - 1 : i \in T => i + 1 \in T
  <2> SUFFICES ASSUME NEW i \in 0..Len(sent) - 1, into[i] \in Seq(S)
               PROVE  i + 1 \in T
    OBVIOUS
  <2>1. into[i + 1] = InsertSent(into[i], sent[i + 1]) /\ sent[i + 1] \in S
    <3>1. i + 1 \in 1..Len(sent) /\ (i + 1) - 1 = i
      BY <1>2
    <3> QED  BY <3>1, <1>1, <1>2
  <2>2. InsertSent(into[i], sent[i + 1]) \in Seq(S)
    BY <2>1, InsertSentIn
  <2> QED  BY <2>1, <2>2, <1>2
<1>5. \A i \in 0..Len(sent) : i \in T
  <2> HIDE DEF T
  <2> QED  BY <1>2, <1>3, <1>4, IndexInduction
<1> QED  BY <1>1, <1>2, <1>5

Snd(p, fb, w, c) ==
  /\ DOMAIN p = Fields
  /\ p.unsent \in Seq(QSegs(fb, w, c)) /\ p.unacked \in Seq(QSegs(fb, w, c))
  /\ p.out \in Seq(WSegs(fb, w, c))
  /\ p.lastack \in Int /\ p.snd_nxt \in Int /\ p.dupacks \in Int
  /\ p.rcv_nxt \in Int /\ p.rcv_ann_wnd \in Int
  /\ p.rcv_ann_right_edge \in Int /\ p.rcv_wnd \in Nat

SndFields == {"unsent", "unacked", "out", "lastack", "snd_nxt", "dupacks",
              "rcv_nxt", "rcv_ann_wnd", "rcv_ann_right_edge", "rcv_wnd"}

(* A block that agrees on SndFields with a sound sender is one. *)
LEMMA SndAgree ==
  ASSUME NEW fb, NEW w, NEW c \in BOOLEAN, NEW p, Snd(p, fb, w, c),
         NEW q, DOMAIN q = Fields, Agree(p, q, SndFields)
  PROVE  Snd(q, fb, w, c)
BY DEF Snd, Agree, SndFields

(* A step that leaves SndFields alone keeps the sender sound. *)
LEMMA SndChanges ==
  ASSUME NEW fb, NEW w, NEW c \in BOOLEAN, NEW p, Snd(p, fb, w, c),
         NEW q, NEW S, Changes(p, q, S), S \cap SndFields = {}
  PROVE  Snd(q, fb, w, c)
BY FieldsAre DEF Snd, Changes, SndFields

(* A sender stays sound when more is written, or the FIN is allowed, since
   its queues hold only what was written before. *)
LEMMA SndGrow ==
  ASSUME NEW fb \in Int, NEW w \in Nat, NEW c \in BOOLEAN, NEW w2 \in Nat, NEW c2 \in BOOLEAN,
         w <= w2, c => c2 /\ w2 = w, NEW p, Snd(p, fb, w, c)
  PROVE  Snd(p, fb, w2, c2)
<1>1. QSegs(fb, w, c) \subseteq QSegs(fb, w2, c2) /\ WSegs(fb, w, c) \subseteq WSegs(fb, w2, c2)
  BY SegsGrow
<1> QED  BY <1>1, SeqMonotonic DEF Snd

(* An empty ACK, and a queued segment as it leaves. *)
LEMMA WireIn ==
  ASSUME NEW fb \in Int, NEW w \in Nat, NEW c \in BOOLEAN, NEW p, Snd(p, fb, w, c)
  PROVE  /\ Wire(p, p.snd_nxt, {"ACK"}, 0) \in WSegs(fb, w, c)
         /\ \A s \in QSegs(fb, w, c) :
              /\ Wire(p, s.seq, s.fl \cup {}, s.len) \in WSegs(fb, w, c)
              /\ Wire(p, s.seq, s.fl \cup {"ACK"}, s.len) \in WSegs(fb, w, c)
<1>1. p.rcv_nxt \in Int /\ p.rcv_ann_wnd \in Int /\ p.snd_nxt \in Int
  BY DEF Snd
<1>2. Wire(p, p.snd_nxt, {"ACK"}, 0) \in WSegs(fb, w, c)
  BY <1>1 DEF Wire, WSegs
<1>3. ASSUME NEW s \in QSegs(fb, w, c), NEW a \in SUBSET {"ACK"}
      PROVE  Wire(p, s.seq, s.fl \cup a, s.len) \in WSegs(fb, w, c)
  <2>1. /\ s.seq \in Int /\ s.len \in Nat /\ s.fl \in SUBSET {"SYN", "FIN"}
        /\ "SYN" \in s.fl => s.fl = {"SYN"} /\ s.len = 0 /\ s.seq = fb - 1
        /\ s.seq + s.len <= fb + w
        /\ "FIN" \in s.fl => c /\ s.seq + s.len = fb + w
    BY DEF QSegs
  <2>2. s.fl \cup a \in SUBSET {"SYN", "FIN", "RST", "ACK"}
    BY <2>1
  <2>3. /\ "SYN" \in s.fl \cup a <=> "SYN" \in s.fl
        /\ "FIN" \in s.fl \cup a <=> "FIN" \in s.fl
        /\ "RST" \notin s.fl \cup a
    BY <2>1
  <2>4. "SYN" \in s.fl => "FIN" \notin s.fl
    BY <2>1
  <2> QED  BY <1>1, <2>1, <2>2, <2>3, <2>4 DEF Wire, WSegs
<1>4. \A s \in QSegs(fb, w, c) :
              /\ Wire(p, s.seq, s.fl \cup {}, s.len) \in WSegs(fb, w, c)
              /\ Wire(p, s.seq, s.fl \cup {"ACK"}, s.len) \in WSegs(fb, w, c)
  BY <1>3
<1> QED  BY <1>2, <1>4

(* One more segment on its way. *)
LEMMA AppendOut ==
  ASSUME NEW fb, NEW w, NEW c \in BOOLEAN, NEW p, Snd(p, fb, w, c),
         NEW s \in WSegs(fb, w, c)
  PROVE  Append(p.out, s) \in Seq(WSegs(fb, w, c))
BY DEF Snd

(* tcp_send_empty_ack sends nothing the sender does not hold. *)
LEMMA SendEmptyAckSnd ==
  ASSUME NEW fb \in Int, NEW w \in Nat, NEW c \in BOOLEAN, NEW p, Snd(p, fb, w, c)
  PROVE  Snd(SendEmptyAck(p), fb, w, c)
<1>1. Append(p.out, Wire(p, p.snd_nxt, {"ACK"}, 0)) \in Seq(WSegs(fb, w, c))
  BY WireIn, AppendOut
<1>2. DOMAIN p = Fields /\ p.rcv_nxt + p.rcv_ann_wnd \in Int
  BY DEF Snd
<1> DEFINE q == SendEmptyAck(p)
<1>3. /\ Changes(p, q, {"rcv_ann_right_edge", "flags", "out"})
      /\ q.out = p.out \/ q.out = Append(p.out, Wire(p, p.snd_nxt, {"ACK"}, 0))
      /\ \/ q.rcv_ann_right_edge = p.rcv_ann_right_edge
         \/ q.rcv_ann_right_edge = p.rcv_nxt + p.rcv_ann_wnd
  BY <1>2, SendEmptyAckChanges
<1> HIDE DEF q
<1>4. Snd(q, fb, w, c)
  BY <1>1, <1>2, <1>3, FieldsAre DEF Changes, Snd
<1> QED  BY <1>4 DEF q

(* The loop of tcp_output sends only queued segments, each with what was
   written, and keeps the rest. *)
LEMMA SendSegmentsSnd ==
  ASSUME NEW fb \in Int, NEW w \in Nat, NEW c \in BOOLEAN, NEW p, Snd(p, fb, w, c),
         NEW n \in 1..Len(p.unsent)
  PROVE  Snd(SendSegments(p, n), fb, w, c)
<1> DEFINE Q    == QSegs(fb, w, c)
           W    == WSegs(fb, w, c)
<1>q. PICK q : q = SendSegments(p, n)
  OBVIOUS
<1>s. PICK sent : sent = SubSeq(p.unsent, 1, n)
  OBVIOUS
<1>1. DOMAIN p = Fields /\ p.unsent \in Seq(Q) /\ p.unacked \in Seq(Q) /\ p.out \in Seq(W)
      /\ p.snd_nxt \in Int /\ p.rcv_nxt + p.rcv_ann_wnd \in Int
  BY DEF Snd
<1>2. sent \in Seq(Q) /\ Len(sent) = n /\ Drop(p.unsent, n) \in Seq(Q)
  BY <1>s, <1>1, DropIs
<1>3. \A i \in 1..n : sent[i] \in Q
  BY <1>2
<1>4. InsertAllSent(p.unacked, sent) \in Seq(Q)
  BY <1>1, <1>2, InsertAllSentIn
<1>5. Max(EndsOf(p, sent, n)) \in Int
  <2> DEFINE f == [i \in 1..n |-> EndSeq(sent[i])]
  <2>1. \A i \in 1..n : f[i] \in Int
    BY <1>3, EndSeqIs
  <2>2. /\ p.snd_nxt \in EndsOf(p, sent, n)
        /\ \A x \in EndsOf(p, sent, n) : x = p.snd_nxt \/ \E i \in 1..n : x = f[i]
    BY DEF EndsOf
  <2>3. n \in Nat /\ p.snd_nxt \in Int
    BY <1>1
  <2> HIDE DEF f
  <2>4. PICK b \in Int : \A i \in 1..n : f[i] <= b
    BY <2>1, <2>3, BoundOfInts
  <2>5. PICK m \in Int : b <= m /\ p.snd_nxt <= m
    BY <2>3
  <2>6. \A x \in EndsOf(p, sent, n) : x \in Int /\ x <= m
    BY <2>1, <2>2, <2>3, <2>4, <2>5
  <2>7. Max(EndsOf(p, sent, n)) \in EndsOf(p, sent, n)
    BY <2>2, <2>6, MaxIs
  <2> QED  BY <2>6, <2>7
<1>6. WiresOf(p, sent, n) \in Seq(W)
  <2>1. \A i \in 1..n : WiresOf(p, sent, n)[i] \in W
    <3> SUFFICES ASSUME NEW i \in 1..n PROVE WiresOf(p, sent, n)[i] \in W
      OBVIOUS
    <3>1. sent[i] \in Q
      BY <1>3
    <3>2. WiresOf(p, sent, n)[i] = Wire(p, sent[i].seq, sent[i].fl \cup AckOf(p), sent[i].len)
      BY DEF WiresOf
    <3>3. CASE p.state = "SYN_SENT"
      BY <3>1, <3>2, <3>3, WireIn DEF AckOf
    <3>4. CASE p.state # "SYN_SENT"
      BY <3>1, <3>2, <3>4, WireIn DEF AckOf
    <3> QED  BY <3>3, <3>4
  <2>2. n \in Nat /\ WiresOf(p, sent, n) = [i \in 1..n |-> WiresOf(p, sent, n)[i]]
    BY DEF WiresOf
  <2> QED  BY <2>1, <2>2
<1>7. p.out \o WiresOf(p, sent, n) \in Seq(W)
  BY <1>1, <1>6, ConcatProperties
<1>8. /\ Changes(p, q, OutputFields \ {"persist_backoff"})
      /\ q.unsent = Drop(p.unsent, n)
      /\ q.unacked = InsertAllSent(p.unacked, sent)
      /\ q.snd_nxt = Max(EndsOf(p, sent, n))
      /\ q.out = p.out \o WiresOf(p, sent, n)
      /\ q.rcv_ann_right_edge = p.rcv_nxt + p.rcv_ann_wnd
  <2>1. DOMAIN p = Fields
    BY <1>1
  <2>2. /\ Changes(p, SendSegments(p, n), OutputFields \ {"persist_backoff"})
        /\ SendSegments(p, n).unsent = Drop(p.unsent, n)
        /\ SendSegments(p, n).unacked = InsertAllSent(p.unacked, SubSeq(p.unsent, 1, n))
        /\ SendSegments(p, n).snd_nxt = Max(EndsOf(p, SubSeq(p.unsent, 1, n), n))
        /\ SendSegments(p, n).out = p.out \o WiresOf(p, SubSeq(p.unsent, 1, n), n)
        /\ SendSegments(p, n).rcv_ann_right_edge = p.rcv_nxt + p.rcv_ann_wnd
    BY <2>1, SendSegmentsChanges
  <2> QED  BY <1>q, <1>s, <2>2
<1>9. Snd(q, fb, w, c)
  BY <1>1, <1>2, <1>4, <1>5, <1>7, <1>8, FieldsAre DEF Changes, Snd, OutputFields
<1> QED  BY <1>q, <1>9

(* tcp_output keeps the sender sound. *)
LEMMA OutputSnd ==
  ASSUME NEW fb \in Int, NEW w \in Nat, NEW c \in BOOLEAN, NEW p, Snd(p, fb, w, c)
  PROVE  Snd(Output(p), fb, w, c) /\ Changes(p, Output(p), OutputFields)
         /\ (p.busy => Output(p) = p)
<1>1. DOMAIN p = Fields /\ Len(p.unsent) \in Nat
  BY DEF Snd
<1>2. /\ Changes(p, Output(p), OutputFields)
      /\ p.busy => Output(p) = p
      /\ \E q \in Outcomes(p) : Agree(q, Output(p), SentFields)
  BY <1>1, OutputChanges
<1>3. PICK q \in Outcomes(p) : Agree(q, Output(p), SentFields)
  BY <1>2
<1>4. Snd(q, fb, w, c)
  BY SendEmptyAckSnd, SendSegmentsSnd DEF Outcomes
<1>5. Changes(p, q, OutputFields)
  <2>1. CASE q = p
    BY <2>1, <1>1, ChangesNone
  <2>2. CASE q = SendEmptyAck(p)
    BY <2>2, <1>1, SendEmptyAckChanges DEF Changes, OutputFields
  <2>3. ASSUME NEW n \in 1..Len(p.unsent), q = SendSegments(p, n)
        PROVE  Changes(p, q, OutputFields)
    <3>1. Changes(p, SendSegments(p, n), OutputFields \ {"persist_backoff"})
      BY <1>1, SendSegmentsChanges
    <3> QED  BY <2>3, <3>1 DEF Changes
  <2> QED  BY <2>1, <2>2, <2>3 DEF Outcomes
<1> QED  BY <1>2, <1>3, <1>4, <1>5, FieldsAre DEF Snd, Changes, Agree, OutputFields, SentFields

(* tcp_ack_now and tcp_ack: flags, then perhaps tcp_output. *)
LEMMA AckNowSnd ==
  ASSUME NEW fb \in Int, NEW w \in Nat, NEW c \in BOOLEAN, NEW p, Snd(p, fb, w, c)
  PROVE  /\ Snd(AckNow(p), fb, w, c)
         /\ Changes(p, AckNow(p), OutputFields)
         /\ p.busy => Changes(p, AckNow(p), {"flags"})
<1> DEFINE q == [p EXCEPT !.flags = AckNowFlags(@)]
<1>1. DOMAIN p = Fields
  BY DEF Snd
<1>2. Changes(p, q, {"flags"})
  BY <1>1, FieldsAre DEF Changes
<1>3. Snd(q, fb, w, c)
  BY <1>2, SndChanges DEF SndFields
<1>4. AckNow(p) = Output(q)
  BY DEF AckNow
<1>5. q.busy = p.busy
  BY <1>2, FieldsAre DEF Changes
<1> HIDE DEF q
<1>6. Snd(Output(q), fb, w, c) /\ Changes(q, Output(q), OutputFields)
      /\ (q.busy => Output(q) = q)
  BY <1>3, OutputSnd
<1>7. Changes(p, Output(q), OutputFields)
  BY <1>2, <1>6 DEF Changes, OutputFields
<1> QED  BY <1>2, <1>4, <1>5, <1>6, <1>7

(* tcp_ack and tcp_ack_now keep the sender sound; in input processing they
   only set a flag. *)
LEMMA AckSnd ==
  ASSUME NEW fb \in Int, NEW w \in Nat, NEW c \in BOOLEAN, NEW p, Snd(p, fb, w, c)
  PROVE  /\ Snd(Ack(p), fb, w, c)
         /\ Changes(p, Ack(p), OutputFields)
         /\ p.busy => Changes(p, Ack(p), {"flags"})
<1> DEFINE q == [p EXCEPT !.flags = AckFlags(@)]
<1>1. DOMAIN p = Fields
  BY DEF Snd
<1>2. Changes(p, q, {"flags"})
  BY <1>1, FieldsAre DEF Changes
<1>3. Snd(q, fb, w, c)
  BY <1>2, SndChanges DEF SndFields
<1>4. Ack(p) = Output(q) \/ Ack(p) = q
  BY DEF Ack
<1>5. q.busy = p.busy
  BY <1>2, FieldsAre DEF Changes
<1> HIDE DEF q
<1>6. Snd(Output(q), fb, w, c) /\ Changes(q, Output(q), OutputFields)
      /\ (q.busy => Output(q) = q)
  BY <1>3, OutputSnd
<1>7. Changes(p, Output(q), OutputFields) /\ Changes(p, q, OutputFields)
  BY <1>2, <1>6 DEF Changes, OutputFields
<1> QED  BY <1>2, <1>3, <1>4, <1>5, <1>6, <1>7

-----------------------------------------------------------------------------
(* Retransmission *)

(* tcp_rexmit_rto keeps the sender sound: the unacked segments go in front
   of the unsent ones. *)
LEMMA RexmitRtoSnd ==
  ASSUME NEW fb \in Int, NEW w \in Nat, NEW c \in BOOLEAN, NEW p, Snd(p, fb, w, c)
  PROVE  /\ Snd(RexmitRto(p), fb, w, c)
         /\ Changes(p, RexmitRto(p), OutputFields \cup {"nrtx"})
<1> DEFINE q == [p EXCEPT !.unsent  = p.unacked \o @,
                          !.unacked = <<>>,
                          !.nrtx    = @ + 1]
<1>1. DOMAIN p = Fields /\ p.unacked \o p.unsent \in Seq(QSegs(fb, w, c))
  BY ConcatProperties DEF Snd
<1>2. /\ Changes(p, q, {"unsent", "unacked", "nrtx"})
      /\ q.unsent = p.unacked \o p.unsent /\ q.unacked = <<>>
  BY <1>1, FieldsAre DEF Changes
<1> HIDE DEF q
<1>3. Snd(q, fb, w, c)
  <2>1. <<>> \in Seq(QSegs(fb, w, c))
    BY EmptySeq
  <2> QED  BY <1>1, <1>2, <2>1, FieldsAre DEF Changes, Snd
<1>4. Snd(Output(q), fb, w, c) /\ Changes(q, Output(q), OutputFields)
  BY <1>3, OutputSnd
<1>5. Changes(p, Output(q), OutputFields \cup {"nrtx"})
  BY <1>2, <1>4 DEF Changes, OutputFields
<1>6. RexmitRto(p) = IF p.unacked = <<>> THEN p ELSE Output(q)
  BY DEF RexmitRto, q
<1>7. Changes(p, p, OutputFields \cup {"nrtx"})
  BY <1>1, ChangesNone
<1> QED  BY <1>4, <1>5, <1>6, <1>7

(* tcp_rexmit moves one segment from unacked to unsent and keeps the sender
   sound. *)
LEMMA RexmitSnd ==
  ASSUME NEW fb \in Int, NEW w \in Nat, NEW c \in BOOLEAN, NEW p, Snd(p, fb, w, c)
  PROVE  /\ Snd(Rexmit(p), fb, w, c)
         /\ Changes(p, Rexmit(p), {"unsent", "unacked", "nrtx"})
<1>1. CASE p.unacked = <<>>
  BY <1>1, ChangesNone DEF Rexmit, Snd
<1>2. CASE p.unacked # <<>>
  <2> DEFINE q == Rexmit(p)
  <2>1. /\ DOMAIN p = Fields /\ p.unacked \in Seq(QSegs(fb, w, c))
        /\ p.unsent \in Seq(QSegs(fb, w, c))
    BY DEF Snd
  <2>2. Head(p.unacked) \in QSegs(fb, w, c) /\ Tail(p.unacked) \in Seq(QSegs(fb, w, c))
    BY <1>2, <2>1, HeadTailProperties
  <2>3. InsertBySeq(p.unsent, Head(p.unacked)) \in Seq(QSegs(fb, w, c))
    BY <2>1, <2>2, InsertBySeqIn
  <2>4. /\ Changes(p, q, {"unsent", "unacked", "nrtx"})
        /\ q.unsent = InsertBySeq(p.unsent, Head(p.unacked))
        /\ q.unacked = Tail(p.unacked)
    BY <1>2, <2>1, FieldsAre DEF Changes, Rexmit
  <2> HIDE DEF q
  <2>5. Snd(q, fb, w, c)
    BY <2>2, <2>3, <2>4, FieldsAre DEF Changes, Snd
  <2> QED  BY <2>4, <2>5 DEF q
<1> QED  BY <1>1, <1>2

RexmitFastFields == {"unsent", "unacked", "nrtx", "ssthresh", "cwnd", "flags"}

(* tcp_rexmit_fast keeps the sender sound. *)
LEMMA RexmitFastSnd ==
  ASSUME NEW fb \in Int, NEW w \in Nat, NEW c \in BOOLEAN, NEW p, Snd(p, fb, w, c)
  PROVE  /\ Snd(RexmitFast(p), fb, w, c)
         /\ Changes(p, RexmitFast(p), RexmitFastFields)
<1> DEFINE q == RexmitFast(p)
           r == Rexmit(p)
<1>1. Snd(r, fb, w, c) /\ Changes(p, r, {"unsent", "unacked", "nrtx"})
  BY RexmitSnd
<1>2. DOMAIN p = Fields /\ DOMAIN r = Fields
  BY <1>1 DEF Snd
<1>3. q = p \/ Changes(r, q, {"ssthresh", "cwnd", "flags"})
  <2>1. CASE p.unacked = <<>> \/ "TF_INFR" \in p.flags
    BY <2>1 DEF RexmitFast
  <2>2. CASE ~(p.unacked = <<>> \/ "TF_INFR" \in p.flags)
    <3> HIDE DEF r
    <3>1. \E a, b : q = [r EXCEPT !.ssthresh = a, !.cwnd = b, !.flags = @ \cup {"TF_INFR"}]
      BY <2>2 DEF RexmitFast, r
    <3>2. PICK a, b : q = [r EXCEPT !.ssthresh = a, !.cwnd = b, !.flags = @ \cup {"TF_INFR"}]
      BY <3>1
    <3> QED  BY <1>2, <3>2, FieldsAre DEF Changes
  <2> QED  BY <2>1, <2>2
<1> HIDE DEF q, r
<1>4. CASE q = p
  BY <1>2, <1>4, ChangesNone DEF q
<1>5. CASE Changes(r, q, {"ssthresh", "cwnd", "flags"})
  <2>1. Snd(q, fb, w, c)
    BY <1>1, <1>5, SndChanges DEF SndFields
  <2>2. Changes(p, q, RexmitFastFields)
    BY <1>1, <1>5 DEF Changes, RexmitFastFields
  <2> QED  BY <2>1, <2>2 DEF q
<1> QED  BY <1>3, <1>4, <1>5

(* The probe of tcp_zero_window_probe is a byte the sender holds. *)
LEMMA ZeroWindowProbeSnd ==
  ASSUME NEW fb \in Int, NEW w \in Nat, NEW c \in BOOLEAN, NEW p, Snd(p, fb, w, c)
  PROVE  /\ Snd(ZeroWindowProbe(p), fb, w, c)
         /\ Changes(p, ZeroWindowProbe(p), {"rcv_ann_right_edge", "out"})
<1> DEFINE queue == p.unacked \o p.unsent
           oldest == Head(queue)
           isFin  == "FIN" \in oldest.fl /\ oldest.len = 0
           probe == IF isFin THEN Wire(p, oldest.seq, {"ACK", "FIN"}, 0)
                             ELSE Wire(p, oldest.seq, {"ACK"}, 1)
           q == ZeroWindowProbe(p)
<1>1. /\ DOMAIN p = Fields /\ p.rcv_nxt \in Int /\ p.rcv_ann_wnd \in Int
      /\ p.rcv_nxt + p.rcv_ann_wnd \in Int
  BY DEF Snd
<1>2. CASE queue = <<>> \/ ~p.mem
  BY <1>1, <1>2, ChangesNone DEF ZeroWindowProbe
<1>3. CASE ~(queue = <<>> \/ ~p.mem)
  <2>1. queue \in Seq(QSegs(fb, w, c))
    BY ConcatProperties DEF Snd
  <2>2. oldest \in QSegs(fb, w, c)
    <3> HIDE DEF queue
    <3> QED  BY <1>3, <2>1, HeadTailProperties
  <2>3. probe \in WSegs(fb, w, c)
    <3> HIDE DEF oldest
    <3>1. /\ oldest.seq \in Int /\ oldest.len \in Nat /\ oldest.fl \in SUBSET {"SYN", "FIN"}
          /\ "SYN" \in oldest.fl => oldest.fl = {"SYN"} /\ oldest.len = 0 /\ oldest.seq = fb - 1
          /\ "SYN" \notin oldest.fl => oldest.seq >= fb /\ (oldest.fl = {} => oldest.len > 0)
          /\ oldest.seq + oldest.len <= fb + w
          /\ "FIN" \in oldest.fl => c /\ oldest.seq + oldest.len = fb + w
      BY <2>2 DEF QSegs
    <3>2. CASE isFin
      BY <1>1, <3>1, <3>2 DEF Wire, WSegs
    <3>3. CASE ~isFin
      <4>1. oldest.seq + 1 <= fb + w
        BY <3>1, <3>3
      <4> QED  BY <1>1, <3>1, <3>3, <4>1 DEF Wire, WSegs
    <3> QED  BY <3>2, <3>3
  <2>4. q = [Announce(p) EXCEPT !.out = Append(@, probe)]
    BY <1>3 DEF ZeroWindowProbe
  <2>5. DOMAIN Announce(p) = Fields /\ Announce(p).out = p.out
        /\ Changes(p, Announce(p), {"rcv_ann_right_edge"})
        /\ Announce(p).rcv_ann_right_edge = p.rcv_nxt + p.rcv_ann_wnd
    BY <1>1, AnnounceChanges, FieldsAre DEF Changes
  <2> HIDE DEF q, probe
  <2>6. Append(p.out, probe) \in Seq(WSegs(fb, w, c))
    BY <2>3, AppendOut
  <2>7. Changes(Announce(p), q, {"out"}) /\ q.out = Append(p.out, probe)
    BY <2>4, <2>5, FieldsAre DEF Changes
  <2>8. Changes(p, q, {"rcv_ann_right_edge", "out"})
    BY <2>5, <2>7 DEF Changes
  <2>9. q.rcv_ann_right_edge \in Int
    BY <1>1, <2>5, <2>7, FieldsAre DEF Changes
  <2>10. Snd(q, fb, w, c)
    BY <2>6, <2>7, <2>8, <2>9, FieldsAre DEF Changes, Snd
  <2> QED  BY <2>8, <2>10 DEF q
<1> QED  BY <1>2, <1>3

-----------------------------------------------------------------------------
(* Queueing *)

EnqueueFields == {"unsent", "snd_lbb", "snd_buf", "snd_queuelen", "flags"}

(* i segments of d bytes fit into a when i is at most a \div d. *)
LEMMA DivBound ==
  ASSUME NEW a \in Nat, NEW d \in Nat \ {0}, NEW i \in Nat, i <= a \div d
  PROVE  i * d <= a
<1>1. a \div d \in Nat /\ (a \div d) * d <= a
  BY SMT
<1>2. i * d <= (a \div d) * d
  BY <1>1, SMT
<1>3. i * d \in Int /\ (a \div d) * d \in Int
  BY <1>1
<1> QED  BY <1>1, <1>2, <1>3

(* How many segments len bytes take; each but the first starts before the
   end. *)
LEMMA SegmentsCount ==
  ASSUME NEW len \in Nat
  PROVE  LET n == Max({1, (len + MSS - 1) \div MSS})
         IN  /\ n \in Nat \ {0} /\ (len = 0 => n = 1)
             /\ \A i \in 1..n : (i - 1) * MSS \in Nat /\ (len > 0 => (i - 1) * MSS < len)
             /\ (1 - 1) * MSS = 0
<1> DEFINE x == (len + MSS - 1) \div MSS
           n == Max({1, x})
<1>1. MSS \in Nat \ {0} /\ len + MSS - 1 \in Nat /\ x \in Nat
  BY WndAssumption
<1>2. n \in {1, x} /\ 1 <= n
  <2> HIDE DEF x
  <2>1. PICK b \in Int : 1 <= b /\ x <= b
    BY <1>1
  <2>2. {1, x} # {} /\ {1, x} \subseteq Int /\ \A y \in {1, x} : y <= b
    BY <1>1, <2>1
  <2>3. PICK S : S = {1, x}
    OBVIOUS
  <2>4. Max(S) \in S /\ \A y \in S : y <= Max(S)
    BY <2>2, <2>3, MaxIs
  <2> QED  BY <2>3, <2>4
<1>3. len = 0 => x = 0
  BY <1>1
<1>4. ASSUME NEW i \in 1..n
      PROVE  (i - 1) * MSS \in Nat /\ (len > 0 => (i - 1) * MSS < len)
  <2> HIDE DEF x, n
  <2>1. i \in Nat /\ i - 1 \in Nat /\ (i = 1 \/ i <= x)
    BY <1>1, <1>2
  <2>2. (i - 1) * MSS \in Nat
    BY <1>1, <2>1, SMT
  <2>3. CASE i = 1
    BY <1>1, <2>3
  <2>4. CASE i <= x
    <3>1. i * MSS <= len + MSS - 1
      BY <1>1, <2>1, <2>4, DivBound DEF x
    <3>2. (i - 1) * MSS = i * MSS - MSS /\ i * MSS \in Int
      BY <1>1, <2>1, SMT
    <3> QED  BY <1>1, <2>2, <3>1, <3>2
  <2> QED  BY <2>1, <2>2, <2>3, <2>4
<1>5. (1 - 1) * MSS = 0
  BY <1>1
<1> HIDE DEF x
<1> QED  BY <1>1, <1>2, <1>3, <1>4, <1>5 DEF x

(* tcp_write: the new segments hold the new bytes. *)
LEMMA DataSegments ==
  ASSUME NEW fb \in Int, NEW w \in Nat, NEW p, p.snd_lbb = fb + w,
         NEW len \in Nat \ {0}, NEW copy, NEW c \in BOOLEAN
  PROVE  /\ Segments(p, len, {}, copy) \in Seq(QSegs(fb, w + len, c))
         /\ Segments(p, len, {}, copy) # <<>>
<1> DEFINE n == Max({1, (len + MSS - 1) \div MSS})
           new == Segments(p, len, {}, copy)
           Q == QSegs(fb, w + len, c)
<1>1. /\ n \in Nat \ {0} /\ (1 - 1) * MSS = 0
      /\ \A i \in 1..n : (i - 1) * MSS \in Nat /\ (i - 1) * MSS < len
  <2>1. len \in Nat /\ len > 0
    OBVIOUS
  <2> QED  BY <2>1, SegmentsCount
<1> HIDE DEF n
<1>2. MSS \in Nat \ {0}
  BY WndAssumption
<1>3. new = [i \in 1..n |->
         [seq |-> p.snd_lbb + (i - 1) * MSS,
          len |-> Lesser(MSS, len - (i - 1) * MSS),
          fl  |-> {},
          pb  |-> IF copy \/ len = 0 THEN 1 ELSE 2]]
  BY DEF Segments, n
<1> HIDE DEF new
<1>4. \A i \in 1..n : new[i] \in Q
  <2> SUFFICES ASSUME NEW i \in 1..n PROVE new[i] \in Q
    OBVIOUS
  <2>1. PICK k : k = (i - 1) * MSS
    OBVIOUS
  <2>2. k \in Nat /\ k < len
    BY <1>1, <2>1
  <2>3. new[i] = [seq |-> fb + w + k, len |-> Lesser(MSS, len - k), fl  |-> {},
                  pb |-> IF copy \/ len = 0 THEN 1 ELSE 2]
    BY <1>3, <2>1
  <2>4. Lesser(MSS, len - k) \in Nat /\ Lesser(MSS, len - k) > 0
        /\ Lesser(MSS, len - k) <= len - k
    BY <1>2, <2>2 DEF Lesser
  <2> QED  BY <2>2, <2>3, <2>4 DEF QSegs
<1>5. DOMAIN new = 1..n
  BY <1>3
<1>6. new \in Seq(Q)
  <2>1. new = [i \in 1..n |-> new[i]]
    BY <1>3
  <2> HIDE DEF Q
  <2> QED  BY <1>1, <1>4, <2>1
<1>7. new # <<>>
  BY <1>1, <1>5
<1> QED  BY <1>6, <1>7 DEF new

(* tcp_enqueue for a SYN or a FIN: one segment without data. *)
LEMMA FlagSegment ==
  ASSUME NEW p, NEW fl, NEW copy, p.snd_lbb \in Int
  PROVE  \E pb \in Nat :
           /\ pb = 1
           /\ Segments(p, 0, fl, copy) = <<[seq |-> p.snd_lbb, len |-> 0, fl |-> fl, pb |-> pb]>>
<1> DEFINE n == Max({1, (0 + MSS - 1) \div MSS})
           pb == IF copy \/ 0 = 0 THEN 1 ELSE 2
<1>1. n = 1 /\ (1 - 1) * MSS = 0
  BY SegmentsCount
<1> HIDE DEF n
<1>2. Segments(p, 0, fl, copy) = [i \in 1..n |->
         [seq |-> p.snd_lbb + (i - 1) * MSS,
          len |-> Lesser(MSS, 0 - (i - 1) * MSS),
          fl  |-> fl, pb  |-> pb]]
  BY DEF Segments, n
<1>3. Lesser(MSS, 0) = 0 /\ p.snd_lbb + 0 = p.snd_lbb
  BY WndAssumption DEF Lesser
<1>4. \A i \in 1..1 : (i - 1) * MSS = 0
  BY <1>1
<1>5. Segments(p, 0, fl, copy) = [i \in 1..1 |->
         [seq |-> p.snd_lbb, len |-> 0, fl  |-> fl, pb  |-> pb]]
  BY <1>1, <1>2, <1>3, <1>4
<1>6. pb \in Nat /\ pb = 1
  OBVIOUS
<1> HIDE DEF pb
<1> QED  BY <1>5, <1>6

(* The queue after tcp_enqueue, the first new segment joined to the last
   unsent one or not. *)
LEMMA QueuedIn ==
  ASSUME NEW fb \in Int, NEW w \in Nat, NEW w2 \in Nat, NEW c \in BOOLEAN, NEW c2 \in BOOLEAN,
         w <= w2, c => c2 /\ w2 = w,
         NEW p, DOMAIN p = Fields, p.unsent \in Seq(QSegs(fb, w, c)),
         NEW len, NEW fl, NEW copy,
         Segments(p, len, fl, copy) \in Seq(QSegs(fb, w2, c2)),
         Segments(p, len, fl, copy) # <<>>
  PROVE  Queued(p, len, fl, copy).unsent \in Seq(QSegs(fb, w2, c2))
<1> DEFINE Q == QSegs(fb, w2, c2)
<1>n. PICK new : new = Segments(p, len, fl, copy)
  OBVIOUS
<1> DEFINE q == IF Chains(p, new[1])
                  THEN Front(p.unsent) \o <<Joined(Last(p.unsent), new[1])>> \o Tail(new)
                  ELSE p.unsent \o new
<1>1. p.unsent \in Seq(Q) /\ new \in Seq(Q) /\ new # <<>>
  <2>1. QSegs(fb, w, c) \subseteq Q
    BY SegsGrow
  <2> HIDE DEF Q
  <2> QED  BY <2>1, <1>n, SeqMonotonic DEF Q
<1>2. new[1] \in Q /\ Tail(new) \in Seq(Q)
  <2> HIDE DEF Q
  <2>1. Head(new) = new[1] /\ Head(new) \in Q /\ Tail(new) \in Seq(Q)
    BY <1>1, HeadTailProperties
  <2> QED  BY <2>1
<1>3. ASSUME Chains(p, new[1]) PROVE q \in Seq(Q)
  <2>1. p.unsent # <<>> /\ Len(p.unsent) \in Nat \ {0}
    BY <1>1, <1>3 DEF Chains
  <2>2. Front(p.unsent) \in Seq(Q)
    <3> HIDE DEF Q
    <3>1. Len(p.unsent) - 1 \in 0..Len(p.unsent)
      BY <2>1
    <3> QED  BY <3>1, <1>1, DropIs DEF Front
  <2>3. PICK last : last = Last(p.unsent)
    OBVIOUS
  <2>4. last \in QSegs(fb, w, c)
    <3>1. Len(p.unsent) \in 1..Len(p.unsent)
      BY <2>1
    <3> QED  BY <2>3, <3>1, ElementOfSeq DEF Last
  <2>5. PICK first : first = new[1]
    OBVIOUS
  <2>6. /\ last.fl = {} /\ first.fl \in {{}, {"FIN"}} /\ last.seq + last.len = first.seq
    BY <1>3, <2>3, <2>5 DEF Chains
  <2>7. first \in Q
    BY <1>2, <2>5
  <2>8. Joined(last, first) = [last EXCEPT !.len = last.len + first.len, !.fl = first.fl,
                                 !.pb = IF first.len = 0 THEN last.pb ELSE last.pb + 1]
    BY DEF Joined
  <2>9. /\ last \in [seq : Int, len : Nat, fl : SUBSET {"SYN", "FIN"}, pb : Nat]
        /\ first \in [seq : Int, len : Nat, fl : SUBSET {"SYN", "FIN"}, pb : Nat]
        /\ last.seq >= fb /\ last.len > 0
        /\ first.seq + first.len <= fb + w2
        /\ "FIN" \in first.fl => c2 /\ first.seq + first.len = fb + w2
    BY <2>4, <2>6, <2>7 DEF QSegs
  <2>10. PICK j : j = Joined(last, first)
    OBVIOUS
  <2>11. /\ j \in [seq : Int, len : Nat, fl : SUBSET {"SYN", "FIN"}, pb : Nat]
         /\ j.seq = last.seq /\ j.len = last.len + first.len /\ j.fl = first.fl
    <3>1. PICK m : m = last.len + first.len
      OBVIOUS
    <3>2. PICK b : b = IF first.len = 0 THEN last.pb ELSE last.pb + 1
      OBVIOUS
    <3>a. /\ last.len \in Nat /\ first.len \in Nat /\ last.pb \in Nat
          /\ first.fl \in SUBSET {"SYN", "FIN"}
      BY <2>9
    <3>3. m \in Nat /\ b \in Nat /\ first.fl \in SUBSET {"SYN", "FIN"}
      <4>1. m \in Nat
        BY <3>a, <3>1
      <4>2. b \in Nat
        BY <3>a, <3>2
      <4> QED  BY <3>a, <4>1, <4>2
    <3>4. j = [last EXCEPT !.len = m, !.fl = first.fl, !.pb = b]
      BY <2>8, <2>10, <3>1, <3>2
    <3> QED  BY <2>9, <3>1, <3>3, <3>4
  <2>12. j \in Q
    <3>1. "SYN" \notin j.fl
      BY <2>6, <2>11
    <3>2. j.seq + j.len = first.seq + first.len /\ j.seq >= fb /\ j.len > 0
      BY <2>6, <2>9, <2>11, SMTT(30)
    <3>3. j.fl = first.fl
      BY <2>11
    <3> QED  BY <2>9, <2>11, <3>1, <3>2, <3>3 DEF QSegs
  <2>13. <<j>> \in Seq(Q)
    <3> HIDE DEF Q
    <3> QED  BY <2>12
  <2>14. Front(p.unsent) \o <<j>> \in Seq(Q)
    <3> HIDE DEF Q
    <3> QED  BY <2>2, <2>13, ConcatProperties
  <2>15. Front(p.unsent) \o <<j>> \o Tail(new) \in Seq(Q)
    <3> HIDE DEF Q
    <3> QED  BY <2>14, <1>2, ConcatProperties
  <2> QED  BY <1>3, <2>15, <2>10, <2>3, <2>5
<1>4. ASSUME ~Chains(p, new[1]) PROVE q \in Seq(Q)
  <2> HIDE DEF Q
  <2>1. p.unsent \o new \in Seq(Q)
    BY <1>1, ConcatProperties
  <2> QED  BY <1>4, <2>1
<1>5. Queued(p, len, fl, copy).unsent = q
  BY <1>n, FieldsAre DEF Queued
<1> HIDE DEF q
<1> QED  BY <1>3, <1>4, <1>5 DEF q

(* Queueing len bytes and the flags fl moves snd_lbb by what they occupy. *)
LEMMA QueuedChanges ==
  ASSUME NEW p, DOMAIN p = Fields, NEW len, NEW fl, NEW copy
  PROVE  /\ Changes(p, Queued(p, len, fl, copy), EnqueueFields)
         /\ Queued(p, len, fl, copy).snd_lbb
              = p.snd_lbb + (len + (IF fl = {} THEN 0 ELSE 1))
BY FieldsAre DEF Changes, Queued, EnqueueFields

(* tcp_enqueue changes only EnqueueFields, and only the NAGLEMEMERR flag
   when it refuses. *)
LEMMA EnqueueChanges ==
  ASSUME NEW p, DOMAIN p = Fields, NEW len, NEW fl, NEW copy
  PROVE  /\ Changes(p, Enqueue(p, len, fl, copy), EnqueueFields)
         /\ ~Accepts(p, len, fl, copy) =>
              Changes(p, Enqueue(p, len, fl, copy), {"flags"})
<1>1. Changes(p, [p EXCEPT !.flags = @ \cup {"TF_NAGLEMEMERR"}], {"flags"})
  BY FieldsAre DEF Changes
<1>2. Changes(p, Queued(p, len, fl, copy), EnqueueFields)
  BY QueuedChanges
<1> QED  BY <1>1, <1>2 DEF Enqueue, Changes, EnqueueFields

(* Snd after tcp_enqueue, once its new queue is known to be right. *)
LEMMA QueuedSnd ==
  ASSUME NEW fb \in Int, NEW w \in Nat, NEW c \in BOOLEAN, NEW w2 \in Nat, NEW c2 \in BOOLEAN,
         w <= w2, c => c2 /\ w2 = w, NEW p, Snd(p, fb, w, c),
         NEW q, Changes(p, q, EnqueueFields), q.unsent \in Seq(QSegs(fb, w2, c2))
  PROVE  Snd(q, fb, w2, c2)
<1>1. Snd(p, fb, w2, c2)
  BY SndGrow
<1> QED  BY <1>1, FieldsAre DEF Snd, Changes, EnqueueFields

(* The block after len bytes were queued. *)
Longer(q, fb, w, c) == Snd(q, fb, w, c) /\ q.snd_lbb = fb + w

(* tcp_enqueue of data that was just written extends the sender's queue up
   to the new end. *)
LEMMA EnqueueData ==
  ASSUME NEW fb \in Int, NEW w \in Nat, NEW c \in BOOLEAN, c = FALSE, NEW p,
         Longer(p, fb, w, c), NEW len \in Nat \ {0}, NEW copy,
         NEW fl, fl = {}, Accepts(p, len, fl, copy), NEW w2 \in Nat, w2 = w + len
  PROVE  Longer(Enqueue(p, len, fl, copy), fb, w2, c)
<1> DEFINE q == Queued(p, len, {}, copy)
<1>1. DOMAIN p = Fields /\ p.unsent \in Seq(QSegs(fb, w, c)) /\ p.snd_lbb = fb + w
      /\ Snd(p, fb, w, c)
  BY DEF Snd, Longer
<1>2. Changes(p, q, EnqueueFields) /\ q.snd_lbb = p.snd_lbb + (len + 0)
  BY <1>1, QueuedChanges
<1>3. /\ Segments(p, len, {}, copy) \in Seq(QSegs(fb, w + len, c))
      /\ Segments(p, len, {}, copy) # <<>>
  BY <1>1, DataSegments
<1>4. w <= w2 /\ (c => c /\ w2 = w)
  OBVIOUS
<1>5. q.unsent \in Seq(QSegs(fb, w2, c))
  <2>1. Segments(p, len, fl, copy) \in Seq(QSegs(fb, w2, c)) /\ Segments(p, len, fl, copy) # <<>>
    BY <1>3
  <2>2. Queued(p, len, fl, copy).unsent \in Seq(QSegs(fb, w2, c))
    BY <1>1, <1>4, <2>1, QueuedIn
  <2> QED  BY <2>2
<1>6. Enqueue(p, len, fl, copy) = q
  BY DEF Enqueue
<1> HIDE DEF q
<1>7. Snd(q, fb, w2, c)
  BY <1>1, <1>2, <1>4, <1>5, QueuedSnd
<1>8. q.snd_lbb = fb + w2
  BY <1>1, <1>2
<1> QED  BY <1>6, <1>7, <1>8 DEF Longer

(* tcp_enqueue of a FIN puts it behind the last byte written. *)
LEMMA EnqueueFin ==
  ASSUME NEW fb \in Int, NEW w \in Nat, NEW c \in BOOLEAN, c = FALSE, NEW p, Snd(p, fb, w, c),
         p.snd_lbb = fb + w, Accepts(p, 0, {"FIN"}, TRUE), NEW c2 \in BOOLEAN, c2 = TRUE
  PROVE  /\ Snd(Enqueue(p, 0, {"FIN"}, TRUE), fb, w, c2)
         /\ Enqueue(p, 0, {"FIN"}, TRUE).snd_lbb = fb + w + 1
<1>f. PICK fl : fl = {"FIN"}
  OBVIOUS
<1>t. PICK copy : copy = TRUE
  OBVIOUS
<1>z. PICK len : len = 0
  OBVIOUS
<1> DEFINE q == Queued(p, len, fl, copy)
<1>1. DOMAIN p = Fields /\ p.unsent \in Seq(QSegs(fb, w, c))
  BY DEF Snd
<1>i. p.snd_lbb \in Int
  OBVIOUS
<1>2. Changes(p, q, EnqueueFields) /\ q.snd_lbb = p.snd_lbb + 1
  <2>1. Changes(p, q, EnqueueFields)
        /\ q.snd_lbb = p.snd_lbb + (len + (IF fl = {} THEN 0 ELSE 1))
    BY <1>1, QueuedChanges
  <2>2. fl # {} /\ 0 + 1 = 1
    BY <1>f
  <2> QED  BY <2>1, <2>2, <1>z
<1>3. /\ Segments(p, len, fl, copy) \in Seq(QSegs(fb, w, c2))
      /\ Segments(p, len, fl, copy) # <<>>
  <2>1. PICK pb \in Nat :
          Segments(p, 0, fl, copy) = <<[seq |-> p.snd_lbb, len |-> 0, fl |-> fl, pb |-> pb]>>
    BY <1>i, FlagSegment
  <2>2. PICK s : s = [seq |-> p.snd_lbb, len |-> 0, fl |-> fl, pb |-> pb]
    OBVIOUS
  <2>3. s \in QSegs(fb, w, c2)
    BY <2>2, <1>f DEF QSegs
  <2>4. Segments(p, len, fl, copy) = <<s>>
    BY <2>1, <2>2, <1>z
  <2>5. <<s>> \in Seq(QSegs(fb, w, c2)) /\ <<s>> # <<>>
    BY <2>3, SingletonSeq
  <2> QED  BY <2>4, <2>5
<1>4. w <= w /\ (c => c2 /\ w = w)
  OBVIOUS
<1>5. q.unsent \in Seq(QSegs(fb, w, c2))
  BY <1>1, <1>3, <1>4, QueuedIn
<1>6. Enqueue(p, 0, {"FIN"}, TRUE) = q
  BY <1>f, <1>t, <1>z DEF Enqueue
<1> HIDE DEF q
<1>7. Snd(q, fb, w, c2)
  BY <1>2, <1>4, <1>5, QueuedSnd
<1>8. q.snd_lbb = fb + w + 1
  BY <1>2
<1> QED  BY <1>6, <1>7, <1>8

TakesSyn(p) == Accepts(p, 0, {"SYN"}, FALSE)

WithSyn(p) == Enqueue(p, 0, {"SYN"}, FALSE)

HoldsSyn(p, n) ==
  \E pb \in Nat : p.unsent = <<[seq |-> n, len |-> 0, fl |-> {"SYN"}, pb |-> pb]>>

(* tcp_enqueue of a SYN on an empty queue puts it before the first byte. *)
LEMMA EnqueueSyn ==
  ASSUME NEW fb \in Int, NEW w \in Nat, NEW c \in BOOLEAN, NEW p, Snd(p, fb, w, c),
         p.snd_lbb = fb - 1, p.unsent = <<>>, TakesSyn(p)
  PROVE  /\ Snd(WithSyn(p), fb, w, c) /\ WithSyn(p).snd_lbb = fb
         /\ HoldsSyn(WithSyn(p), p.snd_lbb) /\ WithSyn(p).flags = p.flags
<1> USE DEF TakesSyn, WithSyn, HoldsSyn
<1>f. PICK fl : fl = {"SYN"}
  OBVIOUS
<1>t. PICK copy : copy = FALSE
  OBVIOUS
<1>z. PICK len : len = 0
  OBVIOUS
<1> DEFINE q == Queued(p, len, fl, copy)
<1>1. DOMAIN p = Fields /\ p.snd_lbb \in Int /\ p.snd_lbb + 1 = fb
  BY DEF Snd
<1>2. Changes(p, q, EnqueueFields) /\ q.snd_lbb = fb
  <2>1. Changes(p, q, EnqueueFields)
        /\ q.snd_lbb = p.snd_lbb + (len + (IF fl = {} THEN 0 ELSE 1))
    BY <1>1, QueuedChanges
  <2>2. fl # {} /\ 0 + 1 = 1
    BY <1>f
  <2> QED  BY <1>1, <2>1, <2>2, <1>z
<1>3. /\ q.unsent \in Seq(QSegs(fb, w, c))
      /\ \E pb \in Nat :
           q.unsent = <<[seq |-> p.snd_lbb, len |-> 0, fl |-> {"SYN"}, pb |-> pb]>>
  <2>1. PICK pb \in Nat :
          Segments(p, 0, fl, copy) = <<[seq |-> p.snd_lbb, len |-> 0, fl |-> fl, pb |-> pb]>>
    BY <1>1, FlagSegment
  <2>2. PICK s : s = [seq |-> p.snd_lbb, len |-> 0, fl |-> fl, pb |-> pb]
    OBVIOUS
  <2>3. s \in QSegs(fb, w, c)
    BY <1>1, <2>2, <1>f, <1>t DEF QSegs
  <2>4. Segments(p, len, fl, copy) = <<s>>
    BY <2>1, <2>2, <1>z
  <2>5. q.unsent = <<>> \o <<s>>
    BY <2>4, <1>1, FieldsAre DEF Queued, Chains
  <2>6. <<s>> \in Seq(QSegs(fb, w, c))
    BY <2>3
  <2>7. <<>> \o <<s>> = <<s>>
    BY <2>6, ConcatEmptySeq
  <2>8. <<s>> = <<[seq |-> p.snd_lbb, len |-> 0, fl |-> {"SYN"}, pb |-> pb]>>
    BY <2>2, <1>f
  <2> HIDE DEF q
  <2> QED  BY <2>5, <2>6, <2>7, <2>8
<1>6. Enqueue(p, 0, {"SYN"}, FALSE) = q
  BY <1>f, <1>t, <1>z DEF Enqueue
<1>8. q.flags = p.flags
  BY <1>1, <1>f, FieldsAre DEF Queued
<1> HIDE DEF q
<1>7. Snd(q, fb, w, c)
  <2>1. (c => c /\ w = w) /\ w <= w /\ q.unsent \in Seq(QSegs(fb, w, c))
    BY <1>3
  <2> QED  BY <1>2, <2>1, QueuedSnd
<1> QED  BY <1>2, <1>3, <1>6, <1>7, <1>8

(* One segment for a flag needs one pbuf: an empty queue has room for it. *)
LEMMA OnePbuf ==
  ASSUME NEW s
  PROVE  Pbufs(<<s>>) = 0 + s.pb
<1> DEFINE q == <<s>>
           sum == CHOOSE f : f = [i \in 0..1 |-> IF i = 0 THEN 0 ELSE f[i - 1] + q[i].pb]
<1>1. Len(q) = 1 /\ q[1] = s
  OBVIOUS
<1>2. Pbufs(q) = sum[1]
  <2> HIDE DEF q
  <2> QED  BY <1>1 DEF Pbufs
<1>3. \E f : f = [i \in 0..1 |-> IF i = 0 THEN 0 ELSE f[i - 1] + q[i].pb]
  <2> DEFINE f == [i \in 0..1 |-> IF i = 0 THEN 0 ELSE 0 + s.pb]
  <2>1. f = [i \in 0..1 |-> IF i = 0 THEN 0 ELSE f[i - 1] + q[i].pb]
    OBVIOUS
  <2> HIDE DEF f
  <2> QED  BY <2>1
<1>4. sum = [i \in 0..1 |-> IF i = 0 THEN 0 ELSE sum[i - 1] + q[i].pb]
  <2> HIDE DEF q
  <2> QED  BY <1>3
<1> HIDE DEF sum
<1>5. sum[1] = sum[0] + s.pb /\ sum[0] = 0
  BY <1>1, <1>4
<1> QED  BY <1>2, <1>5

(* A SYN is accepted when the queue is empty and there is memory. *)
LEMMA AcceptsSyn ==
  ASSUME NEW p, p.snd_lbb \in Int, p.snd_buf \in Nat, p.snd_queuelen = 0, p.mem = TRUE
  PROVE  TakesSyn(p)
<1> USE DEF TakesSyn
<1>f. PICK fl : fl = {"SYN"}
  OBVIOUS
<1>t. PICK copy : copy = FALSE
  OBVIOUS
<1>1. PICK pb \in Nat :
        /\ pb = 1
        /\ Segments(p, 0, fl, copy) = <<[seq |-> p.snd_lbb, len |-> 0, fl |-> fl, pb |-> pb]>>
  BY FlagSegment
<1>2. PICK s : s = [seq |-> p.snd_lbb, len |-> 0, fl |-> fl, pb |-> pb]
  OBVIOUS
<1>3. Pbufs(Segments(p, 0, fl, copy)) = 1
  BY <1>1, <1>2, OnePbuf
<1>4. Pbufs(Segments(p, 0, {"SYN"}, FALSE)) = 1
  BY <1>f, <1>t, <1>3
<1>5. TCP_SND_QUEUELEN \in Nat /\ TCP_SND_QUEUELEN > 0
  BY OutAssumption
<1>5a. TCP_SND_QUEUELEN >= 1 /\ 0 + 1 = 1
  BY <1>5
<1>6. 0 <= p.snd_buf /\ p.snd_queuelen < TCP_SND_QUEUELEN
      /\ p.snd_queuelen + Pbufs(Segments(p, 0, {"SYN"}, FALSE)) <= TCP_SND_QUEUELEN
  <2>1. 0 <= p.snd_buf
    OBVIOUS
  <2>2. p.snd_queuelen < TCP_SND_QUEUELEN
    BY <1>5
  <2>3. p.snd_queuelen + Pbufs(Segments(p, 0, {"SYN"}, FALSE)) = 1
    BY <1>4, <1>5a
  <2> QED  BY <2>1, <2>2, <2>3, <1>5a
<1> QED  BY <1>6, Zenon DEF Accepts

-----------------------------------------------------------------------------
(* The out-of-order queue of a receiver whose peer has written up to lim and,
   if d, its FIN: the segments of the queue, and the queue *)

OSegs(lim, d) ==
  {s \in [seq : Int, len : Nat, fl : SUBSET {"FIN"}] :
     /\ s.fl = {} => s.len > 0
     /\ s.seq + s.len <= lim
     /\ s.fl # {} => d /\ s.seq + s.len = lim}

(* Sorted, without an overlap, the FIN at the end. *)
Ordered(q, lim, d) ==
  /\ q \in Seq(OSegs(lim, d))
  /\ \A i, j \in 1..Len(q) : i < j => q[i].fl = {} /\ q[i].seq + q[i].len <= q[j].seq

(* The empty out-of-order queue is ordered. *)
LEMMA OrderedEmpty ==
  ASSUME NEW lim \in Int, NEW d \in BOOLEAN
  PROVE  Ordered(<<>>, lim, d)
<1>1. <<>> \in Seq(OSegs(lim, d)) /\ Len(<<>>) = 0
  BY EmptySeq
<1> QED  BY <1>1 DEF Ordered

(* So is a queue of one segment of the peer. *)
LEMMA OrderedOne ==
  ASSUME NEW lim \in Int, NEW d \in BOOLEAN, NEW s \in OSegs(lim, d)
  PROVE  Ordered(<<s>>, lim, d)
<1>1. <<s>> \in Seq(OSegs(lim, d)) /\ Len(<<s>>) = 1
  BY SingletonSeq
<1> QED  BY <1>1 DEF Ordered

(* A queue stays ordered when the peer writes more, or closes. *)
LEMMA OrderedGrow ==
  ASSUME NEW lim \in Int, NEW d \in BOOLEAN, NEW lim2 \in Int, NEW d2 \in BOOLEAN,
         lim <= lim2, d => d2 /\ lim2 = lim, NEW q, Ordered(q, lim, d)
  PROVE  Ordered(q, lim2, d2)
<1>1. OSegs(lim, d) \subseteq OSegs(lim2, d2)
  BY DEF OSegs
<1>2. q \in Seq(OSegs(lim2, d2))
  BY <1>1, SeqMonotonic DEF Ordered
<1> QED  BY <1>2 DEF Ordered

(* The facts on a segment of the out-of-order queue that the proofs use: it
   lies within what the peer wrote, and its FIN at the end of that. *)
LEMMA OSegIs ==
  ASSUME NEW lim \in Int, NEW d \in BOOLEAN, NEW s \in OSegs(lim, d)
  PROVE  /\ s.seq \in Int /\ s.len \in Nat /\ s.fl \in SUBSET {"FIN"}
         /\ s.seq <= lim /\ s.seq + s.len <= lim
         /\ s.fl = {} => s.len > 0 /\ EndSeq(s) = s.seq + s.len
         /\ s.fl # {} => d /\ s.seq + s.len = lim /\ EndSeq(s) = lim + 1
         /\ EndSeq(s) \in Int /\ EndSeq(s) > s.seq /\ EndSeq(s) <= lim + 1
<1>1. /\ s.seq \in Int /\ s.len \in Nat /\ s.fl \in SUBSET {"FIN"}
      /\ s.fl = {} => s.len > 0
      /\ s.seq + s.len <= lim
      /\ s.fl # {} => d /\ s.seq + s.len = lim
  BY DEF OSegs
<1>2. s.fl \cap {"SYN", "FIN"} = s.fl
  BY <1>1
<1>3. EndSeq(s) = s.seq + (s.len + (IF s.fl # {} THEN 1 ELSE 0))
  BY <1>2 DEF EndSeq, TcpLen
<1> QED  BY <1>1, <1>3

(* What is left after the first n segments, and those n, are ordered. *)
LEMMA OrderedSlices ==
  ASSUME NEW lim \in Int, NEW d \in BOOLEAN, NEW q, Ordered(q, lim, d),
         NEW n \in 0..Len(q)
  PROVE  /\ Ordered(Drop(q, n), lim, d) /\ Ordered(SubSeq(q, 1, n), lim, d)
<1>1. q \in Seq(OSegs(lim, d)) /\ Len(q) \in Nat
  BY DEF Ordered
<1>S. PICK S : S = OSegs(lim, d)
  OBVIOUS
<1>2. /\ Drop(q, n) \in Seq(S) /\ Len(Drop(q, n)) = Len(q) - n
      /\ \A i \in 1..Len(q) - n : Drop(q, n)[i] = q[n + i]
      /\ SubSeq(q, 1, n) \in Seq(S) /\ Len(SubSeq(q, 1, n)) = n
      /\ \A i \in 1..n : SubSeq(q, 1, n)[i] = q[i]
  <2>1. q \in Seq(S)
    BY <1>1, <1>S
  <2>2. /\ Drop(q, n) \in Seq(S) /\ Len(Drop(q, n)) = Len(q) - n
        /\ \A i \in 1..Len(q) - n : Drop(q, n)[i] = q[n + i]
    BY <2>1, DropIs
  <2>3. /\ SubSeq(q, 1, n) \in Seq(S) /\ Len(SubSeq(q, 1, n)) = n
        /\ \A i \in 1..n : SubSeq(q, 1, n)[i] = q[i]
    BY <2>1, DropIs
  <2> QED  BY <2>2, <2>3
<1>3. PICK a, b : a = Drop(q, n) /\ b = SubSeq(q, 1, n)
  OBVIOUS
<1>4. ASSUME NEW i \in 1..Len(a), NEW j \in 1..Len(a), i < j
      PROVE  a[i].fl = {} /\ a[i].seq + a[i].len <= a[j].seq
  <2>1. a[i] = q[n + i] /\ a[j] = q[n + j] /\ n + i \in 1..Len(q) /\ n + j \in 1..Len(q)
        /\ n + i < n + j
    BY <1>1, <1>2, <1>3, <1>4
  <2> QED  BY <2>1 DEF Ordered
<1>5. ASSUME NEW i \in 1..Len(b), NEW j \in 1..Len(b), i < j
      PROVE  b[i].fl = {} /\ b[i].seq + b[i].len <= b[j].seq
  <2>1. b[i] = q[i] /\ b[j] = q[j] /\ i \in 1..Len(q) /\ j \in 1..Len(q)
    BY <1>1, <1>2, <1>3
  <2> QED  BY <2>1, <1>5 DEF Ordered
<1> QED  BY <1>S, <1>2, <1>3, <1>4, <1>5 DEF Ordered

(* The first segment of an ordered queue has the least sequence number, and
   only the last one can hold the FIN. *)
LEMMA OrderedFirst ==
  ASSUME NEW lim \in Int, NEW d \in BOOLEAN, NEW q, Ordered(q, lim, d)
  PROVE  \A i \in 1..Len(q) : q[i] \in OSegs(lim, d) /\ q[1] \in OSegs(lim, d) /\ q[1].seq <= q[i].seq
                              /\ (i < Len(q) => q[i].fl = {})
<1> SUFFICES ASSUME NEW i \in 1..Len(q)
             PROVE  q[i] \in OSegs(lim, d) /\ q[1] \in OSegs(lim, d) /\ q[1].seq <= q[i].seq
                    /\ (i < Len(q) => q[i].fl = {})
  OBVIOUS
<1>1. q \in Seq(OSegs(lim, d)) /\ Len(q) \in Nat /\ 1 \in 1..Len(q) /\ Len(q) \in 1..Len(q)
  BY DEF Ordered
<1>2. q[i] \in OSegs(lim, d) /\ q[1] \in OSegs(lim, d)
  BY <1>1, ElementOfSeq
<1>3. q[1].seq \in Int /\ q[1].len \in Nat /\ q[i].seq \in Int
  BY <1>2, OSegIs
<1>4. 1 < i => q[1].seq + q[1].len <= q[i].seq
  BY <1>1 DEF Ordered
<1>5. i < Len(q) => q[i].fl = {}
  BY <1>1 DEF Ordered
<1> QED  BY <1>2, <1>3, <1>4, <1>5

(* One ordered queue after another. *)
LEMMA OrderedConcat ==
  ASSUME NEW lim \in Int, NEW d \in BOOLEAN, NEW a, NEW b, Ordered(a, lim, d), Ordered(b, lim, d),
         b # <<>> => \A i \in 1..Len(a) : a[i].fl = {} /\ a[i].seq + a[i].len <= b[1].seq
  PROVE  Ordered(a \o b, lim, d)
<1>1. /\ a \in Seq(OSegs(lim, d)) /\ b \in Seq(OSegs(lim, d))
      /\ Len(a) \in Nat /\ Len(b) \in Nat
  BY DEF Ordered
<1>c. PICK q : q = a \o b
  OBVIOUS
<1>2. /\ q \in Seq(OSegs(lim, d)) /\ Len(q) = Len(a) + Len(b)
      /\ \A i \in 1..Len(a) + Len(b) : q[i] = IF i <= Len(a) THEN a[i] ELSE b[i - Len(a)]
  BY <1>1, <1>c, ConcatProperties
<1>3. ASSUME NEW i \in 1..Len(q), NEW j \in 1..Len(q), i < j
      PROVE  q[i].fl = {} /\ q[i].seq + q[i].len <= q[j].seq
  <2>1. CASE j <= Len(a)
    <3>1. i \in 1..Len(a) /\ j \in 1..Len(a) /\ q[i] = a[i] /\ q[j] = a[j]
      BY <1>1, <1>2, <1>3, <2>1
    <3> QED  BY <3>1, <1>3 DEF Ordered
  <2>2. CASE i > Len(a)
    <3>1. /\ i - Len(a) \in 1..Len(b) /\ j - Len(a) \in 1..Len(b)
          /\ i - Len(a) < j - Len(a)
          /\ q[i] = b[i - Len(a)] /\ q[j] = b[j - Len(a)]
      BY <1>1, <1>2, <1>3, <2>2
    <3> QED  BY <3>1 DEF Ordered
  <2>3. CASE i <= Len(a) /\ j > Len(a)
    <3>1. /\ i \in 1..Len(a) /\ j - Len(a) \in 1..Len(b)
          /\ q[i] = a[i] /\ q[j] = b[j - Len(a)]
      BY <1>1, <1>2, <1>3, <2>3
    <3>2. b # <<>>
      BY <1>1, <3>1
    <3>3. a[i].fl = {} /\ a[i].seq + a[i].len <= b[1].seq
      BY <3>1, <3>2
    <3>4. /\ a[i] \in OSegs(lim, d) /\ b[1] \in OSegs(lim, d) /\ b[j - Len(a)] \in OSegs(lim, d)
          /\ b[1].seq <= b[j - Len(a)].seq
      BY <3>1, <1>1, OrderedFirst, ElementOfSeq
    <3>5. /\ a[i].seq + a[i].len \in Int /\ b[1].seq \in Int /\ b[j - Len(a)].seq \in Int
      <4>1. /\ a[i].seq \in Int /\ a[i].len \in Nat
        BY <3>4, OSegIs
      <4>2. b[1].seq \in Int
        BY <3>4, OSegIs
      <4>3. b[j - Len(a)].seq \in Int
        <5>1. PICK z : z = b[j - Len(a)]
          OBVIOUS
        <5>2. z \in OSegs(lim, d)
          BY <3>4, <5>1
        <5>3. z.seq \in Int
          BY <5>2, OSegIs
        <5> QED  BY <5>1, <5>3
      <4> QED  BY <4>1, <4>2, <4>3
    <3> QED  BY <3>1, <3>3, <3>4, <3>5
  <2> QED  BY <2>1, <2>2, <2>3, <1>1, <1>2
<1> QED  BY <1>2, <1>3, <1>c DEF Ordered

(* tcp_oos_insert_segment leaves an ordered queue that starts with s. *)
LEMMA OverlaidOrdered ==
  ASSUME NEW lim \in Int, NEW d \in BOOLEAN, NEW s \in OSegs(lim, d),
         NEW rest, Ordered(rest, lim, d),
         rest # <<>> => \/ s.seq < rest[1].seq
                        \/ s.seq = rest[1].seq /\ s.len > rest[1].len
  PROVE  /\ Ordered(Overlaid(s, rest), lim, d)
         /\ Overlaid(s, rest) # <<>> /\ Overlaid(s, rest)[1].seq = s.seq
<1> DEFINE T == {i \in Nat : s.seq + s.len >= rest[i].seq + rest[i].len}
           n == Lead(Len(rest), LAMBDA i : s.seq + s.len >= rest[i].seq + rest[i].len)
           fin == UNION {rest[i].fl : i \in 1..n}
           left == Drop(rest, n)
           len == IF left # <<>> /\ s.seq + s.len > Head(left).seq
                    THEN Head(left).seq - s.seq ELSE s.len
           t == [s EXCEPT !.len = len, !.fl = fin]
<1>1. rest \in Seq(OSegs(lim, d)) /\ Len(rest) \in Nat
  BY DEF Ordered
<1>2. /\ n \in 0..Len(rest)
      /\ \A j \in 1..n : s.seq + s.len >= rest[j].seq + rest[j].len
      /\ n < Len(rest) => ~(s.seq + s.len >= rest[n + 1].seq + rest[n + 1].len)
  <2>1. \A k \in 0..Len(rest) : \A j \in 1..k : j \in Nat
    BY <1>1
  <2>2. {k \in 0..Len(rest) : \A j \in 1..k : j \in T}
          = {k \in 0..Len(rest) : \A j \in 1..k : s.seq + s.len >= rest[j].seq + rest[j].len}
    BY <2>1
  <2>3. n = Max({k \in 0..Len(rest) : \A j \in 1..k : j \in T})
    BY <2>2 DEF Lead
  <2>4. n \in 0..Len(rest) /\ (\A j \in 1..n : j \in T) /\ (n < Len(rest) => n + 1 \notin T)
    <3> HIDE DEF T, n
    <3> QED  BY <1>1, <2>3, LeadMax
  <2> HIDE DEF n
  <2> QED  BY <1>1, <2>4
<1> HIDE DEF T, n
<1>3. /\ s.seq \in Int /\ s.len \in Nat /\ s.fl \in SUBSET {"FIN"}
      /\ s.fl = {} => s.len > 0
      /\ s.seq + s.len <= lim
      /\ s.fl # {} => d /\ s.seq + s.len = lim
      /\ s \in [seq : Int, len : Nat, fl : SUBSET {"FIN"}]
  BY DEF OSegs
<1>4. Overlaid(s, rest) = IF "FIN" \in s.fl THEN <<s>> ELSE <<t>> \o left
  BY DEF Overlaid, n
<1>5. CASE "FIN" \in s.fl
  <2>1. Overlaid(s, rest) = <<s>>
    BY <1>4, <1>5
  <2> QED  BY <2>1, OrderedOne, SingletonSeq
<1>6. CASE "FIN" \notin s.fl
  <2>0. s.fl = {} /\ s.len > 0
    BY <1>3, <1>6
  <2>1. /\ Ordered(left, lim, d)
        /\ (left = <<>>) = (n = Len(rest))
        /\ n < Len(rest) => Head(left) = rest[n + 1] /\ left[1] = rest[n + 1]
    <3>1. Ordered(left, lim, d)
      BY <1>2, OrderedSlices
    <3>2. /\ (left = <<>>) = (n = Len(rest))
          /\ n < Len(rest) => Head(left) = rest[n + 1]
      BY <1>1, <1>2, DropIs
    <3>3. n < Len(rest) => left[1] = rest[n + 1]
      <4>1. \A i \in 1..Len(rest) - n : left[i] = rest[n + i]
        BY <1>1, <1>2, DropIs
      <4>2. n < Len(rest) => 1 \in 1..Len(rest) - n
        BY <1>1, <1>2
      <4> HIDE DEF left
      <4> QED  BY <4>1, <4>2
    <3> QED  BY <3>1, <3>2, <3>3
  <2> HIDE DEF left
  <2>2. \A i \in 1..Len(rest) :
          /\ rest[i] \in OSegs(lim, d) /\ rest[1] \in OSegs(lim, d)
          /\ rest[1].seq <= rest[i].seq /\ (i < Len(rest) => rest[i].fl = {})
    BY OrderedFirst
  <2>3. ASSUME n < Len(rest)
        PROVE  /\ rest[n + 1].seq > s.seq /\ rest[n + 1].seq \in Int
               /\ rest[n + 1].seq <= lim
               /\ fin = {}
    <3>0. n + 1 \in 1..Len(rest) /\ rest # <<>> /\ 1 \in 1..Len(rest)
      BY <1>1, <1>2, <2>3
    <3>1. PICK z : z = rest[n + 1]
      OBVIOUS
    <3>2. PICK y : y = rest[1]
      OBVIOUS
    <3>3. y \in OSegs(lim, d) /\ z \in OSegs(lim, d) /\ y.seq <= z.seq
      BY <2>2, <3>0, <3>1, <3>2
    <3>4. /\ y.seq \in Int /\ y.len \in Nat /\ z.seq \in Int /\ z.len \in Nat /\ z.seq <= lim
          /\ (y.fl = {} => y.len > 0)
      BY <3>3, OSegIs
    <3>5. CASE n = 0
      <4>1. z = y /\ z = rest[1]
        BY <3>1, <3>2, <3>5
      <4>2. ~(s.seq + s.len >= z.seq + z.len)
        BY <1>2, <2>3, <3>1
      <4>3. s.seq < z.seq \/ (s.seq = z.seq /\ s.len > z.len)
        BY <3>0, <4>1
      <4>4. z.seq > s.seq
        BY <4>2, <4>3, <3>4, <1>3
      <4>5. fin = {}
        BY <3>5
      <4> QED  BY <3>1, <3>4, <4>4, <4>5
    <3>6. CASE n > 0
      <4>1. 1 < n + 1 /\ 1 < Len(rest)
        BY <1>1, <1>2, <2>3, <3>6
      <4>2. y.fl = {} /\ y.seq + y.len <= z.seq
        BY <3>0, <3>1, <3>2, <4>1 DEF Ordered
      <4>3. s.seq <= y.seq
        BY <3>0, <3>2, <3>4, <1>3
      <4>4. z.seq > s.seq
        BY <4>2, <4>3, <3>4, <1>3
      <4>5. \A i \in 1..n : rest[i].fl = {}
        BY <1>1, <1>2, <2>2, <2>3
      <4>6. fin = {}
        BY <4>5
      <4> QED  BY <3>1, <3>4, <4>4, <4>6
    <3> QED  BY <1>2, <3>5, <3>6
  <2>4. /\ t \in OSegs(lim, d) /\ t.seq = s.seq
        /\ left # <<>> => t.fl = {} /\ t.seq + t.len <= left[1].seq
    <3>1. CASE left # <<>>
      <4>1. n < Len(rest) /\ Head(left) = rest[n + 1] /\ left[1] = rest[n + 1]
        BY <1>1, <1>2, <2>1, <3>1
      <4>2. PICK h : h = rest[n + 1].seq
        OBVIOUS
      <4>3. h \in Int /\ h > s.seq /\ h <= lim /\ fin = {}
        BY <2>3, <4>1, <4>2
      <4>4. len = IF s.seq + s.len > h THEN h - s.seq ELSE s.len
        BY <3>1, <4>1, <4>2
      <4>5. PICK m : m = len
        OBVIOUS
      <4>6. m \in Nat /\ m > 0 /\ s.seq + m <= h
        BY <4>3, <4>4, <4>5, <1>3, <2>0
      <4>7. t = [s EXCEPT !.len = m, !.fl = {}]
        BY <4>3, <4>5
      <4>8. t.seq = s.seq /\ t.len = m /\ t.fl = {}
            /\ t \in [seq : Int, len : Nat, fl : SUBSET {"FIN"}]
        BY <4>6, <4>7, <1>3
      <4>9. left[1].seq = h
        BY <4>1, <4>2
      <4> HIDE DEF t
      <4> QED  BY <4>3, <4>6, <4>8, <4>9, <1>3 DEF OSegs
    <3>2. CASE left = <<>>
      <4>1. n = Len(rest)
        BY <2>1, <3>2
      <4>2. len = s.len
        BY <3>2
      <4>3. fin \in SUBSET {"FIN"}
        <5>1. \A i \in 1..n : rest[i] \in OSegs(lim, d)
          BY <2>2, <4>1
        <5>2. \A i \in 1..n : rest[i].fl \in SUBSET {"FIN"}
          BY <5>1 DEF OSegs
        <5> QED  BY <5>2
      <4>4. fin # {} => d /\ s.seq + s.len = lim
        <5> SUFFICES ASSUME fin # {} PROVE d /\ s.seq + s.len = lim
          OBVIOUS
        <5>1. PICK i \in 1..n : rest[i].fl # {}
          OBVIOUS
        <5>2. PICK z : z = rest[i]
          OBVIOUS
        <5>3. z \in OSegs(lim, d) /\ s.seq + s.len >= z.seq + z.len /\ z.fl # {}
          BY <1>2, <2>2, <4>1, <5>1, <5>2
        <5>4. z.seq + z.len = lim /\ d
          BY <5>3, OSegIs
        <5> QED  BY <5>3, <5>4, <1>3
      <4>5. PICK f : f = fin
        OBVIOUS
      <4>6. t = [s EXCEPT !.len = s.len, !.fl = f]
        BY <4>2, <4>5
      <4>7. /\ t.seq = s.seq /\ t.len = s.len /\ t.fl = f
            /\ t \in [seq : Int, len : Nat, fl : SUBSET {"FIN"}]
        BY <4>3, <4>5, <4>6, <1>3
      <4>8. f # {} => d /\ s.seq + s.len = lim
        BY <4>4, <4>5
      <4> HIDE DEF t
      <4>9. t \in OSegs(lim, d)
        BY <4>7, <4>8, <1>3, <2>0 DEF OSegs
      <4> QED  BY <3>2, <4>7, <4>9
    <3> QED  BY <3>1, <3>2
  <2>5. PICK u : u = t
    OBVIOUS
  <2>6. Overlaid(s, rest) = <<u>> \o left
    BY <1>4, <1>6, <2>5
  <2>7. u \in OSegs(lim, d) /\ u.seq = s.seq
        /\ (left # <<>> => u.fl = {} /\ u.seq + u.len <= left[1].seq)
    BY <2>4, <2>5
  <2>8. Ordered(<<u>>, lim, d) /\ <<u>> \in Seq(OSegs(lim, d)) /\ Len(<<u>>) = 1 /\ <<u>>[1] = u
    BY <2>7, OrderedOne, SingletonSeq
  <2>9. left # <<>> => \A i \in 1..Len(<<u>>) :
            <<u>>[i].fl = {} /\ <<u>>[i].seq + <<u>>[i].len <= left[1].seq
    BY <2>7, <2>8
  <2>10. Ordered(<<u>> \o left, lim, d)
    BY <2>1, <2>8, <2>9, OrderedConcat
  <2>11. (<<u>> \o left)[1] = u /\ <<u>> \o left # <<>>
    <3>1. left \in Seq(OSegs(lim, d)) /\ Len(left) \in Nat
      BY <2>1 DEF Ordered
    <3>2. 1 \in 1..1 + Len(left) /\ Len(<<u>> \o left) = 1 + Len(left)
          /\ (<<u>> \o left)[1] = <<u>>[1]
      BY <3>1, <2>8, ConcatProperties
    <3> QED  BY <3>1, <3>2, <2>8
  <2> QED  BY <2>6, <2>7, <2>10, <2>11
<1> QED  BY <1>5, <1>6

(* The segment before s, which starts earlier, is cut where s begins. *)
LEMMA CutAtIs ==
  ASSUME NEW lim \in Int, NEW d \in BOOLEAN, NEW z \in OSegs(lim, d), z.fl = {},
         NEW n \in Int, z.seq < n
  PROVE  /\ CutAt(z, n) \in OSegs(lim, d) /\ CutAt(z, n).seq = z.seq
         /\ CutAt(z, n).fl = {} /\ CutAt(z, n).seq + CutAt(z, n).len <= n
<1>1. /\ z \in [seq : Int, len : Nat, fl : SUBSET {"FIN"}] /\ z.len > 0
      /\ z.seq + z.len <= lim
  BY DEF OSegs
<1>2. PICK m : m = IF z.seq + z.len > n THEN n - z.seq ELSE z.len
  OBVIOUS
<1>3. m \in Nat /\ m > 0 /\ z.seq + m <= n /\ m <= z.len
  BY <1>1, <1>2
<1>4. CutAt(z, n) = [z EXCEPT !.len = m]
  BY <1>2 DEF CutAt
<1>5. PICK u : u = CutAt(z, n)
  OBVIOUS
<1>6. u.seq = z.seq /\ u.len = m /\ u.fl = {}
      /\ u \in [seq : Int, len : Nat, fl : SUBSET {"FIN"}]
  BY <1>1, <1>3, <1>4, <1>5
<1>7. u \in OSegs(lim, d)
  BY <1>1, <1>3, <1>6 DEF OSegs
<1> QED  BY <1>3, <1>5, <1>6, <1>7

(* What the front of an ordered queue, its last segment cut where b begins,
   and b make. *)
LEMMA OrderedWithCut ==
  ASSUME NEW lim \in Int, NEW d \in BOOLEAN, NEW q, Ordered(q, lim, d),
         NEW n \in 1..Len(q), q[n].fl = {},
         NEW b, Ordered(b, lim, d), b # <<>>, q[n].seq < b[1].seq,
         NEW v, v = b[1].seq
  PROVE  /\ Ordered(SubSeq(q, 1, n - 1) \o <<CutAt(q[n], v)>> \o b, lim, d)
         /\ (SubSeq(q, 1, n - 1) \o <<CutAt(q[n], v)>> \o b)[1].seq = q[1].seq
<1>1. q \in Seq(OSegs(lim, d)) /\ Len(q) \in Nat /\ 1 \in 1..Len(b) /\ b \in Seq(OSegs(lim, d))
  BY DEF Ordered
<1>a. PICK a : a = SubSeq(q, 1, n - 1)
  OBVIOUS
<1>z. PICK z : z = q[n]
  OBVIOUS
<1>2. z \in OSegs(lim, d) /\ z.fl = {} /\ v \in Int /\ z.seq < v
  <2>1. b[1] \in OSegs(lim, d)
    BY <1>1, OrderedFirst
  <2>2. b[1].seq \in Int
    BY <2>1, OSegIs
  <2> QED  BY <1>z, <2>2, OrderedFirst
<1>u. PICK u : u = CutAt(z, v)
  OBVIOUS
<1>3. u \in OSegs(lim, d) /\ u.seq = z.seq /\ u.fl = {} /\ u.seq + u.len <= v
  BY <1>2, <1>u, CutAtIs
<1>4. /\ Ordered(a, lim, d) /\ Len(a) = n - 1 /\ a \in Seq(OSegs(lim, d))
      /\ \A i \in 1..n - 1 : a[i] = q[i]
  <2>1. PICK m \in 0..Len(q) : m = n - 1
    BY <1>1
  <2>2. Ordered(SubSeq(q, 1, m), lim, d)
    BY OrderedSlices
  <2>3. Len(SubSeq(q, 1, m)) = m /\ \A i \in 1..m : SubSeq(q, 1, m)[i] = q[i]
    BY <1>1, DropIs
  <2> QED  BY <1>a, <2>1, <2>2, <2>3 DEF Ordered
<1>5. Ordered(<<u>>, lim, d) /\ <<u>> # <<>> /\ Len(<<u>>) = 1 /\ <<u>>[1] = u
      /\ <<u>> \in Seq(OSegs(lim, d))
  BY <1>3, OrderedOne, SingletonSeq
<1>6. \A i \in 1..n - 1 : q[i].fl = {} /\ q[i].seq + q[i].len <= z.seq
  BY <1>1, <1>z, SMTT(30) DEF Ordered
<1>7. Ordered(a \o <<u>>, lim, d)
  <2>1. \A i \in 1..Len(a) : a[i].fl = {} /\ a[i].seq + a[i].len <= <<u>>[1].seq
    BY <1>3, <1>4, <1>5, <1>6
  <2> QED  BY <1>4, <1>5, <2>1, OrderedConcat
<1>8. PICK e : e = a \o <<u>>
  OBVIOUS
<1>9. /\ Len(e) = n /\ e \in Seq(OSegs(lim, d))
      /\ \A i \in 1..n : e[i] = IF i <= n - 1 THEN q[i] ELSE u
  <2>1. /\ e \in Seq(OSegs(lim, d)) /\ Len(e) = (n - 1) + 1
        /\ \A i \in 1..(n - 1) + 1 : e[i] = IF i <= n - 1 THEN a[i] ELSE <<u>>[i - (n - 1)]
    BY <1>4, <1>5, <1>8, ConcatProperties
  <2>2. (n - 1) + 1 = n /\ n - (n - 1) = 1
    OBVIOUS
  <2> QED  BY <2>1, <2>2, <1>4, <1>5
<1>10. \A i \in 1..Len(e) : e[i].fl = {} /\ e[i].seq + e[i].len <= b[1].seq
  <2> SUFFICES ASSUME NEW i \in 1..n PROVE e[i].fl = {} /\ e[i].seq + e[i].len <= v
    BY <1>9
  <2>1. CASE i <= n - 1
    <3>1. PICK y : y = q[i]
      OBVIOUS
    <3>2. i \in 1..n - 1 /\ i \in 1..Len(q)
      BY <1>1, <2>1
    <3>3. y \in OSegs(lim, d) /\ y.fl = {} /\ y.seq + y.len <= z.seq
      BY <1>6, <3>1, <3>2, OrderedFirst
    <3>4. y.seq \in Int /\ y.len \in Nat /\ z.seq \in Int
      BY <3>3, <1>2, OSegIs
    <3>5. y.seq + y.len <= v
      BY <3>3, <3>4, <1>2
    <3> QED  BY <1>9, <2>1, <3>1, <3>3, <3>5
  <2>2. CASE ~(i <= n - 1)
    BY <1>3, <1>9, <2>2
  <2> QED  BY <2>1, <2>2
<1>11. Ordered(e \o b, lim, d)
  BY <1>7, <1>8, <1>10, OrderedConcat
<1>12. (e \o b)[1] = e[1]
  <2>1. 1 \in 1..n + Len(b) /\ Len(b) \in Nat
    BY <1>1
  <2> QED  BY <2>1, <1>1, <1>9, ConcatProperties
<1>13. e[1].seq = q[1].seq
  <2>1. CASE n = 1
    BY <2>1, <1>9, <1>3, <1>z
  <2>2. CASE n > 1
    BY <2>2, <1>9
  <2> QED  BY <2>1, <2>2
<1>14. SubSeq(q, 1, n - 1) \o <<CutAt(q[n], v)>> \o b = e \o b
  BY <1>a, <1>u, <1>z, <1>8
<1> QED  BY <1>11, <1>12, <1>13, <1>14

(* tcp_receive puts a segment out of order: the queue stays ordered, and its
   head is the old one or s. *)
LEMMA InsertOoseqOrdered ==
  ASSUME NEW lim \in Int, NEW d \in BOOLEAN, NEW q, Ordered(q, lim, d),
         NEW s \in OSegs(lim, d), NEW nxt \in Int, s.seq > nxt,
         q # <<>> => q[1].seq > nxt
  PROVE  /\ Ordered(InsertOoseq(q, s), lim, d)
         /\ InsertOoseq(q, s) # <<>> => InsertOoseq(q, s)[1].seq > nxt
<1> DEFINE T == {i \in Nat : q[i].seq < s.seq}
           n == Lead(Len(q), LAMBDA i : q[i].seq < s.seq)
           front == SubSeq(q, 1, n - 1)
           rest  == Drop(q, n)
           r == InsertOoseq(q, s)
           same   == SubSeq(q, 1, n) \o Overlaid(s, rest)
           first  == Overlaid(s, q)
           last   == front \o <<CutAt(q[n], s.seq), s>>
           middle == front \o <<CutAt(q[n], s.seq)>> \o Overlaid(s, rest)
<1>1. q \in Seq(OSegs(lim, d)) /\ Len(q) \in Nat
  BY DEF Ordered
<1>2. /\ n \in 0..Len(q)
      /\ \A j \in 1..n : q[j].seq < s.seq
      /\ n < Len(q) => ~(q[n + 1].seq < s.seq)
  <2>1. \A k \in 0..Len(q) : \A j \in 1..k : j \in Nat
    BY <1>1
  <2>2. {k \in 0..Len(q) : \A j \in 1..k : j \in T}
          = {k \in 0..Len(q) : \A j \in 1..k : q[j].seq < s.seq}
    BY <2>1
  <2>3. n = Max({k \in 0..Len(q) : \A j \in 1..k : j \in T})
    BY <2>2 DEF Lead
  <2>4. n \in 0..Len(q) /\ (\A j \in 1..n : j \in T) /\ (n < Len(q) => n + 1 \notin T)
    <3> HIDE DEF T, n
    <3> QED  BY <1>1, <2>3, LeadMax
  <2> HIDE DEF n
  <2> QED  BY <1>1, <2>4
<1>0. r = IF rest # <<>> /\ Head(rest).seq = s.seq
            THEN IF s.len > Head(rest).len THEN same ELSE q
          ELSE IF n = 0 THEN first
          ELSE IF rest # <<>> THEN middle
          ELSE IF "FIN" \in q[n].fl THEN q ELSE last
  BY DEF InsertOoseq
<1> SUFFICES Ordered(r, lim, d) /\ (r # <<>> => r[1].seq > nxt)
  BY DEF r
<1> HIDE DEF T, n, r, front, rest, same, first, last, middle
<1>3. /\ rest # <<>> /\ Head(rest).seq = s.seq =>
           r = IF s.len > Head(rest).len THEN same ELSE q
      /\ ~(rest # <<>> /\ Head(rest).seq = s.seq) /\ n = 0 => r = first
      /\ n > 0 /\ rest = <<>> => r = IF "FIN" \in q[n].fl THEN q ELSE last
      /\ ~(rest # <<>> /\ Head(rest).seq = s.seq) /\ n # 0 /\ ~(n > 0 /\ rest = <<>>) => r = middle
  <2>1. n \in Nat
    BY <1>1, <1>2
  <2> QED  BY <1>0, <2>1
<1> USE DEF rest
<1>4. /\ Ordered(rest, lim, d) /\ Ordered(SubSeq(q, 1, n), lim, d)
      /\ (rest = <<>>) = (n = Len(q))
      /\ n < Len(q) => Head(rest) = q[n + 1] /\ rest[1] = q[n + 1] /\ q[n + 1].seq >= s.seq
                       /\ q[n + 1].seq \in Int
      /\ Len(SubSeq(q, 1, n)) = n
      /\ \A i \in 1..n : SubSeq(q, 1, n)[i] = q[i]
  <2>1. Ordered(rest, lim, d) /\ Ordered(SubSeq(q, 1, n), lim, d)
    BY <1>2, OrderedSlices
  <2>2. /\ (rest = <<>>) = (n = Len(q))
        /\ n < Len(q) => Head(rest) = q[n + 1]
        /\ \A i \in 1..Len(q) - n : rest[i] = q[n + i]
    BY <1>1, <1>2, DropIs
  <2>3. /\ Len(SubSeq(q, 1, n)) = n
        /\ \A i \in 1..n : SubSeq(q, 1, n)[i] = q[i]
    BY <1>1, <1>2, DropIs
  <2> HIDE DEF rest
  <2>4. n < Len(q) => rest[1] = q[n + 1] /\ n + 1 \in 1..Len(q)
    BY <2>2, <1>1, <1>2
  <2>5. n < Len(q) => q[n + 1].seq \in Int
    <3>1. PICK z : z = q[n + 1]
      OBVIOUS
    <3>2. n < Len(q) => z \in OSegs(lim, d)
      BY <2>4, <3>1, OrderedFirst
    <3>3. n < Len(q) => z.seq \in Int
      BY <3>2, OSegIs
    <3> QED  BY <3>1, <3>3
  <2>6. n < Len(q) => q[n + 1].seq >= s.seq
    BY <1>2, <2>5, OSegIs
  <2> QED  BY <2>1, <2>2, <2>3, <2>4, <2>5, <2>6
<1> HIDE DEF rest
<1>5. /\ s.seq \in Int
      /\ \A i \in 1..Len(q) : q[i] \in OSegs(lim, d) /\ (i < Len(q) => q[i].fl = {})
      /\ \A i \in 1..Len(q) : q[i].seq \in Int
  BY OrderedFirst, OSegIs
<1>6. r = q => Ordered(r, lim, d) /\ (r # <<>> => r[1].seq > nxt)
  OBVIOUS
<1>7. CASE rest # <<>> /\ Head(rest).seq = s.seq
  <2>1. CASE ~(s.len > Head(rest).len)
    <3>1. r = q
      BY <1>3, <1>7, <2>1
    <3> QED  BY <1>6, <3>1
  <2>2. CASE s.len > Head(rest).len
    <3>0. n < Len(q) /\ rest[1] = Head(rest)
      BY <1>2, <1>4, <1>7
    <3>a. PICK a : a = SubSeq(q, 1, n)
      OBVIOUS
    <3>b. PICK b : b = Overlaid(s, rest)
      OBVIOUS
    <3>1. r = a \o b
      BY <1>3, <1>7, <2>2, <3>a, <3>b DEF same
    <3>2. Ordered(b, lim, d) /\ b # <<>> /\ b[1].seq = s.seq
      BY <1>4, <1>7, <2>2, <3>0, <3>b, OverlaidOrdered
    <3>3. q[n + 1].seq = s.seq
      BY <1>4, <1>7, <3>0
    <3>4. \A i \in 1..Len(a) : a[i].fl = {} /\ a[i].seq + a[i].len <= b[1].seq
      <4> SUFFICES ASSUME NEW i \in 1..n PROVE q[i].fl = {} /\ q[i].seq + q[i].len <= q[n + 1].seq
        BY <1>4, <3>a, <3>2, <3>3
      <4>1. i \in 1..Len(q) /\ n + 1 \in 1..Len(q) /\ i < n + 1
        BY <1>1, <1>2, <3>0
      <4> QED  BY <4>1 DEF Ordered
    <3>5. Ordered(r, lim, d)
      <4>1. Ordered(a, lim, d)
        BY <1>4, <3>a
      <4>2. Ordered(a \o b, lim, d)
        BY <4>1, <3>2, <3>4, OrderedConcat
      <4> QED  BY <3>1, <4>2
    <3>6. r # <<>> => r[1].seq > nxt
      <4>1. /\ a \in Seq(OSegs(lim, d)) /\ b \in Seq(OSegs(lim, d)) /\ Len(b) \in Nat \ {0}
            /\ Len(a) = n /\ n \in Nat
        BY <1>1, <1>2, <1>4, <3>a, <3>2 DEF Ordered
      <4>2. r[1] = IF 1 <= n THEN a[1] ELSE b[1 - n]
        BY <3>1, <4>1, ConcatProperties
      <4>3. CASE n = 0
        BY <4>2, <4>3, <3>2
      <4>4. CASE n > 0
        <5>1. r[1] = q[1] /\ q # <<>>
          BY <4>2, <4>4, <4>1, <1>4, <1>2, <3>a
        <5> QED  BY <5>1
      <4> QED  BY <4>1, <4>3, <4>4
    <3> QED  BY <3>5, <3>6
  <2> QED  BY <2>1, <2>2
<1>8. CASE ~(rest # <<>> /\ Head(rest).seq = s.seq) /\ n = 0
  <2>1. r = Overlaid(s, q)
    BY <1>3, <1>4, <1>8 DEF first
  <2>2. q # <<>> => s.seq < q[1].seq
    <3> SUFFICES ASSUME q # <<>> PROVE s.seq < q[1].seq
      OBVIOUS
    <3>1. n < Len(q) /\ n + 1 = 1
      BY <1>1, <1>8
    <3> QED  BY <3>1, <1>4, <1>5, <1>8
  <2> QED  BY <2>1, <2>2, OverlaidOrdered
<1>9. CASE n > 0 /\ rest = <<>>
  <2>0. n = Len(q) /\ n \in 1..Len(q) /\ q # <<>>
    BY <1>1, <1>4, <1>9
  <2>1. CASE "FIN" \in q[n].fl
    <3>1. r = q
      BY <1>3, <1>9, <2>1
    <3> QED  BY <1>6, <3>1
  <2>2. CASE "FIN" \notin q[n].fl
    <3>1. r = front \o <<CutAt(q[n], s.seq), s>>
      BY <1>3, <1>9, <2>2 DEF last
    <3>b. PICK b : b = <<s>>
      OBVIOUS
    <3>2. Ordered(b, lim, d) /\ b # <<>> /\ b[1].seq = s.seq /\ b \in Seq(OSegs(lim, d))
      BY <3>b, OrderedOne, SingletonSeq
    <3>3. q[n].fl = {} /\ q[n].seq < b[1].seq
      <4>1. q[n] \in OSegs(lim, d)
        BY <1>5, <2>0
      <4>2. q[n].fl \in SUBSET {"FIN"}
        BY <4>1, OSegIs
      <4> QED  BY <1>2, <2>0, <2>2, <3>2, <4>2
    <3>4. PICK v : v = s.seq
      OBVIOUS
    <3>5. /\ Ordered(SubSeq(q, 1, n - 1) \o <<CutAt(q[n], v)>> \o b, lim, d)
          /\ (SubSeq(q, 1, n - 1) \o <<CutAt(q[n], v)>> \o b)[1].seq = q[1].seq
      BY <2>0, <3>2, <3>3, <3>4, OrderedWithCut
    <3>6. r = SubSeq(q, 1, n - 1) \o <<CutAt(q[n], v)>> \o b
      <4>1. PICK u : u = CutAt(q[n], v)
        OBVIOUS
      <4>2. u \in OSegs(lim, d)
        <5>1. PICK z : z = q[n]
          OBVIOUS
        <5>2. z \in OSegs(lim, d) /\ z.fl = {} /\ v \in Int /\ z.seq < v
          BY <1>5, <2>0, <3>2, <3>3, <3>4, <5>1
        <5> QED  BY <4>1, <5>1, <5>2, CutAtIs
      <4>3. front \in Seq(OSegs(lim, d))
        <5>1. PICK m \in 0..Len(q) : m = n - 1
          BY <1>1, <2>0
        <5>2. SubSeq(q, 1, m) \in Seq(OSegs(lim, d))
          BY <1>1, DropIs
        <5> QED  BY <5>1, <5>2 DEF front
      <4>4. PICK S : S = OSegs(lim, d)
        OBVIOUS
      <4>5. front \o <<u, s>> = front \o <<u>> \o <<s>>
        BY <4>2, <4>3, <4>4
      <4> QED  BY <3>1, <3>4, <3>b, <4>1, <4>5 DEF front
    <3> QED  BY <2>0, <3>5, <3>6
  <2> QED  BY <2>1, <2>2
<1>10. CASE ~(rest # <<>> /\ Head(rest).seq = s.seq) /\ n # 0 /\ ~(n > 0 /\ rest = <<>>)
  <2>0. rest # <<>> /\ n < Len(q) /\ n \in 1..Len(q) /\ n + 1 \in 1..Len(q)
        /\ rest[1].seq > s.seq /\ q # <<>>
    BY <1>1, <1>2, <1>4, <1>5, <1>10
  <2>b. PICK b : b = Overlaid(s, rest)
    OBVIOUS
  <2>v. PICK v : v = s.seq
    OBVIOUS
  <2>1. r = SubSeq(q, 1, n - 1) \o <<CutAt(q[n], v)>> \o b
    <3>1. ~(rest # <<>> /\ Head(rest).seq = s.seq) /\ n # 0 /\ ~(n > 0 /\ rest = <<>>)
      BY <1>10
    <3>2. r = front \o <<CutAt(q[n], s.seq)>> \o Overlaid(s, rest)
      BY <1>3, <3>1 DEF middle
    <3> QED  BY <3>2, <2>b, <2>v DEF front
  <2>2. Ordered(b, lim, d) /\ b # <<>> /\ b[1].seq = s.seq
    BY <1>4, <1>5, <2>0, <2>b, OverlaidOrdered
  <2>3. q[n].fl = {} /\ q[n].seq < b[1].seq
    BY <1>2, <1>5, <2>0, <2>2
  <2>5. /\ Ordered(SubSeq(q, 1, n - 1) \o <<CutAt(q[n], v)>> \o b, lim, d)
        /\ (SubSeq(q, 1, n - 1) \o <<CutAt(q[n], v)>> \o b)[1].seq = q[1].seq
    BY <2>0, <2>2, <2>3, <2>v, OrderedWithCut
  <2> QED  BY <2>0, <2>1, <2>5
<1>11. n \in Nat
  BY <1>1, <1>2
<1> QED  BY <1>7, <1>8, <1>9, <1>10, <1>11

-----------------------------------------------------------------------------
(* A segment in order: bytes move to recv_data *)

(* The numbers from, from + 1, and so on. *)
IsRun(t, from) == \A i \in 1..Len(t) : t[i] = from + i - 1

(* Two adjoining runs of bytes are one run. *)
LEMMA RunConcat ==
  ASSUME NEW a \in Seq(Int), NEW b \in Seq(Int), NEW from \in Int, NEW then \in Int,
         IsRun(a, from), IsRun(b, then), then = from + Len(a)
  PROVE  /\ a \o b \in Seq(Int) /\ IsRun(a \o b, from) /\ Len(a \o b) = Len(a) + Len(b)
<1>1. Len(a) \in Nat /\ Len(b) \in Nat
  OBVIOUS
<1>2. /\ a \o b \in Seq(Int) /\ Len(a \o b) = Len(a) + Len(b)
      /\ \A i \in 1..Len(a) + Len(b) : (a \o b)[i] = IF i <= Len(a) THEN a[i] ELSE b[i - Len(a)]
  BY ConcatProperties
<1>3. ASSUME NEW i \in 1..Len(a) + Len(b)
      PROVE  (a \o b)[i] = from + i - 1
  <2>1. CASE i <= Len(a)
    <3>1. i \in 1..Len(a) /\ (a \o b)[i] = a[i]
      BY <1>1, <1>2, <2>1
    <3> QED  BY <3>1 DEF IsRun
  <2>2. CASE i > Len(a)
    <3>1. i - Len(a) \in 1..Len(b) /\ (a \o b)[i] = b[i - Len(a)]
      BY <1>1, <1>2, <2>2
    <3>2. b[i - Len(a)] = then + (i - Len(a)) - 1
      BY <3>1 DEF IsRun
    <3> QED  BY <1>1, <3>1, <3>2
  <2> QED  BY <1>1, <2>1, <2>2
<1> QED  BY <1>2, <1>3 DEF IsRun

(* The bytes of a segment are the run from its sequence number. *)
LEMMA BytesAre ==
  ASSUME NEW s, s.seq \in Int, s.len \in Nat
  PROVE  /\ Bytes(s) \in Seq(Int) /\ IsRun(Bytes(s), s.seq) /\ Len(Bytes(s)) = s.len
<1>1. PICK n \in Nat : n = s.len
  OBVIOUS
<1>2. PICK b : b = [i \in 1..n |-> s.seq + i - 1]
  OBVIOUS
<1>3. \A i \in 1..n : b[i] \in Int /\ b[i] = s.seq + i - 1
  BY <1>2
<1>4. b \in Seq(Int) /\ Len(b) = n
  BY <1>2, <1>3
<1>5. Bytes(s) = b
  BY <1>1, <1>2 DEF Bytes
<1> QED  BY <1>1, <1>3, <1>4, <1>5 DEF IsRun

(* No bytes are a run from anywhere. *)
LEMMA RunEmpty ==
  ASSUME NEW from
  PROVE  <<>> \in Seq(Int) /\ IsRun(<<>>, from) /\ Len(<<>>) = 0
<1>1. <<>> \in Seq(Int) /\ Len(<<>>) = 0
  BY EmptySeq
<1> QED  BY <1>1 DEF IsRun

(* The lesser of two numbers. *)
LEMMA LesserIs ==
  ASSUME NEW a \in Int, NEW b \in Int
  PROVE  Lesser(a, b) \in Int /\ Lesser(a, b) <= a /\ Lesser(a, b) <= b
         /\ (a <= b => Lesser(a, b) = a) /\ (b <= a => Lesser(a, b) = b)
BY DEF Lesser

(* The announced window is a number. *)
LEMMA AnnWndInt ==
  ASSUME NEW p, p.rcv_nxt \in Int, p.rcv_wnd \in Int, p.rcv_ann_right_edge \in Int
  PROVE  AnnWnd(p) \in Int
BY DEF AnnWnd

ConsumeFields == {"rcv_nxt", "rcv_wnd", "rcv_ann_wnd"}

(* Taking n bytes from the window moves rcv_nxt by n and rcv_wnd, an
   unsigned 16-bit field, back by n. *)
LEMMA ConsumeChanges ==
  ASSUME NEW p, DOMAIN p = Fields, p.rcv_nxt \in Int, p.rcv_wnd \in Int,
         p.rcv_ann_right_edge \in Int, NEW n \in Int
  PROVE  /\ Changes(p, Consume(p, n), ConsumeFields)
         /\ Consume(p, n).rcv_nxt = p.rcv_nxt + n
         /\ Consume(p, n).rcv_wnd = (p.rcv_wnd - n) % U16
         /\ Consume(p, n).rcv_wnd \in Nat /\ Consume(p, n).rcv_ann_wnd \in Int
<1> DEFINE q == [p EXCEPT !.rcv_nxt = @ + n, !.rcv_wnd = (@ - n) % U16]
           r == Consume(p, n)
<1>1. U16 \in Nat \ {0}
  BY OutAssumption, WndAssumption
<1>2. /\ Changes(p, q, {"rcv_nxt", "rcv_wnd"})
      /\ q.rcv_nxt = p.rcv_nxt + n /\ q.rcv_wnd = (p.rcv_wnd - n) % U16
      /\ q.rcv_ann_right_edge = p.rcv_ann_right_edge
  BY FieldsAre DEF Changes
<1>3. r = [q EXCEPT !.rcv_ann_wnd = AnnWnd(q)]
  BY DEF Consume, UpdateRcvAnnWnd
<1> HIDE DEF q, r
<1>4. q.rcv_wnd \in Nat /\ q.rcv_nxt \in Int
  BY <1>1, <1>2
<1>5. AnnWnd(q) \in Int
  BY <1>2, <1>4, AnnWndInt
<1>6. Changes(q, r, {"rcv_ann_wnd"}) /\ r.rcv_ann_wnd = AnnWnd(q)
  BY <1>2, <1>3, FieldsAre DEF Changes
<1>7. Changes(p, r, ConsumeFields) /\ r.rcv_nxt = q.rcv_nxt /\ r.rcv_wnd = q.rcv_wnd
  BY <1>2, <1>6, FieldsAre DEF Changes, ConsumeFields
<1> QED  BY <1>2, <1>4, <1>5, <1>6, <1>7 DEF r

(* The right edge of the receive buffer. *)
Edge(p) == p.rcv_nxt + p.rcv_wnd

(* The buffer of a block whose peer has written up to lim ends at e, and while
   the peer's FIN has not come nothing beyond it was or will be announced.  Or
   the FIN was taken though the buffer was full of what came before it, and
   rcv_wnd has wrapped. *)
Edged(p, e, lim) ==
  \/ /\ p.rcv_wnd <= TCP_WND /\ Edge(p) = e
     /\ p.rcv_nxt <= lim => p.rcv_ann_right_edge <= e /\ p.rcv_ann_wnd <= p.rcv_wnd
  \/ p.rcv_nxt = lim + 1 /\ e = lim /\ p.rcv_wnd = U16 - 1

(* The announced window lies within the buffer. *)
LEMMA AnnWndFits ==
  ASSUME NEW p, p.rcv_nxt \in Int, p.rcv_wnd \in Nat, p.rcv_ann_right_edge \in Int,
         p.rcv_ann_right_edge <= Edge(p)
  PROVE  AnnWnd(p) <= p.rcv_wnd
BY DEF AnnWnd, Edge

(* What announces the window, or does not, moves no edge. *)
LEMMA EdgeKept ==
  ASSUME NEW e \in Int, NEW lim \in Int,
         NEW p, Edged(p, e, lim), p.rcv_nxt \in Int, p.rcv_wnd \in Nat, p.rcv_ann_wnd \in Int,
         NEW q, NEW S, Changes(p, q, S), S \cap ConsumeFields = {},
         q.rcv_ann_right_edge \in {p.rcv_ann_right_edge, p.rcv_nxt + p.rcv_ann_wnd}
  PROVE  Edged(q, e, lim) /\ Edge(q) = Edge(p)
<1>1. q.rcv_nxt = p.rcv_nxt /\ q.rcv_wnd = p.rcv_wnd /\ q.rcv_ann_wnd = p.rcv_ann_wnd
  BY FieldsAre DEF Changes, ConsumeFields
<1> QED  BY <1>1 DEF Edged, Edge

(* Taking n bytes that the peer wrote leaves the edge of the buffer where it
   is.  Only its FIN may be beyond, and then rcv_wnd wraps. *)
LEMMA ConsumeEdge ==
  ASSUME NEW e \in Int, NEW lim \in Int, lim <= e,
         NEW p, Edged(p, e, lim), DOMAIN p = Fields, p.rcv_nxt \in Int, p.rcv_wnd \in Nat,
         p.rcv_ann_right_edge \in Int, p.rcv_nxt <= lim,
         NEW n \in Nat, p.rcv_nxt + n <= lim + 1
  PROVE  Edged(Consume(p, n), e, lim)
<1>m. PICK m \in Nat : m = (p.rcv_wnd - n) % U16
  BY OutAssumption, WndAssumption
<1>q. PICK q : q = [p EXCEPT !.rcv_nxt = @ + n, !.rcv_wnd = m]
  OBVIOUS
<1>r. PICK r : r = [q EXCEPT !.rcv_ann_wnd = AnnWnd(q)]
  OBVIOUS
<1>1. /\ p.rcv_wnd <= TCP_WND /\ Edge(p) = e /\ p.rcv_ann_right_edge <= e
      /\ TCP_WND \in Nat /\ U16 \in Nat /\ U16 > TCP_WND
  BY OutAssumption, WndAssumption DEF Edged
<1>2. Consume(p, n) = r
  BY <1>m, <1>q, <1>r DEF Consume, UpdateRcvAnnWnd
<1>3. /\ q.rcv_nxt = p.rcv_nxt + n /\ q.rcv_wnd = m /\ DOMAIN q = Fields
      /\ q.rcv_ann_right_edge = p.rcv_ann_right_edge
  BY <1>q, FieldsAre
<1>4. /\ r.rcv_nxt = q.rcv_nxt /\ r.rcv_wnd = m /\ r.rcv_ann_wnd = AnnWnd(q)
      /\ r.rcv_ann_right_edge = q.rcv_ann_right_edge
  BY <1>r, <1>3, FieldsAre
<1>5. CASE n <= p.rcv_wnd
  <2>1. m = p.rcv_wnd - n
    BY <1>m, <1>1, <1>5
  <2>2. Edge(q) = e
    BY <1>1, <1>3, <2>1 DEF Edge
  <2>3. AnnWnd(q) <= m
    BY <1>1, <1>3, <2>2, AnnWndFits
  <2> QED  BY <1>1, <1>2, <1>3, <1>4, <2>1, <2>2, <2>3 DEF Edged, Edge
<1>6. CASE n > p.rcv_wnd
  <2>1. p.rcv_wnd - n = -1 /\ p.rcv_nxt + n = lim + 1 /\ e = lim
    BY <1>1, <1>6 DEF Edge
  <2>2. m = U16 - 1
    BY <1>m, <1>1, <2>1
  <2> QED  BY <1>2, <1>3, <1>4, <2>1, <2>2 DEF Edged
<1> QED  BY <1>5, <1>6

(* A block whose peer has written up to lim, and whose buffer has room for
   that: the step from p to q leaves the edge where it is. *)
KeepsEdge(p, q, lim) ==
  \A e \in Int : lim <= e /\ Edged(p, e, lim) => Edged(q, e, lim)

(* A step that takes nothing is one. *)
LEMMA KeepsEdgeStill ==
  ASSUME NEW lim \in Int,
         NEW p, p.rcv_nxt \in Int, p.rcv_wnd \in Nat, p.rcv_ann_wnd \in Int,
         NEW q, NEW S, Changes(p, q, S), S \cap ConsumeFields = {},
         q.rcv_ann_right_edge \in {p.rcv_ann_right_edge, p.rcv_nxt + p.rcv_ann_wnd}
  PROVE  KeepsEdge(p, q, lim)
BY EdgeKept DEF KeepsEdge

(* So is one between blocks whose windows are the same. *)
LEMMA KeepsEdgeSame ==
  ASSUME NEW lim, NEW p, NEW q, NEW r, KeepsEdge(p, q, lim),
         r.rcv_nxt = q.rcv_nxt, r.rcv_wnd = q.rcv_wnd, r.rcv_ann_wnd = q.rcv_ann_wnd,
         r.rcv_ann_right_edge = q.rcv_ann_right_edge
  PROVE  KeepsEdge(p, r, lim)
BY DEF KeepsEdge, Edged, Edge

(* Two such steps make one. *)
LEMMA KeepsEdgeThen ==
  ASSUME NEW lim, NEW p, NEW q, NEW r, KeepsEdge(p, q, lim), KeepsEdge(q, r, lim)
  PROVE  KeepsEdge(p, r, lim)
BY DEF KeepsEdge

(* What a block whose rcv_nxt was start has received since: the bytes of
   recv_data, and the FIN if TF_GOT_FIN is set. *)
Got(p, start, lim, d) ==
  /\ p.rcv_nxt \in start..lim + 1 /\ (p.rcv_nxt = lim + 1 => d)
  /\ p.recv_data \in Seq(Int) /\ IsRun(p.recv_data, start)
  /\ Len(p.recv_data) = Lesser(p.rcv_nxt, lim) - Lesser(start, lim)
  /\ p.recv_flags \subseteq {"TF_GOT_FIN"}
  /\ GotFin(p) <=> start <= lim /\ p.rcv_nxt = lim + 1

TakeFields == ConsumeFields \cup {"recv_data", "recv_flags"}

(* tcp_receive takes the segment at rcv_nxt: what waits for the application
   is still the run of the peer's bytes up to rcv_nxt. *)
LEMMA TakeIs ==
  ASSUME NEW fb \in Int, NEW w \in Nat, NEW c \in BOOLEAN, NEW p, Snd(p, fb, w, c),
         NEW lim \in Int, NEW d \in BOOLEAN, NEW start \in Int, Got(p, start, lim, d),
         NEW t \in OSegs(lim, d), t.seq = p.rcv_nxt
  PROVE  /\ Snd(Take(p, t), fb, w, c) /\ Changes(p, Take(p, t), TakeFields)
         /\ Got(Take(p, t), start, lim, d) /\ Take(p, t).rcv_nxt = EndSeq(t)
         /\ KeepsEdge(p, Take(p, t), lim)
<1> DEFINE n == TcpLen(t)
           k == Consume(p, n)
           q == Take(p, t)
<1>1. /\ DOMAIN p = Fields /\ p.rcv_nxt \in Int /\ p.rcv_wnd \in Int
      /\ p.rcv_ann_right_edge \in Int
  BY DEF Snd
<1>2. /\ t.seq \in Int /\ t.len \in Nat /\ t.fl \in SUBSET {"FIN"}
      /\ t.seq <= lim /\ t.seq + t.len <= lim
      /\ t.fl = {} => t.len > 0 /\ EndSeq(t) = t.seq + t.len
      /\ t.fl # {} => d /\ t.seq + t.len = lim /\ EndSeq(t) = lim + 1
      /\ EndSeq(t) \in Int /\ EndSeq(t) > t.seq /\ EndSeq(t) <= lim + 1
  BY OSegIs
<1>3. n \in Int /\ EndSeq(t) = p.rcv_nxt + n
  BY <1>2 DEF EndSeq, TcpLen
<1>4. /\ Changes(p, k, ConsumeFields) /\ k.rcv_nxt = EndSeq(t)
      /\ k.rcv_wnd \in Nat /\ k.rcv_ann_wnd \in Int
  <2> HIDE DEF n
  <2> QED  BY <1>1, <1>3, ConsumeChanges
<1>5. /\ Changes(k, q, {"recv_data", "recv_flags"})
      /\ q.recv_data = k.recv_data \o Bytes(t)
      /\ q.recv_flags = IF "FIN" \in t.fl THEN k.recv_flags \cup {"TF_GOT_FIN"} ELSE k.recv_flags
  <2> HIDE DEF n
  <2>1. q = [k EXCEPT !.recv_data = @ \o Bytes(t),
               !.recv_flags = IF "FIN" \in t.fl THEN @ \cup {"TF_GOT_FIN"} ELSE @]
    BY DEF Take, n
  <2> HIDE DEF k, q
  <2> QED  BY <1>4, <2>1, FieldsAre DEF Changes
<1>e. KeepsEdge(p, k, lim)
  <2> SUFFICES ASSUME NEW e \in Int, lim <= e, Edged(p, e, lim)
               PROVE  Edged(k, e, lim)
    BY DEF KeepsEdge
  <2> HIDE DEF n
  <2>1. p.rcv_wnd \in Nat
    BY DEF Snd
  <2>2. n \in Nat /\ p.rcv_nxt <= lim /\ p.rcv_nxt + n <= lim + 1
    BY <1>1, <1>2, <1>3
  <2> QED  BY <1>1, <2>1, <2>2, ConsumeEdge
<1> HIDE DEF n, k, q
<1>f. KeepsEdge(p, q, lim)
  <2>1. /\ q.rcv_nxt = k.rcv_nxt /\ q.rcv_wnd = k.rcv_wnd /\ q.rcv_ann_wnd = k.rcv_ann_wnd
        /\ q.rcv_ann_right_edge = k.rcv_ann_right_edge
    BY <1>5, FieldsAre DEF Changes
  <2> QED  BY <1>e, <2>1, KeepsEdgeSame
<1>6. Changes(p, q, TakeFields)
  BY <1>4, <1>5 DEF Changes, TakeFields
<1>7. /\ q.rcv_nxt = EndSeq(t) /\ q.rcv_wnd \in Nat /\ q.rcv_ann_wnd \in Int
      /\ k.recv_data = p.recv_data /\ k.recv_flags = p.recv_flags
  BY <1>4, <1>5, FieldsAre DEF Changes, ConsumeFields
<1>8. Snd(q, fb, w, c)
  BY <1>2, <1>6, <1>7, FieldsAre DEF Changes, Snd, TakeFields, ConsumeFields
<1>9. Got(q, start, lim, d)
  <2>1. /\ p.rcv_nxt \in start..lim + 1 /\ p.recv_data \in Seq(Int)
        /\ IsRun(p.recv_data, start)
        /\ Len(p.recv_data) = Lesser(p.rcv_nxt, lim) - Lesser(start, lim)
        /\ p.recv_flags \subseteq {"TF_GOT_FIN"}
        /\ GotFin(p) <=> start <= lim /\ p.rcv_nxt = lim + 1
    BY DEF Got
  <2>2. Lesser(p.rcv_nxt, lim) = p.rcv_nxt /\ Lesser(start, lim) = start /\ start <= lim
    BY <1>1, <1>2, <2>1 DEF Lesser
  <2>3. /\ Bytes(t) \in Seq(Int) /\ IsRun(Bytes(t), p.rcv_nxt) /\ Len(Bytes(t)) = t.len
    BY <1>2, BytesAre
  <2>4. p.rcv_nxt = start + Len(p.recv_data)
    BY <1>1, <2>1, <2>2
  <2>5. /\ q.recv_data \in Seq(Int) /\ IsRun(q.recv_data, start)
        /\ Len(q.recv_data) = Len(p.recv_data) + t.len
    <3>1. PICK a, b : a = p.recv_data /\ b = Bytes(t)
      OBVIOUS
    <3>2. /\ a \o b \in Seq(Int) /\ IsRun(a \o b, start) /\ Len(a \o b) = Len(a) + Len(b)
      BY <1>1, <2>1, <2>3, <2>4, <3>1, RunConcat
    <3> QED  BY <1>5, <1>7, <2>3, <3>1, <3>2
  <2>6. Lesser(q.rcv_nxt, lim) = t.seq + t.len
    BY <1>2, <1>7 DEF Lesser
  <2>7. /\ q.rcv_nxt \in start..lim + 1 /\ (q.rcv_nxt = lim + 1 => d)
    BY <1>1, <1>2, <1>7, <2>1
  <2>8. Len(q.recv_data) = Lesser(q.rcv_nxt, lim) - Lesser(start, lim)
    BY <1>2, <2>2, <2>4, <2>5, <2>6
  <2>9. q.recv_flags \subseteq {"TF_GOT_FIN"}
    BY <1>5, <1>7, <2>1
  <2>10. GotFin(q) <=> start <= lim /\ q.rcv_nxt = lim + 1
    <3>1. "TF_GOT_FIN" \notin p.recv_flags
      BY <1>1, <1>2, <2>1 DEF GotFin
    <3>2. "TF_GOT_FIN" \in q.recv_flags <=> t.fl # {}
      BY <1>2, <1>5, <1>7, <3>1
    <3> QED  BY <1>2, <1>7, <2>2, <3>2 DEF GotFin
  <2> QED  BY <2>5, <2>7, <2>8, <2>9, <2>10 DEF Got
<1> QED  BY <1>f, <1>6, <1>7, <1>8, <1>9 DEF q

(* The state moves on only with the FIN. *)
Moved(p, q, lim) ==
  \/ q.state = p.state
  \/ p.state = "ESTABLISHED" /\ q.state = "CLOSE_WAIT" /\ q.rcv_nxt = lim + 1

QueuedFields == TakeFields \cup {"state", "ooseq"}

(* The same of a segment taken from the out-of-order queue. *)
LEMMA TakeQueuedIs ==
  ASSUME NEW fb \in Int, NEW w \in Nat, NEW c \in BOOLEAN, NEW p, Snd(p, fb, w, c),
         NEW lim \in Int, NEW d \in BOOLEAN, NEW start \in Int, Got(p, start, lim, d),
         NEW t \in OSegs(lim, d), t.seq = p.rcv_nxt
  PROVE  /\ Snd(TakeQueued(p, t), fb, w, c) /\ Changes(p, TakeQueued(p, t), QueuedFields)
         /\ Got(TakeQueued(p, t), start, lim, d) /\ TakeQueued(p, t).rcv_nxt = EndSeq(t)
         /\ Moved(p, TakeQueued(p, t), lim) /\ TakeQueued(p, t).ooseq = Tail(p.ooseq)
         /\ KeepsEdge(p, TakeQueued(p, t), lim)
<1> DEFINE k == Take(p, t)
           q == TakeQueued(p, t)
<1>1. /\ Snd(k, fb, w, c) /\ Changes(p, k, TakeFields)
      /\ Got(k, start, lim, d) /\ k.rcv_nxt = EndSeq(t) /\ KeepsEdge(p, k, lim)
  BY TakeIs
<1>2. q = [k EXCEPT
             !.state = IF "FIN" \in t.fl /\ @ = "ESTABLISHED" THEN "CLOSE_WAIT" ELSE @,
             !.ooseq = Tail(@)]
  BY DEF TakeQueued
<1>3. t.fl # {} => EndSeq(t) = lim + 1
  BY OSegIs
<1> HIDE DEF k, q
<1>4. /\ Changes(k, q, {"state", "ooseq"}) /\ q.ooseq = Tail(k.ooseq)
      /\ q.state = IF "FIN" \in t.fl /\ k.state = "ESTABLISHED" THEN "CLOSE_WAIT" ELSE k.state
  BY <1>1, <1>2, FieldsAre DEF Changes
<1>5. Changes(p, q, QueuedFields)
  BY <1>1, <1>4 DEF Changes, QueuedFields
<1>6. /\ q.rcv_nxt = k.rcv_nxt /\ q.recv_data = k.recv_data /\ q.recv_flags = k.recv_flags
      /\ k.state = p.state /\ k.ooseq = p.ooseq
  BY <1>1, <1>4, FieldsAre DEF Changes, TakeFields, ConsumeFields
<1>7. Got(q, start, lim, d)
  BY <1>1, <1>6 DEF Got, GotFin
<1>8. Snd(q, fb, w, c)
  BY <1>1, <1>4, SndChanges DEF SndFields
<1>9. Moved(p, q, lim)
  BY <1>1, <1>3, <1>4, <1>6 DEF Moved
<1>10. KeepsEdge(p, q, lim)
  <2>1. /\ q.rcv_nxt = k.rcv_nxt /\ q.rcv_wnd = k.rcv_wnd /\ q.rcv_ann_wnd = k.rcv_ann_wnd
        /\ q.rcv_ann_right_edge = k.rcv_ann_right_edge
    BY <1>4, FieldsAre DEF Changes
  <2> QED  BY <1>1, <2>1, KeepsEdgeSame
<1> QED  BY <1>1, <1>4, <1>5, <1>6, <1>7, <1>8, <1>9, <1>10 DEF q

(* The same in one predicate. *)
QueuedStep(p, q, t, fb, w, c, start, lim, d) ==
  /\ Snd(q, fb, w, c) /\ Changes(p, q, QueuedFields)
  /\ Got(q, start, lim, d) /\ q.rcv_nxt = EndSeq(t)
  /\ Moved(p, q, lim) /\ q.ooseq = Tail(p.ooseq) /\ KeepsEdge(p, q, lim)

(* The same in the form the induction over the queue uses. *)
LEMMA TakeQueuedStep ==
  ASSUME NEW fb \in Int, NEW w \in Nat, NEW c \in BOOLEAN, NEW p, Snd(p, fb, w, c),
         NEW lim \in Int, NEW d \in BOOLEAN, NEW start \in Int, Got(p, start, lim, d),
         NEW t \in OSegs(lim, d), t.seq = p.rcv_nxt
  PROVE  QueuedStep(p, TakeQueued(p, t), t, fb, w, c, start, lim, d)
BY TakeQueuedIs DEF QueuedStep

(* The recursion of TakeFirst has a solution. *)
TakeAfter(p, n) ==
  CHOOSE f : f = [i \in 0..n |-> IF i = 0 THEN p ELSE TakeQueued(f[i - 1], p.ooseq[i])]

(* The recursive function behind TakeFirst satisfies its equations. *)
LEMMA TakeFirstSolved ==
  ASSUME NEW p, NEW n \in Nat
  PROVE  /\ TakeAfter(p, n)[0] = p
         /\ \A i \in 1..n : TakeAfter(p, n)[i] = TakeQueued(TakeAfter(p, n)[i - 1], p.ooseq[i])
         /\ TakeFirst(p, n) = TakeAfter(p, n)[n]
<1> DEFINE T == {m \in 0..n : \E f : /\ DOMAIN f = 0..m /\ f[0] = p
                                     /\ \A i \in 1..m : f[i] = TakeQueued(f[i - 1], p.ooseq[i])}
           after == TakeAfter(p, n)
<1>1. 0 \in T
  <2>1. 0 \in 0..n /\ \A i \in 1..0 : FALSE
    OBVIOUS
  <2>2. DOMAIN [i \in 0..0 |-> p] = 0..0 /\ [i \in 0..0 |-> p][0] = p
    OBVIOUS
  <2> QED  BY <2>1, <2>2
<1>2. \A m \in 0..n - 1 : m \in T => m + 1 \in T
  <2> SUFFICES ASSUME NEW m \in 0..n - 1, m \in T PROVE m + 1 \in T
    OBVIOUS
  <2>1. PICK f : /\ DOMAIN f = 0..m /\ f[0] = p
                 /\ \A i \in 1..m : f[i] = TakeQueued(f[i - 1], p.ooseq[i])
    OBVIOUS
  <2> DEFINE g == [i \in 0..m + 1 |->
                     IF i = m + 1 THEN TakeQueued(f[m], p.ooseq[m + 1]) ELSE f[i]]
  <2>2. DOMAIN g = 0..m + 1 /\ g[0] = p
    BY <2>1
  <2>3. \A i \in 1..m + 1 : g[i] = TakeQueued(g[i - 1], p.ooseq[i])
    <3> SUFFICES ASSUME NEW i \in 1..m + 1 PROVE g[i] = TakeQueued(g[i - 1], p.ooseq[i])
      OBVIOUS
    <3>1. g[i - 1] = f[i - 1]
      OBVIOUS
    <3>2. CASE i = m + 1
      BY <3>1, <3>2
    <3>3. CASE i # m + 1
      <4>1. i \in 1..m /\ g[i] = f[i]
        BY <3>3
      <4> QED  BY <4>1, <3>1, <2>1
    <3> QED  BY <3>2, <3>3
  <2>4. m + 1 \in 0..n
    OBVIOUS
  <2> HIDE DEF g
  <2> QED  BY <2>2, <2>3, <2>4
<1>3. n \in T
  <2> HIDE DEF T
  <2>1. \A i \in 0..n : i \in T
    BY <1>1, <1>2, IndexInduction
  <2> QED  BY <2>1
<1>4. PICK f : /\ DOMAIN f = 0..n /\ f[0] = p
               /\ \A i \in 1..n : f[i] = TakeQueued(f[i - 1], p.ooseq[i])
  BY <1>3
<1>5. \E h : h = [i \in 0..n |-> IF i = 0 THEN p ELSE TakeQueued(h[i - 1], p.ooseq[i])]
  <2> DEFINE g == [i \in 0..n |-> IF i = 0 THEN p ELSE TakeQueued(f[i - 1], p.ooseq[i])]
  <2>1. \A i \in 0..n : g[i] = f[i]
    BY <1>4
  <2>2. g = [i \in 0..n |-> IF i = 0 THEN p ELSE TakeQueued(g[i - 1], p.ooseq[i])]
    <3>1. \A i \in 1..n : i - 1 \in 0..n
      OBVIOUS
    <3>2. \A i \in 1..n : g[i - 1] = f[i - 1]
      BY <2>1, <3>1
    <3>3. \A i \in 0..n : (IF i = 0 THEN p ELSE TakeQueued(g[i - 1], p.ooseq[i]))
                            = (IF i = 0 THEN p ELSE TakeQueued(f[i - 1], p.ooseq[i]))
      <4> HIDE DEF g
      <4>1. \A i \in 0..n : i = 0 \/ i \in 1..n
        OBVIOUS
      <4> QED  BY <3>2, <4>1
    <3> QED  BY <3>3
  <2> HIDE DEF g
  <2> QED  BY <2>2
<1>6. after = [i \in 0..n |-> IF i = 0 THEN p ELSE TakeQueued(after[i - 1], p.ooseq[i])]
  BY <1>5 DEF TakeAfter
<1>7. TakeFirst(p, n) = after[n]
  BY DEF TakeFirst, TakeAfter
<1> HIDE DEF after
<1>8. after[0] = p /\ \A i \in 1..n : after[i] = TakeQueued(after[i - 1], p.ooseq[i])
  BY <1>6
<1> QED  BY <1>7, <1>8 DEF after

(* Dropping i elements and then one is dropping i + 1. *)
LEMMA TailDrop ==
  ASSUME NEW S, NEW q \in Seq(S), NEW i \in Nat, i < Len(q)
  PROVE  Tail(Drop(q, i)) = Drop(q, i + 1)
<1>1. Len(q) \in Nat /\ i \in 0..Len(q) /\ i + 1 \in 0..Len(q)
  OBVIOUS
<1>2. /\ Drop(q, i) \in Seq(S) /\ Len(Drop(q, i)) = Len(q) - i
      /\ \A j \in 1..Len(q) - i : Drop(q, i)[j] = q[i + j]
  BY <1>1, DropIs
<1>m. PICK m \in 0..Len(q) : m = i + 1
  BY <1>1
<1>3. /\ Drop(q, m) \in Seq(S) /\ Len(Drop(q, m)) = Len(q) - m
      /\ \A j \in 1..Len(q) - m : Drop(q, m)[j] = q[m + j]
  <2>1. Drop(q, m) \in Seq(S) /\ Len(Drop(q, m)) = Len(q) - m
    BY DropIs
  <2>2. \A j \in 1..Len(q) - m : Drop(q, m)[j] = q[m + j]
    BY DropIs
  <2> QED  BY <2>1, <2>2
<1>4. PICK a, b : a = Drop(q, i) /\ b = Drop(q, m)
  OBVIOUS
<1>5. /\ Tail(a) \in Seq(S) /\ Len(Tail(a)) = Len(a) - 1
      /\ \A j \in 1..Len(Tail(a)) : Tail(a)[j] = a[j + 1]
  <2>1. a \in Seq(S) /\ a # <<>>
    BY <1>1, <1>2, <1>4
  <2> QED  BY <2>1, HeadTailProperties
<1>6. \A j \in 1..Len(q) - m : Tail(a)[j] = b[j]
  <2> SUFFICES ASSUME NEW j \in 1..Len(q) - m PROVE Tail(a)[j] = b[j]
    OBVIOUS
  <2>1. j \in 1..Len(Tail(a)) /\ j + 1 \in 1..Len(q) - i /\ i + (j + 1) = m + j
    BY <1>1, <1>2, <1>4, <1>5, <1>m
  <2>2. Tail(a)[j] = q[i + (j + 1)]
    BY <1>2, <1>4, <1>5, <2>1
  <2>3. b[j] = q[m + j]
    BY <1>3, <1>4
  <2> QED  BY <2>1, <2>2, <2>3
<1>7. Len(Tail(a)) = Len(b) /\ Len(b) = Len(q) - m
  <2>1. Len(a) = Len(q) - i /\ Len(b) = Len(q) - m /\ Len(Tail(a)) = Len(a) - 1
    BY <1>2, <1>3, <1>4, <1>5
  <2> QED  BY <2>1, <1>1, <1>m
<1>8. Tail(a) = b
  <2>1. b \in Seq(S)
    BY <1>3, <1>4
  <2> QED  BY <1>5, <1>6, <1>7, <2>1, SeqEqual
<1> QED  BY <1>4, <1>8, <1>m

(* Where the first i segments of a queue that follows on from seq end. *)
EndOf(q, seq, i) == IF i = 0 THEN seq ELSE EndSeq(q[i])

(* r is p after the first i segments of its out-of-order queue were taken. *)
TakenTo(p, r, i, fb, w, c, start, lim, d) ==
  /\ Snd(r, fb, w, c) /\ Changes(p, r, QueuedFields) /\ Got(r, start, lim, d)
  /\ Moved(p, r, lim) /\ r.ooseq = Drop(p.ooseq, i)
  /\ r.rcv_nxt = EndOf(p.ooseq, p.rcv_nxt, i) /\ KeepsEdge(p, r, lim)

(* When the first n queued segments follow on from rcv_nxt, taking them one
   by one takes the whole run, and nothing else (by induction on n). *)
LEMMA TakeFirstIs ==
  ASSUME NEW fb \in Int, NEW w \in Nat, NEW c \in BOOLEAN, NEW p, Snd(p, fb, w, c),
         NEW lim \in Int, NEW d \in BOOLEAN, NEW start \in Int, Got(p, start, lim, d),
         Ordered(p.ooseq, lim, d), NEW n \in 0..Len(p.ooseq),
         \A i \in 1..n : p.ooseq[i].seq = EndOf(p.ooseq, p.rcv_nxt, i - 1)
  PROVE  TakenTo(p, TakeFirst(p, n), n, fb, w, c, start, lim, d)
<1> DEFINE after == TakeAfter(p, n)
           T == {i \in 0..n : TakenTo(p, after[i], i, fb, w, c, start, lim, d)}
<1>q. PICK q : q = p.ooseq
  OBVIOUS
<1>1. q \in Seq(OSegs(lim, d)) /\ Len(q) \in Nat /\ n \in Nat /\ n <= Len(q)
  BY <1>q DEF Ordered
<1>2. /\ after[0] = p
      /\ \A i \in 1..n : after[i] = TakeQueued(after[i - 1], p.ooseq[i])
      /\ TakeFirst(p, n) = after[n]
  BY <1>1, TakeFirstSolved
<1> HIDE DEF after
<1>3. 0 \in T
  <2>1. Changes(p, p, QueuedFields)
    BY ChangesNone DEF Snd
  <2>2. Drop(q, 0) = q
    <3>1. 0 \in 0..Len(q)
      BY <1>1
    <3>2. /\ Drop(q, 0) \in Seq(OSegs(lim, d)) /\ Len(Drop(q, 0)) = Len(q) - 0
      BY <1>1, <3>1, DropIs
    <3>3. \A i \in 1..Len(q) - 0 : Drop(q, 0)[i] = q[0 + i]
      BY <1>1, <3>1, DropIs
    <3>4. PICK a : a = Drop(q, 0)
      OBVIOUS
    <3>5. Len(a) = Len(q) /\ (\A i \in 1..Len(a) : a[i] = q[i]) /\ a \in Seq(OSegs(lim, d))
      BY <3>2, <3>3, <3>4, <1>1
    <3>6. a = q
      BY <3>5, <1>1, SeqEqual
    <3> QED  BY <3>4, <3>6
  <2>3. TakenTo(p, p, 0, fb, w, c, start, lim, d)
    BY <1>q, <2>1, <2>2 DEF TakenTo, Moved, EndOf, KeepsEdge
  <2> QED  BY <1>1, <1>2, <2>3
<1>4. \A i \in 0..n - 1 : i \in T => i + 1 \in T
  <2> SUFFICES ASSUME NEW i \in 0..n - 1,
                      TakenTo(p, after[i], i, fb, w, c, start, lim, d)
               PROVE  i + 1 \in T
    OBVIOUS
  <2>r. PICK r : r = after[i]
    OBVIOUS
  <2>t. PICK t : t = q[i + 1]
    OBVIOUS
  <2>1. /\ i + 1 \in 1..n /\ (i + 1) - 1 = i /\ i + 1 \in 1..Len(q) /\ i \in Nat /\ i < Len(q)
    BY <1>1
  <2>2. /\ Snd(r, fb, w, c) /\ Changes(p, r, QueuedFields) /\ Got(r, start, lim, d)
        /\ Moved(p, r, lim) /\ r.ooseq = Drop(q, i)
        /\ r.rcv_nxt = EndOf(q, p.rcv_nxt, i) /\ KeepsEdge(p, r, lim)
    BY <1>q, <2>r DEF TakenTo
  <2>3. t \in OSegs(lim, d) /\ t.seq = r.rcv_nxt
    <3>1. q[i + 1].seq = EndOf(q, p.rcv_nxt, i)
      BY <1>q, <2>1
    <3>2. t \in OSegs(lim, d)
      BY <1>1, <2>1, <2>t, ElementOfSeq
    <3> QED  BY <2>2, <2>t, <3>1, <3>2
  <2>u. PICK u : u = TakeQueued(r, t)
    OBVIOUS
  <2>4. /\ Snd(u, fb, w, c) /\ Changes(r, u, QueuedFields)
        /\ Got(u, start, lim, d) /\ u.rcv_nxt = EndSeq(t)
        /\ Moved(r, u, lim) /\ u.ooseq = Tail(r.ooseq) /\ KeepsEdge(r, u, lim)
    <3>1. /\ Snd(TakeQueued(r, t), fb, w, c) /\ Changes(r, TakeQueued(r, t), QueuedFields)
          /\ Got(TakeQueued(r, t), start, lim, d) /\ TakeQueued(r, t).rcv_nxt = EndSeq(t)
          /\ Moved(r, TakeQueued(r, t), lim) /\ TakeQueued(r, t).ooseq = Tail(r.ooseq)
          /\ KeepsEdge(r, TakeQueued(r, t), lim)
      <4>1. Snd(r, fb, w, c) /\ Got(r, start, lim, d)
        BY <2>2
      <4>2. QueuedStep(r, TakeQueued(r, t), t, fb, w, c, start, lim, d)
        BY <2>3, <4>1, TakeQueuedStep
      <4> QED  BY <4>2 DEF QueuedStep
    <3> QED  BY <2>u, <3>1
  <2>5. Changes(p, u, QueuedFields)
    BY <2>2, <2>4, ChangesThen
  <2>6. Moved(p, u, lim)
    <3>1. r.rcv_nxt # lim + 1
      BY <2>3, OSegIs
    <3> QED  BY <2>2, <2>4, <3>1 DEF Moved
  <2>7. u.ooseq = Drop(q, i + 1)
    <3>1. Tail(Drop(q, i)) = Drop(q, i + 1)
      BY <1>1, <2>1, TailDrop
    <3> QED  BY <2>2, <2>4, <3>1
  <2>8. u.rcv_nxt = EndOf(q, p.rcv_nxt, i + 1)
    BY <2>1, <2>4, <2>t DEF EndOf
  <2>9. after[i + 1] = u
    BY <1>2, <1>q, <2>1, <2>r, <2>t, <2>u
  <2>e. KeepsEdge(p, u, lim)
    BY <2>2, <2>4, KeepsEdgeThen
  <2>10. TakenTo(p, after[i + 1], i + 1, fb, w, c, start, lim, d)
    BY <1>q, <2>4, <2>5, <2>6, <2>7, <2>8, <2>9, <2>e DEF TakenTo
  <2> QED  BY <2>1, <2>10
<1>5. n \in T
  <2> HIDE DEF T
  <2>1. \A i \in 0..n : i \in T
    BY <1>1, <1>3, <1>4, IndexInduction
  <2> QED  BY <1>1, <2>1
<1> QED  BY <1>2, <1>5

(* How many queued segments follow on from seq: the first that does not,
   leaves a gap. *)
LEMMA JoiningIs ==
  ASSUME NEW lim \in Int, NEW d \in BOOLEAN, NEW q, Ordered(q, lim, d),
         NEW seq \in Int, q # <<>> => seq <= q[1].seq
  PROVE  /\ Joining(q, seq) \in 0..Len(q)
         /\ \A i \in 1..Joining(q, seq) : q[i].seq = EndOf(q, seq, i - 1)
         /\ Ordered(Drop(q, Joining(q, seq)), lim, d)
         /\ Drop(q, Joining(q, seq)) # <<>> =>
              Drop(q, Joining(q, seq))[1].seq > EndOf(q, seq, Joining(q, seq))
<1> DEFINE T == {i \in Nat : q[i].seq = IF i = 1 THEN seq ELSE EndSeq(q[i - 1])}
           n == Joining(q, seq)
<1>1. q \in Seq(OSegs(lim, d)) /\ Len(q) \in Nat
  BY DEF Ordered
<1>2. /\ n \in 0..Len(q)
      /\ \A j \in 1..n : q[j].seq = IF j = 1 THEN seq ELSE EndSeq(q[j - 1])
      /\ n < Len(q) => q[n + 1].seq # IF n + 1 = 1 THEN seq ELSE EndSeq(q[(n + 1) - 1])
  <2>1. \A k \in 0..Len(q) : \A j \in 1..k : j \in Nat
    BY <1>1
  <2>2. {k \in 0..Len(q) : \A j \in 1..k : j \in T}
          = {k \in 0..Len(q) : \A j \in 1..k :
               q[j].seq = IF j = 1 THEN seq ELSE EndSeq(q[j - 1])}
    BY <2>1
  <2>3. n = Max({k \in 0..Len(q) : \A j \in 1..k : j \in T})
    BY <2>2 DEF Lead, Joining
  <2>4. n \in 0..Len(q) /\ (\A j \in 1..n : j \in T) /\ (n < Len(q) => n + 1 \notin T)
    <3> HIDE DEF T, n
    <3> QED  BY <1>1, <2>3, LeadMax
  <2> HIDE DEF n
  <2> QED  BY <1>1, <2>4
<1> HIDE DEF T, n
<1>3. \A i \in 1..n : q[i].seq = EndOf(q, seq, i - 1)
  <2> SUFFICES ASSUME NEW i \in 1..n PROVE q[i].seq = EndOf(q, seq, i - 1)
    OBVIOUS
  <2>1. i = 1 \/ i - 1 # 0
    OBVIOUS
  <2> QED  BY <1>2, <2>1 DEF EndOf
<1>4. Ordered(Drop(q, n), lim, d)
  BY <1>2, OrderedSlices
<1>5. ASSUME Drop(q, n) # <<>> PROVE Drop(q, n)[1].seq > EndOf(q, seq, n)
  <2>1. n < Len(q) /\ n + 1 \in 1..Len(q) /\ n \in Nat
    <3>1. (Drop(q, n) = <<>>) = (n = Len(q))
      BY <1>1, <1>2, DropIs
    <3> QED  BY <1>1, <1>2, <1>5, <3>1
  <2>2. Drop(q, n)[1] = q[n + 1]
    <3>1. \A i \in 1..Len(q) - n : Drop(q, n)[i] = q[n + i]
      BY <1>1, <1>2, DropIs
    <3>2. 1 \in 1..Len(q) - n
      BY <1>1, <2>1
    <3> QED  BY <3>1, <3>2
  <2>z. PICK z : z = q[n + 1]
    OBVIOUS
  <2>3. z \in OSegs(lim, d) /\ z.seq \in Int
    <3>1. z \in OSegs(lim, d)
      BY <2>1, <2>z, OrderedFirst
    <3> QED  BY <3>1, OSegIs
  <2>4. CASE n = 0
    <3>1. z.seq # seq /\ z = q[1] /\ q # <<>>
      BY <1>1, <1>2, <2>1, <2>z, <2>4
    <3> QED  BY <2>2, <2>3, <2>4, <2>z, <3>1 DEF EndOf
  <2>5. CASE n > 0
    <3>y. PICK y : y = q[n]
      OBVIOUS
    <3>1. n \in 1..Len(q) /\ n < n + 1 /\ (n + 1) - 1 = n /\ n + 1 # 1
      BY <2>1, <2>5
    <3>2. y \in OSegs(lim, d)
      BY <3>1, <3>y, OrderedFirst
    <3>3. y.fl = {} /\ y.seq + y.len <= z.seq
      BY <2>1, <2>z, <3>1, <3>y DEF Ordered
    <3>4. EndSeq(y) = y.seq + y.len /\ EndSeq(y) \in Int
      BY <3>2, <3>3, OSegIs
    <3>5. z.seq # EndSeq(y)
      BY <1>2, <2>1, <2>z, <3>1, <3>y
    <3>6. EndOf(q, seq, n) = EndSeq(y)
      BY <3>1, <3>y DEF EndOf
    <3> QED  BY <2>2, <2>3, <2>z, <3>3, <3>4, <3>5, <3>6
  <2> QED  BY <2>1, <2>4, <2>5
<1> QED  BY <1>2, <1>3, <1>4, <1>5 DEF n

(* A segment in order is cut to the window. *)
LEMMA CutToWindowIs ==
  ASSUME NEW lim \in Int, NEW d \in BOOLEAN, NEW s \in OSegs(lim, d), NEW p,
         p.rcv_wnd \in Nat, p.rcv_wnd > 0
  PROVE  CutToWindow(p, s) \in OSegs(lim, d) /\ CutToWindow(p, s).seq = s.seq
<1>1. /\ s.seq \in Int /\ s.len \in Nat /\ s.fl \in SUBSET {"FIN"}
      /\ s.seq + s.len <= lim
      /\ s \in [seq : Int, len : Nat, fl : SUBSET {"FIN"}]
  BY DEF OSegs
<1>2. PICK m \in Nat : m = p.rcv_wnd
  OBVIOUS
<1>3. CASE TcpLen(s) > m
  <2>1. m <= s.len /\ m > 0
    BY <1>1, <1>2, <1>3 DEF TcpLen
  <2>2. PICK t : t = CutToWindow(p, s)
    OBVIOUS
  <2>3. t = [s EXCEPT !.len = m, !.fl = {}]
    BY <1>2, <1>3, <2>2 DEF CutToWindow
  <2>4. t.seq = s.seq /\ t.len = m /\ t.fl = {}
        /\ t \in [seq : Int, len : Nat, fl : SUBSET {"FIN"}]
    BY <1>1, <2>3
  <2>5. t \in OSegs(lim, d)
    BY <1>1, <2>1, <2>4 DEF OSegs
  <2> QED  BY <2>2, <2>4, <2>5
<1>4. CASE ~(TcpLen(s) > m)
  BY <1>2, <1>4 DEF CutToWindow
<1> QED  BY <1>3, <1>4

(* What is left of the out-of-order queue starts where the segment, cut or
   not, ends, or later. *)
LEMMA CutToOoseqIs ==
  ASSUME NEW lim \in Int, NEW d \in BOOLEAN, NEW s \in OSegs(lim, d), NEW q,
         Ordered(q, lim, d), q # <<>> => s.seq < q[1].seq
  PROVE  /\ CutToOoseq(q, s).seg \in OSegs(lim, d) /\ CutToOoseq(q, s).seg.seq = s.seq
         /\ Ordered(CutToOoseq(q, s).left, lim, d)
         /\ CutToOoseq(q, s).left # <<>> =>
              EndSeq(CutToOoseq(q, s).seg) <= CutToOoseq(q, s).left[1].seq
<1> DEFINE fins(i) == UNION {q[j].fl : j \in 1..i}
           T == {i \in Nat : s.seq + TcpLen([s EXCEPT !.fl = fins(i - 1)]) >= q[i].seq + q[i].len}
           n == Lead(Len(q), LAMBDA i :
                  s.seq + TcpLen([s EXCEPT !.fl = fins(i - 1)]) >= q[i].seq + q[i].len)
           t == [s EXCEPT !.fl = fins(n)]
           left == Drop(q, n)
           cut == CutToOoseq(q, s)
           whole == [seg |-> s, left |-> <<>>]
           part == [seg |-> [t EXCEPT !.len = Head(q).seq - s.seq], left |-> left]
           rest == [seg |-> t, left |-> left]
<1>1. q \in Seq(OSegs(lim, d)) /\ Len(q) \in Nat
  BY DEF Ordered
<1>2. /\ n \in 0..Len(q)
      /\ \A j \in 1..n : s.seq + TcpLen([s EXCEPT !.fl = fins(j - 1)]) >= q[j].seq + q[j].len
  <2>1. \A k \in 0..Len(q) : \A j \in 1..k : j \in Nat
    BY <1>1
  <2>2. {k \in 0..Len(q) : \A j \in 1..k : j \in T}
          = {k \in 0..Len(q) : \A j \in 1..k :
               s.seq + TcpLen([s EXCEPT !.fl = fins(j - 1)]) >= q[j].seq + q[j].len}
    BY <2>1
  <2>3. n = Max({k \in 0..Len(q) : \A j \in 1..k : j \in T})
    BY <2>2 DEF Lead
  <2>4. n \in 0..Len(q) /\ (\A j \in 1..n : j \in T)
    <3> HIDE DEF T, n
    <3> QED  BY <1>1, <2>3, LeadMax
  <2> HIDE DEF n
  <2> QED  BY <1>1, <2>4
<1>3. cut = IF q = <<>> \/ "FIN" \in s.fl THEN whole
            ELSE IF left # <<>> /\ EndSeq(t) > Head(left).seq THEN part ELSE rest
  BY DEF CutToOoseq
<1> SUFFICES /\ cut.seg \in OSegs(lim, d) /\ cut.seg.seq = s.seq
             /\ Ordered(cut.left, lim, d)
             /\ cut.left # <<>> => EndSeq(cut.seg) <= cut.left[1].seq
  BY DEF cut
<1> HIDE DEF T, n, cut
<1>4. /\ s.seq \in Int /\ s.len \in Nat /\ s.fl \in SUBSET {"FIN"}
      /\ s.fl = {} => s.len > 0
      /\ s.seq + s.len <= lim
      /\ s \in [seq : Int, len : Nat, fl : SUBSET {"FIN"}]
  BY DEF OSegs
<1>5. CASE q = <<>> \/ "FIN" \in s.fl
  <2>1. cut.seg = s /\ cut.left = <<>>
    BY <1>3, <1>5
  <2> QED  BY <2>1, OrderedEmpty
<1>6. CASE q # <<>> /\ "FIN" \notin s.fl
  <2>0. s.fl = {} /\ s.len > 0
    BY <1>4, <1>6
  <2>1. \A i \in 1..Len(q) : /\ q[i] \in OSegs(lim, d) /\ q[1] \in OSegs(lim, d)
                             /\ q[1].seq <= q[i].seq /\ (i < Len(q) => q[i].fl = {})
    BY OrderedFirst
  <2>2. Ordered(left, lim, d)
    BY <1>2, OrderedSlices
  <2>3. /\ (left = <<>>) = (n = Len(q))
        /\ n < Len(q) => Head(left) = q[n + 1]
    BY <1>1, <1>2, DropIs
  <2>4. n < Len(q) => left[1] = q[n + 1]
    <3>1. \A i \in 1..Len(q) - n : left[i] = q[n + i]
      BY <1>1, <1>2, DropIs
    <3>2. n < Len(q) => 1 \in 1..Len(q) - n
      BY <1>1, <1>2
    <3> HIDE DEF left
    <3> QED  BY <3>1, <3>2
  <2> HIDE DEF left
  <2>5. CASE n < Len(q)
    <3>1. \A i \in 1..n : q[i].fl = {}
      BY <1>1, <1>2, <2>1, <2>5
    <3>2. t = s
      <4>1. fins(n) = {}
        BY <3>1
      <4>2. PICK f : f = fins(n)
        OBVIOUS
      <4>3. t = [s EXCEPT !.fl = f] /\ f = {}
        BY <4>1, <4>2
      <4> QED  BY <4>3, <1>4, <2>0
    <3> HIDE DEF t
    <3>z. PICK z : z = q[n + 1]
      OBVIOUS
    <3>y. PICK y : y = q[1]
      OBVIOUS
    <3>3. /\ z \in OSegs(lim, d) /\ y \in OSegs(lim, d) /\ y.seq <= z.seq
          /\ left[1] = z /\ Head(left) = z /\ left # <<>> /\ s.seq < y.seq /\ Head(q) = y
      <4>1. n + 1 \in 1..Len(q)
        BY <1>1, <1>2, <2>5
      <4> QED  BY <4>1, <1>6, <2>1, <2>3, <2>4, <2>5, <3>z, <3>y
    <3>4. /\ z.seq \in Int /\ y.seq \in Int /\ y.seq <= lim
      BY <3>3, OSegIs
    <3>5. CASE EndSeq(t) > z.seq
      <4>1. cut = part
        BY <1>3, <1>6, <3>3, <3>5
      <4>2. PICK m : m = y.seq - s.seq
        OBVIOUS
      <4>3. m \in Nat /\ m > 0 /\ s.seq + m = y.seq
        BY <4>2, <3>3, <3>4, <1>4
      <4>4. PICK u : u = cut.seg
        OBVIOUS
      <4>5. u = [s EXCEPT !.len = m] /\ cut.left = left
        BY <3>2, <3>3, <4>1, <4>2, <4>4
      <4>6. u.seq = s.seq /\ u.len = m /\ u.fl = {}
            /\ u \in [seq : Int, len : Nat, fl : SUBSET {"FIN"}]
        BY <1>4, <2>0, <4>3, <4>5
      <4>7. u \in OSegs(lim, d)
        BY <4>6, <4>3, <3>4 DEF OSegs
      <4>8. EndSeq(u) = y.seq
        BY <4>6, <4>7, <4>3, OSegIs
      <4> QED  BY <2>2, <3>3, <4>4, <4>5, <4>6, <4>7, <4>8
    <3>6. CASE ~(EndSeq(t) > z.seq)
      <4>1. cut.seg = s /\ cut.left = left
        BY <1>3, <1>6, <3>2, <3>3, <3>6
      <4>2. EndSeq(s) <= z.seq
        BY <3>2, <3>4, <3>6, OSegIs
      <4> QED  BY <2>2, <3>3, <4>1, <4>2
    <3> QED  BY <3>5, <3>6
  <2>6. CASE n = Len(q)
    <3>1. left = <<>>
      BY <2>3, <2>6
    <3>2. cut.seg = t /\ cut.left = left
      BY <1>3, <1>6, <3>1
    <3>3. PICK f : f = fins(n)
      OBVIOUS
    <3>4. f \in SUBSET {"FIN"}
      <4>1. \A i \in 1..n : q[i].fl \in SUBSET {"FIN"}
        BY <2>1, <2>6 DEF OSegs
      <4> QED  BY <3>3, <4>1
    <3>5. f # {} => d /\ s.seq + s.len = lim
      <4> SUFFICES ASSUME f # {} PROVE d /\ s.seq + s.len = lim
        OBVIOUS
      <4>1. PICK i \in 1..n : q[i].fl # {}
        BY <3>3
      <4>2. i = Len(q)
        BY <1>1, <2>1, <2>6, <4>1
      <4>3. fins(i - 1) = {}
        <5>1. \A j \in 1..i - 1 : q[j].fl = {}
          BY <1>1, <2>1, <2>6, <4>2
        <5> QED  BY <5>1
      <4>z. PICK z : z = q[i]
        OBVIOUS
      <4>4. z \in OSegs(lim, d) /\ z.fl # {}
        BY <2>1, <2>6, <4>1, <4>z
      <4>5. z.seq + z.len = lim /\ d
        BY <4>4, OSegIs
      <4>6. s.seq + TcpLen([s EXCEPT !.fl = fins(i - 1)]) >= z.seq + z.len
        BY <1>2, <4>1, <4>z
      <4>7. PICK g : g = fins(i - 1)
        OBVIOUS
      <4>8. TcpLen([s EXCEPT !.fl = g]) = s.len
        <5>1. g = {}
          BY <4>3, <4>7
        <5>2. [s EXCEPT !.fl = g] = s
          BY <5>1, <1>4, <2>0
        <5> QED  BY <5>2, <1>4, <2>0 DEF TcpLen
      <4> QED  BY <4>5, <4>6, <4>7, <4>8, <1>4
    <3>u. PICK u : u = t
      OBVIOUS
    <3>6. u = [s EXCEPT !.fl = f]
      BY <3>3, <3>u
    <3>7. u.seq = s.seq /\ u.len = s.len /\ u.fl = f
          /\ u \in [seq : Int, len : Nat, fl : SUBSET {"FIN"}]
      BY <1>4, <3>4, <3>6
    <3>8. u \in OSegs(lim, d)
      BY <1>4, <2>0, <3>5, <3>7 DEF OSegs
    <3> QED  BY <3>1, <3>2, <3>7, <3>8, <3>u, OrderedEmpty
  <2> QED  BY <1>1, <1>2, <2>5, <2>6
<1> QED  BY <1>5, <1>6

OoseqOK(p, lim, d) ==
  Ordered(p.ooseq, lim, d) /\ (p.ooseq # <<>> => p.ooseq[1].seq > p.rcv_nxt)

DataFields == QueuedFields \cup {"flags", "rcv_ann_right_edge", "out"}

(* What tcp_receive does with data: q is p with more received. *)
DataStep(p, q, fb, w, c, start, lim, d) ==
  /\ Snd(q, fb, w, c) /\ Changes(p, q, DataFields)
  /\ Got(q, start, lim, d) /\ Moved(p, q, lim) /\ OoseqOK(q, lim, d)
  /\ KeepsEdge(p, q, lim)

(* A segment at rcv_nxt: it and the queued segments that follow on are
   taken, the queue stays ordered and within what the peer wrote. *)
LEMMA InOrderStep ==
  ASSUME NEW fb \in Int, NEW w \in Nat, NEW c \in BOOLEAN, NEW p, Snd(p, fb, w, c),
         NEW lim \in Int, NEW d \in BOOLEAN, NEW start \in Int, Got(p, start, lim, d),
         OoseqOK(p, lim, d), p.busy = TRUE,
         NEW s, CutToWindow(p, s) \in OSegs(lim, d), CutToWindow(p, s).seq = p.rcv_nxt
  PROVE  DataStep(p, ReceiveInOrder(p, s), fb, w, c, start, lim, d)
<1>v. PICK v : v = CutToWindow(p, s)
  OBVIOUS
<1>u. PICK cut : cut = CutToOoseq(p.ooseq, v)
  OBVIOUS
<1>o. PICK o : o = [p EXCEPT !.ooseq = cut.left]
  OBVIOUS
<1>q. PICK q : q = Take(o, cut.seg)
  OBVIOUS
<1>n. PICK n : n = Joining(q.ooseq, q.rcv_nxt)
  OBVIOUS
<1>r. PICK r : r = TakeFirst(q, n)
  OBVIOUS
<1>1. ReceiveInOrder(p, s) = Ack(r)
  BY <1>v, <1>u, <1>o, <1>q, <1>n, <1>r DEF ReceiveInOrder
<1>2. DOMAIN p = Fields /\ p.rcv_wnd \in Nat /\ p.rcv_nxt \in Int
  BY DEF Snd
<1>3. v \in OSegs(lim, d) /\ v.seq = p.rcv_nxt
  BY <1>v
<1>4. /\ cut.seg \in OSegs(lim, d) /\ cut.seg.seq = p.rcv_nxt
      /\ Ordered(cut.left, lim, d)
      /\ cut.left # <<>> => EndSeq(cut.seg) <= cut.left[1].seq
  <2>1. PICK z : z = p.ooseq
    OBVIOUS
  <2>2. Ordered(z, lim, d) /\ (z # <<>> => v.seq < z[1].seq)
    <3>1. z # <<>> => z[1].seq > p.rcv_nxt
      BY <2>1 DEF OoseqOK
    <3>2. z # <<>> => z[1].seq \in Int
      <4>1. Ordered(z, lim, d) /\ z \in Seq(OSegs(lim, d))
        BY <2>1 DEF OoseqOK, Ordered
      <4>2. z # <<>> => 1 \in 1..Len(z)
        BY <4>1
      <4>3. z # <<>> => z[1] \in OSegs(lim, d)
        BY <4>1, <4>2, OrderedFirst
      <4> QED  BY <4>3, OSegIs
    <3> QED  BY <1>2, <1>3, <2>1, <3>1, <3>2 DEF OoseqOK
  <2>3. /\ CutToOoseq(z, v).seg \in OSegs(lim, d) /\ CutToOoseq(z, v).seg.seq = v.seq
        /\ Ordered(CutToOoseq(z, v).left, lim, d)
        /\ CutToOoseq(z, v).left # <<>> =>
             EndSeq(CutToOoseq(z, v).seg) <= CutToOoseq(z, v).left[1].seq
    BY <1>3, <2>2, CutToOoseqIs
  <2> QED  BY <1>3, <1>u, <2>1, <2>3
<1>5. Changes(p, o, {"ooseq"}) /\ o.ooseq = cut.left
  BY <1>o, <1>2, FieldsAre DEF Changes
<1>6. Snd(o, fb, w, c)
  BY <1>5, SndChanges DEF SndFields
<1>7. Got(o, start, lim, d) /\ o.rcv_nxt = p.rcv_nxt
  BY <1>5, FieldsAre DEF Got, GotFin, Changes
<1>t. PICK t : t = cut.seg
  OBVIOUS
<1>8. /\ Snd(q, fb, w, c) /\ Changes(o, q, TakeFields)
      /\ Got(q, start, lim, d) /\ q.rcv_nxt = EndSeq(t) /\ KeepsEdge(o, q, lim)
  <2>1. t \in OSegs(lim, d) /\ t.seq = o.rcv_nxt
    BY <1>4, <1>7, <1>t
  <2> QED  BY <1>6, <1>7, <1>q, <1>t, <2>1, TakeIs
<1>9. q.ooseq = cut.left
  BY <1>5, <1>8, FieldsAre DEF Changes, TakeFields, ConsumeFields
<1>10. /\ n \in 0..Len(q.ooseq)
       /\ \A i \in 1..n : q.ooseq[i].seq = EndOf(q.ooseq, q.rcv_nxt, i - 1)
       /\ Ordered(q.ooseq, lim, d)
       /\ Ordered(Drop(q.ooseq, n), lim, d)
       /\ Drop(q.ooseq, n) # <<>> => Drop(q.ooseq, n)[1].seq > EndOf(q.ooseq, q.rcv_nxt, n)
  <2>1. PICK z, x : z = q.ooseq /\ x = q.rcv_nxt
    OBVIOUS
  <2>2. Ordered(z, lim, d) /\ x \in Int /\ (z # <<>> => x <= z[1].seq)
    <3>1. x \in Int
      BY <1>8, <2>1 DEF Snd
    <3> QED  BY <1>4, <1>8, <1>9, <1>t, <2>1, <3>1
  <2>3. /\ Joining(z, x) \in 0..Len(z)
        /\ \A i \in 1..Joining(z, x) : z[i].seq = EndOf(z, x, i - 1)
        /\ Ordered(Drop(z, Joining(z, x)), lim, d)
        /\ Drop(z, Joining(z, x)) # <<>> =>
             Drop(z, Joining(z, x))[1].seq > EndOf(z, x, Joining(z, x))
    BY <2>2, JoiningIs
  <2> QED  BY <1>n, <2>1, <2>2, <2>3
<1>11. TakenTo(q, r, n, fb, w, c, start, lim, d)
  BY <1>8, <1>10, <1>r, TakeFirstIs
<1>12. /\ Snd(r, fb, w, c) /\ Changes(q, r, QueuedFields) /\ Got(r, start, lim, d)
       /\ Moved(q, r, lim) /\ r.ooseq = Drop(q.ooseq, n) /\ KeepsEdge(q, r, lim)
       /\ r.rcv_nxt = EndOf(q.ooseq, q.rcv_nxt, n)
  BY <1>11 DEF TakenTo
<1>13. r.busy = TRUE /\ q.state = p.state
  BY <1>5, <1>8, <1>12, FieldsAre DEF Changes, TakeFields, ConsumeFields, QueuedFields
<1>a. PICK a : a = Ack(r)
  OBVIOUS
<1>14. Snd(a, fb, w, c) /\ Changes(r, a, {"flags"})
  BY <1>12, <1>13, <1>a, AckSnd
<1>15. Changes(p, a, DataFields)
  BY <1>5, <1>8, <1>12, <1>14 DEF Changes, DataFields, QueuedFields
<1>16. /\ a.rcv_nxt = r.rcv_nxt /\ a.recv_data = r.recv_data /\ a.recv_flags = r.recv_flags
       /\ a.ooseq = r.ooseq /\ a.state = r.state
  BY <1>14, FieldsAre DEF Changes
<1>17. Got(a, start, lim, d)
  BY <1>12, <1>16 DEF Got, GotFin
<1>18. Moved(p, a, lim)
  BY <1>12, <1>13, <1>16 DEF Moved
<1>19. OoseqOK(a, lim, d)
  BY <1>10, <1>12, <1>16 DEF OoseqOK
<1>20. KeepsEdge(p, a, lim)
  <2>1. KeepsEdge(p, o, lim)
    <3>1. o.rcv_ann_right_edge = p.rcv_ann_right_edge /\ p.rcv_ann_wnd \in Int
      BY <1>5, FieldsAre DEF Changes, Snd
    <3>2. {"ooseq"} \cap ConsumeFields = {}
      BY DEF ConsumeFields
    <3> QED  BY <1>2, <1>5, <3>1, <3>2, KeepsEdgeStill
  <2>2. KeepsEdge(r, a, lim)
    <3>1. /\ a.rcv_ann_right_edge = r.rcv_ann_right_edge /\ r.rcv_ann_wnd \in Int
          /\ r.rcv_nxt \in Int /\ r.rcv_wnd \in Nat
      BY <1>12, <1>14, FieldsAre DEF Changes, Snd
    <3>2. {"flags"} \cap ConsumeFields = {}
      BY DEF ConsumeFields
    <3> QED  BY <1>14, <3>1, <3>2, KeepsEdgeStill
  <2>3. KeepsEdge(p, q, lim)
    BY <1>8, <2>1, KeepsEdgeThen
  <2>4. KeepsEdge(p, r, lim)
    BY <1>12, <2>3, KeepsEdgeThen
  <2> QED  BY <2>2, <2>4, KeepsEdgeThen
<1> QED  BY <1>1, <1>a, <1>14, <1>15, <1>17, <1>18, <1>19, <1>20 DEF DataStep

(* A segment after rcv_nxt: nothing is taken, and the queue stays ordered
   and within what the peer wrote. *)
LEMMA OutOfOrderStep ==
  ASSUME NEW fb \in Int, NEW w \in Nat, NEW c \in BOOLEAN, NEW p, Snd(p, fb, w, c),
         NEW lim \in Int, NEW d \in BOOLEAN, NEW start \in Int, Got(p, start, lim, d),
         OoseqOK(p, lim, d),
         NEW s \in OSegs(lim, d), s.seq > p.rcv_nxt
  PROVE  DataStep(p, ReceiveOutOfOrder(p, s), fb, w, c, start, lim, d)
<1>r. PICK r : r = SendEmptyAck(p)
  OBVIOUS
<1>q. PICK q : q = ReceiveOutOfOrder(p, s)
  OBVIOUS
<1>1. DOMAIN p = Fields /\ p.rcv_nxt \in Int
  BY DEF Snd
<1>2. Snd(r, fb, w, c) /\ Changes(p, r, {"rcv_ann_right_edge", "flags", "out"})
  BY <1>1, <1>r, SendEmptyAckSnd, SendEmptyAckChanges
<1>3. q = [r EXCEPT !.ooseq = IF p.mem THEN InsertOoseq(@, s) ELSE @]
  BY <1>q, <1>r DEF ReceiveOutOfOrder
<1>4. /\ Changes(r, q, {"ooseq"})
      /\ q.ooseq = IF p.mem THEN InsertOoseq(r.ooseq, s) ELSE r.ooseq
  BY <1>2, <1>3, FieldsAre DEF Changes
<1>5. Changes(p, q, DataFields) /\ r.ooseq = p.ooseq
  BY <1>2, <1>4, FieldsAre DEF Changes, DataFields, QueuedFields
<1>6. /\ q.rcv_nxt = p.rcv_nxt /\ q.recv_data = p.recv_data /\ q.recv_flags = p.recv_flags
      /\ q.state = p.state
  BY <1>2, <1>4, FieldsAre DEF Changes
<1>7. Got(q, start, lim, d) /\ Moved(p, q, lim)
  BY <1>6 DEF Got, GotFin, Moved
<1>8. Snd(q, fb, w, c)
  BY <1>2, <1>4, SndChanges DEF SndFields
<1>9. OoseqOK(q, lim, d)
  <2>1. PICK z, x : z = p.ooseq /\ x = p.rcv_nxt
    OBVIOUS
  <2>2. Ordered(z, lim, d) /\ (z # <<>> => z[1].seq > x) /\ x \in Int /\ s.seq > x
    BY <1>1, <2>1 DEF OoseqOK
  <2>3. /\ Ordered(InsertOoseq(z, s), lim, d)
        /\ InsertOoseq(z, s) # <<>> => InsertOoseq(z, s)[1].seq > x
    BY <2>2, InsertOoseqOrdered
  <2>4. q.ooseq = z \/ q.ooseq = InsertOoseq(z, s)
    BY <1>4, <1>5, <2>1
  <2> QED  BY <1>6, <2>1, <2>2, <2>3, <2>4 DEF OoseqOK
<1>10. KeepsEdge(p, q, lim)
  <2>1. /\ p.rcv_wnd \in Nat /\ p.rcv_ann_wnd \in Int
        /\ Changes(p, q, {"rcv_ann_right_edge", "flags", "out", "ooseq"})
    BY <1>2, <1>4 DEF Snd, Changes
  <2>2. q.rcv_ann_right_edge = r.rcv_ann_right_edge
    BY <1>4, FieldsAre DEF Changes
  <2>3. r.rcv_ann_right_edge \in {p.rcv_ann_right_edge, p.rcv_nxt + p.rcv_ann_wnd}
    BY <1>1, <1>r, SendEmptyAckChanges
  <2>4. {"rcv_ann_right_edge", "flags", "out", "ooseq"} \cap ConsumeFields = {}
    BY DEF ConsumeFields
  <2> QED  BY <1>1, <2>1, <2>2, <2>3, <2>4, KeepsEdgeStill
<1> QED  BY <1>q, <1>5, <1>7, <1>8, <1>9, <1>10 DEF DataStep

(* What lies before rcv_nxt is cut off a segment. *)
LEMMA CutFrontIs ==
  ASSUME NEW lim \in Int, NEW d \in BOOLEAN, NEW s \in OSegs(lim, d), NEW p, p.rcv_nxt \in Int
  PROVE  CutFront(p, s) \in OSegs(lim, d) /\ CutFront(p, s).seq \in Int
<1>1. /\ s.seq \in Int /\ s.len \in Nat /\ s.fl \in SUBSET {"FIN"}
      /\ s \in [seq : Int, len : Nat, fl : SUBSET {"FIN"}]
      /\ s.fl = {} => s.len > 0
      /\ s.seq + s.len <= lim
      /\ s.fl # {} => d /\ s.seq + s.len = lim
  BY DEF OSegs
<1>2. /\ s.fl = {} => EndSeq(s) = s.seq + s.len
      /\ s.fl # {} => EndSeq(s) = s.seq + s.len + 1
  BY <1>1, OSegIs
<1>3. PICK x \in Int : x = p.rcv_nxt
  OBVIOUS
<1>4. CASE x \in s.seq + 1 .. EndSeq(s) - 1
  <2>1. PICK m : m = s.len - (x - s.seq)
    OBVIOUS
  <2>2. m \in Nat /\ x + m = s.seq + s.len /\ (s.fl = {} => m > 0)
    BY <1>1, <1>2, <1>4, <2>1
  <2>3. PICK t : t = CutFront(p, s)
    OBVIOUS
  <2>4. t = [s EXCEPT !.len = m, !.seq = x]
    BY <1>3, <1>4, <2>1, <2>3 DEF CutFront
  <2>5. t.seq = x /\ t.len = m /\ t.fl = s.fl
        /\ t \in [seq : Int, len : Nat, fl : SUBSET {"FIN"}]
    BY <1>1, <2>2, <2>4
  <2>6. t \in OSegs(lim, d)
    BY <1>1, <2>2, <2>5 DEF OSegs
  <2> QED  BY <2>3, <2>5, <2>6
<1>5. CASE ~(x \in s.seq + 1 .. EndSeq(s) - 1)
  BY <1>1, <1>3, <1>5 DEF CutFront
<1> QED  BY <1>4, <1>5

(* An ACK or nothing: tcp_receive takes nothing of the segment. *)
LEMMA SameStep ==
  ASSUME NEW fb, NEW w, NEW c \in BOOLEAN, NEW p,
         NEW lim \in Int, NEW d \in BOOLEAN, NEW start, Got(p, start, lim, d),
         OoseqOK(p, lim, d), NEW q, Snd(q, fb, w, c),
         Changes(p, q, {"flags", "rcv_ann_right_edge", "out"}),
         q.rcv_ann_right_edge \in {p.rcv_ann_right_edge, p.rcv_nxt + p.rcv_ann_wnd}
  PROVE  DataStep(p, q, fb, w, c, start, lim, d)
<1>1. Changes(p, q, DataFields)
  BY DEF Changes, DataFields
<1>2. /\ q.rcv_nxt = p.rcv_nxt /\ q.recv_data = p.recv_data /\ q.recv_flags = p.recv_flags
      /\ q.ooseq = p.ooseq /\ q.state = p.state
  BY FieldsAre DEF Changes
<1>3. Got(q, start, lim, d) /\ Moved(p, q, lim) /\ OoseqOK(q, lim, d)
  BY <1>2 DEF Got, GotFin, Moved, OoseqOK
<1>4. KeepsEdge(p, q, lim)
  <2>1. p.rcv_nxt \in Int /\ p.rcv_wnd \in Nat /\ p.rcv_ann_wnd \in Int
    BY FieldsAre DEF Changes, Snd
  <2>2. {"flags", "rcv_ann_right_edge", "out"} \cap ConsumeFields = {}
    BY DEF ConsumeFields
  <2> QED  BY <2>1, <2>2, KeepsEdgeStill
<1> QED  BY <1>1, <1>3, <1>4 DEF DataStep

(* Setting a flag before such a step is part of the step. *)
LEMMA DataStepAfter ==
  ASSUME NEW fb, NEW w, NEW c \in BOOLEAN, NEW p, NEW lim, NEW d \in BOOLEAN, NEW start,
         NEW q, Changes(p, q, {"flags"}), NEW r, DataStep(q, r, fb, w, c, start, lim, d)
  PROVE  DataStep(p, r, fb, w, c, start, lim, d)
<1>1. /\ q.state = p.state /\ q.rcv_nxt = p.rcv_nxt /\ q.rcv_wnd = p.rcv_wnd
      /\ q.rcv_ann_wnd = p.rcv_ann_wnd /\ q.rcv_ann_right_edge = p.rcv_ann_right_edge
  BY FieldsAre DEF Changes
<1>2. Changes(q, r, DataFields) /\ Moved(q, r, lim) /\ KeepsEdge(q, r, lim)
  BY DEF DataStep
<1>3. Changes(p, r, DataFields)
  BY <1>2 DEF Changes, DataFields
<1>4. KeepsEdge(p, r, lim)
  BY <1>1, <1>2 DEF KeepsEdge, Edged, Edge
<1> QED  BY <1>1, <1>2, <1>3, <1>4 DEF DataStep, Moved

(* The part of a segment that tcp_receive looks at, cut to what is new. *)
Stripped(p, s) ==
  CutFront(p, [seq |-> s.seq, len |-> s.len, fl |-> s.fl \cap {"FIN"}])

(* What tcp_receive takes or queues of a segment is of the peer's stream. *)
DataFits(p, t, lim, d) ==
  InWindow(p, t.seq) =>
    IF t.seq = p.rcv_nxt
      THEN CutToWindow(p, t) \in OSegs(lim, d) /\ CutToWindow(p, t).seq = p.rcv_nxt
      ELSE t \in OSegs(lim, d)

Awaits(p, fb, w, c, start, lim, d) ==
  /\ Snd(p, fb, w, c) /\ Got(p, start, lim, d) /\ OoseqOK(p, lim, d) /\ p.busy = TRUE

(* tcp_receive and the data of a segment that fits. *)
LEMMA ReceiveFitting ==
  ASSUME NEW fb \in Int, NEW w \in Nat, NEW c \in BOOLEAN, NEW p, NEW s,
         NEW d \in BOOLEAN, NEW lim \in Int,
         NEW start \in Int, Awaits(p, fb, w, c, start, lim, d),
         TcpLen(s) # 0 => DataFits(p, Stripped(p, s), lim, d)
  PROVE  DataStep(p, ReceiveData(p, s), fb, w, c, start, lim, d)
<1>0. Snd(p, fb, w, c) /\ Got(p, start, lim, d) /\ OoseqOK(p, lim, d) /\ p.busy = TRUE
  BY DEF Awaits
<1> USE <1>0
<1>t. PICK t : t = Stripped(p, s)
  OBVIOUS
<1>q. PICK q : q = IF t.seq < p.rcv_nxt THEN AckNow(p) ELSE p
  OBVIOUS
<1>1. ReceiveData(p, s) =
        IF TcpLen(s) = 0
          THEN IF InWindow(p, s.seq) THEN p ELSE AckNow(p)
        ELSE IF ~InWindow(p, t.seq) THEN SendEmptyAck(q)
        ELSE IF t.seq = p.rcv_nxt THEN ReceiveInOrder(q, t)
        ELSE ReceiveOutOfOrder(q, t)
  BY <1>t, <1>q DEF ReceiveData, Stripped
<1>2. DOMAIN p = Fields /\ p.rcv_nxt \in Int /\ p.rcv_wnd \in Nat
  BY DEF Snd
<1>3. /\ Snd(p, fb, w, c) /\ Changes(p, p, {"flags"})
      /\ Snd(AckNow(p), fb, w, c) /\ Changes(p, AckNow(p), {"flags"})
  BY <1>2, AckNowSnd, ChangesNone
<1>4. \A x : Snd(x, fb, w, c) /\ Changes(p, x, {"flags"})
               => DataStep(p, x, fb, w, c, start, lim, d)
  <2> SUFFICES ASSUME NEW x, Snd(x, fb, w, c), Changes(p, x, {"flags"})
               PROVE  DataStep(p, x, fb, w, c, start, lim, d)
    OBVIOUS
  <2>1. Changes(p, x, {"flags", "rcv_ann_right_edge", "out"})
        /\ x.rcv_ann_right_edge = p.rcv_ann_right_edge
    BY FieldsAre DEF Changes
  <2> QED  BY <2>1, SameStep
<1>5. Snd(q, fb, w, c) /\ Changes(p, q, {"flags"})
  BY <1>3, <1>q
<1>7a. /\ q.rcv_nxt = p.rcv_nxt /\ q.recv_data = p.recv_data /\ q.recv_flags = p.recv_flags
       /\ q.ooseq = p.ooseq /\ q.busy = p.busy /\ q.rcv_wnd = p.rcv_wnd
       /\ q.rcv_ann_wnd = p.rcv_ann_wnd /\ q.rcv_ann_right_edge = p.rcv_ann_right_edge
  BY <1>5, FieldsAre DEF Changes
<1>6. DataStep(p, SendEmptyAck(q), fb, w, c, start, lim, d)
  <2>1. DOMAIN q = Fields
    BY <1>5 DEF Changes
  <2>2. PICK x : x = SendEmptyAck(q)
    OBVIOUS
  <2>3. /\ Snd(x, fb, w, c) /\ Changes(q, x, {"rcv_ann_right_edge", "flags", "out"})
        /\ x.rcv_ann_right_edge \in {q.rcv_ann_right_edge, q.rcv_nxt + q.rcv_ann_wnd}
    BY <1>5, <2>1, <2>2, SendEmptyAckSnd, SendEmptyAckChanges
  <2>4. Changes(p, x, {"flags", "rcv_ann_right_edge", "out"})
    BY <1>5, <2>3 DEF Changes
  <2>5. DataStep(p, x, fb, w, c, start, lim, d)
    BY <1>7a, <2>3, <2>4, SameStep
  <2> QED  BY <2>2, <2>5
<1>7. CASE TcpLen(s) = 0
  BY <1>1, <1>3, <1>4, <1>7
<1>8. CASE ~InWindow(p, t.seq) /\ TcpLen(s) # 0
  BY <1>1, <1>6, <1>8
<1>9. CASE InWindow(p, t.seq) /\ TcpLen(s) # 0
  <2>1. DataFits(p, t, lim, d) /\ t.seq \in Int /\ t.seq >= p.rcv_nxt
    BY <1>2, <1>9, <1>t DEF InWindow
  <2>2. Got(q, start, lim, d) /\ OoseqOK(q, lim, d) /\ q.busy = TRUE
    BY <1>7a DEF Got, GotFin, OoseqOK
  <2>3. CASE t.seq = p.rcv_nxt
    <3>1. CutToWindow(p, t) \in OSegs(lim, d) /\ CutToWindow(p, t).seq = p.rcv_nxt
      BY <1>9, <2>1, <2>3 DEF DataFits
    <3>2. CutToWindow(q, t) = CutToWindow(p, t)
      BY <1>7a DEF CutToWindow
    <3>3. DataStep(q, ReceiveInOrder(q, t), fb, w, c, start, lim, d)
      <4>1. CutToWindow(q, t) \in OSegs(lim, d) /\ CutToWindow(q, t).seq = q.rcv_nxt
        BY <1>7a, <3>1, <3>2
      <4> HIDE <1>0
      <4> QED  BY <1>5, <2>2, <4>1, InOrderStep
    <3>4. DataStep(p, ReceiveInOrder(q, t), fb, w, c, start, lim, d)
      BY <1>5, <3>3, DataStepAfter
    <3> QED  BY <1>1, <1>9, <2>3, <3>4
  <2>4. CASE t.seq # p.rcv_nxt
    <3>1. t \in OSegs(lim, d)
      BY <1>9, <2>1, <2>4 DEF DataFits
    <3>2. DataStep(q, ReceiveOutOfOrder(q, t), fb, w, c, start, lim, d)
      <4>1. t.seq > q.rcv_nxt
        BY <1>2, <1>7a, <2>1, <2>4
      <4> QED  BY <1>5, <2>2, <3>1, <4>1, OutOfOrderStep
    <3>3. DataStep(p, ReceiveOutOfOrder(q, t), fb, w, c, start, lim, d)
      BY <1>5, <3>2, DataStepAfter
    <3> QED  BY <1>1, <1>9, <2>4, <3>3
  <2> QED  BY <2>3, <2>4
<1> QED  BY <1>7, <1>8, <1>9

(* The block before that, and a segment of the peer, which has written up to
   lim. *)
Incoming(p, s, fb, w, c, fr, start, lim, d) ==
  /\ Snd(p, fb, w, c) /\ start >= fr /\ Got(p, start, lim, d)
  /\ OoseqOK(p, lim, d) /\ p.busy = TRUE
  /\ s \in WSegs(fr, lim - fr, d) /\ "RST" \notin s.fl

(* What is new of a segment of the peer is of its stream. *)
LEMMA StrippedIs ==
  ASSUME NEW p, p.rcv_nxt \in Int, NEW fr \in Int, p.rcv_nxt >= fr,
         NEW d \in BOOLEAN, NEW lim \in Int, NEW n \in Nat, lim = fr + n,
         NEW s \in WSegs(fr, n, d), TcpLen(s) # 0, Stripped(p, s).seq >= p.rcv_nxt
  PROVE  Stripped(p, s) \in OSegs(lim, d)
<1>s. PICK z : z = [seq |-> s.seq, len |-> s.len, fl |-> s.fl \cap {"FIN"}]
  OBVIOUS
<1>t. PICK t : t = CutFront(p, z)
  OBVIOUS
<1>1. /\ s.seq \in Int /\ s.len \in Nat /\ s.fl \in SUBSET {"SYN", "FIN", "RST", "ACK"}
      /\ "SYN" \in s.fl => "FIN" \notin s.fl /\ s.len = 0 /\ s.seq = fr - 1
      /\ s.len > 0 => s.seq + s.len <= fr + n
      /\ "FIN" \in s.fl => d /\ s.seq + s.len = fr + n
  BY DEF WSegs
<1>2. z.seq = s.seq /\ z.len = s.len /\ z.fl = s.fl \cap {"FIN"}
      /\ z \in [seq : Int, len : Nat, fl : SUBSET {"FIN"}]
  BY <1>s, <1>1
<1>3. t = Stripped(p, s) /\ t.seq >= p.rcv_nxt
  BY <1>s, <1>t DEF Stripped
<1>4. "SYN" \notin s.fl
  <2> SUFFICES ASSUME "SYN" \in s.fl PROVE FALSE
    OBVIOUS
  <2>1. z.fl = {} /\ z.len = 0 /\ z.seq = fr - 1
    BY <1>1, <1>2
  <2>2. EndSeq(z) = z.seq
    BY <2>1 DEF EndSeq, TcpLen
  <2>3. ~(p.rcv_nxt \in z.seq + 1 .. EndSeq(z) - 1)
    BY <1>1, <2>1, <2>2
  <2>4. t = z
    BY <1>t, <2>3 DEF CutFront
  <2> QED  BY <1>3, <2>1, <2>4
<1>5. z \in OSegs(lim, d)
  <2>1. s.fl \cap {"SYN", "FIN"} = z.fl
    BY <1>2, <1>4
  <2>2. z.fl = {} => z.len > 0
    BY <1>1, <1>2, <2>1 DEF TcpLen
  <2>3. z.fl # {} => d /\ z.seq + z.len = lim
    BY <1>1, <1>2
  <2>4. z.seq + z.len <= lim
    BY <1>1, <1>2, <2>2, <2>3
  <2> QED  BY <1>2, <2>2, <2>3, <2>4 DEF OSegs
<1> QED  BY <1>3, <1>5, <1>t, CutFrontIs

(* tcp_receive and the data of a segment. *)
LEMMA ReceiveDataStep ==
  ASSUME NEW fb \in Int, NEW w \in Nat, NEW c \in BOOLEAN, NEW p, NEW s,
         NEW fr \in Int, NEW d \in BOOLEAN, NEW lim \in Int, lim >= fr,
         NEW start \in Int, Incoming(p, s, fb, w, c, fr, start, lim, d)
  PROVE  DataStep(p, ReceiveData(p, s), fb, w, c, start, lim, d)
<1>n. PICK n \in Nat : n = lim - fr
  OBVIOUS
<1>0. /\ Snd(p, fb, w, c) /\ start >= fr /\ Got(p, start, lim, d)
      /\ OoseqOK(p, lim, d) /\ p.busy = TRUE /\ lim = fr + n
      /\ s \in WSegs(fr, n, d)
  BY <1>n DEF Incoming
<1>t. PICK t : t = Stripped(p, s)
  OBVIOUS
<1>1. /\ p.rcv_nxt \in Int /\ p.rcv_wnd \in Nat /\ p.rcv_nxt >= fr
  BY <1>0 DEF Snd, Got
<1>2. ASSUME TcpLen(s) # 0
      PROVE  DataFits(p, t, lim, d)
  <2> SUFFICES ASSUME InWindow(p, t.seq)
               PROVE  IF t.seq = p.rcv_nxt
                        THEN /\ CutToWindow(p, t) \in OSegs(lim, d)
                             /\ CutToWindow(p, t).seq = p.rcv_nxt
                        ELSE t \in OSegs(lim, d)
    BY DEF DataFits
  <2>1. t.seq >= p.rcv_nxt /\ p.rcv_wnd > 0
    BY <1>1 DEF InWindow
  <2>2. t \in OSegs(lim, d)
    BY <1>0, <1>1, <1>2, <1>t, <2>1, StrippedIs
  <2>3. CutToWindow(p, t) \in OSegs(lim, d) /\ CutToWindow(p, t).seq = t.seq
    BY <1>1, <2>1, <2>2, CutToWindowIs
  <2> QED  BY <2>2, <2>3
<1>3. Awaits(p, fb, w, c, start, lim, d)
  BY <1>0 DEF Awaits
<1> QED  BY <1>2, <1>3, <1>t, ReceiveFitting

-----------------------------------------------------------------------------
(* The window given back *)

(* Giving back n bytes of window changes only rcv_wnd and the announced
   window. *)
LEMMA CreditIs ==
  ASSUME NEW fb \in Int, NEW w \in Nat, NEW c \in BOOLEAN, NEW p, Snd(p, fb, w, c),
         NEW n \in Int
  PROVE  Snd(Credit(p, n), fb, w, c) /\ Changes(p, Credit(p, n), {"rcv_wnd", "rcv_ann_wnd"})
<1>m. PICK m : m = Lesser((p.rcv_wnd + n) % U16, TCP_WND)
  OBVIOUS
<1>q. PICK q : q = [p EXCEPT !.rcv_wnd = m]
  OBVIOUS
<1>r. PICK r : r = [q EXCEPT !.rcv_ann_wnd = AnnWnd(q)]
  OBVIOUS
<1>1. U16 \in Nat \ {0} /\ TCP_WND \in Nat
  BY OutAssumption, WndAssumption
<1>2. DOMAIN p = Fields /\ p.rcv_nxt \in Int /\ p.rcv_ann_right_edge \in Int /\ p.rcv_wnd \in Nat
  BY DEF Snd
<1>3. m \in Nat
  <2>1. (p.rcv_wnd + n) % U16 \in Nat
    BY <1>1, <1>2
  <2> QED  BY <1>1, <1>m, <2>1 DEF Lesser
<1>4. Credit(p, n) = r
  BY <1>m, <1>q, <1>r DEF Credit, UpdateRcvAnnWnd
<1>5. Changes(p, q, {"rcv_wnd"}) /\ q.rcv_wnd = m
  BY <1>q, <1>2, FieldsAre DEF Changes
<1>6. q.rcv_nxt = p.rcv_nxt /\ q.rcv_ann_right_edge = p.rcv_ann_right_edge
  BY <1>5, FieldsAre DEF Changes
<1>7. AnnWnd(q) \in Int
  BY <1>2, <1>3, <1>5, <1>6, AnnWndInt
<1>8. Changes(q, r, {"rcv_ann_wnd"}) /\ r.rcv_ann_wnd = AnnWnd(q)
  BY <1>r, <1>5, FieldsAre DEF Changes
<1>9. Changes(p, r, {"rcv_wnd", "rcv_ann_wnd"}) /\ r.rcv_wnd = m
  BY <1>5, <1>8, FieldsAre DEF Changes
<1>10. Snd(r, fb, w, c)
  BY <1>3, <1>7, <1>8, <1>9, FieldsAre DEF Changes, Snd
<1> QED  BY <1>4, <1>9, <1>10

-----------------------------------------------------------------------------
(* The acknowledgement *)

AckFields ==
  {"snd_wnd", "snd_wl1", "snd_wl2", "persist_backoff", "dupacks", "cwnd",
   "ssthresh", "unsent", "unacked", "nrtx", "flags", "lastack", "snd_buf",
   "acked", "snd_queuelen", "rtime"}

SentOnly == {"out", "snd_nxt", "rcv_nxt", "rcv_ann_wnd", "rcv_ann_right_edge", "rcv_wnd"}

(* A step that changes the queues only to sequences of sound segments, and
   lastack and dupacks to numbers, keeps the sender sound. *)
LEMMA SndFrom ==
  ASSUME NEW fb, NEW w, NEW c \in BOOLEAN, NEW p, Snd(p, fb, w, c),
         NEW q, NEW S, Changes(p, q, S), S \subseteq Fields \ SentOnly,
         q.unsent \in Seq(QSegs(fb, w, c)), q.unacked \in Seq(QSegs(fb, w, c)),
         q.lastack \in Int, q.dupacks \in Int
  PROVE  Snd(q, fb, w, c)
<1>1. /\ q.out = p.out /\ q.snd_nxt = p.snd_nxt /\ q.rcv_nxt = p.rcv_nxt
      /\ q.rcv_ann_wnd = p.rcv_ann_wnd /\ q.rcv_ann_right_edge = p.rcv_ann_right_edge
      /\ q.rcv_wnd = p.rcv_wnd /\ DOMAIN q = Fields
  BY FieldsAre DEF Changes, SentOnly
<1> QED  BY <1>1 DEF Snd

(* The window update of tcp_receive changes only the sender's view of the
   peer's window. *)
LEMMA UpdateWindowIs ==
  ASSUME NEW p, DOMAIN p = Fields, NEW s
  PROVE  Changes(p, UpdateWindow(p, s), {"snd_wnd", "snd_wl1", "snd_wl2", "persist_backoff"})
BY FieldsAre DEF Changes, UpdateWindow

(* The segments an ACK covers are a first part of the queue. *)
LEMMA CoveredIs ==
  ASSUME NEW S, NEW q \in Seq(S), NEW ack
  PROVE  /\ Covered(q, ack) \in 0..Len(q)
         /\ Drop(q, Covered(q, ack)) \in Seq(S)
<1> DEFINE T == {i \in Nat : EndSeq(q[i]) <= ack}
           n == Covered(q, ack)
<1>1. Len(q) \in Nat
  OBVIOUS
<1>2. n \in 0..Len(q)
  <2>1. \A k \in 0..Len(q) : \A j \in 1..k : j \in Nat
    OBVIOUS
  <2>2. {k \in 0..Len(q) : \A j \in 1..k : j \in T}
          = {k \in 0..Len(q) : \A j \in 1..k : EndSeq(q[j]) <= ack}
    BY <2>1
  <2>3. n = Max({k \in 0..Len(q) : \A j \in 1..k : j \in T})
    BY <2>2 DEF Lead, Covered
  <2> HIDE DEF T, n
  <2> QED  BY <1>1, <2>3, LeadMax
<1> HIDE DEF n
<1>3. Drop(q, n) \in Seq(S)
  BY <1>2, DropIs
<1> QED  BY <1>2, <1>3 DEF n

(* A duplicate ACK keeps the sender sound. *)
LEMMA DuplicateAckSnd ==
  ASSUME NEW fb \in Int, NEW w \in Nat, NEW c \in BOOLEAN, NEW p, Snd(p, fb, w, c)
  PROVE  Snd(DuplicateAck(p), fb, w, c) /\ Changes(p, DuplicateAck(p), AckFields)
<1>n. PICK n : n = (p.dupacks + 1) % U8
  OBVIOUS
<1>q. PICK q : q = [p EXCEPT !.dupacks = n]
  OBVIOUS
<1>1. n \in Int /\ DOMAIN p = Fields
  <2>1. p.dupacks \in Int /\ U8 \in Nat \ {0}
    BY InAssumption DEF Snd
  <2> QED  BY <1>n, <2>1 DEF Snd
<1>2. Changes(p, q, {"dupacks"}) /\ q.dupacks = n
  BY <1>1, <1>q, FieldsAre DEF Changes
<1>3. Snd(q, fb, w, c)
  BY <1>1, <1>2, FieldsAre DEF Changes, Snd
<1>4. DuplicateAck(p) = CASE n > 3 -> [q EXCEPT !.cwnd = Grown(@, MSS)]
                          [] n = 3 -> RexmitFast(q)
                          [] n < 3 -> q
  BY <1>n, <1>q DEF DuplicateAck
<1>5. CASE n > 3
  <2>1. DuplicateAck(p) = [q EXCEPT !.cwnd = Grown(@, MSS)]
    BY <1>1, <1>4, <1>5
  <2>2. PICK r : r = [q EXCEPT !.cwnd = Grown(@, MSS)]
    OBVIOUS
  <2>3. Changes(q, r, {"cwnd"})
    BY <1>2, <2>2, FieldsAre DEF Changes
  <2>4. Snd(r, fb, w, c)
    BY <1>3, <2>3, SndChanges DEF SndFields
  <2>5. Changes(p, r, AckFields)
    BY <1>2, <2>3 DEF Changes, AckFields
  <2> QED  BY <2>1, <2>2, <2>4, <2>5
<1>6. CASE n = 3
  <2>1. DuplicateAck(p) = RexmitFast(q)
    BY <1>1, <1>4, <1>6
  <2>2. PICK r : r = RexmitFast(q)
    OBVIOUS
  <2>3. Snd(r, fb, w, c) /\ Changes(q, r, RexmitFastFields)
    BY <1>3, <2>2, RexmitFastSnd
  <2>5. Changes(p, r, AckFields)
    BY <1>2, <2>3 DEF Changes, AckFields, RexmitFastFields
  <2> QED  BY <2>1, <2>2, <2>3, <2>5
<1>7. CASE n < 3
  <2>1. DuplicateAck(p) = q
    BY <1>1, <1>4, <1>7
  <2>5. Changes(p, q, AckFields)
    BY <1>2 DEF Changes, AckFields
  <2> QED  BY <1>3, <2>1, <2>5
<1> QED  BY <1>1, <1>5, <1>6, <1>7

(* An ACK of new data keeps the sender sound. *)
LEMMA NewAckSnd ==
  ASSUME NEW fb \in Int, NEW w \in Nat, NEW c \in BOOLEAN, NEW p, Snd(p, fb, w, c),
         NEW ack \in Int
  PROVE  Snd(NewAck(p, ack), fb, w, c) /\ Changes(p, NewAck(p, ack), AckFields)
<1>q. PICK q : q = NewAck(p, ack)
  OBVIOUS
<1>n. PICK n : n = Covered(p.unacked, ack)
  OBVIOUS
<1>1. DOMAIN p = Fields
  BY DEF Snd
<1>2. Changes(p, q, AckFields)
  BY <1>q, <1>1, FieldsAre DEF Changes, NewAck, AckFields
<1>3. /\ q.lastack = ack /\ q.unacked = Drop(p.unacked, n) /\ q.unsent = p.unsent
      /\ q.dupacks = 0
  BY <1>q, <1>n, <1>1, FieldsAre DEF NewAck
<1>4. Drop(p.unacked, n) \in Seq(QSegs(fb, w, c))
  <2>1. PICK z, Q : z = p.unacked /\ Q = QSegs(fb, w, c)
    OBVIOUS
  <2>2. z \in Seq(Q)
    BY <2>1 DEF Snd
  <2>3. Drop(z, Covered(z, ack)) \in Seq(Q)
    BY <2>2, CoveredIs
  <2> QED  BY <1>n, <2>1, <2>3
<1>5. Snd(q, fb, w, c)
  <2>1. AckFields \subseteq Fields \ SentOnly
    BY FieldsAre DEF AckFields, SentOnly
  <2>2. /\ q.unsent \in Seq(QSegs(fb, w, c)) /\ q.unacked \in Seq(QSegs(fb, w, c))
        /\ q.lastack \in Int /\ q.dupacks \in Int
    BY <1>3, <1>4 DEF Snd
  <2> QED  BY <1>2, <2>1, <2>2, SndFrom
<1> QED  BY <1>q, <1>2, <1>5

(* Freeing the segments of unsent that an ACK covers, those of a
   retransmission, keeps the sender sound. *)
LEMMA FreeUnsentSnd ==
  ASSUME NEW fb \in Int, NEW w \in Nat, NEW c \in BOOLEAN, NEW p, Snd(p, fb, w, c),
         NEW ack \in Int
  PROVE  Snd(FreeUnsent(p, ack), fb, w, c)
         /\ Changes(p, FreeUnsent(p, ack), {"acked", "unsent", "snd_queuelen"})
<1>q. PICK q : q = FreeUnsent(p, ack)
  OBVIOUS
<1>n. PICK n : n = IF ack <= p.snd_nxt THEN Covered(p.unsent, ack) ELSE 0
  OBVIOUS
<1>1. DOMAIN p = Fields
  BY DEF Snd
<1>2. Changes(p, q, {"acked", "unsent", "snd_queuelen"}) /\ q.unsent = Drop(p.unsent, n)
  BY <1>q, <1>n, <1>1, FieldsAre DEF Changes, FreeUnsent
<1>4. Drop(p.unsent, n) \in Seq(QSegs(fb, w, c))
  <2>1. PICK z, Q : z = p.unsent /\ Q = QSegs(fb, w, c)
    OBVIOUS
  <2>2. z \in Seq(Q) /\ Len(z) \in Nat
    BY <2>1 DEF Snd
  <2>3. Drop(z, Covered(z, ack)) \in Seq(Q)
    BY <2>2, CoveredIs
  <2>4. Drop(z, 0) \in Seq(Q)
    <3>1. 0 \in 0..Len(z)
      BY <2>2
    <3> QED  BY <2>2, <3>1, DropIs
  <2> QED  BY <1>n, <2>1, <2>3, <2>4
<1>5. Snd(q, fb, w, c)
  BY <1>2, <1>4, FieldsAre DEF Changes, Snd
<1> QED  BY <1>q, <1>2, <1>5

(* The ACK half of tcp_receive keeps the sender sound and leaves the
   receiving side alone. *)
LEMMA ReceiveAckSnd ==
  ASSUME NEW fb \in Int, NEW w \in Nat, NEW c \in BOOLEAN, NEW p, Snd(p, fb, w, c),
         NEW s, s.ack \in Int
  PROVE  Snd(ReceiveAck(p, s), fb, w, c) /\ Changes(p, ReceiveAck(p, s), AckFields)
<1>w. PICK u : u = UpdateWindow(p, s)
  OBVIOUS
<1>z. PICK z : z = [u EXCEPT !.acked = 0]
  OBVIOUS
<1>a. PICK ack \in Int : ack = s.ack
  OBVIOUS
<1>q. PICK q : q = CASE ack <= p.lastack ->
                           IF IsDuplicate(p, u, s) THEN DuplicateAck(z)
                           ELSE [z EXCEPT !.dupacks = 0]
                     [] ack \in p.lastack + 1 .. p.snd_nxt -> NewAck(u, ack)
                     [] OTHER -> z
  OBVIOUS
<1>1. ReceiveAck(p, s) = IF "ACK" \in s.fl THEN FreeUnsent(q, ack) ELSE p
  BY <1>w, <1>z, <1>a, <1>q DEF ReceiveAck
<1>2. DOMAIN p = Fields /\ p.lastack \in Int /\ p.snd_nxt \in Int
  BY DEF Snd
<1>3. Changes(p, u, {"snd_wnd", "snd_wl1", "snd_wl2", "persist_backoff"})
  BY <1>2, <1>w, UpdateWindowIs
<1>4. Snd(u, fb, w, c)
  BY <1>3, SndChanges DEF SndFields
<1>5. Changes(u, z, {"acked"})
  BY <1>3, <1>z, FieldsAre DEF Changes
<1>6. Snd(z, fb, w, c)
  BY <1>4, <1>5, SndChanges DEF SndFields
<1>7. Changes(p, u, AckFields) /\ Changes(p, z, AckFields)
  BY <1>3, <1>5 DEF Changes, AckFields
<1>8. Snd(q, fb, w, c) /\ Changes(p, q, AckFields)
  <2>1. CASE ack <= p.lastack /\ IsDuplicate(p, u, s)
    <3>1. ~(ack \in p.lastack + 1 .. p.snd_nxt)
      BY <1>2, <2>1
    <3>2. q = DuplicateAck(z)
      BY <1>q, <2>1, <3>1
    <3>3. Snd(q, fb, w, c) /\ Changes(z, q, AckFields)
      BY <1>6, <3>2, DuplicateAckSnd
    <3> QED  BY <1>7, <3>3, ChangesThen
  <2>2. CASE ack <= p.lastack /\ ~IsDuplicate(p, u, s)
    <3>1. ~(ack \in p.lastack + 1 .. p.snd_nxt)
      BY <1>2, <2>2
    <3>2. q = [z EXCEPT !.dupacks = 0]
      BY <1>q, <2>2, <3>1
    <3>3. Changes(z, q, {"dupacks"}) /\ q.dupacks = 0
      BY <1>5, <3>2, FieldsAre DEF Changes
    <3>4. Snd(q, fb, w, c)
      <4>1. {"dupacks"} \subseteq Fields \ SentOnly
        BY FieldsAre DEF SentOnly
      <4>2. /\ q.unsent \in Seq(QSegs(fb, w, c)) /\ q.unacked \in Seq(QSegs(fb, w, c))
            /\ q.lastack \in Int /\ q.dupacks \in Int
        <5>1. q.unsent = z.unsent /\ q.unacked = z.unacked /\ q.lastack = z.lastack
          BY <3>3, FieldsAre DEF Changes
        <5> QED  BY <1>6, <3>3, <5>1 DEF Snd
      <4> QED  BY <1>6, <3>3, <4>1, <4>2, SndFrom
    <3>5. Changes(p, q, AckFields)
      BY <1>7, <3>3 DEF Changes, AckFields
    <3> QED  BY <3>4, <3>5
  <2>3. CASE ack \in p.lastack + 1 .. p.snd_nxt
    <3>1. ~(ack <= p.lastack)
      BY <1>2, <2>3
    <3>2. q = NewAck(u, ack)
      BY <1>q, <2>3, <3>1
    <3>3. Snd(q, fb, w, c) /\ Changes(u, q, AckFields)
      BY <1>4, <3>2, NewAckSnd
    <3> QED  BY <1>7, <3>3, ChangesThen
  <2>4. CASE ~(ack <= p.lastack) /\ ~(ack \in p.lastack + 1 .. p.snd_nxt)
    <3>1. q = z
      BY <1>q, <2>4
    <3> QED  BY <1>6, <1>7, <3>1
  <2> QED  BY <2>1, <2>2, <2>3, <2>4
<1>f. PICK f : f = FreeUnsent(q, ack)
  OBVIOUS
<1>9. Snd(f, fb, w, c) /\ Changes(q, f, {"acked", "unsent", "snd_queuelen"})
  BY <1>8, <1>f, FreeUnsentSnd
<1>10. Changes(p, f, AckFields)
  BY <1>8, <1>9 DEF Changes, AckFields
<1>11. Changes(p, p, AckFields)
  BY <1>2, ChangesNone
<1> QED  BY <1>1, <1>f, <1>9, <1>10, <1>11

=============================================================================
