-------------------------- MODULE RcvWindow_proofs --------------------------
(***************************************************************************)
(* Proofs about RcvWindow, for every window size, segment size and bound.  *)
(*                                                                         *)
(* The inductive invariant has two parts.  WindowInv relates the buffer,   *)
(* the announced edge and the bytes outside the buffer, and holds even     *)
(* when ACKs do not leave.  PendingInv says that an ACK is pending for     *)
(* whatever the peer does not know yet, until one stayed behind.           *)
(***************************************************************************)
EXTENDS RcvWindow, TLAPS

(* What every operator on the window keeps. *)
Sound(p) ==
  /\ p \in WindowBlock
  /\ p.rcv_ann_right_edge <= p.rcv_nxt + p.rcv_wnd
  /\ p.rcv_ann_wnd = AnnWnd(p)

WindowInv ==
  /\ Sound(pcb)
  /\ refused_data \in Nat
  /\ unread \in Nat
  /\ fin \in 0..1
  /\ WindowConserved

(* What a function that only transmits or credits may do to the window. *)
Later(p, q) ==
  /\ Sound(q)
  /\ q.rcv_nxt = p.rcv_nxt
  /\ q.rcv_ann_right_edge >= p.rcv_ann_right_edge

-----------------------------------------------------------------------------
(* The thresholds are numbers. *)
LEMMA Thresholds == EdgeStep \in Nat /\ UpdateThreshold \in Nat
<1>1. TCP_WND \div 2 \in Nat /\ TCP_WND \div 4 \in Nat
  BY WndAssumption
<1>2. QED
  BY <1>1, WndAssumption DEF EdgeStep, UpdateThreshold, Lesser

(* The window to announce fits the free buffer and never moves the edge
   back: tcp_update_rcv_ann_wnd, in each of its three branches. *)
LEMMA AnnWndBounds ==
  ASSUME NEW p \in WindowBlock,
         p.rcv_ann_right_edge <= p.rcv_nxt + p.rcv_wnd
  PROVE  /\ AnnWnd(p) \in 0..p.rcv_wnd
         /\ p.rcv_nxt + AnnWnd(p) >= p.rcv_ann_right_edge
<1>1. /\ p.rcv_nxt \in Nat /\ p.rcv_ann_right_edge \in Nat
      /\ p.rcv_wnd \in Nat
  BY WndAssumption DEF WindowBlock
<1>2. QED
  BY <1>1, Thresholds DEF AnnWnd, EdgeGap

(* The fields of a well-typed window are numbers and a set of flags. *)
LEMMA BlockFields ==
  ASSUME NEW p \in WindowBlock
  PROVE  /\ p.rcv_nxt \in Nat /\ p.rcv_ann_right_edge \in Nat
         /\ p.rcv_wnd \in 0..TCP_WND /\ p.rcv_ann_wnd \in 0..TCP_WND
         /\ p.flags \in SUBSET AckFlagNames /\ p.sent_ackno \in Nat
         /\ p.rcv_wnd \in Nat /\ p.rcv_ann_wnd \in Nat
BY WndAssumption DEF WindowBlock

(* Stamping a segment fixes the edge where the announced window ends, and
   the window to announce stays the right one. *)
LEMMA StampLater ==
  ASSUME NEW p, Sound(p)
  PROVE  /\ Later(p, Stamp(p))
         /\ Stamp(p).rcv_wnd = p.rcv_wnd
         /\ Stamp(p).flags = p.flags
         /\ Stamp(p).sent_ackno = p.rcv_nxt
         /\ EdgeGap(Stamp(p)) < EdgeStep \/ EdgeGap(Stamp(p)) = 0
<1> DEFINE q == Stamp(p)
<1>1. /\ p \in WindowBlock
      /\ p.rcv_ann_right_edge <= p.rcv_nxt + p.rcv_wnd
      /\ p.rcv_ann_wnd = AnnWnd(p)
  BY DEF Sound
<1>2. /\ p.rcv_nxt \in Nat /\ p.rcv_ann_right_edge \in Nat
      /\ p.rcv_wnd \in 0..TCP_WND /\ p.rcv_ann_wnd \in 0..TCP_WND
      /\ p.flags \in SUBSET AckFlagNames
      /\ p.rcv_wnd \in Nat /\ p.rcv_ann_wnd \in Nat
  BY <1>1, BlockFields
<1>3. /\ p.rcv_ann_wnd <= p.rcv_wnd
      /\ p.rcv_nxt + p.rcv_ann_wnd >= p.rcv_ann_right_edge
  BY <1>1, <1>2, AnnWndBounds
<1>4. /\ q \in WindowBlock
      /\ q.rcv_nxt = p.rcv_nxt /\ q.rcv_wnd = p.rcv_wnd
      /\ q.rcv_ann_wnd = p.rcv_ann_wnd
      /\ q.rcv_ann_right_edge = p.rcv_nxt + p.rcv_ann_wnd
      /\ q.flags = p.flags
      /\ q.sent_ackno = p.rcv_nxt
  <2> DEFINE a == Announce(p)
  <2>1. p.rcv_nxt + p.rcv_ann_wnd \in Nat
    BY <1>2
  <2>2. /\ a \in WindowBlock
        /\ a.rcv_nxt = p.rcv_nxt /\ a.rcv_wnd = p.rcv_wnd
        /\ a.rcv_ann_wnd = p.rcv_ann_wnd
        /\ a.rcv_ann_right_edge = p.rcv_nxt + p.rcv_ann_wnd
        /\ a.flags = p.flags
    BY <1>1, <2>1 DEF Announce, WindowBlock
  <2>3. q = [a EXCEPT !.sent_ackno = p.rcv_nxt]
    BY DEF Stamp
  <2> HIDE DEF a, q
  <2>4. QED
    BY <1>2, <2>2, <2>3 DEF WindowBlock
<1>5. /\ AnnWnd(q) = q.rcv_ann_wnd
      /\ EdgeGap(q) < EdgeStep \/ EdgeGap(q) = 0
  BY <1>1, <1>2, <1>3, <1>4, Thresholds DEF AnnWnd, EdgeGap
<1>6. QED
  BY <1>2, <1>3, <1>4, <1>5 DEF Later, Sound

(* Whether or not something leaves, tcp_output keeps the window sound and
   the edge where it was or further right. *)
LEMMA OutputLater ==
  ASSUME NEW p, Sound(p), NEW data \in BOOLEAN, NEW ok \in BOOLEAN
  PROVE  Later(p, Output(p, data, ok)) /\ Output(p, data, ok).rcv_wnd = p.rcv_wnd
<1>1. Later(p, p)
  BY BlockFields DEF Later, Sound
<1>2. Later(p, Transmit(p)) /\ Transmit(p).rcv_wnd = p.rcv_wnd
  <2> DEFINE q == Stamp(p)
  <2>1. Later(p, q) /\ q.rcv_wnd = p.rcv_wnd
    BY StampLater
  <2>2. /\ Transmit(p) \in WindowBlock
        /\ Transmit(p).rcv_nxt = q.rcv_nxt
        /\ Transmit(p).rcv_wnd = q.rcv_wnd
        /\ Transmit(p).rcv_ann_wnd = q.rcv_ann_wnd
        /\ Transmit(p).rcv_ann_right_edge = q.rcv_ann_right_edge
    BY <2>1 DEF Transmit, Later, Sound, WindowBlock
  <2>3. AnnWnd(Transmit(p)) = AnnWnd(q)
    BY <2>2 DEF AnnWnd, EdgeGap
  <2>4. QED
    BY <2>1, <2>2, <2>3 DEF Later, Sound
<1>3. QED
  BY <1>1, <1>2 DEF Output, SendEmptyAck

(* tcp_recved, quiet or not: the n bytes are back in the window, the edge
   does not move left, and what is received stays received. *)
LEMMA CreditLater ==
  ASSUME NEW p, Sound(p), NEW n \in Nat, p.rcv_wnd + n <= TCP_WND
  PROVE  /\ Later(p, RecvedQuietly(p, n))
         /\ RecvedQuietly(p, n).rcv_wnd = p.rcv_wnd + n
<1>1. /\ p \in WindowBlock
      /\ p.rcv_ann_right_edge <= p.rcv_nxt + p.rcv_wnd
      /\ p.rcv_ann_wnd = AnnWnd(p)
  BY DEF Sound
<1>2. /\ p.rcv_nxt \in Nat /\ p.rcv_ann_right_edge \in Nat
      /\ p.rcv_wnd \in Nat
      /\ p.flags \in SUBSET AckFlagNames
  BY <1>1, BlockFields
<1>3. CASE n = 0
  BY <1>1, <1>2, <1>3 DEF RecvedQuietly, Later, Sound
<1>4. CASE n # 0
  <2> DEFINE w == [p EXCEPT !.rcv_wnd = Lesser(@ + n, TCP_WND)]
             c == CreditWindow(p, n)
             q == RecvedQuietly(p, n)
  <2>1. Lesser(p.rcv_wnd + n, TCP_WND) = p.rcv_wnd + n
    BY <1>2, WndAssumption DEF Lesser
  <2>2. /\ w \in WindowBlock
        /\ w.rcv_nxt = p.rcv_nxt /\ w.rcv_wnd = p.rcv_wnd + n
        /\ w.rcv_ann_right_edge = p.rcv_ann_right_edge
        /\ w.flags = p.flags
    BY <1>1, <1>2, <2>1, WndAssumption DEF WindowBlock
  <2>3. AnnWnd(w) \in 0..w.rcv_wnd
    <3>1. w.rcv_ann_right_edge <= w.rcv_nxt + w.rcv_wnd
      BY <1>1, <1>2, <2>2
    <3> HIDE DEF w
    <3>2. QED
      BY <2>2, <3>1, AnnWndBounds
  <2>4. /\ c \in WindowBlock
        /\ c.rcv_nxt = w.rcv_nxt /\ c.rcv_wnd = w.rcv_wnd
        /\ c.rcv_ann_right_edge = w.rcv_ann_right_edge
        /\ c.rcv_ann_wnd = AnnWnd(w) /\ c.flags = p.flags
    <3>1. AnnWnd(w) \in 0..TCP_WND
      BY <1>2, <2>2, <2>3, WndAssumption
    <3>2. c = [w EXCEPT !.rcv_ann_wnd = AnnWnd(w)]
      BY DEF CreditWindow, UpdateRcvAnnWnd
    <3>3. QED
      BY <2>2, <3>1, <3>2 DEF WindowBlock
  <2>5. /\ q \in WindowBlock
        /\ q.rcv_nxt = c.rcv_nxt /\ q.rcv_wnd = c.rcv_wnd
        /\ q.rcv_ann_right_edge = c.rcv_ann_right_edge
        /\ q.rcv_ann_wnd = c.rcv_ann_wnd
    BY <1>4, <2>4 DEF RecvedQuietly, AckNowFlags, AckFlagNames, WindowBlock
  <2>6. AnnWnd(q) = AnnWnd(w)
    BY <2>2, <2>4, <2>5 DEF AnnWnd, EdgeGap
  <2>7. QED
    BY <1>1, <1>2, <2>2, <2>4, <2>5, <2>6 DEF Later, Sound
<1>5. QED
  BY <1>3, <1>4

(* Changing the ACK flags changes nothing else. *)
LEMMA FlagsLater ==
  ASSUME NEW p, Sound(p), NEW fl \in SUBSET AckFlagNames
  PROVE  /\ Later(p, [p EXCEPT !.flags = fl])
         /\ [p EXCEPT !.flags = fl].rcv_wnd = p.rcv_wnd
<1> DEFINE q == [p EXCEPT !.flags = fl]
<1>1. /\ p \in WindowBlock
      /\ p.rcv_ann_right_edge <= p.rcv_nxt + p.rcv_wnd
      /\ p.rcv_ann_wnd = AnnWnd(p)
      /\ p.rcv_ann_right_edge \in Nat
  BY BlockFields DEF Sound
<1>2. /\ q \in WindowBlock
      /\ q.rcv_nxt = p.rcv_nxt /\ q.rcv_wnd = p.rcv_wnd
      /\ q.rcv_ann_wnd = p.rcv_ann_wnd
      /\ q.rcv_ann_right_edge = p.rcv_ann_right_edge
  BY <1>1 DEF WindowBlock
<1>3. AnnWnd(q) = AnnWnd(p)
  BY <1>2 DEF AnnWnd, EdgeGap
<1> HIDE DEF q
<1>4. Later(p, q) /\ q.rcv_wnd = p.rcv_wnd
  BY <1>1, <1>2, <1>3 DEF Later, Sound
<1>5. QED
  BY <1>4 DEF q

(* Two such steps in a row are one. *)
LEMMA LaterTrans ==
  ASSUME NEW p, NEW q, NEW r, Sound(p), Later(p, q), Later(q, r)
  PROVE  Later(p, r)
<1>1. /\ p.rcv_ann_right_edge \in Nat /\ q.rcv_ann_right_edge \in Nat
      /\ r.rcv_ann_right_edge \in Nat
  BY BlockFields DEF Later, Sound
<1>2. QED
  BY <1>1 DEF Later

(* tcp_recved from anywhere, with the tcp_output it may call. *)
LEMMA RecvedLater ==
  ASSUME NEW p, Sound(p), NEW n \in Nat, p.rcv_wnd + n <= TCP_WND,
         NEW data \in BOOLEAN, NEW ok \in BOOLEAN
  PROVE  /\ Later(p, Recved(p, n, data, ok))
         /\ Recved(p, n, data, ok).rcv_wnd = p.rcv_wnd + n
<1> DEFINE q == RecvedQuietly(p, n)
<1>1. Later(p, q) /\ q.rcv_wnd = p.rcv_wnd + n
  BY CreditLater
<1> HIDE DEF q
<1>2. Later(q, Output(q, data, ok)) /\ Output(q, data, ok).rcv_wnd = q.rcv_wnd
  BY <1>1, OutputLater DEF Later
<1>3. Later(p, Output(q, data, ok))
  BY <1>1, <1>2, LaterTrans
<1>4. QED
  BY <1>1, <1>2, <1>3 DEF Recved, q

(* tcp_receive: n units move from the window to the received ones; the edge
   the peer knows stays, and stays within the window. *)
LEMMA ReceiveSound ==
  ASSUME NEW p, Sound(p), NEW n \in Nat, n <= p.rcv_wnd, NEW f \in 0..1
  PROVE  /\ Sound(Receive(p, n, f))
         /\ Receive(p, n, f).rcv_wnd = p.rcv_wnd - n
         /\ Receive(p, n, f).rcv_ann_right_edge = p.rcv_ann_right_edge
<1> DEFINE w == [p EXCEPT !.rcv_nxt = @ + n, !.rcv_wnd = @ - n]
           a == Advance(p, n)
           q == Receive(p, n, f)
<1>1. /\ p \in WindowBlock
      /\ p.rcv_ann_right_edge <= p.rcv_nxt + p.rcv_wnd
  BY DEF Sound
<1>2. /\ p.rcv_nxt \in Nat /\ p.rcv_ann_right_edge \in Nat
      /\ p.rcv_wnd \in Nat /\ p.rcv_wnd <= TCP_WND
      /\ p.flags \in SUBSET AckFlagNames
  BY <1>1, BlockFields, WndAssumption
<1>3. /\ p.rcv_nxt + n \in Nat /\ p.rcv_wnd - n \in 0..TCP_WND
  BY <1>2, WndAssumption
<1>4. /\ w \in WindowBlock
      /\ w.rcv_nxt = p.rcv_nxt + n /\ w.rcv_wnd = p.rcv_wnd - n
      /\ w.rcv_ann_right_edge = p.rcv_ann_right_edge
      /\ w.flags = p.flags
  BY <1>1, <1>3 DEF WindowBlock
<1>5. w.rcv_ann_right_edge <= w.rcv_nxt + w.rcv_wnd
  BY <1>1, <1>2, <1>4
<1>6. a = [w EXCEPT !.rcv_ann_wnd = AnnWnd(w)]
  BY DEF Advance, UpdateRcvAnnWnd
<1> HIDE DEF w, a
<1>7. AnnWnd(w) \in 0..TCP_WND
  BY <1>2, <1>3, <1>4, <1>5, AnnWndBounds, WndAssumption
<1>8. /\ a \in WindowBlock
      /\ a.rcv_nxt = w.rcv_nxt /\ a.rcv_wnd = w.rcv_wnd
      /\ a.rcv_ann_right_edge = w.rcv_ann_right_edge
      /\ a.rcv_ann_wnd = AnnWnd(w) /\ a.flags = p.flags
  BY <1>4, <1>6, <1>7 DEF WindowBlock
<1>9. /\ AckFlags(a.flags) \in SUBSET AckFlagNames
      /\ AckNowFlags(AckFlags(a.flags)) \in SUBSET AckFlagNames
  BY <1>2, <1>8 DEF AckFlags, AckNowFlags, AckFlagNames
<1>10. q = [a EXCEPT !.flags = IF f = 1 THEN AckNowFlags(AckFlags(a.flags))
                                        ELSE AckFlags(a.flags)]
  BY DEF Receive, a
<1> HIDE DEF q
<1>11. /\ q \in WindowBlock
       /\ q.rcv_nxt = a.rcv_nxt /\ q.rcv_wnd = a.rcv_wnd
       /\ q.rcv_ann_right_edge = a.rcv_ann_right_edge
       /\ q.rcv_ann_wnd = a.rcv_ann_wnd
  BY <1>8, <1>9, <1>10 DEF WindowBlock
<1>12. AnnWnd(q) = AnnWnd(w)
  BY <1>8, <1>11 DEF AnnWnd, EdgeGap
<1>13. /\ Sound(q) /\ q.rcv_wnd = p.rcv_wnd - n
       /\ q.rcv_ann_right_edge = p.rcv_ann_right_edge
  BY <1>4, <1>5, <1>8, <1>11, <1>12 DEF Sound
<1>14. QED
  BY <1>13 DEF q

-----------------------------------------------------------------------------
(* The step of each action.  Moved is what every one of them achieves. *)
Moved ==
  /\ WindowInv'
  /\ pcb'.rcv_ann_right_edge >= pcb.rcv_ann_right_edge

(* Under the invariant the fields are numbers within their bounds. *)
LEMMA WindowFields ==
  ASSUME WindowInv
  PROVE  /\ Sound(pcb) /\ pcb.rcv_wnd \in Nat /\ pcb.rcv_ann_right_edge \in Nat
         /\ refused_data \in Nat /\ unread \in Nat /\ fin \in 0..1
         /\ pcb.rcv_wnd + refused_data + unread + fin = TCP_WND
         /\ pcb.rcv_wnd + refused_data + unread <= TCP_WND
<1>1. /\ pcb.rcv_wnd \in Nat /\ pcb.rcv_ann_right_edge \in Nat
      /\ refused_data \in Nat /\ unread \in Nat /\ fin \in 0..1 /\ Sound(pcb)
  BY BlockFields DEF WindowInv, Sound
<1>2. QED
  BY <1>1, WndAssumption DEF WindowInv, WindowConserved

(* What may be credited when refused data is offered again. *)
LEMMA RedeliveredBound ==
  ASSUME refused_data \in Nat, unread \in Nat, NEW r0 \in Redelivered
  PROVE  r0 \in Nat /\ r0 <= unread + refused_data
BY DEF Redelivered

(* Data in order, refused or taken, keeps the window sound and conserved. *)
LEMMA InputInOrderStep ==
  ASSUME WindowInv, NEW len \in Nat, NEW f \in 0..1, NEW taken \in BOOLEAN,
         NEW r0 \in Redelivered, NEW r1 \in Nat,
         NEW data \in BOOLEAN, NEW ok \in BOOLEAN,
         InputInOrder(len, f, taken, r0, r1, data, ok)
  PROVE  Moved
<1> DEFINE p == Recved(pcb, r0, data, ok)
           held == (unread + refused_data - r0) + (IF taken THEN len ELSE 0)
           q == Receive(p, len + f, f)
           r == RecvedQuietly(q, r1)
           o == Output(r, data, ok)
<1>1. /\ r0 \in Nat /\ r0 <= unread + refused_data
      /\ Sound(pcb) /\ pcb.rcv_wnd \in Nat /\ pcb.rcv_ann_right_edge \in Nat
      /\ refused_data \in Nat /\ unread \in Nat
      /\ pcb.rcv_wnd + refused_data + unread + fin = TCP_WND
      /\ pcb.rcv_wnd + refused_data + unread <= TCP_WND
  BY WindowFields, RedeliveredBound
<1>2. /\ fin = 0 /\ len + f <= p.rcv_wnd /\ r1 <= held
      /\ len = 0 => taken
      /\ pcb' = o /\ unread' = held - r1
      /\ refused_data' = (IF taken THEN 0 ELSE len) /\ fin' = f
  BY DEF InputInOrder
<1> HIDE DEF p
<1>3. Later(pcb, p) /\ p.rcv_wnd = pcb.rcv_wnd + r0
  <2>1. pcb.rcv_wnd + r0 <= TCP_WND
    BY <1>1, WndAssumption
  <2>2. QED
    BY <1>1, <2>1, RecvedLater DEF p
<1>4. /\ len + f \in Nat /\ held \in Nat
      /\ p.rcv_wnd \in Nat
  BY <1>1, <1>3
<1> HIDE DEF q
<1>5. /\ Sound(q) /\ q.rcv_wnd = p.rcv_wnd - (len + f)
      /\ q.rcv_ann_right_edge = p.rcv_ann_right_edge
  BY <1>2, <1>3, <1>4, ReceiveSound DEF Later, q
<1>6. q.rcv_wnd + r1 <= TCP_WND /\ q.rcv_wnd \in Nat
  BY <1>1, <1>2, <1>3, <1>4, <1>5, WndAssumption
<1> HIDE DEF r
<1>7. Later(q, r) /\ r.rcv_wnd = q.rcv_wnd + r1
  BY <1>5, <1>6, CreditLater DEF r
<1>8. Later(r, o) /\ o.rcv_wnd = r.rcv_wnd
  BY <1>7, OutputLater DEF Later
<1> HIDE DEF o
<1>9. Later(q, o)
  BY <1>5, <1>7, <1>8, LaterTrans
<1>10. /\ pcb'.rcv_ann_right_edge >= pcb.rcv_ann_right_edge
       /\ Sound(pcb')
  <2>1. /\ p.rcv_ann_right_edge \in Nat /\ o.rcv_ann_right_edge \in Nat
    BY <1>3, <1>9, BlockFields DEF Later, Sound
  <2>2. QED
    BY <1>1, <1>2, <1>3, <1>5, <1>9, <2>1 DEF Later
<1>11. /\ refused_data' \in Nat /\ unread' \in Nat /\ fin' \in 0..1
       /\ pcb'.rcv_wnd + refused_data' + unread' + fin' = TCP_WND
  BY <1>1, <1>2, <1>3, <1>4, <1>5, <1>7, <1>8, WndAssumption
<1>12. QED
  BY <1>10, <1>11 DEF Moved, WindowInv, WindowConserved

(* Neither does a segment that brings nothing new disturb it. *)
LEMMA InputNothingNewStep ==
  ASSUME WindowInv, NEW r0 \in Redelivered,
         NEW kind \in {"pure", "duplicate", "out_of_order"},
         NEW data \in BOOLEAN, NEW ok \in BOOLEAN,
         InputNothingNew(r0, kind, data, ok)
  PROVE  Moved
<1> DEFINE p == Recved(pcb, r0, data, ok)
           q == CASE kind = "pure"         -> p
                  [] kind = "duplicate"    -> [p EXCEPT !.flags = AckNowFlags(@)]
                  [] kind = "out_of_order" -> SendEmptyAck(p, ok)
           o == Output(q, data, ok)
<1>1. /\ r0 \in Nat /\ r0 <= unread + refused_data
      /\ Sound(pcb) /\ pcb.rcv_wnd \in Nat /\ pcb.rcv_ann_right_edge \in Nat
      /\ refused_data \in Nat /\ unread \in Nat /\ fin \in 0..1
      /\ pcb.rcv_wnd + refused_data + unread + fin = TCP_WND
      /\ pcb.rcv_wnd + refused_data + unread <= TCP_WND
  BY WindowFields, RedeliveredBound
<1>2. /\ pcb' = o /\ refused_data' = 0 /\ unread' = unread + refused_data - r0
      /\ fin' = fin
  BY DEF InputNothingNew
<1> HIDE DEF p
<1>3. Later(pcb, p) /\ p.rcv_wnd = pcb.rcv_wnd + r0
  <2>1. pcb.rcv_wnd + r0 <= TCP_WND
    BY <1>1, WndAssumption
  <2>2. QED
    BY <1>1, <2>1, RecvedLater DEF p
<1>4. Later(p, q) /\ q.rcv_wnd = p.rcv_wnd
  <2>1. CASE kind = "pure"
    <3>1. Later(p, p)
      BY <1>3, BlockFields DEF Later, Sound
    <3>2. QED
      BY <2>1, <3>1
  <2>2. CASE kind = "duplicate"
    <3>1. AckNowFlags(p.flags) \in SUBSET AckFlagNames
      BY <1>3, BlockFields DEF Later, Sound, AckNowFlags, AckFlagNames
    <3>2. /\ Later(p, [p EXCEPT !.flags = AckNowFlags(p.flags)])
          /\ [p EXCEPT !.flags = AckNowFlags(p.flags)].rcv_wnd = p.rcv_wnd
      BY <1>3, <3>1, FlagsLater DEF Later
    <3>3. QED
      BY <2>2, <3>2
  <2>3. CASE kind = "out_of_order"
    <3>1. SendEmptyAck(p, ok) = IF ok THEN Output(p, TRUE, ok) ELSE p
      BY DEF SendEmptyAck, Output
    <3>2. Later(p, p)
      BY <1>3, BlockFields DEF Later, Sound
    <3>3. /\ Later(p, Output(p, TRUE, ok))
          /\ Output(p, TRUE, ok).rcv_wnd = p.rcv_wnd
      BY <1>3, OutputLater DEF Later
    <3>4. QED
      BY <2>3, <3>1, <3>2, <3>3
  <2>4. QED
    BY <2>1, <2>2, <2>3
<1> HIDE DEF q
<1>5. Later(q, o) /\ o.rcv_wnd = q.rcv_wnd
  BY <1>4, OutputLater DEF Later
<1> HIDE DEF o
<1>6. Later(p, o) /\ Later(pcb, o)
  BY <1>1, <1>3, <1>4, <1>5, LaterTrans DEF Later
<1>7. QED
  BY <1>1, <1>2, <1>3, <1>4, <1>5, <1>6
  DEF Moved, WindowInv, WindowConserved, Later

(* The fast timer moves refused data to the application and no byte else. *)
LEMMA FastTmrStep ==
  ASSUME WindowInv, NEW taken \in BOOLEAN, NEW r0 \in Redelivered,
         NEW data \in BOOLEAN, NEW ok \in BOOLEAN,
         FastTmr(taken, r0, data, ok)
  PROVE  Moved
<1> DEFINE p == Recved(pcb, r0, data, ok)
           q == [p EXCEPT !.flags = AckNowFlags(p.flags)]
           o == Output(q, data, ok)
           z == [o EXCEPT !.flags = {}]
<1>1. /\ r0 \in Nat /\ r0 <= unread + refused_data
      /\ Sound(pcb) /\ pcb.rcv_wnd \in Nat /\ pcb.rcv_ann_right_edge \in Nat
      /\ refused_data \in Nat /\ unread \in Nat /\ fin \in 0..1
      /\ pcb.rcv_wnd + refused_data + unread + fin = TCP_WND
      /\ pcb.rcv_wnd + refused_data + unread <= TCP_WND
  BY WindowFields, RedeliveredBound
<1>2. /\ taken => refused_data > 0
      /\ r0 > 0 => taken
      /\ pcb' = IF "TF_ACK_DELAY" \in p.flags THEN z ELSE p
      /\ refused_data' = IF taken THEN 0 ELSE refused_data
      /\ unread' = (unread + (IF taken THEN refused_data ELSE 0)) - r0
      /\ fin' = fin
  BY DEF FastTmr, StillRefused
<1> HIDE DEF p
<1>3. Later(pcb, p) /\ p.rcv_wnd = pcb.rcv_wnd + r0
  <2>1. pcb.rcv_wnd + r0 <= TCP_WND
    BY <1>1, WndAssumption
  <2>2. QED
    BY <1>1, <2>1, RecvedLater DEF p
<1>4. Later(p, q) /\ q.rcv_wnd = p.rcv_wnd
  <2>1. AckNowFlags(p.flags) \in SUBSET AckFlagNames
    BY <1>3, BlockFields DEF Later, Sound, AckNowFlags, AckFlagNames
  <2>2. QED
    BY <1>3, <2>1, FlagsLater DEF Later
<1> HIDE DEF q
<1>5. Later(q, o) /\ o.rcv_wnd = q.rcv_wnd
  BY <1>4, OutputLater DEF Later
<1> HIDE DEF o
<1>6. Later(o, z) /\ z.rcv_wnd = o.rcv_wnd
  BY <1>5, FlagsLater DEF Later
<1> HIDE DEF z
<1>7. Later(pcb, z)
  BY <1>1, <1>3, <1>4, <1>5, <1>6, LaterTrans DEF Later
<1>8. Later(pcb, pcb') /\ pcb'.rcv_wnd = pcb.rcv_wnd + r0
  BY <1>2, <1>3, <1>4, <1>5, <1>6, <1>7
<1>9. /\ refused_data' \in Nat /\ unread' \in Nat
      /\ pcb'.rcv_wnd + refused_data' + unread' + fin' = TCP_WND
  BY <1>1, <1>2, <1>8, WndAssumption
<1>10. QED
  BY <1>1, <1>2, <1>8, <1>9 DEF Moved, WindowInv, WindowConserved, Later

(* tcp_recved gives back exactly what the application held. *)
LEMMA AppRecvedStep ==
  ASSUME WindowInv, NEW n \in 1..unread,
         NEW data \in BOOLEAN, NEW ok \in BOOLEAN, AppRecved(n, data, ok)
  PROVE  Moved
<1>1. /\ Sound(pcb) /\ pcb.rcv_wnd \in Nat /\ pcb.rcv_ann_right_edge \in Nat
      /\ refused_data \in Nat /\ unread \in Nat /\ fin \in 0..1
      /\ pcb.rcv_wnd + refused_data + unread + fin = TCP_WND
      /\ pcb.rcv_wnd + refused_data + unread <= TCP_WND
  BY WindowFields
<1>2. n \in Nat /\ n <= unread /\ pcb.rcv_wnd + n <= TCP_WND
  BY <1>1, WndAssumption
<1>3. Later(pcb, pcb') /\ pcb'.rcv_wnd = pcb.rcv_wnd + n
  BY <1>1, <1>2, RecvedLater DEF AppRecved
<1>4. unread' = unread - n /\ refused_data' = refused_data /\ fin' = fin
  BY DEF AppRecved
<1>5. QED
  BY <1>1, <1>2, <1>3, <1>4, WndAssumption
  DEF Moved, WindowInv, WindowConserved, Later

(* Transmission changes only what the peer was told. *)
LEMMA CallOutputStep ==
  ASSUME WindowInv, NEW data \in BOOLEAN, NEW ok \in BOOLEAN,
         CallOutput(data, ok)
  PROVE  Moved
<1>1. Later(pcb, pcb') /\ pcb'.rcv_wnd = pcb.rcv_wnd
  BY OutputLater DEF CallOutput, WindowInv
<1>2. QED
  BY <1>1 DEF CallOutput, Moved, WindowInv, WindowConserved, Later

(* A probe or keepalive announces the same window. *)
LEMMA ProbeStep ==
  ASSUME WindowInv, Probe
  PROVE  Moved
<1>1. Later(pcb, pcb') /\ pcb'.rcv_wnd = pcb.rcv_wnd
  BY StampLater DEF Probe, WindowInv
<1>2. QED
  BY <1>1 DEF Probe, Moved, WindowInv, WindowConserved, Later

-----------------------------------------------------------------------------
(* tcp_alloc leaves a window that keeps every promise. *)
LEMMA WindowInit == WndInit => WindowInv
<1> SUFFICES ASSUME WndInit PROVE WindowInv
  OBVIOUS
<1>1. /\ pcb \in WindowBlock
      /\ pcb.rcv_nxt = 1 /\ pcb.rcv_wnd = TCP_WND
      /\ pcb.rcv_ann_wnd = TCP_WND /\ pcb.rcv_ann_right_edge = 1 + TCP_WND
  BY WndAssumption DEF WndInit, WindowBlock, AckFlagNames
<1>2. AnnWnd(pcb) = TCP_WND
  BY <1>1, Thresholds, WndAssumption DEF AnnWnd, EdgeGap
<1>3. QED
  BY <1>1, <1>2, WndAssumption DEF WndInit, WindowInv, Sound, WindowConserved

(* Every step keeps the window sound and moves the edge right, if at all. *)
LEMMA WindowStep ==
  ASSUME WindowInv, [WndNext]_wndVars
  PROVE  Moved
<1>1. CASE DataInput
  <2>1. PICK len \in 0..pcb.rcv_wnd + unread, f \in 0..1, taken \in BOOLEAN,
             data \in BOOLEAN, ok \in BOOLEAN, r0 \in Redelivered :
          \E r1 \in 0..(unread + refused_data - r0) + len :
            InputInOrder(len, f, taken, r0, r1, data, ok)
    BY <1>1 DEF DataInput
  <2>2. PICK r1 \in 0..(unread + refused_data - r0) + len :
          InputInOrder(len, f, taken, r0, r1, data, ok)
    BY <2>1
  <2>3. len \in Nat /\ r1 \in Nat
    BY SMT
  <2>4. QED
    BY <2>2, <2>3, InputInOrderStep
<1>2. CASE OtherInput
  BY <1>2, InputNothingNewStep DEF OtherInput
<1>3. CASE FastTimer
  BY <1>3, FastTmrStep DEF FastTimer
<1>4. CASE Application
  BY <1>4, AppRecvedStep DEF Application
<1>5. CASE Transmission
  BY <1>5, CallOutputStep DEF Transmission
<1>6. CASE Probe
  BY <1>6, ProbeStep
<1>7. CASE UNCHANGED wndVars
  <2>1. pcb.rcv_ann_right_edge \in Nat
    BY WindowFields
  <2>2. QED
    BY <1>7, <2>1
    DEF wndVars, Moved, WindowInv, WindowConserved, Sound, AnnWnd, EdgeGap
<1>8. QED
  BY <1>1, <1>2, <1>3, <1>4, <1>5, <1>6, <1>7 DEF WndNext

(* The window stays sound, and conserved, for ever. *)
THEOREM WindowInvariant == WndSpec => []WindowInv
<1>1. WindowInv /\ [WndNext]_wndVars => WindowInv'
  BY WindowStep DEF Moved
<1>2. QED
  BY WindowInit, <1>1, PTL DEF WndSpec

(* The history variable is well typed. *)
MissedOK == missed \in BOOLEAN

LEMMA MissedKept == MissedOK /\ [WndNext]_wndVars => MissedOK'
<1> SUFFICES ASSUME MissedOK, [WndNext]_wndVars PROVE MissedOK'
  OBVIOUS
<1>1. ASSUME NEW ok \in BOOLEAN, Note(ok) PROVE MissedOK'
  BY <1>1 DEF Note, MissedOK
<1>2. CASE DataInput
  BY <1>1, <1>2 DEF DataInput, InputInOrder
<1>3. CASE OtherInput
  BY <1>1, <1>3 DEF OtherInput, InputNothingNew
<1>4. CASE FastTimer
  BY <1>1, <1>4 DEF FastTimer, FastTmr
<1>5. CASE Application
  BY <1>1, <1>5 DEF Application, AppRecved
<1>6. CASE Transmission
  BY <1>1, <1>6 DEF Transmission, CallOutput
<1>7. CASE Probe \/ UNCHANGED wndVars
  BY <1>7 DEF MissedOK, Probe, wndVars
<1>8. QED
  BY <1>2, <1>3, <1>4, <1>5, <1>6, <1>7 DEF WndNext

LEMMA MissedType == WndSpec => []MissedOK
<1>1. WndInit => MissedOK
  BY DEF WndInit, MissedOK
<1>2. QED
  BY <1>1, MissedKept, PTL DEF WndSpec

LEMMA WindowTypes == WindowInv /\ MissedOK => WndTypeOK
<1>1. SUFFICES ASSUME WindowInv, MissedOK PROVE WndTypeOK
  OBVIOUS
<1>2. refused_data \in 0..TCP_WND /\ unread \in 0..TCP_WND
  BY <1>1, WindowFields, WndAssumption
<1>3. QED
  BY <1>1, <1>2 DEF WndTypeOK, WindowInv, Sound, MissedOK

(* The state of the receiving half is well typed: rcv_wnd and rcv_ann_wnd,
   16-bit fields in the code, never exceed TCP_WND and never underflow. *)
THEOREM TypeCorrect == WndSpec => []WndTypeOK
BY WindowInvariant, MissedType, WindowTypes, PTL

(* No byte of the receive buffer is lost between tcp_receive, the refused
   data, the application and tcp_recved. *)
THEOREM BufferConserved == WndSpec => []WindowConserved
<1>1. WindowInv => WindowConserved
  BY DEF WindowInv
<1>2. QED
  BY <1>1, WindowInvariant, PTL

(* The peer is never promised room that is not there. *)
THEOREM PromiseAlwaysKept == WndSpec => []PromiseKept
<1>1. WindowInv => PromiseKept
  BY DEF WindowInv, Sound, PromiseKept
<1>2. QED
  BY <1>1, WindowInvariant, PTL

(* Whatever segment leaves next announces the window that is right then. *)
THEOREM AnnouncementUpToDate == WndSpec => []AnnUpToDate
<1>1. WindowInv => AnnUpToDate
  BY DEF WindowInv, Sound, AnnUpToDate
<1>2. QED
  BY <1>1, WindowInvariant, PTL

(* The right edge announced to the peer never moves left. *)
THEOREM EdgeMonotone == WndSpec => EdgeNeverRetreats
<1>1. WindowInv /\ [WndNext]_wndVars
        => [pcb'.rcv_ann_right_edge >= pcb.rcv_ann_right_edge]_wndVars
  BY WindowStep DEF Moved
<1>2. QED
  BY <1>1, WindowInvariant, PTL DEF WndSpec, EdgeNeverRetreats

-----------------------------------------------------------------------------
(* The acknowledgement part.  ToldPeer: the last segment sent left nothing to
   say.  Known: nothing is left to say, or an ACK is pending. *)
ToldPeer(p) ==
  /\ p.sent_ackno = p.rcv_nxt
  /\ EdgeGap(p) < EdgeStep \/ EdgeGap(p) < UpdateThreshold \/ EdgeGap(p) = 0

Known(p) ==
  \/ p.flags # {}
  \/ ToldPeer(p)

AckInv == WindowInv /\ Known(pcb)

(* A segment that leaves says all there is to say. *)
LEMMA TransmitTold ==
  ASSUME NEW p, Sound(p)
  PROVE  ToldPeer(Transmit(p))
<1> DEFINE q == Stamp(p)
<1>1. /\ Sound(q) /\ q.rcv_nxt = p.rcv_nxt /\ q.sent_ackno = p.rcv_nxt
      /\ EdgeGap(q) < EdgeStep \/ EdgeGap(q) = 0
  BY StampLater DEF Later
<1> HIDE DEF q
<1>2. Transmit(p) = [q EXCEPT !.flags = {}]
  BY DEF Transmit, q
<1>3. /\ Transmit(p).rcv_nxt = q.rcv_nxt
      /\ Transmit(p).rcv_wnd = q.rcv_wnd
      /\ Transmit(p).rcv_ann_right_edge = q.rcv_ann_right_edge
      /\ Transmit(p).sent_ackno = q.sent_ackno
  BY <1>1, <1>2 DEF Sound, WindowBlock
<1>4. QED
  BY <1>1, <1>3 DEF ToldPeer, EdgeGap

(* tcp_output with memory: a pending immediate ACK is sent. *)
LEMMA OutputKnown ==
  ASSUME NEW p, Sound(p), NEW data \in BOOLEAN
  PROVE  /\ "TF_ACK_NOW" \in p.flags => ToldPeer(Output(p, data, TRUE))
         /\ Known(p) => Known(Output(p, data, TRUE))
<1>1. ToldPeer(Transmit(p))
  BY TransmitTold
<1>2. QED
  BY <1>1 DEF Output, SendEmptyAck, Known

(* tcp_recved asks for an ACK whenever the edge could move far enough. *)
LEMMA CreditKnown ==
  ASSUME NEW p, Sound(p), Known(p), NEW n \in Nat, p.rcv_wnd + n <= TCP_WND
  PROVE  Known(RecvedQuietly(p, n))
<1> DEFINE c == CreditWindow(p, n)
           q == RecvedQuietly(p, n)
<1>1. CASE n = 0
  BY <1>1 DEF RecvedQuietly
<1>2. CASE n # 0
  <2>1. p \in WindowBlock /\ p.rcv_nxt \in Nat /\ p.rcv_wnd \in Nat
        /\ p.rcv_ann_right_edge \in Nat
    BY BlockFields DEF Sound
  <2>2. Lesser(p.rcv_wnd + n, TCP_WND) = p.rcv_wnd + n
    BY <2>1, WndAssumption DEF Lesser
  <2>3. /\ c.rcv_nxt = p.rcv_nxt /\ c.rcv_wnd = p.rcv_wnd + n
        /\ c.rcv_ann_right_edge = p.rcv_ann_right_edge
        /\ c.sent_ackno = p.sent_ackno
        /\ c.flags = p.flags
    BY <2>1, <2>2 DEF CreditWindow, UpdateRcvAnnWnd, WindowBlock
  <2>4. CASE UpdateIsDue(p, n)
    <3>1. q.flags = AckNowFlags(c.flags)
      BY <1>2, <2>1, <2>4
      DEF RecvedQuietly, CreditWindow, UpdateRcvAnnWnd, WindowBlock
    <3>2. QED
      BY <3>1 DEF Known, AckNowFlags
  <2>5. CASE ~UpdateIsDue(p, n)
    <3>1. q = c
      BY <1>2, <2>5 DEF RecvedQuietly
    <3>2. EdgeGap(c) \in Int
      BY <2>1, <2>3 DEF EdgeGap
    <3>3. EdgeGap(c) < EdgeStep \/ EdgeGap(c) < UpdateThreshold
      BY <2>5, <3>2, Thresholds DEF UpdateIsDue, WndInflation
    <3>4. QED
      BY <2>3, <3>1, <3>3 DEF Known, ToldPeer
  <2>6. QED
    BY <2>4, <2>5
<1>3. QED
  BY <1>1, <1>2

(* After tcp_recved the peer knows, or an ACK is pending. *)
LEMMA RecvedKnown ==
  ASSUME NEW p, Sound(p), Known(p), NEW n \in Nat, p.rcv_wnd + n <= TCP_WND,
         NEW data \in BOOLEAN
  PROVE  Known(Recved(p, n, data, TRUE))
<1> DEFINE q == RecvedQuietly(p, n)
<1>1. Known(q) /\ Sound(q)
  BY CreditKnown, CreditLater DEF Later
<1> HIDE DEF q
<1>2. Known(Output(q, data, TRUE))
  BY <1>1, OutputKnown
<1>3. QED
  BY <1>1, <1>2 DEF Recved, q

(* What tcp_receive takes in order always leaves an ACK pending. *)
LEMMA ReceiveKnown ==
  ASSUME NEW p, Sound(p), NEW n \in Nat, NEW f \in 0..1
  PROVE  Known(Receive(p, n, f))
<1> DEFINE a == Advance(p, n)
<1>1. Receive(p, n, f) =
        [a EXCEPT !.flags = IF f = 1 THEN AckNowFlags(AckFlags(a.flags))
                                     ELSE AckFlags(a.flags)]
  BY DEF Receive
<1>2. a = [a EXCEPT !.flags = a.flags] /\ "flags" \in DOMAIN a
  BY DEF Advance, UpdateRcvAnnWnd, Sound, WindowBlock
<1> HIDE DEF a
<1>3. Receive(p, n, f).flags # {}
  BY <1>1, <1>2 DEF AckNowFlags, AckFlags
<1>4. QED
  BY <1>3 DEF Known

(* After data in order the peer knows, or an ACK is pending. *)
LEMMA InputInOrderKnown ==
  ASSUME AckInv, NEW len \in Nat, NEW f \in 0..1, NEW taken \in BOOLEAN,
         NEW r0 \in Redelivered, NEW r1 \in Nat, NEW data \in BOOLEAN,
         InputInOrder(len, f, taken, r0, r1, data, TRUE)
  PROVE  Known(pcb')
<1> DEFINE p == Recved(pcb, r0, data, TRUE)
           q == Receive(p, len + f, f)
           r == RecvedQuietly(q, r1)
<1>1. /\ r0 \in Nat /\ r0 <= unread + refused_data
      /\ Sound(pcb) /\ pcb.rcv_wnd \in Nat
      /\ refused_data \in Nat /\ unread \in Nat
      /\ pcb.rcv_wnd + refused_data + unread <= TCP_WND
  BY WindowFields, RedeliveredBound DEF AckInv
<1>2. /\ len + f <= p.rcv_wnd
      /\ r1 <= (unread + refused_data - r0) + (IF taken THEN len ELSE 0)
      /\ pcb' = Output(r, data, TRUE)
  BY DEF InputInOrder
<1> HIDE DEF p
<1>3. Sound(p) /\ p.rcv_wnd = pcb.rcv_wnd + r0
  <2>1. pcb.rcv_wnd + r0 <= TCP_WND
    BY <1>1, WndAssumption
  <2>2. QED
    BY <1>1, <2>1, RecvedLater DEF p, Later
<1>4. len + f \in Nat
  OBVIOUS
<1> HIDE DEF q
<1>5. Sound(q) /\ q.rcv_wnd = p.rcv_wnd - (len + f) /\ Known(q)
  BY <1>2, <1>3, <1>4, ReceiveSound, ReceiveKnown DEF q
<1>6. q.rcv_wnd + r1 <= TCP_WND
  BY <1>1, <1>2, <1>3, <1>5, WndAssumption
<1> HIDE DEF r
<1>7. Sound(r) /\ Known(r)
  BY <1>5, <1>6, CreditLater, CreditKnown DEF r, Later
<1>8. QED
  BY <1>2, <1>7, OutputKnown

(* The same after a segment that brings nothing new. *)
LEMMA InputNothingNewKnown ==
  ASSUME AckInv, NEW r0 \in Redelivered,
         NEW kind \in {"pure", "duplicate", "out_of_order"},
         NEW data \in BOOLEAN, InputNothingNew(r0, kind, data, TRUE)
  PROVE  Known(pcb')
<1> DEFINE p == Recved(pcb, r0, data, TRUE)
           d == [p EXCEPT !.flags = AckNowFlags(p.flags)]
<1>1. /\ r0 \in Nat /\ r0 <= unread + refused_data
      /\ Sound(pcb) /\ pcb.rcv_wnd \in Nat
      /\ refused_data \in Nat /\ unread \in Nat
      /\ pcb.rcv_wnd + refused_data + unread <= TCP_WND
  BY WindowFields, RedeliveredBound DEF AckInv
<1>2. pcb' = Output(CASE kind = "pure"         -> p
                      [] kind = "duplicate"    -> d
                      [] kind = "out_of_order" -> SendEmptyAck(p, TRUE),
                    data, TRUE)
  BY DEF InputNothingNew
<1> HIDE DEF p
<1>3. Sound(p) /\ Known(p)
  <2>1. pcb.rcv_wnd + r0 <= TCP_WND
    BY <1>1, WndAssumption
  <2>2. QED
    BY <1>1, <2>1, RecvedLater, RecvedKnown DEF p, Later, AckInv
<1>4. Sound(d) /\ Known(d)
  <2>1. AckNowFlags(p.flags) \in SUBSET AckFlagNames
    BY <1>3, BlockFields DEF Sound, AckNowFlags, AckFlagNames
  <2>2. d.flags = AckNowFlags(p.flags)
    BY <1>3 DEF Sound, WindowBlock
  <2>3. QED
    BY <1>3, <2>1, <2>2, FlagsLater DEF Later, Known, AckNowFlags
<1>5. Sound(SendEmptyAck(p, TRUE)) /\ Known(SendEmptyAck(p, TRUE))
  <2>1. SendEmptyAck(p, TRUE) = Output(p, TRUE, TRUE)
    BY DEF SendEmptyAck, Output
  <2>2. QED
    BY <1>3, <2>1, OutputLater, OutputKnown DEF Later
<1> HIDE DEF d
<1>6. QED
  BY <1>2, <1>3, <1>4, <1>5, OutputKnown

(* The fast timer clears the ACK flags only after the ACK left. *)
LEMMA FastTmrKnown ==
  ASSUME AckInv, NEW taken \in BOOLEAN, NEW r0 \in Redelivered,
         NEW data \in BOOLEAN, FastTmr(taken, r0, data, TRUE)
  PROVE  Known(pcb')
<1> DEFINE p == Recved(pcb, r0, data, TRUE)
           q == [p EXCEPT !.flags = AckNowFlags(p.flags)]
           o == Output(q, data, TRUE)
           z == [o EXCEPT !.flags = {}]
<1>1. /\ r0 \in Nat /\ r0 <= unread + refused_data
      /\ Sound(pcb) /\ pcb.rcv_wnd \in Nat
      /\ refused_data \in Nat /\ unread \in Nat
      /\ pcb.rcv_wnd + refused_data + unread <= TCP_WND
  BY WindowFields, RedeliveredBound DEF AckInv
<1>2. pcb' = IF "TF_ACK_DELAY" \in p.flags THEN z ELSE p
  BY DEF FastTmr
<1> HIDE DEF p
<1>3. Sound(p) /\ Known(p)
  <2>1. pcb.rcv_wnd + r0 <= TCP_WND
    BY <1>1, WndAssumption
  <2>2. QED
    BY <1>1, <2>1, RecvedLater, RecvedKnown DEF p, Later, AckInv
<1>4. Sound(q) /\ "TF_ACK_NOW" \in q.flags
  <2>1. AckNowFlags(p.flags) \in SUBSET AckFlagNames
    BY <1>3, BlockFields DEF Sound, AckNowFlags, AckFlagNames
  <2>2. q.flags = AckNowFlags(p.flags)
    BY <1>3 DEF Sound, WindowBlock
  <2>3. QED
    BY <1>3, <2>1, <2>2, FlagsLater DEF Later, AckNowFlags
<1> HIDE DEF q
<1>5. Sound(o) /\ ToldPeer(o)
  BY <1>4, OutputLater, OutputKnown DEF Later
<1> HIDE DEF o
<1>6. /\ z.rcv_nxt = o.rcv_nxt /\ z.rcv_wnd = o.rcv_wnd
      /\ z.rcv_ann_right_edge = o.rcv_ann_right_edge
      /\ z.sent_ackno = o.sent_ackno
  BY <1>5 DEF Sound, WindowBlock
<1> HIDE DEF z
<1>7. ToldPeer(z)
  BY <1>5, <1>6 DEF ToldPeer, EdgeGap
<1>8. QED
  BY <1>2, <1>3, <1>7 DEF Known

(* Until an ACK stayed behind, every step keeps one pending for what the
   peer does not know. *)
PendingInv == WindowInv /\ (~missed => Known(pcb))

LEMMA AckStep ==
  ASSUME PendingInv, [WndNext]_wndVars
  PROVE  PendingInv'
<1> SUFFICES ASSUME ~missed' PROVE Known(pcb)'
  BY WindowStep DEF PendingInv, Moved
<1>1. Known(pcb') => Known(pcb)'
  BY DEF Known, ToldPeer, EdgeGap
<1>2. ~missed => AckInv
  BY DEF PendingInv, AckInv
<1>3. CASE DataInput
  <2>1. PICK len \in 0..pcb.rcv_wnd + unread, f \in 0..1, taken \in BOOLEAN,
             data \in BOOLEAN, ok \in BOOLEAN, r0 \in Redelivered :
          \E r1 \in 0..(unread + refused_data - r0) + len :
            InputInOrder(len, f, taken, r0, r1, data, ok)
    BY <1>3 DEF DataInput
  <2>2. PICK r1 \in 0..(unread + refused_data - r0) + len :
          InputInOrder(len, f, taken, r0, r1, data, ok)
    BY <2>1
  <2>3. len \in Nat /\ r1 \in Nat
    BY SMT
  <2>4. ok = TRUE /\ AckInv
    BY <1>2, <2>2 DEF InputInOrder, Note
  <2>5. QED
    BY <1>1, <2>2, <2>3, <2>4, InputInOrderKnown
<1>4. CASE OtherInput
  <2>1. PICK kind \in {"pure", "duplicate", "out_of_order"},
             r0 \in Redelivered, data \in BOOLEAN, ok \in BOOLEAN :
          InputNothingNew(r0, kind, data, ok)
    BY <1>4 DEF OtherInput
  <2>2. ok = TRUE /\ AckInv
    BY <1>2, <2>1 DEF InputNothingNew, Note
  <2>3. QED
    BY <1>1, <2>1, <2>2, InputNothingNewKnown
<1>5. CASE FastTimer
  <2>1. PICK taken \in BOOLEAN, data \in BOOLEAN, ok \in BOOLEAN,
             r0 \in Redelivered : FastTmr(taken, r0, data, ok)
    BY <1>5 DEF FastTimer
  <2>2. ok = TRUE /\ AckInv
    BY <1>2, <2>1 DEF FastTmr, Note
  <2>3. QED
    BY <1>1, <2>1, <2>2, FastTmrKnown
<1>6. CASE Application
  <2>1. PICK n \in 1..unread, data \in BOOLEAN, ok \in BOOLEAN :
          AppRecved(n, data, ok)
    BY <1>6 DEF Application
  <2>2. ok = TRUE /\ AckInv
    BY <1>2, <2>1 DEF AppRecved, Note
  <2>3. n \in Nat /\ pcb.rcv_wnd + n <= TCP_WND
    BY <2>1, <2>2, WindowFields, WndAssumption DEF AckInv
  <2>4. pcb' = Recved(pcb, n, data, TRUE)
    BY <2>1, <2>2 DEF AppRecved
  <2>5. QED
    BY <1>1, <2>2, <2>3, <2>4, RecvedKnown DEF AckInv, WindowInv
<1>7. CASE Transmission
  <2>1. PICK data \in BOOLEAN, ok \in BOOLEAN : CallOutput(data, ok)
    BY <1>7 DEF Transmission
  <2>2. ok = TRUE /\ AckInv
    BY <1>2, <2>1 DEF CallOutput, Note
  <2>3. QED
    BY <1>1, <2>1, <2>2, OutputKnown DEF CallOutput, AckInv, WindowInv
<1>8. CASE Probe
  <2>1. /\ pcb'.rcv_nxt = pcb.rcv_nxt /\ pcb'.sent_ackno = pcb.rcv_nxt
        /\ EdgeGap(pcb') < EdgeStep \/ EdgeGap(pcb') = 0
    BY <1>8, StampLater DEF Probe, PendingInv, WindowInv, Later
  <2>2. QED
    BY <1>1, <2>1 DEF Known, ToldPeer
<1>9. CASE UNCHANGED wndVars
  BY <1>2, <1>9 DEF wndVars, AckInv, Known, ToldPeer, EdgeGap
<1>10. QED
  BY <1>3, <1>4, <1>5, <1>6, <1>7, <1>8, <1>9 DEF WndNext

(* So one is pending in every state before that. *)
LEMMA AckInit == WndInit => PendingInv
<1>1. SUFFICES ASSUME WndInit PROVE PendingInv
  OBVIOUS
<1>2. Known(pcb)
  BY <1>1, WndAssumption, Thresholds DEF WndInit, Known, ToldPeer, EdgeGap
<1>3. QED
  BY <1>1, <1>2, WindowInit DEF PendingInv

LEMMA AckInvariant == WndSpec => []PendingInv
BY AckInit, AckStep, PTL DEF WndSpec

(* What has to be said is pending, where nothing stayed behind. *)
LEMMA PendingUnacked == PendingInv => UnackedHasAckPending
<1>1. SUFFICES ASSUME PendingInv, ~missed, pcb.sent_ackno < pcb.rcv_nxt
               PROVE  pcb.flags # {}
  BY DEF UnackedHasAckPending
<1>2. pcb.sent_ackno # pcb.rcv_nxt
  BY BlockFields, <1>1 DEF PendingInv, WindowInv, Sound
<1>3. QED
  BY <1>1, <1>2 DEF PendingInv, Known, ToldPeer

LEMMA PendingOpen == PendingInv => OpenWindowNotForgotten
<1>1. PendingInv => EdgeGap(pcb) \in Int
  BY BlockFields DEF PendingInv, WindowInv, Sound, EdgeGap
<1>2. QED
  BY <1>1, Thresholds DEF PendingInv, Known, ToldPeer, OpenWindowNotForgotten

(* Until an ACK stayed behind, whatever was received and not acknowledged has
   an ACK pending. *)
THEOREM UnackedIsPending == WndSpec => []UnackedHasAckPending
BY AckInvariant, PendingUnacked, PTL

(* Until an ACK stayed behind, a window that could be opened far enough is
   announced or has an ACK pending. *)
THEOREM OpenWindowIsAnnounced == WndSpec => []OpenWindowNotForgotten
BY AckInvariant, PendingOpen, PTL

(* What the peer has to be told is on its way, until an ACK stayed behind. *)
THEOREM NothingLeftUnsaid == WndSpec => []NothingUnsaid
BY UnackedIsPending, OpenWindowIsAnnounced, PTL DEF NothingUnsaid
=============================================================================
