------------------------- MODULE TcpReceiver_proofs -------------------------
(***************************************************************************)
(* The receiver against any peer: what it took is the stream, whatever     *)
(* overlaps the segments have with one another and with the edges of its   *)
(* window, for any buffer, stream and segments.                            *)
(***************************************************************************)
EXTENDS TcpReceiver, TcpBlock_proofs

(* The numbers of the stream. *)
LEMMA Numbers ==
  /\ First \in Int /\ End \in Int /\ End = First + StreamLen /\ StreamLen \in Nat
  /\ First <= End /\ Iss \in Int /\ Iss + 1 \in Int /\ TCP_WND \in Nat /\ TCP_WND > 0
BY ReceiverAssumption, WndAssumption DEF First, End, Iss

(* How much of the stream, and whether its FIN, the buffer has room for. *)
Room(p) == Lesser(Edge(p), End)

RoomForFin(p) == Edge(p) >= End

(* Where the buffer ends: what was not read is missing from it. *)
Bound(p) == First + Len(p.taken) + TCP_WND - p.unread

(* The block holds what the peer sent up to rcv_nxt: the application has
   taken all of it but for data, and was told of the end unless fin.  What it
   took and did not give back, and what waits, is missing from rcv_wnd; what
   waits out of order fits into the buffer, but for its FIN. *)
Receives(p, data, fin, fb, w, c) ==
  /\ Snd(p, fb, w, c)
  /\ p.state \in {"ESTABLISHED", "CLOSE_WAIT"} /\ p.refused = <<>>
  /\ p.unread \in Nat /\ p.eof \in BOOLEAN
  /\ p.rcv_nxt \in First..End + 1
  /\ p.taken \in Seq(Int) /\ IsRun(p.taken, First)
  /\ data \in Seq(Int) /\ IsRun(data, First + Len(p.taken))
  /\ First + Len(p.taken) + Len(data) = Lesser(p.rcv_nxt, End)
  /\ p.eof \/ fin <=> p.rcv_nxt = End + 1
  /\ Edged(p, Bound(p), End)
  /\ OoseqOK(p, Room(p), RoomForFin(p))

ReceiverFields == ConsumeFields \cup {"state", "refused", "unread", "eof", "taken", "ooseq"}

(* The numbers of such a block. *)
LEMMA ReceivesNumbers ==
  ASSUME NEW fb, NEW w, NEW c, NEW data, NEW fin,
         NEW p, Receives(p, data, fin, fb, w, c)
  PROVE  /\ p.rcv_nxt \in Int /\ p.rcv_wnd \in Nat /\ p.rcv_ann_wnd \in Int
         /\ p.rcv_ann_right_edge \in Int /\ p.rcv_nxt <= End + 1
         /\ Edge(p) \in Int /\ Bound(p) \in Int /\ Bound(p) <= p.rcv_nxt + TCP_WND
         /\ Bound(p) + p.unread <= p.rcv_nxt + TCP_WND
<1>1. /\ p.rcv_nxt \in Int /\ p.rcv_wnd \in Nat /\ p.rcv_ann_wnd \in Int
      /\ p.rcv_ann_right_edge \in Int
  BY DEF Receives, Snd
<1>2. /\ p.taken \in Seq(Int) /\ data \in Seq(Int) /\ p.rcv_nxt \in First..End + 1
      /\ First + Len(p.taken) + Len(data) = Lesser(p.rcv_nxt, End) /\ p.unread \in Nat
  BY DEF Receives
<1>3. Len(p.taken) \in Nat /\ Len(data) \in Nat
  BY <1>2
<1>4. PICK l \in Nat, m \in Nat, u \in Nat, b \in Int :
        l = Len(p.taken) /\ m = Len(data) /\ u = p.unread /\ b = First + l + TCP_WND - u
  BY <1>2, <1>3, Numbers
<1>5. Bound(p) = b
  BY <1>4 DEF Bound
<1>6. First + l + m <= p.rcv_nxt
  <2>1. First + l + m = Lesser(p.rcv_nxt, End)
    BY <1>2, <1>4
  <2>2. Lesser(p.rcv_nxt, End) <= p.rcv_nxt
    BY <1>1, Numbers, LesserIs
  <2> QED  BY <1>1, <1>4, <2>1, <2>2, Numbers
<1>7. b <= p.rcv_nxt + TCP_WND /\ b + u <= p.rcv_nxt + TCP_WND
  <2>1. PICK f \in Int, t \in Int, x \in Int : f = First /\ t = TCP_WND /\ x = p.rcv_nxt
    BY <1>1, Numbers
  <2>2. b = f + l + t - u /\ f + l + m <= x
    BY <1>4, <1>6, <2>1
  <2>3. b <= x + t /\ b + u <= x + t
    BY <2>2
  <2> QED  BY <2>1, <2>3
<1>8. Edge(p) \in Int /\ p.rcv_nxt <= End + 1
  BY <1>1, <1>2, Numbers DEF Edge
<1> QED  BY <1>1, <1>4, <1>5, <1>7, <1>8

(* A step of the sending side, which may announce the window. *)
LEMMA ReceivesKept ==
  ASSUME NEW fb, NEW w, NEW c, NEW data, NEW fin,
         NEW p, Receives(p, data, fin, fb, w, c), NEW q, Snd(q, fb, w, c),
         NEW S, Changes(p, q, S), S \cap ReceiverFields = {},
         q.rcv_ann_right_edge \in {p.rcv_ann_right_edge, p.rcv_nxt + p.rcv_ann_wnd}
  PROVE  Receives(q, data, fin, fb, w, c)
<1>1. /\ q.state = p.state /\ q.refused = p.refused /\ q.unread = p.unread /\ q.eof = p.eof
      /\ q.rcv_nxt = p.rcv_nxt /\ q.taken = p.taken /\ q.ooseq = p.ooseq
  BY FieldsAre DEF Changes, ReceiverFields, ConsumeFields
<1>2. Edged(q, Bound(q), End) /\ Edge(q) = Edge(p)
  <2>1. S \cap ConsumeFields = {}
    BY DEF ReceiverFields
  <2>2. p.rcv_nxt \in Int /\ p.rcv_wnd \in Nat /\ p.rcv_ann_wnd \in Int /\ Bound(p) \in Int
    BY ReceivesNumbers
  <2>3. Edged(p, Bound(p), End) /\ Bound(q) = Bound(p)
    BY <1>1 DEF Receives, Bound
  <2>4. PICK e \in Int, last \in Int : e = Bound(p) /\ last = End
    BY <2>2, Numbers
  <2>5. Edged(q, e, last) /\ Edge(q) = Edge(p)
    BY <2>1, <2>2, <2>3, <2>4, EdgeKept
  <2> QED  BY <2>3, <2>4, <2>5
<1>3. Room(q) = Room(p) /\ RoomForFin(q) = RoomForFin(p)
  BY <1>2 DEF Room, RoomForFin
<1> QED  BY <1>1, <1>2, <1>3 DEF Receives, OoseqOK

(* One that does not announce it either. *)
LEMMA ReceivesStill ==
  ASSUME NEW fb, NEW w, NEW c \in BOOLEAN, NEW data, NEW fin,
         NEW p, Receives(p, data, fin, fb, w, c), NEW q,
         NEW S, Changes(p, q, S), S \cap (ReceiverFields \cup SndFields) = {}
  PROVE  Receives(q, data, fin, fb, w, c)
<1>1. S \cap SndFields = {} /\ S \cap ReceiverFields = {}
  OBVIOUS
<1>2. Snd(q, fb, w, c)
  BY <1>1, SndChanges DEF Receives
<1>3. q.rcv_ann_right_edge = p.rcv_ann_right_edge
  BY <1>1, FieldsAre DEF Changes, SndFields
<1> QED  BY <1>1, <1>2, <1>3, ReceivesKept

(* tcp_output announces the window or does not. *)
LEMMA OutputEdge ==
  ASSUME NEW p, DOMAIN p = Fields, Len(p.unsent) \in Nat
  PROVE  Output(p).rcv_ann_right_edge \in {p.rcv_ann_right_edge, p.rcv_nxt + p.rcv_ann_wnd}
<1>1. PICK q \in Outcomes(p) : Agree(q, Output(p), SentFields)
  BY OutputChanges
<1>2. q.rcv_ann_right_edge \in {p.rcv_ann_right_edge, p.rcv_nxt + p.rcv_ann_wnd}
  <2>1. CASE q = p
    BY <2>1
  <2>2. CASE q = SendEmptyAck(p)
    BY <2>2, SendEmptyAckChanges
  <2>3. ASSUME NEW n \in 1..Len(p.unsent), q = SendSegments(p, n)
        PROVE  q.rcv_ann_right_edge = p.rcv_nxt + p.rcv_ann_wnd
    <3>1. SendSegments(p, n).rcv_ann_right_edge = p.rcv_nxt + p.rcv_ann_wnd
      BY SendSegmentsChanges
    <3> QED  BY <2>3, <3>1
  <2> QED  BY <2>1, <2>2, <2>3 DEF Outcomes
<1> QED  BY <1>1, <1>2 DEF Agree, SentFields, OutputFields

(* tcp_output and tcp_ack_now take nothing. *)
LEMMA OutputReceives ==
  ASSUME NEW fb \in Int, NEW w \in Nat, NEW c \in BOOLEAN, NEW data, NEW fin,
         NEW p, Receives(p, data, fin, fb, w, c)
  PROVE  /\ Receives(Output(p), data, fin, fb, w, c) /\ Changes(p, Output(p), OutputFields)
         /\ Receives(AckNow(p), data, fin, fb, w, c) /\ Changes(p, AckNow(p), OutputFields)
         /\ p.busy => Changes(p, AckNow(p), {"flags"})
<1>0. OutputFields \cap ReceiverFields = {}
  BY DEF OutputFields, ReceiverFields, ConsumeFields
<1>1. ASSUME NEW x, Receives(x, data, fin, fb, w, c)
      PROVE  Receives(Output(x), data, fin, fb, w, c) /\ Changes(x, Output(x), OutputFields)
  <2>1. Snd(x, fb, w, c) /\ DOMAIN x = Fields /\ Len(x.unsent) \in Nat
    <3>1. x.unsent \in Seq(QSegs(fb, w, c)) /\ Snd(x, fb, w, c) /\ DOMAIN x = Fields
      BY <1>1 DEF Receives, Snd
    <3> QED  BY <3>1
  <2>2. Snd(Output(x), fb, w, c) /\ Changes(x, Output(x), OutputFields)
    BY <2>1, OutputSnd
  <2>3. Output(x).rcv_ann_right_edge \in {x.rcv_ann_right_edge, x.rcv_nxt + x.rcv_ann_wnd}
    BY <2>1, OutputEdge
  <2> QED  BY <1>0, <1>1, <2>2, <2>3, ReceivesKept
<1>q. PICK q : q = [p EXCEPT !.flags = AckNowFlags(@)]
  OBVIOUS
<1>2. AckNow(p) = Output(q)
  BY <1>q DEF AckNow
<1>3. Changes(p, q, {"flags"})
  BY <1>q, FieldsAre DEF Changes, Receives, Snd
<1>4. Receives(q, data, fin, fb, w, c)
  <2>1. {"flags"} \cap (ReceiverFields \cup SndFields) = {}
    BY DEF ReceiverFields, SndFields, ConsumeFields
  <2> QED  BY <1>3, <2>1, ReceivesStill
<1>5. Snd(p, fb, w, c)
  BY DEF Receives
<1>6. Changes(p, AckNow(p), OutputFields) /\ (p.busy => Changes(p, AckNow(p), {"flags"}))
  BY <1>5, AckNowSnd
<1> QED  BY <1>1, <1>2, <1>4, <1>6

(* Giving back n bytes that were not read: the buffer ends n bytes later, and
   a window that wrapped is what the buffer has left again. *)
LEMMA CreditEdge ==
  ASSUME NEW e \in Int, NEW p, DOMAIN p = Fields, p.rcv_nxt \in Int, p.rcv_wnd \in Nat,
         p.rcv_ann_right_edge \in Int, Edged(p, e, End), p.rcv_nxt <= End + 1,
         NEW n \in Nat, n > 0, e + n <= p.rcv_nxt + TCP_WND
  PROVE  Edged(Credit(p, n), e + n, End) /\ Edge(Credit(p, n)) = e + n
<1>m. PICK m \in Int : m = e + n - p.rcv_nxt
  OBVIOUS
<1>q. PICK q : q = [p EXCEPT !.rcv_wnd = m]
  OBVIOUS
<1>r. PICK r : r = [q EXCEPT !.rcv_ann_wnd = AnnWnd(q)]
  OBVIOUS
<1>0. TCP_WND \in Nat /\ U16 \in Nat /\ U16 > TCP_WND /\ End \in Int
  BY OutAssumption, WndAssumption, Numbers
<1>1. m \in Nat /\ m <= TCP_WND /\ (p.rcv_wnd + n) % U16 = m
  <2>1. m <= TCP_WND
    BY <1>0, <1>m
  <2>2. CASE Edge(p) = e
    <3>1. p.rcv_wnd + n = m /\ m \in Nat /\ m < U16
      BY <1>0, <1>m, <2>1, <2>2 DEF Edge
    <3>2. m % U16 = m
      BY <1>0, <3>1
    <3> QED  BY <2>1, <3>1, <3>2
  <2>3. CASE p.rcv_nxt = End + 1 /\ e = End /\ p.rcv_wnd = U16 - 1
    <3>1. p.rcv_wnd + n = U16 + m /\ m \in Nat /\ m < U16
      BY <1>0, <1>m, <2>1, <2>3
    <3>2. (U16 + m) % U16 = m
      BY <1>0, <3>1
    <3> QED  BY <2>1, <3>1, <3>2
  <2> QED  BY <2>2, <2>3 DEF Edged
<1>2. Credit(p, n) = r
  <2>1. Lesser((p.rcv_wnd + n) % U16, TCP_WND) = m
    BY <1>0, <1>1 DEF Lesser
  <2> QED  BY <1>q, <1>r, <2>1 DEF Credit, UpdateRcvAnnWnd
<1>3. /\ q.rcv_nxt = p.rcv_nxt /\ q.rcv_wnd = m /\ DOMAIN q = Fields
      /\ q.rcv_ann_right_edge = p.rcv_ann_right_edge
  BY <1>q, FieldsAre
<1>4. /\ r.rcv_nxt = q.rcv_nxt /\ r.rcv_wnd = m /\ r.rcv_ann_wnd = AnnWnd(q)
      /\ r.rcv_ann_right_edge = q.rcv_ann_right_edge
  BY <1>r, <1>3, FieldsAre
<1>5. Edge(q) = e + n /\ Edge(r) = e + n
  BY <1>m, <1>3, <1>4 DEF Edge
<1>6. r.rcv_nxt <= End => r.rcv_ann_right_edge <= e + n /\ r.rcv_ann_wnd <= r.rcv_wnd
  <2> SUFFICES ASSUME p.rcv_nxt <= End
               PROVE  p.rcv_ann_right_edge <= e + n /\ AnnWnd(q) <= m
    BY <1>3, <1>4
  <2>1. p.rcv_ann_right_edge <= e
    BY <1>0 DEF Edged
  <2>2. p.rcv_ann_right_edge <= e + n
    BY <2>1
  <2> QED  BY <1>1, <1>3, <1>5, <2>2, AnnWndFits
<1> QED  BY <1>1, <1>2, <1>4, <1>5, <1>6 DEF Edged

RecvedFields == OutputFields \cup {"rcv_wnd", "rcv_ann_wnd", "unread"}

(* What waits out of order fits when the buffer has more room. *)
LEMMA RoomGrows ==
  ASSUME NEW p, p.rcv_nxt \in Int, p.rcv_wnd \in Int, OoseqOK(p, Room(p), RoomForFin(p)),
         NEW q, q.ooseq = p.ooseq, q.rcv_nxt = p.rcv_nxt, Edge(q) \in Int,
         Edge(q) >= Edge(p) \/ Edge(q) >= End
  PROVE  OoseqOK(q, Room(q), RoomForFin(q))
<1>1. /\ Room(p) \in Int /\ Room(q) \in Int /\ Room(p) <= Room(q)
      /\ RoomForFin(p) \in BOOLEAN /\ RoomForFin(q) \in BOOLEAN
      /\ RoomForFin(p) => RoomForFin(q) /\ Room(q) = Room(p)
  <2>1. PICK e \in Int, f \in Int, last \in Int : e = Edge(p) /\ f = Edge(q) /\ last = End
    BY Numbers DEF Edge
  <2>2. f >= e \/ f >= last
    BY <2>1
  <2> QED  BY <2>1, <2>2 DEF Room, RoomForFin, Lesser
<1>2. Ordered(p.ooseq, Room(q), RoomForFin(q))
  BY <1>1, OrderedGrow DEF OoseqOK
<1> QED  BY <1>2 DEF OoseqOK

(* tcp_recved: what was taken is given back. *)
LEMMA RecvedReceives ==
  ASSUME NEW fb \in Int, NEW w \in Nat, NEW c \in BOOLEAN, NEW data, NEW fin,
         NEW p, Receives(p, data, fin, fb, w, c), NEW n \in Nat, n > 0, n <= p.unread
  PROVE  Receives(Recved(p, n), data, fin, fb, w, c) /\ Changes(p, Recved(p, n), RecvedFields)
<1>k. PICK k : k = Credit(p, n)
  OBVIOUS
<1>m. PICK m : m = p.unread - n
  OBVIOUS
<1>q. PICK q : q = [k EXCEPT !.unread = m]
  OBVIOUS
<1>0. /\ Snd(p, fb, w, c) /\ DOMAIN p = Fields /\ p.rcv_nxt \in Int /\ p.rcv_wnd \in Nat
      /\ p.rcv_ann_right_edge \in Int /\ p.unread \in Nat
      /\ Edged(p, Bound(p), End) /\ OoseqOK(p, Room(p), RoomForFin(p))
  BY DEF Receives, Snd
<1>e. PICK e \in Int : e = Bound(p)
  BY ReceivesNumbers
<1>1. Snd(k, fb, w, c) /\ Changes(p, k, {"rcv_wnd", "rcv_ann_wnd"})
  BY <1>k, <1>0, CreditIs
<1>2. Changes(k, q, {"unread"}) /\ q.unread = m
  BY <1>q, <1>1, FieldsAre DEF Changes
<1>3. k.unread = p.unread
  BY <1>1, FieldsAre DEF Changes
<1>4. Recved(p, n) = q \/ Recved(p, n) = AckNow(q)
  <2>1. q = [k EXCEPT !.unread = @ - n]
    BY <1>q, <1>m, <1>3
  <2> QED  BY <1>k, <2>1 DEF Recved
<1>5. Edged(k, e + n, End) /\ Edge(k) = e + n
  <2>1. p.rcv_nxt <= End + 1 /\ e + p.unread <= p.rcv_nxt + TCP_WND
    BY <1>e, ReceivesNumbers
  <2>2. e + n <= p.rcv_nxt + TCP_WND
    BY <1>0, <2>1, Numbers
  <2> QED  BY <1>k, <1>e, <1>0, <2>1, <2>2, CreditEdge
<1>6. /\ q.state = p.state /\ q.refused = p.refused /\ q.eof = p.eof
      /\ q.rcv_nxt = p.rcv_nxt /\ q.taken = p.taken /\ q.ooseq = p.ooseq
      /\ q.rcv_wnd = k.rcv_wnd /\ q.rcv_ann_wnd = k.rcv_ann_wnd /\ k.rcv_nxt = p.rcv_nxt
      /\ q.rcv_ann_right_edge = k.rcv_ann_right_edge
  BY <1>1, <1>2, FieldsAre DEF Changes
<1>7. Edged(q, e + n, End) /\ Edge(q) = e + n
  BY <1>5, <1>6 DEF Edged, Edge
<1>8. m \in Nat /\ Bound(q) = e + n
  <2>1. p.taken \in Seq(Int)
    BY DEF Receives
  <2>2. PICK l \in Nat, u \in Nat : l = Len(p.taken) /\ u = p.unread
    BY <1>0, <2>1
  <2>3. e = First + l + TCP_WND - u /\ Bound(q) = First + l + TCP_WND - m /\ m = u - n
    BY <1>e, <1>2, <1>6, <1>m, <2>2 DEF Bound
  <2>4. PICK f \in Int, t \in Int : f = First /\ t = TCP_WND
    BY Numbers
  <2>5. e = f + l + t - u /\ Bound(q) = f + l + t - (u - n)
    BY <2>3, <2>4
  <2>6. f + l + t - (u - n) = e + n
    BY <2>5
  <2>7. m \in Nat
    BY <1>0, <1>m
  <2> QED  BY <2>5, <2>6, <2>7
<1>9. Snd(q, fb, w, c)
  <2>1. {"unread"} \cap SndFields = {}
    BY DEF SndFields
  <2> QED  BY <1>1, <1>2, <2>1, SndChanges
<1>10. OoseqOK(q, Room(q), RoomForFin(q))
  <2>1. Edge(q) \in Int /\ (Edge(p) = e \/ e = End)
    BY <1>0, <1>e, <1>7 DEF Edged
  <2>2. Edge(q) >= Edge(p) \/ Edge(q) >= End
    BY <1>7, <2>1, Numbers
  <2> QED  BY <1>0, <1>6, <2>1, <2>2, RoomGrows
<1>11. Receives(q, data, fin, fb, w, c)
  <2>1. Edged(q, Bound(q), End)
    BY <1>7, <1>8
  <2> QED  BY <1>2, <1>6, <1>8, <1>9, <1>10, <2>1 DEF Receives
<1>12. Receives(AckNow(q), data, fin, fb, w, c) /\ Changes(q, AckNow(q), OutputFields)
  BY <1>11, OutputReceives
<1>13. Changes(p, q, RecvedFields)
  BY <1>1, <1>2 DEF Changes, RecvedFields
<1>14. Changes(p, AckNow(q), RecvedFields)
  BY <1>12, <1>13 DEF Changes, RecvedFields
<1> QED  BY <1>4, <1>11, <1>12, <1>13, <1>14

-----------------------------------------------------------------------------
(* A segment arrives *)

(* A segment of the stream that is in order, or whose bytes fit into the
   buffer: its FIN may be one beyond. *)
Arrives(p, s) ==
  /\ s \in WSegs(First, StreamLen, TRUE) /\ s.fl \cap {"SYN", "RST"} = {}
  /\ s.seq = p.rcv_nxt \/ s.seq + s.len <= Edge(p)

(* What has its bytes within the buffer is of the part that it has room for. *)
LEMMA FitsTheRoom ==
  ASSUME NEW p, Edge(p) \in Int, NEW t \in OSegs(End, TRUE), t.seq + t.len <= Edge(p)
  PROVE  t \in OSegs(Room(p), RoomForFin(p))
<1>1. /\ t \in [seq : Int, len : Nat, fl : SUBSET {"FIN"}]
      /\ t.fl = {} => t.len > 0
  BY DEF OSegs
<1>2. t.seq + t.len <= End /\ (t.fl # {} => t.seq + t.len = End)
  BY DEF OSegs
<1>3. t.seq + t.len <= Room(p) /\ (t.fl # {} => RoomForFin(p) /\ t.seq + t.len = Room(p))
  BY <1>1, <1>2, Numbers DEF Room, RoomForFin, Lesser
<1> QED  BY <1>1, <1>3 DEF OSegs

(* What tcp_receive cuts off the front leaves the end where it is. *)
LEMMA StrippedEnds ==
  ASSUME NEW p, p.rcv_nxt \in Int, NEW s \in WSegs(First, StreamLen, TRUE)
  PROVE  /\ Stripped(p, s).seq + Stripped(p, s).len = s.seq + s.len
         /\ s.seq = p.rcv_nxt => Stripped(p, s).seq = p.rcv_nxt
<1>z. PICK z : z = [seq |-> s.seq, len |-> s.len, fl |-> s.fl \cap {"FIN"}]
  OBVIOUS
<1>t. PICK t : t = Stripped(p, s)
  OBVIOUS
<1>1. s.seq \in Int /\ s.len \in Nat /\ z.seq = s.seq /\ z.len = s.len
  BY <1>z DEF WSegs
<1>2. CASE p.rcv_nxt \in z.seq + 1 .. EndSeq(z) - 1
  <2>1. PICK m : m = z.len - (p.rcv_nxt - z.seq)
    OBVIOUS
  <2>2. t = [z EXCEPT !.len = m, !.seq = p.rcv_nxt]
    BY <1>z, <1>t, <1>2, <2>1 DEF Stripped, CutFront
  <2>3. t.seq = p.rcv_nxt /\ t.len = m
    BY <1>z, <2>2
  <2> QED  BY <1>t, <1>1, <2>1, <2>3
<1>3. CASE ~(p.rcv_nxt \in z.seq + 1 .. EndSeq(z) - 1)
  <2>1. t = z
    BY <1>z, <1>t, <1>3 DEF Stripped, CutFront
  <2> QED  BY <1>t, <1>1, <2>1
<1> QED  BY <1>2, <1>3

(* What tcp_receive takes or queues of such a segment fits. *)
LEMMA StrippedFits ==
  ASSUME NEW p, p.rcv_nxt \in Int, p.rcv_wnd \in Nat, p.rcv_nxt >= First,
         NEW s, Arrives(p, s), TcpLen(s) # 0
  PROVE  DataFits(p, Stripped(p, s), Room(p), RoomForFin(p))
<1>t. PICK t : t = Stripped(p, s)
  OBVIOUS
<1> SUFFICES ASSUME InWindow(p, t.seq)
             PROVE  IF t.seq = p.rcv_nxt
                      THEN /\ CutToWindow(p, t) \in OSegs(Room(p), RoomForFin(p))
                           /\ CutToWindow(p, t).seq = p.rcv_nxt
                      ELSE t \in OSegs(Room(p), RoomForFin(p))
  BY <1>t DEF DataFits
<1>1. t.seq >= p.rcv_nxt /\ p.rcv_wnd > 0 /\ Edge(p) = p.rcv_nxt + p.rcv_wnd /\ Edge(p) \in Int
  BY DEF InWindow, Edge
<1>2. s \in WSegs(First, StreamLen, TRUE) /\ s.seq \in Int /\ s.len \in Nat
  BY DEF Arrives, WSegs
<1>3. t \in OSegs(End, TRUE)
  BY <1>1, <1>2, <1>t, Numbers, StrippedIs
<1>4. /\ t.seq \in Int /\ t.len \in Nat /\ t.fl \in SUBSET {"FIN"}
      /\ t \in [seq : Int, len : Nat, fl : SUBSET {"FIN"}]
      /\ EndSeq(t) = t.seq + TcpLen(t) /\ TcpLen(t) \in Nat /\ EndSeq(t) <= End + 1
      /\ TcpLen(t) = t.len + (IF t.fl # {} THEN 1 ELSE 0) /\ t.seq + t.len <= End
  <2>1. /\ t.seq \in Int /\ t.len \in Nat /\ t.fl \in SUBSET {"FIN"}
        /\ EndSeq(t) <= End + 1 /\ t.seq + t.len <= End
        /\ t \in [seq : Int, len : Nat, fl : SUBSET {"FIN"}]
    BY <1>3, Numbers, OSegIs DEF OSegs
  <2>2. t.fl \cap {"SYN", "FIN"} = t.fl
    BY <2>1
  <2> QED  BY <2>1, <2>2 DEF EndSeq, TcpLen
<1>5. CASE t.seq = p.rcv_nxt /\ TcpLen(t) > p.rcv_wnd
  <2>1. PICK m \in Nat : m = p.rcv_wnd
    OBVIOUS
  <2>2. PICK u : u = CutToWindow(p, t)
    OBVIOUS
  <2>3. u = [t EXCEPT !.len = m, !.fl = {}]
    BY <1>5, <2>1, <2>2 DEF CutToWindow
  <2>4. u.seq = p.rcv_nxt /\ u.len = m /\ u.fl = {}
        /\ u \in [seq : Int, len : Nat, fl : SUBSET {"FIN"}]
    BY <1>4, <1>5, <2>3
  <2>5. u.seq + u.len = Edge(p) /\ Edge(p) <= End
    BY <1>1, <1>4, <1>5, <2>1, <2>4, Numbers
  <2>6. u.seq + u.len <= Room(p)
    BY <1>1, <2>5, Numbers DEF Room, Lesser
  <2>7. u \in OSegs(Room(p), RoomForFin(p))
    BY <1>1, <2>1, <2>4, <2>6 DEF OSegs
  <2> QED  BY <1>5, <2>2, <2>4, <2>7
<1>6. CASE ~(t.seq = p.rcv_nxt /\ TcpLen(t) > p.rcv_wnd)
  <2>1. t.seq + t.len <= Edge(p)
    <3>1. CASE t.seq = p.rcv_nxt
      BY <1>1, <1>4, <1>6, <3>1
    <3>2. CASE t.seq # p.rcv_nxt
      <4>1. t.seq + t.len = s.seq + s.len /\ s.seq # p.rcv_nxt
        BY <1>2, <1>t, <3>2, StrippedEnds
      <4> QED  BY <4>1 DEF Arrives
    <3> QED  BY <3>1, <3>2
  <2>2. t \in OSegs(Room(p), RoomForFin(p))
    BY <1>1, <1>3, <2>1, FitsTheRoom
  <2>3. t.seq = p.rcv_nxt => CutToWindow(p, t) = t
    BY <1>4, <1>6 DEF CutToWindow
  <2> QED  BY <2>2, <2>3
<1> QED  BY <1>5, <1>6

(* A block within tcp_process whose callbacks were not called yet. *)
Handled(p, fb, w, c) ==
  /\ Receives(p, p.recv_data, GotFin(p), fb, w, c)
  /\ p.busy = TRUE /\ p.recv_flags \subseteq {"TF_GOT_FIN"}

Opens(p, fb, w, c) ==
  /\ Receives(p, <<>>, FALSE, fb, w, c)
  /\ p.busy = TRUE /\ p.recv_data = <<>> /\ p.recv_flags = {}

(* tcp_receive: what it takes is the stream from where the application is. *)
LEMMA ReceiveReceives ==
  ASSUME NEW fb \in Int, NEW w \in Nat, NEW c \in BOOLEAN,
         NEW p, Opens(p, fb, w, c), NEW s, Arrives(p, s)
  PROVE  Handled(Receive(p, s), fb, w, c)
<1>k. PICK k : k = ReceiveAck(p, s)
  OBVIOUS
<1>q. PICK q : q = Receive(p, s)
  OBVIOUS
<1>e. PICK none : none = <<>>
  OBVIOUS
<1>1. q = ReceiveData(k, s)
  BY <1>k, <1>q DEF Receive
<1>2. Snd(p, fb, w, c) /\ Receives(p, none, FALSE, fb, w, c) /\ s.ack \in Int
  BY <1>e DEF Opens, Receives, Arrives, WSegs
<1>3. Snd(k, fb, w, c) /\ Changes(p, k, AckFields)
  BY <1>k, <1>2, ReceiveAckSnd
<1>4. /\ k.rcv_nxt = p.rcv_nxt /\ k.rcv_wnd = p.rcv_wnd
      /\ k.rcv_ann_right_edge = p.rcv_ann_right_edge
      /\ k.busy = TRUE /\ k.recv_data = <<>> /\ k.recv_flags = {}
  BY <1>3, FieldsAre DEF Changes, AckFields, Opens
<1>5. Receives(k, none, FALSE, fb, w, c)
  <2>1. AckFields \cap ReceiverFields = {}
    BY DEF AckFields, ReceiverFields, ConsumeFields
  <2> QED  BY <1>2, <1>3, <1>4, <2>1, ReceivesKept
<1>6. Arrives(k, s)
  BY <1>4 DEF Arrives, Edge
<1>m. PICK lim : lim = Room(k)
  OBVIOUS
<1>d. PICK d \in BOOLEAN : d = RoomForFin(k)
  <2>1. RoomForFin(k) \in BOOLEAN
    BY DEF RoomForFin
  <2>2. \A x \in BOOLEAN : \E d \in BOOLEAN : d = x
    BY Zenon
  <2> QED  BY <2>1, <2>2, Zenon
<1>l. lim = Room(k) /\ d = RoomForFin(k)
  BY <1>m, <1>d
<1>x. PICK start : start = k.rcv_nxt
  OBVIOUS
<1>7. /\ k.rcv_nxt \in Int /\ k.rcv_wnd \in Nat /\ k.rcv_nxt \in First..End + 1
      /\ Edge(k) = k.rcv_nxt + k.rcv_wnd /\ Edged(k, Bound(k), End)
  BY <1>5 DEF Receives, Snd, Edge
<1>b. PICK b \in Int : b = Bound(k)
  BY <1>5, ReceivesNumbers
<1>8. /\ lim \in Int /\ d \in BOOLEAN /\ start \in Int
      /\ lim <= End /\ start <= lim + 1 /\ (start = lim + 1 => d)
      /\ lim <= Edge(k) /\ (d => lim = End) /\ (~d => lim = Edge(k))
  <2>1. Edge(k) \in Int /\ k.rcv_nxt <= Edge(k) /\ k.rcv_nxt <= End + 1 /\ End \in Int
    BY <1>7, Numbers
  <2>2. CASE Edge(k) >= End
    <3>1. d /\ lim = End
      <4>1. lim = End
        BY <1>l, <2>1, <2>2 DEF Room, Lesser
      <4>2. d
        BY <1>l, <2>2, Zenon DEF RoomForFin
      <4> QED  BY <4>1, <4>2
    <3> QED  BY <1>7, <1>x, <2>1, <2>2, <3>1
  <2>3. CASE ~(Edge(k) >= End)
    <3>1. ~d /\ lim = Edge(k)
      <4>1. lim = Edge(k)
        BY <1>l, <2>1, <2>3 DEF Room, Lesser
      <4>2. ~d
        BY <1>l, <2>3, Zenon DEF RoomForFin
      <4> QED  BY <4>1, <4>2
    <3> QED  BY <1>7, <1>x, <2>1, <2>3, <3>1
  <2> QED  BY <2>2, <2>3
<1>9. Awaits(k, fb, w, c, start, lim, d)
  <2>1. OoseqOK(k, lim, d)
    BY <1>5, <1>l DEF Receives
  <2>2. k.recv_data \in Seq(Int) /\ IsRun(k.recv_data, start) /\ Len(k.recv_data) = 0
    BY <1>4, RunEmpty
  <2>3. Lesser(k.rcv_nxt, lim) - Lesser(start, lim) = 0
    BY <1>8, <1>x DEF Lesser
  <2>4. ~GotFin(k) /\ ~(start <= lim /\ k.rcv_nxt = lim + 1)
    BY <1>4, <1>8, <1>x DEF GotFin
  <2>5. Got(k, start, lim, d)
    BY <1>4, <1>8, <1>x, <2>2, <2>3, <2>4 DEF Got
  <2> QED  BY <1>3, <1>4, <2>1, <2>5 DEF Awaits
<1>10. DataStep(k, q, fb, w, c, start, lim, d)
  <2>1. TcpLen(s) # 0 => DataFits(k, Stripped(k, s), lim, d)
    <3>1. k.rcv_nxt >= First
      BY <1>7, Numbers
    <3> QED  BY <1>6, <1>7, <1>l, <3>1, StrippedFits
  <2>2. DataStep(k, ReceiveData(k, s), fb, w, c, start, lim, d)
    BY <1>8, <1>9, <2>1, ReceiveFitting
  <2> QED  BY <1>1, <2>2
<1>11. /\ Snd(q, fb, w, c) /\ Changes(k, q, DataFields) /\ Got(q, start, lim, d)
       /\ Moved(k, q, lim) /\ OoseqOK(q, lim, d) /\ KeepsEdge(k, q, lim)
  BY <1>10 DEF DataStep
<1>12. Edged(q, b, End) /\ Room(q) = lim /\ RoomForFin(q) = d
  <2>1. /\ q.rcv_nxt \in start..lim + 1 /\ (q.rcv_nxt = lim + 1 => d)
        /\ q.rcv_nxt \in Int /\ q.rcv_wnd \in Nat
    BY <1>11 DEF Got, Snd
  <2>2. U16 \in Nat /\ U16 > TCP_WND
    BY OutAssumption, WndAssumption
  <2>3. (Edge(k) = b /\ k.rcv_nxt + k.rcv_wnd = b) \/ (d /\ b = lim)
    <3>1. CASE Edge(k) = b
      BY <1>7, <3>1
    <3>2. CASE k.rcv_nxt = End + 1 /\ b = End
      <4>1. d
        BY <1>7, <1>8, <3>2, Numbers
      <4> QED  BY <1>8, <3>2, <4>1
    <3> QED  BY <1>7, <1>b, <3>1, <3>2 DEF Edged
  <2>4. lim <= b
    BY <1>8, <2>3
  <2>5. Edged(k, b, lim)
    <3>1. CASE d
      BY <1>7, <1>8, <1>b, <3>1
    <3>2. CASE ~d
      <4>1. k.rcv_nxt <= lim => k.rcv_nxt <= End
        BY <1>7, <1>8, Numbers
      <4>2. k.rcv_nxt # End + 1
        BY <1>7, <1>8, <3>2, Numbers
      <4> QED  BY <1>7, <1>b, <4>1, <4>2 DEF Edged
    <3> QED  BY <1>8, <3>1, <3>2
  <2>6. Edged(q, b, lim)
    BY <1>11, <2>4, <2>5 DEF KeepsEdge
  <2>7. CASE d
    <3>1. lim = End /\ Edged(q, b, End)
      BY <1>8, <2>6, <2>7
    <3>2. Edge(q) \in Int /\ Edge(q) >= End
      <4>1. Edge(q) = b \/ q.rcv_nxt = End + 1
        BY <3>1 DEF Edged
      <4> QED  BY <2>1, <2>4, <3>1, <4>1, Numbers DEF Edge
    <3>3. Room(q) = End
      BY <3>2, Numbers DEF Room, Lesser
    <3>4. RoomForFin(q) = TRUE
      BY <3>2 DEF RoomForFin
    <3> QED  BY <2>7, <3>1, <3>3, <3>4
  <2>8. CASE ~d
    <3>1. q.rcv_nxt <= lim /\ lim = b /\ lim < End /\ q.rcv_nxt # lim + 1
      <4>1. q.rcv_nxt # lim + 1 /\ lim = b
        BY <1>8, <2>1, <2>3, <2>8
      <4>2. ~(Edge(k) >= End)
        <5>1. ~RoomForFin(k)
          BY <1>l, <2>8
        <5> QED  BY <5>1 DEF RoomForFin
      <4>3. lim < End
        BY <1>7, <1>8, <2>8, <4>2, Numbers
      <4> QED  BY <1>8, <2>1, <4>1, <4>3
    <3>2. /\ q.rcv_wnd <= TCP_WND /\ Edge(q) = b
          /\ q.rcv_ann_right_edge <= b /\ q.rcv_ann_wnd <= q.rcv_wnd
      BY <2>6, <3>1 DEF Edged
    <3>3. Edged(q, b, End)
      BY <3>2 DEF Edged
    <3>4. Room(q) = lim
      BY <3>1, <3>2, Numbers DEF Room, Lesser
    <3>5. RoomForFin(q) = FALSE
      BY <1>8, <3>1, <3>2, Numbers DEF RoomForFin
    <3> QED  BY <2>8, <3>3, <3>4, <3>5
  <2> QED  BY <1>8, <2>7, <2>8
<1>13. /\ q.refused = k.refused /\ q.unread = k.unread /\ q.eof = k.eof /\ q.taken = k.taken
       /\ q.busy = k.busy
  BY <1>11, FieldsAre DEF Changes, DataFields, QueuedFields, TakeFields, ConsumeFields
<1>14. q.state \in {"ESTABLISHED", "CLOSE_WAIT"}
  BY <1>5, <1>11 DEF Moved, Receives
<1>15. /\ q.rcv_nxt \in start..lim + 1 /\ (q.rcv_nxt = lim + 1 => d)
       /\ q.recv_data \in Seq(Int) /\ IsRun(q.recv_data, start)
       /\ Len(q.recv_data) = Lesser(q.rcv_nxt, lim) - Lesser(start, lim)
       /\ q.recv_flags \subseteq {"TF_GOT_FIN"}
       /\ GotFin(q) <=> start <= lim /\ q.rcv_nxt = lim + 1
  BY <1>11 DEF Got
<1>16. /\ k.taken \in Seq(Int) /\ IsRun(k.taken, First) /\ Len(k.taken) \in Nat
       /\ First + Len(k.taken) = Lesser(start, End)
       /\ k.eof <=> start = End + 1
       /\ k.refused = <<>> /\ k.unread \in Nat /\ k.eof \in BOOLEAN
  <2>1. Len(none) = 0
    BY <1>e
  <2> QED  BY <1>5, <1>x, <2>1, Numbers DEF Receives
<1>17. q.rcv_nxt \in First..End + 1
  <2>1. q.rcv_nxt \in start..lim + 1 /\ start \in Int /\ lim \in Int /\ lim <= End
    BY <1>8, <1>15
  <2>2. start >= First
    BY <1>7, <1>x, Numbers
  <2> QED  BY <2>1, <2>2, Numbers
<1>18. First + Len(q.taken) + Len(q.recv_data) = Lesser(q.rcv_nxt, End)
  <2>1. CASE d
    BY <1>8, <1>13, <1>15, <1>16, <1>17, <2>1, Numbers, SMTT(30) DEF Lesser
  <2>2. CASE ~d
    <3>1. start <= lim /\ q.rcv_nxt <= lim /\ q.rcv_nxt \in Int
      BY <1>8, <1>15, <2>2
    <3>2. /\ Lesser(start, lim) = start /\ Lesser(q.rcv_nxt, lim) = q.rcv_nxt
          /\ Lesser(start, End) = start /\ Lesser(q.rcv_nxt, End) = q.rcv_nxt
      BY <1>8, <3>1, Numbers DEF Lesser
    <3> QED  BY <1>8, <1>13, <1>15, <1>16, <3>1, <3>2, Numbers
  <2> QED  BY <1>8, <2>1, <2>2
<1>19. IsRun(q.recv_data, First + Len(q.taken))
  <2>1. CASE start <= End
    BY <1>8, <1>13, <1>15, <1>16, <2>1 DEF Lesser
  <2>2. CASE start > End
    <3>1. Len(q.recv_data) = 0
      BY <1>7, <1>8, <1>15, <1>x, <2>2, Numbers DEF Lesser
    <3> QED  BY <3>1 DEF IsRun
  <2> QED  BY <1>8, <2>1, <2>2, Numbers
<1>20. q.eof \/ GotFin(q) <=> q.rcv_nxt = End + 1
  BY <1>7, <1>8, <1>13, <1>15, <1>16, <1>x, Numbers, SMTT(30)
<1>21. Receives(q, q.recv_data, GotFin(q), fb, w, c)
  <2>1. Edged(q, Bound(q), End) /\ OoseqOK(q, Room(q), RoomForFin(q))
    <3>1. Bound(q) = b
      BY <1>b, <1>13 DEF Bound
    <3> QED  BY <1>11, <1>12, <3>1
  <2> QED  BY <1>11, <1>13, <1>14, <1>15, <1>16, <1>17, <1>18, <1>19, <1>20, <2>1 DEF Receives
<1> QED  BY <1>q, <1>4, <1>13, <1>15, <1>21 DEF Handled

(* The FIN was taken: the state moves on. *)
LEMMA CloseWaitHandled ==
  ASSUME NEW fb \in Int, NEW w \in Nat, NEW c \in BOOLEAN, NEW p, Handled(p, fb, w, c)
  PROVE  Handled([AckNow(p) EXCEPT !.state = "CLOSE_WAIT"], fb, w, c)
<1>x. PICK data, fin : data = p.recv_data /\ fin = GotFin(p)
  OBVIOUS
<1>a. PICK a : a = AckNow(p)
  OBVIOUS
<1>b. PICK b : b = [a EXCEPT !.state = "CLOSE_WAIT"]
  OBVIOUS
<1>1. Receives(p, data, fin, fb, w, c) /\ p.busy = TRUE /\ p.recv_flags \subseteq {"TF_GOT_FIN"}
  BY <1>x DEF Handled
<1>2. Receives(a, data, fin, fb, w, c) /\ Changes(p, a, {"flags"})
  BY <1>1, <1>a, OutputReceives
<1>3. Changes(a, b, {"state"}) /\ b.state = "CLOSE_WAIT"
  BY <1>b, <1>2, FieldsAre DEF Changes
<1>4. /\ b.busy = TRUE /\ b.recv_flags = p.recv_flags /\ b.recv_data = p.recv_data
  BY <1>1, <1>2, <1>3, FieldsAre DEF Changes
<1>5. Snd(b, fb, w, c)
  <2>1. {"state"} \cap SndFields = {} /\ Snd(a, fb, w, c)
    BY <1>2 DEF SndFields, Receives
  <2> QED  BY <1>3, <2>1, SndChanges
<1>6. /\ b.refused = a.refused /\ b.unread = a.unread /\ b.eof = a.eof
      /\ b.rcv_nxt = a.rcv_nxt /\ b.taken = a.taken /\ b.ooseq = a.ooseq
      /\ b.rcv_wnd = a.rcv_wnd /\ b.rcv_ann_wnd = a.rcv_ann_wnd
      /\ b.rcv_ann_right_edge = a.rcv_ann_right_edge
  BY <1>3, FieldsAre DEF Changes
<1>7. Receives(b, data, fin, fb, w, c)
  <2>1. Edge(b) = Edge(a) /\ (Edged(a, Bound(a), End) => Edged(b, Bound(b), End))
    BY <1>6 DEF Edge, Edged, Bound
  <2>2. Room(b) = Room(a) /\ RoomForFin(b) = RoomForFin(a)
    BY <2>1 DEF Room, RoomForFin
  <2> QED  BY <1>2, <1>3, <1>5, <1>6, <2>1, <2>2 DEF Receives, OoseqOK
<1> QED  BY <1>a, <1>b, <1>1, <1>4, <1>7, <1>x DEF Handled, GotFin

(* The states after the handshake that the receiver reaches. *)
LEMMA FinStatesHandled ==
  ASSUME NEW fb \in Int, NEW w \in Nat, NEW c \in BOOLEAN, NEW p, Handled(p, fb, w, c), NEW s
  PROVE  Handled(FinStates(p, s), fb, w, c)
<1>1. p.state \in {"ESTABLISHED", "CLOSE_WAIT"}
  BY DEF Handled, Receives
<1>2. FinStates(p, s) = IF GotFin(p) THEN [AckNow(p) EXCEPT !.state = "CLOSE_WAIT"] ELSE p
  BY <1>1 DEF FinStates
<1> QED  BY <1>2, CloseWaitHandled

OfferFields == RecvedFields \cup {"refused", "taken"}

(* The recv callback takes what waits, and gives the window back or not. *)
LEMMA OfferReceives ==
  ASSUME NEW fb \in Int, NEW w \in Nat, NEW c \in BOOLEAN, NEW data, NEW fin,
         NEW p, Receives(p, data, fin, fb, w, c), data # <<>>, NEW answer \in {"consume", "take"}
  PROVE  /\ Receives(Offer(p, data, answer), <<>>, fin, fb, w, c)
         /\ Changes(p, Offer(p, data, answer), OfferFields)
<1>e. PICK none : none = <<>>
  OBVIOUS
<1>n. PICK n : n = Len(data)
  OBVIOUS
<1>t. PICK taken : taken = p.taken \o data
  OBVIOUS
<1>m. PICK m : m = p.unread + n
  OBVIOUS
<1>q. PICK q : q = [p EXCEPT !.refused = <<>>, !.taken = taken, !.unread = m]
  OBVIOUS
<1>1. /\ Snd(p, fb, w, c) /\ DOMAIN p = Fields /\ p.refused = <<>> /\ p.unread \in Nat
      /\ p.taken \in Seq(Int) /\ IsRun(p.taken, First) /\ Len(p.taken) \in Nat
      /\ data \in Seq(Int) /\ IsRun(data, First + Len(p.taken)) /\ n \in Nat /\ n > 0
      /\ First + Len(p.taken) + n = Lesser(p.rcv_nxt, End)
      /\ Edged(p, Bound(p), End)
  <2>1. /\ Snd(p, fb, w, c) /\ p.refused = <<>> /\ p.unread \in Nat
        /\ p.taken \in Seq(Int) /\ IsRun(p.taken, First)
        /\ data \in Seq(Int) /\ IsRun(data, First + Len(p.taken))
        /\ First + Len(p.taken) + Len(data) = Lesser(p.rcv_nxt, End)
        /\ Edged(p, Bound(p), End)
    BY DEF Receives
  <2>2. DOMAIN p = Fields
    BY <2>1 DEF Snd
  <2>3. Len(p.taken) \in Nat /\ n \in Nat /\ n > 0
    BY <2>1, <1>n
  <2> QED  BY <1>n, <2>1, <2>2, <2>3
<1>2. taken \in Seq(Int) /\ IsRun(taken, First) /\ Len(taken) = Len(p.taken) + n
  <2>1. PICK a, then : a = p.taken /\ then = First + Len(p.taken)
    OBVIOUS
  <2>2. a \in Seq(Int) /\ IsRun(a, First) /\ then \in Int /\ then = First + Len(a) /\ IsRun(data, then)
    BY <1>1, <2>1, Numbers
  <2> QED  BY <1>1, <1>n, <1>t, <2>1, <2>2, Numbers, RunConcat
<1>3. Changes(p, q, {"refused", "taken", "unread"})
      /\ q.refused = <<>> /\ q.taken = taken /\ q.unread = m
  BY <1>q, <1>1, FieldsAre DEF Changes
<1>4. /\ q.state = p.state /\ q.eof = p.eof /\ q.rcv_nxt = p.rcv_nxt /\ q.ooseq = p.ooseq
      /\ q.rcv_wnd = p.rcv_wnd /\ q.rcv_ann_wnd = p.rcv_ann_wnd
      /\ q.rcv_ann_right_edge = p.rcv_ann_right_edge
  BY <1>3, FieldsAre DEF Changes
<1>5. Snd(q, fb, w, c)
  <2>1. {"refused", "taken", "unread"} \cap SndFields = {}
    BY DEF SndFields
  <2> QED  BY <1>1, <1>3, <2>1, SndChanges
<1>6. Receives(q, none, fin, fb, w, c)
  <2>1. Edge(q) = Edge(p) /\ (Edged(p, Bound(p), End) => Edged(q, Bound(p), End))
    BY <1>4 DEF Edge, Edged
  <2>2. Room(q) = Room(p) /\ RoomForFin(q) = RoomForFin(p)
    BY <2>1 DEF Room, RoomForFin
  <2>3. none \in Seq(Int) /\ IsRun(none, First + Len(q.taken)) /\ Len(none) = 0
    BY <1>e, RunEmpty
  <2>4. m \in Nat /\ Bound(q) = Bound(p) /\ First + Len(q.taken) + 0 = Lesser(p.rcv_nxt, End)
    <3>1. PICK l \in Nat, u \in Nat, k \in Nat : l = Len(p.taken) /\ u = p.unread /\ k = n
      BY <1>1
    <3>2. /\ First + l + k = Lesser(p.rcv_nxt, End)
          /\ m = u + k /\ Len(q.taken) = l + k
          /\ Bound(p) = First + l + TCP_WND - u /\ Bound(q) = First + (l + k) + TCP_WND - m
      BY <1>1, <1>2, <1>3, <1>m, <3>1 DEF Bound
    <3> QED  BY <3>2, Numbers
  <2> QED  BY <1>1, <1>2, <1>3, <1>4, <1>5, <2>1, <2>2, <2>3, <2>4 DEF Receives, OoseqOK
<1>7. Receives(Recved(q, n), none, fin, fb, w, c) /\ Changes(q, Recved(q, n), RecvedFields)
  <2>1. n <= q.unread
    BY <1>1, <1>3, <1>m
  <2> QED  BY <1>1, <1>6, <2>1, RecvedReceives
<1>8. Offer(p, data, answer) = IF answer = "consume" THEN Recved(q, n) ELSE q
  <2>1. q = [p EXCEPT !.refused = <<>>, !.taken = @ \o data, !.unread = @ + Len(data)]
    BY <1>q, <1>t, <1>m, <1>n
  <2>2. CASE answer = "consume"
    BY <1>n, <2>1, <2>2 DEF Offer
  <2>3. CASE answer = "take"
    BY <2>1, <2>3 DEF Offer
  <2> QED  BY <2>2, <2>3
<1>9. Changes(p, q, OfferFields) /\ Changes(p, Recved(q, n), OfferFields)
  BY <1>3, <1>7 DEF Changes, OfferFields, RecvedFields
<1> QED  BY <1>e, <1>6, <1>7, <1>8, <1>9

Rests(p, fb, w, c) ==
  /\ Receives(p, <<>>, FALSE, fb, w, c)
  /\ p.busy = FALSE /\ p.recv_data = <<>> /\ p.recv_flags = {}

(* What tcp_input resets once the callbacks are done. *)
Cleared(p) == [p EXCEPT !.busy = FALSE, !.recv_data = <<>>, !.recv_flags = {}]

(* The callbacks and tcp_output at the end of tcp_input. *)
LEMMA FinishRests ==
  ASSUME NEW fb \in Int, NEW w \in Nat, NEW c \in BOOLEAN, NEW p, Handled(p, fb, w, c),
         NEW cb \in Callbacks
  PROVE  Rests(Cleared(Finish(p, cb)), fb, w, c)
<1>e. PICK none : none = <<>>
  OBVIOUS
<1>x. PICK data, fin : data = p.recv_data /\ fin = GotFin(p)
  OBVIOUS
<1>1. /\ Receives(p, data, fin, fb, w, c) /\ p.recv_flags \subseteq {"TF_GOT_FIN"}
      /\ DOMAIN p = Fields /\ p.state # "CLOSED"
  BY <1>x DEF Handled, Receives, Snd
<1>2. cb.recv \in {"consume", "take"} /\ cb.eof = FALSE
  BY ReceiverAssumption DEF Callbacks
<1>s. PICK sent : sent = [p EXCEPT !.reported = @ + p.acked]
  OBVIOUS
<1>r. PICK recv : recv = IF data = <<>> THEN sent ELSE Offer(sent, data, cb.recv)
  OBVIOUS
<1>f. PICK eof : eof = IF fin THEN [recv EXCEPT !.eof = TRUE] ELSE recv
  OBVIOUS
<1>b. PICK b : b = [eof EXCEPT !.busy = FALSE]
  OBVIOUS
<1>3. Finish(p, cb) = Output(b)
  <2>1. eof = IF GotFin(p) THEN Eof(recv, cb.eof) ELSE recv
    BY <1>2, <1>f, <1>x DEF Eof
  <2>2. "TF_RESET" \notin p.recv_flags /\ "TF_CLOSED" \notin p.recv_flags
    BY <1>1
  <2> QED  BY <1>1, <1>s, <1>r, <1>b, <1>x, <2>1, <2>2 DEF Finish
<1>4. Receives(sent, data, fin, fb, w, c) /\ DOMAIN sent = Fields
  <2>1. Changes(p, sent, {"reported"})
    BY <1>1, <1>s, FieldsAre DEF Changes
  <2>2. {"reported"} \cap (ReceiverFields \cup SndFields) = {}
    BY DEF ReceiverFields, ConsumeFields, SndFields
  <2> QED  BY <1>1, <2>1, <2>2, ReceivesStill DEF Changes
<1>5. Receives(recv, none, fin, fb, w, c) /\ DOMAIN recv = Fields
  <2>1. CASE data = <<>>
    BY <1>e, <1>r, <1>4, <2>1
  <2>2. CASE data # <<>>
    <3>1. /\ Receives(Offer(sent, data, cb.recv), <<>>, fin, fb, w, c)
          /\ Changes(sent, Offer(sent, data, cb.recv), OfferFields)
      BY <1>2, <1>4, <2>2, OfferReceives
    <3> QED  BY <1>e, <1>r, <2>2, <3>1 DEF Changes
  <2> QED  BY <2>1, <2>2
<1>6. Receives(eof, none, FALSE, fb, w, c) /\ DOMAIN eof = Fields
  <2>1. CASE fin
    <3>1. eof = [recv EXCEPT !.eof = TRUE]
      BY <1>f, <2>1
    <3>2. Changes(recv, eof, {"eof"}) /\ eof.eof = TRUE
      BY <1>5, <3>1, FieldsAre DEF Changes
    <3>3. Snd(eof, fb, w, c)
      <4>1. {"eof"} \cap SndFields = {} /\ Snd(recv, fb, w, c)
        BY <1>5 DEF SndFields, Receives
      <4> QED  BY <3>2, <4>1, SndChanges
    <3>4. /\ eof.refused = recv.refused /\ eof.unread = recv.unread /\ eof.state = recv.state
          /\ eof.rcv_nxt = recv.rcv_nxt /\ eof.taken = recv.taken /\ eof.ooseq = recv.ooseq
          /\ eof.rcv_wnd = recv.rcv_wnd /\ eof.rcv_ann_wnd = recv.rcv_ann_wnd
          /\ eof.rcv_ann_right_edge = recv.rcv_ann_right_edge
      BY <3>2, FieldsAre DEF Changes
    <3>5. /\ Edge(eof) = Edge(recv)
          /\ Edged(recv, Bound(recv), End) => Edged(eof, Bound(eof), End)
      BY <3>4 DEF Edge, Edged, Bound
    <3>6. Room(eof) = Room(recv) /\ RoomForFin(eof) = RoomForFin(recv)
      BY <3>5 DEF Room, RoomForFin
    <3>7. recv.rcv_nxt = End + 1
      BY <1>5, <2>1 DEF Receives
    <3> QED  BY <1>5, <3>2, <3>3, <3>4, <3>5, <3>6, <3>7 DEF Receives, OoseqOK, Changes
  <2>2. CASE ~fin
    <3>1. eof = recv
      BY <1>f, <2>2
    <3> QED  BY <1>5, <2>2, <3>1 DEF Receives
  <2> QED  BY <2>1, <2>2
<1>7. Receives(b, none, FALSE, fb, w, c)
  <2>1. Changes(eof, b, {"busy"})
    BY <1>6, <1>b, FieldsAre DEF Changes
  <2>2. {"busy"} \cap (ReceiverFields \cup SndFields) = {}
    BY DEF ReceiverFields, ConsumeFields, SndFields
  <2> QED  BY <1>6, <2>1, <2>2, ReceivesStill
<1>z. PICK z : z = Output(b)
  OBVIOUS
<1>8. Receives(z, none, FALSE, fb, w, c) /\ DOMAIN z = Fields
  <2>1. Receives(z, none, FALSE, fb, w, c) /\ Changes(b, z, OutputFields)
    BY <1>7, <1>z, OutputReceives
  <2> QED  BY <2>1 DEF Changes
<1>y. PICK y : y = Cleared(z)
  OBVIOUS
<1>9. /\ Changes(z, y, {"busy", "recv_data", "recv_flags"})
      /\ y.busy = FALSE /\ y.recv_data = <<>> /\ y.recv_flags = {}
  BY <1>8, <1>y, FieldsAre DEF Changes, Cleared
<1>10. Receives(y, none, FALSE, fb, w, c)
  <2>1. {"busy", "recv_data", "recv_flags"} \cap (ReceiverFields \cup SndFields) = {}
    BY DEF ReceiverFields, ConsumeFields, SndFields
  <2> QED  BY <1>8, <1>9, <2>1, ReceivesStill
<1> QED  BY <1>e, <1>y, <1>z, <1>3, <1>9, <1>10 DEF Rests

(* tcp_input of a segment of the stream. *)
LEMMA ActiveInputRests ==
  ASSUME NEW fb \in Int, NEW w \in Nat, NEW c \in BOOLEAN, NEW p, Rests(p, fb, w, c),
         NEW s, Arrives(p, s), NEW cb \in Callbacks
  PROVE  Rests(ActiveInput(p, s, cb), fb, w, c)
<1>e. PICK none : none = <<>>
  OBVIOUS
<1>k. PICK k : k = [p EXCEPT !.busy = TRUE]
  OBVIOUS
<1>1. /\ Receives(p, none, FALSE, fb, w, c) /\ DOMAIN p = Fields /\ p.refused = <<>>
      /\ p.state \in {"ESTABLISHED", "CLOSE_WAIT"} /\ p.recv_data = <<>> /\ p.recv_flags = {}
  BY <1>e DEF Rests, Receives, Snd
<1>2. Changes(p, k, {"busy"}) /\ k.busy = TRUE
  BY <1>1, <1>k, FieldsAre DEF Changes
<1>3. /\ k.state = p.state /\ k.recv_data = <<>> /\ k.recv_flags = {}
      /\ k.rcv_nxt = p.rcv_nxt /\ k.rcv_wnd = p.rcv_wnd
  BY <1>1, <1>2, FieldsAre DEF Changes
<1>4. Receives(k, none, FALSE, fb, w, c)
  <2>1. {"busy"} \cap (ReceiverFields \cup SndFields) = {}
    BY DEF ReceiverFields, ConsumeFields, SndFields
  <2> QED  BY <1>1, <1>2, <2>1, ReceivesStill
<1>5. Opens(k, fb, w, c) /\ Arrives(k, s)
  BY <1>e, <1>2, <1>3, <1>4 DEF Opens, Arrives, Edge
<1>6. Process(k, s, cb) = FinStates(Receive(k, s), s)
  <2>1. "RST" \notin s.fl /\ "SYN" \notin s.fl
    BY DEF Arrives
  <2>2. k.state \in Synchronized /\ k.state # "SYN_SENT" /\ k.state # "SYN_RCVD"
    BY <1>1, <1>3 DEF Synchronized
  <2> QED  BY <2>1, <2>2 DEF Process
<1>7. Handled(Process(k, s, cb), fb, w, c)
  BY <1>5, <1>6, ReceiveReceives, FinStatesHandled
<1>8. ActiveInput(p, s, cb) = Cleared(Finish(Process(k, s, cb), cb))
  BY <1>1, <1>k DEF ActiveInput, Cleared
<1> QED  BY <1>7, <1>8, FinishRests

-----------------------------------------------------------------------------
(* The connection opens *)

(* What tcp_listen_input sends is its SYN: it fits into a window of one, and
   nothing waits for an acknowledgement. *)
LEMMA SynLeaves ==
  ASSUME NEW p, DOMAIN p = Fields, p.busy = FALSE, p.flags = {}, p.unacked = <<>>,
         p.snd_wnd = TCP_WND, p.cwnd = 1, p.lastack = Iss, p.snd_nxt = Iss, NEW pb \in Nat,
         p.unsent = <<[seq |-> Iss, len |-> 0, fl |-> {"SYN"}, pb |-> pb]>>
  PROVE  Output(p).snd_nxt = Iss + 1
<1> DEFINE wnd == Lesser(p.snd_wnd, p.cwnd)
           T == {i \in Nat : /\ Fits(p, p.unsent[i], wnd)
                             /\ \/ Nagle(p, i)
                                \/ p.flags \cap {"TF_NAGLEMEMERR", "TF_FIN"} # {}}
           n == Lead(Len(p.unsent),
                  LAMBDA i : /\ Fits(p, p.unsent[i], wnd)
                             /\ \/ Nagle(p, i)
                                \/ p.flags \cap {"TF_NAGLEMEMERR", "TF_FIN"} # {})
           q == IF n = 0 THEN p ELSE SendSegments(p, n)
<1>s. PICK s : s = [seq |-> Iss, len |-> 0, fl |-> {"SYN"}, pb |-> pb]
  OBVIOUS
<1>1. p.unsent = <<s>> /\ Len(p.unsent) = 1 /\ p.unsent[1] = s
  BY <1>s
<1>2. s.seq = Iss /\ s.len = 0 /\ EndSeq(s) = Iss + 1
  <2>1. s.fl \cap {"SYN", "FIN"} # {} /\ s.seq = Iss /\ s.len = 0
    BY <1>s
  <2> QED  BY <2>1, Numbers DEF EndSeq, TcpLen
<1>3. 1 \in T
  <2>1. wnd = 1
    BY Numbers DEF Lesser
  <2>2. Fits(p, s, wnd)
    <3> HIDE DEF wnd
    <3> QED  BY <1>2, <2>1, Numbers DEF Fits
  <2>3. Nagle(p, 1)
    BY DEF Nagle
  <2> HIDE DEF wnd
  <2> QED  BY <1>1, <2>2, <2>3
<1>4. n = 1
  <2>1. n = Max({k \in 0..Len(p.unsent) : \A j \in 1..k : j \in T})
    <3>1. \A k \in 0..Len(p.unsent) : \A j \in 1..k : j \in Nat
      BY <1>1
    <3>2. {k \in 0..Len(p.unsent) : \A j \in 1..k : j \in T}
            = {k \in 0..Len(p.unsent) : \A j \in 1..k :
                 /\ Fits(p, p.unsent[j], wnd)
                 /\ \/ Nagle(p, j)
                    \/ p.flags \cap {"TF_NAGLEMEMERR", "TF_FIN"} # {}}
      <4> HIDE DEF wnd
      <4> QED  BY <3>1
    <3> QED  BY <3>2 DEF Lead
  <2> HIDE DEF T, n
  <2>2. Len(p.unsent) \in Nat
    BY <1>1
  <2>3. n \in 0..Len(p.unsent) /\ (n < Len(p.unsent) => n + 1 \notin T)
    <3>1. PICK m, U : m \in Nat /\ m = Len(p.unsent) /\ U = T
      BY <2>2
    <3>m. m \in Nat
      BY <3>1
    <3>2. PICK k : k = Max({i \in 0..m : \A j \in 1..i : j \in U})
      OBVIOUS
    <3>3. k \in 0..m /\ (k < m => k + 1 \notin U)
      <4>1. k \in 0..m
        BY <3>m, <3>2, LeadMax
      <4>2. k < m => k + 1 \notin U
        BY <3>m, <3>2, LeadMax
      <4> QED  BY <4>1, <4>2
    <3>4. n = k
      BY <2>1, <3>1, <3>2
    <3> QED  BY <3>1, <3>3, <3>4
  <2>4. n \in {0, 1} /\ (n = 0 => 1 \notin T)
    BY <1>1, <2>3
  <2> QED  BY <1>3, <2>4
<1> HIDE DEF T, n
<1>5. q = SendSegments(p, 1)
  BY <1>4
<1>6. Output(p) = [q EXCEPT !.flags = @ \ {"TF_NAGLEMEMERR"},
                            !.persist_backoff = IF Blocked(q) THEN 1 ELSE @]
  BY DEF Output, n
<1> HIDE DEF q
<1>7. PICK sent : sent = SubSeq(p.unsent, 1, 1)
  OBVIOUS
<1>8. q.snd_nxt = Max(EndsOf(p, sent, 1)) /\ DOMAIN q = Fields
  <2>1. PICK i : i = 1
    OBVIOUS
  <2>2. /\ Changes(p, SendSegments(p, i), OutputFields \ {"persist_backoff"})
        /\ SendSegments(p, i).snd_nxt = Max(EndsOf(p, SubSeq(p.unsent, 1, i), i))
    BY SendSegmentsChanges
  <2> QED  BY <1>5, <1>7, <2>1, <2>2 DEF Changes
<1>9. Output(p).snd_nxt = q.snd_nxt
  BY <1>6, <1>8, FieldsAre
<1>10. EndsOf(p, sent, 1) = {Iss, Iss + 1}
  <2>1. sent[1] = s
    BY <1>1, <1>7
  <2>2. {EndSeq(sent[i]) : i \in 1..1} = {Iss + 1}
    BY <1>2, <2>1
  <2> QED  BY <2>2 DEF EndsOf
<1>11. Max({Iss, Iss + 1}) = Iss + 1
  <2>1. PICK S, m : S = {Iss, Iss + 1} /\ m = Iss + 1
    OBVIOUS
  <2>2. m \in Int /\ S # {} /\ S \subseteq Int /\ \A x \in S : x <= m
    BY <2>1, Numbers
  <2>3. Max(S) \in S /\ \A y \in S : y <= Max(S)
    BY <2>2, MaxIs
  <2> QED  BY <2>1, <2>3, Numbers
<1> QED  BY <1>8, <1>9, <1>10, <1>11

Syn == [Segment(First - 1, 0, {"SYN"}) EXCEPT !.ack = 0]

(* The block that answers the SYN of the peer. *)
Answered(p, fb, w, c) ==
  /\ Snd(p, fb, w, c) /\ p.state = "SYN_RCVD"
  /\ p.lastack = Iss /\ p.snd_nxt = Iss + 1 /\ p.rcv_nxt = First /\ p.rcv_wnd = TCP_WND
  /\ p.rcv_ann_wnd = TCP_WND /\ p.rcv_ann_right_edge \in {First, First + TCP_WND}
  /\ p.refused = <<>> /\ p.unread = 0 /\ p.eof = FALSE /\ p.taken = <<>> /\ p.ooseq = <<>>
  /\ p.busy = FALSE /\ p.recv_data = <<>> /\ p.recv_flags = {}

(* tcp_listen_input of that SYN. *)
LEMMA SynAnswered ==
  ASSUME NEW fb \in Int, NEW w \in Nat, NEW c \in BOOLEAN, fb = Iss + 1
  PROVE  Answered(ListenInput(Blank, Syn, Iss, TRUE), fb, w, c)
<1>s. PICK s : s = Syn
  OBVIOUS
<1>1. s.seq = First - 1 /\ s.wnd = TCP_WND /\ s.fl = {"SYN"} /\ s.seq + 1 = First
  <2>1. s.seq = First - 1 /\ s.wnd = TCP_WND /\ s.fl = {"SYN"}
    BY <1>s DEF Syn, Segment
  <2> QED  BY <2>1, Numbers
<1>a. PICK a : a = Alloc(Blank, Iss)
  OBVIOUS
<1>q. PICK q : q = [a EXCEPT
                      !.state = "SYN_RCVD",
                      !.rcv_nxt = s.seq + 1, !.rcv_ann_right_edge = s.seq + 1,
                      !.snd_wnd = s.wnd, !.ssthresh = s.wnd, !.snd_wl1 = s.seq - 1]
  OBVIOUS
<1>k. PICK k : k = WithSyn(q)
  OBVIOUS
<1>z. PICK z : z = Output(k)
  OBVIOUS
<1> DEFINE AllocFields == {"snd_buf", "cwnd", "rcv_wnd", "rcv_ann_wnd", "snd_wl2", "snd_nxt",
                           "lastack", "snd_lbb"}
           ListenFields == {"state", "rcv_nxt", "rcv_ann_right_edge", "snd_wnd", "ssthresh",
                            "snd_wl1"}
<1>2. /\ Changes(Blank, a, AllocFields)
      /\ a.snd_buf = TCP_SND_BUF /\ a.cwnd = 1 /\ a.rcv_wnd = TCP_WND
      /\ a.rcv_ann_wnd = TCP_WND /\ a.snd_nxt = Iss /\ a.lastack = Iss /\ a.snd_lbb = Iss
  <2>1. DOMAIN Blank = Fields
    BY DEF Fields
  <2> QED  BY <1>a, <2>1, FieldsAre DEF Changes, Alloc
<1>3. /\ Changes(a, q, ListenFields) /\ q.state = "SYN_RCVD" /\ q.rcv_nxt = First
      /\ q.rcv_ann_right_edge = First /\ q.snd_wnd = TCP_WND
  BY <1>1, <1>2, <1>q, FieldsAre DEF Changes
<1>4. /\ q.snd_buf = TCP_SND_BUF /\ q.cwnd = 1 /\ q.rcv_wnd = TCP_WND
      /\ q.rcv_ann_wnd = TCP_WND /\ q.snd_nxt = Iss /\ q.lastack = Iss /\ q.snd_lbb = Iss
  BY <1>2, <1>3, FieldsAre DEF Changes
<1>5. /\ DOMAIN q = Fields /\ q.unsent = <<>> /\ q.unacked = <<>> /\ q.out = <<>>
      /\ q.dupacks = 0 /\ q.flags = {} /\ q.mem = TRUE /\ q.snd_queuelen = 0
      /\ q.refused = <<>> /\ q.unread = 0 /\ q.eof = FALSE /\ q.taken = <<>> /\ q.ooseq = <<>>
      /\ q.busy = FALSE /\ q.recv_data = <<>> /\ q.recv_flags = {}
  BY <1>2, <1>3, FieldsAre DEF Changes, Blank
<1>6. Snd(q, fb, w, c)
  <2>1. <<>> \in Seq(QSegs(fb, w, c)) /\ <<>> \in Seq(WSegs(fb, w, c))
    BY EmptySeq
  <2> QED  BY <1>3, <1>4, <1>5, <2>1, Numbers DEF Snd
<1>7. TakesSyn(q)
  <2>1. q.snd_lbb \in Int /\ q.snd_buf \in Nat
    BY <1>4, OutAssumption, Numbers
  <2> QED  BY <1>5, <2>1, AcceptsSyn
<1>8. /\ Snd(k, fb, w, c) /\ k.flags = {}
      /\ \E pb \in Nat : k.unsent = <<[seq |-> Iss, len |-> 0, fl |-> {"SYN"}, pb |-> pb]>>
  <2>1. q.snd_lbb = fb - 1 /\ q.unsent = <<>>
    BY <1>4, <1>5, Numbers
  <2>2. /\ Snd(WithSyn(q), fb, w, c) /\ WithSyn(q).flags = q.flags
        /\ HoldsSyn(WithSyn(q), q.snd_lbb)
    BY <1>6, <1>7, <2>1, EnqueueSyn
  <2> QED  BY <1>k, <1>4, <1>5, <2>2 DEF HoldsSyn
<1>9. Changes(q, k, EnqueueFields)
  <2>1. Changes(q, WithSyn(q), EnqueueFields)
    BY <1>5, EnqueueChanges DEF WithSyn
  <2> QED  BY <1>k, <2>1
<1>10. /\ k.state = "SYN_RCVD" /\ k.lastack = Iss /\ k.snd_nxt = Iss /\ k.rcv_nxt = First
       /\ k.rcv_wnd = TCP_WND /\ k.rcv_ann_wnd = TCP_WND /\ k.rcv_ann_right_edge = First
       /\ k.refused = <<>> /\ k.unread = 0 /\ k.eof = FALSE /\ k.taken = <<>> /\ k.ooseq = <<>>
       /\ k.busy = FALSE /\ k.recv_data = <<>> /\ k.recv_flags = {}
       /\ k.unacked = <<>> /\ k.snd_wnd = TCP_WND /\ k.cwnd = 1 /\ DOMAIN k = Fields
  BY <1>3, <1>4, <1>5, <1>9, FieldsAre DEF Changes, EnqueueFields
<1>11. z.snd_nxt = Iss + 1
  BY <1>8, <1>10, <1>z, SynLeaves
<1>12. Snd(z, fb, w, c) /\ Changes(k, z, OutputFields)
  BY <1>8, <1>z, OutputSnd
<1>13. z.rcv_ann_right_edge \in {First, First + TCP_WND}
  <2>1. Len(k.unsent) \in Nat
    BY <1>8
  <2> QED  BY <1>10, <1>z, <2>1, OutputEdge
<1>14. Answered(z, fb, w, c)
  BY <1>10, <1>11, <1>12, <1>13, FieldsAre DEF Answered, Changes, OutputFields
<1>15. ListenInput(Blank, s, Iss, TRUE) = z
  <2>1. Accepts(q, 0, {"SYN"}, FALSE) /\ z = Output(Enqueue(q, 0, {"SYN"}, FALSE))
    BY <1>7, <1>k, <1>z DEF TakesSyn, WithSyn
  <2>2. "ACK" \notin s.fl /\ "SYN" \in s.fl
    BY <1>1
  <2> QED  BY <1>a, <1>q, <2>1, <2>2 DEF ListenInput
<1> QED  BY <1>s, <1>14, <1>15


(* The ACK that ends the handshake. *)
LastAck == Segment(First, 0, {"ACK"})

(* The connection opens with an empty buffer. *)
LEMMA BlankOpens ==
  ASSUME NEW fb \in Int, NEW w \in Nat, NEW c \in BOOLEAN, NEW p, Answered(p, fb, w, c),
         NEW q, Changes(p, q, {"busy", "state"}), q.busy = TRUE, q.state = "ESTABLISHED"
  PROVE  Opens(q, fb, w, c)
<1>e. PICK none : none = <<>>
  OBVIOUS
<1>1. /\ q.rcv_nxt = First /\ q.rcv_wnd = TCP_WND /\ q.rcv_ann_wnd = TCP_WND
      /\ q.rcv_ann_right_edge \in {First, First + TCP_WND}
      /\ q.refused = none /\ q.unread = 0 /\ q.eof = FALSE /\ q.taken = none /\ q.ooseq = none
      /\ q.recv_data = <<>> /\ q.recv_flags = {}
  BY <1>e, FieldsAre DEF Answered, Changes
<1>2. Snd(q, fb, w, c)
  <2>1. {"busy", "state"} \cap SndFields = {} /\ Snd(p, fb, w, c)
    BY DEF SndFields, Answered
  <2> QED  BY <2>1, SndChanges
<1>3. none \in Seq(Int) /\ Len(none) = 0 /\ IsRun(none, First)
  BY <1>e DEF IsRun
<1>4. Edge(q) = First + TCP_WND /\ Edged(q, First + TCP_WND, End)
  BY <1>1, Numbers DEF Edge, Edged
<1>5. OoseqOK(q, Room(q), RoomForFin(q))
  <2>1. Room(q) \in Int /\ RoomForFin(q) \in BOOLEAN
    BY <1>4, Numbers DEF Room, RoomForFin, Lesser
  <2>2. Ordered(q.ooseq, Room(q), RoomForFin(q))
    BY <1>1, <1>e, <2>1, OrderedEmpty
  <2> QED  BY <1>1, <1>e, <2>2 DEF OoseqOK
<1>6. Receives(q, none, FALSE, fb, w, c)
  <2>1. First \in First..End + 1 /\ First = Lesser(First, End) /\ First # End + 1
    BY Numbers DEF Lesser
  <2>2. /\ IsRun(none, First + Len(q.taken)) /\ First + Len(q.taken) + Len(none) = First
        /\ Bound(q) = First + TCP_WND /\ q.unread \in Nat
    BY <1>1, <1>3, Numbers DEF Bound
  <2>3. q.refused = <<>> /\ q.eof \in BOOLEAN /\ (q.eof \/ FALSE <=> q.rcv_nxt = End + 1)
    BY <1>e, <1>1, <2>1
  <2> QED  BY <1>1, <1>2, <1>3, <1>4, <1>5, <2>1, <2>2, <2>3 DEF Receives
<1> QED  BY <1>e, <1>1, <1>6 DEF Opens

(* tcp_process of the ACK that ends the handshake. *)
LEMMA OpenRests ==
  ASSUME NEW fb \in Int, NEW w \in Nat, NEW c \in BOOLEAN, NEW p, Answered(p, fb, w, c),
         NEW cb \in Callbacks
  PROVE  Rests(ActiveInput(p, LastAck, cb), fb, w, c)
<1>s. PICK s : s = LastAck
  OBVIOUS
<1>1. /\ s.seq = First /\ s.ack = Iss + 1 /\ s.wnd = TCP_WND /\ s.fl = {"ACK"} /\ s.len = 0
      /\ s = [seq |-> First, ack |-> Iss + 1, wnd |-> TCP_WND, fl |-> {"ACK"}, len |-> 0]
  BY <1>s DEF LastAck, Segment
<1>k. PICK k : k = [p EXCEPT !.busy = TRUE]
  OBVIOUS
<1>e. PICK e : e = [k EXCEPT !.state = "ESTABLISHED"]
  OBVIOUS
<1>r. PICK r : r = Receive(e, s)
  OBVIOUS
<1>q. PICK q : q = [r EXCEPT !.acked = IF @ # 0 THEN @ - 1 ELSE 0,
                             !.cwnd  = IF k.cwnd = 1 THEN 2 * MSS ELSE MSS]
  OBVIOUS
<1>2. /\ DOMAIN p = Fields /\ p.refused = <<>> /\ p.state = "SYN_RCVD"
      /\ p.lastack = Iss /\ p.snd_nxt = Iss + 1
  BY DEF Answered, Snd
<1>3. /\ Changes(p, k, {"busy"}) /\ Changes(p, e, {"busy", "state"}) /\ e.busy = TRUE
      /\ e.state = "ESTABLISHED" /\ k.state = "SYN_RCVD" /\ k.lastack = Iss
      /\ k.snd_nxt = Iss + 1
  BY <1>2, <1>k, <1>e, FieldsAre DEF Changes
<1>4. Opens(e, fb, w, c)
  BY <1>3, BlankOpens
<1>5. Arrives(e, s)
  <2>1. e.rcv_nxt = First
    BY <1>3, FieldsAre DEF Changes, Answered
  <2>2. s \in WSegs(First, StreamLen, TRUE)
    BY <1>1, Numbers DEF WSegs
  <2> QED  BY <1>1, <2>1, <2>2 DEF Arrives
<1>6. Handled(r, fb, w, c)
  BY <1>r, <1>4, <1>5, ReceiveReceives
<1>7. Handled(q, fb, w, c)
  <2>x. PICK data, fin : data = r.recv_data /\ fin = GotFin(r)
    OBVIOUS
  <2>1. Receives(r, data, fin, fb, w, c) /\ DOMAIN r = Fields
    BY <1>6, <2>x DEF Handled, Receives, Snd
  <2>2. Changes(r, q, {"acked", "cwnd"})
    BY <1>q, <2>1, FieldsAre DEF Changes
  <2>3. {"acked", "cwnd"} \cap (ReceiverFields \cup SndFields) = {}
    BY DEF ReceiverFields, ConsumeFields, SndFields
  <2>4. Receives(q, data, fin, fb, w, c)
    BY <2>1, <2>2, <2>3, ReceivesStill
  <2>5. q.busy = r.busy /\ q.recv_flags = r.recv_flags /\ q.recv_data = r.recv_data
    BY <2>2, FieldsAre DEF Changes
  <2> QED  BY <1>6, <2>x, <2>4, <2>5 DEF Handled, GotFin
<1>8. Process(k, s, cb) = IF GotFin(q) THEN [AckNow(q) EXCEPT !.state = "CLOSE_WAIT"] ELSE q
  <2>1. "RST" \notin s.fl /\ "SYN" \notin s.fl /\ "ACK" \in s.fl
    BY <1>1
  <2>2. s.ack \in k.lastack + 1 .. k.snd_nxt
    BY <1>1, <1>3, Numbers
  <2>3. cb.accept = TRUE
    BY DEF Callbacks
  <2>4. Process(k, s, cb) = SynRcvd(k, s, cb)
    <3>1. k.state = "SYN_RCVD" /\ k.state # "SYN_SENT" /\ k.state \notin Synchronized
      BY <1>3 DEF Synchronized
    <3> QED  BY <2>1, <3>1 DEF Process
  <2> QED  BY <1>e, <1>r, <1>q, <2>1, <2>2, <2>3, <2>4 DEF SynRcvd
<1>9. Handled(Process(k, s, cb), fb, w, c)
  BY <1>7, <1>8, CloseWaitHandled
<1>10. ActiveInput(p, s, cb) = Cleared(Finish(Process(k, s, cb), cb))
  BY <1>2, <1>k DEF ActiveInput, Cleared
<1> QED  BY <1>s, <1>9, <1>10, FinishRests


-----------------------------------------------------------------------------
(* The invariant *)

(* Between two inputs nothing is in the hands of a handler.  The sending side
   wrote no byte: its queues hold the SYN at most. *)
RInv == Rests(tcb, Iss + 1, 0, FALSE)

(* What the lemmas are about. *)
LEMMA NoBytes == Iss + 1 \in Int /\ 0 \in Nat /\ FALSE \in BOOLEAN
BY Numbers

(* Fields that no handler of the received data reads may take any value. *)
LEMMA RestsStill ==
  ASSUME NEW fb \in Int, NEW w \in Nat, NEW c \in BOOLEAN, NEW p, Rests(p, fb, w, c), NEW q,
         NEW S, Changes(p, q, S), S \subseteq {"mem", "flags"}
  PROVE  Rests(q, fb, w, c)
<1>e. PICK none : none = <<>>
  OBVIOUS
<1>1. Receives(p, none, FALSE, fb, w, c)
  BY <1>e DEF Rests
<1>2. S \cap (ReceiverFields \cup SndFields) = {}
  BY DEF ReceiverFields, ConsumeFields, SndFields
<1>3. Receives(q, none, FALSE, fb, w, c)
  BY <1>1, <1>2, ReceivesStill
<1>4. q.busy = p.busy /\ q.recv_data = p.recv_data /\ q.recv_flags = p.recv_flags
  BY FieldsAre DEF Changes
<1> QED  BY <1>e, <1>3, <1>4 DEF Rests

(* What was sent leaves the block, and the next allocation may succeed. *)
LEMMA CommitRests ==
  ASSUME NEW fb \in Int, NEW w \in Nat, NEW c \in BOOLEAN, NEW p, Rests(p, fb, w, c)
  PROVE  /\ Rests([p EXCEPT !.out = <<>>], fb, w, c)
         /\ Rests([p EXCEPT !.out = <<>>, !.mem = TRUE], fb, w, c)
<1>e. PICK none : none = <<>>
  OBVIOUS
<1>q. PICK q : q = [p EXCEPT !.out = <<>>]
  OBVIOUS
<1>r. PICK r : r = [q EXCEPT !.mem = TRUE]
  OBVIOUS
<1>1. Receives(p, none, FALSE, fb, w, c) /\ Snd(p, fb, w, c) /\ DOMAIN p = Fields
  BY <1>e DEF Rests, Receives, Snd
<1>2. Changes(p, q, {"out"}) /\ q.out = none
  BY <1>e, <1>q, <1>1, FieldsAre DEF Changes
<1>3. Snd(q, fb, w, c)
  <2>1. none \in Seq(WSegs(fb, w, c))
    BY <1>e, EmptySeq
  <2> QED  BY <1>1, <1>2, <2>1, FieldsAre DEF Snd, Changes
<1>4. Receives(q, none, FALSE, fb, w, c)
  <2>1. {"out"} \cap ReceiverFields = {}
    BY DEF ReceiverFields, ConsumeFields
  <2>2. q.rcv_ann_right_edge = p.rcv_ann_right_edge
    BY <1>2, FieldsAre DEF Changes
  <2> QED  BY <1>1, <1>2, <1>3, <2>1, <2>2, ReceivesKept
<1>5. q.busy = p.busy /\ q.recv_data = p.recv_data /\ q.recv_flags = p.recv_flags
  BY <1>2, FieldsAre DEF Changes
<1>6. Rests(q, fb, w, c) /\ Changes(q, r, {"mem"})
  BY <1>e, <1>r, <1>2, <1>4, <1>5, FieldsAre DEF Rests, Changes
<1>7. Rests(r, fb, w, c)
  BY <1>6, RestsStill
<1>8. [p EXCEPT !.out = <<>>, !.mem = TRUE] = r
  BY <1>q, <1>r
<1> QED  BY <1>q, <1>6, <1>7, <1>8

(* Memory for the next allocation or none. *)
LEMMA MemoryRests ==
  ASSUME NEW fb \in Int, NEW w \in Nat, NEW c \in BOOLEAN, NEW p, Rests(p, fb, w, c), NEW m
  PROVE  Rests([p EXCEPT !.mem = m], fb, w, c) /\ Changes(p, [p EXCEPT !.mem = m], {"mem"})
<1>1. DOMAIN p = Fields
  BY DEF Rests, Receives, Snd
<1>2. Changes(p, [p EXCEPT !.mem = m], {"mem"})
  BY <1>1, FieldsAre DEF Changes
<1> QED  BY <1>2, RestsStill

(* The peer keeps to the window that was announced, which lies in the buffer. *)
LEMMA SendableArrives ==
  ASSUME NEW fb \in Int, NEW w \in Nat, NEW c \in BOOLEAN, Rests(tcb, fb, w, c),
         NEW s \in Sendable, NEW q, Changes(tcb, q, {"mem"})
  PROVE  Arrives(q, s)
<1>1. PICK seq \in First..End, len \in 0..MaxSeg, fin \in {{}, {"FIN"}} :
        s = Segment(seq, len, {"ACK"} \cup fin)
  BY DEF Sendable
<1>2. /\ s.seq + s.len <= End /\ ("FIN" \in s.fl => s.seq + s.len = End)
      /\ (s.seq = tcb.rcv_nxt \/ s.seq + s.len <= tcb.rcv_ann_right_edge)
  BY DEF Sendable
<1>3. PICK fl : fl = {"ACK"} \cup fin
  OBVIOUS
<1>4. /\ s = [seq |-> seq, ack |-> Iss + 1, wnd |-> TCP_WND, fl |-> fl, len |-> len]
      /\ fl \subseteq {"FIN", "ACK"} /\ seq \in Int /\ len \in Nat
  BY <1>1, <1>3, Numbers, ReceiverAssumption DEF Segment
<1>5. s \in WSegs(First, StreamLen, TRUE) /\ s.fl \cap {"SYN", "RST"} = {}
  <2>1. s.seq = seq /\ s.len = len /\ s.fl = fl
    BY <1>4
  <2>2. "SYN" \notin fl /\ "RST" \notin fl
    BY <1>4
  <2> QED  BY <1>2, <1>4, <2>1, <2>2, Numbers DEF WSegs
<1>6. q.rcv_nxt = tcb.rcv_nxt /\ q.rcv_wnd = tcb.rcv_wnd
  BY FieldsAre DEF Changes
<1>e. PICK none, no : none = <<>> /\ no = FALSE
  OBVIOUS
<1>7. Receives(tcb, none, no, fb, w, c)
  BY <1>e DEF Rests
<1>8. /\ tcb.rcv_nxt \in Int /\ tcb.rcv_wnd \in Nat /\ tcb.rcv_ann_right_edge \in Int
      /\ tcb.rcv_nxt <= End + 1
  BY <1>7, ReceivesNumbers
<1>9. /\ tcb.rcv_nxt <= End => tcb.rcv_ann_right_edge <= Edge(tcb)
      /\ Edge(q) = Edge(tcb) /\ Edge(tcb) = tcb.rcv_nxt + tcb.rcv_wnd
  <2>1. Edged(tcb, Bound(tcb), End)
    BY <1>7 DEF Receives
  <2> QED  BY <1>6, <1>8, <2>1, Numbers DEF Edged, Edge
<1>10. s.seq = q.rcv_nxt \/ s.seq + s.len <= Edge(q)
  <2>1. PICK last \in Int, edge \in Int, ann \in Int :
          last = s.seq + s.len /\ edge = Edge(tcb) /\ ann = tcb.rcv_ann_right_edge
    <3>1. s.seq \in Int /\ s.len \in Int
      BY <1>4
    <3> QED  BY <1>8, <1>9, <3>1
  <2>2. s.seq = tcb.rcv_nxt \/ last <= ann
    BY <1>2, <2>1
  <2>3. CASE tcb.rcv_nxt <= End
    BY <1>6, <1>9, <2>1, <2>2, <2>3
  <2>4. CASE tcb.rcv_nxt > End
    <3>1. last <= End /\ End <= edge
      BY <1>2, <1>8, <1>9, <2>1, <2>4, Numbers
    <3> QED  BY <1>9, <2>1, <3>1, Numbers
  <2> QED  BY <1>8, <2>3, <2>4, Numbers
<1> QED  BY <1>5, <1>10 DEF Arrives


(* tcp_input of a segment of the stream. *)
LEMMA ArriveRests ==
  ASSUME RInv, Arrive
  PROVE  RInv'
<1>v. PICK fb \in Int, w \in Nat, c \in BOOLEAN : fb = Iss + 1 /\ w = 0 /\ c = FALSE
  BY NoBytes
<1>1. Rests(tcb, fb, w, c)
  BY <1>v DEF RInv
<1>2. PICK s \in Sendable, cb \in Callbacks, m \in Memory :
        Commit(ActiveInput([tcb EXCEPT !.mem = m], s, cb))
  BY DEF Arrive
<1>3. PICK q : q = [tcb EXCEPT !.mem = m]
  OBVIOUS
<1>4. Rests(q, fb, w, c) /\ Changes(tcb, q, {"mem"})
  BY <1>1, <1>3, MemoryRests
<1>5. Rests(ActiveInput(q, s, cb), fb, w, c)
  BY <1>1, <1>4, SendableArrives, ActiveInputRests
<1>6. tcb' = [ActiveInput(q, s, cb) EXCEPT !.out = <<>>, !.mem = TRUE]
  BY <1>2, <1>3 DEF Commit
<1>7. Rests(tcb', fb, w, c)
  BY <1>5, <1>6, CommitRests
<1> QED  BY <1>v, <1>7 DEF RInv

(* tcp_slowtmr frees the whole out-of-order queue. *)
LEMMA ExpireRests ==
  ASSUME RInv, Expire
  PROVE  RInv'
<1>v. PICK fb \in Int, w \in Nat, c \in BOOLEAN : fb = Iss + 1 /\ w = 0 /\ c = FALSE
  BY NoBytes
<1>e. PICK none : none = <<>>
  OBVIOUS
<1>q. PICK q : q = [tcb EXCEPT !.ooseq = <<>>]
  OBVIOUS
<1>1. Rests(tcb, fb, w, c) /\ DOMAIN tcb = Fields /\ Snd(tcb, fb, w, c)
  BY <1>v DEF RInv, Rests, Receives, Snd
<1>2. Changes(tcb, q, {"ooseq"}) /\ q.ooseq = none
  BY <1>1, <1>q, <1>e, FieldsAre DEF Changes
<1>3. /\ q.state = tcb.state /\ q.refused = tcb.refused /\ q.unread = tcb.unread
      /\ q.eof = tcb.eof /\ q.rcv_nxt = tcb.rcv_nxt /\ q.taken = tcb.taken
      /\ q.rcv_wnd = tcb.rcv_wnd /\ q.rcv_ann_wnd = tcb.rcv_ann_wnd
      /\ q.rcv_ann_right_edge = tcb.rcv_ann_right_edge /\ q.busy = tcb.busy
      /\ q.recv_data = tcb.recv_data /\ q.recv_flags = tcb.recv_flags
  BY <1>2, FieldsAre DEF Changes
<1>4. Snd(q, fb, w, c)
  <2>1. {"ooseq"} \cap SndFields = {}
    BY DEF SndFields
  <2> QED  BY <1>1, <1>2, <2>1, SndChanges
<1>5. /\ Edge(q) = Edge(tcb) /\ Edge(q) \in Int
      /\ Edged(tcb, Bound(tcb), End) => Edged(q, Bound(q), End)
  BY <1>1, <1>3 DEF Edge, Edged, Bound, Snd
<1>6. OoseqOK(q, Room(q), RoomForFin(q))
  <2>1. Room(q) \in Int /\ RoomForFin(q) \in BOOLEAN
    BY <1>5, Numbers DEF Room, RoomForFin, Lesser
  <2>2. Ordered(q.ooseq, Room(q), RoomForFin(q))
    BY <1>2, <1>e, <2>1, OrderedEmpty
  <2> QED  BY <1>2, <1>e, <2>2 DEF OoseqOK
<1>7. PICK data, fin : data = <<>> /\ fin = FALSE
  OBVIOUS
<1>8. Receives(tcb, data, fin, fb, w, c)
  BY <1>1, <1>7 DEF Rests
<1>9. Receives(q, data, fin, fb, w, c)
  BY <1>3, <1>4, <1>5, <1>6, <1>8 DEF Receives
<1>10. Rests(q, fb, w, c)
  BY <1>1, <1>3, <1>7, <1>9 DEF Rests
<1>11. tcb' = [q EXCEPT !.out = <<>>, !.mem = TRUE]
  BY <1>q DEF Expire, Commit
<1>12. Rests(tcb', fb, w, c)
  BY <1>10, <1>11, CommitRests
<1> QED  BY <1>v, <1>12 DEF RInv

(* tcp_fasttmr sends the delayed ACK. *)
LEMMA FastTmrRests ==
  ASSUME RInv, FastTmr
  PROVE  RInv'
<1>v. PICK fb \in Int, w \in Nat, c \in BOOLEAN : fb = Iss + 1 /\ w = 0 /\ c = FALSE
  BY NoBytes
<1>e. PICK none, fin : none = <<>> /\ fin = FALSE
  OBVIOUS
<1>a. PICK a : a = AckNow(tcb)
  OBVIOUS
<1>q. PICK q : q = [a EXCEPT !.flags = @ \ AckFlagSet]
  OBVIOUS
<1>1. Rests(tcb, fb, w, c) /\ Receives(tcb, none, fin, fb, w, c)
  BY <1>v, <1>e DEF RInv, Rests
<1>2. Receives(a, none, fin, fb, w, c) /\ Changes(tcb, a, OutputFields)
  BY <1>1, <1>a, OutputReceives
<1>3. a.busy = tcb.busy /\ a.recv_data = tcb.recv_data /\ a.recv_flags = tcb.recv_flags
  BY <1>2, FieldsAre DEF Changes, OutputFields
<1>4. Rests(a, fb, w, c) /\ Changes(a, q, {"flags"})
  BY <1>1, <1>2, <1>3, <1>e, <1>q, FieldsAre DEF Rests, Changes
<1>5. Rests(q, fb, w, c)
  BY <1>4, RestsStill
<1>6. tcb' = [q EXCEPT !.out = <<>>, !.mem = TRUE]
  BY <1>a, <1>q DEF FastTmr, Commit
<1>7. Rests(tcb', fb, w, c)
  BY <1>5, <1>6, CommitRests
<1> QED  BY <1>v, <1>7 DEF RInv

(* tcp_recved of what the application took before. *)
LEMMA ReadRests ==
  ASSUME RInv, Read
  PROVE  RInv'
<1>v. PICK fb \in Int, w \in Nat, c \in BOOLEAN : fb = Iss + 1 /\ w = 0 /\ c = FALSE
  BY NoBytes
<1>e. PICK none, fin : none = <<>> /\ fin = FALSE
  OBVIOUS
<1>1. PICK n \in 1..tcb.unread, m \in Memory : Commit(Recved([tcb EXCEPT !.mem = m], n))
  BY DEF Read
<1>k. PICK k : k = [tcb EXCEPT !.mem = m]
  OBVIOUS
<1>r. PICK r : r = Recved(k, n)
  OBVIOUS
<1>2. Rests(tcb, fb, w, c) /\ tcb.unread \in Nat
  BY <1>v DEF RInv, Rests, Receives
<1>3. Rests(k, fb, w, c) /\ Changes(tcb, k, {"mem"})
  BY <1>2, <1>k, MemoryRests
<1>4. n \in Nat /\ n > 0 /\ n <= k.unread
  <2>1. k.unread = tcb.unread
    BY <1>3, FieldsAre DEF Changes
  <2> QED  BY <1>2, <2>1
<1>5. Receives(k, none, fin, fb, w, c)
  BY <1>3, <1>e DEF Rests
<1>6. Receives(r, none, fin, fb, w, c) /\ Changes(k, r, RecvedFields)
  BY <1>4, <1>5, <1>r, RecvedReceives
<1>7. r.busy = k.busy /\ r.recv_data = k.recv_data /\ r.recv_flags = k.recv_flags
  BY <1>6, FieldsAre DEF Changes, RecvedFields, OutputFields
<1>8. Rests(r, fb, w, c)
  BY <1>3, <1>6, <1>7, <1>e DEF Rests
<1>9. tcb' = [r EXCEPT !.out = <<>>, !.mem = TRUE]
  BY <1>1, <1>k, <1>r DEF Commit
<1>10. Rests(tcb', fb, w, c)
  BY <1>8, <1>9, CommitRests
<1> QED  BY <1>v, <1>10 DEF RInv

(* The handshake leads to it. *)
LEMMA InitRests ==
  ASSUME Init
  PROVE  RInv
<1>v. PICK fb \in Int, w \in Nat, c \in BOOLEAN : fb = Iss + 1 /\ w = 0 /\ c = FALSE
  BY NoBytes
<1>p. PICK p : p = ListenInput(Blank, Syn, Iss, TRUE)
  OBVIOUS
<1>1. PICK cb \in Callbacks : tcb = [ActiveInput(p, LastAck, cb) EXCEPT !.out = <<>>]
  BY <1>p DEF Init, Syn, LastAck
<1>2. Answered(p, fb, w, c)
  BY <1>v, <1>p, SynAnswered
<1>3. Rests(ActiveInput(p, LastAck, cb), fb, w, c)
  BY <1>2, OpenRests
<1>4. Rests(tcb, fb, w, c)
  BY <1>1, <1>3, CommitRests
<1> QED  BY <1>v, <1>4 DEF RInv

(* Whatever the peer sends within the window, the receiver's block is sound
   between two inputs. *)
THEOREM ReceiverInvariant == Spec => []RInv
<1>1. Init => RInv
  BY InitRests
<1>2. RInv /\ [Next]_tcb => RInv'
  <2> SUFFICES ASSUME RInv, [Next]_tcb PROVE RInv'
    OBVIOUS
  <2>1. CASE Arrive
    BY <2>1, ArriveRests
  <2>2. CASE Expire
    BY <2>2, ExpireRests
  <2>3. CASE FastTmr
    BY <2>3, FastTmrRests
  <2>4. CASE Read
    BY <2>4, ReadRests
  <2>5. CASE tcb' = tcb
    BY <2>5 DEF RInv
  <2> QED  BY <2>1, <2>2, <2>3, <2>4, <2>5 DEF Next
<1> QED  BY <1>1, <1>2, PTL DEF Spec


(* What the application took is the stream up to rcv_nxt, every byte once, and
   recv was called with NULL exactly when the FIN was reached: whatever the
   trimming at the edges and the out-of-order queue did. *)
THEOREM StreamAlwaysExact == Spec => []StreamExact
<1>1. RInv => StreamExact
  <2> SUFFICES ASSUME RInv PROVE StreamExact
    OBVIOUS
  <2>e. PICK none, fin : none = <<>> /\ fin = FALSE
    OBVIOUS
  <2>1. PICK fb, w, c : Receives(tcb, none, fin, fb, w, c)
    BY <2>e DEF RInv, Rests
  <2>t. PICK t : t = tcb.taken
    OBVIOUS
  <2>2. /\ t \in Seq(Int) /\ IsRun(t, First) /\ Len(none) = 0
        /\ First + Len(t) + Len(none) = Lesser(tcb.rcv_nxt, End)
        /\ tcb.eof \in BOOLEAN /\ (tcb.eof <=> tcb.rcv_nxt = End + 1)
    BY <2>e, <2>1, <2>t DEF Receives
  <2>3. t = [i \in 1..Len(t) |-> First + i - 1]
    <3>1. DOMAIN t = 1..Len(t) /\ t = [i \in DOMAIN t |-> t[i]]
      BY <2>2
    <3>2. \A i \in 1..Len(t) : t[i] = First + i - 1
      BY <2>2 DEF IsRun
    <3> QED  BY <3>1, <3>2
  <2>4. First + Len(t) = Lesser(tcb.rcv_nxt, End)
    BY <2>2, Numbers
  <2> QED  BY <2>t, <2>2, <2>3, <2>4 DEF StreamExact, StreamTaken, EndIsExact
<1> QED  BY <1>1, ReceiverInvariant, PTL

(* The out-of-order queue is sorted, without an overlap, and holds only parts
   of the stream that no handler took yet; only its last segment may carry the
   FIN. *)
THEOREM OoseqAlwaysSound == Spec => []OoseqSound
<1>1. RInv => OoseqSound
  <2> SUFFICES ASSUME RInv PROVE OoseqSound
    OBVIOUS
  <2>e. PICK none, fin : none = <<>> /\ fin = FALSE
    OBVIOUS
  <2>1. PICK fb, w, c : Receives(tcb, none, fin, fb, w, c)
    BY <2>e DEF RInv, Rests
  <2>2. /\ OoseqOK(tcb, Room(tcb), RoomForFin(tcb))
        /\ tcb.rcv_nxt \in Int /\ tcb.rcv_wnd \in Nat
    BY <2>1 DEF Receives, Snd
  <2>r. PICK lim \in Int, d \in BOOLEAN :
          /\ lim = Room(tcb) /\ d = RoomForFin(tcb)
          /\ lim <= End /\ (d => lim = End)
    <3>1. Edge(tcb) \in Int
      BY <2>2 DEF Edge
    <3>2. PICK e \in Int, last \in Int : e = Edge(tcb) /\ last = End
      BY <3>1, Numbers
    <3>3. Lesser(e, last) \in Int /\ Lesser(e, last) <= last
          /\ (e >= last => Lesser(e, last) = last)
      BY DEF Lesser
    <3>4. Room(tcb) = Lesser(e, last) /\ (RoomForFin(tcb) <=> e >= last)
          /\ RoomForFin(tcb) \in BOOLEAN
      BY <3>2 DEF Room, RoomForFin
    <3> HIDE DEF Room, RoomForFin
    <3>5. PICK m \in Int, b \in BOOLEAN : m = Room(tcb) /\ b = RoomForFin(tcb)
      BY <3>3, <3>4
    <3>6. m <= End /\ (b => m = End)
      BY <3>2, <3>3, <3>4, <3>5
    <3> QED  BY <3>5, <3>6
  <2>q. PICK q : q = tcb.ooseq
    OBVIOUS
  <2>3. Ordered(q, lim, d) /\ (q # <<>> => q[1].seq > tcb.rcv_nxt)
    BY <2>2, <2>r, <2>q DEF OoseqOK
  <2>4. q \in Seq(OSegs(lim, d)) /\ DOMAIN q = 1..Len(q) /\ Len(q) \in Nat
    BY <2>3 DEF Ordered
  <2>5. ASSUME NEW i \in DOMAIN q
        PROVE  /\ q[i].seq > tcb.rcv_nxt /\ q[i].seq + q[i].len <= End
               /\ "FIN" \in q[i].fl => i = Len(q) /\ q[i].seq + q[i].len = End
               /\ i < Len(q) => q[i].len > 0 /\ q[i].seq + q[i].len <= q[i + 1].seq
    <3>1. i \in 1..Len(q) /\ q # <<>>
      BY <2>4
    <3>2. /\ q[i] \in OSegs(lim, d) /\ q[1] \in OSegs(lim, d) /\ q[1].seq <= q[i].seq
          /\ (i < Len(q) => q[i].fl = {})
      BY <2>3, <3>1, OrderedFirst
    <3>3. /\ q[i].seq \in Int /\ q[i].len \in Nat /\ q[1].seq \in Int
          /\ (q[i].fl = {} => q[i].len > 0) /\ q[i].seq + q[i].len <= lim
          /\ (q[i].fl # {} => d /\ q[i].seq + q[i].len = lim)
      BY <3>2 DEF OSegs
    <3>4. q[i].seq > tcb.rcv_nxt
      BY <2>2, <2>3, <3>1, <3>2, <3>3
    <3>5. q[i].seq + q[i].len <= End
      BY <2>r, <3>3, Numbers
    <3>6. "FIN" \in q[i].fl => i = Len(q) /\ q[i].seq + q[i].len = End
      <4>1. "FIN" \in q[i].fl => q[i].fl # {}
        OBVIOUS
      <4>2. i < Len(q) \/ i = Len(q)
        BY <2>4, <3>1
      <4> QED  BY <2>r, <3>2, <3>3, <4>1, <4>2
    <3>7. i < Len(q) => q[i].len > 0 /\ q[i].seq + q[i].len <= q[i + 1].seq
      <4>1. i < Len(q) => i + 1 \in 1..Len(q) /\ i < i + 1
        BY <2>4, <3>1
      <4> QED  BY <2>3, <3>1, <3>2, <3>3, <4>1 DEF Ordered
    <3> QED  BY <3>4, <3>5, <3>6, <3>7
  <2> QED  BY <2>q, <2>5 DEF OoseqSound
<1> QED  BY <1>1, ReceiverInvariant, PTL

(* rcv_wnd is what the buffer has left, whatever the application has not given
   back.  The unsigned 16-bit field wraps in one case only: the FIN was taken
   off the out-of-order queue though the buffer was full of what came before. *)
THEOREM WindowAlwaysExact == Spec => []WindowExact
<1>1. RInv => WindowExact
  <2> SUFFICES ASSUME RInv PROVE WindowExact
    OBVIOUS
  <2>e. PICK none, fin : none = <<>> /\ fin = FALSE
    OBVIOUS
  <2>1. PICK fb, w, c : Receives(tcb, none, fin, fb, w, c)
    BY <2>e DEF RInv, Rests
  <2>t. PICK n \in Nat : n = Len(tcb.taken)
    BY <2>1 DEF Receives
  <2>2. /\ Len(none) = 0 /\ First + n + Len(none) = Lesser(tcb.rcv_nxt, End)
        /\ tcb.eof \in BOOLEAN /\ (tcb.eof <=> tcb.rcv_nxt = End + 1)
        /\ tcb.rcv_nxt \in First..End + 1 /\ tcb.unread \in Nat
        /\ tcb.rcv_nxt \in Int /\ tcb.rcv_wnd \in Nat
        /\ Edged(tcb, First + n + TCP_WND - tcb.unread, End)
    BY <2>e, <2>1, <2>t DEF Receives, Snd, Bound
  <2>3. Edge(tcb) = tcb.rcv_nxt + tcb.rcv_wnd
    BY DEF Edge
  <2>4. tcb.rcv_nxt = First + n + (IF tcb.eof THEN 1 ELSE 0)
    <3>1. First + n = Lesser(tcb.rcv_nxt, End)
      BY <2>2, Numbers
    <3>2. CASE tcb.eof = TRUE
      <4>1. Lesser(tcb.rcv_nxt, End) = End
        BY <2>2, <3>2, Numbers DEF Lesser
      <4> QED  BY <2>2, <3>1, <3>2, <4>1, Numbers
    <3>3. CASE tcb.eof = FALSE
      <4>1. Lesser(tcb.rcv_nxt, End) = tcb.rcv_nxt
        BY <2>2, <3>3, Numbers DEF Lesser
      <4> QED  BY <2>2, <3>1, <3>3, <4>1, Numbers
    <3> QED  BY <2>2, <3>2, <3>3
  <2>5. PICK f \in {0, 1}, left \in Int :
          f = (IF tcb.eof THEN 1 ELSE 0) /\ left = TCP_WND - tcb.unread - f
    <3>1. PICK f \in {0, 1} : f = (IF tcb.eof THEN 1 ELSE 0)
      OBVIOUS
    <3> QED  BY <2>2, <3>1, Numbers
  <2>6. CASE Edge(tcb) = First + n + TCP_WND - tcb.unread
    <3>1. tcb.rcv_wnd = left
      BY <2>2, <2>3, <2>4, <2>5, <2>6, Numbers
    <3> QED  BY <2>5, <3>1 DEF WindowExact
  <2>7. CASE /\ tcb.rcv_nxt = End + 1 /\ First + n + TCP_WND - tcb.unread = End
             /\ tcb.rcv_wnd = U16 - 1
    <3>1. left = -1
      BY <2>2, <2>4, <2>5, <2>7, Numbers
    <3> QED  BY <2>5, <2>7, <3>1 DEF WindowExact
  <2> QED  BY <2>2, <2>6, <2>7 DEF Edged
<1> QED  BY <1>1, ReceiverInvariant, PTL

=============================================================================
