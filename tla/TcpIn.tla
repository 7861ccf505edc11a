-------------------------------- MODULE TcpIn -------------------------------
(***************************************************************************)
(* What LWIP-SRC/core/tcp_in.c does with a segment.                        *)
(*                                                                         *)
(* A segment s is [seq, ack, wnd, fl, len].  What the application answers  *)
(* in its callbacks is a record cb: "accept" the connection or not, what   *)
(* to do with data ("consume" it, "take" it and call tcp_recved later, or  *)
(* "refuse" it) when it is offered "again" and when it is new ("recv"),    *)
(* and whether to close at "eof".                                          *)
(***************************************************************************)
EXTENDS TcpApi

CONSTANT U8   \* 2^8, the width of dupacks, scaled; more than 4

ASSUME InAssumption == U8 \in Nat /\ U8 > 4

-----------------------------------------------------------------------------
(* The acknowledgement (tcp_receive, first part) *)

(* The window of the segment is news; an open one ends the persist timer. *)
UpdateWindow(p, s) ==
  IF \/ p.snd_wl1 < s.seq
     \/ p.snd_wl1 = s.seq /\ p.snd_wl2 < s.ack
     \/ p.snd_wl2 = s.ack /\ s.wnd > p.snd_wnd
    THEN [p EXCEPT !.snd_wnd = s.wnd, !.snd_wl1 = s.seq, !.snd_wl2 = s.ack,
                   !.persist_backoff = IF s.wnd > 0 THEN 0 ELSE @]
    ELSE p

(* cwnd grows by n unless the 16-bit sum would not. *)
Grown(cwnd, n) == Max({cwnd, (cwnd + n) % U16})

(* The five clauses of a duplicate acknowledgement; w is the block after
   UpdateWindow, which must not have moved the right edge. *)
IsDuplicate(p, w, s) ==
  /\ TcpLen(s) = 0
  /\ w.snd_wl2 + w.snd_wnd = p.snd_wl2 + p.snd_wnd
  /\ p.rtime >= 0
  /\ p.lastack = s.ack

DuplicateAck(p) ==
  LET n == (p.dupacks + 1) % U8
      q == [p EXCEPT !.dupacks = n]
  IN  CASE n > 3 -> [q EXCEPT !.cwnd = Grown(@, MSS)]
        [] n = 3 -> RexmitFast(q)
        [] n < 3 -> q

(* How many segments of a queue end at or before an acknowledgement. *)
Covered(q, ack) == Lead(Len(q), LAMBDA i : EndSeq(q[i]) <= ack)

(* Mutant of AckedBytes: the FIN is announced like a byte. *)
AckedBytesAndFin(acked, freed) == acked

(* pcb->acked without the FIN that was freed. *)
AckedBytes(acked, freed) ==
  IF acked # 0 /\ \E i \in DOMAIN freed : "FIN" \in freed[i].fl
    THEN acked - 1 ELSE acked

(* The congestion window after new data was acknowledged. *)
Opened(p) ==
  LET cwnd == IF "TF_INFR" \in p.flags THEN p.ssthresh ELSE p.cwnd
  IN  IF p.state \in {"SYN_SENT", "SYN_RCVD"} THEN cwnd
      ELSE IF cwnd < p.ssthresh THEN Grown(cwnd, MSS)
      ELSE Grown(cwnd, (MSS * MSS) \div cwnd)

(* Mutant of Rtime: the timer stops though segments remain. *)
RtimeOff(left) == -1

(* The retransmission timer once only "left" is unacknowledged. *)
Rtime(left) == IF left = <<>> THEN -1 ELSE 0

NewAck(p, ack) ==
  LET n     == Covered(p.unacked, ack)
      freed == SubSeq(p.unacked, 1, n)
      acked == (ack - p.lastack) % U16
  IN  [p EXCEPT !.flags = @ \ {"TF_INFR"}, !.nrtx = 0, !.dupacks = 0,
                !.lastack = ack, !.snd_buf = (@ + acked) % U16,
                !.acked = AckedBytes(acked, freed),
                !.cwnd = Opened(p),
                !.unacked = Drop(@, n),
                !.snd_queuelen = @ - Pbufs(freed),
                !.rtime = Rtime(Drop(p.unacked, n))]

(* Segments queued again by a timeout may be acknowledged before they are
   sent again. *)
FreeUnsent(p, ack) ==
  LET n     == IF ack <= p.snd_nxt THEN Covered(p.unsent, ack) ELSE 0
      freed == SubSeq(p.unsent, 1, n)
  IN  [p EXCEPT !.acked = AckedBytes(@, freed),
                !.unsent = Drop(@, n),
                !.snd_queuelen = @ - Pbufs(freed)]

ReceiveAck(p, s) ==
  LET w == UpdateWindow(p, s)
      q == CASE s.ack <= p.lastack ->
                  LET z == [w EXCEPT !.acked = 0]
                  IN  IF IsDuplicate(p, w, s) THEN DuplicateAck(z)
                      ELSE [z EXCEPT !.dupacks = 0]
             [] s.ack \in p.lastack + 1 .. p.snd_nxt -> NewAck(w, s.ack)
             [] OTHER -> [w EXCEPT !.acked = 0]
  IN  IF "ACK" \in s.fl THEN FreeUnsent(q, s.ack) ELSE p

-----------------------------------------------------------------------------
(* The data (tcp_receive, second part).  A queued segment is [seq, len, fl]. *)

Bytes(s) == [i \in 1..s.len |-> s.seq + i - 1]

(* tcp_oos_insert_segment: s goes before rest.  Segments it covers are
   dropped, their FIN kept; it is cut where the next one begins. *)
Overlaid(s, rest) ==
  LET n    == Lead(Len(rest), LAMBDA i : s.seq + s.len >= rest[i].seq + rest[i].len)
      fin  == UNION {rest[i].fl : i \in 1..n}
      left == Drop(rest, n)
      len  == IF left # <<>> /\ s.seq + s.len > Head(left).seq
                THEN Head(left).seq - s.seq ELSE s.len
  IN  IF "FIN" \in s.fl THEN <<s>>
      ELSE <<[s EXCEPT !.len = len, !.fl = fin]>> \o left

(* The segment before s is cut where s begins. *)
CutAt(seg, seq) ==
  [seg EXCEPT !.len = IF seg.seq + @ > seq THEN seq - seg.seq ELSE @]

(* The out-of-order queue after s was put in its place. *)
InsertOoseq(q, s) ==
  LET n     == Lead(Len(q), LAMBDA i : q[i].seq < s.seq)
      front == SubSeq(q, 1, n - 1)
      rest  == Drop(q, n)
  IN  IF rest # <<>> /\ Head(rest).seq = s.seq
        THEN IF s.len > Head(rest).len
               THEN SubSeq(q, 1, n) \o Overlaid(s, rest) ELSE q
      ELSE IF n = 0
        THEN Overlaid(s, q)
      ELSE IF rest # <<>>
        THEN front \o <<CutAt(q[n], s.seq)>> \o Overlaid(s, rest)
      ELSE IF "FIN" \in q[n].fl
        THEN q
      ELSE front \o <<CutAt(q[n], s.seq), s>>

(* Mutant of CutToWindow: nothing is cut. *)
NotCutToWindow(p, s) == s

(* A segment in order is cut to the window, and loses its FIN with that. *)
CutToWindow(p, s) ==
  IF TcpLen(s) > p.rcv_wnd THEN [s EXCEPT !.len = p.rcv_wnd, !.fl = {}] ELSE s

(* Mutant of CutToOoseq: what overlaps the next queued segment stays. *)
NotCutToOoseq(q, s) ==
  [seg |-> s, left |-> SelectSeq(q, LAMBDA o : o.seq + o.len > EndSeq(s))]

(* A segment in order against the out-of-order queue: what it covers is
   dropped, its FIN kept.  It is cut at the sequence number of the segment
   that was first in the queue, which may have been freed just now: its
   memory still holds the number, as nothing was allocated since. *)
CutToOoseq(q, s) ==
  LET fins(i) == UNION {q[j].fl : j \in 1..i}
      n    == Lead(Len(q), LAMBDA i :
                s.seq + TcpLen([s EXCEPT !.fl = fins(i - 1)]) >= q[i].seq + q[i].len)
      t    == [s EXCEPT !.fl = fins(n)]
      left == Drop(q, n)
  IN  IF q = <<>> \/ "FIN" \in s.fl
        THEN [seg |-> s, left |-> <<>>]
      ELSE IF left # <<>> /\ EndSeq(t) > Head(left).seq
        THEN [seg |-> [t EXCEPT !.len = Head(q).seq - s.seq], left |-> left]
      ELSE [seg |-> t, left |-> left]

(* rcv_nxt moves over s, whose bytes go to recv_data. *)
Take(p, s) ==
  [Consume(p, TcpLen(s)) EXCEPT
     !.recv_data = @ \o Bytes(s),
     !.recv_flags = IF "FIN" \in s.fl THEN @ \cup {"TF_GOT_FIN"} ELSE @]

(* The same for the first segment of the out-of-order queue. *)
TakeQueued(p, s) ==
  [Take(p, s) EXCEPT
     !.state = IF "FIN" \in s.fl /\ @ = "ESTABLISHED" THEN "CLOSE_WAIT" ELSE @,
     !.ooseq = Tail(@)]

(* The same for the first n segments of that queue. *)
TakeFirst(p, n) ==
  LET after[i \in 0..n] ==
        IF i = 0 THEN p ELSE TakeQueued(after[i - 1], p.ooseq[i])
  IN  after[n]

(* Mutant of Joining: a gap is not noticed. *)
JoiningAny(q, seq) == Len(q)

(* How many segments of the queue follow on from seq. *)
Joining(q, seq) ==
  Lead(Len(q), LAMBDA i : q[i].seq = IF i = 1 THEN seq ELSE EndSeq(q[i - 1]))

ReceiveInOrder(p, s) ==
  LET cut == CutToOoseq(p.ooseq, CutToWindow(p, s))
      q   == Take([p EXCEPT !.ooseq = cut.left], cut.seg)
      n   == Joining(q.ooseq, q.rcv_nxt)
  IN  Ack(TakeFirst(q, n))

(* Mutant of ReceiveOutOfOrder: a segment within the window is taken as if it
   were the next. *)
ReceiveAnyOrder(p, s) == ReceiveInOrder(p, s)

ReceiveOutOfOrder(p, s) ==
  [SendEmptyAck(p) EXCEPT !.ooseq = IF p.mem THEN InsertOoseq(@, s) ELSE @]

(* What lies before rcv_nxt is cut off. *)
CutFront(p, s) ==
  IF p.rcv_nxt \in s.seq + 1 .. EndSeq(s) - 1
    THEN [s EXCEPT !.len = @ - (p.rcv_nxt - s.seq), !.seq = p.rcv_nxt]
    ELSE s

InWindow(p, seq) == seq \in p.rcv_nxt .. p.rcv_nxt + p.rcv_wnd - 1

(* The rest of tcp_receive.  Of a segment that comes this far only the FIN
   matters: tcp_process answers every other SYN, and a SYN that carries an ACK
   reaches SYN_SENT only. *)
ReceiveData(p, s) ==
  LET t == CutFront(p, [seq |-> s.seq, len |-> s.len, fl |-> s.fl \cap {"FIN"}])
      q == IF t.seq < p.rcv_nxt THEN AckNow(p) ELSE p
  IN  IF TcpLen(s) = 0
        THEN IF InWindow(p, s.seq) THEN p ELSE AckNow(p)
      ELSE IF ~InWindow(p, t.seq) THEN SendEmptyAck(q)
      ELSE IF t.seq = p.rcv_nxt THEN ReceiveInOrder(q, t)
      ELSE ReceiveOutOfOrder(q, t)

Receive(p, s) == ReceiveData(ReceiveAck(p, s), s)

-----------------------------------------------------------------------------
(* The connection states (tcp_process) *)

GotFin(p) == "TF_GOT_FIN" \in p.recv_flags

TimeWait(p) == [Purge(p) EXCEPT !.state = "TIME_WAIT"]

(* A RST counts when it lies in the window, or acknowledges the SYN. *)
ResetAcceptable(p, s) ==
  IF p.state = "SYN_SENT" THEN s.ack = p.snd_nxt
  ELSE s.seq \in p.rcv_nxt .. p.rcv_nxt + p.rcv_wnd

(* Mutant of FinAcked: any acknowledgement will do. *)
AnyAck(p, s) == "ACK" \in s.fl

(* Mutant of FinAcked: the FIN is counted twice. *)
FinAckedBeyond(p, s) == "ACK" \in s.fl /\ s.ack = p.snd_nxt + 1

(* Everything sent so far, and so the FIN, is acknowledged. *)
FinAcked(p, s) == "ACK" \in s.fl /\ s.ack = p.snd_nxt

SynSent(p, s) ==
  LET rest == Tail(p.unacked)
  IN  IF /\ {"SYN", "ACK"} \subseteq s.fl /\ p.unacked # <<>>
         /\ s.ack = Head(p.unacked).seq + 1
        THEN AckNow([p EXCEPT
               !.snd_buf = (@ + 1) % U16, !.snd_queuelen = @ - 1,
               !.rcv_nxt = s.seq + 1, !.rcv_ann_right_edge = s.seq + 1,
               !.lastack = s.ack, !.snd_wnd = s.wnd, !.snd_wl1 = s.seq - 1,
               !.state = "ESTABLISHED", !.ssthresh = 10 * MSS,
               !.cwnd = IF @ = 1 THEN 2 * MSS ELSE MSS,
               !.unacked = rest,
               !.rtime = Rtime(rest),
               !.nrtx  = IF rest = <<>> THEN @ ELSE 0])
      ELSE IF "ACK" \in s.fl THEN Reset(p, s.ack, EndSeq(s))
      ELSE p

SynRcvd(p, s, cb) ==
  LET q == [Receive([p EXCEPT !.state = "ESTABLISHED"], s) EXCEPT
              !.acked = IF @ # 0 THEN @ - 1 ELSE 0,
              !.cwnd  = IF p.cwnd = 1 THEN 2 * MSS ELSE MSS]
  IN  CASE "ACK" \in s.fl /\ s.ack \in p.lastack + 1 .. p.snd_nxt ->
             IF ~cb.accept THEN Abort(p)
             ELSE IF GotFin(q) THEN [AckNow(q) EXCEPT !.state = "CLOSE_WAIT"]
             ELSE q
        [] "ACK" \in s.fl /\ s.ack \notin p.lastack + 1 .. p.snd_nxt ->
             Reset(p, s.ack, EndSeq(s))
        [] "ACK" \notin s.fl ->
             IF "SYN" \in s.fl /\ s.seq = p.rcv_nxt - 1 THEN Rexmit(p) ELSE p

(* The states after the handshake, once tcp_receive is done. *)
FinStates(q, s) ==
  CASE q.state \in {"ESTABLISHED", "CLOSE_WAIT"} ->
         IF GotFin(q) THEN [AckNow(q) EXCEPT !.state = "CLOSE_WAIT"] ELSE q
    [] q.state = "FIN_WAIT_1" /\ GotFin(q) ->
         IF FinAcked(q, s) THEN TimeWait(AckNow(q))
         ELSE [AckNow(q) EXCEPT !.state = "CLOSING"]
    [] q.state = "FIN_WAIT_1" /\ ~GotFin(q) ->
         IF FinAcked(q, s) THEN [q EXCEPT !.state = "FIN_WAIT_2"] ELSE q
    [] q.state = "FIN_WAIT_2" ->
         IF GotFin(q) THEN TimeWait(AckNow(q)) ELSE q
    [] q.state = "CLOSING" ->
         IF FinAcked(q, s) THEN TimeWait(q) ELSE q
    [] q.state = "LAST_ACK" ->
         IF FinAcked(q, s)
           THEN [q EXCEPT !.recv_flags = @ \cup {"TF_CLOSED"}] ELSE q

Process(p, s, cb) ==
  CASE "RST" \in s.fl ->
         IF ResetAcceptable(p, s)
           THEN [p EXCEPT !.recv_flags = {"TF_RESET"},
                          !.flags = @ \ {"TF_ACK_DELAY"}]
           ELSE p
    [] "RST" \notin s.fl /\ "SYN" \in s.fl /\ p.state \notin {"SYN_SENT", "SYN_RCVD"} ->
         AckNow(p)
    [] OTHER ->
         CASE p.state = "SYN_SENT" -> SynSent(p, s)
           [] p.state = "SYN_RCVD" -> SynRcvd(p, s, cb)
           [] p.state \in Synchronized -> FinStates(Receive(p, s), s)

-----------------------------------------------------------------------------
(* The callbacks and the whole of tcp_input for an active block *)

(* Mutant of Offer: data taken at last is not struck off. *)
OfferTwice(p, data, answer) ==
  LET q == [p EXCEPT !.taken = @ \o data, !.unread = @ + Len(data)]
  IN  CASE answer = "consume" -> Recved(q, Len(data))
        [] answer = "take"    -> q
        [] answer = "refuse"  -> [p EXCEPT !.refused = data]

(* TCP_EVENT_RECV with data. *)
Offer(p, data, answer) ==
  LET q == [p EXCEPT !.refused = <<>>, !.taken = @ \o data,
                     !.unread = @ + Len(data)]
  IN  CASE answer = "consume" -> Recved(q, Len(data))
        [] answer = "take"    -> q
        [] answer = "refuse"  -> [p EXCEPT !.refused = data]

(* TCP_EVENT_RECV with NULL. *)
Eof(p, close) ==
  LET q == [p EXCEPT !.eof = TRUE] IN IF close THEN Close(q) ELSE q

(* After tcp_process: the callbacks, then tcp_output. *)
Finish(p, cb) ==
  LET sent == [p EXCEPT !.reported = @ + p.acked]
      recv == IF p.recv_data = <<>> THEN sent
              ELSE Offer(sent, p.recv_data, cb.recv)
      eof  == IF GotFin(p) THEN Eof(recv, cb.eof) ELSE recv
  IN  IF p.state = "CLOSED" THEN p
      ELSE IF "TF_RESET" \in p.recv_flags
        THEN [RemovePcb(p) EXCEPT !.failed = TRUE]
      ELSE IF "TF_CLOSED" \in p.recv_flags THEN RemovePcb(p)
      ELSE Output([eof EXCEPT !.busy = FALSE])

ActiveInput(p, s, cb) ==
  LET kept == IF p.refused = <<>> THEN p ELSE Offer(p, p.refused, cb.again)
      done == Finish(Process([kept EXCEPT !.busy = TRUE], s, cb), cb)
  IN  IF p.refused # <<>> /\ cb.again = "refuse" THEN p
      ELSE [done EXCEPT !.busy = FALSE, !.recv_data = <<>>, !.recv_flags = {}]

(* tcp_timewait_input: everything but a RST is answered. *)
TimewaitInput(p, s) ==
  CASE "RST" \in s.fl -> p
    [] "RST" \notin s.fl /\ "SYN" \in s.fl
       /\ s.seq \in p.rcv_nxt .. p.rcv_nxt + p.rcv_wnd ->
         Reset(p, s.ack, EndSeq(s))
    [] OTHER -> IF TcpLen(s) > 0 THEN AckNow(p) ELSE p

(* tcp_listen_input; free says whether a control block is left. *)
ListenInput(p, s, iss, free) ==
  LET q == [Alloc(p, iss) EXCEPT
              !.state = "SYN_RCVD",
              !.rcv_nxt = s.seq + 1, !.rcv_ann_right_edge = s.seq + 1,
              !.snd_wnd = s.wnd, !.ssthresh = s.wnd, !.snd_wl1 = s.seq - 1]
  IN  CASE "ACK" \in s.fl -> Reset(p, s.ack + 1, EndSeq(s))
        [] "ACK" \notin s.fl /\ "SYN" \in s.fl /\ free ->
             IF Accepts(q, 0, {"SYN"}, FALSE)
               THEN Output(Enqueue(q, 0, {"SYN"}, FALSE)) ELSE Freed(q)
        [] OTHER -> p

(* No block and nobody listening. *)
ClosedInput(p, s) == IF "RST" \in s.fl THEN p ELSE Reset(p, s.ack, EndSeq(s))

=============================================================================
