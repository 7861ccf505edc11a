------------------------------- MODULE TcpOut -------------------------------
(***************************************************************************)
(* What LWIP-SRC/core/tcp_out.c does to a control block.                   *)
(*                                                                         *)
(* An operator maps the control block to the one the function leaves       *)
(* behind.  Besides the fields of struct tcp_pcb the record has            *)
(*   busy   TRUE while the block is tcp_input_pcb                          *)
(*   mem    whether the allocations of the running handler succeed         *)
(*   out    the segments handed to IP by the running handler               *)
(* A queued segment is [seq, len, fl, pb]: first sequence number, bytes,   *)
(* those of SYN and FIN that are set, pbufs.  The bytes themselves are the *)
(* sequence numbers they occupy.  Sequence numbers do not wrap: the        *)
(* comparisons of tcp.h are exact within half the number space.            *)
(***************************************************************************)
EXTENDS TcpWnd, Sequences, FiniteSets, SequencesExt

CONSTANTS
  TCP_SND_BUF,       \* bytes that may be queued
  TCP_SND_QUEUELEN,  \* pbufs that may be queued
  U16,               \* 2^16, scaled to the size of the other constants
  MaxBackoff         \* sizeof(tcp_persist_backoff)

ASSUME OutAssumption ==
  /\ TCP_SND_BUF \in Nat \ {0} /\ TCP_SND_QUEUELEN \in Nat \ {0}
  /\ MaxBackoff \in Nat \ {0}
  /\ U16 \in Nat /\ U16 > TCP_SND_BUF /\ U16 > TCP_WND /\ U16 > 10 * MSS

AckFlagSet == {"TF_ACK_DELAY", "TF_ACK_NOW"}

(* TCP_TCPLEN: SYN and FIN take a sequence number. *)
TcpLen(s) == s.len + (IF s.fl \cap {"SYN", "FIN"} # {} THEN 1 ELSE 0)

EndSeq(s) == s.seq + TcpLen(s)

(* How many of the first n indices pass the test, up to the first that does
   not: how far a loop over a queue runs. *)
Lead(n, Test(_)) == Max({k \in 0..n : \A i \in 1..k : Test(i)})

Drop(q, n) == SubSeq(q, n + 1, Len(q))

Pbufs(q) ==
  LET sum[i \in 0..Len(q)] == IF i = 0 THEN 0 ELSE sum[i - 1] + q[i].pb
  IN  sum[Len(q)]

(* The segments of q are sorted; s goes before the first that is not lower. *)
InsertBySeq(q, s) ==
  InsertAt(q, 1 + Lead(Len(q), LAMBDA i : q[i].seq < s.seq), s)

(* Mutant of InsertSent: a segment sent again goes to the tail as well. *)
InsertSentAtTail(q, s) == Append(q, s)

(* The unacked queue: at the tail, unless an earlier segment is sent again. *)
InsertSent(q, s) ==
  IF q # <<>> /\ s.seq < Last(q).seq THEN InsertBySeq(q, s) ELSE Append(q, s)

(* The same for the segments of sent, one after the other. *)
InsertAllSent(q, sent) ==
  LET into[i \in 0..Len(sent)] ==
        IF i = 0 THEN q ELSE InsertSent(into[i - 1], sent[i])
  IN  into[Len(sent)]

-----------------------------------------------------------------------------
(* Transmission *)

(* A segment as it leaves: acknowledgement and window are filled in now. *)
Wire(p, seq, fl, len) ==
  [seq |-> seq, ack |-> p.rcv_nxt, wnd |-> p.rcv_ann_wnd, fl |-> fl, len |-> len]

SendEmptyAck(p) ==
  IF p.mem
    THEN [Announce(p) EXCEPT !.flags = @ \ AckFlagSet,
                             !.out = Append(@, Wire(p, p.snd_nxt, {"ACK"}, 0))]
    ELSE p

(* Mutant of Fits: the length of the segment is not counted. *)
FitsHead(p, s, wnd) == s.seq - p.lastack <= wnd

(* The segment ends within a window that starts at lastack.  The code
   computes the left side unsigned. *)
Fits(p, s, wnd) ==
  LET edge == s.seq - p.lastack + s.len IN edge >= 0 /\ edge <= wnd

(* tcp_do_output_nagle when the i-th unsent segment is at the head. *)
Nagle(p, i) ==
  \/ i = 1 /\ p.unacked = <<>>
  \/ p.flags \cap {"TF_NODELAY", "TF_INFR"} # {}
  \/ i < Len(p.unsent)
  \/ p.unsent[i].len >= MSS

(* tcp_output_segment for the first n unsent segments. *)
SendSegments(p, n) ==
  LET sent == SubSeq(p.unsent, 1, n)
      ack  == IF p.state = "SYN_SENT" THEN {} ELSE {"ACK"}
  IN  [Announce(p) EXCEPT
         !.unsent  = Drop(@, n),
         !.unacked = InsertAllSent(@, sent),
         !.snd_nxt = Max({@} \cup {EndSeq(sent[i]) : i \in 1..n}),
         !.rtime   = 0,
         !.flags   = IF ack = {} THEN @ ELSE @ \ AckFlagSet,
         !.out     = @ \o [i \in 1..n |->
                       Wire(p, sent[i].seq, sent[i].fl \cup ack, sent[i].len)]]

(* The condition that ends tcp_output: what is left waits for the window. *)
Blocked(p) ==
  /\ p.unsent # <<>> /\ p.persist_backoff = 0
  /\ ~Fits(p, Head(p.unsent), p.snd_wnd)

Output(p) ==
  LET wnd == Lesser(p.snd_wnd, p.cwnd)
      n == Lead(Len(p.unsent),
             LAMBDA i : /\ Fits(p, p.unsent[i], wnd)
                        /\ \/ Nagle(p, i)
                           \/ p.flags \cap {"TF_NAGLEMEMERR", "TF_FIN"} # {})
      q == IF n = 0 THEN p ELSE SendSegments(p, n)
  IN  IF p.busy THEN p
      ELSE IF /\ "TF_ACK_NOW" \in p.flags
              /\ p.unsent = <<>> \/ ~Fits(p, Head(p.unsent), wnd)
        THEN SendEmptyAck(p)
      ELSE [q EXCEPT !.flags = @ \ {"TF_NAGLEMEMERR"},
                     !.persist_backoff = IF Blocked(q) THEN 1 ELSE @]

(* The macros tcp_ack and tcp_ack_now. *)
AckNow(p) == Output([p EXCEPT !.flags = AckNowFlags(@)])

Ack(p) ==
  LET q == [p EXCEPT !.flags = AckFlags(@)]
  IN  IF "TF_ACK_DELAY" \in p.flags THEN Output(q) ELSE q

-----------------------------------------------------------------------------
(* Queueing *)

(* The segments tcp_enqueue builds: mss bytes each, a pbuf for the header
   and, unless the data is copied behind it, another for the data. *)
Segments(p, len, fl, copy) ==
  LET n == Max({1, (len + MSS - 1) \div MSS})
  IN  [i \in 1..n |->
         [seq |-> p.snd_lbb + (i - 1) * MSS,
          len |-> Lesser(MSS, len - (i - 1) * MSS),
          fl  |-> fl,
          pb  |-> IF copy \/ len = 0 THEN 1 ELSE 2]]

(* Mutant of Accepts: the pbufs of the new segments are not counted. *)
AcceptsUncounted(p, len, fl, copy) ==
  len <= p.snd_buf /\ p.snd_queuelen < TCP_SND_QUEUELEN /\ p.mem

(* Whether tcp_enqueue succeeds. *)
Accepts(p, len, fl, copy) ==
  /\ len <= p.snd_buf
  /\ p.snd_queuelen < TCP_SND_QUEUELEN
  /\ p.mem
  /\ p.snd_queuelen + Pbufs(Segments(p, len, fl, copy)) <= TCP_SND_QUEUELEN

(* The first new segment is joined to the last unsent one. *)
Chains(p, first) ==
  /\ p.unsent # <<>>
  /\ LET last == Last(p.unsent)
     IN  /\ TcpLen(last) # 0 /\ last.fl = {}
         /\ first.fl \in {{}, {"FIN"}}
         /\ last.len + first.len <= MSS
         /\ last.seq + last.len = first.seq

(* The joined segment keeps one header: the pbuf of the other one is freed
   unless the data lies in it. *)
Joined(last, first) ==
  [last EXCEPT !.len = @ + first.len,
               !.fl  = first.fl,
               !.pb  = IF first.len = 0 THEN @ ELSE @ + 1]

(* The queues after tcp_enqueue succeeded. *)
Queued(p, len, fl, copy) ==
  LET new  == Segments(p, len, fl, copy)
      size == len + (IF fl = {} THEN 0 ELSE 1)
      q    == IF Chains(p, new[1])
                THEN Front(p.unsent)
                       \o <<Joined(Last(p.unsent), new[1])>> \o Tail(new)
                ELSE p.unsent \o new
  IN  [p EXCEPT
         !.unsent       = q,
         !.snd_lbb      = @ + size,
         !.snd_buf      = (@ - size) % U16,
         !.snd_queuelen = @ + Pbufs(q) - Pbufs(p.unsent),
         !.flags        = IF "FIN" \in fl THEN @ \cup {"TF_FIN"} ELSE @]

Enqueue(p, len, fl, copy) ==
  IF Accepts(p, len, fl, copy)
    THEN Queued(p, len, fl, copy)
    ELSE [p EXCEPT !.flags = @ \cup {"TF_NAGLEMEMERR"}]

-----------------------------------------------------------------------------
(* Retransmission *)

(* Mutant of RexmitRto: what is taken off unacked is not queued again. *)
RexmitRtoForgets(p) ==
  IF p.unacked = <<>> THEN p
  ELSE Output([p EXCEPT !.unacked = <<>>, !.nrtx = @ + 1])

(* tcp_rexmit_rto: everything unacknowledged is queued again. *)
RexmitRto(p) ==
  IF p.unacked = <<>> THEN p
  ELSE Output([p EXCEPT !.unsent  = p.unacked \o @,
                        !.unacked = <<>>,
                        !.nrtx    = @ + 1])

(* tcp_rexmit: the first unacknowledged segment is queued again. *)
Rexmit(p) ==
  IF p.unacked = <<>> THEN p
  ELSE [p EXCEPT !.unsent  = InsertBySeq(@, Head(p.unacked)),
                 !.unacked = Tail(@),
                 !.nrtx    = @ + 1]

(* tcp_rexmit_fast: once per loss, and not before the third duplicate. *)
RexmitFast(p) ==
  LET ssthresh == Max({2 * MSS, Lesser(p.cwnd, p.snd_wnd) \div 2})
  IN  IF p.unacked = <<>> \/ "TF_INFR" \in p.flags THEN p
      ELSE [Rexmit(p) EXCEPT !.ssthresh = ssthresh,
                             !.cwnd     = (ssthresh + 3 * MSS) % U16,
                             !.flags    = @ \cup {"TF_INFR"}]

(* tcp_zero_window_probe: one byte, or the FIN, of the oldest segment. *)
ZeroWindowProbe(p) ==
  LET queue == p.unacked \o p.unsent
      oldest == Head(queue)
      isFin  == "FIN" \in oldest.fl /\ oldest.len = 0
  IN  IF queue = <<>> \/ ~p.mem THEN p
      ELSE [Announce(p) EXCEPT
              !.out = Append(@, IF isFin
                        THEN Wire(p, oldest.seq, {"ACK", "FIN"}, 0)
                        ELSE Wire(p, oldest.seq, {"ACK"}, 1))]

=============================================================================
