----------------------------- MODULE TcpReceiver ----------------------------
(***************************************************************************)
(* One end that receives a stream, however the peer cuts it into segments. *)
(*                                                                         *)
(* TcpConn has a peer that runs this stack and sends again what it sent    *)
(* before.  Another stack may cut the stream differently each time, so     *)
(* that segments overlap what was received and what waits out of order at  *)
(* both edges.  The peer writes the bytes First .. Last and then its FIN.  *)
(* Its bytes keep to the window that was announced, but for a segment in   *)
(* order, which may be longer; the FIN is not counted, as tcp_output does  *)
(* not count it, and may lie one beyond the window.                        *)
(***************************************************************************)
EXTENDS TcpIn

CONSTANTS
  StreamLen,   \* bound: the bytes of the stream
  MaxSeg,      \* bound: the bytes of a segment
  Answers,     \* what the application answers to new data, cf. TcpIn
  MemFail      \* may allocations fail?

ASSUME ReceiverAssumption ==
  /\ StreamLen \in Nat /\ MaxSeg \in Nat
  /\ Answers \subseteq {"consume", "take"} /\ MemFail \in BOOLEAN

VARIABLE tcb   \* the control block of the receiver, cf. TcpOut and TcpApi

Iss   == 100
First == 1
End   == First + StreamLen   \* the sequence number of the FIN

Memory == IF MemFail THEN BOOLEAN ELSE {TRUE}

(* What the peer sends: it has received all there is and its window is open. *)
Segment(seq, len, fl) ==
  [seq |-> seq, ack |-> Iss + 1, wnd |-> TCP_WND, fl |-> fl, len |-> len]

Callbacks == [accept : {TRUE}, recv : Answers, eof : {FALSE}, again : {"consume"}]

Commit(p) == tcb' = [p EXCEPT !.out = <<>>, !.mem = TRUE]

(* A listening end after the SYN and the ACK of the peer. *)
Init ==
  \E cb \in Callbacks :
  LET syn == [Segment(First - 1, 0, {"SYN"}) EXCEPT !.ack = 0]
      ack == Segment(First, 0, {"ACK"})
      rcvd == ListenInput(Blank, syn, Iss, TRUE)
  IN  tcb = [ActiveInput(rcvd, ack, cb) EXCEPT !.out = <<>>]

(* The segments of the stream that the peer may send now. *)
Sendable ==
  {s \in {Segment(seq, len, {"ACK"} \cup fin) :
            seq \in First..End, len \in 0..MaxSeg, fin \in {{}, {"FIN"}}} :
     /\ s.seq + s.len <= End
     /\ "FIN" \in s.fl => s.seq + s.len = End
     /\ s.seq = tcb.rcv_nxt \/ s.seq + s.len <= tcb.rcv_ann_right_edge}

Arrive ==
  \E s \in Sendable, cb \in Callbacks, m \in Memory :
    Commit(ActiveInput([tcb EXCEPT !.mem = m], s, cb))

(* tcp_slowtmr drops what has waited too long. *)
Expire ==
  /\ tcb.ooseq # <<>>
  /\ Commit([tcb EXCEPT !.ooseq = <<>>])

(* tcp_fasttmr, when no data was refused. *)
FastTmr ==
  /\ "TF_ACK_DELAY" \in tcb.flags
  /\ Commit([AckNow(tcb) EXCEPT !.flags = @ \ AckFlagSet])

Read ==
  \E n \in 1..tcb.unread, m \in Memory : Commit(Recved([tcb EXCEPT !.mem = m], n))

Next == Arrive \/ Expire \/ FastTmr \/ Read

Spec == Init /\ [][Next]_tcb

-----------------------------------------------------------------------------
(* Properties *)

(* What was taken is the stream up to rcv_nxt, every byte once: no overlap
   that was cut wrongly, no gap that was skipped. *)
StreamTaken ==
  /\ tcb.taken = [i \in 1..Len(tcb.taken) |-> First + i - 1]
  /\ First + Len(tcb.taken) = Lesser(tcb.rcv_nxt, End)

(* recv was called with NULL exactly if rcv_nxt is beyond the FIN: a FIN is
   neither lost by the trimming nor taken for the end before its turn. *)
EndIsExact == tcb.eof <=> tcb.rcv_nxt = End + 1

(* The application was given the stream, and its end, exactly so far. *)
StreamExact == StreamTaken /\ EndIsExact

(* The out-of-order queue is sorted, its segments do not overlap, they are
   parts of the stream that no handler took yet, and only the last may carry
   the FIN. *)
OoseqSound ==
  LET q == tcb.ooseq IN
  /\ \A i \in DOMAIN q :
       /\ q[i].seq > tcb.rcv_nxt /\ q[i].seq + q[i].len <= End
       /\ "FIN" \in q[i].fl => i = Len(q) /\ q[i].seq + q[i].len = End
       /\ i < Len(q) => q[i].len > 0 /\ q[i].seq + q[i].len <= q[i + 1].seq

(* rcv_wnd is what the buffer has left once what was not read and the FIN are
   taken from it.  A FIN that waited out of order is taken even if the buffer is
   full of what came before it: the subtraction wraps, and the window is open as
   far as 16 bits reach until the application reads, but for the stream it was
   the end. *)
WindowExact ==
  LET left == TCP_WND - tcb.unread - (IF tcb.eof THEN 1 ELSE 0)
  IN  tcb.rcv_wnd = left \/ (left = -1 /\ tcb.rcv_wnd = U16 - 1)

=============================================================================
