----------------------------- MODULE RcvWindow ------------------------------
(***************************************************************************)
(* The receiving half of one lwIP connection: the receive window, delayed  *)
(* acknowledgement, and data the application refuses.                      *)
(*                                                                         *)
(* A segment reaches the window as a number of bytes that became in order  *)
(* (its own, plus those of out-of-order segments it joins), with or        *)
(* without the FIN.  What the sending half transmits is a free choice: a   *)
(* data segment announces the window just as an ACK does.                  *)
(***************************************************************************)
EXTENDS TcpWnd

CONSTANT MaxSeq   \* bound: the sequence numbers received stay below it

ASSUME RcvAssumption == MaxSeq \in Nat

VARIABLES
  pcb,       \* the window fields of the control block; sent_ackno is the
             \* acknowledgement number of the last segment transmitted
  refused_data,   \* bytes held in pcb->refused_data, 0 when it is NULL
  unread,    \* bytes the application took and has not passed to tcp_recved
  fin,       \* 1 once the FIN of the peer was received in order
  missed     \* TRUE once an ACK, if one was due, may not have left: pbuf_alloc
             \* failed in tcp_send_empty_ack, or tcp_output held back, by
             \* Nagle's rule, the small segment it would have travelled with

wndVars == <<pcb, refused_data, unread, fin, missed>>

AckFlagNames == {"TF_ACK_DELAY", "TF_ACK_NOW"}

WindowBlock ==
  [rcv_nxt : Nat, rcv_wnd : 0..TCP_WND, rcv_ann_wnd : 0..TCP_WND,
   rcv_ann_right_edge : Nat, flags : SUBSET AckFlagNames, sent_ackno : Nat]

(* The state is well typed. *)
WndTypeOK ==
  /\ pcb \in WindowBlock
  /\ refused_data \in 0..TCP_WND
  /\ unread \in 0..TCP_WND
  /\ fin \in 0..1
  /\ missed \in BOOLEAN

(* Each handler has a flag ok: an ACK that becomes due in it leaves. *)
Note(ok) == missed' = (missed \/ ~ok)

-----------------------------------------------------------------------------
(* What the functions of tcp_out.c and tcp.c do to the window. *)

(* tcp_output_set_header alone: keepalives and zero window probes. *)
Stamp(p) == [Announce(p) EXCEPT !.sent_ackno = p.rcv_nxt]

(* A data segment or an empty ACK leaves: pending ACKs travel with it. *)
Transmit(p) == [Stamp(p) EXCEPT !.flags = {}]

(* tcp_send_empty_ack, or a call of it that is not reached. *)
SendEmptyAck(p, ok) == IF ok THEN Transmit(p) ELSE p

(* tcp_output outside tcp_input; "data" says that it sends a data segment. *)
Output(p, data, ok) ==
  IF data THEN Transmit(p)
  ELSE IF "TF_ACK_NOW" \in p.flags THEN SendEmptyAck(p, ok)
  ELSE p

(* tcp_recved within tcp_input, where tcp_output returns at once. *)
RecvedQuietly(p, n) ==
  IF n = 0 THEN p
  ELSE IF UpdateIsDue(p, n)
    THEN [CreditWindow(p, n) EXCEPT !.flags = AckNowFlags(@)]
    ELSE CreditWindow(p, n)

(* tcp_recved from anywhere else. *)
Recved(p, n, data, ok) ==
  IF n > 0 /\ UpdateIsDue(p, n)
    THEN Output(RecvedQuietly(p, n), data, ok)
    ELSE RecvedQuietly(p, n)

(* tcp_receive, its branch for a segment in order: n units, f of them FIN. *)
Receive(p, n, f) ==
  [Advance(p, n) EXCEPT
     !.flags = IF f = 1 THEN AckNowFlags(AckFlags(@)) ELSE AckFlags(@)]

-----------------------------------------------------------------------------
WndInit ==
  /\ pcb = [rcv_nxt |-> 1, rcv_wnd |-> TCP_WND, rcv_ann_wnd |-> TCP_WND,
            rcv_ann_right_edge |-> 1 + TCP_WND, flags |-> {},
            sent_ackno |-> 1]
  /\ refused_data = 0 /\ unread = 0 /\ fin = 0 /\ missed = FALSE

(* Data refused earlier is offered again before a segment is looked at.  The
   application takes it and calls tcp_recved for one of these amounts, 0
   when it does not call it.  (When it refuses again the segment is dropped
   and nothing changes.) *)
Redelivered == IF refused_data > 0 THEN 0..(unread + refused_data) ELSE {0}

(* Mutant of StillRefused: the pointer is cleared whatever recv returned. *)
NeverRefused(taken) == 0

(* refused_data after tcp_fasttmr offered it: cleared on ERR_OK only. *)
StillRefused(taken) == IF taken THEN 0 ELSE refused_data

(* tcp_input: len bytes and f FINs became in order.  The application takes
   the data or not, and calls tcp_recved for r1 bytes in its callback.  That
   they fit the window is what tcp_receive asserts before it takes them. *)
InputInOrder(len, f, taken, r0, r1, data, ok) ==
  /\ fin = 0
  /\ len + f > 0
  /\ len = 0 => taken
  /\ pcb.rcv_nxt + len + f <= MaxSeq
  /\ LET p    == Recved(pcb, r0, data, ok)
         held == (unread + refused_data - r0) + (IF taken THEN len ELSE 0)
     IN  /\ len + f <= p.rcv_wnd
         /\ r1 <= held
         /\ pcb' = Output(RecvedQuietly(Receive(p, len + f, f), r1), data, ok)
         /\ unread' = held - r1
  /\ refused_data' = IF taken THEN 0 ELSE len
  /\ fin' = f
  /\ Note(ok)

(* tcp_input: the segment is a pure ACK, a duplicate (answered at once), or
   out of order (answered even before tcp_output is reached). *)
InputNothingNew(r0, kind, data, ok) ==
  /\ LET p == Recved(pcb, r0, data, ok)
         q == CASE kind = "pure"         -> p
                [] kind = "duplicate"    -> [p EXCEPT !.flags = AckNowFlags(@)]
                [] kind = "out_of_order" -> SendEmptyAck(p, ok)
     IN  pcb' = Output(q, data, ok)
  /\ refused_data' = 0
  /\ unread' = unread + refused_data - r0
  /\ Note(ok)
  /\ UNCHANGED fin

(* tcp_fasttmr: offer refused data again, then send a delayed ACK.  The ACK
   flags are cleared whether or not the ACK could be built. *)
FastTmr(taken, r0, data, ok) ==
  /\ taken => refused_data > 0
  /\ r0 > 0 => taken
  /\ LET p == Recved(pcb, r0, data, ok)
     IN  pcb' = IF "TF_ACK_DELAY" \in p.flags
                  THEN [Output([p EXCEPT !.flags = AckNowFlags(@)], data, ok)
                          EXCEPT !.flags = {}]
                  ELSE p
  /\ refused_data' = StillRefused(taken)
  /\ unread' = (unread + (IF taken THEN refused_data ELSE 0)) - r0
  /\ Note(ok)
  /\ UNCHANGED fin

(* The application hands back n bytes outside any callback. *)
AppRecved(n, data, ok) ==
  /\ n \in 1..unread
  /\ pcb' = Recved(pcb, n, data, ok)
  /\ unread' = unread - n
  /\ Note(ok)
  /\ UNCHANGED <<refused_data, fin>>

(* tcp_output from tcp_write, tcp_close or tcp_slowtmr. *)
CallOutput(data, ok) ==
  /\ pcb' = Output(pcb, data, ok)
  /\ Note(ok)
  /\ UNCHANGED <<refused_data, unread, fin>>

(* tcp_slowtmr sends a keepalive or a zero window probe. *)
Probe ==
  /\ pcb' = Stamp(pcb)
  /\ UNCHANGED <<refused_data, unread, fin, missed>>

DataInput ==
  \E len \in 0..pcb.rcv_wnd + unread, f \in 0..1, taken, data, ok \in BOOLEAN,
     r0 \in Redelivered :
    \E r1 \in 0..(unread + refused_data - r0) + len :
      InputInOrder(len, f, taken, r0, r1, data, ok)

OtherInput ==
  \E kind \in {"pure", "duplicate", "out_of_order"}, r0 \in Redelivered,
     data, ok \in BOOLEAN :
    InputNothingNew(r0, kind, data, ok)

FastTimer ==
  \E taken, data, ok \in BOOLEAN, r0 \in Redelivered :
    FastTmr(taken, r0, data, ok)

Application ==
  \E n \in 1..unread, data, ok \in BOOLEAN :
    AppRecved(n, data, ok)

Transmission ==
  \E data, ok \in BOOLEAN : CallOutput(data, ok)

WndNext ==
  \/ DataInput
  \/ OtherInput
  \/ FastTimer
  \/ Application
  \/ Transmission
  \/ Probe

(* tcp_tmr runs every 250 ms for as long as the program does.  (A call that
   changes nothing but the history variable is no progress.) *)
WndFairness == WF_<<pcb, refused_data, unread, fin>>(FastTimer)

WndSpec == WndInit /\ [][WndNext]_wndVars /\ WndFairness

-----------------------------------------------------------------------------
(* Every byte of the receive buffer is free, refused, or held by the
   application; a FIN uses up one.  tcp_receive takes the bytes away and
   tcp_recved gives them back, in different callbacks and at any distance:
   a byte lost between them shrinks the window for good. *)
WindowConserved == pcb.rcv_wnd + refused_data + unread + fin = TCP_WND

(* The edge the peer was told never lies beyond the buffer that is free,
   however announcements, arrivals and tcp_recved interleave. *)
PromiseKept == pcb.rcv_ann_right_edge <= pcb.rcv_nxt + pcb.rcv_wnd

(* The window to announce is always the one tcp_update_rcv_ann_wnd would
   compute, so whatever segment leaves next announces the right one. *)
AnnUpToDate == pcb.rcv_ann_wnd = AnnWnd(pcb)

(* Until an ACK that was due stayed behind, what was received and not
   acknowledged has an ACK on its way: one of the two ACK flags is set.
   Nothing else would make tcp_fasttmr send it. *)
UnackedHasAckPending ==
  ~missed /\ pcb.sent_ackno < pcb.rcv_nxt => pcb.flags # {}

(* Until then, a window that could be opened by both thresholds has an ACK
   pending that will announce it: a peer that waits for room is not
   forgotten ("send an explicit update now", tcp_recved). *)
OpenWindowNotForgotten ==
  /\ ~missed
  /\ EdgeGap(pcb) > 0
  /\ EdgeGap(pcb) >= EdgeStep /\ EdgeGap(pcb) >= UpdateThreshold
  => pcb.flags # {}

(* Both together: what the peer has to be told, it will be told. *)
NothingUnsaid == UnackedHasAckPending /\ OpenWindowNotForgotten

(* A segment never announces a right edge left of one announced before. *)
EdgeNeverRetreats ==
  [][pcb'.rcv_ann_right_edge >= pcb.rcv_ann_right_edge]_wndVars

(* Everything received is acknowledged in the end, by the timer if not by
   a segment that happened to leave, unless an ACK stayed behind. *)
AckEventually ==
  (pcb.sent_ackno < pcb.rcv_nxt) ~> (pcb.sent_ackno = pcb.rcv_nxt \/ missed)

=============================================================================
