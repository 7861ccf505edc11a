------------------------------- MODULE TcpWnd -------------------------------
(***************************************************************************)
(* The receive window of one TCP control block (LWIP-SRC/core/tcp.c).      *)
(*                                                                         *)
(* The operators map a control block to the control block a function of    *)
(* the code leaves behind.  They touch only the fields named here, so they *)
(* serve both RcvWindow, whose block has no other field, and TcpOut, whose *)
(* block has them all:                                                     *)
(*   rcv_nxt             the next sequence number expected                 *)
(*   rcv_wnd             bytes of receive buffer still free                *)
(*   rcv_ann_wnd         the window the next segment will announce         *)
(*   rcv_ann_right_edge  the right edge the last segment announced         *)
(*   flags               the TF_* flags that are set                       *)
(***************************************************************************)
EXTENDS Integers

CONSTANTS
  TCP_WND,   \* size of the receive buffer, in bytes
  MSS        \* pcb->mss: largest payload of a segment

ASSUME WndAssumption == /\ TCP_WND \in Nat \ {0}
                        /\ MSS \in Nat \ {0}

Lesser(a, b) == IF a <= b THEN a ELSE b

(* The smallest movement of the right edge worth announcing. *)
EdgeStep == Lesser(TCP_WND \div 2, MSS)

(* TCP_WND_UPDATE_THRESHOLD: a movement announced at once. *)
UpdateThreshold == TCP_WND \div 4

(* How far the right edge could be moved now. *)
EdgeGap(p) == (p.rcv_nxt + p.rcv_wnd) - p.rcv_ann_right_edge

(* Mutants of AnnWnd: announce nothing until the edge can move far enough;
   forget that the peer may have passed the announced edge. *)
AnnWndSilly(p) == IF EdgeGap(p) >= EdgeStep THEN p.rcv_wnd ELSE 0

AnnWndUnsigned(p) ==
  IF EdgeGap(p) >= EdgeStep THEN p.rcv_wnd
                            ELSE p.rcv_ann_right_edge - p.rcv_nxt

(* tcp_update_rcv_ann_wnd: announce all there is if the edge moves far
   enough, otherwise keep the right edge where the peer was told it is. *)
AnnWnd(p) ==
  IF EdgeGap(p) >= EdgeStep
    THEN p.rcv_wnd
  ELSE IF p.rcv_nxt > p.rcv_ann_right_edge
    THEN 0
  ELSE p.rcv_ann_right_edge - p.rcv_nxt

UpdateRcvAnnWnd(p) == [p EXCEPT !.rcv_ann_wnd = AnnWnd(p)]

(* The value tcp_update_rcv_ann_wnd returns. *)
WndInflation(p) == IF EdgeGap(p) >= EdgeStep THEN EdgeGap(p) ELSE 0

(* Mutant of CreditWindow: the window to announce is not brought up to date. *)
CreditWindowStale(p, n) == [p EXCEPT !.rcv_wnd = Lesser(@ + n, TCP_WND)]

(* The part of tcp_recved before its tcp_ack_now: n bytes were consumed. *)
CreditWindow(p, n) ==
  UpdateRcvAnnWnd([p EXCEPT !.rcv_wnd = Lesser(@ + n, TCP_WND)])

(* Mutant of UpdateIsDue: only a movement by half the buffer is worth it. *)
UpdateIsDueLate(p, n) == WndInflation(CreditWindow(p, n)) > TCP_WND \div 2

(* Whether tcp_recved asks for an immediate ACK. *)
UpdateIsDue(p, n) == WndInflation(CreditWindow(p, n)) >= UpdateThreshold

(* Mutant of Advance: the window to announce is not brought up to date. *)
AdvanceStale(p, n) == [p EXCEPT !.rcv_nxt = @ + n, !.rcv_wnd = @ - n]

(* tcp_receive: n units of sequence space became in order. *)
Advance(p, n) ==
  UpdateRcvAnnWnd([p EXCEPT !.rcv_nxt = @ + n, !.rcv_wnd = @ - n])

(* Every segment that leaves carries rcv_ann_wnd and fixes the edge. *)
Announce(p) ==
  [p EXCEPT !.rcv_ann_right_edge = p.rcv_nxt + p.rcv_ann_wnd]

(* Mutant of AckFlags: a second segment cancels the delayed ACK. *)
AckFlagsToggled(fl) ==
  IF "TF_ACK_DELAY" \in fl THEN fl \ {"TF_ACK_DELAY"}
                           ELSE fl \cup {"TF_ACK_DELAY"}

(* The flag changes of the macros tcp_ack and tcp_ack_now. *)
AckFlags(fl) ==
  IF "TF_ACK_DELAY" \in fl
    THEN (fl \ {"TF_ACK_DELAY"}) \cup {"TF_ACK_NOW"}
    ELSE fl \cup {"TF_ACK_DELAY"}

AckNowFlags(fl) == fl \cup {"TF_ACK_NOW"}

=============================================================================
