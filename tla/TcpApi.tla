------------------------------- MODULE TcpApi -------------------------------
(***************************************************************************)
(* The life of a control block (LWIP-SRC/core/tcp.c): allocation, opening, *)
(* tcp_recved, tcp_close, purging and removal.                             *)
(*                                                                         *)
(* Four fields belong to the application and survive the block:            *)
(*   taken     the bytes it accepted from the recv callback, in order      *)
(*   eof       recv was called with NULL                                   *)
(*   reported  the bytes the sent callbacks announced as acknowledged      *)
(*   failed    the err callback was called                                 *)
(* and three record what it did: written (bytes tcp_write accepted),       *)
(* unread (bytes taken and not passed to tcp_recved), closed (tcp_close    *)
(* queued the FIN).                                                        *)
(***************************************************************************)
EXTENDS TcpOut

AppFields ==
  {"taken", "eof", "reported", "failed", "written", "unread", "closed"}

(* States in which a segment queue exists. *)
Synchronized == {"ESTABLISHED", "FIN_WAIT_1", "FIN_WAIT_2", "CLOSE_WAIT",
                 "CLOSING", "LAST_ACK"}

(* A control block with no connection, and an application that did nothing. *)
Blank ==
  [state |-> "CLOSED", unsent |-> <<>>, unacked |-> <<>>, ooseq |-> <<>>,
   refused |-> <<>>, flags |-> {},
   snd_nxt |-> 0, snd_lbb |-> 0, lastack |-> 0, snd_wnd |-> 0,
   snd_wl1 |-> 0, snd_wl2 |-> 0, snd_buf |-> 0, snd_queuelen |-> 0,
   acked |-> 0, cwnd |-> 0, ssthresh |-> 0, dupacks |-> 0, nrtx |-> 0,
   rtime |-> -1, persist_backoff |-> 0,
   rcv_nxt |-> 0, rcv_wnd |-> 0, rcv_ann_wnd |-> 0, rcv_ann_right_edge |-> 0,
   recv_data |-> <<>>, recv_flags |-> {}, busy |-> FALSE, mem |-> TRUE,
   out |-> <<>>,
   taken |-> <<>>, eof |-> FALSE, reported |-> 0, failed |-> FALSE,
   written |-> 0, unread |-> 0, closed |-> FALSE]

(* memp_free: what the application knows, and what left already, remain. *)
Freed(p) ==
  [f \in DOMAIN Blank |->
     IF f \in AppFields \cup {"out"} THEN p[f] ELSE Blank[f]]

(* tcp_alloc, for an application that did nothing yet. *)
Alloc(p, iss) ==
  [p EXCEPT !.snd_buf = TCP_SND_BUF, !.cwnd = 1,
            !.rcv_wnd = TCP_WND, !.rcv_ann_wnd = TCP_WND,
            !.snd_wl2 = iss, !.snd_nxt = iss, !.lastack = iss, !.snd_lbb = iss]

(* tcp_connect: the SYN takes the sequence number before iss. *)
Connect(p, iss) ==
  Output(Enqueue(
    [Alloc(p, iss) EXCEPT
       !.state = "SYN_SENT", !.lastack = iss - 1, !.snd_lbb = iss - 1,
       !.rcv_ann_right_edge = 0, !.snd_wnd = TCP_WND, !.ssthresh = 10 * MSS],
    0, {"SYN"}, FALSE))

-----------------------------------------------------------------------------
(* tcp_pcb_purge: the queues are freed, what they held is forgotten. *)
Purge(p) ==
  IF p.state \in {"CLOSED", "TIME_WAIT"} THEN p
  ELSE [p EXCEPT !.refused = <<>>, !.ooseq = <<>>, !.unsent = <<>>,
                 !.unacked = <<>>, !.rtime = -1]

(* tcp_pcb_remove and memp_free: a delayed ACK is sent first. *)
RemovePcb(p) ==
  LET q == Purge(p)
  IN  Freed(IF p.state # "TIME_WAIT" /\ "TF_ACK_DELAY" \in p.flags
              THEN AckNow(q) ELSE q)

(* tcp_rst answers a segment or an abort; it carries no window of ours. *)
Reset(p, seq, ack) ==
  IF p.mem
    THEN [p EXCEPT !.out = Append(@, [seq |-> seq, ack |-> ack, wnd |-> TCP_WND,
                                      fl |-> {"RST", "ACK"}, len |-> 0])]
    ELSE p

(* tcp_abort: the application is told, then the peer. *)
Abort(p) ==
  IF p.state = "TIME_WAIT" THEN RemovePcb(p)
  ELSE Reset([RemovePcb(p) EXCEPT !.failed = TRUE], p.snd_nxt, p.rcv_nxt)

-----------------------------------------------------------------------------
(* What tcp_receive and tcp_recved do to rcv_wnd, a 16-bit field. *)
Consume(p, n) ==
  UpdateRcvAnnWnd([p EXCEPT !.rcv_nxt = @ + n, !.rcv_wnd = (@ - n) % U16])

Credit(p, n) ==
  UpdateRcvAnnWnd([p EXCEPT !.rcv_wnd = Lesser((@ + n) % U16, TCP_WND)])

(* tcp_recved *)
Recved(p, n) ==
  LET q == [Credit(p, n) EXCEPT !.unread = @ - n]
  IN  IF WndInflation(Credit(p, n)) >= UpdateThreshold THEN AckNow(q) ELSE q

(* tcp_write *)
Write(p, len, copy) ==
  LET q == Enqueue(p, len, {}, copy)
  IN  IF p.state \notin {"ESTABLISHED", "CLOSE_WAIT", "SYN_SENT", "SYN_RCVD"}
        THEN p
      ELSE IF Accepts(p, len, {}, copy)
        THEN [q EXCEPT !.written = @ + len]
      ELSE q

(* The state tcp_close moves to once the FIN is queued. *)
ClosingState(state) ==
  IF state = "CLOSE_WAIT" THEN "LAST_ACK" ELSE "FIN_WAIT_1"

(* tcp_close: without memory for the FIN nothing else happens. *)
Close(p) ==
  CASE p.state = "SYN_SENT" -> RemovePcb(p)
    [] p.state \in {"SYN_RCVD", "ESTABLISHED", "CLOSE_WAIT"} ->
         IF Accepts(p, 0, {"FIN"}, TRUE)
           THEN Output([Enqueue(p, 0, {"FIN"}, TRUE) EXCEPT
                          !.state = ClosingState(@), !.closed = TRUE])
           ELSE Enqueue(p, 0, {"FIN"}, TRUE)
    [] OTHER -> p

=============================================================================
