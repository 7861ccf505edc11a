--------------------------- MODULE TcpLife_proofs ---------------------------
(***************************************************************************)
(* A control block from one handler of the code to the next: the functions *)
(* of TcpApi and TcpIn keep its sending and its receiving side sound, and  *)
(* what the application is told of them is right.                          *)
(***************************************************************************)
EXTENDS TcpBlock_proofs

-----------------------------------------------------------------------------
(* A block between two handlers, and within one *)

Opening == {"SYN_SENT", "SYN_RCVD", "ESTABLISHED", "CLOSE_WAIT"}
Closing == {"FIN_WAIT_1", "FIN_WAIT_2", "CLOSING", "LAST_ACK", "TIME_WAIT"}

(* The states after the FIN of the peer. *)
Ended == {"CLOSE_WAIT", "LAST_ACK", "CLOSING", "TIME_WAIT"}

(* The sending side of a block whose first byte is fb. *)
Own(p, fb) ==
  /\ Snd(p, fb, p.written, p.closed)
  /\ p.written \in Nat /\ p.closed \in BOOLEAN
  /\ p.state \in {"CLOSED"} \cup Opening \cup Closing
  /\ p.state # "CLOSED" => p.snd_lbb = fb + p.written + (IF p.closed THEN 1 ELSE 0)
  /\ p.state \in Opening => p.closed = FALSE
  /\ p.state \in Closing => p.closed = TRUE

(* Its receiving side: the peer's first byte is fr, it has written up to lim
   and, if d, its FIN; rd waits to be offered to the application. *)
Their(p, rd, fr, lim, d) ==
  /\ p.taken \in Seq(Int) /\ p.refused \in Seq(Int) /\ rd \in Seq(Int)
  /\ rd = <<>> \/ p.refused = <<>>
  /\ IsRun(p.taken, fr) /\ fr + Len(p.taken) <= lim
  /\ OoseqOK(p, lim, d)
  /\ p.state \notin {"CLOSED", "SYN_SENT"} =>
       /\ p.rcv_nxt \in fr..lim + 1 /\ (p.rcv_nxt = lim + 1 => d)
       /\ IsRun(rd, fr + Len(p.taken))
       /\ fr + Len(p.taken) + Len(rd) <= lim
  /\ p.state \notin {"CLOSED", "SYN_SENT", "TIME_WAIT"} =>
       /\ IsRun(p.refused, fr + Len(p.taken))
       /\ fr + Len(p.taken) + Len(p.refused) + Len(rd) = Lesser(p.rcv_nxt, lim)
  /\ p.state = "SYN_SENT" =>
       /\ p.taken = <<>> /\ p.refused = <<>> /\ rd = <<>> /\ p.ooseq = <<>>
       /\ p.eof = FALSE
  /\ p.state \in Ended => p.rcv_nxt = lim + 1
  /\ p.state = "CLOSED" => p.refused = <<>> /\ p.ooseq = <<>>
  /\ p.eof \in BOOLEAN /\ p.failed \in BOOLEAN
  /\ p.failed => p.state = "CLOSED"
  /\ p.eof /\ p.state # "CLOSED" => p.rcv_nxt = lim + 1

LifeFields == {"state", "written", "closed", "snd_lbb", "rcv_nxt", "taken", "refused",
               "ooseq", "eof", "failed"}

OwnFields == {"state", "written", "closed", "snd_lbb"}

TheirFields == {"state", "rcv_nxt", "taken", "refused", "ooseq", "eof", "failed"}

(* The sending side survives a step that leaves OwnFields alone and the
   queues sound. *)
LEMMA OwnKept ==
  ASSUME NEW fb \in Int, NEW p, Own(p, fb), NEW q, Agree(p, q, OwnFields),
         Snd(q, fb, p.written, p.closed)
  PROVE  Own(q, fb)
BY DEF Own, Agree, OwnFields

(* The receiving side survives a step that leaves TheirFields alone. *)
LEMMA TheirKept ==
  ASSUME NEW fr \in Int, NEW lim \in Int, NEW d \in BOOLEAN, NEW rd, NEW p, Their(p, rd, fr, lim, d),
         NEW q, Agree(p, q, TheirFields)
  PROVE  Their(q, rd, fr, lim, d)
<1>1. /\ q.state = p.state /\ q.rcv_nxt = p.rcv_nxt /\ q.taken = p.taken
      /\ q.refused = p.refused /\ q.ooseq = p.ooseq
      /\ q.eof = p.eof /\ q.failed = p.failed
  BY DEF Agree, TheirFields
<1>2. OoseqOK(q, lim, d) <=> OoseqOK(p, lim, d)
  BY <1>1 DEF OoseqOK
<1> QED  BY <1>1, <1>2 DEF Their

Both(p, rd, fb, fr, lim, d) == Own(p, fb) /\ Their(p, rd, fr, lim, d)

(* Most operators touch none of these fields. *)
LEMMA BothKept ==
  ASSUME NEW fb \in Int, NEW fr \in Int, NEW lim \in Int, NEW d \in BOOLEAN, NEW rd,
         NEW p, Both(p, rd, fb, fr, lim, d), NEW q, NEW S, Changes(p, q, S),
         S \cap LifeFields = {}, Snd(q, fb, p.written, p.closed)
  PROVE  Both(q, rd, fb, fr, lim, d)
<1>1. Agree(p, q, OwnFields) /\ Agree(p, q, TheirFields)
  BY FieldsAre DEF Changes, Agree, OwnFields, TheirFields, LifeFields
<1> QED  BY <1>1, OwnKept, TheirKept DEF Both

(* The sender of a block that is sound on both sides. *)
LEMMA BothSnd ==
  ASSUME NEW fb, NEW fr, NEW lim, NEW d, NEW rd, NEW p, Both(p, rd, fb, fr, lim, d)
  PROVE  /\ Snd(p, fb, p.written, p.closed) /\ p.written \in Nat /\ p.closed \in BOOLEAN
         /\ DOMAIN p = Fields
BY DEF Both, Own, Snd

(* tcp_output and tcp_ack_now keep both sides sound. *)
LEMMA OutputBoth ==
  ASSUME NEW fb \in Int, NEW fr \in Int, NEW lim \in Int, NEW d \in BOOLEAN, NEW rd,
         NEW p, Both(p, rd, fb, fr, lim, d)
  PROVE  /\ Both(Output(p), rd, fb, fr, lim, d) /\ Changes(p, Output(p), OutputFields)
         /\ Both(AckNow(p), rd, fb, fr, lim, d) /\ Changes(p, AckNow(p), OutputFields)
         /\ p.busy => Changes(p, AckNow(p), {"flags"})
<1>1. Snd(p, fb, p.written, p.closed) /\ p.written \in Nat /\ p.closed \in BOOLEAN
  BY BothSnd
<1>2. OutputFields \cap LifeFields = {}
  BY DEF OutputFields, LifeFields
<1>3. PICK a : a = Output(p)
  OBVIOUS
<1>4. PICK b : b = AckNow(p)
  OBVIOUS
<1>5. Snd(a, fb, p.written, p.closed) /\ Changes(p, a, OutputFields)
  BY <1>1, <1>3, OutputSnd
<1>6. Snd(b, fb, p.written, p.closed) /\ Changes(p, b, OutputFields)
      /\ (p.busy => Changes(p, b, {"flags"}))
  BY <1>1, <1>4, AckNowSnd
<1>7. Both(a, rd, fb, fr, lim, d) /\ Both(b, rd, fb, fr, lim, d)
  BY <1>2, <1>5, <1>6, BothKept
<1> QED  BY <1>3, <1>4, <1>5, <1>6, <1>7

-----------------------------------------------------------------------------
(* Purging and freeing *)

(* What is left of Both when the connection is given up. *)
Rest(p, fb, fr, lim) ==
  /\ Snd(p, fb, p.written, p.closed) /\ p.written \in Nat /\ p.closed \in BOOLEAN
  /\ p.taken \in Seq(Int) /\ IsRun(p.taken, fr) /\ fr + Len(p.taken) <= lim
  /\ p.eof \in BOOLEAN /\ p.failed \in BOOLEAN

RestFields == {"written", "closed", "taken", "eof", "failed"}

(* What is left to be known of a sound block when its receive queues are
   dropped. *)
LEMMA BothRest ==
  ASSUME NEW fb, NEW fr, NEW lim, NEW d, NEW rd, NEW p, Both(p, rd, fb, fr, lim, d)
  PROVE  Rest(p, fb, fr, lim)
BY DEF Both, Own, Their, Rest

(* That survives a step that leaves RestFields alone and the queues sound.
   *)
LEMMA RestKept ==
  ASSUME NEW fb, NEW fr, NEW lim, NEW p, Rest(p, fb, fr, lim),
         NEW q, Agree(p, q, RestFields), Snd(q, fb, p.written, p.closed)
  PROVE  Rest(q, fb, fr, lim)
BY DEF Rest, Agree, RestFields

PurgeFields == {"refused", "ooseq", "unsent", "unacked", "rtime"}

(* tcp_pcb_purge empties the queues of a block that is not in TIME_WAIT, and
   keeps the sender sound. *)
LEMMA PurgeIs ==
  ASSUME NEW fb \in Int, NEW w \in Nat, NEW c \in BOOLEAN, NEW p, Snd(p, fb, w, c)
  PROVE  /\ Snd(Purge(p), fb, w, c) /\ Changes(p, Purge(p), PurgeFields)
         /\ p.state \notin {"CLOSED", "TIME_WAIT"} =>
              Purge(p).refused = <<>> /\ Purge(p).ooseq = <<>>
<1>q. PICK q : q = Purge(p)
  OBVIOUS
<1>1. DOMAIN p = Fields
  BY DEF Snd
<1>2. CASE p.state \in {"CLOSED", "TIME_WAIT"}
  BY <1>1, <1>2, ChangesNone DEF Purge
<1>3. CASE p.state \notin {"CLOSED", "TIME_WAIT"}
  <2>1. /\ Changes(p, q, PurgeFields) /\ q.refused = <<>> /\ q.ooseq = <<>>
        /\ q.unsent = <<>> /\ q.unacked = <<>>
    BY <1>q, <1>1, <1>3, FieldsAre DEF Changes, Purge, PurgeFields
  <2>2. <<>> \in Seq(QSegs(fb, w, c))
    BY EmptySeq
  <2>3. Snd(q, fb, w, c)
    BY <2>1, <2>2, FieldsAre DEF Changes, Snd, PurgeFields
  <2> QED  BY <1>q, <2>1, <2>3
<1> QED  BY <1>2, <1>3

(* A freed block: only what the application saw and what is on its way are
   kept, everything else is as in a new one. *)
LEMMA FreedIs ==
  ASSUME NEW p
  PROVE  /\ DOMAIN Freed(p) = Fields
         /\ \A f \in AppFields \cup {"out"} : Freed(p)[f] = p[f]
         /\ \A f \in Fields \ (AppFields \cup {"out"}) : Freed(p)[f] = Blank[f]
<1>1. AppFields \cup {"out"} \subseteq Fields
  BY FieldsAre DEF AppFields
<1> QED  BY <1>1 DEF Freed, Fields

(* A freed block, perhaps marked as failed. *)
LEMMA FreedBoth ==
  ASSUME NEW fb \in Int, NEW fr \in Int, NEW lim \in Int, NEW d \in BOOLEAN, NEW rd, rd = <<>>,
         NEW p, Rest(p, fb, fr, lim), NEW q, Changes(Freed(p), q, {"failed"}),
         q.failed \in BOOLEAN
  PROVE  /\ Both(q, rd, fb, fr, lim, d) /\ q.state = "CLOSED"
         /\ Agree(p, q, {"written", "closed", "taken", "eof", "reported", "unread", "out"})
<1>1. /\ q.state = "CLOSED" /\ q.unsent = <<>> /\ q.unacked = <<>> /\ q.ooseq = <<>>
      /\ q.refused = <<>> /\ q.recv_data = <<>> /\ q.lastack = 0 /\ q.snd_nxt = 0
      /\ q.dupacks = 0 /\ q.rcv_nxt = 0 /\ q.rcv_ann_wnd = 0
      /\ q.rcv_ann_right_edge = 0 /\ q.rcv_wnd = 0 /\ DOMAIN q = Fields
  BY FreedIs, FieldsAre DEF Changes, AppFields, Blank
<1>2. Agree(p, q, {"written", "closed", "taken", "eof", "reported", "unread", "out"})
  BY FreedIs, FieldsAre DEF Changes, AppFields, Agree
<1>3. /\ q.written = p.written /\ q.closed = p.closed /\ q.taken = p.taken /\ q.eof = p.eof
      /\ q.out = p.out
  BY <1>2 DEF Agree
<1>4. Snd(q, fb, q.written, q.closed)
  <2>w. PICK w, c : w = p.written /\ c = p.closed
    OBVIOUS
  <2>1. <<>> \in Seq(QSegs(fb, w, c))
    BY EmptySeq
  <2>2. p.out \in Seq(WSegs(fb, w, c))
    BY <2>w DEF Snd, Rest
  <2>3. Snd(q, fb, w, c)
    BY <1>1, <1>3, <2>1, <2>2 DEF Snd
  <2> QED  BY <1>3, <2>w, <2>3
<1>5. Own(q, fb)
  BY <1>1, <1>3, <1>4 DEF Own, Rest, Opening, Closing
<1>6. OoseqOK(q, lim, d)
  BY <1>1, OrderedEmpty DEF OoseqOK
<1>7. <<>> \in Seq(Int)
  BY EmptySeq
<1>8. Their(q, rd, fr, lim, d)
  BY <1>1, <1>3, <1>6, <1>7 DEF Their, Rest, Ended
<1> QED  BY <1>1, <1>2, <1>5, <1>8 DEF Both

(* q is a freed block of the application of p, told of a failure or not. *)
Gone(p, q, failed) ==
  /\ DOMAIN q = Fields /\ q.state = "CLOSED" /\ q.failed = failed
  /\ Agree(p, q, {"written", "closed", "taken", "eof"})
  /\ q.recv_data = <<>> /\ q.recv_flags = {} /\ q.refused = <<>>

(* tcp_pcb_remove leaves a block that is sound on both sides, whether the
   application is told or not. *)
LEMMA RemovePcbBoth ==
  ASSUME NEW fb \in Int, NEW fr \in Int, NEW lim \in Int, NEW d \in BOOLEAN, NEW rd, rd = <<>>,
         NEW p, Rest(p, fb, fr, lim), NEW q, Changes(RemovePcb(p), q, {"failed"}),
         q.failed \in BOOLEAN
  PROVE  /\ Both(q, rd, fb, fr, lim, d) /\ Gone(p, q, q.failed)
         /\ RemovePcb(p).failed = p.failed
<1>u. PICK u : u = Purge(p)
  OBVIOUS
<1>v. PICK v : v = IF p.state # "TIME_WAIT" /\ "TF_ACK_DELAY" \in p.flags
                     THEN AckNow(u) ELSE u
  OBVIOUS
<1>1. RemovePcb(p) = Freed(v)
  BY <1>u, <1>v DEF RemovePcb
<1>2. Snd(p, fb, p.written, p.closed) /\ p.written \in Nat /\ p.closed \in BOOLEAN
  BY DEF Rest
<1>3. Snd(u, fb, p.written, p.closed) /\ Changes(p, u, PurgeFields)
  BY <1>2, <1>u, PurgeIs
<1>4. Snd(v, fb, p.written, p.closed) /\ Changes(p, v, PurgeFields \cup OutputFields)
  <2>1. Snd(AckNow(u), fb, p.written, p.closed) /\ Changes(u, AckNow(u), OutputFields)
    BY <1>2, <1>3, AckNowSnd
  <2> QED  BY <1>3, <1>v, <2>1 DEF Changes
<1>5. Agree(p, v, RestFields)
  BY <1>4, FieldsAre DEF Changes, Agree, PurgeFields, OutputFields, RestFields
<1>6. Rest(v, fb, fr, lim)
  BY <1>4, <1>5, RestKept
<1>7. /\ Both(q, rd, fb, fr, lim, d) /\ q.state = "CLOSED"
      /\ Agree(v, q, {"written", "closed", "taken", "eof", "reported", "unread", "out"})
  BY <1>1, <1>6, FreedBoth
<1>8. DOMAIN q = Fields /\ q.recv_data = <<>> /\ q.recv_flags = {} /\ q.refused = <<>>
  BY <1>1, FreedIs, FieldsAre DEF Changes, AppFields, Blank
<1>9. RemovePcb(p).failed = p.failed
  BY <1>1, <1>5, FreedIs DEF AppFields, Agree, RestFields
<1> QED  BY <1>5, <1>7, <1>8, <1>9 DEF Gone, Agree, RestFields

(* tcp_rst sends one segment without data and changes nothing else. *)
LEMMA ResetIs ==
  ASSUME NEW fb \in Int, NEW w \in Nat, NEW c \in BOOLEAN, NEW p, Snd(p, fb, w, c),
         NEW seq \in Int, NEW ack \in Int
  PROVE  Snd(Reset(p, seq, ack), fb, w, c) /\ Changes(p, Reset(p, seq, ack), {"out"})
<1>q. PICK q : q = Reset(p, seq, ack)
  OBVIOUS
<1>s. PICK s : s = [seq |-> seq, ack |-> ack, wnd |-> TCP_WND, fl |-> {"RST", "ACK"}, len |-> 0]
  OBVIOUS
<1>1. DOMAIN p = Fields
  BY DEF Snd
<1>2. s \in WSegs(fb, w, c)
  BY <1>s, WndAssumption DEF WSegs
<1>3. Append(p.out, s) \in Seq(WSegs(fb, w, c))
  BY <1>2, AppendOut
<1>4. /\ Changes(p, q, {"out"})
      /\ q.out = Append(p.out, s) \/ q.out = p.out
  BY <1>q, <1>s, <1>1, FieldsAre DEF Changes, Reset
<1>5. Snd(q, fb, w, c)
  BY <1>3, <1>4, FieldsAre DEF Changes, Snd
<1> QED  BY <1>q, <1>4, <1>5

(* So it keeps both sides sound. *)
LEMMA ResetBoth ==
  ASSUME NEW fb \in Int, NEW fr \in Int, NEW lim \in Int, NEW d \in BOOLEAN, NEW rd,
         NEW p, Both(p, rd, fb, fr, lim, d), NEW seq \in Int, NEW ack \in Int
  PROVE  Both(Reset(p, seq, ack), rd, fb, fr, lim, d) /\ Changes(p, Reset(p, seq, ack), {"out"})
<1>q. PICK q : q = Reset(p, seq, ack)
  OBVIOUS
<1>1. Snd(p, fb, p.written, p.closed) /\ p.written \in Nat /\ p.closed \in BOOLEAN
  BY BothSnd
<1>2. Snd(q, fb, p.written, p.closed) /\ Changes(p, q, {"out"})
  BY <1>q, <1>1, ResetIs
<1>3. {"out"} \cap LifeFields = {}
  BY DEF LifeFields
<1>4. Both(q, rd, fb, fr, lim, d)
  BY <1>2, <1>3, BothKept
<1> QED  BY <1>q, <1>2, <1>4

(* tcp_abort of a block that is not in TIME_WAIT. *)
LEMMA AbortBoth ==
  ASSUME NEW fb \in Int, NEW fr \in Int, NEW lim \in Int, NEW d \in BOOLEAN, NEW rd, rd = <<>>,
         NEW p, Rest(p, fb, fr, lim), p.state # "TIME_WAIT"
  PROVE  Both(Abort(p), rd, fb, fr, lim, d) /\ Gone(p, Abort(p), TRUE)
<1>a. PICK a : a = [RemovePcb(p) EXCEPT !.failed = TRUE]
  OBVIOUS
<1>b. PICK b : b = Abort(p)
  OBVIOUS
<1>1. b = Reset(a, p.snd_nxt, p.rcv_nxt) /\ p.snd_nxt \in Int /\ p.rcv_nxt \in Int
  BY <1>a, <1>b DEF Abort, Rest, Snd
<1>2. DOMAIN RemovePcb(p) = Fields
  BY FreedIs DEF RemovePcb
<1>3. Changes(RemovePcb(p), a, {"failed"}) /\ a.failed = TRUE
  BY <1>a, <1>2, FieldsAre DEF Changes
<1>4. a.failed \in BOOLEAN
  BY <1>3
<1>5. Both(a, rd, fb, fr, lim, d) /\ Gone(p, a, a.failed)
  BY <1>3, <1>4, RemovePcbBoth
<1>6. Both(b, rd, fb, fr, lim, d) /\ Changes(a, b, {"out"})
  BY <1>1, <1>5, ResetBoth
<1>7. Gone(p, b, TRUE)
  BY <1>3, <1>5, <1>6, FieldsAre DEF Gone, Agree, Changes
<1> QED  BY <1>b, <1>6, <1>7

-----------------------------------------------------------------------------
(* tcp_recved, and the data that is offered *)

RecvedFields == OutputFields \cup {"rcv_wnd", "rcv_ann_wnd", "unread"}

(* tcp_recved keeps both sides sound. *)
LEMMA RecvedBoth ==
  ASSUME NEW fb \in Int, NEW fr \in Int, NEW lim \in Int, NEW d \in BOOLEAN, NEW rd,
         NEW p, Both(p, rd, fb, fr, lim, d), NEW n \in Int
  PROVE  Both(Recved(p, n), rd, fb, fr, lim, d) /\ Changes(p, Recved(p, n), RecvedFields)
<1>k. PICK k : k = Credit(p, n)
  OBVIOUS
<1>q. PICK q : q = [k EXCEPT !.unread = @ - n]
  OBVIOUS
<1>r. PICK r : r = Recved(p, n)
  OBVIOUS
<1>1. r = AckNow(q) \/ r = q
  BY <1>k, <1>q, <1>r DEF Recved
<1>2. Snd(p, fb, p.written, p.closed) /\ p.written \in Nat /\ p.closed \in BOOLEAN
  BY BothSnd
<1>3. Snd(k, fb, p.written, p.closed) /\ Changes(p, k, {"rcv_wnd", "rcv_ann_wnd"})
  BY <1>k, <1>2, CreditIs
<1>4. Changes(k, q, {"unread"})
  BY <1>q, <1>3, FieldsAre DEF Changes
<1>5. Snd(q, fb, p.written, p.closed)
  BY <1>2, <1>3, <1>4, SndChanges DEF SndFields
<1>6. Changes(p, q, {"rcv_wnd", "rcv_ann_wnd", "unread"})
  BY <1>3, <1>4 DEF Changes
<1>7. {"rcv_wnd", "rcv_ann_wnd", "unread"} \cap LifeFields = {}
  BY DEF LifeFields
<1>8. Both(q, rd, fb, fr, lim, d)
  BY <1>5, <1>6, <1>7, BothKept
<1>9. Both(AckNow(q), rd, fb, fr, lim, d) /\ Changes(q, AckNow(q), OutputFields)
  BY <1>8, OutputBoth
<1> QED  BY <1>r, <1>1, <1>6, <1>8, <1>9 DEF Changes, RecvedFields

OfferFields == RecvedFields \cup {"refused", "taken"}

(* The data that is offered was refused before, or is new; z is the block with
   what it refused struck off. *)
Waiting(p, z, data, fb, fr, lim, d) ==
  /\ Both(z, data, fb, fr, lim, d) /\ z.refused = <<>>
  /\ z.state \notin {"CLOSED", "SYN_SENT"}
  /\ DOMAIN p = Fields /\ Changes(p, z, {"refused"})

Offered(p, q, data, answer) ==
  /\ Changes(p, q, OfferFields)
  /\ answer = "refuse" => q.taken = p.taken
  /\ answer # "refuse" => q.taken = p.taken \o data /\ q.refused = <<>>

(* The recv callback: what it takes is the next run of the peer's bytes,
   what it refuses waits in refused_data, and both sides stay sound. *)
LEMMA OfferBoth ==
  ASSUME NEW fb \in Int, NEW fr \in Int, NEW lim \in Int, NEW d \in BOOLEAN,
         NEW data, NEW z, NEW p, Waiting(p, z, data, fb, fr, lim, d), NEW rd, rd = <<>>,
         NEW answer \in {"consume", "take", "refuse"}
  PROVE  /\ Both(Offer(p, data, answer), rd, fb, fr, lim, d)
         /\ Offered(p, Offer(p, data, answer), data, answer)
<1> USE DEF Waiting, Offered
<1>q. PICK q : q = [p EXCEPT !.refused = <<>>, !.taken = @ \o data,
                             !.unread = @ + Len(data)]
  OBVIOUS
<1>r. PICK r : r = [p EXCEPT !.refused = data]
  OBVIOUS
<1>f. PICK f : f = Offer(p, data, answer)
  OBVIOUS
<1>1. /\ answer = "consume" => f = Recved(q, Len(data))
      /\ answer = "take" => f = q
      /\ answer = "refuse" => f = r
  BY <1>q, <1>r, <1>f DEF Offer
<1>2. Own(z, fb) /\ Their(z, data, fr, lim, d) /\ DOMAIN z = Fields
  BY DEF Both, Changes
<1>3. /\ Snd(z, fb, z.written, z.closed) /\ z.written \in Nat /\ z.closed \in BOOLEAN
  BY BothSnd
<1>4. /\ z.taken \in Seq(Int) /\ data \in Seq(Int)
      /\ IsRun(z.taken, fr) /\ IsRun(data, fr + Len(z.taken))
      /\ fr + Len(z.taken) + Len(data) <= lim /\ OoseqOK(z, lim, d)
  BY <1>2 DEF Their
<1>5. PICK then \in Int : then = fr + Len(z.taken)
  BY <1>4
<1>6. /\ z.taken \o data \in Seq(Int) /\ IsRun(z.taken \o data, fr)
      /\ Len(z.taken \o data) = Len(z.taken) + Len(data)
  BY <1>4, <1>5, RunConcat
<1>7. /\ Changes(p, q, {"refused", "taken", "unread"}) /\ Changes(z, q, {"refused", "taken", "unread"})
      /\ q.refused = <<>> /\ q.taken = z.taken \o data /\ p.taken = z.taken
  BY <1>2, <1>q, FieldsAre DEF Changes
<1>8. /\ Changes(p, r, {"refused"}) /\ Changes(z, r, {"refused"}) /\ r.refused = data
  BY <1>2, <1>r, FieldsAre DEF Changes
<1>9. Own(q, fb) /\ Own(r, fb)
  <2>1. Snd(q, fb, z.written, z.closed) /\ Snd(r, fb, z.written, z.closed)
    BY <1>3, <1>7, <1>8, SndChanges DEF SndFields
  <2>2. Agree(z, q, OwnFields) /\ Agree(z, r, OwnFields)
    BY <1>7, <1>8, FieldsAre DEF Changes, Agree, OwnFields
  <2> QED  BY <1>2, <2>1, <2>2, OwnKept
<1>10. /\ z.rcv_nxt \in fr..lim + 1 /\ (z.rcv_nxt = lim + 1 => d)
       /\ z.state # "TIME_WAIT" => fr + Len(z.taken) + Len(data) = Lesser(z.rcv_nxt, lim)
       /\ z.state \in Ended => z.rcv_nxt = lim + 1
       /\ z.eof \in BOOLEAN /\ z.failed = FALSE
       /\ z.eof => z.rcv_nxt = lim + 1
  <2>1. <<>> \in Seq(Int) /\ Len(<<>>) = 0
    BY EmptySeq
  <2>2. Len(z.taken) \in Nat /\ Len(data) \in Nat
    BY <1>4
  <2>3. z.state # "TIME_WAIT"
           => fr + Len(z.taken) + Len(z.refused) + Len(data) = Lesser(z.rcv_nxt, lim)
    BY <1>2 DEF Their
  <2> QED  BY <1>2, <2>1, <2>2, <2>3 DEF Their
<1>11. <<>> \in Seq(Int) /\ Len(<<>>) = 0 /\ \A from : IsRun(<<>>, from)
  BY RunEmpty
<1>12. Their(q, rd, fr, lim, d)
  <2>1. /\ q.state = z.state /\ q.rcv_nxt = z.rcv_nxt /\ q.ooseq = z.ooseq /\ q.eof = z.eof
        /\ q.failed = z.failed
    BY <1>7, FieldsAre DEF Changes
  <2>2. OoseqOK(q, lim, d)
    BY <1>4, <2>1 DEF OoseqOK
  <2>3. Len(z.taken) \in Nat /\ Len(data) \in Nat
    BY <1>4
  <2>4. PICK t : t = z.taken \o data
    OBVIOUS
  <2>5. /\ q.taken = t /\ t \in Seq(Int) /\ IsRun(t, fr) /\ Len(t) = Len(z.taken) + Len(data)
    BY <1>6, <1>7, <2>4
  <2>6. fr + Len(q.taken) <= lim /\ Len(q.taken) \in Nat
    BY <1>4, <2>3, <2>5
  <2>7. z.state # "TIME_WAIT" => fr + Len(q.taken) + 0 + 0 = Lesser(z.rcv_nxt, lim)
    BY <1>10, <2>3, <2>5
  <2>8. fr + Len(q.taken) + 0 <= lim
    BY <2>6
  <2> HIDE <1>6, <1>4
  <2> QED  BY <1>7, <1>10, <1>11, <2>1, <2>2, <2>5, <2>6, <2>7, <2>8 DEF Their
<1>13. Their(r, rd, fr, lim, d)
  <2>1. /\ r.state = z.state /\ r.rcv_nxt = z.rcv_nxt /\ r.ooseq = z.ooseq /\ r.eof = z.eof
        /\ r.failed = z.failed /\ r.taken = z.taken
    BY <1>8, FieldsAre DEF Changes
  <2>2. OoseqOK(r, lim, d)
    BY <1>4, <2>1 DEF OoseqOK
  <2>3. Len(z.taken) \in Nat /\ Len(data) \in Nat
    BY <1>4
  <2>4. /\ fr + Len(r.taken) <= lim /\ fr + Len(r.taken) + 0 <= lim
        /\ z.state # "TIME_WAIT" => fr + Len(r.taken) + Len(r.refused) + 0 = Lesser(z.rcv_nxt, lim)
    BY <1>4, <1>8, <1>10, <2>1, <2>3
  <2> QED  BY <1>4, <1>8, <1>10, <1>11, <2>1, <2>2, <2>4 DEF Their
<1>14. Both(q, rd, fb, fr, lim, d) /\ Both(r, rd, fb, fr, lim, d)
  BY <1>9, <1>12, <1>13 DEF Both
<1>15. PICK n \in Int : n = Len(data)
  BY <1>4
<1>16. PICK x : x = Recved(q, n)
  OBVIOUS
<1>17. Both(x, rd, fb, fr, lim, d) /\ Changes(q, x, RecvedFields)
  BY <1>14, <1>16, RecvedBoth
<1>18. /\ Changes(p, x, OfferFields) /\ Changes(p, q, OfferFields) /\ Changes(p, r, OfferFields)
       /\ x.taken = q.taken /\ x.refused = q.refused /\ r.taken = p.taken
  BY <1>7, <1>8, <1>17, FieldsAre DEF Changes, OfferFields, RecvedFields, OutputFields
<1> QED  BY <1>f, <1>1, <1>7, <1>14, <1>15, <1>16, <1>17, <1>18

-----------------------------------------------------------------------------
(* tcp_close and tcp_write *)

CloseFields == {"state", "closed"} \cup EnqueueFields \cup OutputFields

(* What tcp_close does to the application's view. *)
Closes(p, q) ==
  /\ Agree(p, q, {"taken", "eof", "written", "failed"})
  /\ q.closed = p.closed \/ q.closed = TRUE
  /\ q.state = "CLOSED" \/ (q.refused = p.refused /\ q.rcv_nxt = p.rcv_nxt)
  /\ p.state # "SYN_SENT" => Changes(p, q, CloseFields)
  /\ q.state = "CLOSED" => p.state = "SYN_SENT" \/ p.state = "CLOSED"

(* tcp_close keeps both sides sound: the FIN it queues is behind the last
   byte written, or the block is freed. *)
LEMMA CloseBoth ==
  ASSUME NEW fb \in Int, NEW fr \in Int, NEW lim \in Int, NEW d \in BOOLEAN,
         NEW rd, rd = <<>>, NEW p, Both(p, rd, fb, fr, lim, d)
  PROVE  Both(Close(p), rd, fb, fr, lim, d) /\ Closes(p, Close(p))
<1>z. PICK z : z = Close(p)
  OBVIOUS
<1>1. Snd(p, fb, p.written, p.closed) /\ p.written \in Nat /\ p.closed \in BOOLEAN
      /\ DOMAIN p = Fields
  BY BothSnd
<1>2. CASE p.state = "SYN_SENT"
  <2>1. z = RemovePcb(p)
    BY <1>z, <1>2 DEF Close
  <2>2. DOMAIN z = Fields
    BY <2>1, FreedIs DEF RemovePcb
  <2>3. Changes(RemovePcb(p), z, {"failed"})
    BY <2>1, <2>2, ChangesNone
  <2>4. Rest(p, fb, fr, lim)
    BY BothRest
  <2>5. RemovePcb(p).failed = p.failed /\ p.failed \in BOOLEAN
    <3>1. RemovePcb(p).failed = p.failed
      <4>1. PICK k : k = [RemovePcb(p) EXCEPT !.failed = FALSE]
        OBVIOUS
      <4>2. Changes(RemovePcb(p), k, {"failed"}) /\ k.failed \in BOOLEAN
        BY <2>1, <2>2, <4>1, FieldsAre DEF Changes
      <4> QED  BY <2>4, <4>2, RemovePcbBoth
    <3> QED  BY <3>1 DEF Both, Their
  <2>6. Both(z, rd, fb, fr, lim, d) /\ Gone(p, z, z.failed) /\ z.failed = p.failed
    BY <2>1, <2>3, <2>4, <2>5, RemovePcbBoth
  <2>7. Closes(p, z)
    BY <1>2, <2>6 DEF Closes, Gone, Agree
  <2> QED  BY <1>z, <2>6, <2>7
<1>3. CASE p.state \in {"SYN_RCVD", "ESTABLISHED", "CLOSE_WAIT"}
  <2>k. PICK k : k = Enqueue(p, 0, {"FIN"}, TRUE)
    OBVIOUS
  <2>c. p.closed = FALSE /\ p.snd_lbb = fb + p.written
    BY <1>1, <1>3 DEF Both, Own, Opening, Snd
  <2>1. CASE ~Accepts(p, 0, {"FIN"}, TRUE)
    <3>1. z = k
      BY <1>z, <1>3, <2>k, <2>1 DEF Close
    <3>2. Changes(p, z, {"flags"})
      BY <1>1, <2>k, <2>1, <3>1, EnqueueChanges
    <3>3. Snd(z, fb, p.written, p.closed)
      BY <1>1, <3>2, SndChanges DEF SndFields
    <3>4. {"flags"} \cap LifeFields = {}
      BY DEF LifeFields
    <3>5. Both(z, rd, fb, fr, lim, d)
      BY <3>2, <3>3, <3>4, BothKept
    <3>6. Closes(p, z)
      BY <1>3, <3>2, FieldsAre DEF Closes, Agree, Changes, CloseFields, EnqueueFields
    <3> QED  BY <1>z, <3>5, <3>6
  <2>2. CASE Accepts(p, 0, {"FIN"}, TRUE)
    <3>m. PICK m : m = [k EXCEPT !.state = ClosingState(@), !.closed = TRUE]
      OBVIOUS
    <3>1. z = Output(m)
      BY <1>z, <1>3, <2>k, <2>2, <3>m DEF Close
    <3>t. PICK c2 \in BOOLEAN : c2 = TRUE
      OBVIOUS
    <3>2. Snd(k, fb, p.written, c2) /\ k.snd_lbb = fb + p.written + 1
      <4>1. PICK w \in Nat, c \in BOOLEAN : w = p.written /\ c = p.closed
        BY <1>1
      <4>2. Snd(p, fb, w, c) /\ c = FALSE /\ p.snd_lbb = fb + w
        BY <1>1, <2>c, <4>1
      <4>3. /\ Snd(Enqueue(p, 0, {"FIN"}, TRUE), fb, w, c2)
            /\ Enqueue(p, 0, {"FIN"}, TRUE).snd_lbb = fb + w + 1
        BY <2>2, <3>t, <4>2, EnqueueFin
      <4> QED  BY <2>k, <4>1, <4>3
    <3>3. Changes(p, k, EnqueueFields)
      BY <1>1, <2>k, EnqueueChanges
    <3>4. /\ Changes(k, m, {"state", "closed"}) /\ m.closed = TRUE
          /\ m.state = ClosingState(p.state)
      BY <3>m, <3>3, FieldsAre DEF Changes, EnqueueFields
    <3>5. Snd(m, fb, p.written, c2)
      BY <3>2, <3>4, SndChanges DEF SndFields
    <3>6. /\ m.written = p.written /\ m.snd_lbb = fb + p.written + 1
          /\ m.taken = p.taken /\ m.refused = p.refused /\ m.rcv_nxt = p.rcv_nxt
          /\ m.ooseq = p.ooseq /\ m.eof = p.eof /\ m.failed = p.failed
      BY <3>2, <3>3, <3>4, FieldsAre DEF Changes, EnqueueFields
    <3>7. Own(m, fb)
      BY <1>1, <1>3, <3>t, <3>4, <3>5, <3>6 DEF Own, ClosingState, Opening, Closing
    <3>8. OoseqOK(m, lim, d)
      BY <3>6 DEF OoseqOK, Both, Their
    <3>9. Their(m, rd, fr, lim, d)
      BY <1>3, <3>4, <3>6, <3>8 DEF Their, Both, ClosingState, Ended
    <3>10. Both(m, rd, fb, fr, lim, d)
      BY <3>7, <3>9 DEF Both
    <3>11. Both(z, rd, fb, fr, lim, d) /\ Changes(m, z, OutputFields)
      BY <3>1, <3>10, OutputBoth, SMTT(30)
    <3>12. Changes(p, z, CloseFields)
      BY <3>3, <3>4, <3>11 DEF Changes, CloseFields
    <3>13. Agree(p, z, {"taken", "eof", "written", "failed"}) /\ z.closed = TRUE
           /\ z.refused = p.refused /\ z.rcv_nxt = p.rcv_nxt /\ z.state = m.state
      BY <3>4, <3>6, <3>11, FieldsAre DEF Changes, Agree, OutputFields
    <3>14. z.state # "CLOSED"
      BY <1>3, <3>4, <3>13 DEF ClosingState
    <3>15. Closes(p, z)
      BY <3>12, <3>13, <3>14 DEF Closes
    <3> QED  BY <1>z, <3>11, <3>15
  <2> QED  BY <2>1, <2>2
<1>4. CASE p.state \notin {"SYN_SENT", "SYN_RCVD", "ESTABLISHED", "CLOSE_WAIT"}
  <2>1. z = p
    BY <1>z, <1>4 DEF Close
  <2>2. Changes(p, p, CloseFields)
    BY <1>1, ChangesNone
  <2> QED  BY <1>4, <1>z, <2>1, <2>2 DEF Closes, Agree
<1> QED  BY <1>2, <1>3, <1>4, <1>z

WriteFields == EnqueueFields \cup {"written"}

(* What tcp_write does to the application's view. *)
Wrote(p, q, n) ==
  /\ Changes(p, q, WriteFields)
  /\ \/ q.written = p.written
     \/ q.written = p.written + n /\ p.closed = FALSE /\ p.failed = FALSE

(* tcp_write keeps both sides sound: it counts n bytes as written exactly
   when it queues them. *)
LEMMA WriteBoth ==
  ASSUME NEW fb \in Int, NEW fr \in Int, NEW lim \in Int, NEW d \in BOOLEAN,
         NEW rd, NEW p, Both(p, rd, fb, fr, lim, d), NEW n \in Nat \ {0}, NEW copy,
         NEW z, z = Write(p, n, copy)
  PROVE  Both(z, rd, fb, fr, lim, d) /\ Wrote(p, z, n)
<1> USE DEF Wrote
<1>k. PICK k : k = Enqueue(p, n, {}, copy)
  OBVIOUS
<1>z. z = Write(p, n, copy)
  OBVIOUS
<1>1. Snd(p, fb, p.written, p.closed) /\ p.written \in Nat /\ p.closed \in BOOLEAN
      /\ DOMAIN p = Fields
  BY BothSnd
<1>2. CASE z = p
  <2>1. Changes(p, p, WriteFields)
    BY <1>1, ChangesNone
  <2> QED  BY <1>z, <1>2, <2>1
<1>3. CASE z = k /\ ~Accepts(p, n, {}, copy)
  <2>1. Changes(p, k, {"flags"})
    BY <1>1, <1>k, <1>3, EnqueueChanges
  <2>2. Snd(k, fb, p.written, p.closed)
    BY <1>1, <2>1, SndChanges DEF SndFields
  <2>3. {"flags"} \cap LifeFields = {}
    BY DEF LifeFields
  <2>4. Both(k, rd, fb, fr, lim, d)
    BY <2>1, <2>2, <2>3, BothKept
  <2>5. Changes(p, k, WriteFields) /\ k.written = p.written
    BY <2>1, FieldsAre DEF Changes, WriteFields, EnqueueFields
  <2> QED  BY <1>z, <1>3, <2>4, <2>5
<1>4. CASE /\ z = [k EXCEPT !.written = @ + n] /\ Accepts(p, n, {}, copy)
           /\ p.state \in {"ESTABLISHED", "CLOSE_WAIT", "SYN_SENT", "SYN_RCVD"}
  <2>1. PICK w \in Nat, c \in BOOLEAN : w = p.written /\ c = p.closed
    BY <1>1
  <2>2. Snd(p, fb, w, c) /\ c = FALSE /\ p.snd_lbb = fb + w
    BY <1>1, <1>4, <2>1 DEF Both, Own, Opening
  <2>w. PICK w2 \in Nat : w2 = w + n
    OBVIOUS
  <2>3. Snd(k, fb, w2, c) /\ k.snd_lbb = fb + w2
    <3>1. PICK fl : fl = {}
      OBVIOUS
    <3>2. Accepts(p, n, fl, copy) /\ k = Enqueue(p, n, fl, copy)
      BY <1>4, <1>k, <3>1
    <3>3. Longer(p, fb, w, c) /\ c = FALSE
      BY <2>2 DEF Longer
    <3>4. Longer(Enqueue(p, n, fl, copy), fb, w2, c)
      BY <2>w, <3>1, <3>2, <3>3, EnqueueData
    <3> QED  BY <3>2, <3>4 DEF Longer
  <2>4. Changes(p, k, EnqueueFields)
    BY <1>1, <1>k, EnqueueChanges
  <2>5. /\ Changes(k, z, {"written"}) /\ z.written = w2 /\ z.closed = c
        /\ z.snd_lbb = fb + w2
    BY <1>k, <1>4, <2>1, <2>3, <2>4, <2>w, FieldsAre DEF Changes, EnqueueFields
  <2>6. Snd(k, fb, w2, c)
    BY <2>3
  <2>7. Snd(z, fb, w2, c)
    BY <2>5, <2>6, SndChanges DEF SndFields
  <2>8. /\ z.state = p.state /\ z.rcv_nxt = p.rcv_nxt /\ z.taken = p.taken
        /\ z.refused = p.refused /\ z.ooseq = p.ooseq /\ z.eof = p.eof
        /\ z.failed = p.failed
    BY <2>4, <2>5, FieldsAre DEF Changes, EnqueueFields
  <2>9. Own(z, fb)
    BY <1>4, <2>2, <2>5, <2>7, <2>8 DEF Own, Opening, Closing
  <2>10. Their(z, rd, fr, lim, d)
    <3>1. Agree(p, z, TheirFields)
      BY <2>8 DEF Agree, TheirFields
    <3> QED  BY <3>1, TheirKept DEF Both
  <2>11. Changes(p, z, WriteFields)
    BY <2>4, <2>5 DEF Changes, WriteFields
  <2>12. p.failed = FALSE
    BY <1>4 DEF Both, Their
  <2> QED  BY <1>z, <2>1, <2>2, <2>5, <2>w, <2>9, <2>10, <2>11, <2>12 DEF Both
<1> QED  BY <1>k, <1>z, <1>2, <1>3, <1>4 DEF Write

-----------------------------------------------------------------------------
(* tcp_process *)

(* A block when tcp_process is called. *)
Ready(p, fb, fr, lim, d) ==
  /\ Both(p, <<>>, fb, fr, lim, d)
  /\ p.busy = TRUE /\ p.recv_data = <<>> /\ p.recv_flags = {} /\ p.refused = <<>>
  /\ p.state \notin {"CLOSED", "TIME_WAIT"}

(* The block p when tcp_process returns. *)
Processed(p, q, fb, fr, lim, d) ==
  /\ Both(q, q.recv_data, fb, fr, lim, d)
  /\ Agree(p, q, {"written", "closed", "taken", "eof", "refused"})
  /\ q.state = "CLOSED" => Gone(p, q, TRUE)
  /\ q.state # "CLOSED" => q.failed = p.failed
  /\ GotFin(q) => q.state \notin {"CLOSED", "SYN_SENT"} /\ q.rcv_nxt = lim + 1 /\ p.eof = FALSE
  /\ q.state \in {"CLOSED", "SYN_SENT"} => q.recv_data = <<>>
  /\ q.state \notin {"CLOSED", "SYN_SENT"} =>
       fr + Len(q.taken) + Len(q.recv_data) = Lesser(q.rcv_nxt, lim)

(* Received data in a state after the handshake. *)
Taken(p, q, fb, fr, lim, d) ==
  /\ Processed(p, q, fb, fr, lim, d)
  /\ Moved(p, q, lim)
  /\ Changes(p, q, DataFields \cup AckFields)
  /\ q.recv_flags \subseteq {"TF_GOT_FIN"}

(* tcp_receive of a segment of the peer in a synchronized state: the sender
   stays sound and what was taken is the run up to rcv_nxt. *)
LEMMA ReceiveBoth ==
  ASSUME NEW fb \in Int, NEW fr \in Int, NEW n \in Nat, NEW lim \in Int, lim = fr + n,
         NEW d \in BOOLEAN, NEW p, Ready(p, fb, fr, lim, d), p.state # "SYN_SENT",
         NEW s \in WSegs(fr, n, d), "RST" \notin s.fl
  PROVE  Taken(p, Receive(p, s), fb, fr, lim, d)
<1>u. PICK u : u = ReceiveAck(p, s)
  OBVIOUS
<1>q. PICK q : q = Receive(p, s)
  OBVIOUS
<1>w. PICK w \in Nat, c \in BOOLEAN : w = p.written /\ c = p.closed
  BY DEF Ready, Both, Own
<1>r. PICK start \in Int : start = p.rcv_nxt
  BY DEF Ready, Both, Own, Snd
<1>e. PICK none : none = <<>>
  OBVIOUS
<1>1. /\ Own(p, fb) /\ Their(p, none, fr, lim, d) /\ Snd(p, fb, w, c) /\ DOMAIN p = Fields
      /\ p.busy = TRUE /\ p.recv_data = <<>> /\ p.recv_flags = {} /\ p.refused = <<>>
      /\ p.state \notin {"CLOSED", "TIME_WAIT", "SYN_SENT"}
  BY <1>w, <1>e DEF Ready, Both, Own, Snd
<1>2. Snd(u, fb, w, c) /\ Changes(p, u, AckFields)
  <2>1. s.ack \in Int
    BY DEF WSegs
  <2> QED  BY <1>1, <1>u, <2>1, ReceiveAckSnd
<1>3. /\ u.rcv_nxt = start /\ u.recv_data = <<>> /\ u.recv_flags = {} /\ u.ooseq = p.ooseq
      /\ u.busy = TRUE /\ u.state = p.state
  BY <1>1, <1>2, <1>r, FieldsAre DEF Changes, AckFields
<1>4. /\ start \in fr..lim + 1 /\ (start = lim + 1 => d) /\ start >= fr
      /\ fr + Len(p.taken) = Lesser(start, lim) /\ fr + Len(p.taken) <= lim
      /\ p.taken \in Seq(Int) /\ IsRun(p.taken, fr)
      /\ OoseqOK(p, lim, d) /\ p.eof \in BOOLEAN /\ p.failed = FALSE
      /\ p.state \in Ended => start = lim + 1
      /\ p.eof => start = lim + 1
  <2>1. Len(<<>>) = 0
    BY EmptySeq
  <2>2. fr + Len(p.taken) + Len(p.refused) + Len(none) = Lesser(p.rcv_nxt, lim)
    BY <1>1 DEF Their
  <2>3. p.taken \in Seq(Int) /\ Len(p.taken) \in Nat
    BY <1>1 DEF Their
  <2> QED  BY <1>1, <1>e, <1>r, <2>1, <2>2, <2>3 DEF Their
<1>5. Got(u, start, lim, d)
  <2>1. <<>> \in Seq(Int) /\ IsRun(<<>>, start) /\ Len(<<>>) = 0
    BY RunEmpty
  <2>2. Lesser(start, lim) - Lesser(start, lim) = 0
    BY LesserIs
  <2> QED  BY <1>3, <1>4, <2>1, <2>2 DEF Got, GotFin
<1>6. OoseqOK(u, lim, d)
  BY <1>3, <1>4, <1>r DEF OoseqOK
<1>7. DataStep(u, q, fb, w, c, start, lim, d)
  <2>1. q = ReceiveData(u, s)
    BY <1>u, <1>q DEF Receive
  <2>2. DataStep(u, ReceiveData(u, s), fb, w, c, start, lim, d)
    <3>1. Incoming(u, s, fb, w, c, fr, start, lim, d)
      <4>1. lim - fr = n
        OBVIOUS
      <4> QED  BY <1>2, <1>3, <1>4, <1>5, <1>6, <4>1 DEF Incoming
    <3>2. lim >= fr
      OBVIOUS
    <3> QED  BY <3>1, <3>2, ReceiveDataStep
  <2> QED  BY <2>1, <2>2
<1>8. /\ Snd(q, fb, w, c) /\ Changes(u, q, DataFields)
      /\ Got(q, start, lim, d) /\ Moved(u, q, lim) /\ OoseqOK(q, lim, d)
  BY <1>7 DEF DataStep
<1>9. Changes(p, q, DataFields \cup AckFields)
  BY <1>2, <1>8 DEF Changes
<1>10. /\ q.taken = p.taken /\ q.refused = <<>> /\ q.eof = p.eof /\ q.failed = FALSE
       /\ q.written = w /\ q.closed = c /\ q.snd_lbb = p.snd_lbb
  BY <1>1, <1>4, <1>9, <1>w, FieldsAre DEF Changes, DataFields, AckFields, QueuedFields, TakeFields,
     ConsumeFields
<1>11. Moved(p, q, lim)
  BY <1>3, <1>8 DEF Moved
<1>12. /\ q.state \notin {"CLOSED", "TIME_WAIT", "SYN_SENT"}
       /\ p.state \in Opening <=> q.state \in Opening
       /\ p.state \in Closing <=> q.state \in Closing
       /\ q.state \in Ended => q.state = p.state \/ q.rcv_nxt = lim + 1
  BY <1>1, <1>11 DEF Moved, Opening, Closing, Own
<1>13. Own(q, fb)
  BY <1>1, <1>8, <1>10, <1>12, <1>w DEF Own
<1>14. /\ q.rcv_nxt \in start..lim + 1 /\ (q.rcv_nxt = lim + 1 => d)
       /\ q.recv_data \in Seq(Int) /\ IsRun(q.recv_data, start)
       /\ Len(q.recv_data) = Lesser(q.rcv_nxt, lim) - Lesser(start, lim)
       /\ q.recv_flags \subseteq {"TF_GOT_FIN"}
       /\ GotFin(q) <=> start <= lim /\ q.rcv_nxt = lim + 1
  BY <1>8 DEF Got
<1>15. fr + Len(p.taken) + Len(q.recv_data) = Lesser(q.rcv_nxt, lim)
       /\ fr + Len(p.taken) + Len(q.recv_data) <= lim
       /\ Len(p.taken) \in Nat
  <2>1. Len(p.taken) \in Nat /\ Len(q.recv_data) \in Nat
    BY <1>4, <1>14
  <2>2. Lesser(q.rcv_nxt, lim) \in Int /\ Lesser(q.rcv_nxt, lim) <= lim /\ Lesser(start, lim) \in Int
    BY <1>14, LesserIs
  <2> QED  BY <1>4, <1>14, <2>1, <2>2
<1>16. IsRun(q.recv_data, fr + Len(p.taken))
  <2>1. CASE start <= lim
    <3>1. start = fr + Len(p.taken)
      BY <1>4, <2>1, LesserIs
    <3> QED  BY <1>14, <3>1
  <2>2. CASE start = lim + 1
    <3>1. q.rcv_nxt = lim + 1
      BY <1>14, <2>2
    <3>2. Len(q.recv_data) = 0
      <4>1. Lesser(q.rcv_nxt, lim) = Lesser(start, lim) /\ Lesser(start, lim) \in Int
        BY <2>2, <3>1, LesserIs
      <4> QED  BY <1>14, <4>1
    <3> QED  BY <3>2 DEF IsRun
  <2> QED  BY <1>4, <2>1, <2>2
<1>17. Their(q, q.recv_data, fr, lim, d)
  <2>1. q.state \in Ended => q.rcv_nxt = lim + 1
    BY <1>4, <1>12, <1>14
  <2>2. q.eof => q.rcv_nxt = lim + 1
    BY <1>4, <1>10, <1>14
  <2>3. q.rcv_nxt \in fr..lim + 1
    BY <1>4, <1>14
  <2>4. fr + Len(q.taken) + Len(q.refused) + Len(q.recv_data) = Lesser(q.rcv_nxt, lim)
    <3>1. Len(<<>>) = 0
      BY EmptySeq
    <3> QED  BY <1>10, <1>15, <3>1
  <2>5. <<>> \in Seq(Int) /\ \A from : IsRun(<<>>, from)
    BY RunEmpty
  <2>6. IsRun(q.refused, fr + Len(q.taken)) /\ q.refused \in Seq(Int)
    BY <1>10, <2>5
  <2> QED  BY <1>4, <1>8, <1>10, <1>12, <1>14, <1>15, <1>16, <2>1, <2>2, <2>3, <2>4, <2>6 DEF Their
<1>18. Both(q, q.recv_data, fb, fr, lim, d)
  BY <1>13, <1>17 DEF Both
<1>19. GotFin(q) => q.rcv_nxt = lim + 1 /\ p.eof = FALSE
  BY <1>4, <1>14
<1>20. Agree(p, q, {"written", "closed", "taken", "eof", "refused"}) /\ q.failed = p.failed
  BY <1>1, <1>4, <1>10, <1>w DEF Agree
<1>21. Processed(p, q, fb, fr, lim, d)
  <2>1. fr + Len(q.taken) + Len(q.recv_data) = Lesser(q.rcv_nxt, lim)
    BY <1>10, <1>15
  <2> QED  BY <1>12, <1>18, <1>19, <1>20, <2>1 DEF Processed
<1> QED  BY <1>q, <1>9, <1>11, <1>14, <1>21 DEF Taken

(* The block q moves to another state, its queues freed or not. *)
MoveFields == {"state", "recv_flags", "acked", "cwnd"} \cup PurgeFields \cup OutputFields

(* After tcp_receive, a move to another state that keeps what the
   application is still to be offered. *)
LEMMA MoveTo ==
  ASSUME NEW fb \in Int, NEW fr \in Int, NEW lim \in Int, NEW d \in BOOLEAN,
         NEW p, NEW q, Processed(p, q, fb, fr, lim, d), q.refused = <<>>,
         q.state \notin {"CLOSED", "SYN_SENT"},
         NEW z, Changes(q, z, MoveFields), Snd(z, fb, q.written, q.closed),
         z.refused = <<>>, z.ooseq = q.ooseq \/ z.ooseq = <<>>, GotFin(z) <=> GotFin(q),
         z.state \in (Opening \cup Closing) \ {"SYN_SENT"},
         q.state \in Opening <=> z.state \in Opening,
         z.state \in Ended => q.rcv_nxt = lim + 1
  PROVE  Processed(p, z, fb, fr, lim, d)
<1>1. /\ Own(q, fb) /\ Their(q, q.recv_data, fr, lim, d)
      /\ Agree(p, q, {"written", "closed", "taken", "eof", "refused"})
      /\ q.failed = p.failed
      /\ GotFin(q) => q.rcv_nxt = lim + 1 /\ p.eof = FALSE
      /\ fr + Len(q.taken) + Len(q.recv_data) = Lesser(q.rcv_nxt, lim)
  BY DEF Processed, Both
<1>2. /\ z.written = q.written /\ z.closed = q.closed /\ z.taken = q.taken /\ z.eof = q.eof
      /\ z.failed = q.failed /\ z.rcv_nxt = q.rcv_nxt /\ z.recv_data = q.recv_data
      /\ z.snd_lbb = q.snd_lbb
  BY FieldsAre DEF Changes, MoveFields, PurgeFields, OutputFields
<1>3. Own(z, fb)
  BY <1>1, <1>2 DEF Own, Opening, Closing
<1>4. OoseqOK(z, lim, d)
  <2>1. OoseqOK(q, lim, d)
    BY <1>1 DEF Their
  <2> QED  BY <1>2, <2>1, OrderedEmpty DEF OoseqOK
<1>5. Their(z, z.recv_data, fr, lim, d)
  <2>1. z.state \notin {"CLOSED", "SYN_SENT"}
    BY DEF Opening, Closing
  <2>2. <<>> \in Seq(Int) /\ \A from : IsRun(<<>>, from)
    BY RunEmpty
  <2>3. Len(q.taken) \in Nat /\ Len(q.recv_data) \in Nat /\ Len(<<>>) = 0
    BY <1>1, EmptySeq DEF Their
  <2>4. fr + Len(q.taken) + 0 + Len(q.recv_data) = Lesser(q.rcv_nxt, lim)
    <3>1. fr + Len(q.taken) + Len(q.recv_data) = Lesser(q.rcv_nxt, lim)
      BY <1>1
    <3>2. PICK x \in Nat, y \in Nat : x = Len(q.taken) /\ y = Len(q.recv_data)
      BY <2>3
    <3>3. fr + x + 0 + y = fr + x + y
      OBVIOUS
    <3> QED  BY <3>1, <3>2, <3>3
  <2>5. q.failed = FALSE
    BY <1>1 DEF Their
  <2>6. /\ q.rcv_nxt \in fr..lim + 1 /\ (q.rcv_nxt = lim + 1 => d)
        /\ IsRun(q.recv_data, fr + Len(q.taken))
        /\ fr + Len(q.taken) + Len(q.recv_data) <= lim
        /\ q.taken \in Seq(Int) /\ q.recv_data \in Seq(Int)
        /\ IsRun(q.taken, fr) /\ fr + Len(q.taken) <= lim
        /\ q.eof \in BOOLEAN /\ (q.eof => q.rcv_nxt = lim + 1)
    BY <1>1 DEF Their
  <2> QED  BY <1>2, <1>4, <2>1, <2>2, <2>3, <2>4, <2>5, <2>6 DEF Their
<1>6. Both(z, z.recv_data, fb, fr, lim, d)
  BY <1>3, <1>5 DEF Both
<1>7. z.state \notin {"CLOSED", "SYN_SENT"}
  BY DEF Opening, Closing
<1> QED  BY <1>1, <1>2, <1>6, <1>7 DEF Processed, Agree

(* Entering TIME_WAIT purges the block and keeps the sender sound. *)
LEMMA TimeWaitSnd ==
  ASSUME NEW fb \in Int, NEW w \in Nat, NEW c \in BOOLEAN, NEW p, Snd(p, fb, w, c),
         p.state \notin {"CLOSED", "TIME_WAIT"}
  PROVE  /\ Snd(TimeWait(p), fb, w, c)
         /\ Changes(p, TimeWait(p), PurgeFields \cup {"state"})
         /\ TimeWait(p).state = "TIME_WAIT"
         /\ TimeWait(p).refused = <<>> /\ TimeWait(p).ooseq = <<>>
<1>u. PICK u : u = Purge(p)
  OBVIOUS
<1>z. PICK z : z = TimeWait(p)
  OBVIOUS
<1>1. /\ Snd(u, fb, w, c) /\ Changes(p, u, PurgeFields) /\ u.refused = <<>> /\ u.ooseq = <<>>
  BY <1>u, PurgeIs
<1>2. Changes(u, z, {"state"}) /\ z.state = "TIME_WAIT"
  BY <1>u, <1>z, <1>1, FieldsAre DEF Changes, TimeWait
<1>3. Snd(z, fb, w, c)
  BY <1>1, <1>2, SndChanges DEF SndFields
<1>4. Changes(p, z, PurgeFields \cup {"state"}) /\ z.refused = <<>> /\ z.ooseq = <<>>
  BY <1>1, <1>2, FieldsAre DEF Changes
<1> QED  BY <1>z, <1>2, <1>3, <1>4

(* The states tcp_process moves to on a FIN of the peer or an ACK of the own
   FIN. *)
LEMMA FinStatesBoth ==
  ASSUME NEW fb \in Int, NEW fr \in Int, NEW lim \in Int, NEW d \in BOOLEAN,
         NEW p, Ready(p, fb, fr, lim, d), p.state \in Synchronized,
         NEW q, Taken(p, q, fb, fr, lim, d), NEW s
  PROVE  Processed(p, FinStates(q, s), fb, fr, lim, d)
<1>a. PICK a : a = AckNow(q)
  OBVIOUS
<1>z. PICK z : z = FinStates(q, s)
  OBVIOUS
<1>1. /\ Processed(p, q, fb, fr, lim, d) /\ Moved(p, q, lim)
      /\ q.state \in Synchronized /\ q.refused = <<>>
  BY DEF Taken, Moved, Synchronized, Processed, Agree, Ready
<1>2. PICK w \in Nat, c \in BOOLEAN : w = q.written /\ c = q.closed
  BY <1>1 DEF Processed, Both, Own
<1>3. Snd(q, fb, w, c) /\ q.busy = TRUE /\ DOMAIN q = Fields
  <2>1. q.busy = p.busy
    BY FieldsAre DEF Taken, Changes, DataFields, AckFields, QueuedFields, TakeFields,
       ConsumeFields
  <2> QED  BY <1>1, <1>2, <2>1 DEF Processed, Both, Own, Snd, Ready
<1>4. /\ Snd(a, fb, w, c) /\ Changes(q, a, {"flags"})
  BY <1>3, <1>a, AckNowSnd
<1>5. /\ a.state = q.state /\ a.refused = <<>> /\ a.ooseq = q.ooseq
      /\ a.recv_flags = q.recv_flags
  BY <1>1, <1>4, FieldsAre DEF Changes
<1>6. GotFin(q) => q.rcv_nxt = lim + 1
  BY <1>1 DEF Processed
<1>7. ASSUME NEW state, GotFin(q), state \in {"CLOSE_WAIT", "CLOSING"},
             q.state \in Opening <=> state \in Opening,
             NEW b, b = [a EXCEPT !.state = state]
      PROVE  Processed(p, b, fb, fr, lim, d)
  <2>1. Changes(a, b, {"state"}) /\ b.state = state
    BY <1>4, <1>7, FieldsAre DEF Changes
  <2>2. Snd(b, fb, w, c)
    BY <1>4, <2>1, SndChanges DEF SndFields
  <2>3. /\ Changes(q, b, MoveFields) /\ b.refused = <<>> /\ b.ooseq = q.ooseq
        /\ GotFin(b) <=> GotFin(q)
    BY <1>4, <1>5, <2>1, FieldsAre DEF Changes, MoveFields, OutputFields, GotFin
  <2>4. b.state \in (Opening \cup Closing) \ {"SYN_SENT"} /\ (q.state \in Opening <=> b.state \in Opening)
    BY <1>7, <2>1 DEF Opening, Closing
  <2>5. q.state \notin {"CLOSED", "SYN_SENT"}
    BY <1>1 DEF Synchronized
  <2>6. q.rcv_nxt = lim + 1
    BY <1>6, <1>7
  <2> QED  BY <1>1, <1>2, <2>2, <2>3, <2>4, <2>5, <2>6, MoveTo
<1>8. ASSUME NEW y, y \in {a, q}, q.rcv_nxt = lim + 1, q.state \in Closing,
             NEW b, b = TimeWait(y)
      PROVE  Processed(p, b, fb, fr, lim, d)
  <2>1. Snd(y, fb, w, c) /\ Changes(q, y, {"flags"}) /\ y.state = q.state
        /\ y.recv_flags = q.recv_flags
    BY <1>3, <1>4, <1>5, <1>8, ChangesNone
  <2>2. y.state \notin {"CLOSED", "TIME_WAIT"}
    BY <1>1, <2>1 DEF Synchronized
  <2>3. /\ Snd(b, fb, w, c) /\ Changes(y, b, PurgeFields \cup {"state"})
        /\ b.state = "TIME_WAIT" /\ b.refused = <<>> /\ b.ooseq = <<>>
    <3>1. Snd(y, fb, w, c) /\ b = TimeWait(y)
      BY <1>8, <2>1
    <3>2. PICK k : k = TimeWait(y)
      OBVIOUS
    <3>3. /\ Snd(k, fb, w, c) /\ Changes(y, k, PurgeFields \cup {"state"})
          /\ k.state = "TIME_WAIT" /\ k.refused = <<>> /\ k.ooseq = <<>>
      BY <2>2, <3>1, <3>2, TimeWaitSnd
    <3> QED  BY <3>1, <3>2, <3>3
  <2>4. Changes(q, b, MoveFields) /\ b.recv_flags = q.recv_flags
    BY <2>1, <2>3, FieldsAre DEF Changes, MoveFields, OutputFields, PurgeFields
  <2>5. /\ b.state \in (Opening \cup Closing) \ {"SYN_SENT"}
        /\ (q.state \in Opening <=> b.state \in Opening)
    BY <1>8, <2>3 DEF Opening, Closing
  <2>6. q.state \notin {"CLOSED", "SYN_SENT"} /\ (GotFin(b) <=> GotFin(q))
    BY <1>1, <2>4 DEF Synchronized, GotFin
  <2> QED  BY <1>1, <1>2, <1>8, <2>3, <2>4, <2>5, <2>6, MoveTo
<1>9. CASE q.state \in {"ESTABLISHED", "CLOSE_WAIT"}
  <2>1. z = IF GotFin(q) THEN [a EXCEPT !.state = "CLOSE_WAIT"] ELSE q
    BY <1>a, <1>z, <1>9 DEF FinStates
  <2>2. q.state \in Opening /\ "CLOSE_WAIT" \in Opening
    BY <1>9 DEF Opening
  <2>3. GotFin(q) => Processed(p, [a EXCEPT !.state = "CLOSE_WAIT"], fb, fr, lim, d)
    BY <1>7, <2>2
  <2> QED  BY <1>1, <1>z, <2>1, <2>3
<1>10. CASE q.state = "FIN_WAIT_1" /\ GotFin(q)
  <2>1. z = IF FinAcked(q, s) THEN TimeWait(a) ELSE [a EXCEPT !.state = "CLOSING"]
    BY <1>a, <1>z, <1>10 DEF FinStates
  <2>2. q.state \notin Opening /\ "CLOSING" \notin Opening /\ q.state \in Closing
    BY <1>10 DEF Opening, Closing
  <2>3. Processed(p, [a EXCEPT !.state = "CLOSING"], fb, fr, lim, d)
    BY <1>7, <1>10, <2>2
  <2>4. Processed(p, TimeWait(a), fb, fr, lim, d)
    BY <1>6, <1>8, <1>10, <2>2
  <2> QED  BY <1>z, <2>1, <2>3, <2>4
<1>11. CASE q.state = "FIN_WAIT_1" /\ ~GotFin(q)
  <2>1. z = IF FinAcked(q, s) THEN [q EXCEPT !.state = "FIN_WAIT_2"] ELSE q
    BY <1>z, <1>11 DEF FinStates
  <2>2. PICK b : b = [q EXCEPT !.state = "FIN_WAIT_2"]
    OBVIOUS
  <2>3. Changes(q, b, {"state"}) /\ b.state = "FIN_WAIT_2"
    BY <1>3, <2>2, FieldsAre DEF Changes
  <2>4. Snd(b, fb, w, c)
    BY <1>3, <2>3, SndChanges DEF SndFields
  <2>5. /\ Changes(q, b, MoveFields) /\ b.refused = <<>> /\ b.ooseq = q.ooseq
        /\ GotFin(b) <=> GotFin(q)
    BY <1>1, <2>3, FieldsAre DEF Changes, MoveFields, GotFin
  <2>6. /\ b.state \in (Opening \cup Closing) \ {"SYN_SENT"}
        /\ (q.state \in Opening <=> b.state \in Opening) /\ b.state \notin Ended
        /\ q.state \notin {"CLOSED", "SYN_SENT"}
    BY <1>11, <2>3 DEF Opening, Closing, Ended
  <2>7. Processed(p, b, fb, fr, lim, d)
    BY <1>1, <1>2, <2>4, <2>5, <2>6, MoveTo
  <2> QED  BY <1>1, <1>z, <2>1, <2>2, <2>7
<1>12. CASE q.state = "FIN_WAIT_2"
  <2>1. z = IF GotFin(q) THEN TimeWait(a) ELSE q
    BY <1>a, <1>z, <1>12 DEF FinStates
  <2>2. q.state \in Closing
    BY <1>12 DEF Closing
  <2>3. GotFin(q) => Processed(p, TimeWait(a), fb, fr, lim, d)
    BY <1>6, <1>8, <2>2
  <2> QED  BY <1>1, <1>z, <2>1, <2>3
<1>13. CASE q.state = "CLOSING"
  <2>1. z = IF FinAcked(q, s) THEN TimeWait(q) ELSE q
    BY <1>z, <1>13 DEF FinStates
  <2>2. q.state \in Closing /\ q.rcv_nxt = lim + 1
    BY <1>1, <1>13 DEF Closing, Processed, Both, Their, Ended
  <2>3. Processed(p, TimeWait(q), fb, fr, lim, d)
    BY <1>8, <2>2
  <2> QED  BY <1>1, <1>z, <2>1, <2>3
<1>14. CASE q.state = "LAST_ACK"
  <2>1. z = IF FinAcked(q, s) THEN [q EXCEPT !.recv_flags = @ \cup {"TF_CLOSED"}] ELSE q
    BY <1>z, <1>14 DEF FinStates
  <2>2. PICK b : b = [q EXCEPT !.recv_flags = @ \cup {"TF_CLOSED"}]
    OBVIOUS
  <2>3. Changes(q, b, {"recv_flags"}) /\ b.recv_flags = q.recv_flags \cup {"TF_CLOSED"}
    BY <1>3, <2>2, FieldsAre DEF Changes
  <2>4. Snd(b, fb, w, c)
    BY <1>3, <2>3, SndChanges DEF SndFields
  <2>5. /\ Changes(q, b, MoveFields) /\ b.refused = <<>> /\ b.ooseq = q.ooseq
        /\ b.state = q.state /\ (GotFin(b) <=> GotFin(q))
    BY <1>1, <2>3, FieldsAre DEF Changes, MoveFields, GotFin
  <2>6. /\ b.state \in (Opening \cup Closing) \ {"SYN_SENT"}
        /\ (q.state \in Opening <=> b.state \in Opening)
        /\ q.state \notin {"CLOSED", "SYN_SENT"} /\ q.rcv_nxt = lim + 1
    BY <1>1, <1>14, <2>5 DEF Opening, Closing, Ended, Processed, Both, Their
  <2>7. Processed(p, b, fb, fr, lim, d)
    BY <1>1, <1>2, <2>4, <2>5, <2>6, MoveTo
  <2> QED  BY <1>1, <1>z, <2>1, <2>2, <2>7
<1> QED  BY <1>1, <1>z, <1>9, <1>10, <1>11, <1>12, <1>13, <1>14 DEF Synchronized

(* A block that tcp_process leaves as it is, but for its queues. *)
LEMMA StayProcessed ==
  ASSUME NEW fb \in Int, NEW fr \in Int, NEW lim \in Int, NEW d \in BOOLEAN,
         NEW p, Ready(p, fb, fr, lim, d), NEW z, NEW S, Changes(p, z, S),
         S \cap (LifeFields \cup {"recv_data"}) = {}, Snd(z, fb, p.written, p.closed),
         ~GotFin(z)
  PROVE  Processed(p, z, fb, fr, lim, d)
<1>e. PICK none : none = <<>>
  OBVIOUS
<1>1. /\ Both(p, none, fb, fr, lim, d) /\ p.recv_data = <<>> /\ p.refused = <<>>
      /\ p.state \notin {"CLOSED", "TIME_WAIT"}
  BY <1>e DEF Ready
<1>2. S \cap LifeFields = {} /\ "recv_data" \notin S
  OBVIOUS
<1>3. Both(z, none, fb, fr, lim, d)
  BY <1>1, <1>2, BothKept
<1>4. z.recv_data = <<>>
  BY <1>1, <1>2, FieldsAre DEF Changes
<1>5. Agree(p, z, {"written", "closed", "taken", "eof", "refused", "state", "failed"})
  BY <1>2, FieldsAre DEF Changes, Agree, LifeFields
<1>6. z.state \notin {"CLOSED", "SYN_SENT"} =>
        fr + Len(z.taken) + Len(z.recv_data) = Lesser(z.rcv_nxt, lim)
  <2> SUFFICES ASSUME z.state \notin {"CLOSED", "SYN_SENT"}
               PROVE  fr + Len(z.taken) + Len(z.recv_data) = Lesser(z.rcv_nxt, lim)
    OBVIOUS
  <2>1. z.state # "TIME_WAIT" /\ z.refused = <<>>
    BY <1>1, <1>5 DEF Agree
  <2>2. /\ fr + Len(z.taken) + Len(z.refused) + Len(none) = Lesser(z.rcv_nxt, lim)
        /\ z.taken \in Seq(Int)
    BY <1>3, <2>1 DEF Both, Their
  <2>3. Len(<<>>) = 0 /\ Len(z.taken) \in Nat
    BY <2>2, EmptySeq
  <2>4. PICK x \in Nat : x = Len(z.taken)
    BY <2>3
  <2>5. fr + x + 0 + 0 = fr + x + 0
    OBVIOUS
  <2> QED  BY <1>e, <1>4, <2>1, <2>2, <2>3, <2>4, <2>5
<1> QED  BY <1>e, <1>1, <1>3, <1>4, <1>5, <1>6 DEF Processed, Agree

SynSentFields ==
  {"snd_buf", "snd_queuelen", "rcv_nxt", "rcv_ann_right_edge", "lastack", "snd_wnd",
   "snd_wl1", "state", "ssthresh", "cwnd", "unacked", "rtime", "nrtx"}

(* The SYN and ACK of the server arrived. *)
LEMMA EstablishedBoth ==
  ASSUME NEW fb \in Int, NEW fr \in Int, NEW lim \in Int, lim >= fr, NEW d \in BOOLEAN,
         NEW p, Ready(p, fb, fr, lim, d), p.state = "SYN_SENT",
         NEW y, Changes(p, y, SynSentFields), y.rcv_nxt = fr, y.rcv_ann_right_edge = fr,
         y.lastack \in Int, y.state = "ESTABLISHED", p.unacked # <<>>,
         y.unacked = Tail(p.unacked)
  PROVE  Processed(p, y, fb, fr, lim, d)
<1>e. PICK none : none = <<>>
  OBVIOUS
<1>1. /\ Own(p, fb) /\ Their(p, none, fr, lim, d) /\ p.recv_data = <<>> /\ p.recv_flags = {}
      /\ p.refused = <<>>
  BY <1>e DEF Ready, Both
<1>2. PICK w \in Nat, c \in BOOLEAN : w = p.written /\ c = p.closed
  BY <1>1 DEF Own
<1>3. Snd(p, fb, w, c) /\ c = FALSE
  BY <1>1, <1>2 DEF Own, Opening
<1>4. y.unacked \in Seq(QSegs(fb, w, c))
  <2>1. PICK Q, u : Q = QSegs(fb, w, c) /\ u = p.unacked
    OBVIOUS
  <2>2. u \in Seq(Q) /\ u # <<>>
    BY <1>3, <2>1 DEF Snd
  <2>3. Tail(u) \in Seq(Q)
    BY <2>2, HeadTailProperties
  <2> QED  BY <2>1, <2>3
<1>5. Snd(y, fb, w, c)
  BY <1>3, <1>4, FieldsAre DEF Changes, SynSentFields, Snd
<1>6. /\ y.written = p.written /\ y.closed = p.closed /\ y.snd_lbb = p.snd_lbb
      /\ y.taken = p.taken /\ y.refused = p.refused /\ y.recv_data = p.recv_data
      /\ y.recv_flags = p.recv_flags /\ y.ooseq = p.ooseq /\ y.eof = p.eof
      /\ y.failed = p.failed
  BY FieldsAre DEF Changes, SynSentFields
<1>7. Own(y, fb)
  BY <1>1, <1>2, <1>3, <1>5, <1>6 DEF Own, Opening, Closing
<1>8. /\ p.taken = <<>> /\ p.ooseq = <<>> /\ p.eof = FALSE /\ p.failed = FALSE
  BY <1>1 DEF Their
<1>9. OoseqOK(y, lim, d)
  BY <1>6, <1>8, OrderedEmpty DEF OoseqOK
<1>10. <<>> \in Seq(Int) /\ Len(<<>>) = 0 /\ \A from : IsRun(<<>>, from)
  BY RunEmpty
<1>11. /\ fr + 0 + 0 + 0 = Lesser(fr, lim) /\ fr + 0 + 0 <= lim /\ fr + 0 <= lim
       /\ fr \in fr..lim + 1 /\ fr # lim + 1 /\ fr + 0 + 0 = Lesser(fr, lim)
  BY DEF Lesser
<1>12. Their(y, none, fr, lim, d)
  BY <1>e, <1>1, <1>6, <1>8, <1>9, <1>10, <1>11 DEF Their, Ended
<1>13. Both(y, y.recv_data, fb, fr, lim, d)
  BY <1>e, <1>1, <1>6, <1>7, <1>12 DEF Both
<1>14. ~GotFin(y)
  BY <1>1, <1>6 DEF GotFin
<1>15. fr + Len(y.taken) + Len(y.recv_data) = Lesser(y.rcv_nxt, lim)
  BY <1>1, <1>6, <1>8, <1>10, <1>11
<1> QED  BY <1>6, <1>13, <1>14, <1>15 DEF Processed, Agree

(* The SYN_SENT case of tcp_process: a SYN|ACK that answers the own SYN
   fixes rcv_nxt at the peer's first byte. *)
LEMMA SynSentBoth ==
  ASSUME NEW fb \in Int, NEW fr \in Int, NEW n \in Nat, NEW lim \in Int, lim = fr + n,
         NEW d \in BOOLEAN, NEW p, Ready(p, fb, fr, lim, d), p.state = "SYN_SENT",
         NEW s \in WSegs(fr, n, d)
  PROVE  Processed(p, SynSent(p, s), fb, fr, lim, d)
<1>z. PICK z : z = SynSent(p, s)
  OBVIOUS
<1>y. PICK y : y = [p EXCEPT
               !.snd_buf = (@ + 1) % U16, !.snd_queuelen = @ - 1,
               !.rcv_nxt = s.seq + 1, !.rcv_ann_right_edge = s.seq + 1,
               !.lastack = s.ack, !.snd_wnd = s.wnd, !.snd_wl1 = s.seq - 1,
               !.state = "ESTABLISHED", !.ssthresh = 10 * MSS,
               !.cwnd = IF @ = 1 THEN 2 * MSS ELSE MSS,
               !.unacked = Tail(p.unacked),
               !.rtime = Rtime(Tail(p.unacked)),
               !.nrtx  = IF Tail(p.unacked) = <<>> THEN @ ELSE 0]
  OBVIOUS
<1>1. /\ Snd(p, fb, p.written, p.closed) /\ p.written \in Nat /\ p.closed \in BOOLEAN
      /\ DOMAIN p = Fields /\ p.busy = TRUE /\ p.recv_flags = {}
  BY BothSnd DEF Ready
<1>2. s.seq \in Int /\ s.ack \in Int /\ EndSeq(s) \in Int /\ ("SYN" \in s.fl => s.seq = fr - 1)
  BY DEF WSegs, EndSeq, TcpLen
<1>3. \/ z = AckNow(y) /\ {"SYN", "ACK"} \subseteq s.fl /\ p.unacked # <<>>
      \/ z = Reset(p, s.ack, EndSeq(s))
      \/ z = p
  BY <1>z, <1>y DEF SynSent
<1>4. CASE z = AckNow(y) /\ {"SYN", "ACK"} \subseteq s.fl /\ p.unacked # <<>>
  <2>1. /\ Changes(p, y, SynSentFields) /\ y.rcv_nxt = s.seq + 1 /\ y.state = "ESTABLISHED"
        /\ y.rcv_ann_right_edge = s.seq + 1
        /\ y.lastack = s.ack /\ y.unacked = Tail(p.unacked)
    BY <1>1, <1>y, FieldsAre DEF Changes, SynSentFields
  <2>2. s.seq + 1 = fr
    BY <1>2, <1>4
  <2>3. Processed(p, y, fb, fr, lim, d)
    <3>1. lim >= fr
      OBVIOUS
    <3> QED  BY <1>2, <1>4, <2>1, <2>2, <3>1, EstablishedBoth
  <2>4. Snd(y, fb, y.written, y.closed) /\ y.written \in Nat /\ y.closed \in BOOLEAN
        /\ y.busy = TRUE
    <3>1. y.busy = p.busy
      BY <2>1, FieldsAre DEF Changes, SynSentFields
    <3> QED  BY <1>1, <2>3, <3>1 DEF Processed, Both, Own
  <2>5. Snd(z, fb, y.written, y.closed) /\ Changes(y, z, {"flags"})
    BY <1>4, <2>4, AckNowSnd
  <2>6. /\ Changes(y, z, MoveFields) /\ z.refused = y.refused /\ z.ooseq = y.ooseq
        /\ (GotFin(z) <=> GotFin(y)) /\ z.state = y.state
    BY <2>5, FieldsAre DEF Changes, MoveFields, OutputFields, GotFin
  <2>7. /\ z.state \in (Opening \cup Closing) \ {"SYN_SENT"}
        /\ y.state \notin {"CLOSED", "SYN_SENT"} /\ z.state \notin Ended
        /\ (y.state \in Opening <=> z.state \in Opening)
    BY <2>1, <2>6 DEF Opening, Ended
  <2>8. y.refused = <<>> /\ z.refused = <<>>
    BY <2>3, <2>6 DEF Processed, Agree, Ready
  <2> QED  BY <1>z, <2>3, <2>5, <2>6, <2>7, <2>8, MoveTo
<1>5. CASE z = Reset(p, s.ack, EndSeq(s))
  <2>1. Snd(z, fb, p.written, p.closed) /\ Changes(p, z, {"out"})
    BY <1>1, <1>2, <1>5, ResetIs
  <2>2. {"out"} \cap (LifeFields \cup {"recv_data"}) = {}
    BY DEF LifeFields
  <2>3. ~GotFin(z)
    BY <1>1, <2>1, FieldsAre DEF Changes, GotFin
  <2> QED  BY <1>z, <2>1, <2>2, <2>3, StayProcessed
<1>6. CASE z = p
  <2>1. Changes(p, p, {}) /\ {} \cap (LifeFields \cup {"recv_data"}) = {} /\ ~GotFin(p)
    BY <1>1, ChangesNone DEF GotFin
  <2> QED  BY <1>1, <1>z, <1>6, <2>1, StayProcessed
<1> QED  BY <1>3, <1>4, <1>5, <1>6

(* The SYN_RCVD case of tcp_process, with the accept callback's answer. *)
LEMMA SynRcvdBoth ==
  ASSUME NEW fb \in Int, NEW fr \in Int, NEW n \in Nat, NEW lim \in Int, lim = fr + n,
         NEW d \in BOOLEAN, NEW p, Ready(p, fb, fr, lim, d), p.state = "SYN_RCVD",
         NEW s \in WSegs(fr, n, d), "RST" \notin s.fl, NEW cb
  PROVE  Processed(p, SynRcvd(p, s, cb), fb, fr, lim, d)
<1>e. PICK none : none = <<>>
  OBVIOUS
<1>z. PICK z : z = SynRcvd(p, s, cb)
  OBVIOUS
<1>y. PICK y : y = [p EXCEPT !.state = "ESTABLISHED"]
  OBVIOUS
<1>r. PICK r : r = Receive(y, s)
  OBVIOUS
<1>q. PICK q : q = [r EXCEPT !.acked = IF @ # 0 THEN @ - 1 ELSE 0,
                             !.cwnd  = IF p.cwnd = 1 THEN 2 * MSS ELSE MSS]
  OBVIOUS
<1>v. PICK v : v = [AckNow(q) EXCEPT !.state = "CLOSE_WAIT"]
  OBVIOUS
<1>1. /\ Snd(p, fb, p.written, p.closed) /\ p.written \in Nat /\ p.closed \in BOOLEAN
      /\ DOMAIN p = Fields /\ p.busy = TRUE /\ p.recv_flags = {} /\ p.recv_data = <<>>
      /\ p.refused = <<>> /\ Own(p, fb) /\ Their(p, none, fr, lim, d)
  BY <1>e, BothSnd DEF Ready, Both
<1>2. s.seq \in Int /\ s.ack \in Int /\ EndSeq(s) \in Int
  BY DEF WSegs, EndSeq, TcpLen
<1>3. \/ z \in {Abort(p), q, Reset(p, s.ack, EndSeq(s)), Rexmit(p), p}
      \/ z = v /\ GotFin(q)
  <2>1. z = CASE "ACK" \in s.fl /\ s.ack \in p.lastack + 1 .. p.snd_nxt ->
                   IF ~cb.accept THEN Abort(p) ELSE IF GotFin(q) THEN v ELSE q
              [] "ACK" \in s.fl /\ s.ack \notin p.lastack + 1 .. p.snd_nxt ->
                   Reset(p, s.ack, EndSeq(s))
              [] "ACK" \notin s.fl ->
                   IF "SYN" \in s.fl /\ s.seq = p.rcv_nxt - 1 THEN Rexmit(p) ELSE p
    BY <1>z, <1>y, <1>r, <1>q, <1>v DEF SynRcvd
  <2> QED  BY <2>1
<1>4. Ready(y, fb, fr, lim, d) /\ y.state = "ESTABLISHED" /\ Changes(p, y, {"state"})
  <2>1. Changes(p, y, {"state"}) /\ y.state = "ESTABLISHED"
    BY <1>1, <1>y, FieldsAre DEF Changes
  <2>2. Snd(y, fb, p.written, p.closed)
    BY <1>1, <2>1, SndChanges DEF SndFields
  <2>3. /\ y.written = p.written /\ y.closed = p.closed /\ y.snd_lbb = p.snd_lbb
        /\ y.taken = p.taken /\ y.refused = p.refused /\ y.recv_data = p.recv_data
        /\ y.recv_flags = p.recv_flags /\ y.ooseq = p.ooseq /\ y.eof = p.eof
        /\ y.failed = p.failed /\ y.rcv_nxt = p.rcv_nxt /\ y.busy = p.busy
    BY <2>1, FieldsAre DEF Changes
  <2>4. Own(y, fb)
    BY <1>1, <2>1, <2>2, <2>3 DEF Own, Opening, Closing
  <2>5. OoseqOK(y, lim, d)
    BY <1>1, <2>3 DEF Their, OoseqOK
  <2>6. Their(y, none, fr, lim, d)
    BY <1>1, <2>1, <2>3, <2>5 DEF Their, Ended
  <2> QED  BY <1>e, <1>1, <2>1, <2>3, <2>4, <2>6 DEF Ready, Both
<1>5. Taken(y, r, fb, fr, lim, d)
  <2>1. y.state # "SYN_SENT"
    BY <1>4
  <2> QED  BY <1>4, <1>r, <2>1, ReceiveBoth
<1>6. /\ Processed(y, r, fb, fr, lim, d) /\ DOMAIN r = Fields /\ r.refused = <<>>
      /\ r.state \in {"ESTABLISHED", "CLOSE_WAIT"} /\ r.busy = TRUE
  <2>1. r.busy = y.busy
    BY <1>5, FieldsAre DEF Taken, Changes, DataFields, AckFields, QueuedFields, TakeFields,
       ConsumeFields
  <2> QED  BY <1>4, <1>5, <2>1 DEF Taken, Processed, Both, Own, Snd, Agree, Ready, Moved
<1>7. PICK w \in Nat, c \in BOOLEAN : w = r.written /\ c = r.closed
  BY <1>6 DEF Processed, Both, Own
<1>8. Snd(r, fb, w, c)
  BY <1>6, <1>7 DEF Processed, Both, Own
<1>9. Changes(r, q, {"acked", "cwnd"}) /\ Snd(q, fb, w, c)
  <2>1. Changes(r, q, {"acked", "cwnd"})
    BY <1>6, <1>q, FieldsAre DEF Changes
  <2> QED  BY <1>8, <2>1, SndChanges DEF SndFields
<1>10. /\ q.state = r.state /\ q.refused = <<>> /\ q.ooseq = r.ooseq /\ q.busy = TRUE
       /\ GotFin(q) <=> GotFin(r)
  BY <1>6, <1>9, FieldsAre DEF Changes, GotFin
<1>11. ASSUME NEW x, Changes(r, x, MoveFields), Snd(x, fb, w, c), x.refused = <<>>,
              x.ooseq = r.ooseq, GotFin(x) <=> GotFin(r),
              \/ x.state = r.state
              \/ x.state = "CLOSE_WAIT" /\ GotFin(r)
       PROVE  Processed(p, x, fb, fr, lim, d)
  <2>1. /\ x.state \in (Opening \cup Closing) \ {"SYN_SENT"}
        /\ r.state \in Opening <=> x.state \in Opening
        /\ r.state \notin {"CLOSED", "SYN_SENT"}
    BY <1>6, <1>11 DEF Opening
  <2>2. x.state \in Ended => r.rcv_nxt = lim + 1
    BY <1>6, <1>11 DEF Processed, Both, Their
  <2>3. Processed(y, x, fb, fr, lim, d)
    BY <1>6, <1>7, <1>11, <2>1, <2>2, MoveTo
  <2>4. /\ y.written = p.written /\ y.closed = p.closed /\ y.taken = p.taken
        /\ y.refused = p.refused /\ y.eof = p.eof /\ y.failed = p.failed
    BY <1>4, FieldsAre DEF Changes
  <2>5. x.state # "CLOSED"
    BY <2>1 DEF Opening, Closing
  <2> QED  BY <2>3, <2>4, <2>5 DEF Processed, Agree
<1>12. Processed(p, q, fb, fr, lim, d)
  <2>1. Changes(r, q, MoveFields)
    BY <1>9 DEF Changes, MoveFields
  <2> QED  BY <1>9, <1>10, <1>11, <2>1
<1>13. GotFin(q) => Processed(p, v, fb, fr, lim, d)
  <2>1. Snd(AckNow(q), fb, w, c) /\ Changes(q, AckNow(q), {"flags"})
    BY <1>9, <1>10, AckNowSnd
  <2>2. Changes(AckNow(q), v, {"state"}) /\ v.state = "CLOSE_WAIT"
    BY <1>v, <2>1, FieldsAre DEF Changes
  <2>3. Snd(v, fb, w, c)
    BY <2>1, <2>2, SndChanges DEF SndFields
  <2>4. /\ Changes(r, v, MoveFields) /\ v.refused = q.refused /\ v.ooseq = r.ooseq
        /\ GotFin(v) <=> GotFin(r)
    BY <1>9, <1>10, <2>1, <2>2, FieldsAre DEF Changes, MoveFields, OutputFields, GotFin
  <2> QED  BY <1>10, <1>11, <2>2, <2>3, <2>4
<1>14. Processed(p, Abort(p), fb, fr, lim, d)
  <2>1. Rest(p, fb, fr, lim)
    BY <1>1, BothRest DEF Both
  <2>2. p.state # "TIME_WAIT"
    OBVIOUS
  <2>3. Both(Abort(p), none, fb, fr, lim, d) /\ Gone(p, Abort(p), TRUE)
    BY <1>e, <2>1, <2>2, AbortBoth
  <2>4. Abort(p).recv_data = <<>> /\ Abort(p).recv_flags = {} /\ Abort(p).refused = <<>>
        /\ Abort(p).state = "CLOSED"
    BY <2>3 DEF Gone
  <2> QED  BY <1>e, <1>1, <2>3, <2>4 DEF Processed, Gone, Agree, GotFin
<1>15. Processed(p, Reset(p, s.ack, EndSeq(s)), fb, fr, lim, d)
  <2>1. PICK x : x = Reset(p, s.ack, EndSeq(s))
    OBVIOUS
  <2>2. Snd(x, fb, p.written, p.closed) /\ Changes(p, x, {"out"})
    BY <1>1, <1>2, <2>1, ResetIs
  <2>3. {"out"} \cap (LifeFields \cup {"recv_data"}) = {}
    BY DEF LifeFields
  <2>4. ~GotFin(x)
    BY <1>1, <2>2, FieldsAre DEF Changes, GotFin
  <2> QED  BY <2>1, <2>2, <2>3, <2>4, StayProcessed
<1>16. Processed(p, Rexmit(p), fb, fr, lim, d)
  <2>1. PICK x : x = Rexmit(p)
    OBVIOUS
  <2>2. Snd(x, fb, p.written, p.closed) /\ Changes(p, x, {"unsent", "unacked", "nrtx"})
    BY <1>1, <2>1, RexmitSnd
  <2>3. {"unsent", "unacked", "nrtx"} \cap (LifeFields \cup {"recv_data"}) = {}
    BY DEF LifeFields
  <2>4. ~GotFin(x)
    BY <1>1, <2>2, FieldsAre DEF Changes, GotFin
  <2> QED  BY <2>1, <2>2, <2>3, <2>4, StayProcessed
<1>17. Processed(p, p, fb, fr, lim, d)
  <2>1. Changes(p, p, {}) /\ {} \cap (LifeFields \cup {"recv_data"}) = {} /\ ~GotFin(p)
    BY <1>1, ChangesNone DEF GotFin
  <2> QED  BY <1>1, <2>1, StayProcessed
<1> QED  BY <1>z, <1>3, <1>12, <1>13, <1>14, <1>15, <1>16, <1>17

(* tcp_process as a whole, for every state and every segment of the peer. *)
LEMMA ProcessBoth ==
  ASSUME NEW fb \in Int, NEW fr \in Int, NEW n \in Nat, NEW lim \in Int, lim = fr + n,
         NEW d \in BOOLEAN, NEW p, Ready(p, fb, fr, lim, d),
         NEW s \in WSegs(fr, n, d), NEW cb
  PROVE  Processed(p, Process(p, s, cb), fb, fr, lim, d)
<1>z. PICK z : z = Process(p, s, cb)
  OBVIOUS
<1>y. PICK y : y = [p EXCEPT !.recv_flags = {"TF_RESET"}, !.flags = @ \ {"TF_ACK_DELAY"}]
  OBVIOUS
<1>1. /\ Snd(p, fb, p.written, p.closed) /\ p.written \in Nat /\ p.closed \in BOOLEAN
      /\ DOMAIN p = Fields /\ p.busy = TRUE /\ p.recv_flags = {}
      /\ p.state \in (Opening \cup Closing) \ {"TIME_WAIT"}
  <2>1. PICK none : none = <<>>
    OBVIOUS
  <2>2. /\ Both(p, none, fb, fr, lim, d) /\ p.busy = TRUE /\ p.recv_flags = {}
        /\ p.state \notin {"CLOSED", "TIME_WAIT"}
    BY <2>1 DEF Ready
  <2>3. p.state \in {"CLOSED"} \cup Opening \cup Closing
    BY <2>2 DEF Both, Own
  <2> QED  BY <2>2, <2>3, BothSnd
<1>2. p.state \in {"SYN_SENT", "SYN_RCVD"} \cup Synchronized
  BY <1>1 DEF Opening, Closing, Synchronized
<1>3. \/ z \in {y, p}
      \/ z = AckNow(p)
      \/ /\ "RST" \notin s.fl
         /\ z = CASE p.state = "SYN_SENT" -> SynSent(p, s)
                  [] p.state = "SYN_RCVD" -> SynRcvd(p, s, cb)
                  [] p.state \in Synchronized -> FinStates(Receive(p, s), s)
  BY <1>z, <1>y DEF Process
<1>4. Processed(p, p, fb, fr, lim, d)
  <2>1. Changes(p, p, {}) /\ {} \cap (LifeFields \cup {"recv_data"}) = {} /\ ~GotFin(p)
    BY <1>1, ChangesNone DEF GotFin
  <2> QED  BY <1>1, <2>1, StayProcessed
<1>5. Processed(p, y, fb, fr, lim, d)
  <2>1. Changes(p, y, {"recv_flags", "flags"}) /\ y.recv_flags = {"TF_RESET"}
    BY <1>1, <1>y, FieldsAre DEF Changes
  <2>2. Snd(y, fb, p.written, p.closed)
    BY <1>1, <2>1, SndChanges DEF SndFields
  <2>3. {"recv_flags", "flags"} \cap (LifeFields \cup {"recv_data"}) = {} /\ ~GotFin(y)
    BY <2>1 DEF LifeFields, GotFin
  <2> QED  BY <2>1, <2>2, <2>3, StayProcessed
<1>6. Processed(p, AckNow(p), fb, fr, lim, d)
  <2>1. PICK x : x = AckNow(p)
    OBVIOUS
  <2>2. Snd(x, fb, p.written, p.closed) /\ Changes(p, x, {"flags"})
    BY <1>1, <2>1, AckNowSnd
  <2>3. {"flags"} \cap (LifeFields \cup {"recv_data"}) = {}
    BY DEF LifeFields
  <2>4. ~GotFin(x)
    BY <1>1, <2>2, FieldsAre DEF Changes, GotFin
  <2> QED  BY <2>1, <2>2, <2>3, <2>4, StayProcessed
<1>7. CASE /\ "RST" \notin s.fl
           /\ z = CASE p.state = "SYN_SENT" -> SynSent(p, s)
                    [] p.state = "SYN_RCVD" -> SynRcvd(p, s, cb)
                    [] p.state \in Synchronized -> FinStates(Receive(p, s), s)
  <2>1. CASE p.state = "SYN_SENT"
    <3>1. z = SynSent(p, s)
      BY <1>7, <2>1 DEF Synchronized
    <3> QED  BY <1>z, <2>1, <3>1, SynSentBoth
  <2>2. CASE p.state = "SYN_RCVD"
    <3>1. z = SynRcvd(p, s, cb)
      BY <1>7, <2>2 DEF Synchronized
    <3>2. "RST" \notin s.fl
      BY <1>7
    <3> QED  BY <1>z, <2>2, <3>1, <3>2, SynRcvdBoth
  <2>3. CASE p.state \in Synchronized
    <3>1. PICK q : q = Receive(p, s)
      OBVIOUS
    <3>2. z = FinStates(q, s) /\ p.state # "SYN_SENT"
      BY <1>7, <2>3, <3>1 DEF Synchronized
    <3>3. Taken(p, q, fb, fr, lim, d)
      <4>1. "RST" \notin s.fl
        BY <1>7
      <4> QED  BY <3>1, <3>2, <4>1, ReceiveBoth
    <3> QED  BY <1>z, <2>3, <3>2, <3>3, FinStatesBoth
  <2> QED  BY <1>2, <2>1, <2>2, <2>3
<1> QED  BY <1>z, <1>3, <1>4, <1>5, <1>6, <1>7

-----------------------------------------------------------------------------
(* The callbacks at the end of tcp_input, and tcp_input for an active block *)

(* What the handlers do to the application of a block that never refuses:
   nothing, or it takes more and may hear of the end and close on that, or it
   is told of a failure. *)
AppSees == {"written", "taken", "closed", "eof", "failed"}

Heard(p, q, fr, lim, d) ==
  /\ Agree(p, q, {"written", "failed"}) /\ p.failed = FALSE /\ p.eof = FALSE
  /\ Len(p.taken) <= Len(q.taken)
  /\ q.eof = TRUE => d /\ fr + Len(q.taken) = lim
  /\ q.closed = p.closed \/ (q.closed = TRUE /\ q.eof = TRUE)

Lost(p, q) ==
  /\ Agree(p, q, {"written", "closed", "eof"}) /\ p.failed = FALSE /\ q.failed = TRUE
  /\ Len(p.taken) <= Len(q.taken)

Served(p, q, fr, lim, d) ==
  /\ Agree(p, q, AppSees) \/ Heard(p, q, fr, lim, d) \/ Lost(p, q)
  /\ q.refused = <<>>

(* No handler of the stack takes back what the application wrote, or that it
   closed. *)
Onward(p, q) == q.written = p.written /\ (p.closed = TRUE => q.closed = TRUE)

(* The recv callback with NULL. *)
AtEnd(p, rd, fb, fr, lim, d) ==
  /\ Both(p, rd, fb, fr, lim, d) /\ p.state \notin {"CLOSED", "SYN_SENT"}
  /\ p.rcv_nxt = lim + 1

ToldEnd(p, q) ==
  /\ Agree(p, q, {"taken", "written", "failed", "refused"}) /\ q.eof = TRUE
  /\ q.closed = p.closed \/ q.closed = TRUE

(* The recv callback with a null pointer, once the peer's FIN is in
   sequence: the application has been offered everything the peer wrote, and
   may close. *)
LEMMA EofBoth ==
  ASSUME NEW fb \in Int, NEW fr \in Int, NEW lim \in Int, NEW d \in BOOLEAN,
         NEW rd, rd = <<>>, NEW p, AtEnd(p, rd, fb, fr, lim, d), NEW close \in BOOLEAN
  PROVE  Both(Eof(p, close), rd, fb, fr, lim, d) /\ ToldEnd(p, Eof(p, close))
<1> USE DEF AtEnd, ToldEnd
<1>q. PICK q : q = [p EXCEPT !.eof = TRUE]
  OBVIOUS
<1>f. PICK f : f = Eof(p, close)
  OBVIOUS
<1>1. f = Close(q) \/ f = q
  BY <1>q, <1>f DEF Eof
<1>2. /\ Snd(p, fb, p.written, p.closed) /\ p.written \in Nat /\ p.closed \in BOOLEAN
      /\ DOMAIN p = Fields
  BY BothSnd
<1>3. Changes(p, q, {"eof"}) /\ q.eof = TRUE
  BY <1>2, <1>q, FieldsAre DEF Changes
<1>4. Own(q, fb)
  <2>1. Snd(q, fb, p.written, p.closed)
    BY <1>2, <1>3, SndChanges DEF SndFields
  <2>2. Agree(p, q, OwnFields)
    BY <1>3, FieldsAre DEF Changes, Agree, OwnFields
  <2>3. Own(p, fb)
    BY DEF Both
  <2> QED  BY <2>1, <2>2, <2>3, OwnKept
<1>5. Agree(p, q, {"state", "rcv_nxt", "taken", "refused", "ooseq", "failed", "written",
                    "closed"})
  BY <1>3, FieldsAre DEF Changes, Agree
<1>6. Their(q, rd, fr, lim, d)
  <2>1. Their(p, rd, fr, lim, d)
    BY DEF Both
  <2>2. OoseqOK(q, lim, d)
    BY <1>5, <2>1 DEF OoseqOK, Their, Agree
  <2> QED  BY <1>3, <1>5, <2>1, <2>2 DEF Their, Agree
<1>7. Both(q, rd, fb, fr, lim, d)
  BY <1>4, <1>6 DEF Both
<1>8. CASE f = q
  BY <1>3, <1>5, <1>7, <1>8, <1>f DEF Agree
<1>9. CASE f = Close(q)
  <2>1. Both(f, rd, fb, fr, lim, d) /\ Closes(q, f)
    BY <1>7, <1>9, CloseBoth
  <2>2. q.state \notin {"CLOSED", "SYN_SENT"}
    BY <1>5 DEF Agree
  <2>3. f.state # "CLOSED"
    BY <2>1, <2>2 DEF Closes
  <2> QED  BY <1>3, <1>5, <1>f, <2>1, <2>3 DEF Closes, Agree
<1> QED  BY <1>1, <1>8, <1>9

(* k is the block before tcp_process, p the one after. *)
LEMMA FinishBoth ==
  ASSUME NEW fb \in Int, NEW fr \in Int, NEW lim \in Int, NEW d \in BOOLEAN,
         NEW k, Ready(k, fb, fr, lim, d), NEW p, Processed(k, p, fb, fr, lim, d),
         NEW cb, cb.recv \in {"consume", "take", "refuse"}, cb.eof \in BOOLEAN,
         NEW rd, rd = <<>>
  PROVE  /\ Both(Finish(p, cb), rd, fb, fr, lim, d) /\ Onward(k, Finish(p, cb))
         /\ cb.recv # "refuse" => Served(k, Finish(p, cb), fr, lim, d)
<1>f. PICK f : f = Finish(p, cb)
  OBVIOUS
<1>d. PICK data : data = p.recv_data
  OBVIOUS
<1>s. PICK sent : sent = [p EXCEPT !.reported = @ + p.acked]
  OBVIOUS
<1>r. PICK r : r = IF p.recv_data = <<>> THEN sent ELSE Offer(sent, p.recv_data, cb.recv)
  OBVIOUS
<1>e. PICK e : e = IF GotFin(p) THEN Eof(r, cb.eof) ELSE r
  OBVIOUS
<1>1. /\ Both(p, data, fb, fr, lim, d)
      /\ Agree(k, p, {"written", "closed", "taken", "eof", "refused"})
      /\ p.state = "CLOSED" => Gone(k, p, TRUE)
      /\ p.state # "CLOSED" => p.failed = k.failed
      /\ GotFin(p) => p.state \notin {"CLOSED", "SYN_SENT"} /\ p.rcv_nxt = lim + 1
                        /\ k.eof = FALSE
      /\ p.state \in {"CLOSED", "SYN_SENT"} => data = <<>>
      /\ p.refused = <<>>
  BY <1>d DEF Processed, Ready, Agree
<1>2. /\ Snd(p, fb, p.written, p.closed) /\ p.written \in Nat /\ p.closed \in BOOLEAN
      /\ DOMAIN p = Fields /\ p.taken \in Seq(Int) /\ p.eof \in BOOLEAN /\ data \in Seq(Int)
  <2>1. p.taken \in Seq(Int) /\ p.eof \in BOOLEAN /\ data \in Seq(Int)
    BY <1>1 DEF Both, Their
  <2>2. Both(p, data, fb, fr, lim, d)
    BY <1>1
  <2> QED  BY <2>1, <2>2, BothSnd
<1>3. k.failed = FALSE
  BY DEF Ready, Both, Their
<1>4. Len(k.taken) = Len(p.taken) /\ Len(p.taken) \in Nat
  BY <1>1, <1>2 DEF Agree
<1>5. CASE p.state = "CLOSED"
  <2>1. f = p /\ data = rd
    BY <1>1, <1>5, <1>f DEF Finish
  <2>2. Lost(k, p) /\ p.refused = <<>>
    BY <1>1, <1>3, <1>4, <1>5 DEF Lost, Gone, Agree
  <2>3. Onward(k, f)
    BY <1>1, <2>1 DEF Onward, Agree
  <2> QED  BY <1>1, <1>f, <2>1, <2>2, <2>3 DEF Served
<1>6. ASSUME NEW q, Changes(RemovePcb(p), q, {"failed"}), q.failed \in BOOLEAN
      PROVE  /\ Both(q, rd, fb, fr, lim, d) /\ Gone(p, q, q.failed)
             /\ RemovePcb(p).failed = p.failed
  <2>1. Rest(p, fb, fr, lim)
    BY <1>1, BothRest
  <2> QED  BY <1>6, <2>1, RemovePcbBoth
<1>7. CASE p.state # "CLOSED" /\ "TF_RESET" \in p.recv_flags
  <2>1. f = [RemovePcb(p) EXCEPT !.failed = TRUE]
    BY <1>7, <1>f DEF Finish
  <2>2. Changes(RemovePcb(p), f, {"failed"}) /\ f.failed = TRUE
    <3>1. DOMAIN RemovePcb(p) = Fields
      BY FreedIs DEF RemovePcb
    <3> QED  BY <2>1, <3>1, FieldsAre DEF Changes
  <2>3. Both(f, rd, fb, fr, lim, d) /\ Gone(p, f, f.failed)
    BY <1>6, <2>2
  <2>4. Lost(k, f) /\ f.refused = <<>>
    BY <1>1, <1>3, <1>4, <2>2, <2>3 DEF Lost, Gone, Agree
  <2>5. Onward(k, f)
    BY <1>1, <2>3 DEF Onward, Agree, Gone
  <2> QED  BY <1>f, <2>3, <2>4, <2>5 DEF Served
<1>8. CASE p.state # "CLOSED" /\ "TF_RESET" \notin p.recv_flags
           /\ "TF_CLOSED" \in p.recv_flags
  <2>1. f = RemovePcb(p)
    BY <1>8, <1>f DEF Finish
  <2>2. Changes(RemovePcb(p), f, {"failed"})
    <3>1. DOMAIN RemovePcb(p) = Fields
      BY FreedIs DEF RemovePcb
    <3> QED  BY <2>1, <3>1, ChangesNone
  <2>3. RemovePcb(p).failed = p.failed
    <3>1. PICK x : x = [RemovePcb(p) EXCEPT !.failed = FALSE]
      OBVIOUS
    <3>2. DOMAIN RemovePcb(p) = Fields
      BY FreedIs DEF RemovePcb
    <3>3. Changes(RemovePcb(p), x, {"failed"}) /\ x.failed \in BOOLEAN
      BY <3>1, <3>2, FieldsAre DEF Changes
    <3> QED  BY <1>6, <3>3
  <2>4. f.failed = k.failed /\ f.failed \in BOOLEAN
    BY <1>1, <1>3, <1>8, <2>1, <2>3
  <2>5. Both(f, rd, fb, fr, lim, d) /\ Gone(p, f, f.failed)
    BY <1>6, <2>2, <2>4
  <2>6. Agree(k, f, AppSees) /\ f.refused = <<>>
    BY <1>1, <2>4, <2>5 DEF Gone, Agree, AppSees
  <2>7. Onward(k, f)
    BY <1>1, <2>5 DEF Onward, Agree, Gone
  <2> QED  BY <1>f, <2>5, <2>6, <2>7 DEF Served
<1>9. CASE p.state # "CLOSED" /\ "TF_RESET" \notin p.recv_flags
           /\ "TF_CLOSED" \notin p.recv_flags
  <2>1. f = Output([e EXCEPT !.busy = FALSE])
    BY <1>9, <1>f, <1>s, <1>r, <1>e DEF Finish
  <2>2. Changes(p, sent, {"reported"})
    BY <1>2, <1>s, FieldsAre DEF Changes
  <2>3. Both(sent, data, fb, fr, lim, d)
    <3>1. Snd(sent, fb, p.written, p.closed) /\ {"reported"} \cap LifeFields = {}
      BY <1>2, <2>2, SndChanges DEF SndFields, LifeFields
    <3> QED  BY <1>1, <2>2, <3>1, BothKept
  <2>4. /\ sent.state = p.state /\ sent.refused = <<>> /\ sent.taken = p.taken
        /\ sent.rcv_nxt = p.rcv_nxt /\ sent.eof = p.eof /\ DOMAIN sent = Fields
        /\ sent.written = p.written /\ sent.closed = p.closed /\ sent.failed = p.failed
    BY <1>1, <2>2, FieldsAre DEF Changes
  (* after the recv callback *)
  <2>5. /\ Both(r, rd, fb, fr, lim, d)
        /\ Agree(p, r, {"state", "rcv_nxt", "eof", "written", "closed", "failed"})
        /\ cb.recv # "refuse" => r.taken = p.taken \o data /\ r.refused = <<>>
    <3>1. CASE data = <<>>
      <4>1. r = sent /\ data = rd
        BY <1>d, <1>r, <3>1
      <4>2. p.taken \o data = p.taken
        BY <1>2, <3>1, ConcatEmptySeq
      <4> QED  BY <2>3, <2>4, <4>1, <4>2 DEF Agree
    <3>2. CASE data # <<>>
      <4>1. r = Offer(sent, data, cb.recv)
        BY <1>d, <1>r, <3>2
      <4>2. sent.state \notin {"CLOSED", "SYN_SENT"} /\ Changes(sent, sent, {"refused"})
        BY <1>1, <2>4, <3>2, ChangesNone
      <4>a. PICK answer \in {"consume", "take", "refuse"} : answer = cb.recv
        OBVIOUS
      <4>o. PICK o : o = Offer(sent, data, answer)
        OBVIOUS
      <4>z. PICK z : z = sent
        OBVIOUS
      <4>b. Waiting(sent, z, data, fb, fr, lim, d)
        BY <2>3, <2>4, <4>2, <4>z DEF Waiting
      <4>c. /\ Both(Offer(sent, data, answer), rd, fb, fr, lim, d)
            /\ Offered(sent, Offer(sent, data, answer), data, answer)
        BY <4>b, OfferBoth
      <4>3. /\ Both(r, rd, fb, fr, lim, d) /\ Changes(sent, r, OfferFields)
            /\ answer # "refuse" => r.taken = sent.taken \o data /\ r.refused = <<>>
        BY <4>1, <4>a, <4>c DEF Offered
      <4>4. Agree(sent, r, {"state", "rcv_nxt", "eof", "written", "closed", "failed"})
        BY <4>3, FieldsAre DEF Changes, OfferFields, RecvedFields, OutputFields, Agree
      <4> QED  BY <2>4, <4>3, <4>4, <4>a DEF Agree
    <3> QED  BY <3>1, <3>2
  (* after the recv callback with NULL *)
  <2>6. /\ Both(e, rd, fb, fr, lim, d)
        /\ Agree(r, e, {"taken", "written", "failed", "refused"})
        /\ GotFin(p) => e.eof = TRUE
        /\ ~GotFin(p) => e.eof = k.eof /\ e.closed = p.closed
        /\ e.closed = p.closed \/ (e.closed = TRUE /\ e.eof = TRUE)
    <3>1. CASE ~GotFin(p)
      BY <1>e, <3>1, <2>5, <1>1 DEF Agree
    <3>2. CASE GotFin(p)
      <4>1. e = Eof(r, cb.eof) /\ r.state \notin {"CLOSED", "SYN_SENT"} /\ r.rcv_nxt = lim + 1
        BY <1>1, <1>e, <2>5, <3>2 DEF Agree
      <4>2. PICK close \in BOOLEAN : close = cb.eof
        OBVIOUS
      <4>b. AtEnd(r, rd, fb, fr, lim, d)
        BY <2>5, <4>1 DEF AtEnd
      <4>c. Both(Eof(r, close), rd, fb, fr, lim, d) /\ ToldEnd(r, Eof(r, close))
        BY <4>b, EofBoth
      <4>3. /\ Both(e, rd, fb, fr, lim, d)
            /\ Agree(r, e, {"taken", "written", "failed", "refused"})
            /\ e.eof = TRUE /\ (e.closed = r.closed \/ e.closed = TRUE)
        BY <4>1, <4>2, <4>c DEF ToldEnd
      <4> QED  BY <2>5, <3>2, <4>3 DEF Agree
    <3> QED  BY <3>1, <3>2
  <2>7. PICK g : g = [e EXCEPT !.busy = FALSE]
    OBVIOUS
  <2>8. Changes(e, g, {"busy"}) /\ Both(g, rd, fb, fr, lim, d)
    <3>1. /\ Snd(e, fb, e.written, e.closed) /\ DOMAIN e = Fields /\ e.closed \in BOOLEAN
      BY <2>6, BothSnd
    <3>2. Changes(e, g, {"busy"})
      BY <2>7, <3>1, FieldsAre DEF Changes
    <3>3. Snd(g, fb, e.written, e.closed) /\ {"busy"} \cap LifeFields = {}
      BY <3>1, <3>2, SndChanges DEF SndFields, LifeFields
    <3> QED  BY <2>6, <3>2, <3>3, BothKept
  <2>9. f = Output(g)
    BY <2>1, <2>7
  <2>10. Both(f, rd, fb, fr, lim, d) /\ Changes(g, f, OutputFields)
    BY <2>8, <2>9, OutputBoth
  <2>11. Agree(e, f, {"taken", "written", "failed", "refused", "eof", "closed"})
    BY <2>8, <2>10, FieldsAre DEF Changes, OutputFields, Agree
  <2>12. ASSUME cb.recv # "refuse" PROVE Served(k, f, fr, lim, d)
    <3>1. /\ f.taken = p.taken \o data /\ f.refused = <<>> /\ f.written = k.written
          /\ f.failed = k.failed
      BY <1>1, <1>9, <2>5, <2>6, <2>11, <2>12 DEF Agree
    <3>2. Len(p.taken \o data) = Len(p.taken) + Len(data) /\ Len(data) \in Nat
      BY <1>2
    <3>3. /\ GotFin(p) => f.eof = TRUE
          /\ ~GotFin(p) => f.eof = k.eof /\ f.closed = k.closed
          /\ f.closed = k.closed \/ (f.closed = TRUE /\ f.eof = TRUE)
      BY <1>1, <2>6, <2>11 DEF Agree
    <3>4. p.state # "SYN_SENT" => fr + Len(p.taken) + Len(data) = Lesser(p.rcv_nxt, lim)
      BY <1>9, <1>d DEF Processed
    <3>5. /\ p.state # "SYN_SENT" => p.rcv_nxt \in Int /\ (p.rcv_nxt = lim + 1 => d)
          /\ p.eof = TRUE => p.rcv_nxt = lim + 1
          /\ p.state = "SYN_SENT" => p.eof = FALSE
      BY <1>1, <1>9 DEF Both, Their
    <3>6. CASE k.eof = TRUE
      <4>1. p.eof = TRUE /\ p.rcv_nxt = lim + 1 /\ ~GotFin(p) /\ p.state # "SYN_SENT"
        BY <1>1, <3>5, <3>6 DEF Agree
      <4>2. fr + Len(p.taken) + Len(data) = lim
        BY <3>4, <4>1 DEF Lesser
      <4>3. fr + Len(k.taken) = lim
        <5>1. /\ Both(k, <<>>, fb, fr, lim, d) /\ k.refused = <<>>
              /\ k.state \notin {"CLOSED", "TIME_WAIT"}
          BY DEF Ready
        <5>2. k.state # "SYN_SENT" /\ k.rcv_nxt = lim + 1
          BY <5>1, <3>6 DEF Both, Their
        <5>3. fr + Len(k.taken) + Len(<<>>) + Len(<<>>) = Lesser(lim + 1, lim)
          BY <5>1, <5>2 DEF Both, Their
        <5>4. Len(<<>>) = 0
          BY EmptySeq
        <5>5. Lesser(lim + 1, lim) = lim
          BY DEF Lesser
        <5>6. PICK x \in Nat : x = Len(k.taken)
          BY <1>4
        <5> QED  BY <5>3, <5>4, <5>5, <5>6
      <4>4. Len(data) = 0
        <5>1. PICK x \in Nat, y \in Nat : x = Len(p.taken) /\ y = Len(data)
          BY <1>4, <3>2
        <5> QED  BY <4>2, <4>3, <1>4, <5>1
      <4>5. data = <<>>
        BY <1>2, <4>4, EmptySeq
      <4>6. f.taken = k.taken
        BY <1>1, <1>2, <3>1, <4>5, ConcatEmptySeq DEF Agree
      <4> QED  BY <3>1, <3>3, <4>1, <4>6 DEF Served, Agree, AppSees
    <3>7. CASE k.eof # TRUE
      <4>1. k.eof = FALSE
        BY <1>1, <1>2, <3>7 DEF Agree
      <4>2. Len(k.taken) <= Len(f.taken)
        BY <1>4, <3>1, <3>2
      <4>3. f.eof = TRUE => d /\ fr + Len(f.taken) = lim
        <5> SUFFICES ASSUME f.eof = TRUE PROVE d /\ fr + Len(f.taken) = lim
          OBVIOUS
        <5>1. GotFin(p)
          BY <3>3, <4>1
        <5>2. p.rcv_nxt = lim + 1 /\ p.state # "SYN_SENT"
          BY <1>1, <5>1
        <5>3. fr + Len(p.taken) + Len(data) = lim
          BY <3>4, <5>2 DEF Lesser
        <5>4. PICK x \in Nat, y \in Nat : x = Len(p.taken) /\ y = Len(data)
          BY <1>4, <3>2
        <5>5. fr + (x + y) = lim
          BY <5>3, <5>4
        <5> QED  BY <3>1, <3>2, <3>5, <5>2, <5>4, <5>5
      <4>4. Heard(k, f, fr, lim, d)
        BY <1>3, <3>1, <3>3, <4>1, <4>2, <4>3 DEF Heard, Agree
      <4> QED  BY <3>1, <4>4 DEF Served
    <3> QED  BY <3>6, <3>7
  <2>13. Onward(k, f)
    BY <1>1, <2>5, <2>6, <2>11 DEF Onward, Agree
  <2> QED  BY <1>f, <2>10, <2>12, <2>13
<1> QED  BY <1>5, <1>7, <1>8, <1>9

(* Between two handlers nothing is half done. *)
Idle(p, fb, fr, lim, d) ==
  /\ Both(p, <<>>, fb, fr, lim, d)
  /\ p.busy = FALSE /\ p.recv_data = <<>> /\ p.recv_flags = {}

(* Data that was refused can be offered again. *)
LEMMA RefusedWaits ==
  ASSUME NEW fb \in Int, NEW fr \in Int, NEW lim \in Int, NEW d \in BOOLEAN,
         NEW p, Idle(p, fb, fr, lim, d), p.refused # <<>>, p.state # "TIME_WAIT",
         NEW z, z = [p EXCEPT !.refused = <<>>]
  PROVE  Waiting(p, z, p.refused, fb, fr, lim, d)
<1>e. PICK none : none = <<>>
  OBVIOUS
<1>b. Both(p, none, fb, fr, lim, d)
  BY <1>e DEF Idle
<1>1. /\ Snd(p, fb, p.written, p.closed) /\ p.written \in Nat /\ p.closed \in BOOLEAN
      /\ DOMAIN p = Fields /\ Own(p, fb) /\ Their(p, none, fr, lim, d)
  BY <1>b, BothSnd DEF Both
<1>2. p.state \notin {"CLOSED", "SYN_SENT", "TIME_WAIT"}
  BY <1>1 DEF Their
<1>3. Changes(p, z, {"refused"}) /\ z.refused = <<>>
  BY <1>1, FieldsAre DEF Changes
<1>4. Agree(p, z, {"state", "rcv_nxt", "taken", "ooseq", "eof", "failed", "written", "closed"})
  BY <1>3, FieldsAre DEF Changes, Agree
<1>5. Own(z, fb)
  <2>1. Snd(z, fb, p.written, p.closed)
    BY <1>1, <1>3, SndChanges DEF SndFields
  <2>2. Agree(p, z, OwnFields)
    BY <1>3, FieldsAre DEF Changes, Agree, OwnFields
  <2> QED  BY <1>1, <2>1, <2>2, OwnKept
<1>6. PICK data : data = p.refused
  OBVIOUS
<1>7. /\ p.taken \in Seq(Int) /\ data \in Seq(Int) /\ IsRun(data, fr + Len(p.taken))
      /\ fr + Len(p.taken) + Len(data) + Len(none) = Lesser(p.rcv_nxt, lim)
      /\ p.rcv_nxt \in fr..lim + 1
  BY <1>1, <1>2, <1>6 DEF Their
<1>n. Len(p.taken) \in Nat /\ Len(data) \in Nat
  <2>1. p.taken \in Seq(Int) /\ data \in Seq(Int)
    BY <1>7
  <2> QED  BY <2>1
<1>8. /\ fr + Len(p.taken) + Len(data) = Lesser(p.rcv_nxt, lim)
      /\ fr + Len(p.taken) + Len(data) <= lim
      /\ Len(z.refused) = 0
  <2>1. PICK x \in Nat, y \in Nat : x = Len(p.taken) /\ y = Len(data)
    BY <1>n
  <2>2. Len(none) = 0 /\ Len(z.refused) = 0
    BY <1>e, <1>3, EmptySeq
  <2>3. fr + x + y + 0 = fr + x + y /\ Lesser(p.rcv_nxt, lim) <= lim
    BY <1>7 DEF Lesser
  <2> QED  BY <1>7, <2>1, <2>2, <2>3
<1>9. fr + Len(z.taken) + Len(z.refused) + Len(data) = Lesser(z.rcv_nxt, lim)
  <2>1. PICK x \in Nat, y \in Nat : x = Len(p.taken) /\ y = Len(data)
    BY <1>n
  <2>2. fr + x + 0 + y = fr + x + y
    OBVIOUS
  <2> QED  BY <1>4, <1>8, <2>1, <2>2 DEF Agree
<1>10. OoseqOK(z, lim, d)
  BY <1>1, <1>4 DEF OoseqOK, Their, Agree
<1>11. IsRun(z.refused, fr + Len(z.taken)) /\ z.refused \in Seq(Int)
  BY <1>3, RunEmpty
<1>12. Their(z, data, fr, lim, d)
  BY <1>1, <1>2, <1>3, <1>4, <1>7, <1>8, <1>9, <1>10, <1>11 DEF Their, Agree
<1> QED  BY <1>1, <1>2, <1>3, <1>4, <1>5, <1>6, <1>12 DEF Waiting, Both, Agree

Answering(cb) ==
  /\ cb.recv \in {"consume", "take", "refuse"} /\ cb.again \in {"consume", "take", "refuse"}
  /\ cb.eof \in BOOLEAN

(* tcp_input for an active block. The block stays sound on both sides; the
   application's view only moves on; and if nothing was refused before, what
   it sees is what Served says. *)
LEMMA ActiveInputBoth ==
  ASSUME NEW fb \in Int, NEW fr \in Int, NEW n \in Nat, NEW lim \in Int, lim = fr + n,
         NEW d \in BOOLEAN, NEW p, Idle(p, fb, fr, lim, d),
         p.state \notin {"CLOSED", "TIME_WAIT"}, NEW s \in WSegs(fr, n, d),
         NEW cb, Answering(cb)
  PROVE  /\ Idle(ActiveInput(p, s, cb), fb, fr, lim, d) /\ Onward(p, ActiveInput(p, s, cb))
         /\ p.refused = <<>> /\ cb.recv # "refuse" =>
              Served(p, ActiveInput(p, s, cb), fr, lim, d)
<1>e. PICK none : none = <<>>
  OBVIOUS
<1>f. PICK f : f = ActiveInput(p, s, cb)
  OBVIOUS
<1>1. CASE p.refused # <<>> /\ cb.again = "refuse"
  <2>1. f = p
    BY <1>f, <1>1 DEF ActiveInput
  <2> QED  BY <1>f, <1>1, <2>1 DEF Onward
<1>2. CASE ~(p.refused # <<>> /\ cb.again = "refuse")
  <2>k. PICK kept : kept = IF p.refused = <<>> THEN p ELSE Offer(p, p.refused, cb.again)
    OBVIOUS
  <2>r. PICK r : r = [kept EXCEPT !.busy = TRUE]
    OBVIOUS
  <2>q. PICK q : q = Process(r, s, cb)
    OBVIOUS
  <2>g. PICK g : g = Finish(q, cb)
    OBVIOUS
  <2>1. f = [g EXCEPT !.busy = FALSE, !.recv_data = <<>>, !.recv_flags = {}]
    BY <1>f, <1>2, <2>k, <2>r, <2>q, <2>g DEF ActiveInput
  <2>2. /\ Both(kept, none, fb, fr, lim, d) /\ kept.refused = <<>> /\ kept.recv_data = <<>>
        /\ kept.recv_flags = {} /\ kept.state \notin {"CLOSED", "TIME_WAIT"}
        /\ p.refused = <<>> => kept = p
        /\ kept.written = p.written /\ kept.closed = p.closed
    <3>1. CASE p.refused = <<>>
      BY <1>e, <2>k, <3>1 DEF Idle
    <3>2. CASE p.refused # <<>>
      <4>1. PICK z : z = [p EXCEPT !.refused = <<>>]
        OBVIOUS
      <4>2. PICK data : data = p.refused
        OBVIOUS
      <4>3. Waiting(p, z, data, fb, fr, lim, d)
        BY <3>2, <4>1, <4>2, RefusedWaits
      <4>4. PICK answer \in {"consume", "take", "refuse"} : answer = cb.again
        BY DEF Answering
      <4>5. /\ Both(Offer(p, data, answer), none, fb, fr, lim, d)
            /\ Offered(p, Offer(p, data, answer), data, answer)
        BY <1>e, <4>3, OfferBoth
      <4>6. kept = Offer(p, data, answer) /\ answer # "refuse"
        BY <1>2, <2>k, <3>2, <4>2, <4>4
      <4>7. Both(kept, none, fb, fr, lim, d) /\ kept.refused = <<>> /\ Changes(p, kept, OfferFields)
        BY <4>5, <4>6 DEF Offered
      <4>8. /\ kept.recv_data = p.recv_data /\ kept.recv_flags = p.recv_flags
            /\ kept.state = p.state /\ kept.written = p.written /\ kept.closed = p.closed
        BY <4>7, FieldsAre DEF Changes, OfferFields, RecvedFields, OutputFields
      <4> QED  BY <3>2, <4>7, <4>8 DEF Idle
    <3> QED  BY <3>1, <3>2
  <2>3. /\ Snd(kept, fb, kept.written, kept.closed) /\ DOMAIN kept = Fields
        /\ kept.closed \in BOOLEAN
    BY <2>2, BothSnd
  <2>4. Changes(kept, r, {"busy"}) /\ r.busy = TRUE
    BY <2>3, <2>r, FieldsAre DEF Changes
  <2>5. Both(r, none, fb, fr, lim, d)
    <3>1. Snd(r, fb, kept.written, kept.closed) /\ {"busy"} \cap LifeFields = {}
      BY <2>3, <2>4, SndChanges DEF SndFields, LifeFields
    <3> QED  BY <2>2, <2>4, <3>1, BothKept
  <2>6. Ready(r, fb, fr, lim, d)
    <3>1. /\ r.recv_data = kept.recv_data /\ r.recv_flags = kept.recv_flags
          /\ r.refused = kept.refused /\ r.state = kept.state
      BY <2>4, FieldsAre DEF Changes
    <3> QED  BY <1>e, <2>2, <2>4, <2>5, <3>1 DEF Ready
  <2>7. Processed(r, q, fb, fr, lim, d)
    BY <2>6, <2>q, ProcessBoth
  <2>8. /\ Both(g, none, fb, fr, lim, d) /\ Onward(r, g)
        /\ cb.recv # "refuse" => Served(r, g, fr, lim, d)
    BY <1>e, <2>6, <2>7, <2>g, FinishBoth DEF Answering
  <2>9. /\ Changes(g, f, {"busy", "recv_data", "recv_flags"})
        /\ f.busy = FALSE /\ f.recv_data = <<>> /\ f.recv_flags = {}
    <3>1. DOMAIN g = Fields
      BY <2>8, BothSnd
    <3> QED  BY <2>1, <3>1, FieldsAre DEF Changes
  <2>10. Both(f, none, fb, fr, lim, d)
    <3>1. Snd(g, fb, g.written, g.closed) /\ g.closed \in BOOLEAN
      BY <2>8, BothSnd
    <3>2. /\ Snd(f, fb, g.written, g.closed)
          /\ {"busy", "recv_data", "recv_flags"} \cap LifeFields = {}
      BY <2>9, <3>1, SndChanges DEF SndFields, LifeFields
    <3> QED  BY <2>8, <2>9, <3>2, BothKept
  <2>11. ASSUME p.refused = <<>>, cb.recv # "refuse" PROVE Served(p, f, fr, lim, d)
    <3>1. Served(r, g, fr, lim, d) /\ kept = p
      BY <2>2, <2>8, <2>11
    <3>2. Agree(p, r, AppSees)
      BY <3>1, <2>4, FieldsAre DEF Changes, Agree, AppSees
    <3>3. Agree(g, f, AppSees) /\ f.refused = g.refused
      BY <2>9, FieldsAre DEF Changes, Agree, AppSees
    <3> QED  BY <3>1, <3>2, <3>3 DEF Served, Heard, Lost, Agree, AppSees
  <2>12. Onward(p, f)
    <3>1. r.written = kept.written /\ r.closed = kept.closed
      BY <2>4, FieldsAre DEF Changes
    <3>2. f.written = g.written /\ f.closed = g.closed
      BY <2>9, FieldsAre DEF Changes
    <3> QED  BY <2>2, <2>8, <3>1, <3>2 DEF Onward
  <2> QED  BY <1>e, <1>f, <2>9, <2>10, <2>11, <2>12 DEF Idle
<1> QED  BY <1>1, <1>2

-----------------------------------------------------------------------------
(* The other ends of tcp_input, and tcp_connect *)

(* A block between two handlers survives a change of fields that say nothing
   of the connection. *)
LEMMA IdleKept ==
  ASSUME NEW fb \in Int, NEW fr \in Int, NEW lim \in Int, NEW d \in BOOLEAN,
         NEW p, Idle(p, fb, fr, lim, d), NEW q, NEW S, Changes(p, q, S),
         Both(q, <<>>, fb, fr, lim, d), S \cap {"busy", "recv_data", "recv_flags"} = {}
  PROVE  Idle(q, fb, fr, lim, d)
BY FieldsAre DEF Idle, Changes

(* tcp_timewait_input acknowledges and changes nothing else. *)
LEMMA TimewaitInputBoth ==
  ASSUME NEW fb \in Int, NEW fr \in Int, NEW n \in Nat, NEW lim \in Int, lim = fr + n,
         NEW d \in BOOLEAN, NEW p, Idle(p, fb, fr, lim, d), NEW s \in WSegs(fr, n, d)
  PROVE  /\ Idle(TimewaitInput(p, s), fb, fr, lim, d)
         /\ Changes(p, TimewaitInput(p, s), OutputFields)
<1>e. PICK none : none = <<>>
  OBVIOUS
<1>z. PICK z : z = TimewaitInput(p, s)
  OBVIOUS
<1>i. PICK seq \in Int, ack \in Int : seq = s.ack /\ ack = EndSeq(s)
  BY DEF WSegs, EndSeq, TcpLen
<1>1. z = p \/ z = Reset(p, seq, ack) \/ z = AckNow(p)
  BY <1>z, <1>i DEF TimewaitInput
<1>2. Both(p, none, fb, fr, lim, d)
  BY <1>e DEF Idle
<1>3. DOMAIN p = Fields
  BY <1>2, BothSnd
<1>4. Both(z, none, fb, fr, lim, d) /\ Changes(p, z, OutputFields)
  <2>1. CASE z = p
    BY <1>2, <1>3, <2>1, ChangesNone
  <2>2. CASE z = AckNow(p)
    BY <1>2, <2>2, OutputBoth
  <2>3. CASE z = Reset(p, seq, ack)
    <3>1. Both(Reset(p, seq, ack), none, fb, fr, lim, d)
          /\ Changes(p, Reset(p, seq, ack), {"out"})
      BY <1>2, ResetBoth
    <3> QED  BY <2>3, <3>1 DEF Changes, OutputFields
  <2> QED  BY <1>1, <2>1, <2>2, <2>3
<1>5. OutputFields \cap {"busy", "recv_data", "recv_flags"} = {}
  BY DEF OutputFields
<1> QED  BY <1>e, <1>z, <1>4, <1>5, IdleKept

(* A segment that finds no block may be answered with a RST. *)
LEMMA AnsweredBoth ==
  ASSUME NEW fb \in Int, NEW fr \in Int, NEW lim \in Int, NEW d \in BOOLEAN,
         NEW p, Idle(p, fb, fr, lim, d), NEW seq \in Int, NEW ack \in Int,
         NEW z, z = p \/ z = Reset(p, seq, ack)
  PROVE  Idle(z, fb, fr, lim, d) /\ Changes(p, z, {"out"})
<1>e. PICK none : none = <<>>
  OBVIOUS
<1>1. Both(p, none, fb, fr, lim, d)
  BY <1>e DEF Idle
<1>2. DOMAIN p = Fields
  BY <1>1, BothSnd
<1>3. CASE z = p
  BY <1>2, <1>3, ChangesNone
<1>4. CASE z = Reset(p, seq, ack)
  <2>1. Both(Reset(p, seq, ack), none, fb, fr, lim, d)
        /\ Changes(p, Reset(p, seq, ack), {"out"})
    BY <1>1, ResetBoth
  <2>2. {"out"} \cap {"busy", "recv_data", "recv_flags"} = {}
    OBVIOUS
  <2> QED  BY <1>e, <1>4, <2>1, <2>2, IdleKept
<1> QED  BY <1>3, <1>4

(* The block with which a connection begins, its SYN queued. *)
OpenFields ==
  {"state", "snd_buf", "cwnd", "rcv_wnd", "rcv_ann_wnd", "snd_wl1", "snd_wl2", "snd_nxt",
   "lastack", "snd_lbb", "rcv_nxt", "rcv_ann_right_edge", "snd_wnd", "ssthresh", "mem"}

Begins(q, fb, fr) ==
  /\ Changes(Blank, q, OpenFields)
  /\ q.state = "SYN_SENT" \/ (q.state = "SYN_RCVD" /\ q.rcv_nxt = fr)
  /\ q.lastack \in Int /\ q.snd_nxt \in Int /\ q.rcv_nxt \in Int /\ q.rcv_ann_wnd \in Int
  /\ q.rcv_ann_right_edge \in Int /\ q.rcv_wnd \in Nat /\ q.snd_lbb = fb - 1

(* A new block that has queued its SYN and called tcp_output, on either end.
   *)
LEMMA BeginsBoth ==
  ASSUME NEW fb \in Int, NEW fr \in Int, NEW lim \in Int, fr <= lim, NEW d \in BOOLEAN,
         NEW q, Begins(q, fb, fr), TakesSyn(q)
  PROVE  /\ Idle(Output(WithSyn(q)), fb, fr, lim, d)
         /\ Agree(Blank, Output(WithSyn(q)), AppSees)
         /\ Output(WithSyn(q)).state = q.state
         /\ Output(WithSyn(q)).refused = <<>>
<1>e. PICK none : none = <<>>
  OBVIOUS
<1>k. PICK k : k = WithSyn(q)
  OBVIOUS
<1>z. PICK z : z = Output(k)
  OBVIOUS
<1>w. PICK w \in Nat, c \in BOOLEAN : w = 0 /\ c = FALSE
  OBVIOUS
<1>1. /\ DOMAIN q = Fields /\ q.unsent = <<>> /\ q.unacked = <<>> /\ q.out = <<>>
      /\ q.dupacks = 0 /\ q.written = 0 /\ q.closed = FALSE /\ q.taken = <<>>
      /\ q.refused = <<>> /\ q.ooseq = <<>> /\ q.eof = FALSE /\ q.failed = FALSE
      /\ q.busy = FALSE /\ q.recv_data = <<>> /\ q.recv_flags = {}
  BY FieldsAre DEF Begins, Changes, OpenFields, Blank
<1>2. Snd(q, fb, w, c) /\ q.snd_lbb = fb - 1
  <2>1. <<>> \in Seq(QSegs(fb, w, c)) /\ <<>> \in Seq(WSegs(fb, w, c))
    BY EmptySeq
  <2> QED  BY <1>1, <2>1 DEF Begins, Snd
<1>3. Snd(k, fb, w, c) /\ k.snd_lbb = fb
  <2>1. q.unsent = <<>>
    BY <1>1
  <2> QED  BY <1>k, <1>2, <2>1, EnqueueSyn
<1>4. Changes(q, k, EnqueueFields)
  <2>1. Changes(q, WithSyn(q), EnqueueFields)
    BY <1>1, EnqueueChanges DEF WithSyn
  <2> QED  BY <1>k, <2>1
<1>5. /\ k.written = 0 /\ k.closed = FALSE /\ k.taken = <<>> /\ k.refused = <<>>
      /\ k.ooseq = <<>> /\ k.eof = FALSE /\ k.failed = FALSE
      /\ k.busy = FALSE /\ k.recv_data = <<>> /\ k.recv_flags = {}
      /\ k.state = q.state /\ k.rcv_nxt = q.rcv_nxt /\ DOMAIN k = Fields
  BY <1>1, <1>4, FieldsAre DEF Changes, EnqueueFields
<1>6. Own(k, fb)
  <2>a. k.written = w /\ k.closed = c /\ c = FALSE /\ w = 0
    BY <1>5, <1>w
  <2>b. Snd(k, fb, k.written, k.closed)
    BY <1>3, <2>a
  <2>c. (IF k.closed THEN 1 ELSE 0) = 0
    BY <2>a
  <2>1. k.snd_lbb = fb + k.written + (IF k.closed THEN 1 ELSE 0)
    BY <1>3, <2>a, <2>c
  <2>2. k.state \in Opening /\ k.state # "CLOSED" /\ k.state \notin Closing
    BY <1>5 DEF Begins, Opening, Closing
  <2> QED  BY <2>a, <2>b, <2>1, <2>2 DEF Own
<1>7. Their(k, none, fr, lim, d)
  <2>1. <<>> \in Seq(Int) /\ Len(<<>>) = 0 /\ \A from : IsRun(<<>>, from)
    BY RunEmpty
  <2>2. OoseqOK(k, lim, d)
    BY <1>5, OrderedEmpty DEF OoseqOK
  <2>3. q.state = "SYN_RCVD" =>
          /\ k.rcv_nxt \in fr..lim + 1 /\ k.rcv_nxt # lim + 1
          /\ fr + 0 + 0 + 0 = Lesser(k.rcv_nxt, lim) /\ fr + 0 + 0 <= lim
    BY <1>5 DEF Begins, Lesser
  <2>4. fr + 0 <= lim
    OBVIOUS
  <2> QED  BY <1>e, <1>5, <2>1, <2>2, <2>3, <2>4 DEF Their, Begins, Ended
<1>8. Both(k, none, fb, fr, lim, d)
  BY <1>6, <1>7 DEF Both
<1>9. Both(z, none, fb, fr, lim, d) /\ Changes(k, z, OutputFields)
  BY <1>8, <1>z, OutputBoth
<1>10. /\ z.busy = FALSE /\ z.recv_data = <<>> /\ z.recv_flags = {} /\ z.refused = <<>>
       /\ z.state = q.state
       /\ z.written = 0 /\ z.taken = <<>> /\ z.closed = FALSE /\ z.eof = FALSE
       /\ z.failed = FALSE
  BY <1>5, <1>9, FieldsAre DEF Changes, OutputFields
<1>11. Agree(Blank, z, AppSees)
  <2>1. /\ Blank.written = 0 /\ Blank.taken = <<>> /\ Blank.closed = FALSE
        /\ Blank.eof = FALSE /\ Blank.failed = FALSE
    BY DEF Blank
  <2> QED  BY <1>10, <2>1 DEF Agree, AppSees
<1> QED  BY <1>e, <1>k, <1>z, <1>9, <1>10, <1>11 DEF Idle

(* tcp_connect from a closed block. *)
LEMMA ConnectBoth ==
  ASSUME NEW fb \in Int, NEW fr \in Int, NEW lim \in Int, fr <= lim, NEW d \in BOOLEAN,
         NEW p, Changes(Blank, p, {})
  PROVE  /\ Idle(Connect(p, fb), fb, fr, lim, d) /\ Agree(p, Connect(p, fb), AppSees)
         /\ Connect(p, fb).state = "SYN_SENT" /\ Connect(p, fb).refused = <<>>
<1>a. PICK a : a = Alloc(p, fb)
  OBVIOUS
<1>q. PICK q : q = [a EXCEPT
         !.state = "SYN_SENT", !.lastack = fb - 1, !.snd_lbb = fb - 1,
         !.rcv_ann_right_edge = 0, !.snd_wnd = TCP_WND, !.ssthresh = 10 * MSS]
  OBVIOUS
<1>1. Connect(p, fb) = Output(WithSyn(q))
  BY <1>a, <1>q DEF Connect, WithSyn
<1>2. /\ Changes(p, a, OpenFields) /\ a.snd_nxt = fb /\ a.rcv_nxt = p.rcv_nxt
      /\ a.rcv_ann_wnd = TCP_WND /\ a.rcv_wnd = TCP_WND /\ a.snd_buf = TCP_SND_BUF
      /\ a.snd_queuelen = p.snd_queuelen /\ a.mem = p.mem
  BY <1>a, FieldsAre DEF Changes, OpenFields, Alloc
<1>3. /\ Changes(a, q, OpenFields) /\ q.state = "SYN_SENT" /\ q.lastack = fb - 1
      /\ q.snd_nxt = fb /\ q.rcv_nxt = p.rcv_nxt /\ q.rcv_ann_wnd = TCP_WND
      /\ q.rcv_wnd = TCP_WND /\ q.rcv_ann_right_edge = 0 /\ q.snd_lbb = fb - 1
      /\ q.snd_buf = TCP_SND_BUF /\ q.snd_queuelen = p.snd_queuelen /\ q.mem = p.mem
  BY <1>q, <1>2, FieldsAre DEF Changes, OpenFields
<1>4. p.rcv_nxt = 0 /\ p.snd_queuelen = 0 /\ p.mem = TRUE
  BY FieldsAre DEF Changes, Blank
<1>5. Changes(Blank, q, OpenFields)
  BY <1>2, <1>3 DEF Changes
<1>6. Begins(q, fb, fr)
  <2>1. TCP_WND \in Nat
    BY WndAssumption
  <2> QED  BY <1>3, <1>4, <1>5, <2>1 DEF Begins
<1>7. TakesSyn(q)
  <2>1. q.snd_lbb \in Int /\ q.snd_buf \in Nat
    BY <1>3, OutAssumption
  <2> QED  BY <1>3, <1>4, <2>1, AcceptsSyn
<1>8. PICK z : z = Output(WithSyn(q))
  OBVIOUS
<1>9. Idle(z, fb, fr, lim, d) /\ Agree(Blank, z, AppSees) /\ z.state = q.state /\ z.refused = <<>>
  BY <1>6, <1>7, <1>8, BeginsBoth
<1>10. Agree(p, z, AppSees)
  BY <1>9, FieldsAre DEF Changes, Agree, AppSees
<1> QED  BY <1>1, <1>3, <1>8, <1>9, <1>10

(* What becomes of a block that had no connection: it stays as it is but for
   what it sends, or a connection begins. *)
Fresh(p, q) ==
  \/ Changes(p, q, {"out", "mem"})
  \/ Agree(p, q, AppSees) /\ q.state # "CLOSED" /\ q.refused = <<>>

(* tcp_listen_input: without a free block, or on a segment that is no SYN,
   the listening side stays closed; otherwise a new block answers. *)
LEMMA ListenInputBoth ==
  ASSUME NEW fb \in Int, NEW fr \in Int, NEW n \in Nat, NEW lim \in Int, lim = fr + n,
         NEW d \in BOOLEAN, NEW p, Idle(p, fb, fr, lim, d), NEW s \in WSegs(fr, n, d),
         NEW iss \in Int, fb = iss + 1, NEW free \in BOOLEAN,
         free => Changes(Blank, p, {"mem"})
  PROVE  /\ Idle(ListenInput(p, s, iss, free), fb, fr, lim, d)
         /\ Fresh(p, ListenInput(p, s, iss, free))
<1>e. PICK none : none = <<>>
  OBVIOUS
<1>z. PICK z : z = ListenInput(p, s, iss, free)
  OBVIOUS
<1>q. PICK q : q = [Alloc(p, iss) EXCEPT
                      !.state = "SYN_RCVD",
                      !.rcv_nxt = s.seq + 1, !.rcv_ann_right_edge = s.seq + 1,
                      !.snd_wnd = s.wnd, !.ssthresh = s.wnd, !.snd_wl1 = s.seq - 1]
  OBVIOUS
<1>i. PICK seq \in Int, ack \in Int : seq = s.ack + 1 /\ ack = EndSeq(s)
  BY DEF WSegs, EndSeq, TcpLen
<1>1. \/ z = p \/ z = Reset(p, seq, ack)
      \/ /\ "SYN" \in s.fl /\ free
         /\ z = IF TakesSyn(q)
                  THEN Output(WithSyn(q)) ELSE Freed(q)
  BY <1>z, <1>i, <1>q DEF ListenInput, WithSyn, TakesSyn
<1>2. CASE z = p \/ z = Reset(p, seq, ack)
  <2>1. Idle(z, fb, fr, lim, d) /\ Changes(p, z, {"out"})
    BY <1>2, AnsweredBoth
  <2> QED  BY <1>z, <2>1 DEF Fresh, Changes
<1>3. CASE /\ "SYN" \in s.fl /\ free
           /\ z = IF TakesSyn(q)
                    THEN Output(WithSyn(q)) ELSE Freed(q)
  <2>1. Changes(Blank, p, {"mem"}) /\ s.seq = fr - 1
    BY <1>3 DEF WSegs
  <2>2. /\ Changes(Blank, q, OpenFields) /\ q.state = "SYN_RCVD" /\ q.lastack = iss
        /\ q.snd_nxt = iss /\ q.rcv_nxt = fr /\ q.rcv_ann_wnd = TCP_WND
        /\ q.rcv_wnd = TCP_WND /\ q.rcv_ann_right_edge = fr /\ q.snd_lbb = fb - 1
    <3>1. DOMAIN p = Fields
      BY <2>1 DEF Changes
    <3>2. s.seq + 1 = fr /\ iss = fb - 1
      BY <2>1
    <3>3. PICK a : a = Alloc(p, iss)
      OBVIOUS
    <3>4. /\ Changes(p, a, OpenFields) /\ a.lastack = iss /\ a.snd_nxt = iss
          /\ a.rcv_ann_wnd = TCP_WND /\ a.rcv_wnd = TCP_WND /\ a.snd_lbb = iss
      BY <3>1, <3>3, FieldsAre DEF Changes, OpenFields, Alloc
    <3>5. /\ Changes(a, q, OpenFields) /\ q.lastack = iss /\ q.snd_nxt = iss
          /\ q.rcv_ann_wnd = TCP_WND /\ q.rcv_wnd = TCP_WND /\ q.snd_lbb = iss
          /\ q.state = "SYN_RCVD" /\ q.rcv_nxt = s.seq + 1
          /\ q.rcv_ann_right_edge = s.seq + 1
      BY <1>q, <3>3, <3>4, FieldsAre DEF Changes, OpenFields
    <3>6. Changes(Blank, q, OpenFields)
      BY <2>1, <3>4, <3>5 DEF Changes, OpenFields
    <3> QED  BY <3>2, <3>5, <3>6
  <2>3. Begins(q, fb, fr)
    BY <2>2, WndAssumption DEF Begins
  <2>4. CASE TakesSyn(q)
    <3>1. fr <= lim /\ z = Output(WithSyn(q))
      BY <1>3, <2>4
    <3>2. /\ Idle(z, fb, fr, lim, d) /\ Agree(Blank, z, AppSees) /\ z.state = q.state
          /\ z.refused = <<>>
      BY <2>3, <2>4, <3>1, BeginsBoth
    <3>3. Agree(p, z, AppSees)
      BY <2>1, <3>2, FieldsAre DEF Changes, Agree, AppSees
    <3> QED  BY <1>z, <2>2, <3>2, <3>3 DEF Fresh
  <2>5. CASE ~TakesSyn(q)
    <3>1. z = Freed(q)
      BY <1>3, <2>5
    <3>2. \A f \in AppFields \cup {"out"} : q[f] = Blank[f]
      BY <2>2, FieldsAre DEF Changes, AppFields, OpenFields
    <3>3. DOMAIN z = Fields /\ \A f \in Fields : z[f] = Blank[f]
      BY <3>1, <3>2, FreedIs
    <3>4. Changes(p, z, {"mem"})
      BY <2>1, <3>3, FieldsAre DEF Changes
    <3>5. Both(p, none, fb, fr, lim, d)
      BY <1>e DEF Idle
    <3>6. Both(z, none, fb, fr, lim, d)
      <4>1. Snd(p, fb, p.written, p.closed) /\ p.closed \in BOOLEAN
        BY <3>5, BothSnd
      <4>2. Snd(z, fb, p.written, p.closed) /\ {"mem"} \cap LifeFields = {}
        BY <3>4, <4>1, SndChanges DEF SndFields, LifeFields
      <4> QED  BY <3>4, <3>5, <4>2, BothKept
    <3>7. Idle(z, fb, fr, lim, d)
      BY <1>e, <3>4, <3>6, FieldsAre DEF Idle, Changes
    <3> QED  BY <1>z, <3>4, <3>7 DEF Fresh, Changes
  <2> QED  BY <2>4, <2>5
<1> QED  BY <1>1, <1>2, <1>3

=============================================================================
