----------------------------- MODULE ByteStream -----------------------------
(***************************************************************************)
(* What a connection promises the two applications that use it, whatever   *)
(* the network does: a stream of bytes in each direction.                  *)
(*                                                                         *)
(* The i-th byte an end writes is byte i.  One handler of the stack may    *)
(* give the application data, tell it of the end of the stream, and have   *)
(* it close its own direction, so Receive does all three in one step.      *)
(***************************************************************************)
EXTENDS Naturals, Sequences

CONSTANTS A, B, Limit   \* the two ends; bound: the bytes each may write

Ends == {A, B}
Other(e) == IF e = A THEN B ELSE A

VARIABLES
  written,  \* how many bytes the application of each end wrote
  taken,    \* the bytes it took
  closed,   \* whether it closed its direction
  eof,      \* whether it was told of the end of the peer's
  failed    \* whether it was told that the connection failed

vars == <<written, taken, closed, eof, failed>>

Init ==
  /\ written = [e \in Ends |-> 0]
  /\ taken   = [e \in Ends |-> <<>>]
  /\ closed  = [e \in Ends |-> FALSE]
  /\ eof     = [e \in Ends |-> FALSE]
  /\ failed  = [e \in Ends |-> FALSE]

Write(e) ==
  \E n \in written[e] + 1 .. Limit :
    /\ ~closed[e] /\ ~failed[e]
    /\ written' = [written EXCEPT ![e] = n]
    /\ UNCHANGED <<taken, closed, eof, failed>>

Close(e) ==
  /\ ~closed[e] /\ ~failed[e]
  /\ closed' = [closed EXCEPT ![e] = TRUE]
  /\ UNCHANGED <<written, taken, eof, failed>>

(* e takes more of what the peer wrote; "end" says that this is all there
   will be, "close" that e closes on hearing it. *)
Receive(e) ==
  \E n \in Len(taken[e]) .. written[Other(e)], end, close \in BOOLEAN :
    /\ ~failed[e] /\ ~eof[e]
    /\ end => closed[Other(e)] /\ n = written[Other(e)]
    /\ close => end /\ ~closed[e]
    /\ taken' = [taken EXCEPT ![e] = [i \in 1..n |-> i]]
    /\ eof' = [eof EXCEPT ![e] = end]
    /\ closed' = [closed EXCEPT ![e] = @ \/ close]
    /\ UNCHANGED <<written, failed>>

(* Data that waited may still be taken when the connection fails. *)
Fail(e) ==
  \E n \in Len(taken[e]) .. written[Other(e)] :
    /\ ~failed[e]
    /\ taken' = [taken EXCEPT ![e] = [i \in 1..n |-> i]]
    /\ failed' = [failed EXCEPT ![e] = TRUE]
    /\ UNCHANGED <<written, closed, eof>>

Next == \E e \in Ends : Write(e) \/ Close(e) \/ Receive(e) \/ Fail(e)

Spec == Init /\ [][Next]_vars

-----------------------------------------------------------------------------
(* Each end has taken the bytes 1, 2, 3, ... of its peer, none that the peer
   did not write. *)
InOrder ==
  \A e \in Ends :
    /\ Len(taken[e]) <= written[Other(e)]
    /\ \A i \in 1..Len(taken[e]) : taken[e][i] = i

(* An end that was told of the end of the stream has all of it. *)
EofIsEnd ==
  \A e \in Ends : eof[e] => closed[Other(e)] /\ Len(taken[e]) = written[Other(e)]

=============================================================================
