-------------------------- MODULE ByteStream_proofs -------------------------
(***************************************************************************)
(* The byte stream delivers what was written, in order, and announces the  *)
(* end only when it is reached, for any two ends and any amount of data.   *)
(***************************************************************************)
EXTENDS ByteStream, TLAPS

StreamType ==
  /\ Limit \in Nat
  /\ written \in [Ends -> Nat]
  /\ taken \in [Ends -> Seq(Nat)]
  /\ closed \in [Ends -> BOOLEAN]
  /\ eof \in [Ends -> BOOLEAN]
  /\ failed \in [Ends -> BOOLEAN]

StreamInv == StreamType /\ InOrder /\ EofIsEnd

(* The bytes 1 to n are a sequence. *)
LEMMA Prefix ==
  ASSUME NEW n \in Nat
  PROVE  LET s == [i \in 1..n |-> i]
         IN  s \in Seq(Nat) /\ Len(s) = n /\ \A i \in 1..n : s[i] = i
  OBVIOUS

(* The other end is an end. *)
LEMMA OtherEnd == \A e \in Ends : Other(e) \in Ends
  BY DEF Ends, Other

(* Nothing is promised at the start. *)
LEMMA StreamStart == ASSUME Limit \in Nat, Init PROVE StreamInv
<1>1. StreamType
  BY DEF Init, StreamType
<1>2. InOrder /\ EofIsEnd
  BY OtherEnd DEF Init, InOrder, EofIsEnd
<1> QED
  BY <1>1, <1>2 DEF StreamInv

(* A write is impossible once the writer closed, so it leaves an announced
   end where it was. *)
LEMMA WriteStep ==
  ASSUME StreamInv, NEW e \in Ends, Write(e) PROVE StreamInv'
<1>1. PICK n \in written[e] + 1 .. Limit :
        /\ ~closed[e]
        /\ written' = [written EXCEPT ![e] = n]
        /\ UNCHANGED <<taken, closed, eof, failed>>
  BY DEF Write
<1>2. n \in Nat /\ n > written[e]
  BY <1>1, SMT DEF StreamInv, StreamType
<1>3. \A x \in Ends : written'[x] = IF x = e THEN n ELSE written[x]
  BY <1>1 DEF StreamInv, StreamType
<1>4. StreamType'
  BY <1>1, <1>2 DEF StreamInv, StreamType
<1>5. InOrder'
  BY <1>1, <1>2, <1>3, OtherEnd, SMT DEF StreamInv, StreamType, InOrder
<1>6. EofIsEnd'
  BY <1>1, <1>3, OtherEnd DEF StreamInv, EofIsEnd
<1> QED
  BY <1>4, <1>5, <1>6 DEF StreamInv

(* What both Receive and Fail do to the data of e. *)
LEMMA Taking ==
  ASSUME StreamInv, NEW e \in Ends,
         NEW n \in Len(taken[e]) .. written[Other(e)],
         taken' = [taken EXCEPT ![e] = [i \in 1..n |-> i]],
         UNCHANGED written
  PROVE  /\ n \in Nat
         /\ taken' \in [Ends -> Seq(Nat)]
         /\ \A x \in Ends : Len(taken'[x]) = IF x = e THEN n ELSE Len(taken[x])
         /\ InOrder'
<1>1. n \in Nat /\ n <= written[Other(e)]
  BY OtherEnd, SMT DEF StreamInv, StreamType
<1>2. \A x \in Ends : taken'[x] = IF x = e THEN [i \in 1..n |-> i] ELSE taken[x]
  BY DEF StreamInv, StreamType
<1>3. \A x \in Ends : taken'[x] \in Seq(Nat)
  BY <1>1, <1>2, Prefix DEF StreamInv, StreamType
<1>4. \A x \in Ends : Len(taken'[x]) = IF x = e THEN n ELSE Len(taken[x])
  <2>1. Len([i \in 1..n |-> i]) = n
    BY <1>1, Prefix
  <2>2. taken'[e] = [i \in 1..n |-> i]
    BY <1>2
  <2>3. \A x \in Ends : x # e => taken'[x] = taken[x]
    BY <1>2
  <2>4. Len(taken'[e]) = n
    BY <2>1, <2>2, Zenon
  <2>5. \A x \in Ends : x # e => Len(taken'[x]) = Len(taken[x])
    BY <2>3, Zenon
  <2> QED
    BY <2>4, <2>5
<1>5. InOrder'
  BY <1>1, <1>2, <1>4, Prefix, OtherEnd DEF StreamInv, InOrder
<1>6. taken' \in [Ends -> Seq(Nat)]
  BY <1>3 DEF StreamInv, StreamType
<1> QED
  BY <1>1, <1>4, <1>5, <1>6

(* The end is announced when all is taken, and only then. *)
LEMMA ReceiveStep ==
  ASSUME StreamInv, NEW e \in Ends, Receive(e) PROVE StreamInv'
<1>1. PICK n \in Len(taken[e]) .. written[Other(e)], end \in BOOLEAN, close \in BOOLEAN :
        /\ ~eof[e]
        /\ end => closed[Other(e)] /\ n = written[Other(e)]
        /\ taken' = [taken EXCEPT ![e] = [i \in 1..n |-> i]]
        /\ eof' = [eof EXCEPT ![e] = end]
        /\ closed' = [closed EXCEPT ![e] = @ \/ close]
        /\ UNCHANGED <<written, failed>>
  BY DEF Receive
<1>2. /\ taken' \in [Ends -> Seq(Nat)]
      /\ \A x \in Ends : Len(taken'[x]) = IF x = e THEN n ELSE Len(taken[x])
      /\ InOrder'
  BY <1>1, Taking
<1>3. /\ closed' \in [Ends -> BOOLEAN]
      /\ \A x \in Ends : closed[x] => closed'[x]
  BY <1>1, Zenon DEF StreamInv, StreamType
<1>4. /\ eof' \in [Ends -> BOOLEAN]
      /\ \A x \in Ends : eof'[x] = IF x = e THEN end ELSE eof[x]
  BY <1>1, Zenon DEF StreamInv, StreamType
<1>5. StreamType'
  BY <1>1, <1>2, <1>3, <1>4 DEF StreamInv, StreamType
<1>6. EofIsEnd'
  <2> SUFFICES ASSUME NEW x \in Ends, eof'[x]
               PROVE  closed'[Other(x)] /\ Len(taken'[x]) = written'[Other(x)]
    BY DEF EofIsEnd
  <2>1. CASE x = e
    BY <1>1, <1>2, <1>3, <1>4, <2>1, OtherEnd
  <2>2. CASE x # e
    BY <1>1, <1>2, <1>3, <1>4, <2>2, OtherEnd DEF StreamInv, EofIsEnd
  <2> QED
    BY <2>1, <2>2
<1> QED
  BY <1>2, <1>5, <1>6 DEF StreamInv

(* A failure may give away data that waited, but no more than was written. *)
LEMMA FailStep ==
  ASSUME StreamInv, NEW e \in Ends, Fail(e) PROVE StreamInv'
<1>1. PICK n \in Len(taken[e]) .. written[Other(e)] :
        /\ taken' = [taken EXCEPT ![e] = [i \in 1..n |-> i]]
        /\ failed' = [failed EXCEPT ![e] = TRUE]
        /\ UNCHANGED <<written, closed, eof>>
  BY DEF Fail
<1>2. /\ taken' \in [Ends -> Seq(Nat)]
      /\ \A x \in Ends : Len(taken'[x]) = IF x = e THEN n ELSE Len(taken[x])
      /\ InOrder'
  BY <1>1, Taking
<1>3. StreamType'
  BY <1>1, <1>2 DEF StreamInv, StreamType
<1>4. Len(taken[e]) \in Nat /\ written[Other(e)] \in Nat
  BY OtherEnd DEF StreamInv, StreamType
<1>5. eof[e] => n = written[Other(e)]
  BY <1>4, SMT DEF StreamInv, EofIsEnd
<1>6. EofIsEnd'
  BY <1>1, <1>2, <1>5 DEF StreamInv, EofIsEnd
<1> QED
  BY <1>2, <1>3, <1>6 DEF StreamInv

(* Closing changes nothing the other end relies on. *)
LEMMA CloseStep ==
  ASSUME StreamInv, NEW e \in Ends, Close(e) PROVE StreamInv'
<1>1. /\ closed' \in [Ends -> BOOLEAN]
      /\ \A x \in Ends : closed[x] => closed'[x]
  BY Zenon DEF Close, StreamInv, StreamType
<1>2. UNCHANGED <<written, taken, eof, failed>>
  BY DEF Close
<1> QED
  BY <1>1, <1>2, OtherEnd DEF StreamInv, StreamType, InOrder, EofIsEnd

(* Every reachable state has the invariant. *)
THEOREM StreamInvariant == ASSUME Limit \in Nat PROVE Spec => []StreamInv
<1>1. Init => StreamInv
  BY StreamStart
<1>2. StreamInv /\ [Next]_vars => StreamInv'
  <2> SUFFICES ASSUME StreamInv, [Next]_vars PROVE StreamInv'
    OBVIOUS
  <2>1. ASSUME NEW e \in Ends, Write(e) \/ Close(e) \/ Receive(e) \/ Fail(e)
        PROVE  StreamInv'
    BY <2>1, WriteStep, CloseStep, ReceiveStep, FailStep
  <2>2. CASE UNCHANGED vars
    BY <2>2 DEF vars, StreamInv, StreamType, InOrder, EofIsEnd
  <2> QED
    BY <2>1, <2>2 DEF Next
<1> QED
  BY <1>1, <1>2, PTL DEF Spec

(* What an end took is a prefix of what its peer wrote, and the whole of it
   once the end of the stream was announced. *)
THEOREM StreamDelivers == ASSUME Limit \in Nat PROVE Spec => [](InOrder /\ EofIsEnd)
<1>1. StreamInv => InOrder /\ EofIsEnd
  BY DEF StreamInv
<1> QED
  BY <1>1, StreamInvariant, PTL

=============================================================================
