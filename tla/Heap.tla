-------------------------------- MODULE Heap --------------------------------
(***************************************************************************)
(* What the heap (mem.c) promises its callers: blocks that do not overlap, *)
(* and a refusal only when there is no room for the block anywhere.  It    *)
(* knows no list, no headers and no search.                                *)
(***************************************************************************)
EXTENDS Integers

CONSTANTS
  MEM_SIZE,            \* the bytes of the heap
  SIZEOF_STRUCT_MEM,   \* what a block costs beyond what was asked for
  MIN_SIZE,            \* the least that is given
  Sizes                \* what is asked for

VARIABLES
  blocks,   \* the pairs of the first byte of a block and the first after it
  refused   \* the size that was asked for last, if in vain; or 0

heapVars == <<blocks, refused>>

HeapInit == blocks = {} /\ refused = 0

AtLeastMin(n) == IF n < MIN_SIZE THEN MIN_SIZE ELSE n

Span(n) == SIZEOF_STRUCT_MEM + AtLeastMin(n)

Vacant(a, b) == \A k \in blocks : b <= k[1] \/ k[2] <= a

(* The new block is somewhere, and apart from the others. *)
Get(n) ==
  /\ refused' = 0
  /\ \E k \in blocks' \ blocks :
       /\ blocks' = blocks \cup {k}
       /\ k \in (0..MEM_SIZE) \X (0..MEM_SIZE)
       /\ k[1] + Span(n) <= k[2] /\ Vacant(k[1], k[2])

Refuse(n) ==
  /\ refused' = n
  /\ \A a \in 0..MEM_SIZE : a + Span(n) <= MEM_SIZE => ~Vacant(a, a + Span(n))
  /\ UNCHANGED blocks

Give(k) == blocks' = blocks \ {k} /\ refused' = 0

Shrink(k, n) ==
  /\ \E b \in 0..k[2] : k[1] + Span(n) <= b /\ blocks' = (blocks \ {k}) \cup {<<k[1], b>>}
  /\ refused' = 0

HeapNext ==
  \/ \E n \in Sizes : Get(n) \/ Refuse(n)
  \/ \E k \in blocks : Give(k) \/ \E n \in Sizes : Shrink(k, n)

HeapSpec == HeapInit /\ [][HeapNext]_heapVars
=============================================================================
