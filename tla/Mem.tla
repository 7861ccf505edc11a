-------------------------------- MODULE Mem ---------------------------------
(***************************************************************************)
(* The heap of the stack (core/mem.c), which holds the pbufs of what is    *)
(* sent.                                                                   *)
(*                                                                         *)
(* A struct mem stands before every area of ram, used or not, and links it *)
(* with the next and the previous one; the last, at MEM_SIZE, stands for   *)
(* the end.  Addresses are offsets into ram.  What was a struct mem and is *)
(* not in the list any more is forgotten.                                  *)
(***************************************************************************)
EXTENDS Integers

CONSTANTS
  MEM_SIZE,            \* MEM_SIZE_ALIGNED
  SIZEOF_STRUCT_MEM,
  MIN_SIZE,            \* MIN_SIZE_ALIGNED
  Sizes                \* what is asked for, aligned

ASSUME MemAssumption ==
  /\ SIZEOF_STRUCT_MEM \in Nat \ {0} /\ MIN_SIZE \in Nat
  /\ MEM_SIZE \in Nat /\ MEM_SIZE >= SIZEOF_STRUCT_MEM + MIN_SIZE
  /\ Sizes \subseteq Nat \ {0}

VARIABLES
  ram,      \* from the address of each struct mem of the list to next, prev, used
  lfree,    \* the lowest that is not used
  refused   \* the size that was asked for last, if in vain; or 0

memVars == <<ram, lfree, refused>>

(* mem_init *)
MemInit ==
  /\ ram = [p \in {0, MEM_SIZE} |-> [next |-> MEM_SIZE, prev |-> p, used |-> p = MEM_SIZE]]
  /\ lfree = 0
  /\ refused = 0

AtLeastMin(n) == IF n < MIN_SIZE THEN MIN_SIZE ELSE n

Lowest(S) == {p \in S : \A q \in S : p <= q}

(* A new struct between those at p and next, in place of any that was. *)
Placed(r, p, new, next) ==
  [q \in {a \in DOMAIN r : a <= p \/ a >= next} \cup {new} |->
     IF q = new THEN [next |-> next, prev |-> p, used |-> FALSE]
     ELSE IF q = p THEN [r[p] EXCEPT !.next = new]
     ELSE IF q = next /\ next # MEM_SIZE THEN [r[q] EXCEPT !.prev = new]
     ELSE r[q]]

(* The list without the struct after the one at p. *)
Unlinked(r, p) ==
  LET gone == r[p].next
  IN  [q \in DOMAIN r \ {gone} |->
         IF q = p THEN [r[p] EXCEPT !.next = r[gone].next]
         ELSE IF q = r[gone].next THEN [r[q] EXCEPT !.prev = p]
         ELSE r[q]]

Marked(r, p, used) == [r EXCEPT ![p].used = used]

-----------------------------------------------------------------------------
(* mem_malloc *)

Room(p) == ram[p].next - (p + SIZEOF_STRUCT_MEM)

(* The scan goes up from lfree. *)
Fitting(size) ==
  {p \in DOMAIN ram : /\ lfree <= p /\ p < MEM_SIZE - size
                      /\ ~ram[p].used /\ Room(p) >= size}

IsSplit(p, size) == Room(p) >= size + SIZEOF_STRUCT_MEM + MIN_SIZE

Allocate(p, size) ==
  LET r == IF IsSplit(p, size) THEN Placed(ram, p, p + SIZEOF_STRUCT_MEM + size, ram[p].next)
           ELSE ram
  IN  /\ ram' = Marked(r, p, TRUE)
      /\ IF p = lfree
         THEN lfree' \in Lowest({q \in DOMAIN ram' : q >= p /\ (~ram'[q].used \/ q = MEM_SIZE)})
         ELSE UNCHANGED lfree
      /\ refused' = 0

mem_malloc(n) ==
  \/ \E p \in Lowest(Fitting(AtLeastMin(n))) : Allocate(p, AtLeastMin(n))
  \/ Fitting(AtLeastMin(n)) = {} /\ refused' = n /\ UNCHANGED <<ram, lfree>>

-----------------------------------------------------------------------------
(* mem_free *)

JoinsNext(r, p) == r[p].next # p /\ ~r[r[p].next].used /\ r[p].next # MEM_SIZE

JoinsPrev(r, p) == r[p].prev # p /\ ~r[r[p].prev].used

(* plug_holes: forward, then backward. *)
PlugNext(r, p) == IF JoinsNext(r, p) THEN Unlinked(r, p) ELSE r
PlugPrev(r, p) == IF JoinsPrev(r, p) THEN Unlinked(r, r[p].prev) ELSE r

LfreeNext(r, l, p) == IF JoinsNext(r, p) /\ l = r[p].next THEN p ELSE l
LfreePrev(r, l, p) == IF JoinsPrev(r, p) /\ l = p THEN r[p].prev ELSE l

(* Bug: lfree stays where the search ended last. *)
LowerKept(p) == lfree

Lower(p) == IF p < lfree THEN p ELSE lfree

mem_free(p) ==
  LET r == Marked(ram, p, FALSE)
      s == PlugNext(r, p)
  IN  /\ ram' = PlugPrev(s, p)
      /\ lfree' = LfreePrev(s, LfreeNext(r, Lower(p), p), p)
      /\ refused' = 0

-----------------------------------------------------------------------------
(* mem_realloc, which only shrinks *)

(* The hole after the block begins earlier. *)
MoveHole(p, new) ==
  /\ ram' = Placed(ram, p, new, ram[ram[p].next].next)
  /\ lfree' = IF lfree = ram[p].next THEN new ELSE lfree

(* A hole is made after the block. *)
MakeHole(p, new) ==
  /\ ram' = Placed(ram, p, new, ram[p].next)
  /\ lfree' = Lower(new)

mem_realloc(p, n) ==
  LET size == AtLeastMin(n)
      new  == p + SIZEOF_STRUCT_MEM + size
  IN  /\ size < Room(p)
      /\ \/ ~ram[ram[p].next].used /\ MoveHole(p, new)
         \/ ram[ram[p].next].used /\ IsSplit(p, size) /\ MakeHole(p, new)
      /\ refused' = 0

Used == {p \in DOMAIN ram : ram[p].used /\ p # MEM_SIZE}

MemNext ==
  \/ \E n \in Sizes : mem_malloc(n)
  \/ \E p \in Used : mem_free(p) \/ \E n \in Sizes : mem_realloc(p, n)

MemSpec == MemInit /\ [][MemNext]_memVars

-----------------------------------------------------------------------------
(* Properties *)

(* The list: it goes up from 0 to the end without leaving anything out, each  *)
(* struct but that of the end is linked back, and every area holds MIN_SIZE.  *)
MemTypeOK ==
  /\ {0, MEM_SIZE} \subseteq DOMAIN ram /\ DOMAIN ram \subseteq 0..MEM_SIZE
  /\ lfree \in DOMAIN ram /\ refused \in Sizes \cup {0}
  /\ \A p \in DOMAIN ram \ {MEM_SIZE} :
       /\ ram[p].next \in DOMAIN ram
       /\ p + SIZEOF_STRUCT_MEM + MIN_SIZE <= ram[p].next
       /\ ram[p].next # MEM_SIZE => ram[ram[p].next].prev = p
       /\ \A q \in DOMAIN ram : p < q => ram[p].next <= q

(* plug_holes: "there should not exist one empty struct mem pointing to       *)
(* another empty struct mem"; and lfree is the lowest of them.                *)
HolesApart ==
  \A p \in DOMAIN ram : ~ram[p].used =>
    /\ ram[ram[p].next].used
    /\ lfree <= p

Held == {<<p, ram[p].next>> : p \in Used}

(* The heap keeps its promise: blocks are apart, freed and shrunk as asked,   *)
(* and a request is refused only when no gap between blocks, however it came  *)
(* about, could hold it.                                                      *)
H == INSTANCE Heap WITH blocks <- Held

ImplementsHeap == H!HeapSpec
=============================================================================
