-------------------------- MODULE Resources_proofs --------------------------
(***************************************************************************)
(* Proofs about the parts of Resources, for every value of their           *)
(* constants: the heap, the pbufs, the pool of control blocks and the DNS  *)
(* client here, the receive window in a module of its own, and all of them *)
(* side by side at the end.                                                *)
(*                                                                         *)
(* The pool: a block is at one place, in the pool, on one list, or in the  *)
(* hand of what moves it.  A list is what its head leads to: nothing leads *)
(* back to the head, and no two blocks to one.  A walk of the timers is at *)
(* a block of its list or at the end, prev is the block before it, and     *)
(* what is due is what the block leads to.                                 *)
(*                                                                         *)
(* The DNS client: its types, that a request ends in time and with its     *)
(* callback (RequestsEnd), and that an address goes with the name it was   *)
(* given for, as far as names are compared (AddressesRight).               *)
(***************************************************************************)
EXTENDS Resources, RcvWindow_proofs, FiniteSetTheorems, SequenceTheorems,
        WellFoundedInduction, TLAPS

-----------------------------------------------------------------------------
(* The heap, for every size of it, of a struct mem, of the least block and of
   the requests.

   The inductive invariant is MemTypeOK and HolesApart with two more parts:
   the first struct has no other before it, and every byte of the heap lies in
   an area of the list.  Without the latter nothing would follow from a search
   that finds no hole, nor would a hole that is freed be known to have a
   neighbour that it can be joined with. *)

Struct == [next : 0..MEM_SIZE, prev : 0..MEM_SIZE, used : BOOLEAN]

(* The struct at p, which is not that of the end, in its place. *)
InPlace(r, p) ==
  /\ r[p].next \in DOMAIN r
  /\ p + SIZEOF_STRUCT_MEM + MIN_SIZE <= r[p].next
  /\ r[p].next # MEM_SIZE => r[r[p].next].prev = p
  /\ \A q \in DOMAIN r : p < q => r[p].next <= q

List(r) ==
  /\ r \in [DOMAIN r -> Struct]
  /\ 0 \in DOMAIN r /\ MEM_SIZE \in DOMAIN r /\ DOMAIN r \subseteq 0..MEM_SIZE
  /\ r[MEM_SIZE].used /\ r[0].prev = 0
  /\ \A p \in DOMAIN r \ {MEM_SIZE} : InPlace(r, p)
  /\ \A a \in 0..(MEM_SIZE - 1) : \E p \in DOMAIN r : p <= a /\ a < r[p].next

(* After a hole comes no other. *)
Apart(r) == \A q \in DOMAIN r : ~r[q].used => r[r[q].next].used

IsLowest(r, l) == l \in DOMAIN r /\ \A q \in DOMAIN r : ~r[q].used => l <= q

MemInv ==
  /\ List(ram) /\ Apart(ram) /\ IsLowest(ram, lfree)
  /\ refused \in Sizes \cup {0}

-----------------------------------------------------------------------------
(* Lists *)

LEMMA MemConstants ==
  /\ SIZEOF_STRUCT_MEM \in Nat /\ SIZEOF_STRUCT_MEM > 0 /\ MIN_SIZE \in Nat
  /\ MEM_SIZE \in Nat /\ MEM_SIZE >= SIZEOF_STRUCT_MEM + MIN_SIZE
  /\ \A n \in Sizes : n \in Nat /\ n > 0 /\ AtLeastMin(n) \in Nat /\ AtLeastMin(n) >= MIN_SIZE
BY MemAssumption DEF AtLeastMin

(* What a list says of one struct. *)
LEMMA ListFields ==
  ASSUME NEW r, List(r), NEW p \in DOMAIN r
  PROVE  /\ p \in 0..MEM_SIZE /\ p \in Nat /\ r[p] \in Struct
         /\ r[p].next \in 0..MEM_SIZE /\ r[p].prev \in 0..MEM_SIZE /\ r[p].used \in BOOLEAN
         /\ p # MEM_SIZE => InPlace(r, p)
BY MemConstants DEF List, Struct

(* The struct before p. *)
LEMMA Predecessor ==
  ASSUME NEW r, List(r), NEW p \in DOMAIN r, p # 0, p # MEM_SIZE
  PROVE  /\ r[p].prev \in DOMAIN r /\ r[p].prev < p /\ r[p].prev # MEM_SIZE
         /\ r[r[p].prev].next = p
<1>1. p \in 1..(MEM_SIZE - 1) /\ p - 1 \in 0..(MEM_SIZE - 1)
  BY MemConstants, ListFields
<1>2. PICK q \in DOMAIN r : q <= p - 1 /\ p - 1 < r[q].next
  BY <1>1 DEF List
<1>3. q < p /\ q # MEM_SIZE /\ q \in Nat /\ r[q].next \in Nat
  BY <1>1, <1>2, ListFields, MemConstants
<1>4. r[q].next <= p
  BY <1>3, ListFields DEF InPlace
<1>5. r[q].next = p
  BY <1>1, <1>2, <1>3, <1>4
<1>6. r[p].prev = q
  BY <1>3, <1>5, ListFields DEF InPlace
<1>7. QED
  BY <1>3, <1>5, <1>6

(* s is r with a new struct in place of those between p and next. *)
WithNew(r, p, new, next, s) ==
  /\ DOMAIN s = {a \in DOMAIN r : a <= p \/ a >= next} \cup {new}
  /\ new \notin {a \in DOMAIN r : a <= p \/ a >= next}
  /\ s \in [DOMAIN s -> Struct]
  /\ s[new] = [next |-> next, prev |-> p, used |-> FALSE]
  /\ s[p].next = new /\ s[p].prev = r[p].prev /\ s[p].used = r[p].used
  /\ next # MEM_SIZE => s[next].prev = new
  /\ s[next].next = r[next].next /\ s[next].used = r[next].used
  /\ \A q \in DOMAIN s : q # new /\ q # p /\ q # next => s[q] = r[q]

LEMMA PlacedFields ==
  ASSUME NEW r, List(r), NEW p \in DOMAIN r, p # MEM_SIZE, NEW next \in DOMAIN r,
         NEW new \in Nat, p < new, new < next
  PROVE  WithNew(r, p, new, next, Placed(r, p, new, next))
<1>1. DEFINE D == {a \in DOMAIN r : a <= p \/ a >= next} \cup {new}
             s == Placed(r, p, new, next)
<1>2. /\ p \in Nat /\ next \in Nat /\ next \in 0..MEM_SIZE /\ p \in 0..MEM_SIZE
      /\ new \in 0..MEM_SIZE
  BY ListFields, MemConstants
<1>3. /\ DOMAIN s = D
      /\ \A q \in D : s[q] = IF q = new THEN [next |-> next, prev |-> p, used |-> FALSE]
                             ELSE IF q = p THEN [r[p] EXCEPT !.next = new]
                             ELSE IF q = next /\ next # MEM_SIZE THEN [r[q] EXCEPT !.prev = new]
                             ELSE r[q]
      /\ s = [q \in D |-> s[q]]
  BY DEF Placed
<1>4. HIDE DEF s
<1>5. new \notin {a \in DOMAIN r : a <= p \/ a >= next}
  BY <1>2
<1>6. p \in D /\ next \in D /\ new \in D /\ p # new /\ next # new /\ p # next
  BY <1>2
<1>7. \A q \in D : q # new => q \in DOMAIN r /\ r[q] \in Struct
  BY ListFields
<1>8. s[new] = [next |-> next, prev |-> p, used |-> FALSE] /\ s[new] \in Struct
  <2>1. s[new] = [next |-> next, prev |-> p, used |-> FALSE]
    BY <1>3, <1>6
  <2>2. QED
    BY <2>1, <1>2 DEF Struct
<1>9. s[p] = [r[p] EXCEPT !.next = new] /\ r[p] \in Struct
  BY <1>3, <1>6, <1>7
<1>10. s[p].next = new /\ s[p].prev = r[p].prev /\ s[p].used = r[p].used /\ s[p] \in Struct
  BY <1>2, <1>9 DEF Struct
<1>11. r[next] \in Struct
  BY <1>6, <1>7
<1>12. /\ next # MEM_SIZE => s[next].prev = new
       /\ s[next].next = r[next].next /\ s[next].used = r[next].used /\ s[next] \in Struct
  <2>1. CASE next # MEM_SIZE
    <3>1. s[next] = [r[next] EXCEPT !.prev = new]
      BY <1>3, <1>6, <2>1
    <3>2. QED
      BY <3>1, <1>2, <1>11, <2>1 DEF Struct
  <2>2. CASE next = MEM_SIZE
    <3>1. s[next] = r[next]
      BY <1>3, <1>6, <2>2
    <3>2. QED
      BY <3>1, <1>11, <2>2
  <2>3. QED
    BY <2>1, <2>2
<1>13. \A q \in D : q # new /\ q # p /\ q # next => s[q] = r[q] /\ s[q] \in Struct
  BY <1>3, <1>7
<1>14. \A q \in D : s[q] \in Struct
  BY <1>8, <1>10, <1>12, <1>13
<1>15. s \in [D -> Struct]
  BY <1>3, <1>14
<1>16. HIDE DEF D
<1>17. QED
  BY <1>3, <1>5, <1>8, <1>10, <1>12, <1>13, <1>15 DEF D, s, WithNew

(* A list with a new struct, between any two, is a list. *)
LEMMA PlacedList ==
  ASSUME NEW r, List(r), NEW p \in DOMAIN r, p # MEM_SIZE, NEW next \in DOMAIN r,
         NEW new \in Nat, p + SIZEOF_STRUCT_MEM + MIN_SIZE <= new,
         new + SIZEOF_STRUCT_MEM + MIN_SIZE <= next
  PROVE  List(Placed(r, p, new, next))
<1>1. DEFINE s == Placed(r, p, new, next)
             D == {a \in DOMAIN r : a <= p \/ a >= next} \cup {new}
<1>2. /\ p \in Nat /\ next \in Nat /\ next <= MEM_SIZE /\ p < new /\ new < next
      /\ 0 <= p /\ new \in 0..MEM_SIZE
  BY MemConstants, ListFields
<1>3. /\ DOMAIN s = D
      /\ s \in [D -> Struct]
      /\ s[new] = [next |-> next, prev |-> p, used |-> FALSE]
      /\ s[p].next = new /\ s[p].prev = r[p].prev /\ s[p].used = r[p].used
      /\ next # MEM_SIZE => s[next].prev = new
      /\ s[next].next = r[next].next /\ s[next].used = r[next].used
      /\ \A q \in D : q # new /\ q # p /\ q # next => s[q] = r[q]
  <2>1. WithNew(r, p, new, next, s)
    BY <1>2, PlacedFields
  <2>2. HIDE DEF s
  <2>3. QED
    BY <2>1 DEF WithNew
<1>4. HIDE DEF s
<1>5. \A q \in DOMAIN r : q \in Nat /\ q <= MEM_SIZE /\ (q # MEM_SIZE => InPlace(r, q))
  BY ListFields
<1>6. 0 \in D /\ MEM_SIZE \in D /\ D \subseteq 0..MEM_SIZE
  BY <1>2, <1>5, MemConstants DEF List
<1>7. s[MEM_SIZE].used /\ s[0].prev = 0
  <2>1. r[MEM_SIZE].used /\ r[0].prev = 0 /\ MEM_SIZE \in D /\ 0 \in D
    BY <1>6 DEF List
  <2>2. MEM_SIZE # new /\ MEM_SIZE # p /\ 0 # new /\ 0 # next
    BY <1>2, MemConstants
  <2>3. s[MEM_SIZE].used
    BY <1>3, <2>1, <2>2
  <2>4. s[0].prev = 0
    BY <1>3, <2>1, <2>2
  <2>5. QED
    BY <2>3, <2>4
<1>8. ASSUME NEW q \in D \ {MEM_SIZE}
      PROVE  InPlace(s, q)
  <2>1. CASE q = p
    <3>1. s[q].next = new /\ new \in D /\ s[new].prev = p
      BY <1>3, <2>1
    <3>2. \A a \in D : q < a => new <= a
      BY <1>2, <1>5, <2>1
    <3>3. QED
      BY <1>3, <2>1, <3>1, <3>2 DEF InPlace
  <2>2. CASE q = new
    <3>1. s[q].next = next /\ next \in D
      BY <1>2, <1>3, <2>2
    <3>2. \A a \in D : q < a => next <= a
      BY <1>2, <1>5, <2>2
    <3>3. QED
      BY <1>3, <2>2, <3>1, <3>2 DEF InPlace
  <2>3. CASE q < p /\ q # new
    <3>1. q \in DOMAIN r /\ InPlace(r, q) /\ s[q] = r[q] /\ q \in Nat
      BY <1>2, <1>3, <1>5, <2>3
    <3>2. r[q].next \in DOMAIN r /\ r[q].next <= p
      BY <2>3, <3>1 DEF InPlace
    <3>3. r[q].next \in D /\ r[q].next # new /\ r[q].next # next
      BY <1>2, <1>5, <3>2
    <3>4. s[r[q].next].prev = r[r[q].next].prev
      BY <1>3, <3>3
    <3>5. \A a \in D : q < a => r[q].next <= a
      <4>1. new >= r[q].next
        BY <1>2, <1>5, <3>2
      <4>2. QED
        BY <3>1, <4>1 DEF InPlace
    <3>6. QED
      BY <1>3, <3>1, <3>3, <3>4, <3>5 DEF InPlace
  <2>4. CASE q >= next
    <3>1. q \in DOMAIN r /\ InPlace(r, q) /\ s[q].next = r[q].next /\ q \in Nat
      BY <1>2, <1>3, <1>5, <2>4
    <3>2. r[q].next \in DOMAIN r /\ r[q].next > q
      BY <3>1, <1>5, MemConstants DEF InPlace
    <3>3. r[q].next \in D /\ r[q].next # new /\ r[q].next # p /\ r[q].next # next
      BY <1>2, <1>5, <2>4, <3>1, <3>2
    <3>4. s[r[q].next] = r[r[q].next]
      BY <1>3, <3>3
    <3>5. \A a \in D : q < a => r[q].next <= a
      BY <1>2, <1>5, <2>4, <3>1 DEF InPlace
    <3>6. QED
      BY <1>3, <3>1, <3>3, <3>4, <3>5 DEF InPlace
  <2>5. QED
    BY <1>2, <1>5, <2>1, <2>2, <2>3, <2>4
<1>9. ASSUME NEW a \in 0..(MEM_SIZE - 1)
      PROVE  \E q \in D : q <= a /\ a < s[q].next
  <2>1. PICK q \in DOMAIN r : q <= a /\ a < r[q].next
    BY DEF List
  <2>2. q \in Nat /\ q # MEM_SIZE /\ InPlace(r, q) /\ a \in Nat /\ r[q].next \in Nat
    BY <1>5, <2>1, MemConstants, ListFields
  <2>3. CASE q < p
    <3>1. q \in D /\ q # new /\ q # next
      BY <1>2, <2>2, <2>3
    <3>2. s[q] = r[q]
      BY <1>2, <1>3, <2>2, <2>3, <3>1
    <3>3. QED
      BY <2>1, <3>1, <3>2
  <2>4. CASE q >= next
    <3>1. q \in D /\ q # new /\ q # p
      BY <1>2, <2>2, <2>4
    <3>2. s[q].next = r[q].next
      BY <1>3, <3>1
    <3>3. QED
      BY <2>1, <3>1, <3>2
  <2>5. CASE p <= q /\ q < next
    <3>1. r[q].next <= next
      BY <2>2, <2>5 DEF InPlace
    <3>2. p <= a /\ a < next
      BY <1>2, <2>1, <2>2, <2>5, <3>1
    <3>3. CASE a < new
      BY <1>2, <1>3, <3>2, <3>3
    <3>4. CASE new <= a
      BY <1>2, <1>3, <3>2, <3>4
    <3>5. QED
      BY <1>2, <2>2, <3>3, <3>4
  <2>6. QED
    BY <1>2, <2>2, <2>3, <2>4, <2>5
<1>10. HIDE DEF D
<1>11. QED
  BY <1>3, <1>6, <1>7, <1>8, <1>9 DEF List, s

(* s is r without the struct after the one at p. *)
WithoutNext(r, p, s) ==
  LET gone == r[p].next
      after == r[gone].next
  IN  /\ gone \in DOMAIN r /\ InPlace(r, gone)
      /\ after \in DOMAIN r /\ p < gone /\ gone < after
      /\ DOMAIN s = DOMAIN r \ {gone}
      /\ s \in [DOMAIN s -> Struct]
      /\ s[p].next = after /\ s[p].prev = r[p].prev /\ s[p].used = r[p].used
      /\ s[after].prev = p /\ s[after].next = r[after].next /\ s[after].used = r[after].used
      /\ \A q \in DOMAIN s : q # p /\ q # after => s[q] = r[q]

LEMMA UnlinkedFields ==
  ASSUME NEW r, List(r), NEW p \in DOMAIN r, p # MEM_SIZE, r[p].next # MEM_SIZE
  PROVE  WithoutNext(r, p, Unlinked(r, p))
<1>1. DEFINE gone == r[p].next
             after == r[gone].next
             s == Unlinked(r, p)
             D == DOMAIN r \ {gone}
<1>2. p \in Nat /\ InPlace(r, p) /\ gone \in DOMAIN r /\ InPlace(r, gone)
  BY ListFields DEF InPlace
<1>3. /\ gone \in Nat /\ after \in DOMAIN r /\ after \in Nat
      /\ p < gone /\ gone < after /\ after \in 0..MEM_SIZE /\ p \in 0..MEM_SIZE
  BY <1>2, ListFields, MemConstants DEF InPlace
<1>4. /\ DOMAIN s = D
      /\ \A q \in D : s[q] = IF q = p THEN [r[p] EXCEPT !.next = after]
                             ELSE IF q = after THEN [r[q] EXCEPT !.prev = p]
                             ELSE r[q]
      /\ s = [q \in D |-> s[q]]
  BY DEF Unlinked
<1>5. HIDE DEF s
<1>6. p \in D /\ after \in D /\ p # after
  BY <1>3
<1>7. \A q \in D : q \in DOMAIN r /\ r[q] \in Struct
  BY ListFields
<1>8. s[p] = [r[p] EXCEPT !.next = after] /\ s[after] = [r[after] EXCEPT !.prev = p]
  BY <1>4, <1>6
<1>9. /\ s[p].next = after /\ s[p].prev = r[p].prev /\ s[p].used = r[p].used
      /\ s[p] \in Struct
  BY <1>3, <1>6, <1>7, <1>8 DEF Struct
<1>10. /\ s[after].prev = p /\ s[after].next = r[after].next /\ s[after].used = r[after].used
       /\ s[after] \in Struct
  BY <1>3, <1>6, <1>7, <1>8 DEF Struct
<1>11. \A q \in D : q # p /\ q # after => s[q] = r[q] /\ s[q] \in Struct
  BY <1>4, <1>7
<1>12. s \in [D -> Struct]
  <2>1. \A q \in D : s[q] \in Struct
    BY <1>9, <1>10, <1>11
  <2>2. QED
    BY <1>4, <2>1
<1>13. HIDE DEF D
<1>14. QED
  BY <1>2, <1>3, <1>4, <1>9, <1>10, <1>11, <1>12 DEF D, s, WithoutNext

(* A list without one of its structs is a list. *)
LEMMA UnlinkedList ==
  ASSUME NEW r, List(r), NEW p \in DOMAIN r, p # MEM_SIZE, r[p].next # MEM_SIZE
  PROVE  List(Unlinked(r, p))
<1>1. DEFINE gone == r[p].next
             after == r[gone].next
             s == Unlinked(r, p)
             D == DOMAIN r \ {gone}
<1>2. /\ gone \in DOMAIN r /\ InPlace(r, gone) /\ after \in DOMAIN r
      /\ p < gone /\ gone < after
      /\ DOMAIN s = D /\ s \in [D -> Struct]
      /\ s[p].next = after /\ s[p].prev = r[p].prev /\ s[p].used = r[p].used
      /\ s[after].prev = p /\ s[after].next = r[after].next /\ s[after].used = r[after].used
      /\ \A q \in D : q # p /\ q # after => s[q] = r[q]
  <2>1. WithoutNext(r, p, s)
    BY UnlinkedFields
  <2>2. HIDE DEF s
  <2>3. QED
    BY <2>1 DEF WithoutNext
<1>3. HIDE DEF s
<1>4. \A q \in DOMAIN r : q \in Nat /\ q <= MEM_SIZE /\ (q # MEM_SIZE => InPlace(r, q))
  BY ListFields
<1>5. p \in Nat /\ gone \in Nat /\ after \in Nat /\ InPlace(r, p) /\ gone # MEM_SIZE
  BY <1>2, <1>4
<1>6. 0 \in D /\ MEM_SIZE \in D /\ D \subseteq 0..MEM_SIZE /\ p \in D /\ after \in D
  <2>1. 0 # gone /\ p # gone /\ after # gone
    BY <1>2, <1>5
  <2>2. 0 \in DOMAIN r /\ MEM_SIZE \in DOMAIN r /\ DOMAIN r \subseteq 0..MEM_SIZE
    BY DEF List
  <2>3. QED
    BY <1>2, <1>5, <2>1, <2>2
<1>7. s[MEM_SIZE].used /\ s[0].prev = 0
  <2>1. r[MEM_SIZE].used /\ r[0].prev = 0
    BY DEF List
  <2>2. 0 # after
    BY <1>2, <1>5
  <2>3. s[MEM_SIZE].used
    BY <1>2, <1>6, <2>1
  <2>4. s[0].prev = 0
    BY <1>2, <1>6, <2>1, <2>2
  <2>5. QED
    BY <2>3, <2>4
<1>8. ASSUME NEW q \in D \ {MEM_SIZE}
      PROVE  InPlace(s, q)
  <2>1. q \in DOMAIN r /\ q \in Nat /\ InPlace(r, q) /\ q # gone
    BY <1>4
  <2>2. CASE q = p
    <3>1. p + SIZEOF_STRUCT_MEM + MIN_SIZE <= after
      BY <1>2, <1>5, MemConstants DEF InPlace
    <3>2. \A a \in D : p < a => after <= a
      BY <1>2, <1>4, <1>5, MemConstants DEF InPlace
    <3>3. QED
      BY <1>2, <1>6, <2>2, <3>1, <3>2 DEF InPlace
  <2>3. CASE q < p
    <3>1. r[q].next \in DOMAIN r /\ r[q].next <= p /\ q # after
      BY <1>2, <1>5, <2>1, <2>3 DEF InPlace
    <3>2. r[q].next \in D /\ r[q].next # after /\ s[q] = r[q]
      BY <1>2, <1>4, <1>5, <2>1, <2>3, <3>1
    <3>3. s[r[q].next].prev = r[r[q].next].prev
      BY <1>2, <3>2
    <3>4. QED
      BY <1>2, <2>1, <3>2, <3>3 DEF InPlace
  <2>4. CASE q > p
    <3>1. q > gone
      BY <1>2, <1>5, <2>1, <2>4 DEF InPlace
    <3>2. q >= after
      BY <1>2, <1>5, <2>1, <3>1 DEF InPlace
    <3>3. r[q].next \in DOMAIN r /\ r[q].next > q /\ s[q].next = r[q].next
      BY <1>2, <1>4, <2>1, <2>4, <1>5, MemConstants DEF InPlace
    <3>4. r[q].next \in D /\ r[q].next # after /\ r[q].next # p
      BY <1>2, <1>4, <1>5, <2>1, <3>2, <3>3
    <3>5. s[r[q].next] = r[r[q].next]
      BY <1>2, <3>4
    <3>6. QED
      BY <1>2, <2>1, <3>3, <3>4, <3>5 DEF InPlace
  <2>5. QED
    BY <1>5, <2>1, <2>2, <2>3, <2>4
<1>9. ASSUME NEW a \in 0..(MEM_SIZE - 1)
      PROVE  \E q \in D : q <= a /\ a < s[q].next
  <2>1. PICK q \in DOMAIN r : q <= a /\ a < r[q].next
    BY DEF List
  <2>2. a \in Nat /\ q \in Nat /\ r[q].next \in Nat
    BY <1>4, MemConstants, ListFields
  <2>3. CASE q = gone \/ q = p
    <3>1. p <= a /\ a < after
      BY <1>2, <1>5, <2>1, <2>2, <2>3
    <3>2. QED
      BY <1>2, <1>6, <3>1
  <2>4. CASE q # gone /\ q # p
    <3>1. q \in D /\ s[q].next = r[q].next
      BY <1>2, <2>4
    <3>2. QED
      BY <2>1, <3>1
  <2>5. QED
    BY <2>3, <2>4
<1>10. HIDE DEF D
<1>11. QED
  BY <1>2, <1>6, <1>7, <1>8, <1>9 DEF List, s

(* s is r with the area at p in use, or not. *)
MarkedAs(r, p, u, s) ==
  /\ List(s) /\ DOMAIN s = DOMAIN r /\ s[p].used = u
  /\ \A q \in DOMAIN r : /\ s[q].next = r[q].next /\ s[q].prev = r[q].prev
                         /\ q # p => s[q].used = r[q].used

(* It is a list too, for only the end has to be in use. *)
LEMMA MarkedList ==
  ASSUME NEW r, List(r), NEW p \in DOMAIN r, p # MEM_SIZE, NEW u \in BOOLEAN
  PROVE  MarkedAs(r, p, u, Marked(r, p, u))
<1>1. DEFINE s == Marked(r, p, u)
<1>2. \A q \in DOMAIN r : r[q] \in Struct
  BY ListFields
<1>3. DOMAIN s = DOMAIN r /\ s = [q \in DOMAIN r |-> s[q]] /\ \A q \in DOMAIN r : q # p => s[q] = r[q]
  BY DEF List, Marked
<1>4. s[p] = [r[p] EXCEPT !.used = u]
  BY DEF List, Marked
<1>5. HIDE DEF s
<1>6. s[p].used = u /\ s[p].next = r[p].next /\ s[p].prev = r[p].prev /\ s[p] \in Struct
  BY <1>2, <1>4 DEF Struct
<1>7. \A q \in DOMAIN r : /\ s[q].next = r[q].next /\ s[q].prev = r[q].prev
                          /\ q # p => s[q].used = r[q].used
                          /\ s[q] \in Struct
  BY <1>2, <1>3, <1>6
<1>8. s \in [DOMAIN s -> Struct]
  BY <1>3, <1>7
<1>9. \A q \in DOMAIN r \ {MEM_SIZE} : InPlace(s, q)
  BY <1>3, <1>7 DEF List, InPlace
<1>10. List(s)
  <2>1. s[MEM_SIZE].used /\ s[0].prev = 0
    BY <1>7 DEF List
  <2>2. \A a \in 0..(MEM_SIZE - 1) : \E q \in DOMAIN s : q <= a /\ a < s[q].next
    BY <1>3, <1>7 DEF List
  <2>3. QED
    BY <1>3, <1>8, <1>9, <2>1, <2>2 DEF List
<1>11. QED
  BY <1>3, <1>6, <1>7, <1>10 DEF s, MarkedAs

-----------------------------------------------------------------------------
(* The operations *)

(* r and s have the same areas in use, but perhaps for the one at p. *)
SameUsedBut(r, s, p) ==
  \A q \in 0..MEM_SIZE :
    q # p => /\ (q \in DOMAIN s /\ s[q].used) <=> (q \in DOMAIN r /\ r[q].used)
             /\ q \in DOMAIN s /\ s[q].used => s[q].next = r[q].next

(* s is r with the area at p ending at new, and a hole after it. *)
SplitAt(r, p, new, s) ==
  /\ List(s) /\ DOMAIN s = DOMAIN r \cup {new}
  /\ r[p].next \in DOMAIN r /\ new \notin DOMAIN r /\ p \in DOMAIN s
  /\ s[new].next = r[p].next /\ ~s[new].used
  /\ s[p].next = new /\ s[p].used = r[p].used
  /\ \A q \in DOMAIN r : s[q].used = r[q].used /\ (q # p => s[q].next = r[q].next)

LEMMA SplitFields ==
  ASSUME NEW r, List(r), NEW p \in DOMAIN r, p # MEM_SIZE,
         NEW new \in Nat, p + SIZEOF_STRUCT_MEM + MIN_SIZE <= new,
         new + SIZEOF_STRUCT_MEM + MIN_SIZE <= r[p].next
  PROVE  SplitAt(r, p, new, Placed(r, p, new, r[p].next))
<1>1. DEFINE next == r[p].next
             s == Placed(r, p, new, next)
             D == {a \in DOMAIN r : a <= p \/ a >= next} \cup {new}
<1>2. InPlace(r, p) /\ next \in DOMAIN r /\ p \in Nat /\ next \in Nat
  BY ListFields DEF InPlace
<1>3. p < new /\ new < next
  BY <1>2, MemConstants
<1>4. List(s)
  BY <1>2, PlacedList
<1>5. /\ DOMAIN s = D
      /\ s[new] = [next |-> next, prev |-> p, used |-> FALSE]
      /\ s[p].next = new /\ s[p].used = r[p].used
      /\ s[next].next = r[next].next /\ s[next].used = r[next].used
      /\ \A q \in DOMAIN s : q # new /\ q # p /\ q # next => s[q] = r[q]
  <2>1. WithNew(r, p, new, next, s)
    BY <1>2, <1>3, PlacedFields
  <2>2. HIDE DEF s
  <2>3. QED
    BY <2>1 DEF WithNew
<1>6. HIDE DEF s
<1>7. \A a \in DOMAIN r : (a <= p \/ a >= next) /\ a # new
  BY <1>2, <1>3, ListFields DEF InPlace
<1>8. D = DOMAIN r \cup {new} /\ p \in D
  BY <1>2, <1>7
<1>9. \A q \in DOMAIN r : s[q].used = r[q].used /\ (q # p => s[q].next = r[q].next)
  <2>1. TAKE q \in DOMAIN r
  <2>2. q # new /\ q \in DOMAIN s
    BY <1>5, <1>7, <1>8
  <2>3. QED
    BY <1>5, <2>2
<1>10. s[new].next = next /\ ~s[new].used
  BY <1>5
<1>11. QED
  BY <1>2, <1>4, <1>5, <1>7, <1>8, <1>9, <1>10 DEF s, SplitAt

(* A hole becomes a block, and what is too much for it a hole. *)
TakenFrom(r, s, p, size) ==
  /\ List(s) /\ Apart(s) /\ SameUsedBut(r, s, p)
  /\ p \in DOMAIN s /\ s[p].used
  /\ p + SIZEOF_STRUCT_MEM + size <= s[p].next /\ s[p].next <= r[p].next
  /\ \A q \in DOMAIN s : ~s[q].used => q > p \/ (q \in DOMAIN r /\ ~r[q].used)
  /\ \A q \in DOMAIN r : q \in DOMAIN s

LEMMA TakenWhole ==
  ASSUME List(ram), Apart(ram), NEW size \in Nat, size >= MIN_SIZE, NEW p \in Fitting(size),
         NEW s,
         s = Marked(IF IsSplit(p, size) THEN Placed(ram, p, p + SIZEOF_STRUCT_MEM + size, ram[p].next)
                    ELSE ram, p, TRUE)
  PROVE  TakenFrom(ram, s, p, size)
<1>1. /\ p \in DOMAIN ram /\ p \in Nat /\ p # MEM_SIZE /\ ~ram[p].used
      /\ ram[p].next - (p + SIZEOF_STRUCT_MEM) >= size
      /\ ram[p].next \in Nat /\ InPlace(ram, p) /\ p < ram[p].next /\ ram[p].next \in DOMAIN ram
      /\ ram[p].next \in 0..MEM_SIZE
  <2>1. p \in DOMAIN ram /\ p < MEM_SIZE - size /\ ~ram[p].used /\ Room(p) >= size
    BY DEF Fitting
  <2>2. p \in Nat /\ p # MEM_SIZE /\ ram[p].next \in 0..MEM_SIZE /\ InPlace(ram, p)
    BY <2>1, ListFields, MemConstants
  <2>3. QED
    BY <2>1, <2>2, MemConstants DEF Room, InPlace
<1>1a. p + SIZEOF_STRUCT_MEM + size <= ram[p].next
  BY <1>1, MemConstants
<1>2. ram[ram[p].next].used
  BY <1>1 DEF Apart
<1>3. \A q \in DOMAIN ram : q \in 0..MEM_SIZE /\ q \in Nat
  BY ListFields
<1>4. CASE IsSplit(p, size)
  <2>1. DEFINE new == p + SIZEOF_STRUCT_MEM + size
               t == Placed(ram, p, new, ram[p].next)
  <2>2. /\ new \in Nat /\ p + SIZEOF_STRUCT_MEM + MIN_SIZE <= new
        /\ new + SIZEOF_STRUCT_MEM + MIN_SIZE <= ram[p].next
        /\ p < new /\ new < ram[p].next
    BY <1>1, <1>4, MemConstants DEF IsSplit, Room
  <2>3. /\ List(t) /\ DOMAIN t = DOMAIN ram \cup {new} /\ new \notin DOMAIN ram
        /\ t[new].next = ram[p].next /\ ~t[new].used
        /\ t[p].next = new
        /\ \A q \in DOMAIN ram : t[q].used = ram[q].used /\ (q # p => t[q].next = ram[q].next)
    <3>1. HIDE DEF new
    <3>2. SplitAt(ram, p, new, t)
      BY <1>1, <2>2, SplitFields
    <3>3. HIDE DEF t
    <3>4. QED
      BY <3>2 DEF SplitAt
  <2>4. s = Marked(t, p, TRUE)
    BY <1>4
  <2>5. HIDE DEF t, new
  <2>6. /\ List(s) /\ DOMAIN s = DOMAIN t /\ s[p].used
        /\ \A q \in DOMAIN t : s[q].next = t[q].next /\ (q # p => s[q].used = t[q].used)
    <3>1. MarkedAs(t, p, TRUE, s)
      BY <1>1, <2>3, <2>4, MarkedList
    <3>2. QED
      BY <3>1 DEF MarkedAs
  <2>7. /\ new \in DOMAIN s /\ s[new].next = ram[p].next /\ ~s[new].used
        /\ p \in DOMAIN s /\ s[p].next = new
        /\ \A q \in DOMAIN ram : q # p => s[q].used = ram[q].used /\ s[q].next = ram[q].next
    BY <1>1, <2>2, <2>3, <2>6
  <2>8. Apart(s)
    <3>1. ASSUME NEW q \in DOMAIN s, ~s[q].used
          PROVE  s[s[q].next].used
      <4>1. q # p
        BY <2>6, <3>1
      <4>2. CASE q = new
        BY <1>1, <1>2, <2>7, <4>2
      <4>3. CASE q # new
        <5>1. q \in DOMAIN ram /\ ~ram[q].used /\ s[q].next = ram[q].next
          BY <2>3, <2>6, <2>7, <3>1, <4>1, <4>3
        <5>2. ram[ram[q].next].used /\ ram[q].next \in DOMAIN ram
          <6>1. q # MEM_SIZE
            BY <5>1 DEF List
          <6>2. QED
            BY <5>1, <6>1, ListFields DEF Apart, InPlace
        <5>3. ram[q].next # p
          BY <1>1, <5>2
        <5>4. QED
          BY <2>7, <5>1, <5>2, <5>3
      <4>4. QED
        BY <4>2, <4>3
    <3>2. QED
      BY <3>1 DEF Apart
  <2>9. SameUsedBut(ram, s, p)
    BY <2>3, <2>6, <2>7 DEF SameUsedBut
  <2>10. \A q \in DOMAIN s : ~s[q].used => q > p \/ (q \in DOMAIN ram /\ ~ram[q].used)
    BY <2>2, <2>3, <2>6, <2>7, ZenonT(40)
  <2>11. p + SIZEOF_STRUCT_MEM + size <= s[p].next /\ s[p].next <= ram[p].next
    <3>1. new <= ram[p].next /\ new <= new
      BY <1>1, <2>2
    <3>2. QED
      BY <2>7, <3>1 DEF new
  <2>12. QED
    BY <2>3, <2>6, <2>7, <2>8, <2>9, <2>10, <2>11 DEF TakenFrom
<1>5. CASE ~IsSplit(p, size)
  <2>1. s = Marked(ram, p, TRUE)
    BY <1>5
  <2>2. /\ List(s) /\ DOMAIN s = DOMAIN ram /\ s[p].used
        /\ \A q \in DOMAIN ram : s[q].next = ram[q].next /\ (q # p => s[q].used = ram[q].used)
    <3>1. MarkedAs(ram, p, TRUE, s)
      BY <1>1, <2>1, MarkedList
    <3>2. QED
      BY <3>1 DEF MarkedAs
  <2>3. Apart(s)
    <3>1. ASSUME NEW q \in DOMAIN s, ~s[q].used
          PROVE  s[s[q].next].used
      <4>1. q # p /\ q \in DOMAIN ram /\ ~ram[q].used
        BY <2>2, <3>1
      <4>2. q # MEM_SIZE
        BY <4>1 DEF List
      <4>3. ram[q].next \in DOMAIN ram /\ ram[ram[q].next].used
        BY <4>1, <4>2, ListFields DEF Apart, InPlace
      <4>4. QED
        BY <2>2, <4>1, <4>3
    <3>2. QED
      BY <3>1 DEF Apart
  <2>4. SameUsedBut(ram, s, p)
    BY <2>2 DEF SameUsedBut
  <2>5. p + SIZEOF_STRUCT_MEM + size <= s[p].next /\ s[p].next <= ram[p].next
    <3>1. s[p].next = ram[p].next
      BY <1>1, <2>2
    <3>2. ram[p].next <= ram[p].next
      BY <1>1
    <3>3. QED
      BY <1>1a, <3>1, <3>2
  <2>6. \A q \in DOMAIN s : ~s[q].used => q > p \/ (q \in DOMAIN ram /\ ~ram[q].used)
    BY <2>2
  <2>7. QED
    BY <1>1, <2>2, <2>3, <2>4, <2>5, <2>6 DEF TakenFrom
<1>6. QED
  BY <1>4, <1>5

(* A block becomes a hole, joined with the hole after it. *)
JoinedNext(r, s, p) ==
  /\ List(s) /\ p \in DOMAIN s /\ ~s[p].used
  /\ s[p].next \in DOMAIN s /\ s[s[p].next].used
  /\ DOMAIN s \subseteq DOMAIN r
  /\ \A q \in DOMAIN s : q # p => s[q].used = r[q].used /\ s[q].next = r[q].next
  /\ \A q \in DOMAIN r : r[q].used \/ q <= p => q \in DOMAIN s

LEMMA FreedNext ==
  ASSUME List(ram), Apart(ram), NEW p \in DOMAIN ram, p # MEM_SIZE, ram[p].used
  PROVE  JoinedNext(ram, PlugNext(Marked(ram, p, FALSE), p), p)
<1>1. DEFINE r == Marked(ram, p, FALSE)
             s == PlugNext(r, p)
<1> SUFFICES JoinedNext(ram, s, p)
  OBVIOUS
<1>2. /\ List(r) /\ DOMAIN r = DOMAIN ram /\ ~r[p].used
      /\ \A q \in DOMAIN ram : r[q].next = ram[q].next /\ (q # p => r[q].used = ram[q].used)
  <2>1. MarkedAs(ram, p, FALSE, r)
    BY MarkedList
  <2>2. HIDE DEF r
  <2>3. QED
    BY <2>1 DEF MarkedAs
<1>3. /\ p \in Nat /\ r[p].next \in DOMAIN r /\ r[p].next \in Nat /\ p < r[p].next
      /\ r[MEM_SIZE].used
  <2>1. HIDE DEF r
  <2>2. InPlace(r, p) /\ p \in Nat /\ r[p].next \in Nat
    BY <1>2, ListFields
  <2>3. QED
    BY <1>2, <2>2, MemConstants DEF InPlace, List
<1>4. CASE JoinsNext(r, p)
  <2>1. s = Unlinked(r, p) /\ ~r[r[p].next].used /\ r[p].next # MEM_SIZE
    BY <1>4 DEF PlugNext, JoinsNext
  <2>2. HIDE DEF r, s
  <2>3. List(s) /\ WithoutNext(r, p, s)
    BY <1>2, <2>1, UnlinkedList, UnlinkedFields
  <2>4. DEFINE gone == r[p].next
               after == r[gone].next
  <2>5. /\ gone \in DOMAIN r /\ after \in DOMAIN r /\ p < gone /\ gone < after
        /\ DOMAIN s = DOMAIN r \ {gone}
        /\ s[p].next = after /\ s[p].used = r[p].used
        /\ s[after].next = r[after].next /\ s[after].used = r[after].used
        /\ \A q \in DOMAIN s : q # p /\ q # after => s[q] = r[q]
    BY <2>3 DEF WithoutNext
  <2>6. HIDE DEF gone, after
  <2>7. gone \in Nat /\ after \in Nat /\ gone # p /\ ~r[gone].used /\ after # gone /\ after # p
    BY <1>2, <1>3, <2>1, <2>5, ListFields DEF gone
  <2>8. r[after].used
    <3>1. ~ram[gone].used /\ gone \in DOMAIN ram /\ ram[gone].next = after
      BY <1>2, <2>5, <2>7 DEF after
    <3>2. ram[after].used
      BY <3>1 DEF Apart
    <3>3. QED
      BY <1>2, <2>5, <2>7, <3>2
  <2>9. p \in DOMAIN s /\ ~s[p].used /\ s[p].next \in DOMAIN s /\ s[s[p].next].used
    BY <1>2, <2>5, <2>7, <2>8
  <2>10. \A q \in DOMAIN s : q # p => s[q].used = ram[q].used /\ s[q].next = ram[q].next
    BY <1>2, <2>5
  <2>11. \A q \in DOMAIN ram : ram[q].used \/ q <= p => q \in DOMAIN s
    <3>1. ~ram[gone].used /\ ~(gone <= p)
      BY <1>2, <1>3, <2>5, <2>7
    <3>2. QED
      BY <1>2, <2>5, <3>1
  <2>12. QED
    BY <1>2, <2>3, <2>5, <2>9, <2>10, <2>11 DEF JoinedNext
<1>5. CASE ~JoinsNext(r, p)
  <2>1. s = r
    BY <1>5 DEF PlugNext
  <2>2. HIDE DEF r, s
  <2>3. r[r[p].next].used
    BY <1>3, <1>5 DEF JoinsNext
  <2>4. QED
    BY <1>2, <1>3, <2>1, <2>3 DEF JoinedNext
<1>6. QED
  BY <1>4, <1>5

(* And with the hole before it. *)
FreedFrom(r, s, p) ==
  /\ List(s) /\ Apart(s) /\ SameUsedBut(r, s, p)
  /\ p \in DOMAIN s => ~s[p].used
  /\ \A q \in DOMAIN s : ~s[q].used => q = p \/ (q \in DOMAIN r /\ ~r[q].used)
  /\ \A q \in DOMAIN r : q < p => q \in DOMAIN s
  /\ p \in DOMAIN s \/ \E q \in DOMAIN r : q < p /\ ~r[q].used

LEMMA FreedPrev ==
  ASSUME List(ram), Apart(ram), NEW p \in DOMAIN ram, p # MEM_SIZE, ram[p].used,
         NEW r, JoinedNext(ram, r, p)
  PROVE  FreedFrom(ram, PlugPrev(r, p), p)
<1>1. DEFINE s == PlugPrev(r, p)
             prev == r[p].prev
<1> SUFFICES FreedFrom(ram, s, p)
  OBVIOUS
<1>2. /\ List(r) /\ p \in DOMAIN r /\ ~r[p].used
      /\ r[p].next \in DOMAIN r /\ r[r[p].next].used
      /\ DOMAIN r \subseteq DOMAIN ram
      /\ \A q \in DOMAIN r : q # p => r[q].used = ram[q].used /\ r[q].next = ram[q].next
      /\ \A q \in DOMAIN ram : ram[q].used \/ q <= p => q \in DOMAIN r
  BY DEF JoinedNext
<1>3. p \in Nat /\ p # r[p].next /\ r[p].next \in Nat /\ p < r[p].next
  BY <1>2, ListFields, MemConstants DEF InPlace
<1>4. \A q \in DOMAIN ram : q \in 0..MEM_SIZE /\ q \in Nat
  BY ListFields
<1>5. \A q \in DOMAIN r : q # p /\ ~r[q].used => q \in DOMAIN ram /\ ~ram[q].used /\ q # MEM_SIZE
  BY <1>2 DEF List
<1>6. \A q \in DOMAIN r : ~r[q].used /\ r[q].next # p => r[r[q].next].used
  <2>1. TAKE q \in DOMAIN r
  <2>2. HAVE ~r[q].used /\ r[q].next # p
  <2>3. CASE q = p
    BY <1>2, <2>3
  <2>4. CASE q # p
    <3>1. q \in DOMAIN ram /\ ~ram[q].used /\ q # MEM_SIZE /\ r[q].next = ram[q].next
      BY <1>2, <1>5, <2>2, <2>4
    <3>2. ram[ram[q].next].used /\ r[q].next \in DOMAIN r
      BY <1>2, <3>1, ListFields DEF Apart, InPlace
    <3>3. QED
      BY <1>2, <2>2, <3>1, <3>2
  <2>5. QED
    BY <2>3, <2>4
<1>7. CASE JoinsPrev(r, p)
  <2>1. s = Unlinked(r, prev) /\ prev # p /\ ~r[prev].used
    BY <1>7 DEF PlugPrev, JoinsPrev
  <2>2. p # 0
    BY <1>2, <2>1 DEF List
  <2>3. prev \in DOMAIN r /\ prev < p /\ prev # MEM_SIZE /\ r[prev].next = p
    BY <1>2, <2>2, Predecessor
  <2>4. HIDE DEF s, prev
  <2>5. List(s) /\ WithoutNext(r, prev, s)
    BY <1>2, <2>1, <2>3, UnlinkedList, UnlinkedFields
  <2>6. DEFINE after == r[p].next
  <2>7. /\ DOMAIN s = DOMAIN r \ {p}
        /\ s[prev].next = after /\ s[prev].used = r[prev].used
        /\ s[after].next = r[after].next /\ s[after].used = r[after].used
        /\ \A q \in DOMAIN s : q # prev /\ q # after => s[q] = r[q]
    BY <2>3, <2>5 DEF WithoutNext
  <2>8. HIDE DEF after
  <2>9. after # p /\ after \in DOMAIN r /\ after \in DOMAIN s /\ r[after].used /\ after # prev
    BY <1>2, <1>3, <2>1, <2>7 DEF after
  <2>10. \A q \in DOMAIN s : s[q].used = r[q].used /\ (q # prev => s[q].next = r[q].next)
    BY <2>7
  <2>11. Apart(s)
    <3>1. ASSUME NEW q \in DOMAIN s, ~s[q].used
          PROVE  s[s[q].next].used
      <4>1. q \in DOMAIN r /\ ~r[q].used /\ q # p
        BY <2>7, <2>10, <3>1
      <4>2. CASE q = prev
        BY <2>7, <2>9, <4>2
      <4>3. CASE q # prev
        <5>1. s[q].next = r[q].next
          BY <2>10, <3>1, <4>3
        <5>2. r[q].next # p
          <6>1. r[q].next = p => r[p].prev = q
            <7>1. q # MEM_SIZE
              BY <1>5, <4>1
            <7>2. QED
              BY <1>2, <4>1, <7>1, ListFields DEF InPlace
          <6>2. QED
            BY <4>3, <6>1 DEF prev
        <5>3. r[q].next \in DOMAIN r
          <6>1. q # MEM_SIZE
            BY <1>5, <4>1
          <6>2. QED
            BY <1>2, <4>1, <6>1, ListFields DEF InPlace
        <5>4. QED
          BY <1>6, <2>7, <2>10, <4>1, <5>1, <5>2, <5>3
      <4>4. QED
        BY <4>2, <4>3
    <3>2. QED
      BY <3>1 DEF Apart
  <2>12. ~ram[prev].used
    BY <1>5, <2>1, <2>3
  <2>13. SameUsedBut(ram, s, p)
    <3>1. ASSUME NEW q \in 0..MEM_SIZE, q # p
          PROVE  /\ (q \in DOMAIN s /\ s[q].used) <=> (q \in DOMAIN ram /\ ram[q].used)
                 /\ q \in DOMAIN s /\ s[q].used => s[q].next = ram[q].next
      BY <1>2, <2>1, <2>7, <2>10, <3>1
    <3>2. QED
      BY <3>1 DEF SameUsedBut
  <2>14. \A q \in DOMAIN ram : q < p => q \in DOMAIN s
    BY <1>2, <1>3, <1>4, <2>7
  <2>15. \E q \in DOMAIN ram : q < p /\ ~ram[q].used
    BY <1>2, <2>3, <2>12
  <2>16. \A q \in DOMAIN s : ~s[q].used => q \in DOMAIN ram /\ ~ram[q].used
    BY <1>5, <2>7, <2>10
  <2>17. QED
    BY <2>5, <2>7, <2>11, <2>13, <2>14, <2>15, <2>16 DEF FreedFrom
<1>8. CASE ~JoinsPrev(r, p)
  <2>1. s = r
    BY <1>8 DEF PlugPrev
  <2>2. prev = p \/ r[prev].used
    BY <1>8 DEF JoinsPrev
  <2>3. \A q \in DOMAIN r : ~r[q].used => r[q].next # p
    <3>1. ASSUME NEW q \in DOMAIN r, ~r[q].used, r[q].next = p
          PROVE  FALSE
      <4>1. q # MEM_SIZE /\ q # p
        BY <1>2, <1>3, <3>1 DEF List
      <4>2. InPlace(r, q)
        BY <1>2, <4>1, ListFields
      <4>3. r[p].prev = q
        BY <3>1, <4>2 DEF InPlace
      <4>4. QED
        BY <2>2, <3>1, <4>1, <4>3
    <3>2. QED
      BY <3>1
  <2>4. Apart(r)
    BY <1>6, <2>3 DEF Apart
  <2>5. SameUsedBut(ram, r, p)
    BY <1>2 DEF SameUsedBut
  <2>6. \A q \in DOMAIN ram : q < p => q \in DOMAIN r
    BY <1>2, <1>3, <1>4
  <2>7. HIDE DEF s
  <2>8. QED
    BY <1>2, <1>5, <2>1, <2>4, <2>5, <2>6 DEF FreedFrom
<1>9. QED
  BY <1>7, <1>8

(* A block ends earlier, and the hole after it begins there. *)
ShrunkFrom(r, s, p, new) ==
  /\ List(s) /\ Apart(s) /\ SameUsedBut(r, s, p)
  /\ p \in DOMAIN s /\ s[p].used /\ s[p].next = new /\ new \in DOMAIN s /\ p < new
  /\ \A q \in DOMAIN s : ~s[q].used => q = new \/ (q \in DOMAIN r /\ ~r[q].used)
  /\ \A q \in DOMAIN r : q <= p => q \in DOMAIN s

LEMMA HoleMoved ==
  ASSUME List(ram), Apart(ram), NEW p \in DOMAIN ram, p # MEM_SIZE, ram[p].used,
         ~ram[ram[p].next].used,
         NEW new \in Nat, p + SIZEOF_STRUCT_MEM + MIN_SIZE <= new, new < ram[p].next
  PROVE  ShrunkFrom(ram, Placed(ram, p, new, ram[ram[p].next].next), p, new)
<1>1. DEFINE h == ram[p].next
             next == ram[h].next
             s == Placed(ram, p, new, next)
<1> SUFFICES ShrunkFrom(ram, s, p, new)
  OBVIOUS
<1>2. /\ p \in Nat /\ InPlace(ram, p) /\ h \in DOMAIN ram /\ h \in Nat
      /\ h # MEM_SIZE /\ InPlace(ram, h)
  <2>1. p \in Nat /\ InPlace(ram, p)
    BY ListFields
  <2>2. h \in DOMAIN ram /\ h # MEM_SIZE
    BY <2>1 DEF InPlace, List
  <2>3. QED
    BY <2>1, <2>2, ListFields
<1>3. next \in DOMAIN ram /\ next \in Nat /\ ram[next].used
  BY <1>2, ListFields DEF InPlace, Apart
<1>4. /\ p < new /\ new + SIZEOF_STRUCT_MEM + MIN_SIZE <= next /\ h < next /\ p < h
      /\ new < next
  <2>1. h + SIZEOF_STRUCT_MEM + MIN_SIZE <= next
    BY <1>2 DEF InPlace
  <2>2. QED
    BY <1>2, <1>3, <2>1, MemConstants
<1>5. List(s) /\ WithNew(ram, p, new, next, s)
  <2>1. HIDE DEF next
  <2>2. QED
    BY <1>3, <1>4, PlacedList, PlacedFields
<1>6. HIDE DEF s, next, h
<1>7. /\ DOMAIN s = {a \in DOMAIN ram : a <= p \/ a >= next} \cup {new}
      /\ s[new].next = next /\ ~s[new].used
      /\ s[p].next = new /\ s[p].used = ram[p].used /\ s[p].used
      /\ s[next].next = ram[next].next /\ s[next].used = ram[next].used
      /\ \A q \in DOMAIN s : q # new /\ q # p /\ q # next => s[q] = ram[q]
  BY <1>5 DEF WithNew
<1>8. \A q \in DOMAIN ram : q \in Nat /\ q \in 0..MEM_SIZE /\ (q <= p \/ q = h \/ q >= next) /\ q # new
  <2>1. TAKE q \in DOMAIN ram
  <2>2. q \in Nat /\ q \in 0..MEM_SIZE
    BY ListFields
  <2>3. q > p => q >= h
    BY <1>2 DEF InPlace, h
  <2>4. q > h => q >= next
    BY <1>2 DEF InPlace, next
  <2>5. QED
    BY <1>2, <1>3, <1>4, <2>2, <2>3, <2>4 DEF h
<1>9. \A q \in DOMAIN s : q # new =>
        /\ q \in DOMAIN ram /\ q # h
        /\ s[q].used = ram[q].used /\ (q # p => s[q].next = ram[q].next)
  <2>1. h \notin DOMAIN s
    BY <1>2, <1>3, <1>4, <1>7, <1>8
  <2>2. QED
    BY <1>7, <2>1
<1>10. p \in DOMAIN s /\ next \in DOMAIN s /\ new \in DOMAIN s /\ s[next].used
  BY <1>2, <1>3, <1>7
<1>11. \A q \in DOMAIN ram : q # h => q \in DOMAIN s
  BY <1>7, <1>8
<1>12. ~ram[h].used
  BY DEF h
<1>13. SameUsedBut(ram, s, p)
  <2>1. ASSUME NEW q \in 0..MEM_SIZE, q # p
        PROVE  /\ (q \in DOMAIN s /\ s[q].used) <=> (q \in DOMAIN ram /\ ram[q].used)
               /\ q \in DOMAIN s /\ s[q].used => s[q].next = ram[q].next
    <3>1. CASE q = new
      BY <1>7, <1>8, <3>1
    <3>2. CASE q # new
      BY <1>9, <1>11, <1>12, <2>1, <3>2
    <3>3. QED
      BY <3>1, <3>2
  <2>2. QED
    BY <2>1 DEF SameUsedBut
<1>14. Apart(s)
  <2>1. ASSUME NEW q \in DOMAIN s, ~s[q].used
        PROVE  s[s[q].next].used
    <3>1. CASE q = new
      BY <1>7, <1>10, <3>1
    <3>2. CASE q # new
      <4>1. q \in DOMAIN ram /\ ~ram[q].used /\ q # p /\ s[q].next = ram[q].next
        BY <1>7, <1>9, <2>1, <3>2
      <4>2. q # MEM_SIZE
        BY <4>1 DEF List
      <4>3. ram[q].next \in DOMAIN ram /\ ram[ram[q].next].used
        BY <4>1, <4>2, ListFields DEF Apart, InPlace
      <4>4. ram[q].next \in DOMAIN s /\ ram[q].next # new
        BY <1>8, <1>11, <1>12, <4>3
      <4>5. QED
        BY <1>9, <4>1, <4>3, <4>4
    <3>3. QED
      BY <3>1, <3>2
  <2>2. QED
    BY <2>1 DEF Apart
<1>15. QED
  <2>1. \A q \in DOMAIN s : ~s[q].used => q = new \/ (q \in DOMAIN ram /\ ~ram[q].used)
    BY <1>9
  <2>2. \A q \in DOMAIN ram : q <= p => q \in DOMAIN s
    BY <1>7
  <2>3. QED
    BY <1>4, <1>5, <1>7, <1>10, <1>13, <1>14, <2>1, <2>2 DEF ShrunkFrom

LEMMA HoleMade ==
  ASSUME List(ram), Apart(ram), NEW p \in DOMAIN ram, p # MEM_SIZE, ram[p].used,
         ram[ram[p].next].used,
         NEW new \in Nat, p + SIZEOF_STRUCT_MEM + MIN_SIZE <= new,
         new + SIZEOF_STRUCT_MEM + MIN_SIZE <= ram[p].next
  PROVE  LET s == Placed(ram, p, new, ram[p].next)
         IN  ShrunkFrom(ram, s, p, new) /\ \A q \in DOMAIN ram : q \in DOMAIN s
<1>1. DEFINE s == Placed(ram, p, new, ram[p].next)
<1> SUFFICES ShrunkFrom(ram, s, p, new) /\ \A q \in DOMAIN ram : q \in DOMAIN s
  OBVIOUS
<1>2. SplitAt(ram, p, new, s)
  BY SplitFields
<1>3. HIDE DEF s
<1>4. /\ List(s) /\ DOMAIN s = DOMAIN ram \cup {new}
      /\ ram[p].next \in DOMAIN ram /\ new \notin DOMAIN ram /\ p \in DOMAIN s
      /\ s[new].next = ram[p].next /\ ~s[new].used
      /\ s[p].next = new /\ s[p].used
      /\ \A q \in DOMAIN ram : s[q].used = ram[q].used /\ (q # p => s[q].next = ram[q].next)
  BY <1>2 DEF SplitAt
<1>5. p < new
  BY ListFields, MemConstants
<1>6. SameUsedBut(ram, s, p)
  BY <1>4 DEF SameUsedBut
<1>7. Apart(s)
  <2>1. ASSUME NEW q \in DOMAIN s, ~s[q].used
        PROVE  s[s[q].next].used
    <3>1. CASE q = new
      BY <1>4, <3>1
    <3>2. CASE q # new
      <4>1. q \in DOMAIN ram /\ ~ram[q].used /\ q # p /\ s[q].next = ram[q].next
        BY <1>4, <2>1, <3>2
      <4>2. q # MEM_SIZE
        BY <4>1 DEF List
      <4>3. ram[q].next \in DOMAIN ram /\ ram[ram[q].next].used
        BY <4>1, <4>2, ListFields DEF Apart, InPlace
      <4>4. QED
        BY <1>4, <4>1, <4>3
    <3>3. QED
      BY <3>1, <3>2
  <2>2. QED
    BY <2>1 DEF Apart
<1>8. QED
  BY <1>4, <1>5, <1>6, <1>7 DEF ShrunkFrom

-----------------------------------------------------------------------------
(* The actions *)

LEMMA MallocTakes ==
  ASSUME MemInv, NEW n \in Sizes, mem_malloc(n), ~(refused' = n /\ UNCHANGED <<ram, lfree>>)
  PROVE  \E p \in Fitting(AtLeastMin(n)) :
           /\ TakenFrom(ram, ram', p, AtLeastMin(n))
           /\ IsLowest(ram', lfree') /\ refused' = 0
<1>1. DEFINE size == AtLeastMin(n)
<1>2. PICK p \in Fitting(size) : Allocate(p, size)
  BY DEF mem_malloc, Lowest
<1>3. size \in Nat /\ size >= MIN_SIZE
  BY MemConstants
<1>4. HIDE DEF size
<1>5. TakenFrom(ram, ram', p, size)
  <2>1. ram' = Marked(IF IsSplit(p, size)
                      THEN Placed(ram, p, p + SIZEOF_STRUCT_MEM + size, ram[p].next)
                      ELSE ram, p, TRUE)
    BY <1>2 DEF Allocate
  <2>2. List(ram) /\ Apart(ram)
    BY DEF MemInv
  <2>3. QED
    BY <1>3, <2>1, <2>2, TakenWhole
<1>6. /\ List(ram')
      /\ \A q \in DOMAIN ram' : ~ram'[q].used => q > p \/ (q \in DOMAIN ram /\ ~ram[q].used)
      /\ \A q \in DOMAIN ram : q \in DOMAIN ram'
  BY <1>5 DEF TakenFrom
<1>7. p \in Nat /\ lfree \in DOMAIN ram /\ lfree \in Nat /\ lfree <= p
  BY ListFields DEF MemInv, Fitting, IsLowest
<1>8. \A q \in DOMAIN ram' : q \in Nat
  BY <1>6, ListFields
<1>9. IsLowest(ram', lfree')
  <2>1. CASE p = lfree
    <3>1. lfree' \in Lowest({q \in DOMAIN ram' : q >= p /\ (~ram'[q].used \/ q = MEM_SIZE)})
      BY <1>2, <2>1 DEF Allocate
    <3>2. /\ lfree' \in DOMAIN ram'
          /\ \A q \in DOMAIN ram' : q >= p /\ ~ram'[q].used => lfree' <= q
      BY <3>1 DEF Lowest
    <3>3. \A q \in DOMAIN ram' : ~ram'[q].used => q >= p
      BY <1>6, <1>7, <1>8, <2>1 DEF MemInv, IsLowest
    <3>4. QED
      BY <3>2, <3>3 DEF IsLowest
  <2>2. CASE p # lfree
    <3>1. lfree' = lfree
      BY <1>2, <2>2 DEF Allocate
    <3>2. \A q \in DOMAIN ram' : ~ram'[q].used => lfree <= q
      BY <1>6, <1>7, <1>8 DEF MemInv, IsLowest
    <3>3. QED
      BY <1>6, <1>7, <3>1, <3>2 DEF IsLowest
  <2>3. QED
    BY <2>1, <2>2
<1>10. refused' = 0
  BY <1>2 DEF Allocate
<1>11. QED
  BY <1>5, <1>9, <1>10 DEF size

LEMMA FreeFrees ==
  ASSUME MemInv, NEW p \in Used, mem_free(p)
  PROVE  FreedFrom(ram, ram', p) /\ IsLowest(ram', lfree') /\ refused' = 0
<1>1. DEFINE r == Marked(ram, p, FALSE)
             s == PlugNext(r, p)
<1>2. /\ ram' = PlugPrev(s, p)
      /\ lfree' = LfreePrev(s, LfreeNext(r, Lower(p), p), p)
      /\ refused' = 0
  BY DEF mem_free
<1>3. p \in DOMAIN ram /\ p # MEM_SIZE /\ ram[p].used /\ List(ram) /\ Apart(ram)
  BY DEF Used, MemInv
<1>4. JoinedNext(ram, s, p)
  BY <1>3, FreedNext
<1>5. MarkedAs(ram, p, FALSE, r)
  BY <1>3, MarkedList
<1>6. HIDE DEF r, s
<1>7. FreedFrom(ram, ram', p)
  BY <1>2, <1>3, <1>4, FreedPrev
<1>8. p \in Nat /\ lfree \in Nat /\ lfree \in DOMAIN ram
  BY <1>3, ListFields DEF MemInv, IsLowest
<1>9. Lower(p) \in Nat /\ Lower(p) <= p /\ Lower(p) <= lfree /\ (Lower(p) = p \/ Lower(p) = lfree)
  BY <1>8 DEF Lower
<1>10. LfreeNext(r, Lower(p), p) = Lower(p)
  <2>1. r[p].next = ram[p].next
    BY <1>3, <1>5 DEF MarkedAs
  <2>2. ram[p].next \in Nat /\ p < ram[p].next
    BY <1>3, <1>8, ListFields, MemConstants DEF InPlace
  <2>3. Lower(p) # r[p].next
    BY <1>8, <1>9, <2>1, <2>2
  <2>4. QED
    BY <2>3 DEF LfreeNext
<1>11. JoinsPrev(s, p) => Lower(p) # p
  <2>1. HAVE JoinsPrev(s, p)
  <2>2. List(s) /\ p \in DOMAIN s
    BY <1>4 DEF JoinedNext
  <2>3. s[p].prev # p /\ ~s[s[p].prev].used
    BY <2>1 DEF JoinsPrev
  <2>4. p # 0
    BY <2>2, <2>3 DEF List
  <2>5. s[p].prev \in DOMAIN s /\ s[p].prev < p
    BY <1>3, <2>2, <2>4, Predecessor
  <2>6. s[p].prev \in DOMAIN ram /\ ~ram[s[p].prev].used
    BY <1>4, <2>3, <2>5 DEF JoinedNext
  <2>7. lfree <= s[p].prev /\ s[p].prev \in Nat
    BY <2>6, <1>3, ListFields DEF MemInv, IsLowest
  <2>8. QED
    BY <1>8, <1>9, <2>5, <2>7
<1>12. lfree' = Lower(p)
  BY <1>2, <1>10, <1>11 DEF LfreePrev
<1>13. /\ List(ram')
       /\ \A q \in DOMAIN ram' : ~ram'[q].used => q = p \/ (q \in DOMAIN ram /\ ~ram[q].used)
       /\ \A q \in DOMAIN ram : q < p => q \in DOMAIN ram'
       /\ p \in DOMAIN ram' \/ \E q \in DOMAIN ram : q < p /\ ~ram[q].used
  BY <1>7 DEF FreedFrom
<1>14. Lower(p) \in DOMAIN ram'
  <2>1. CASE lfree < p
    BY <1>8, <1>9, <1>13, <2>1 DEF Lower
  <2>2. CASE ~(lfree < p)
    <3>1. \A q \in DOMAIN ram : ~ram[q].used => ~(q < p)
      <4>1. ASSUME NEW q \in DOMAIN ram, ~ram[q].used
            PROVE  ~(q < p)
        <5>1. lfree <= q /\ q \in Nat
          BY <1>3, <4>1, ListFields DEF MemInv, IsLowest
        <5>2. QED
          BY <1>8, <2>2, <5>1
      <4>2. QED
        BY <4>1
    <3>2. p \in DOMAIN ram'
      BY <1>13, <3>1
    <3>3. Lower(p) = p
      BY <1>8, <2>2 DEF Lower
    <3>4. QED
      BY <3>2, <3>3
  <2>3. QED
    BY <2>1, <2>2
<1>15. \A q \in DOMAIN ram' : ~ram'[q].used => Lower(p) <= q
  <2>1. ASSUME NEW q \in DOMAIN ram', ~ram'[q].used
        PROVE  Lower(p) <= q
    <3>1. CASE q = p
      BY <1>9, <3>1
    <3>2. CASE q # p
      <4>1. lfree <= q /\ q \in Nat
        BY <1>3, <1>13, <2>1, <3>2, ListFields DEF MemInv, IsLowest
      <4>2. QED
        BY <1>8, <1>9, <4>1
    <3>3. QED
      BY <3>1, <3>2
  <2>2. QED
    BY <2>1
<1>16. QED
  BY <1>2, <1>7, <1>12, <1>14, <1>15 DEF IsLowest

LEMMA ReallocShrinks ==
  ASSUME MemInv, NEW p \in Used, NEW n \in Sizes, mem_realloc(p, n)
  PROVE  LET new == p + SIZEOF_STRUCT_MEM + AtLeastMin(n)
         IN  /\ ShrunkFrom(ram, ram', p, new) /\ new < ram[p].next
             /\ IsLowest(ram', lfree') /\ refused' = 0
<1>1. DEFINE new == p + SIZEOF_STRUCT_MEM + AtLeastMin(n)
<1> SUFFICES /\ ShrunkFrom(ram, ram', p, new) /\ new < ram[p].next
             /\ IsLowest(ram', lfree') /\ refused' = 0
  OBVIOUS
<1>2. p \in DOMAIN ram /\ p # MEM_SIZE /\ ram[p].used /\ List(ram) /\ Apart(ram)
  BY DEF Used, MemInv
<1>3. /\ AtLeastMin(n) < Room(p) /\ refused' = 0
      /\ \/ ~ram[ram[p].next].used /\ MoveHole(p, new)
         \/ ram[ram[p].next].used /\ IsSplit(p, AtLeastMin(n)) /\ MakeHole(p, new)
  BY DEF mem_realloc
<1>4. /\ p \in Nat /\ new \in Nat /\ p + SIZEOF_STRUCT_MEM + MIN_SIZE <= new
      /\ ram[p].next \in Nat /\ new < ram[p].next /\ p < new
      /\ lfree \in Nat /\ lfree \in DOMAIN ram
  <2>1. p \in Nat /\ ram[p].next \in Nat /\ lfree \in Nat /\ lfree \in DOMAIN ram
    BY <1>2, ListFields, MemConstants DEF MemInv, IsLowest
  <2>2. AtLeastMin(n) \in Nat /\ AtLeastMin(n) >= MIN_SIZE
    BY MemConstants
  <2>3. QED
    BY <1>3, <2>1, <2>2, MemConstants DEF Room
<1>5. CASE ~ram[ram[p].next].used
  <2>1. /\ ram' = Placed(ram, p, new, ram[ram[p].next].next)
        /\ lfree' = IF lfree = ram[p].next THEN new ELSE lfree
    BY <1>3, <1>5 DEF MoveHole
  <2>2. HIDE DEF new
  <2>3. ShrunkFrom(ram, ram', p, new)
    BY <1>2, <1>4, <1>5, <2>1, HoleMoved
  <2>4. /\ List(ram') /\ new \in DOMAIN ram'
        /\ \A q \in DOMAIN ram' : ~ram'[q].used => q = new \/ (q \in DOMAIN ram /\ ~ram[q].used)
        /\ \A q \in DOMAIN ram : q <= p => q \in DOMAIN ram'
    BY <2>3 DEF ShrunkFrom
  <2>5. ram[p].next \in DOMAIN ram /\ lfree <= ram[p].next
    BY <1>2, <1>5, ListFields DEF InPlace, MemInv, IsLowest
  <2>6. \A q \in DOMAIN ram' : ~ram'[q].used => q = new \/ (q \in Nat /\ lfree <= q)
    BY <1>2, <2>4, ListFields DEF MemInv, IsLowest
  <2>7. CASE lfree = ram[p].next
    <3>1. lfree' = new
      BY <2>1, <2>7
    <3>2. \A q \in DOMAIN ram' : ~ram'[q].used => new <= q
      BY <1>4, <2>6, <2>7
    <3>3. QED
      BY <1>3, <1>4, <2>3, <2>4, <3>1, <3>2 DEF IsLowest
  <2>8. CASE lfree # ram[p].next
    <3>1. lfree' = lfree
      BY <2>1, <2>8
    <3>2. lfree <= p
      <4>1. lfree < ram[p].next
        BY <1>4, <2>5, <2>8
      <4>2. p < lfree => ram[p].next <= lfree
        BY <1>2, <1>4, ListFields DEF InPlace
      <4>3. QED
        BY <1>4, <4>1, <4>2
    <3>3. \A q \in DOMAIN ram' : ~ram'[q].used => lfree <= q
      BY <1>4, <2>6, <3>2
    <3>4. lfree \in DOMAIN ram'
      BY <1>4, <2>4, <3>2
    <3>5. QED
      BY <1>3, <1>4, <2>3, <3>1, <3>3, <3>4 DEF IsLowest
  <2>9. QED
    BY <2>7, <2>8
<1>6. CASE ram[ram[p].next].used
  <2>1. ram' = Placed(ram, p, new, ram[p].next) /\ lfree' = Lower(new)
    BY <1>3, <1>6 DEF MakeHole
  <2>2. new + SIZEOF_STRUCT_MEM + MIN_SIZE <= ram[p].next
    <3>1. IsSplit(p, AtLeastMin(n)) /\ AtLeastMin(n) \in Nat
      BY <1>3, <1>6, MemConstants
    <3>2. QED
      BY <1>4, <3>1, MemConstants DEF IsSplit, Room
  <2>3. HIDE DEF new
  <2>4. ShrunkFrom(ram, ram', p, new) /\ \A q \in DOMAIN ram : q \in DOMAIN ram'
    BY <1>2, <1>4, <1>6, <2>1, <2>2, HoleMade
  <2>5. /\ List(ram') /\ new \in DOMAIN ram'
        /\ \A q \in DOMAIN ram' : ~ram'[q].used => q = new \/ (q \in DOMAIN ram /\ ~ram[q].used)
    BY <2>4 DEF ShrunkFrom
  <2>6. \A q \in DOMAIN ram' : ~ram'[q].used => q = new \/ (q \in Nat /\ lfree <= q)
    BY <1>2, <2>5, ListFields DEF MemInv, IsLowest
  <2>7. lfree' \in DOMAIN ram'
    BY <1>4, <2>1, <2>4, <2>5 DEF Lower
  <2>8. \A q \in DOMAIN ram' : ~ram'[q].used => lfree' <= q
    BY <1>4, <2>1, <2>6 DEF Lower
  <2>9. QED
    BY <1>3, <1>4, <2>4, <2>7, <2>8 DEF IsLowest
<1>7. QED
  BY <1>5, <1>6

-----------------------------------------------------------------------------
(* The invariant *)

LEMMA MemInvInit ==
  ASSUME MemInit
  PROVE  MemInv
<1>1. /\ ram = [p \in {0, MEM_SIZE} |->
                  [next |-> MEM_SIZE, prev |-> p, used |-> p = MEM_SIZE]]
      /\ lfree = 0 /\ refused = 0
  BY DEF MemInit
<1>2. 0 \in 0..MEM_SIZE /\ MEM_SIZE \in 0..MEM_SIZE /\ 0 # MEM_SIZE
  BY MemConstants
<1>3. /\ DOMAIN ram = {0, MEM_SIZE}
      /\ ram[0].next = MEM_SIZE /\ ram[0].prev = 0 /\ ~ram[0].used
      /\ ram[MEM_SIZE].next = MEM_SIZE /\ ram[MEM_SIZE].used
  BY <1>1, <1>2
<1>4. \A p \in {0, MEM_SIZE} : [next |-> MEM_SIZE, prev |-> p, used |-> p = MEM_SIZE] \in Struct
  BY <1>2 DEF Struct
<1>5. ram \in [DOMAIN ram -> Struct]
  BY <1>1, <1>4
<1>6. InPlace(ram, 0)
  BY <1>2, <1>3, MemConstants DEF InPlace
<1>7. List(ram)
  BY <1>2, <1>3, <1>5, <1>6 DEF List
<1>8. Apart(ram)
  BY <1>3 DEF Apart
<1>9. lfree = 0 /\ refused = 0
  BY <1>1
<1>10. IsLowest(ram, lfree)
  BY <1>2, <1>3, <1>9, MemConstants DEF IsLowest
<1>11. QED
  BY <1>7, <1>8, <1>9, <1>10 DEF MemInv

LEMMA MemInvStep ==
  ASSUME MemInv, [MemNext]_memVars
  PROVE  MemInv'
<1>1. CASE UNCHANGED memVars
  BY <1>1 DEF memVars, MemInv
<1>2. ASSUME NEW n \in Sizes, mem_malloc(n)
      PROVE  MemInv'
  <2>1. CASE refused' = n /\ UNCHANGED <<ram, lfree>>
    BY <2>1 DEF MemInv
  <2>2. CASE ~(refused' = n /\ UNCHANGED <<ram, lfree>>)
    <3>1. PICK p : TakenFrom(ram, ram', p, AtLeastMin(n)) /\ IsLowest(ram', lfree') /\ refused' = 0
      BY <1>2, <2>2, MallocTakes
    <3>2. QED
      BY <3>1 DEF TakenFrom, MemInv
  <2>3. QED
    BY <2>1, <2>2
<1>3. ASSUME NEW p \in Used, mem_free(p)
      PROVE  MemInv'
  BY <1>3, FreeFrees DEF FreedFrom, MemInv
<1>4. ASSUME NEW p \in Used, NEW n \in Sizes, mem_realloc(p, n)
      PROVE  MemInv'
  BY <1>4, ReallocShrinks DEF ShrunkFrom, MemInv
<1>5. QED
  BY <1>1, <1>2, <1>3, <1>4 DEF MemNext

LEMMA MemInvHolds == MemSpec => []MemInv
  BY MemInvInit, MemInvStep, PTL DEF MemSpec

(* The list of the heap is whole at any time: it covers ram, is linked both *)
(* ways, and no area of it is smaller than MIN_SIZE.                        *)
THEOREM ListStaysWhole == MemSpec => []MemTypeOK
<1>1. ASSUME MemInv
      PROVE  MemTypeOK
  <2>1. ASSUME NEW p \in DOMAIN ram \ {MEM_SIZE}
        PROVE  InPlace(ram, p)
    BY <1>1 DEF MemInv, List
  <2>2. QED
    BY <1>1, <2>1 DEF MemInv, List, IsLowest, InPlace, MemTypeOK
<1>2. QED
  BY <1>1, MemInvHolds, PTL

(* plug_holes leaves no two holes side by side, and lfree never lies above a *)
(* hole, where the search of mem_malloc would miss it.                       *)
THEOREM HolesStayApart == MemSpec => []HolesApart
<1>1. MemInv => HolesApart
  BY DEF MemInv, Apart, IsLowest, HolesApart
<1>2. QED
  BY <1>1, MemInvHolds, PTL

-----------------------------------------------------------------------------
(* The promise *)

UsedIn(r) == {q \in DOMAIN r : r[q].used /\ q # MEM_SIZE}

(* The blocks but that at p. *)
Rest(r, p) == {<<q, r[q].next>> : q \in UsedIn(r) \ {p}}

LEMMA HeldAndRest ==
  ASSUME NEW p
  PROVE  /\ p \in Used => Held = Rest(ram, p) \cup {<<p, ram[p].next>>}
         /\ p \notin Used => Held = Rest(ram, p)
         /\ \A x : <<p, x>> \notin Rest(ram, p)
BY DEF Held, Used, UsedIn, Rest

LEMMA HeldAndRestNext ==
  ASSUME NEW p
  PROVE  /\ p \in Used' => Held' = Rest(ram', p) \cup {<<p, ram'[p].next>>}
         /\ p \notin Used' => Held' = Rest(ram', p)
         /\ \A x : <<p, x>> \notin Rest(ram', p)
BY DEF Held, Used, UsedIn, Rest

LEMMA RestSame ==
  ASSUME NEW r, NEW s, List(r), List(s), NEW p, SameUsedBut(r, s, p)
  PROVE  Rest(r, p) = Rest(s, p)
<1>1. DOMAIN r \subseteq 0..MEM_SIZE /\ DOMAIN s \subseteq 0..MEM_SIZE
  BY DEF List
<1>2. \A q \in 0..MEM_SIZE : q # p =>
        /\ q \in UsedIn(r) <=> q \in UsedIn(s)
        /\ q \in UsedIn(s) => s[q].next = r[q].next
  BY DEF SameUsedBut, UsedIn
<1>3. UsedIn(r) \subseteq 0..MEM_SIZE /\ UsedIn(s) \subseteq 0..MEM_SIZE
  BY <1>1 DEF UsedIn
<1>4. Rest(r, p) \subseteq Rest(s, p)
  BY <1>2, <1>3 DEF Rest
<1>5. Rest(s, p) \subseteq Rest(r, p)
  BY <1>2, <1>3 DEF Rest
<1>6. QED
  BY <1>4, <1>5

(* Where an area is, no block is. *)
LEMMA HoleIsVacant ==
  ASSUME List(ram), NEW p \in DOMAIN ram, p # MEM_SIZE, ~ram[p].used,
         NEW b \in Nat, b <= ram[p].next
  PROVE  H!Vacant(p, b)
<1>1. p \in Nat /\ InPlace(ram, p) /\ ram[p].next \in Nat
  BY ListFields
<1>2. ASSUME NEW q \in Used
      PROVE  b <= q \/ ram[q].next <= p
  <2>1. q \in DOMAIN ram /\ q \in Nat /\ q # MEM_SIZE /\ InPlace(ram, q) /\ q # p
    BY ListFields DEF Used
  <2>2. CASE q < p
    BY <2>1, <2>2 DEF InPlace
  <2>3. CASE p < q
    <3>1. ram[p].next <= q
      BY <1>1, <2>1, <2>3 DEF InPlace
    <3>2. QED
      BY <1>1, <2>1, <3>1
  <2>4. QED
    BY <1>1, <2>1, <2>2, <2>3
<1>3. QED
  BY <1>2 DEF Held, H!Vacant

(* mem_malloc gives a block that was vacant. *)
LEMMA GetsBlock ==
  ASSUME MemInv, NEW n \in Sizes, mem_malloc(n), ~(refused' = n /\ UNCHANGED <<ram, lfree>>)
  PROVE  H!Get(n)
<1>1. PICK p \in Fitting(AtLeastMin(n)) :
        TakenFrom(ram, ram', p, AtLeastMin(n)) /\ refused' = 0
  BY MallocTakes
<1>2. /\ List(ram) /\ List(ram') /\ SameUsedBut(ram, ram', p)
      /\ p \in DOMAIN ram' /\ ram'[p].used
      /\ p + SIZEOF_STRUCT_MEM + AtLeastMin(n) <= ram'[p].next /\ ram'[p].next <= ram[p].next
  BY <1>1 DEF TakenFrom, MemInv
<1>3. /\ p \in DOMAIN ram /\ p < MEM_SIZE - AtLeastMin(n) /\ ~ram[p].used
  BY <1>1 DEF Fitting
<1>4. /\ p \in Nat /\ p # MEM_SIZE /\ p \in 0..MEM_SIZE /\ ram'[p].next \in 0..MEM_SIZE
      /\ ram'[p].next \in Nat
  <2>1. p \in Nat /\ p \in 0..MEM_SIZE /\ AtLeastMin(n) \in Nat /\ MEM_SIZE \in Nat
    BY <1>2, <1>3, ListFields, MemConstants
  <2>2. ram'[p].next \in 0..MEM_SIZE
    BY <1>2, ListFields
  <2>3. QED
    BY <1>3, <2>1, <2>2
<1>5. p \notin Used /\ p \in Used'
  BY <1>2, <1>3, <1>4 DEF Used
<1>6. DEFINE k == <<p, ram'[p].next>>
<1>7. Held' = Held \cup {k} /\ k \notin Held
  <2>1. Rest(ram, p) = Rest(ram', p)
    BY <1>2, RestSame
  <2>2. Held = Rest(ram, p) /\ k \notin Rest(ram, p)
    BY <1>5, HeldAndRest
  <2>3. Held' = Rest(ram', p) \cup {k}
    BY <1>5, HeldAndRestNext
  <2>4. QED
    BY <2>1, <2>2, <2>3
<1>8. H!Vacant(p, ram'[p].next)
  BY <1>2, <1>3, <1>4, HoleIsVacant
<1>9. p + H!Span(n) <= ram'[p].next
  BY <1>2, <1>4, MemConstants DEF H!Span, H!AtLeastMin, AtLeastMin
<1>10. k \in (0..MEM_SIZE) \X (0..MEM_SIZE) /\ k[1] = p /\ k[2] = ram'[p].next
  BY <1>4
<1>11. HIDE DEF k
<1>12. QED
  BY <1>1, <1>7, <1>8, <1>9, <1>10 DEF H!Get

(* mem_malloc refuses only what nowhere would have had room. *)
LEMMA RefusesInNeed ==
  ASSUME MemInv, NEW n \in Sizes, Fitting(AtLeastMin(n)) = {}, refused' = n,
         UNCHANGED <<ram, lfree>>
  PROVE  H!Refuse(n)
<1>1. H!Span(n) = SIZEOF_STRUCT_MEM + AtLeastMin(n) /\ AtLeastMin(n) \in Nat
  BY MemConstants DEF H!Span, H!AtLeastMin, AtLeastMin
<1>2. ASSUME NEW a \in 0..MEM_SIZE, a + H!Span(n) <= MEM_SIZE, H!Vacant(a, a + H!Span(n))
      PROVE  FALSE
  <2>1. a \in 0..(MEM_SIZE - 1) /\ a \in Nat
    BY <1>1, <1>2, MemConstants
  <2>2. PICK p \in DOMAIN ram : p <= a /\ a < ram[p].next
    BY <2>1 DEF MemInv, List
  <2>3. /\ p \in Nat /\ p # MEM_SIZE /\ InPlace(ram, p) /\ ram[p].next \in DOMAIN ram
        /\ ram[p].next \in Nat /\ ram[p].next <= MEM_SIZE
    <3>1. p \in Nat /\ p # MEM_SIZE
      BY <2>1, <2>2, MemConstants, ListFields DEF MemInv
    <3>2. InPlace(ram, p) /\ ram[p].next \in 0..MEM_SIZE
      BY <3>1, ListFields DEF MemInv
    <3>3. QED
      BY <3>1, <3>2, MemConstants DEF InPlace
  <2>4. \A q \in Used : a + H!Span(n) <= q \/ ram[q].next <= a
    <3>1. \A q \in Used : <<q, ram[q].next>> \in Held
      BY DEF Held
    <3>2. \A k \in Held : a + H!Span(n) <= k[1] \/ k[2] <= a
      BY <1>2 DEF H!Vacant
    <3>3. QED
      BY <3>1, <3>2
  <2>5. ~ram[p].used
    <3>1. ASSUME ram[p].used
          PROVE  FALSE
      <4>1. p \in Used
        BY <2>3, <3>1 DEF Used
      <4>2. a + H!Span(n) <= p
        BY <2>1, <2>2, <2>3, <2>4, <4>1
      <4>3. QED
        BY <1>1, <2>1, <2>2, <2>3, <4>2, MemConstants
    <3>2. QED
      BY <3>1
  <2>6. a + H!Span(n) <= ram[p].next
    <3>1. CASE ram[p].next = MEM_SIZE
      BY <1>2, <3>1
    <3>2. CASE ram[p].next # MEM_SIZE
      <4>1. ram[p].next \in Used
        BY <2>3, <2>5, <3>2 DEF MemInv, Apart, Used
      <4>2. ram[ram[p].next].next \in Nat /\ ram[p].next < ram[ram[p].next].next
        BY <2>3, <3>2, MemConstants, ListFields DEF MemInv, InPlace
      <4>3. QED
        BY <2>1, <2>2, <2>3, <2>4, <4>1, <4>2
    <3>3. QED
      BY <3>1, <3>2
  <2>7. lfree \in Nat /\ lfree <= p
    BY <2>5, ListFields DEF MemInv, IsLowest
  <2>8. p \in Fitting(AtLeastMin(n))
    <3>1. p < MEM_SIZE - AtLeastMin(n) /\ Room(p) >= AtLeastMin(n)
      BY <1>1, <2>1, <2>2, <2>3, <2>6, MemConstants DEF Room
    <3>2. QED
      BY <2>5, <2>7, <3>1 DEF Fitting
  <2>9. QED
    BY <2>8
<1>3. UNCHANGED Held
  BY DEF Held, Used
<1>4. QED
  BY <1>2, <1>3 DEF H!Refuse

(* mem_free takes back that block, and no other. *)
LEMMA TakesBack ==
  ASSUME MemInv, NEW p \in Used, mem_free(p)
  PROVE  <<p, ram[p].next>> \in Held /\ H!Give(<<p, ram[p].next>>)
<1>1. /\ List(ram) /\ List(ram') /\ SameUsedBut(ram, ram', p) /\ refused' = 0
      /\ p \in DOMAIN ram' => ~ram'[p].used
  BY FreeFrees DEF FreedFrom, MemInv
<1>2. p \notin Used'
  BY <1>1 DEF Used
<1>3. Rest(ram, p) = Rest(ram', p)
  BY <1>1, RestSame
<1>4. Held = Rest(ram, p) \cup {<<p, ram[p].next>>} /\ <<p, ram[p].next>> \notin Rest(ram, p)
  BY HeldAndRest
<1>5. Held' = Rest(ram', p)
  BY <1>2, HeldAndRestNext
<1>6. Held' = Held \ {<<p, ram[p].next>>}
  BY <1>3, <1>4, <1>5
<1>7. QED
  BY <1>1, <1>4, <1>6 DEF H!Give

(* mem_realloc shortens that block, and touches no other. *)
LEMMA Shortens ==
  ASSUME MemInv, NEW p \in Used, NEW n \in Sizes, mem_realloc(p, n)
  PROVE  <<p, ram[p].next>> \in Held /\ H!Shrink(<<p, ram[p].next>>, n)
<1>1. DEFINE new == p + SIZEOF_STRUCT_MEM + AtLeastMin(n)
             k == <<p, ram[p].next>>
<1>2. ShrunkFrom(ram, ram', p, new) /\ new < ram[p].next /\ refused' = 0
  BY ReallocShrinks
<1>3. /\ p \in Nat /\ ram[p].next \in Nat /\ new \in Nat /\ p # MEM_SIZE /\ List(ram)
      /\ p + H!Span(n) <= new
  <2>1. p \in DOMAIN ram /\ p # MEM_SIZE /\ List(ram)
    BY DEF Used, MemInv
  <2>2. AtLeastMin(n) \in Nat /\ H!Span(n) = SIZEOF_STRUCT_MEM + AtLeastMin(n)
    BY MemConstants DEF H!Span, H!AtLeastMin, AtLeastMin
  <2>3. p \in Nat /\ ram[p].next \in Nat
    BY <2>1, ListFields, MemConstants
  <2>4. QED
    BY <2>1, <2>2, <2>3, MemConstants
<1>4. HIDE DEF new
<1>5. /\ List(ram') /\ SameUsedBut(ram, ram', p)
      /\ p \in DOMAIN ram' /\ ram'[p].used /\ ram'[p].next = new
  BY <1>2 DEF ShrunkFrom
<1>6. p \in Used'
  BY <1>3, <1>5 DEF Used
<1>7. Rest(ram, p) = Rest(ram', p)
  BY <1>3, <1>5, RestSame
<1>8. Held = Rest(ram, p) \cup {k} /\ k \notin Rest(ram, p)
  BY HeldAndRest
<1>9. Held' = Rest(ram', p) \cup {<<p, new>>}
  BY <1>5, <1>6, HeldAndRestNext
<1>10. Held' = (Held \ {k}) \cup {<<p, new>>}
  BY <1>7, <1>8, <1>9
<1>11. new \in 0..k[2] /\ k[1] = p
  BY <1>2, <1>3
<1>12. k \in Held
  BY <1>8
<1>13. HIDE DEF k
<1>14. H!Shrink(k, n)
  BY <1>2, <1>3, <1>10, <1>11 DEF H!Shrink
<1>15. QED
  BY <1>12, <1>14 DEF k

(* The heap of mem.c keeps its promise, for every size of heap and request:  *)
(* what mem_malloc gives out overlaps nothing that is held, mem_free and     *)
(* mem_realloc change no other block, and no request is refused while there  *)
(* is room for it between the blocks.                                        *)
THEOREM HeapKeepsItsPromise == MemSpec => ImplementsHeap
<1>1. MemInit => H!HeapInit
  <2>1. HAVE MemInit
  <2>2. /\ ram = [p \in {0, MEM_SIZE} |->
                  [next |-> MEM_SIZE, prev |-> p, used |-> p = MEM_SIZE]]
        /\ refused = 0
    BY <2>1 DEF MemInit
  <2>3. DOMAIN ram = {0, MEM_SIZE} /\ (0 # MEM_SIZE => ~ram[0].used)
    BY <2>2
  <2>4. Used = {}
    BY <2>3, MemConstants DEF Used
  <2>5. QED
    BY <2>2, <2>4 DEF H!HeapInit, Held
<1>2. ASSUME MemInv, [MemNext]_memVars
      PROVE  [H!HeapNext]_(H!heapVars)
  <2>1. CASE UNCHANGED memVars
    BY <2>1 DEF memVars, H!heapVars, Held, Used
  <2>2. ASSUME NEW n \in Sizes, mem_malloc(n)
        PROVE  H!HeapNext
    <3>1. CASE refused' = n /\ UNCHANGED <<ram, lfree>>
      <4>1. CASE Fitting(AtLeastMin(n)) = {}
        BY <1>2, <3>1, <4>1, RefusesInNeed DEF H!HeapNext
      <4>2. CASE \E p \in Lowest(Fitting(AtLeastMin(n))) : Allocate(p, AtLeastMin(n))
        <5>1. refused' = 0 /\ n # 0
          BY <4>2, MemConstants DEF Allocate
        <5>2. QED
          BY <3>1, <5>1
      <4>3. QED
        BY <2>2, <4>1, <4>2 DEF mem_malloc
    <3>2. CASE ~(refused' = n /\ UNCHANGED <<ram, lfree>>)
      BY <1>2, <2>2, <3>2, GetsBlock DEF H!HeapNext
    <3>3. QED
      BY <3>1, <3>2
  <2>3. ASSUME NEW p \in Used, mem_free(p)
        PROVE  H!HeapNext
    BY <1>2, <2>3, TakesBack DEF H!HeapNext
  <2>4. ASSUME NEW p \in Used, NEW n \in Sizes, mem_realloc(p, n)
        PROVE  H!HeapNext
    BY <1>2, <2>4, Shortens DEF H!HeapNext
  <2>5. QED
    BY <1>2, <2>1, <2>2, <2>3, <2>4 DEF MemNext
<1>3. QED
  BY <1>1, <1>2, MemInvHolds, PTL DEF MemSpec, ImplementsHeap, H!HeapSpec

-----------------------------------------------------------------------------
(* The pbufs, for any number of them, sizes and callers.

   Neither account is inductive between two turns of a loop.  The counts need
   that a pbuf has one link to it at most, and that the tail to be joined has
   none.  The lengths need what the loop owes to the pbuf it has come to:
   those before it have been changed and it has not. *)

PbufStruct == [room : Nat, len : Nat, tot_len : Nat, next : Pbufs \cup {NoPbuf}, ref : Nat]

Chains ==
  /\ DOMAIN pb \subseteq Pbufs
  /\ pb \in [DOMAIN pb -> PbufStruct]
  /\ \A p \in DOMAIN pb : pb[p].next \in DOMAIN pb \cup {NoPbuf}
  /\ \A p, q \in DOMAIN pb : pb[p].next = pb[q].next /\ pb[p].next # NoPbuf => p = q

Callers ==
  /\ holders \in [Pbufs -> Nat]
  /\ \A p \in Pbufs : holders[p] > 0 => p \in DOMAIN pb

Walks ==
  /\ turn \in [op : {"none", "free", "cat", "chain", "realloc", "cut"},
               at : Pbufs \cup {NoPbuf}, tail : Pbufs \cup {NoPbuf}, rem : Nat, grow : Int]
  /\ turn.op = "none" => turn.at = NoPbuf
  /\ turn.op # "none" => turn.at \in DOMAIN pb
  /\ turn.op \in {"cat", "chain"} =>
       turn.tail # turn.at /\ HeldPacket(turn.tail)
  /\ turn.op = "realloc" => turn.grow < 0 /\ turn.rem = pb[turn.at].tot_len + turn.grow
  /\ turn.op = "cut" => turn.grow >= 0 /\ turn.grow = pb[turn.at].tot_len - turn.rem

(* What the pbufs before turn.at have taken or given already.                 *)
Owed ==
  CASE turn.op \in {"cat", "chain"} -> pb[turn.tail].tot_len
    [] turn.op = "realloc" -> turn.grow
    [] turn.op = "cut" -> -turn.rem
    [] OTHER -> 0

LengthsOwed ==
  \A p \in DOMAIN pb :
    pb[p].tot_len = TotLen(p) + (IF pb[p].next = turn.at THEN Owed ELSE 0)

PbufInv == Chains /\ Callers /\ Walks /\ RefsExact /\ LengthsOwed

LEMMA PbufConstants ==
  /\ NoPbuf \notin Pbufs /\ PBUF_POOL_BUFSIZE \in Nat
  /\ \A n \in Lengths : n \in Nat
  /\ \A o \in Offsets : o \in Nat /\ o < PBUF_POOL_BUFSIZE
BY PbufAssumption

-----------------------------------------------------------------------------
LEMMA RefKeeps ==
  ASSUME PbufInv, pbuf_ref
  PROVE  PbufInv'
<1>. USE DEF pbuf_ref, AtRest, Holds
<1>1. PICK p \in DOMAIN pb : /\ pb' = [pb EXCEPT ![p].ref = @ + 1]
                             /\ holders' = [holders EXCEPT ![p] = @ + 1]
  OBVIOUS
<1>2. /\ DOMAIN pb' = DOMAIN pb /\ p \in Pbufs /\ p \in DOMAIN holders
      /\ \A q \in DOMAIN pb : /\ pb'[q].next = pb[q].next /\ pb'[q].len = pb[q].len
                              /\ pb'[q].tot_len = pb[q].tot_len
                              /\ pb'[q].ref = IF q = p THEN pb[q].ref + 1 ELSE pb[q].ref
  BY <1>1 DEF PbufInv, Chains, Callers, PbufStruct
<1>3. \A q : Linked(q)' <=> Linked(q)
  BY <1>2 DEF Linked
<1>4. Chains'
  BY <1>1, <1>2 DEF PbufInv, Chains, PbufStruct
<1>5. Callers'
  BY <1>1, <1>2 DEF PbufInv, Callers
<1>6. Walks'
  BY <1>1, <1>2, <1>3 DEF PbufInv, Walks
<1>7. RefsExact'
  <2>1. \A q \in DOMAIN pb : References(q)' = IF q = p THEN References(q) + 1 ELSE References(q)
    BY <1>1, <1>2, <1>3, PbufConstants DEF PbufInv, Callers, Chains, References
  <2>2. QED
    BY <1>2, <2>1 DEF PbufInv, RefsExact, Chains, PbufStruct
<1>8. LengthsOwed'
  BY <1>2, PbufConstants DEF PbufInv, LengthsOwed, TotLen, Owed, Chains, Walks
<1>9. QED
  BY <1>4, <1>5, <1>6, <1>7, <1>8 DEF PbufInv

LEMMA FreeStepKeeps ==
  ASSUME PbufInv, FreeStep
  PROVE  PbufInv'
<1>. DEFINE p == turn.at
<1>1. /\ turn.op = "free" /\ p \in DOMAIN pb /\ holders' = holders
      /\ p \in Pbufs /\ pb[p] \in PbufStruct /\ pb[p].ref \in Nat /\ pb[p].ref > 0
      /\ pb[p].ref = References(p) /\ p # NoPbuf
  BY PbufConstants DEF FreeStep, PbufInv, Walks, Chains, PbufStruct, RefsExact
<1>2. CASE pb[p].ref # 1
  <2>1. pb' = [pb EXCEPT ![p].ref = @ - 1] /\ turn' = NoWalk
    BY <1>1, <1>2 DEF FreeStep, AfterFree
  <2>2. /\ DOMAIN pb' = DOMAIN pb
        /\ \A q \in DOMAIN pb : /\ pb'[q].next = pb[q].next /\ pb'[q].len = pb[q].len
                                /\ pb'[q].tot_len = pb[q].tot_len
                                /\ pb'[q].ref = IF q = p THEN pb[q].ref - 1 ELSE pb[q].ref
    BY <1>1, <2>1 DEF PbufInv, Chains, PbufStruct
  <2>3. \A q : Linked(q)' <=> Linked(q)
    BY <2>2 DEF Linked
  <2>4. Chains'
    BY <1>1, <1>2, <2>1, <2>2 DEF PbufInv, Chains, PbufStruct
  <2>5. Callers'
    BY <1>1, <2>2 DEF PbufInv, Callers
  <2>6. Walks'
    BY <2>1 DEF Walks, NoWalk
  <2>7. RefsExact'
    <3>1. \A q \in DOMAIN pb : References(q)' = IF q = p THEN References(q) - 1 ELSE References(q)
      BY <1>1, <2>1, <2>2, <2>3 DEF PbufInv, Callers, Chains, References, NoWalk
    <3>2. QED
      BY <1>1, <1>2, <2>2, <3>1 DEF PbufInv, RefsExact, Chains, PbufStruct
  <2>8. LengthsOwed'
    BY <1>1, <2>1, <2>2, PbufConstants DEF PbufInv, LengthsOwed, TotLen, Owed, Chains, NoWalk
  <2>9. QED
    BY <2>4, <2>5, <2>6, <2>7, <2>8 DEF PbufInv
<1>3. CASE pb[p].ref = 1
  <2>1. /\ pb' = [q \in DOMAIN pb \ {p} |-> pb[q]]
        /\ turn' = IF pb[p].next # NoPbuf THEN [turn EXCEPT !.at = pb[p].next] ELSE NoWalk
    BY <1>1, <1>3 DEF FreeStep, AfterFree
  <2>2. /\ DOMAIN pb' = DOMAIN pb \ {p}
        /\ \A q \in DOMAIN pb' : pb'[q] = pb[q]
    BY <2>1
  <2>3. ~Linked(p) /\ holders[p] = 0
    BY <1>1, <1>3 DEF References, PbufInv, Callers
  <2>4. \A q \in DOMAIN pb : pb[q].next # p
    BY <2>3 DEF Linked
  <2>5. \A q \in Pbufs : Linked(q)' <=> Linked(q) /\ q # pb[p].next
    <3>. SUFFICES ASSUME NEW q \in Pbufs
                  PROVE  Linked(q)' <=> Linked(q) /\ q # pb[p].next
      OBVIOUS
    <3>1. ASSUME Linked(q)' PROVE Linked(q) /\ q # pb[p].next
      BY <1>1, <2>2, <3>1, PbufConstants DEF Linked, PbufInv, Chains
    <3>2. ASSUME Linked(q), q # pb[p].next PROVE Linked(q)'
      BY <2>2, <3>2 DEF Linked
    <3>3. QED
      BY <3>1, <3>2
  <2>6. pb[p].next # NoPbuf => pb[p].next \in DOMAIN pb' /\ Linked(pb[p].next)
    BY <1>1, <2>2, <2>4 DEF PbufInv, Chains, Linked
  <2>10. Chains'
    <3>1. pb' \in [DOMAIN pb' -> PbufStruct] /\ DOMAIN pb' \subseteq Pbufs
      BY <2>1, <2>2 DEF PbufInv, Chains
    <3>2. \A q \in DOMAIN pb' : pb'[q].next \in DOMAIN pb' \cup {NoPbuf}
      BY <2>2, <2>4 DEF PbufInv, Chains
    <3>3. QED
      BY <2>2, <3>1, <3>2 DEF PbufInv, Chains
  <2>11. Callers'
    BY <1>1, <2>2, <2>3 DEF PbufInv, Callers
  <2>12. Walks'
    BY <1>1, <2>1, <2>6 DEF PbufInv, Walks, NoWalk, Chains, PbufStruct
  <2>13. RefsExact'
    <3>1. ASSUME NEW q \in DOMAIN pb' PROVE References(q)' = References(q)
      BY <1>1, <2>1, <2>2, <2>5, <2>6, <3>1, PbufConstants
      DEF References, PbufInv, Callers, Chains, Walks, NoWalk
    <3>2. QED
      BY <2>2, <3>1 DEF PbufInv, RefsExact
  <2>14. LengthsOwed'
    BY <1>1, <2>1, <2>2, <2>4, PbufConstants
    DEF PbufInv, LengthsOwed, TotLen, Owed, Chains, PbufStruct, NoWalk, Walks
  <2>15. QED
    BY <2>10, <2>11, <2>12, <2>13, <2>14 DEF PbufInv
<1>4. QED
  BY <1>2, <1>3

(* A header is hidden or revealed: rest says that nothing is owed to the      *)
(* pbufs before p afterwards.                                                 *)
LEMMA HeaderKeeps ==
  ASSUME PbufInv, NEW p \in DOMAIN pb, NEW d \in Int,
         pb[p].len + d >= 0, pb[p].tot_len + d >= 0,
         NEW room \in Nat,
         pb' = [pb EXCEPT ![p].room = room, ![p].len = @ + d, ![p].tot_len = @ + d],
         holders' = holders,
         \/ turn.op = "none" /\ ~Linked(p) /\ turn' = turn
         \/ turn.op = "cut" /\ p = turn.at /\ d = -turn.rem /\ turn' = NoWalk
  PROVE  PbufInv'
<1>1. /\ DOMAIN pb' = DOMAIN pb /\ p \in Pbufs /\ pb[p] \in PbufStruct
      /\ \A q \in DOMAIN pb : /\ pb'[q].next = pb[q].next /\ pb'[q].ref = pb[q].ref
                              /\ pb'[q].len = IF q = p THEN pb[q].len + d ELSE pb[q].len
                              /\ pb'[q].tot_len = IF q = p THEN pb[q].tot_len + d ELSE pb[q].tot_len
  BY DEF PbufInv, Chains, PbufStruct
<1>2. \A q : Linked(q)' <=> Linked(q)
  BY <1>1 DEF Linked
<1>3. Chains'
  <2>1. pb' \in [DOMAIN pb' -> PbufStruct]
    BY <1>1 DEF PbufInv, Chains, PbufStruct
  <2>2. QED
    BY <1>1, <2>1 DEF PbufInv, Chains
<1>4. Callers'
  BY <1>1 DEF PbufInv, Callers
<1>5. Walks'
  BY <1>1 DEF PbufInv, Walks, NoWalk
<1>6. RefsExact'
  BY <1>1, <1>2 DEF PbufInv, RefsExact, References, NoWalk
<1>7. LengthsOwed'
  <2>1. CASE turn.op = "none" /\ ~Linked(p) /\ turn' = turn
    BY <1>1, <2>1, PbufConstants DEF PbufInv, LengthsOwed, TotLen, Owed, Chains, PbufStruct, Linked
  <2>2. CASE turn.op = "cut" /\ p = turn.at /\ d = -turn.rem /\ turn' = NoWalk
    BY <1>1, <2>2, PbufConstants
    DEF PbufInv, LengthsOwed, TotLen, Owed, Chains, PbufStruct, Walks, NoWalk
  <2>3. QED
    BY <2>1, <2>2
<1>8. QED
  BY <1>3, <1>4, <1>5, <1>6, <1>7 DEF PbufInv

LEMMA HeadersKeep ==
  ASSUME PbufInv, pbuf_header
  PROVE  PbufInv'
<1>1. PICK p \in DOMAIN pb, n \in Lengths : HeldPacket(p) /\ (Reveal(p, n) \/ Hide(p, n))
  BY DEF pbuf_header
<1>2. /\ n \in Nat /\ turn.op = "none" /\ turn' = turn /\ holders' = holders /\ ~Linked(p)
      /\ pb[p] \in PbufStruct
  BY <1>1, PbufConstants DEF pbuf_header, AtRest, HeldPacket, PbufInv, Chains
<1>3. pb[p].room \in Nat /\ pb[p].len \in Nat /\ pb[p].tot_len \in Nat
  BY <1>2 DEF PbufStruct
<1>4. CASE Reveal(p, n)
  <2>. DEFINE d == n
              room == pb[p].room - n
  <2>1. /\ room \in Nat /\ d \in Int /\ pb[p].len + d >= 0 /\ pb[p].tot_len + d >= 0
        /\ pb' = [pb EXCEPT ![p].room = room, ![p].len = @ + d, ![p].tot_len = @ + d]
    BY <1>2, <1>3, <1>4 DEF Reveal
  <2>2. HIDE DEF d, room
  <2>3. QED
    BY <1>2, <2>1, HeaderKeeps
<1>5. CASE Hide(p, n)
  <2>. DEFINE d == -n
              room == pb[p].room + n
  <2>1. pb[p].tot_len >= pb[p].len
    BY <1>2, <1>3, PbufConstants DEF PbufInv, LengthsOwed, TotLen, Chains, PbufStruct, Owed
  <2>2. pb' = [pb EXCEPT ![p].room = room, ![p].len = @ + d, ![p].tot_len = @ + d]
    BY <1>3, <1>5 DEF Hide
  <2>3. pb[p].len + d >= 0 /\ pb[p].tot_len + d >= 0
    BY <1>2, <1>3, <1>5, <2>1 DEF Hide
  <2>4. room \in Nat /\ d \in Int
    BY <1>2, <1>3
  <2>5. HIDE DEF d, room
  <2>6. QED
    BY <1>2, <2>2, <2>3, <2>4, HeaderKeeps
<1>6. QED
  BY <1>1, <1>4, <1>5

LEMMA CutStepKeeps ==
  ASSUME PbufInv, CutStep
  PROVE  PbufInv'
<1>. DEFINE p == turn.at
<1>1. /\ turn.op = "cut" /\ p \in DOMAIN pb /\ holders' = holders /\ pb[p] \in PbufStruct
      /\ turn.rem \in Nat /\ turn.grow \in Nat /\ turn.grow = pb[p].tot_len - turn.rem
      /\ p # NoPbuf /\ p \in Pbufs
  BY PbufConstants DEF CutStep, PbufInv, Walks, Chains
<1>2. pb[p].room \in Nat /\ pb[p].len \in Nat /\ pb[p].tot_len \in Nat
  BY <1>1 DEF PbufStruct
<1>3. CASE Hide(p, turn.rem) /\ turn' = NoWalk
  <2>1. pb' = [pb EXCEPT ![p].room = pb[p].room + turn.rem, ![p].len = @ + (-turn.rem),
                         ![p].tot_len = @ + (-turn.rem)]
    BY <1>1, <1>2, <1>3 DEF Hide
  <2>2. pb[p].len + (-turn.rem) >= 0 /\ pb[p].tot_len + (-turn.rem) >= 0
    BY <1>1, <1>2, <1>3 DEF Hide
  <2>3. pb[p].room + turn.rem \in Nat /\ -turn.rem \in Int
    BY <1>1, <1>2
  <2>4. QED
    BY <1>1, <1>3, <2>1, <2>2, <2>3, HeaderKeeps
<1>4. CASE ~(Hide(p, turn.rem) /\ turn' = NoWalk)
  <2>1. /\ pb[p].len < turn.rem /\ turn' = [turn EXCEPT !.rem = @ - pb[p].len, !.at = pb[p].next]
        /\ pb' = [pb EXCEPT ![p].tot_len = turn.grow, ![p].len = 0]
    BY <1>4 DEF CutStep, Emptied
  <2>2. /\ DOMAIN pb' = DOMAIN pb
        /\ \A q \in DOMAIN pb : /\ pb'[q].next = pb[q].next /\ pb'[q].ref = pb[q].ref
                                /\ pb'[q].len = IF q = p THEN 0 ELSE pb[q].len
                                /\ pb'[q].tot_len = IF q = p THEN turn.grow ELSE pb[q].tot_len
    BY <1>1, <2>1 DEF PbufInv, Chains, PbufStruct
  <2>3. \A q : Linked(q)' <=> Linked(q)
    BY <2>2 DEF Linked
  <2>4. /\ pb[p].next # NoPbuf
        /\ pb[p].tot_len = pb[p].len + pb[pb[p].next].tot_len
                         + (IF pb[p].next = p THEN -turn.rem ELSE 0)
    BY <1>1, <1>2, <2>1 DEF PbufInv, LengthsOwed, TotLen, Owed, Chains, PbufStruct
  <2>5. pb[p].next # p
    BY <1>1, <1>2, <2>1, <2>4
  <2>6. /\ pb[p].next \in DOMAIN pb /\ turn'.at = pb[p].next /\ turn'.op = "cut"
        /\ turn'.rem = turn.rem - pb[p].len /\ turn'.grow = turn.grow
        /\ pb'[pb[p].next].tot_len = pb[pb[p].next].tot_len
        /\ pb[pb[p].next].tot_len \in Nat
    BY <1>1, <2>1, <2>2, <2>4, <2>5 DEF PbufInv, Chains, PbufStruct, Walks
  <2>7. Chains'
    <3>1. pb' \in [DOMAIN pb' -> PbufStruct]
      BY <1>1, <2>1, <2>2 DEF PbufInv, Chains, PbufStruct
    <3>2. QED
      BY <2>2, <3>1 DEF PbufInv, Chains
  <2>8. Callers'
    BY <1>1, <2>2 DEF PbufInv, Callers
  <2>9. Walks'
    <3>1. turn.rem - pb[p].len \in Nat /\ pb[p].next \in Pbufs
      BY <1>1, <1>2, <2>1, <2>6 DEF PbufInv, Chains
    <3>2. turn' \in [op : {"none", "free", "cat", "chain", "realloc", "cut"},
                     at : Pbufs \cup {NoPbuf}, tail : Pbufs \cup {NoPbuf}, rem : Nat, grow : Int]
      BY <2>1, <3>1 DEF PbufInv, Walks
    <3>3. turn'.grow >= 0 /\ turn'.grow = pb'[turn'.at].tot_len - turn'.rem
      BY <1>1, <1>2, <2>4, <2>5, <2>6
    <3>4. QED
      BY <2>2, <2>6, <3>2, <3>3 DEF Walks
  <2>10. RefsExact'
    BY <1>1, <2>2, <2>3, <2>6 DEF PbufInv, RefsExact, References
  <2>11. LengthsOwed'
    <3>1. Owed = -turn.rem /\ Owed' = -(turn.rem - pb[p].len)
      BY <1>1, <2>6 DEF Owed
    <3>2. ASSUME NEW q \in DOMAIN pb
          PROVE  pb'[q].tot_len = TotLen(q)' + (IF pb'[q].next = turn'.at THEN Owed' ELSE 0)
      <4>1. pb[q].tot_len = TotLen(q) + (IF pb[q].next = p THEN Owed ELSE 0)
        BY DEF PbufInv, LengthsOwed
      <4>2. pb[q].next = pb[p].next => q = p
        BY <1>1, <2>4 DEF PbufInv, Chains
      <4>3. pb[q].len \in Nat /\ pb[q].tot_len \in Nat /\ pb[q].next \in DOMAIN pb \cup {NoPbuf}
        BY DEF PbufInv, Chains, PbufStruct
      <4>4. CASE q = p
        BY <1>1, <1>2, <2>2, <2>4, <2>5, <2>6, <3>1, <4>4 DEF TotLen
      <4>5. CASE q # p
        BY <1>1, <1>2, <2>2, <2>6, <3>1, <4>1, <4>2, <4>3, <4>5, PbufConstants DEF TotLen
      <4>6. QED
        BY <4>4, <4>5
    <3>3. QED
      BY <2>2, <3>2 DEF LengthsOwed
  <2>12. QED
    BY <2>7, <2>8, <2>9, <2>10, <2>11 DEF PbufInv
<1>5. QED
  BY <1>3, <1>4

-----------------------------------------------------------------------------
(* A loop begins at a packet that the caller holds. *)
LEMMA PacketFields ==
  ASSUME PbufInv, NEW p \in DOMAIN pb, turn.op = "none"
  PROVE  /\ p \in Pbufs /\ p # NoPbuf /\ pb[p] \in PbufStruct
         /\ pb[p].room \in Nat /\ pb[p].len \in Nat /\ pb[p].tot_len \in Nat /\ pb[p].ref \in Nat
         /\ pb[p].next \in DOMAIN pb \cup {NoPbuf}
         /\ pb[p].tot_len = TotLen(p)
<1>1. pb[p] \in PbufStruct /\ p \in Pbufs /\ pb[p].next \in DOMAIN pb \cup {NoPbuf}
  BY DEF PbufInv, Chains
<1>2. pb[p].next # NoPbuf => pb[pb[p].next].tot_len \in Nat
  BY <1>1 DEF PbufInv, Chains, PbufStruct
<1>3. pb[p].len \in Nat /\ pb[p].tot_len = TotLen(p) + 0
  BY <1>1 DEF PbufInv, LengthsOwed, Owed, PbufStruct
<1>4. TotLen(p) \in Int
  BY <1>1, <1>2, <1>3 DEF TotLen
<1>5. QED
  BY <1>1, <1>3, <1>4, PbufConstants DEF PbufStruct

(* Nothing is changed but turn, which comes to a pbuf without a link to it.   *)
LEMMA StartKeeps ==
  ASSUME PbufInv, turn.op = "none", UNCHANGED <<pb, holders>>,
         NEW p \in DOMAIN pb, ~Linked(p), turn'.at = p, turn'.op # "free", Walks'
  PROVE  PbufInv'
<1>1. Chains' /\ Callers'
  BY DEF PbufInv, Chains, Callers
<1>2. RefsExact'
  BY DEF PbufInv, RefsExact, References, Linked
<1>3. LengthsOwed'
  BY PbufConstants DEF PbufInv, LengthsOwed, TotLen, Linked, Owed, Chains
<1>4. QED
  BY <1>1, <1>2, <1>3 DEF PbufInv

LEMMA JoinKeeps ==
  ASSUME PbufInv, NEW op \in {"cat", "chain"}, Concatenate(op)
  PROVE  PbufInv'
<1>1. PICK h \in DOMAIN pb, t \in DOMAIN pb :
        h # t /\ HeldPacket(h) /\ HeldPacket(t) /\ Start(op, h, t, 0, 0)
  BY DEF Concatenate
<1>2. h \in Pbufs /\ t \in Pbufs /\ turn.op = "none" /\ UNCHANGED <<pb, holders>>
  BY DEF Concatenate, AtRest, PbufInv, Chains
<1>3. turn' = [op |-> op, at |-> h, tail |-> t, rem |-> 0, grow |-> 0] /\ ~Linked(h)
  BY <1>1 DEF Start, HeldPacket
<1>4. HeldPacket(t)'
  BY <1>1, <1>2 DEF HeldPacket, Linked
<1>5. Walks'
  BY <1>1, <1>2, <1>3, <1>4 DEF Walks
<1>6. QED
  BY <1>2, <1>3, <1>5, StartKeeps

LEMMA ReallocKeeps ==
  ASSUME PbufInv, pbuf_realloc
  PROVE  PbufInv'
<1>1. PICK p \in DOMAIN pb, n \in Lengths :
        /\ HeldPacket(p) /\ n < pb[p].tot_len
        /\ Start("realloc", p, NoPbuf, n, n - pb[p].tot_len)
  BY DEF pbuf_realloc
<1>2. turn.op = "none" /\ UNCHANGED <<pb, holders>> /\ n \in Nat
  BY PbufConstants DEF pbuf_realloc, AtRest
<1>3. /\ turn' = [op |-> "realloc", at |-> p, tail |-> NoPbuf, rem |-> n, grow |-> n - pb[p].tot_len]
      /\ ~Linked(p)
  BY <1>1 DEF Start, HeldPacket
<1>4. Walks'
  BY <1>1, <1>2, <1>3, PacketFields DEF Walks
<1>5. QED
  BY <1>2, <1>3, <1>4, StartKeeps

LEMMA CutKeeps ==
  ASSUME PbufInv, CutFrontOf
  PROVE  PbufInv'
<1>1. PICK p \in DOMAIN pb, n \in Lengths :
        /\ HeldPacket(p) /\ n > 0 /\ n <= pb[p].tot_len
        /\ Start("cut", p, NoPbuf, n, pb[p].tot_len - n)
  BY DEF CutFrontOf
<1>2. turn.op = "none" /\ UNCHANGED <<pb, holders>> /\ n \in Nat
  BY PbufConstants DEF CutFrontOf, AtRest
<1>3. /\ turn' = [op |-> "cut", at |-> p, tail |-> NoPbuf, rem |-> n, grow |-> pb[p].tot_len - n]
      /\ ~Linked(p)
  BY <1>1 DEF Start, HeldPacket
<1>4. Walks'
  BY <1>1, <1>2, <1>3, PacketFields DEF Walks
<1>5. QED
  BY <1>2, <1>3, <1>4, StartKeeps

LEMMA FreeKeeps ==
  ASSUME PbufInv, pbuf_free
  PROVE  PbufInv'
<1>1. PICK p \in DOMAIN pb : /\ holders[p] > 0 /\ holders' = [holders EXCEPT ![p] = @ + (-1)]
                             /\ Start("free", p, NoPbuf, 0, 0)
  BY DEF pbuf_free, Holds
<1>2. /\ turn.op = "none" /\ pb' = pb /\ p \in Pbufs
      /\ turn' = [op |-> "free", at |-> p, tail |-> NoPbuf, rem |-> 0, grow |-> 0]
  BY <1>1 DEF pbuf_free, AtRest, Start, PbufInv, Chains
<1>3. Chains' /\ Walks'
  BY <1>2 DEF PbufInv, Chains, Walks
<1>4. Callers'
  BY <1>1, <1>2 DEF PbufInv, Callers
<1>5. RefsExact'
  <2>1. ASSUME NEW q \in DOMAIN pb PROVE References(q)' = References(q)
    BY <1>1, <1>2 DEF References, Linked, PbufInv, Callers, Chains
  <2>2. QED
    BY <1>2, <2>1 DEF PbufInv, RefsExact
<1>6. LengthsOwed'
  BY <1>2 DEF PbufInv, LengthsOwed, TotLen, Owed
<1>7. QED
  BY <1>3, <1>4, <1>5, <1>6 DEF PbufInv

LEMMA JoinStepKeeps ==
  ASSUME PbufInv, JoinStep
  PROVE  PbufInv'
<1>. DEFINE p == turn.at
            t == turn.tail
<1>1. /\ turn.op \in {"cat", "chain"} /\ p \in DOMAIN pb /\ t \in DOMAIN pb /\ t # p
      /\ p \in Pbufs /\ t \in Pbufs /\ p # NoPbuf /\ t # NoPbuf
      /\ pb[p] \in PbufStruct /\ pb[t] \in PbufStruct
      /\ ~Linked(t) /\ holders[t] > 0 /\ holders[t] \in Nat
  BY PbufConstants DEF JoinStep, PbufInv, Walks, Chains, Callers, HeldPacket
<1>2. /\ \A q \in DOMAIN pb : pb[q].next # t
      /\ pb[p].tot_len \in Nat /\ pb[t].tot_len \in Nat /\ pb[t].ref \in Nat
      /\ pb[p].next \in DOMAIN pb \cup {NoPbuf}
  BY <1>1 DEF Linked, PbufStruct, PbufInv, Chains
<1>3. Owed = pb[t].tot_len
  BY <1>1 DEF Owed
<1>4. CASE pb[p].next # NoPbuf
  <2>1. /\ pb' = [pb EXCEPT ![p].tot_len = @ + pb[t].tot_len]
        /\ turn' = [turn EXCEPT !.at = pb[p].next] /\ holders' = holders
    BY <1>1, <1>4 DEF JoinStep
  <2>2. /\ DOMAIN pb' = DOMAIN pb
        /\ \A q \in DOMAIN pb :
             /\ pb'[q].next = pb[q].next /\ pb'[q].ref = pb[q].ref /\ pb'[q].len = pb[q].len
             /\ pb'[q].tot_len = IF q = p THEN pb[q].tot_len + pb[t].tot_len ELSE pb[q].tot_len
    BY <1>1, <2>1 DEF PbufInv, Chains, PbufStruct
  <2>3. \A q : Linked(q)' <=> Linked(q)
    BY <2>2 DEF Linked
  <2>4. Chains'
    <3>1. pb' \in [DOMAIN pb' -> PbufStruct]
      BY <1>1, <1>2, <2>1, <2>2 DEF PbufInv, Chains, PbufStruct
    <3>2. QED
      BY <2>2, <3>1 DEF PbufInv, Chains
  <2>5. Callers'
    BY <2>1, <2>2 DEF PbufInv, Callers
  <2>6. /\ turn'.op = turn.op /\ turn'.at = pb[p].next /\ turn'.tail = t
        /\ turn' \in [op : {"none", "free", "cat", "chain", "realloc", "cut"},
                      at : Pbufs \cup {NoPbuf}, tail : Pbufs \cup {NoPbuf}, rem : Nat, grow : Int]
    BY <1>2, <1>4, <2>1 DEF PbufInv, Walks, Chains
  <2>7. Walks'
    <3>1. HeldPacket(t)' /\ turn'.at # t /\ turn'.at \in DOMAIN pb'
      BY <1>1, <1>2, <1>4, <2>1, <2>2, <2>3, <2>6 DEF HeldPacket
    <3>2. QED
      BY <1>1, <2>6, <3>1 DEF Walks, HeldPacket, Linked
  <2>8. RefsExact'
    BY <1>1, <2>1, <2>2, <2>3, <2>6 DEF PbufInv, RefsExact, References
  <2>9. LengthsOwed'
    <3>1. Owed' = pb[t].tot_len
      BY <1>1, <2>2, <2>6 DEF Owed
    <3>2. ASSUME NEW q \in DOMAIN pb
          PROVE  pb'[q].tot_len = TotLen(q)' + (IF pb'[q].next = turn'.at THEN Owed' ELSE 0)
      <4>1. pb[q].tot_len = TotLen(q) + (IF pb[q].next = p THEN Owed ELSE 0)
        BY DEF PbufInv, LengthsOwed
      <4>2. pb[q].next = pb[p].next => q = p
        BY <1>1, <1>4 DEF PbufInv, Chains
      <4>3. /\ pb[q].len \in Nat /\ pb[q].tot_len \in Nat /\ pb[q].next \in DOMAIN pb \cup {NoPbuf}
            /\ pb[q].next # NoPbuf => pb[pb[q].next].tot_len \in Nat
        BY DEF PbufInv, Chains, PbufStruct
      <4>4. QED
        BY <1>1, <1>2, <1>3, <1>4, <2>2, <2>6, <3>1, <4>1, <4>2, <4>3 DEF TotLen
    <3>3. QED
      BY <2>2, <3>2 DEF LengthsOwed
  <2>10. QED
    BY <2>4, <2>5, <2>7, <2>8, <2>9 DEF PbufInv
<1>5. CASE pb[p].next = NoPbuf
  <2>. DEFINE more == IF turn.op = "chain" THEN 1 ELSE 0
  <2>1. /\ turn' = NoWalk /\ DOMAIN pb' = DOMAIN pb
        /\ holders' = [holders EXCEPT ![t] = @ + (more - 1)]
        /\ pb' \in [DOMAIN pb -> PbufStruct]
        /\ \A q \in DOMAIN pb :
             /\ pb'[q].next = (IF q = p THEN t ELSE pb[q].next) /\ pb'[q].len = pb[q].len
             /\ pb'[q].ref = (IF q = t THEN pb[q].ref + more ELSE pb[q].ref)
             /\ pb'[q].tot_len = (IF q = p THEN pb[q].tot_len + pb[t].tot_len ELSE pb[q].tot_len)
    <3>. DEFINE longer == [pb EXCEPT ![p].tot_len = @ + pb[t].tot_len]
                joined == [longer EXCEPT ![p].next = t]
    <3>0. /\ longer \in [DOMAIN pb -> PbufStruct]
          /\ \A q \in DOMAIN pb :
               /\ longer[q].next = pb[q].next /\ longer[q].len = pb[q].len
               /\ longer[q].ref = pb[q].ref
               /\ longer[q].tot_len = (IF q = p THEN pb[q].tot_len + pb[t].tot_len ELSE pb[q].tot_len)
      <4>1. pb[p].tot_len + pb[t].tot_len \in Nat
        BY <1>2
      <4>2. QED
        BY <1>1, <4>1 DEF PbufInv, Chains, PbufStruct
    <3>1. /\ joined \in [DOMAIN pb -> PbufStruct]
          /\ \A q \in DOMAIN pb :
               /\ joined[q].next = (IF q = p THEN t ELSE pb[q].next) /\ joined[q].len = pb[q].len
               /\ joined[q].ref = pb[q].ref
               /\ joined[q].tot_len = (IF q = p THEN pb[q].tot_len + pb[t].tot_len ELSE pb[q].tot_len)
      <4>1. HIDE DEF longer
      <4>2. QED
        BY <1>1, <3>0 DEF PbufStruct
    <3>2. CASE turn.op = "cat"
      <4>1. pb' = joined /\ holders' = [holders EXCEPT ![t] = @ + (-1)] /\ turn' = NoWalk
        BY <1>5, <3>2 DEF JoinStep, Holds
      <4>2. HIDE DEF joined, longer
      <4>3. more = 0 /\ more - 1 = -1
        BY <3>2
      <4>4. \A q \in DOMAIN pb : pb[q].ref \in Nat
        BY DEF PbufInv, Chains, PbufStruct
      <4>5. HIDE DEF more
      <4>6. QED
        BY <3>1, <4>1, <4>3, <4>4
    <3>3. CASE turn.op = "chain"
      <4>1. /\ pb' = [joined EXCEPT ![t].ref = @ + 1] /\ holders' = holders /\ turn' = NoWalk
        BY <1>1, <1>5, <3>3 DEF JoinStep, Referred
      <4>2. more = 1 /\ more - 1 = 0
        BY <3>3
      <4>3. HIDE DEF joined, longer, more
      <4>4. holders' = [holders EXCEPT ![t] = @ + (more - 1)]
        BY <1>1, <4>1, <4>2 DEF PbufInv, Callers
      <4>5. /\ DOMAIN pb' = DOMAIN pb /\ pb' \in [DOMAIN pb -> PbufStruct]
            /\ \A q \in DOMAIN pb :
                 /\ pb'[q].next = joined[q].next /\ pb'[q].len = joined[q].len
                 /\ pb'[q].ref = (IF q = t THEN joined[q].ref + 1 ELSE joined[q].ref)
                 /\ pb'[q].tot_len = joined[q].tot_len
        BY <1>1, <3>1, <4>1 DEF PbufStruct
      <4>6. QED
        BY <3>1, <4>1, <4>2, <4>4, <4>5
    <3>4. QED
      BY <1>1, <3>2, <3>3
  <2>2. more \in {0, 1}
    OBVIOUS
  <2>3. HIDE DEF more
  <2>5. /\ \A q \in Pbufs : Linked(q)' <=> Linked(q) \/ q = t
        /\ holders' \in [Pbufs -> Nat]
        /\ \A q \in Pbufs : holders'[q] = IF q = t THEN holders[q] + more - 1 ELSE holders[q]
    <3>1. \A q \in Pbufs : Linked(q)' <=> Linked(q) \/ q = t
      BY <1>1, <1>5, <2>1, PbufConstants DEF Linked
    <3>2. holders[t] + (more - 1) \in Nat
      BY <1>1, <2>2
    <3>3. QED
      BY <1>1, <2>1, <2>2, <3>1, <3>2 DEF PbufInv, Callers
  <2>6. Chains'
    BY <1>1, <1>2, <2>1 DEF PbufInv, Chains
  <2>7. Callers'
    BY <1>1, <2>1, <2>5 DEF PbufInv, Callers
  <2>8. Walks'
    BY <2>1 DEF Walks, NoWalk
  <2>9. RefsExact'
    <3>1. ASSUME NEW q \in DOMAIN pb
          PROVE  References(q)' = IF q = t THEN References(q) + more ELSE References(q)
      <4>1. q \in Pbufs /\ holders[q] \in Nat
        BY DEF PbufInv, Chains, Callers
      <4>2. QED
        BY <1>1, <2>1, <2>2, <2>5, <4>1 DEF References, NoWalk
    <3>2. QED
      BY <1>1, <1>2, <2>1, <2>2, <3>1 DEF PbufInv, RefsExact
  <2>10. LengthsOwed'
    <3>1. ASSUME NEW q \in DOMAIN pb
          PROVE  pb'[q].tot_len = TotLen(q)' + (IF pb'[q].next = turn'.at THEN Owed' ELSE 0)
      <4>1. pb[q].tot_len = TotLen(q) + (IF pb[q].next = p THEN Owed ELSE 0)
        BY DEF PbufInv, LengthsOwed
      <4>2. /\ pb[q].len \in Nat /\ pb[q].tot_len \in Nat /\ pb[q].next \in DOMAIN pb \cup {NoPbuf}
            /\ pb[q].next # NoPbuf => pb[pb[q].next].tot_len \in Nat
        BY DEF PbufInv, Chains, PbufStruct
      <4>3. Owed' = 0
        BY <2>1 DEF Owed, NoWalk
      <4>4. pb'[q].tot_len = TotLen(q)'
        <5>1. CASE q = p
          BY <1>1, <1>2, <1>5, <2>1, <4>1, <4>2, <5>1 DEF TotLen
        <5>2. CASE q # p /\ pb[q].next = p
          BY <1>1, <1>2, <1>3, <1>5, <2>1, <4>1, <4>2, <5>2 DEF TotLen
        <5>3. CASE q # p /\ pb[q].next # p
          BY <1>1, <1>2, <2>1, <4>1, <4>2, <5>3 DEF TotLen
        <5>4. QED
          BY <5>1, <5>2, <5>3
      <4>5. pb'[q].tot_len \in Nat
        BY <2>1 DEF PbufStruct
      <4>6. QED
        BY <4>3, <4>4, <4>5
    <3>2. QED
      BY <2>1, <3>1 DEF LengthsOwed
  <2>11. QED
    BY <2>6, <2>7, <2>8, <2>9, <2>10 DEF PbufInv
<1>6. QED
  BY <1>4, <1>5

LEMMA ReallocStepKeeps ==
  ASSUME PbufInv, ReallocStep
  PROVE  PbufInv'
<1>. DEFINE p == turn.at
            rest == pb[p].next
<1>1. /\ turn.op = "realloc" /\ p \in DOMAIN pb /\ holders' = holders /\ p \in Pbufs /\ p # NoPbuf
      /\ turn.rem \in Nat /\ turn.grow \in Int /\ turn.grow < 0
      /\ turn.rem = pb[p].tot_len + turn.grow
      /\ pb[p] \in PbufStruct /\ pb[p].len \in Nat /\ pb[p].tot_len \in Nat
      /\ rest \in DOMAIN pb \cup {NoPbuf} /\ Owed = turn.grow
  BY PbufConstants DEF ReallocStep, PbufInv, Walks, Chains, PbufStruct, Owed
<1>2. CASE turn.rem > pb[p].len
  <2>1. /\ pb' = [pb EXCEPT ![p].tot_len = @ + turn.grow]
        /\ turn' = [turn EXCEPT !.rem = @ - pb[p].len, !.at = rest]
    BY <1>1, <1>2 DEF ReallocStep
  <2>2. /\ DOMAIN pb' = DOMAIN pb
        /\ \A q \in DOMAIN pb :
             /\ pb'[q].next = pb[q].next /\ pb'[q].ref = pb[q].ref /\ pb'[q].len = pb[q].len
             /\ pb'[q].tot_len = IF q = p THEN turn.rem ELSE pb[q].tot_len
    BY <1>1, <2>1 DEF PbufInv, Chains, PbufStruct
  <2>3. \A q : Linked(q)' <=> Linked(q)
    BY <2>2 DEF Linked
  <2>4. /\ rest # NoPbuf
        /\ pb[p].tot_len = pb[p].len + pb[rest].tot_len + (IF rest = p THEN turn.grow ELSE 0)
    BY <1>1, <1>2 DEF PbufInv, LengthsOwed, TotLen
  <2>5. rest \in DOMAIN pb /\ rest \in Pbufs /\ pb[rest].tot_len \in Nat
    BY <1>1, <1>2, <2>4 DEF PbufInv, Chains, PbufStruct
  <2>6. /\ turn'.op = "realloc" /\ turn'.at = rest /\ turn'.grow = turn.grow
        /\ turn'.rem = turn.rem - pb[p].len /\ turn'.rem \in Nat
        /\ turn' \in [op : {"none", "free", "cat", "chain", "realloc", "cut"},
                      at : Pbufs \cup {NoPbuf}, tail : Pbufs \cup {NoPbuf}, rem : Nat, grow : Int]
    <3>1. turn.rem - pb[p].len \in Nat
      BY <1>1, <1>2
    <3>2. QED
      BY <1>1, <2>1, <2>5, <3>1 DEF PbufInv, Walks
  <2>7. Chains'
    <3>1. pb' \in [DOMAIN pb' -> PbufStruct]
      BY <1>1, <2>1, <2>2 DEF PbufInv, Chains, PbufStruct
    <3>2. QED
      BY <2>2, <3>1 DEF PbufInv, Chains
  <2>8. Callers'
    BY <1>1, <2>2 DEF PbufInv, Callers
  <2>9. Walks'
    <3>1. turn'.rem = pb'[rest].tot_len + turn'.grow
      BY <1>1, <2>2, <2>4, <2>5, <2>6
    <3>2. QED
      BY <1>1, <2>2, <2>5, <2>6, <3>1 DEF Walks
  <2>10. RefsExact'
    BY <1>1, <2>2, <2>3, <2>6 DEF PbufInv, RefsExact, References
  <2>11. LengthsOwed'
    <3>1. Owed' = turn.grow
      BY <2>6 DEF Owed
    <3>2. ASSUME NEW q \in DOMAIN pb
          PROVE  pb'[q].tot_len = TotLen(q)' + (IF pb'[q].next = turn'.at THEN Owed' ELSE 0)
      <4>1. pb[q].tot_len = TotLen(q) + (IF pb[q].next = p THEN Owed ELSE 0)
        BY DEF PbufInv, LengthsOwed
      <4>2. pb[q].next = rest => q = p
        BY <1>1, <2>4 DEF PbufInv, Chains
      <4>3. /\ pb[q].len \in Nat /\ pb[q].tot_len \in Nat /\ pb[q].next \in DOMAIN pb \cup {NoPbuf}
            /\ pb[q].next # NoPbuf => pb[pb[q].next].tot_len \in Nat
        BY DEF PbufInv, Chains, PbufStruct
      <4>4. QED
        BY <1>1, <2>2, <2>4, <2>5, <2>6, <3>1, <4>1, <4>2, <4>3 DEF TotLen
    <3>3. QED
      BY <2>2, <3>2 DEF LengthsOwed
  <2>12. QED
    BY <2>7, <2>8, <2>9, <2>10, <2>11 DEF PbufInv
<1>3. CASE turn.rem <= pb[p].len
  <2>1. /\ pb' = [pb EXCEPT ![p].len = turn.rem, ![p].tot_len = turn.rem, ![p].next = NoPbuf]
        /\ turn' = IF rest = NoPbuf THEN NoWalk
                   ELSE [op |-> "free", at |-> rest, tail |-> NoPbuf, rem |-> 0, grow |-> 0]
    BY <1>1, <1>3 DEF ReallocStep, Start
  <2>2. /\ DOMAIN pb' = DOMAIN pb
        /\ \A q \in DOMAIN pb :
             /\ pb'[q].next = (IF q = p THEN NoPbuf ELSE pb[q].next) /\ pb'[q].ref = pb[q].ref
             /\ pb'[q].len = (IF q = p THEN turn.rem ELSE pb[q].len)
             /\ pb'[q].tot_len = (IF q = p THEN turn.rem ELSE pb[q].tot_len)
    BY <1>1, <2>1 DEF PbufInv, Chains, PbufStruct
  <2>3. /\ \A q \in Pbufs : Linked(q)' <=> Linked(q) /\ q # rest
        /\ rest # NoPbuf => Linked(rest)
    BY <1>1, <2>2, PbufConstants DEF Linked, PbufInv, Chains
  <2>4. Chains'
    <3>1. pb' \in [DOMAIN pb' -> PbufStruct]
      BY <1>1, <2>1, <2>2 DEF PbufInv, Chains, PbufStruct
    <3>2. QED
      BY <2>2, <3>1 DEF PbufInv, Chains
  <2>5. Callers'
    BY <1>1, <2>2 DEF PbufInv, Callers
  <2>6. Walks'
    BY <1>1, <2>1, <2>2 DEF PbufInv, Walks, NoWalk, Chains
  <2>7. RefsExact'
    <3>1. ASSUME NEW q \in DOMAIN pb PROVE References(q)' = References(q)
      <4>1. q \in Pbufs /\ q # NoPbuf /\ holders[q] \in Nat
        BY PbufConstants DEF PbufInv, Chains, Callers
      <4>2. QED
        BY <1>1, <2>1, <2>3, <4>1 DEF References, NoWalk
    <3>2. QED
      BY <2>2, <3>1 DEF PbufInv, RefsExact
  <2>8. LengthsOwed'
    <3>1. Owed' = 0
      BY <2>1 DEF Owed, NoWalk
    <3>2. ASSUME NEW q \in DOMAIN pb
          PROVE  pb'[q].tot_len = TotLen(q)' + (IF pb'[q].next = turn'.at THEN Owed' ELSE 0)
      <4>1. pb[q].tot_len = TotLen(q) + (IF pb[q].next = p THEN Owed ELSE 0)
        BY DEF PbufInv, LengthsOwed
      <4>2. /\ pb[q].len \in Nat /\ pb[q].tot_len \in Nat /\ pb[q].next \in DOMAIN pb \cup {NoPbuf}
            /\ pb[q].next # NoPbuf => pb[pb[q].next].tot_len \in Nat
        BY DEF PbufInv, Chains, PbufStruct
      <4>3. pb'[q].tot_len = TotLen(q)'
        BY <1>1, <2>2, <4>1, <4>2, PbufConstants DEF TotLen
      <4>4. QED
        BY <1>1, <2>2, <3>1, <4>2, <4>3
    <3>3. QED
      BY <2>2, <3>2 DEF LengthsOwed
  <2>9. QED
    BY <2>4, <2>5, <2>6, <2>7, <2>8 DEF PbufInv
<1>4. QED
  BY <1>1, <1>2, <1>3

-----------------------------------------------------------------------------
LEMMA AllocOneKeeps ==
  ASSUME PbufInv, NEW p \in Pbufs \ DOMAIN pb, NEW room \in Nat, NEW n \in Nat,
         turn.op = "none", turn' = turn, AllocOne(p, room, n)
  PROVE  PbufInv'
<1>1. /\ DOMAIN pb' = DOMAIN pb \cup {p} /\ \A q \in DOMAIN pb : pb'[q] = pb[q]
      /\ pb'[p] = [room |-> room, len |-> n, tot_len |-> n, next |-> NoPbuf, ref |-> 1]
      /\ p # NoPbuf /\ \A q \in DOMAIN pb : q # p
  BY PbufConstants DEF AllocOne
<1>2. /\ holders[p] = 0 /\ holders' = [holders EXCEPT ![p] = 1] /\ holders' \in [Pbufs -> Nat]
  <2>1. holders \in [Pbufs -> Nat] /\ ~(holders[p] > 0) /\ holders[p] \in Nat
    BY DEF PbufInv, Callers
  <2>2. holders[p] = 0
    BY <2>1
  <2>3. QED
    BY <2>1, <2>2 DEF AllocOne, Holds
<1>3. \A q \in DOMAIN pb : pb[q].next # p
  BY <1>1 DEF PbufInv, Chains
<1>4. \A q \in Pbufs : Linked(q)' <=> Linked(q)
  BY <1>1, PbufConstants DEF Linked
<1>5. ~Linked(p)
  BY <1>3 DEF Linked
<1>6. Chains'
  <2>1. pb' \in [DOMAIN pb' -> PbufStruct]
    BY <1>1 DEF AllocOne, PbufInv, Chains, PbufStruct
  <2>2. \A q \in DOMAIN pb' : pb'[q].next \in DOMAIN pb' \cup {NoPbuf}
    BY <1>1 DEF PbufInv, Chains
  <2>3. \A q, r \in DOMAIN pb' : pb'[q].next = pb'[r].next /\ pb'[q].next # NoPbuf => q = r
    BY <1>1 DEF PbufInv, Chains
  <2>4. QED
    BY <1>1, <2>1, <2>2, <2>3 DEF PbufInv, Chains
<1>7. Callers'
  BY <1>1, <1>2 DEF PbufInv, Callers
<1>8. Walks'
  BY <1>1 DEF PbufInv, Walks
<1>9. RefsExact'
  <2>1. ASSUME NEW q \in DOMAIN pb PROVE References(q)' = References(q)
    BY <1>1, <1>2, <1>4 DEF References, PbufInv, Chains, Callers
  <2>2. References(p)' = 1
    BY <1>1, <1>2, <1>4, <1>5 DEF References, PbufInv, Callers
  <2>3. QED
    BY <1>1, <2>1, <2>2 DEF PbufInv, RefsExact
<1>10. LengthsOwed'
  BY <1>1, <1>3, PbufConstants DEF PbufInv, LengthsOwed, TotLen, Owed, Chains, PbufStruct
<1>11. QED
  BY <1>6, <1>7, <1>8, <1>9, <1>10 DEF PbufInv
-----------------------------------------------------------------------------
(* What the pbufs of a chain from the pool hold, one after the other.         *)
LEMMA CapacityGrows ==
  ASSUME NEW offset \in Offsets, NEW i \in Nat, NEW j \in Nat, i <= j
  PROVE  Capacity(i, offset) \in Nat /\ Capacity(i, offset) <= Capacity(j, offset)
<1>. DEFINE B == PBUF_POOL_BUFSIZE
<1>1. B \in Nat /\ offset \in Nat /\ offset < B
  BY PbufConstants
<1>2. \A x \in Nat : x * B \in Nat
  BY <1>1
<1>3. \A x \in Nat : x > 0 => x * B = (x - 1) * B + B
  BY <1>1
<1>4. j * B = i * B + (j - i) * B
  BY <1>1
<1>5. (j - i) * B \in Nat /\ i * B \in Nat /\ j * B \in Nat
  BY <1>2
<1>6. \A x \in Nat : x > 0 => x * B >= offset
  <2>1. ASSUME NEW x \in Nat, x > 0 PROVE x * B >= offset
    <3>1. x * B = (x - 1) * B + B /\ (x - 1) * B \in Nat
      BY <1>2, <1>3, <2>1
    <3>2. QED
      BY <1>1, <3>1
  <2>2. QED
    BY <2>1
<1>7. Capacity(i, offset) \in Nat
  <2>1. CASE i = 0
    BY <2>1 DEF Capacity
  <2>2. CASE i > 0
    BY <1>1, <1>5, <1>6, <2>2 DEF Capacity
  <2>3. QED
    BY <2>1, <2>2
<1>8. Capacity(i, offset) <= Capacity(j, offset)
  <2>1. CASE i = 0
    BY <1>1, <1>5, <1>6, <2>1 DEF Capacity
  <2>2. CASE i > 0
    BY <1>1, <1>4, <1>5, <2>2 DEF Capacity
  <2>3. QED
    BY <2>1, <2>2
<1>9. QED
  BY <1>7, <1>8

(* Each pbuf of the new chain but the last is full, and the last holds the    *)
(* rest.                                                                      *)
LEMMA ChainLengths ==
  ASSUME NEW offset \in Offsets, NEW k \in Nat, k > 0, NEW s, NEW n \in Nat,
         n <= Capacity(k, offset), k > 1 => n > Capacity(k - 1, offset),
         NEW i \in 1..k
  PROVE  /\ ChainPbuf(s, k, i, offset, n).room \in Nat
         /\ ChainPbuf(s, k, i, offset, n).len \in Nat
         /\ ChainPbuf(s, k, i, offset, n).tot_len \in Nat
         /\ ChainPbuf(s, k, i, offset, n).tot_len =
              ChainPbuf(s, k, i, offset, n).len
              + IF i = k THEN 0 ELSE ChainPbuf(s, k, i + 1, offset, n).tot_len
<1>. DEFINE before == Capacity(i - 1, offset)
            upto   == Capacity(i, offset)
            last   == Capacity(k - 1, offset)
<1>1. i \in Nat /\ i - 1 \in Nat /\ k - 1 \in Nat /\ i - 1 <= i /\ i - 1 <= k - 1 /\ offset \in Nat
  BY PbufConstants
<1>2. before \in Nat /\ upto \in Nat /\ last \in Nat /\ before <= upto /\ before <= last
  BY <1>1, CapacityGrows
<1>3. i # k => upto <= last
  <2>1. CASE i # k
    <3>1. i <= k - 1
      BY <1>1, <2>1
    <3>2. QED
      BY <1>1, <3>1, CapacityGrows
  <2>2. QED
    BY <2>1
<1>4. n >= before
  <2>1. CASE k > 1
    BY <1>2, <2>1
  <2>2. CASE k = 1
    BY <2>2 DEF Capacity
  <2>3. QED
    BY <2>1, <2>2
<1>5. i = k => upto = Capacity(k, offset)
  OBVIOUS
<1>6. (i + 1) - 1 = i /\ (i # k => k > 1)
  BY <1>1
<1>7. /\ ChainPbuf(s, k, i, offset, n).room = (IF i = 1 THEN offset ELSE 0)
      /\ ChainPbuf(s, k, i, offset, n).len = Least(n - before, upto - before)
      /\ ChainPbuf(s, k, i, offset, n).tot_len = n - before
      /\ ChainPbuf(s, k, i + 1, offset, n).tot_len = n - upto
  BY <1>6 DEF ChainPbuf
<1>8. HIDE DEF before, upto, last
<1>9. n - before \in Nat /\ upto - before \in Nat
  BY <1>2, <1>4
<1>10. CASE i = k
  <2>1. Least(n - before, upto - before) = n - before
    BY <1>2, <1>5, <1>9, <1>10 DEF Least
  <2>2. QED
    BY <1>1, <1>7, <1>9, <1>10, <2>1
<1>11. CASE i # k
  <2>1. n > upto
    BY <1>2, <1>3, <1>6, <1>11 DEF last
  <2>2. Least(n - before, upto - before) = upto - before
    BY <1>2, <1>9, <2>1 DEF Least
  <2>3. n - before = (upto - before) + (n - upto)
    BY <1>2
  <2>4. QED
    BY <1>1, <1>7, <1>9, <1>11, <2>2, <2>3
<1>12. QED
  BY <1>10, <1>11
LEMMA AllocPoolKeeps ==
  ASSUME PbufInv, turn.op = "none", turn' = turn, NEW offset \in Offsets, NEW n \in Lengths,
         AllocPool(offset, n)
  PROVE  PbufInv'
<1>1. PICK k \in 1..Cardinality(PoolBufs \ DOMAIN pb) :
      \E s \in [1..k -> PoolBufs \ DOMAIN pb] :
        /\ \A i, j \in 1..k : s[i] = s[j] => i = j
        /\ n <= Capacity(k, offset) /\ (k > 1 => n > Capacity(k - 1, offset))
        /\ pb' = [p \in DOMAIN pb \cup {s[i] : i \in 1..k} |->
                    IF p \in DOMAIN pb THEN pb[p]
                    ELSE ChainPbuf(s, k, CHOOSE i \in 1..k : s[i] = p, offset, n)]
        /\ Holds(s[1], 1)
  BY DEF AllocPool
<1>2. PICK s \in [1..k -> PoolBufs \ DOMAIN pb] :
        /\ \A i, j \in 1..k : s[i] = s[j] => i = j
        /\ n <= Capacity(k, offset) /\ (k > 1 => n > Capacity(k - 1, offset))
        /\ pb' = [p \in DOMAIN pb \cup {s[i] : i \in 1..k} |->
                    IF p \in DOMAIN pb THEN pb[p]
                    ELSE ChainPbuf(s, k, CHOOSE i \in 1..k : s[i] = p, offset, n)]
        /\ Holds(s[1], 1)
  BY <1>1
<1>. DEFINE c(i) == ChainPbuf(s, k, i, offset, n)
<1>3. /\ k \in Nat /\ k > 0 /\ n \in Nat
      /\ \A i \in 1..k : s[i] \in Pbufs /\ s[i] \notin DOMAIN pb /\ s[i] # NoPbuf
      /\ \A i \in 1..k : i # k => i + 1 \in 1..k
      /\ 1 \in 1..k
  <2>1. k \in 1..k
    OBVIOUS
  <2>2. k \in Nat /\ k > 0 /\ n \in Nat
    BY PbufConstants
  <2>3. \A i \in 1..k : s[i] \in PoolBufs /\ s[i] \notin DOMAIN pb
    OBVIOUS
  <2>4. QED
    BY <2>2, <2>3, PbufConstants DEF Pbufs
<1>4. ASSUME NEW i \in 1..k PROVE (CHOOSE j \in 1..k : s[j] = s[i]) = i
  BY <1>2
<1>5. /\ DOMAIN pb' = DOMAIN pb \cup {s[i] : i \in 1..k}
      /\ \A p \in DOMAIN pb : pb'[p] = pb[p]
      /\ \A i \in 1..k : pb'[s[i]] = c(i)
  <2>1. \A i \in 1..k : pb'[s[i]] = ChainPbuf(s, k, CHOOSE j \in 1..k : s[j] = s[i], offset, n)
    BY <1>2, <1>3
  <2>2. QED
    BY <1>2, <1>4, <2>1
<1>6. ASSUME NEW i \in 1..k
      PROVE  /\ c(i) \in PbufStruct /\ c(i).ref = 1
             /\ c(i).next = (IF i = k THEN NoPbuf ELSE s[i + 1])
             /\ c(i).tot_len = c(i).len + (IF i = k THEN 0 ELSE c(i + 1).tot_len)
  <2>1. /\ c(i).room \in Nat /\ c(i).len \in Nat /\ c(i).tot_len \in Nat
        /\ c(i).tot_len = c(i).len + IF i = k THEN 0 ELSE c(i + 1).tot_len
    BY <1>2, <1>3, ChainLengths
  <2>2. c(i).ref = 1 /\ c(i).next = (IF i = k THEN NoPbuf ELSE s[i + 1])
    BY DEF ChainPbuf
  <2>3. c(i) = [room |-> c(i).room, len |-> c(i).len, tot_len |-> c(i).tot_len,
                next |-> c(i).next, ref |-> c(i).ref]
    BY DEF ChainPbuf
  <2>4. c(i).next \in Pbufs \cup {NoPbuf}
    BY <1>3, <2>2
  <2>5. HIDE DEF c
  <2>6. QED
    BY <2>1, <2>2, <2>3, <2>4 DEF PbufStruct
<1>7. HIDE DEF c
<1>8. ASSUME NEW q \in DOMAIN pb
      PROVE  q \in Pbufs /\ q # NoPbuf /\ pb[q].next \in DOMAIN pb \cup {NoPbuf}
  BY PbufConstants DEF PbufInv, Chains
<1>9. ASSUME NEW q \in DOMAIN pb' PROVE q \in DOMAIN pb \/ \E i \in 1..k : q = s[i]
  BY <1>5
<1>10. /\ \A i \in 1..k : holders[s[i]] = 0
       /\ holders' = [holders EXCEPT ![s[1]] = 1] /\ holders' \in [Pbufs -> Nat]
  <2>1. ASSUME NEW i \in 1..k PROVE holders[s[i]] = 0
    <3>1. s[i] \in Pbufs /\ s[i] \notin DOMAIN pb
      BY <1>3
    <3>2. QED
      BY <3>1 DEF PbufInv, Callers
  <2>2. holders' = [holders EXCEPT ![s[1]] = @ + 1]
    BY <1>2 DEF Holds
  <2>3. holders[s[1]] = 0 /\ s[1] \in Pbufs /\ holders \in [Pbufs -> Nat]
    BY <1>3, <2>1 DEF PbufInv, Callers
  <2>4. holders' = [holders EXCEPT ![s[1]] = 1] /\ holders' \in [Pbufs -> Nat]
    BY <2>2, <2>3
  <2>5. QED
    BY <2>1, <2>4
<1>11. \A q \in DOMAIN pb : Linked(q)' <=> Linked(q)
  BY <1>3, <1>5, <1>6, <1>8, <1>9, SMTT(30) DEF Linked
<1>12. \A i \in 1..k : Linked(s[i])' <=> i # 1
  <2>1. ~Linked(s[1])'
    <3>1. ASSUME NEW q \in DOMAIN pb', pb'[q].next = s[1] PROVE FALSE
      <4>1. q \notin DOMAIN pb
        BY <1>3, <1>5, <1>8, <3>1
      <4>2. PICK i \in 1..k : q = s[i]
        BY <1>9, <4>1
      <4>3. i # k /\ s[i + 1] = s[1]
        BY <1>3, <1>5, <1>6, <3>1, <4>2
      <4>4. i + 1 = 1
        BY <1>2, <1>3, <4>3
      <4>5. QED
        BY <4>4
    <3>2. QED
      BY <3>1 DEF Linked
  <2>2. ASSUME NEW i \in 1..k, i # 1 PROVE Linked(s[i])'
    <3>1. i - 1 \in 1..k /\ i - 1 # k /\ (i - 1) + 1 = i
      BY <1>3, <2>2
    <3>2. pb'[s[i - 1]].next = s[i] /\ s[i - 1] \in DOMAIN pb'
      BY <1>5, <1>6, <3>1
    <3>3. QED
      BY <3>2 DEF Linked
  <2>3. QED
    BY <2>1, <2>2
<1>13. Chains'
  <2>1. DOMAIN pb' \subseteq Pbufs
    BY <1>3, <1>8, <1>9
  <2>2. pb' \in [DOMAIN pb' -> PbufStruct]
    <3>1. ASSUME NEW q \in DOMAIN pb' PROVE pb'[q] \in PbufStruct
      BY <1>5, <1>6, <1>9 DEF PbufInv, Chains
    <3>2. pb' = [q \in DOMAIN pb' |-> pb'[q]]
      BY <1>2
    <3>3. QED
      BY <3>1, <3>2
  <2>3. ASSUME NEW q \in DOMAIN pb' PROVE pb'[q].next \in DOMAIN pb' \cup {NoPbuf}
    BY <1>3, <1>5, <1>6, <1>8, <1>9
  <2>4. ASSUME NEW q \in DOMAIN pb', NEW r \in DOMAIN pb',
               pb'[q].next = pb'[r].next, pb'[q].next # NoPbuf
        PROVE  q = r
    <3>1. CASE q \in DOMAIN pb /\ r \in DOMAIN pb
      BY <1>5, <2>4, <3>1 DEF PbufInv, Chains
    <3>2. CASE q \notin DOMAIN pb /\ r \notin DOMAIN pb
      <4>1. PICK i \in 1..k : q = s[i]
        BY <1>9, <3>2
      <4>2. PICK j \in 1..k : r = s[j]
        BY <1>9, <3>2
      <4>3. i # k /\ j # k /\ s[i + 1] = s[j + 1]
        BY <1>5, <1>6, <2>4, <4>1, <4>2
      <4>4. i + 1 = j + 1
        BY <1>2, <1>3, <4>3
      <4>5. QED
        BY <4>1, <4>2, <4>4
    <3>3. CASE ~(q \in DOMAIN pb <=> r \in DOMAIN pb)
      <4>1. \A x \in DOMAIN pb : pb'[x].next \in DOMAIN pb \cup {NoPbuf}
        BY <1>5, <1>8
      <4>2. \A i \in 1..k : pb'[s[i]].next \notin DOMAIN pb
        BY <1>3, <1>5, <1>6, <1>8
      <4>3. \A x \in DOMAIN pb' : x \notin DOMAIN pb => pb'[x].next \notin DOMAIN pb
        BY <1>9, <4>2
      <4>4. QED
        BY <2>4, <3>3, <4>1, <4>3
    <3>4. QED
      BY <3>1, <3>2, <3>3
  <2>5. QED
    BY <2>1, <2>2, <2>3, <2>4 DEF Chains
<1>14. Callers'
  BY <1>3, <1>5, <1>10 DEF PbufInv, Callers
<1>15. Walks'
  BY DEF PbufInv, Walks
<1>16. RefsExact'
  <2>1. ASSUME NEW q \in DOMAIN pb PROVE pb'[q].ref = References(q)' /\ pb'[q].ref > 0
    <3>1. q # s[1] /\ q \in Pbufs
      BY <1>3, <1>8
    <3>2. holders'[q] = holders[q]
      BY <1>10, <3>1 DEF PbufInv, Callers
    <3>3. References(q)' = References(q)
      BY <1>11, <3>2 DEF References
    <3>4. QED
      BY <1>5, <3>3 DEF PbufInv, RefsExact
  <2>2. ASSUME NEW i \in 1..k PROVE pb'[s[i]].ref = References(s[i])' /\ pb'[s[i]].ref > 0
    <3>1. holders'[s[i]] = IF i = 1 THEN 1 ELSE 0
      BY <1>2, <1>3, <1>10 DEF PbufInv, Callers
    <3>2. References(s[i])' = 1
      BY <1>12, <3>1 DEF References
    <3>3. QED
      BY <1>5, <1>6, <3>2
  <2>3. QED
    BY <1>9, <2>1, <2>2 DEF RefsExact
<1>17. LengthsOwed'
  <2>1. Owed' = 0
    BY DEF Owed
  <2>2. ASSUME NEW q \in DOMAIN pb PROVE pb'[q].tot_len = TotLen(q)' /\ pb'[q].tot_len \in Nat
    BY <1>5, <1>8, <2>2, PacketFields DEF TotLen
  <2>3. ASSUME NEW i \in 1..k PROVE pb'[s[i]].tot_len = TotLen(s[i])' /\ pb'[s[i]].tot_len \in Nat
    <3>1. c(i).len \in Nat /\ c(i).tot_len \in Nat
      BY <1>6 DEF PbufStruct
    <3>2. CASE i = k
      BY <1>5, <1>6, <3>1, <3>2 DEF TotLen
    <3>3. CASE i # k
      <4>1. pb'[s[i]].next = s[i + 1] /\ s[i + 1] # NoPbuf /\ pb'[s[i + 1]] = c(i + 1)
        BY <1>3, <1>5, <1>6, <3>3
      <4>2. QED
        BY <1>5, <1>6, <3>1, <3>3, <4>1 DEF TotLen
    <3>4. QED
      BY <3>2, <3>3
  <2>4. ASSUME NEW q \in DOMAIN pb' PROVE pb'[q].tot_len = TotLen(q)' /\ pb'[q].tot_len \in Nat
    BY <1>9, <2>2, <2>3
  <2>5. QED
    BY <2>1, <2>4 DEF LengthsOwed
<1>18. QED
  BY <1>13, <1>14, <1>15, <1>16, <1>17 DEF PbufInv

LEMMA AllocKeeps ==
  ASSUME PbufInv, pbuf_alloc
  PROVE  PbufInv'
<1>1. PICK offset \in Offsets, n \in Lengths :
        \/ AllocPool(offset, n)
        \/ \E p \in (RamBufs \cup RomBufs) \ DOMAIN pb :
             AllocOne(p, IF p \in RomBufs THEN 0 ELSE offset, n)
  BY DEF pbuf_alloc
<1>2. turn.op = "none" /\ turn' = turn /\ n \in Nat /\ offset \in Nat
  BY PbufConstants DEF pbuf_alloc, AtRest
<1>3. CASE AllocPool(offset, n)
  BY <1>2, <1>3, AllocPoolKeeps
<1>4. CASE \E p \in (RamBufs \cup RomBufs) \ DOMAIN pb :
             AllocOne(p, IF p \in RomBufs THEN 0 ELSE offset, n)
  <2>1. PICK p \in (RamBufs \cup RomBufs) \ DOMAIN pb :
          AllocOne(p, IF p \in RomBufs THEN 0 ELSE offset, n)
    BY <1>4
  <2>2. p \in Pbufs \ DOMAIN pb
    BY DEF Pbufs
  <2>3. (IF p \in RomBufs THEN 0 ELSE offset) \in Nat
    BY <1>2
  <2>4. QED
    BY <1>2, <2>1, <2>2, <2>3, AllocOneKeeps
<1>5. QED
  BY <1>1, <1>3, <1>4

-----------------------------------------------------------------------------
(* The accounts of the chains, between any two turns of any loop.             *)
LEMMA PbufInvHolds == PbufSpec => []PbufInv
<1>1. PbufInit => PbufInv
  <2>1. SUFFICES ASSUME PbufInit PROVE PbufInv
    OBVIOUS
  <2>2. DOMAIN pb = {} /\ pb \in [{} -> PbufStruct]
    BY <2>1 DEF PbufInit
  <2>3. Chains /\ RefsExact /\ LengthsOwed
    BY <2>2 DEF Chains, RefsExact, LengthsOwed
  <2>4. Callers /\ Walks
    BY <2>1, <2>2 DEF PbufInit, Callers, Walks, NoWalk
  <2>5. QED
    BY <2>3, <2>4 DEF PbufInv
<1>2. PbufInv /\ [PbufNext]_pbufVars => PbufInv'
  <2>. SUFFICES ASSUME PbufInv, [PbufNext]_pbufVars PROVE PbufInv'
    OBVIOUS
  <2>1. CASE pbuf_alloc
    BY <2>1, AllocKeeps
  <2>2. CASE pbuf_ref
    BY <2>2, RefKeeps
  <2>3. CASE pbuf_header
    BY <2>3, HeadersKeep
  <2>4. CASE pbuf_free
    BY <2>4, FreeKeeps
  <2>5. CASE FreeStep
    BY <2>5, FreeStepKeeps
  <2>6. CASE pbuf_cat
    BY <2>6, JoinKeeps DEF pbuf_cat
  <2>7. CASE pbuf_chain
    BY <2>7, JoinKeeps DEF pbuf_chain
  <2>8. CASE JoinStep
    BY <2>8, JoinStepKeeps
  <2>9. CASE pbuf_realloc
    BY <2>9, ReallocKeeps
  <2>10. CASE ReallocStep
    BY <2>10, ReallocStepKeeps
  <2>11. CASE CutFrontOf
    BY <2>11, CutKeeps
  <2>12. CASE CutStep
    BY <2>12, CutStepKeeps
  <2>13. CASE UNCHANGED pbufVars
    <3>1. UNCHANGED <<pb, holders, turn>>
      BY <2>13 DEF pbufVars
    <3>2. Chains' /\ Callers' /\ Walks'
      BY <3>1 DEF PbufInv, Chains, Callers, Walks, HeldPacket, Linked
    <3>3. RefsExact' /\ LengthsOwed'
      BY <3>1 DEF PbufInv, RefsExact, References, Linked, LengthsOwed, TotLen, Owed
    <3>4. QED
      BY <3>2, <3>3 DEF PbufInv
  <2>14. QED
    BY <2>1, <2>2, <2>3, <2>4, <2>5, <2>6, <2>7, <2>8, <2>9, <2>10, <2>11, <2>12, <2>13
    DEF PbufNext
<1>3. QED
  BY <1>1, <1>2, PTL DEF PbufSpec

(* A pbuf counts the pointers to it, so that it is freed with the last and    *)
(* not before, and when no loop is under way it knows the length of what is   *)
(* left of its chain.                                                         *)
THEOREM PbufsStaySound == PbufSpec => []PbufsSound
<1>1. PbufInv => PbufsSound
  <2>. SUFFICES ASSUME PbufInv PROVE PbufsSound
    OBVIOUS
  <2>1. ASSUME turn.op \in {"none", "free"}, NEW p \in DOMAIN pb
        PROVE  pb[p].tot_len = TotLen(p)
    <3>1. pb[p].tot_len = TotLen(p) + 0
      BY <2>1 DEF PbufInv, LengthsOwed, Owed
    <3>2. TotLen(p) \in Int
      BY DEF PbufInv, Chains, PbufStruct, TotLen
    <3>3. QED
      BY <3>1, <3>2
  <2>2. QED
    BY <2>1 DEF PbufInv, PbufsSound, LengthsExact
<1>2. QED
  BY <1>1, PbufInvHolds, PTL

(* Lengths are never negative, and nobody is left with a pbuf that was freed. *)
THEOREM PbufTyped == PbufSpec => []PbufTypeOK
<1>1. PbufInv => PbufTypeOK
  BY DEF PbufInv, PbufTypeOK, Chains, Callers, Walks, PbufStruct, AtRest
<1>2. QED
  BY <1>1, PbufInvHolds, PTL

-----------------------------------------------------------------------------
(* Control blocks *)

Opt == Blocks \cup {NoBlock}

States == ActiveStates \cup {"CLOSED", "TIME_WAIT"}

BlockType == [state : States, next : Opt, age : 0..(TimeWait + 1)]

PoolState ==
  [pcb : [Blocks -> BlockType], list : [Lists -> Opt], free : Seq(Blocks), mine : SUBSET Blocks]

(* What h heads is a list: nothing leads to h, and no two blocks to one.      *)
IsList(s, h) ==
  /\ \A c \in From(s, h) : s.pcb[c].next # h
  /\ \A c, d \in From(s, h) : s.pcb[c].next = s.pcb[d].next /\ s.pcb[c].next # NoBlock => c = d

-----------------------------------------------------------------------------
(* The way along next *)

LEMMA NextIn ==
  ASSUME NEW s \in PoolState
  PROVE  \A c \in Blocks : s.pcb[c] \in BlockType /\ s.pcb[c].next \in Opt /\ s.pcb[c].state \in States
BY DEF PoolState, BlockType

LEMMA FromLeast ==
  ASSUME NEW s, NEW b, NEW T \in SUBSET Blocks, b \in T \cup {NoBlock}, Closed(s, T)
  PROVE  From(s, b) \subseteq T
BY DEF From

LEMMA FromClosed ==
  ASSUME NEW s \in PoolState, NEW b \in Opt
  PROVE  From(s, b) \in SUBSET Blocks /\ Closed(s, From(s, b)) /\ b \in From(s, b) \cup {NoBlock}
<1>1. From(s, b) \in SUBSET Blocks
  BY DEF From
<1>2. Closed(s, From(s, b))
  <2> SUFFICES ASSUME NEW c \in From(s, b), s.pcb[c].next # NoBlock
               PROVE  s.pcb[c].next \in From(s, b)
    BY DEF Closed
  <2>1. s.pcb[c].next \in Blocks
    BY <1>1, NextIn DEF Opt
  <2>2. ASSUME NEW T \in SUBSET Blocks, b \in T \cup {NoBlock}, Closed(s, T)
        PROVE  s.pcb[c].next \in T
    <3>1. c \in T
      BY <2>2, FromLeast
    <3> QED  BY <2>2, <3>1 DEF Closed
  <2> QED  BY <2>1, <2>2 DEF From
<1>3. b \in From(s, b) \cup {NoBlock}
  BY DEF From, Opt
<1> QED  BY <1>1, <1>2, <1>3

LEMMA FromNone ==
  ASSUME NEW s
  PROVE  From(s, NoBlock) = {}
<1>1. Closed(s, {})
  BY DEF Closed
<1> QED  BY <1>1, FromLeast

LEMMA FromSame ==
  ASSUME NEW s \in PoolState, NEW t \in PoolState, NEW b \in Opt,
         \A c \in From(s, b) : t.pcb[c].next = s.pcb[c].next
  PROVE  From(t, b) = From(s, b)
<1> DEFINE F == From(s, b)
           G == From(t, b)
<1>1. /\ F \in SUBSET Blocks /\ Closed(s, F) /\ b \in F \cup {NoBlock}
      /\ G \in SUBSET Blocks /\ Closed(t, G) /\ b \in G \cup {NoBlock}
  BY FromClosed
<1>2. Closed(t, F)
  BY <1>1 DEF Closed
<1>3. G \subseteq F
  BY <1>1, <1>2, FromLeast
<1>4. Closed(s, G)
  BY <1>1, <1>3 DEF Closed
<1>5. F \subseteq G
  BY <1>1, <1>4, FromLeast
<1> QED  BY <1>3, <1>5

LEMMA FromStep ==
  ASSUME NEW s \in PoolState, NEW b \in Blocks
  PROVE  From(s, b) = {b} \cup From(s, s.pcb[b].next)
<1> DEFINE n == s.pcb[b].next
           F == From(s, b)
           G == From(s, n)
<1>1. n \in Opt /\ b \in Opt /\ b # NoBlock
  BY NextIn, PoolAssumption DEF Opt
<1>2. /\ F \in SUBSET Blocks /\ Closed(s, F) /\ b \in F
      /\ G \in SUBSET Blocks /\ Closed(s, G) /\ n \in G \cup {NoBlock}
  BY <1>1, FromClosed
<1>3. F \subseteq {b} \cup G
  <2>1. Closed(s, {b} \cup G)
    BY <1>2 DEF Closed
  <2> QED  BY <1>2, <2>1, FromLeast
<1>4. n \in F \cup {NoBlock}
  BY <1>2 DEF Closed
<1>5. G \subseteq F
  BY <1>2, <1>4, FromLeast
<1> QED  BY <1>2, <1>3, <1>5

(* Every block on the way but the first has one before it.                    *)
LEMMA HasPrevious ==
  ASSUME NEW s \in PoolState, NEW h \in Opt, NEW b \in From(s, h), b # h
  PROVE  \E p \in From(s, h) \ {b} : s.pcb[p].next = b
<1> DEFINE F == From(s, h)
           G == F \ {b}
<1>1. F \in SUBSET Blocks /\ Closed(s, F) /\ h \in F \cup {NoBlock}
  BY FromClosed
<1> SUFFICES ASSUME \A p \in G : s.pcb[p].next # b PROVE FALSE
  OBVIOUS
<1>2. Closed(s, G)
  BY <1>1 DEF Closed
<1>3. F \subseteq G
  BY <1>1, <1>2, FromLeast
<1> QED  BY <1>3

LEMMA NotItsOwnNext ==
  ASSUME NEW s \in PoolState, NEW h \in Opt, IsList(s, h), NEW b \in From(s, h)
  PROVE  s.pcb[b].next # b /\ b \in Blocks /\ b # NoBlock /\ s.pcb[b].next \in From(s, h) \cup {NoBlock}
<1>1. From(s, h) \in SUBSET Blocks /\ Closed(s, From(s, h))
  BY FromClosed
<1>2. b \in Blocks /\ b # NoBlock
  BY <1>1, PoolAssumption
<1>3. s.pcb[b].next \in From(s, h) \cup {NoBlock}
  BY <1>1 DEF Closed
<1>4. s.pcb[b].next # b
  <2>1. CASE b = h
    BY <2>1 DEF IsList
  <2>2. CASE b # h
    BY <1>2, <2>2, HasPrevious DEF IsList
  <2> QED  BY <2>1, <2>2
<1> QED  BY <1>2, <1>3, <1>4

(* From any block of a list on, the list is a list.                           *)
LEMMA SuffixLinked ==
  ASSUME NEW s \in PoolState, NEW h \in Opt, IsList(s, h), NEW b \in From(s, h)
  PROVE  From(s, b) \subseteq From(s, h) /\ IsList(s, b)
<1> DEFINE F == From(s, h)
           G == From(s, b)
           R == F \ G
<1>1. /\ F \in SUBSET Blocks /\ Closed(s, F) /\ h \in F \cup {NoBlock}
      /\ b \in Opt /\ b # NoBlock
  BY FromClosed, NotItsOwnNext DEF Opt
<1>2. G \in SUBSET Blocks /\ Closed(s, G) /\ b \in G
  BY <1>1, FromClosed
<1>3. G \subseteq F
  BY <1>1, FromLeast
<1>4. ASSUME NEW c \in G, s.pcb[c].next = b
      PROVE  FALSE
  <2>1. \A d \in G : \E e \in G : s.pcb[e].next = d
    BY <1>1, <1>4, HasPrevious
  <2>2. h \notin G
    BY <1>3, <2>1 DEF IsList
  <2>3. Closed(s, R)
    <3> SUFFICES ASSUME NEW d \in R, s.pcb[d].next # NoBlock, s.pcb[d].next \notin R PROVE FALSE
      BY DEF Closed
    <3>1. s.pcb[d].next \in G
      BY <1>1 DEF Closed
    <3>2. PICK e \in G : s.pcb[e].next = s.pcb[d].next
      BY <2>1, <3>1
    <3>3. e = d
      BY <1>3, <3>2 DEF IsList
    <3> QED  BY <3>2, <3>3
  <2>4. F \subseteq R
    BY <1>1, <2>2, <2>3, FromLeast
  <2> QED  BY <1>2, <2>4
<1>5. IsList(s, b)
  BY <1>3, <1>4 DEF IsList
<1> QED  BY <1>3, <1>5

LEMMA TailOf ==
  ASSUME NEW s \in PoolState, NEW b \in Blocks, IsList(s, b)
  PROVE  LET n == s.pcb[b].next
         IN  b \notin From(s, n) /\ From(s, n) = From(s, b) \ {b} /\ IsList(s, n) /\ n \in Opt
<1> DEFINE n == s.pcb[b].next
           F == From(s, b)
           G == From(s, n)
<1>1. n \in Opt /\ b \in Opt /\ b # NoBlock
  BY NextIn, PoolAssumption DEF Opt
<1>2. G \in SUBSET Blocks /\ Closed(s, G) /\ n \in G \cup {NoBlock}
  BY <1>1, FromClosed
<1>3. F = {b} \cup G
  BY FromStep
<1>4. b \notin G
  <2> SUFFICES ASSUME b \in G PROVE FALSE
    OBVIOUS
  <2>1. n # b
    BY <1>3 DEF IsList
  <2>2. Closed(s, G \ {b})
    BY <1>2, <1>3 DEF Closed, IsList
  <2>3. G \subseteq G \ {b}
    BY <1>2, <2>1, <2>2, FromLeast
  <2> QED  BY <2>3
<1>5. \A c \in G : s.pcb[c].next # n
  <2> SUFFICES ASSUME NEW c \in G, s.pcb[c].next = n PROVE FALSE
    OBVIOUS
  <2>1. n # NoBlock
    BY FromNone
  <2>2. c = b
    BY <1>3, <2>1 DEF IsList
  <2> QED  BY <1>4, <2>2
<1>6. IsList(s, n)
  BY <1>3, <1>5 DEF IsList
<1> QED  BY <1>1, <1>3, <1>4, <1>6

(* A block that is put first.                                                 *)
LEMMA PushKeeps ==
  ASSUME NEW s \in PoolState, NEW h \in Opt, IsList(s, h), NEW t \in PoolState,
         NEW b \in Blocks, b \notin From(s, h), t.pcb[b].next = h,
         \A c \in From(s, h) : t.pcb[c].next = s.pcb[c].next
  PROVE  From(t, b) = From(s, h) \cup {b} /\ IsList(t, b)
<1> DEFINE F == From(s, h)
<1>1. F \in SUBSET Blocks /\ Closed(s, F) /\ h \in F \cup {NoBlock} /\ b # NoBlock
  BY FromClosed, PoolAssumption
<1>2. From(t, h) = F
  BY FromSame
<1>3. From(t, b) = {b} \cup F
  BY <1>2, FromStep
<1>4. \A c \in F : t.pcb[c].next \in F \cup {NoBlock} /\ t.pcb[c].next # h
  BY <1>1 DEF Closed, IsList
<1>5. \A c \in From(t, b) : t.pcb[c].next # b
  BY <1>1, <1>3, <1>4
<1>6. \A c, d \in From(t, b) : t.pcb[c].next = t.pcb[d].next /\ t.pcb[c].next # NoBlock => c = d
  BY <1>3, <1>4 DEF IsList
<1> QED  BY <1>3, <1>5, <1>6 DEF IsList

(* A block that is taken off.                                                 *)
LEMMA TakeKeeps ==
  ASSUME NEW s \in PoolState, NEW h \in Opt, IsList(s, h), NEW b \in From(s, h),
         NEW t \in PoolState,
         \A c \in From(s, h) \ {b} :
           t.pcb[c].next = IF s.pcb[c].next = b THEN s.pcb[b].next ELSE s.pcb[c].next
  PROVE  LET k == IF h = b THEN s.pcb[b].next ELSE h
         IN  From(t, k) = From(s, h) \ {b} /\ IsList(t, k) /\ k \in Opt
<1> DEFINE F == From(s, h)
           n == s.pcb[b].next
           k == IF h = b THEN n ELSE h
           G == F \ {b}
           K == From(t, k)
<1>1. F \in SUBSET Blocks /\ Closed(s, F) /\ h \in F \cup {NoBlock}
  BY FromClosed
<1>2. n # b /\ b \in Blocks /\ n \in F \cup {NoBlock} /\ n \in Opt /\ k \in Opt /\ b # NoBlock
  BY <1>1, NotItsOwnNext, NextIn
<1>3. K \in SUBSET Blocks /\ Closed(t, K) /\ k \in K \cup {NoBlock}
  BY <1>2, FromClosed
<1>4. k \in G \cup {NoBlock}
  BY <1>1, <1>2
<1>5. Closed(t, G)
  <2> SUFFICES ASSUME NEW c \in G PROVE t.pcb[c].next \in G \cup {NoBlock}
    BY DEF Closed
  <2>1. s.pcb[c].next \in F \cup {NoBlock}
    BY <1>1 DEF Closed
  <2> QED  BY <1>2, <2>1
<1>6. K \subseteq G
  BY <1>1, <1>4, <1>5, FromLeast
<1>7. \A c \in K : s.pcb[c].next \in K \cup {b, NoBlock}
  BY <1>3, <1>6 DEF Closed
<1>8. h \in K \cup {b, NoBlock}
  BY <1>3
<1>9. n \in K \cup {NoBlock}
  <2>1. CASE h = b
    BY <1>3, <2>1
  <2>2. CASE h # b
    <3> SUFFICES ASSUME n \notin K \cup {NoBlock} PROVE FALSE
      OBVIOUS
    <3>1. \A c \in K : s.pcb[c].next # b
      BY <1>3, <1>6 DEF Closed
    <3>2. Closed(s, K)
      BY <1>7, <3>1 DEF Closed
    <3>3. F \subseteq K
      BY <1>3, <1>8, <2>2, <3>2, FromLeast
    <3> QED  BY <1>6, <3>3
  <2> QED  BY <2>1, <2>2
<1>10. F \subseteq K \cup {b}
  <2>1. Closed(s, K \cup {b})
    BY <1>7, <1>9 DEF Closed
  <2> QED  BY <1>2, <1>3, <1>8, <2>1, FromLeast
<1>11. K = G
  BY <1>6, <1>10
<1>12. \A c \in G : t.pcb[c].next # k
  <2> SUFFICES ASSUME NEW c \in G, t.pcb[c].next = k PROVE FALSE
    OBVIOUS
  <2>1. CASE h = b
    <3>1. s.pcb[c].next # b
      BY <2>1 DEF IsList
    <3>2. s.pcb[c].next = n
      BY <2>1, <3>1
    <3>3. n # NoBlock
      <4>1. n = NoBlock => K = {}
        BY <2>1, FromNone
      <4> QED  BY <1>11, <4>1
    <3>4. c = b
      BY <3>2, <3>3 DEF IsList
    <3> QED  BY <3>4
  <2>2. CASE h # b
    BY <2>2 DEF IsList
  <2> QED  BY <2>1, <2>2
<1>13. \A c, d \in G : t.pcb[c].next = t.pcb[d].next /\ t.pcb[c].next # NoBlock => c = d
  <2> SUFFICES ASSUME NEW c \in G, NEW d \in G, t.pcb[c].next = t.pcb[d].next, t.pcb[c].next # NoBlock
               PROVE  c = d
    OBVIOUS
  <2>1. \A x, y \in F : s.pcb[x].next = s.pcb[y].next /\ s.pcb[x].next # NoBlock => x = y
    BY DEF IsList
  <2> QED  BY <1>2, <2>1
<1> QED  BY <1>2, <1>11, <1>12, <1>13 DEF IsList

-----------------------------------------------------------------------------
(* The lists together *)

Lined(s) ==
  \A l \in Lists : /\ IsList(s, s.list[l])
                   /\ \A m \in Lists \ {l} : On(s, l) \cap On(s, m) = {}

(* t is s with b off the list l.                                              *)
Without(s, t, l, b) ==
  /\ Lined(t)
  /\ On(t, l) = On(s, l) \ {b}
  /\ \A m \in Lists \ {l} : On(t, m) = On(s, m)

With(s, t, l, b) ==
  /\ Lined(t)
  /\ On(t, l) = On(s, l) \cup {b}
  /\ \A m \in Lists \ {l} : On(t, m) = On(s, m)

LEMMA LinkedSame ==
  ASSUME NEW s \in PoolState, NEW t \in PoolState, NEW h \in Opt, IsList(s, h),
         \A c \in From(s, h) : t.pcb[c].next = s.pcb[c].next
  PROVE  From(t, h) = From(s, h) /\ IsList(t, h)
<1>1. From(t, h) = From(s, h)
  BY FromSame
<1> QED  BY <1>1 DEF IsList

LEMMA OnIn ==
  ASSUME NEW s \in PoolState, NEW l \in Lists
  PROVE  /\ s.list[l] \in Opt /\ On(s, l) \in SUBSET Blocks
         /\ \A c \in On(s, l) : s.pcb[c].next \in On(s, l) \cup {NoBlock}
         /\ s.list[l] \in On(s, l) \cup {NoBlock}
<1>1. s.list[l] \in Opt
  BY DEF PoolState
<1> QED  BY <1>1, FromClosed DEF On, Closed

LEMMA LinedSame ==
  ASSUME NEW s \in PoolState, NEW t \in PoolState, Lined(s), t.list = s.list,
         \A l \in Lists : \A c \in On(s, l) : t.pcb[c].next = s.pcb[c].next
  PROVE  Lined(t) /\ \A l \in Lists : On(t, l) = On(s, l)
<1>1. ASSUME NEW l \in Lists
      PROVE  On(t, l) = On(s, l) /\ IsList(t, t.list[l])
  <2>1. IsList(s, s.list[l]) /\ s.list[l] \in Opt
    BY OnIn DEF Lined
  <2>2. From(t, s.list[l]) = From(s, s.list[l]) /\ IsList(t, s.list[l])
    BY <2>1, LinkedSame DEF On
  <2> QED  BY <2>2 DEF On
<1> QED  BY <1>1 DEF Lined

LEMMA TakenOff ==
  ASSUME NEW s \in PoolState, NEW t \in PoolState, Lined(s), NEW l \in Lists, NEW b \in On(s, l),
         t.list[l] = IF s.list[l] = b THEN s.pcb[b].next ELSE s.list[l],
         \A m \in Lists \ {l} : t.list[m] = s.list[m],
         \A c \in Blocks \ {b} :
           t.pcb[c].next = IF c \in On(s, l) /\ s.pcb[c].next = b THEN s.pcb[b].next
                           ELSE s.pcb[c].next
  PROVE  Without(s, t, l, b)
<1>1. /\ IsList(s, s.list[l]) /\ s.list[l] \in Opt /\ On(s, l) \in SUBSET Blocks
      /\ On(s, l) = From(s, s.list[l])
  BY OnIn DEF Lined, On
<1>2. On(t, l) = On(s, l) \ {b} /\ IsList(t, t.list[l])
  BY <1>1, TakeKeeps DEF On
<1>3. ASSUME NEW m \in Lists \ {l}
      PROVE  On(t, m) = On(s, m) /\ IsList(t, t.list[m])
  <2>1. /\ IsList(s, s.list[m]) /\ s.list[m] \in Opt /\ On(s, m) \in SUBSET Blocks
        /\ On(s, m) = From(s, s.list[m]) /\ On(s, l) \cap On(s, m) = {}
    BY OnIn DEF Lined, On
  <2>2. \A c \in From(s, s.list[m]) : t.pcb[c].next = s.pcb[c].next
    BY <2>1
  <2>3. From(t, s.list[m]) = From(s, s.list[m]) /\ IsList(t, s.list[m])
    BY <2>1, <2>2, LinkedSame
  <2> QED  BY <2>3 DEF On
<1> QED  BY <1>2, <1>3 DEF Lined, Without

LEMMA PutOn ==
  ASSUME NEW s \in PoolState, NEW t \in PoolState, Lined(s), NEW l \in Lists, NEW b \in Blocks,
         \A m \in Lists : b \notin On(s, m),
         t.list[l] = b, t.pcb[b].next = s.list[l],
         \A m \in Lists \ {l} : t.list[m] = s.list[m],
         \A c \in Blocks \ {b} : t.pcb[c].next = s.pcb[c].next
  PROVE  With(s, t, l, b)
<1>1. /\ IsList(s, s.list[l]) /\ s.list[l] \in Opt /\ On(s, l) \in SUBSET Blocks
      /\ On(s, l) = From(s, s.list[l])
  BY OnIn DEF Lined, On
<1>2. On(t, l) = On(s, l) \cup {b} /\ IsList(t, t.list[l])
  BY <1>1, PushKeeps DEF On
<1>3. ASSUME NEW m \in Lists \ {l}
      PROVE  On(t, m) = On(s, m) /\ IsList(t, t.list[m])
  <2>1. /\ IsList(s, s.list[m]) /\ s.list[m] \in Opt /\ On(s, m) \in SUBSET Blocks
        /\ On(s, m) = From(s, s.list[m])
    BY OnIn DEF Lined, On
  <2>2. \A c \in From(s, s.list[m]) : t.pcb[c].next = s.pcb[c].next
    BY <2>1
  <2>3. From(t, s.list[m]) = From(s, s.list[m]) /\ IsList(t, s.list[m])
    BY <2>1, <2>2, LinkedSame
  <2> QED  BY <2>3 DEF On
<1>4. \A m \in Lists \ {l} : On(s, m) \cap On(s, l) = {} /\ b \notin On(s, m)
  BY DEF Lined
<1> QED  BY <1>2, <1>3, <1>4 DEF Lined, With

(* What TCP_RMV, TCP_REG and the walks do to the blocks of the lists.         *)
Alike(s, t) ==
  /\ t \in PoolState /\ t.free = s.free /\ t.mine = s.mine
  /\ \A c \in Blocks : t.pcb[c].state = s.pcb[c].state

LEMMA RmvIs ==
  ASSUME NEW s \in PoolState, NEW l \in Lists, NEW b \in Blocks, NEW t, t = Rmv(s, l, b)
  PROVE  /\ Alike(s, t) /\ t.pcb[b].next = NoBlock
         /\ t.list[l] = IF s.list[l] = b THEN s.pcb[b].next ELSE s.list[l]
         /\ \A m \in Lists \ {l} : t.list[m] = s.list[m]
         /\ \A c \in Blocks \ {b} :
              t.pcb[c].next = IF c \in On(s, l) /\ s.pcb[c].next = b THEN s.pcb[b].next
                              ELSE s.pcb[c].next
<1> DEFINE before == {c \in On(s, l) : s.pcb[c].next = b}
           p == [c \in Blocks |->
                  CASE c = b -> [s.pcb[b] EXCEPT !.next = NoBlock]
                    [] c \in before /\ c # b -> [s.pcb[c] EXCEPT !.next = s.pcb[b].next]
                    [] OTHER -> s.pcb[c]]
           ls == [s.list EXCEPT ![l] = IF s.list[l] = b THEN s.pcb[b].next ELSE s.list[l]]
<1>1. t = [s EXCEPT !.list = ls, !.pcb = p]
  BY DEF Rmv
<1>2. s = [pcb |-> s.pcb, list |-> s.list, free |-> s.free, mine |-> s.mine]
      /\ s.pcb \in [Blocks -> BlockType] /\ s.list \in [Lists -> Opt]
  BY DEF PoolState
<1>3. t.list = ls /\ t.pcb = p /\ t.free = s.free /\ t.mine = s.mine
      /\ t = [pcb |-> p, list |-> ls, free |-> s.free, mine |-> s.mine]
  BY <1>1, <1>2
<1>4. s.pcb[b].next \in Opt /\ NoBlock \in Opt
  BY NextIn DEF Opt
<1>5. ls \in [Lists -> Opt] /\ ls[l] = (IF s.list[l] = b THEN s.pcb[b].next ELSE s.list[l])
      /\ \A m \in Lists \ {l} : ls[m] = s.list[m]
  BY <1>2, <1>4
<1>6. ASSUME NEW c \in Blocks
      PROVE  /\ p[c] \in BlockType /\ p[c].state = s.pcb[c].state
             /\ p[c].next = IF c = b THEN NoBlock
                            ELSE IF c \in On(s, l) /\ s.pcb[c].next = b THEN s.pcb[b].next
                            ELSE s.pcb[c].next
  <2>1. s.pcb[c] \in BlockType /\ s.pcb[b] \in BlockType
    BY <1>2
  <2>2. CASE c = b
    BY <1>4, <2>1, <2>2 DEF BlockType
  <2>3. CASE c \in before /\ c # b
    BY <1>4, <2>1, <2>3 DEF BlockType
  <2>4. CASE c \notin before /\ c # b
    BY <2>1, <2>4 DEF BlockType
  <2> QED  BY <2>2, <2>3, <2>4
<1>7. p \in [Blocks -> BlockType]
  BY <1>6
<1> HIDE DEF p, ls
<1>8. t \in PoolState
  BY <1>3, <1>5, <1>7 DEF PoolState
<1> QED  BY <1>3, <1>5, <1>6, <1>8 DEF Alike

LEMMA RmvTakes ==
  ASSUME NEW s \in PoolState, Lined(s), NEW l \in Lists, NEW b \in Blocks,
         \A m \in Lists \ {l} : b \notin On(s, m), NEW t, t = Rmv(s, l, b)
  PROVE  Alike(s, t) /\ t.pcb[b].next = NoBlock /\ Without(s, t, l, b)
<1>1. t \in PoolState
  BY RmvIs DEF Alike
<1>2. CASE b \in On(s, l)
  BY <1>1, <1>2, RmvIs, TakenOff
<1>3. CASE b \notin On(s, l)
  <2>1. /\ s.list[l] # b
        /\ \A c \in On(s, l) : s.pcb[c].next # b
    BY <1>3, OnIn, PoolAssumption DEF Opt
  <2>2. /\ \A m \in Lists : t.list[m] = s.list[m]
        /\ \A c \in Blocks \ {b} : t.pcb[c].next = s.pcb[c].next
    BY <2>1, RmvIs
  <2>3. t.list = s.list
    BY <1>1, <2>2 DEF PoolState
  <2>4. \A m \in Lists : \A c \in On(s, m) : t.pcb[c].next = s.pcb[c].next
    BY <1>3, <2>2, OnIn
  <2>5. Lined(t) /\ \A m \in Lists : On(t, m) = On(s, m)
    BY <1>1, <2>3, <2>4, LinedSame
  <2> QED  BY <1>3, <2>5, RmvIs DEF Without
<1> QED  BY <1>2, <1>3

LEMMA RegPuts ==
  ASSUME NEW s \in PoolState, Lined(s), NEW l \in Lists, NEW b \in Blocks,
         \A m \in Lists : b \notin On(s, m), NEW t, t = Reg(s, l, b)
  PROVE  Alike(s, t) /\ With(s, t, l, b)
<1> DEFINE p == [s.pcb EXCEPT ![b] = [s.pcb[b] EXCEPT !.next = s.list[l]]]
           ls == [s.list EXCEPT ![l] = b]
<1>2. s = [pcb |-> s.pcb, list |-> s.list, free |-> s.free, mine |-> s.mine]
      /\ s.pcb \in [Blocks -> BlockType] /\ s.list \in [Lists -> Opt] /\ s.pcb[b] \in BlockType
      /\ s.list[l] \in Opt /\ b \in Opt
  BY DEF PoolState, Opt
<1>3. t.list = ls /\ t.pcb = p /\ t.free = s.free /\ t.mine = s.mine
      /\ t = [pcb |-> p, list |-> ls, free |-> s.free, mine |-> s.mine]
  BY <1>2 DEF Reg
<1>4. /\ p \in [Blocks -> BlockType] /\ p[b].next = s.list[l] /\ p[b].state = s.pcb[b].state
      /\ \A c \in Blocks \ {b} : p[c] = s.pcb[c]
  BY <1>2 DEF BlockType
<1>5. ls \in [Lists -> Opt] /\ ls[l] = b /\ \A m \in Lists \ {l} : ls[m] = s.list[m]
  BY <1>2
<1> HIDE DEF p, ls
<1>6. t \in PoolState
  BY <1>3, <1>4, <1>5 DEF PoolState
<1>7. Alike(s, t)
  BY <1>3, <1>4, <1>6 DEF Alike
<1>8. With(s, t, l, b)
  BY <1>3, <1>4, <1>5, <1>6, PutOn
<1> QED  BY <1>7, <1>8

(* Where a walk is on the list l.                                             *)
Before(s, l, prev, b) ==
  IF prev = NoBlock THEN s.list[l] = b ELSE prev \in On(s, l) /\ s.pcb[prev].next = b

LEMMA UnlinkTakes ==
  ASSUME NEW s \in PoolState, Lined(s), NEW l \in Lists, NEW b \in On(s, l),
         NEW prev \in Opt, Before(s, l, prev, b), NEW t, t = Unlink(s, l, prev, b)
  PROVE  /\ Alike(s, t) /\ Without(s, t, l, b)
         /\ t.pcb[b].next = s.pcb[b].next /\ prev # b
         /\ Before(t, l, prev, s.pcb[b].next)
         /\ From(t, s.pcb[b].next) = From(s, b) \ {b}
         /\ s.pcb[b].next \in On(t, l) \cup {NoBlock}
<1> DEFINE n == s.pcb[b].next
           p == [c \in Blocks |-> IF c = prev THEN [s.pcb[c] EXCEPT !.next = n] ELSE s.pcb[c]]
           ls == [s.list EXCEPT ![l] = IF prev = NoBlock THEN n ELSE s.list[l]]
<1>1. /\ IsList(s, s.list[l]) /\ s.list[l] \in Opt /\ On(s, l) \in SUBSET Blocks
      /\ On(s, l) = From(s, s.list[l])
  BY OnIn DEF Lined, On
<1>2. b \in Blocks /\ n # b /\ n \in Opt /\ n \in On(s, l) \cup {NoBlock} /\ b # NoBlock
  BY <1>1, NotItsOwnNext, NextIn
<1>3. prev # b
  BY <1>2 DEF Before
<1>4. s = [pcb |-> s.pcb, list |-> s.list, free |-> s.free, mine |-> s.mine]
      /\ s.pcb \in [Blocks -> BlockType] /\ s.list \in [Lists -> Opt] /\ NoBlock \notin Blocks
  BY PoolAssumption DEF PoolState
<1>5. t.list = ls /\ t.pcb = p /\ t.free = s.free /\ t.mine = s.mine
      /\ t = [pcb |-> p, list |-> ls, free |-> s.free, mine |-> s.mine]
  BY <1>4 DEF Unlink
<1>6. ASSUME NEW c \in Blocks
      PROVE  /\ p[c] \in BlockType /\ p[c].state = s.pcb[c].state
             /\ p[c].next = IF c = prev THEN n ELSE s.pcb[c].next
  BY <1>2, <1>4 DEF BlockType
<1>7. /\ p \in [Blocks -> BlockType] /\ ls \in [Lists -> Opt]
      /\ ls[l] = (IF prev = NoBlock THEN n ELSE s.list[l])
      /\ \A m \in Lists \ {l} : ls[m] = s.list[m]
  BY <1>1, <1>2, <1>4, <1>6
<1> HIDE DEF p, ls, n
<1>8. t \in PoolState /\ Alike(s, t)
  BY <1>4, <1>5, <1>6, <1>7 DEF PoolState, Alike
<1>9. \A c \in On(s, l) : s.pcb[c].next = b => c = prev
  <2>1. CASE prev = NoBlock
    BY <1>1, <2>1 DEF Before, IsList
  <2>2. CASE prev # NoBlock
    BY <1>1, <1>2, <2>2 DEF Before, IsList
  <2> QED  BY <2>1, <2>2
<1>10. ls[l] = IF s.list[l] = b THEN n ELSE s.list[l]
  <2>1. CASE prev = NoBlock
    BY <1>7, <2>1 DEF Before
  <2>2. CASE prev # NoBlock
    BY <1>1, <1>7, <2>2 DEF Before, IsList
  <2> QED  BY <2>1, <2>2
<1>11. \A c \in Blocks \ {b} : p[c].next = IF c \in On(s, l) /\ s.pcb[c].next = b THEN n ELSE s.pcb[c].next
  BY <1>4, <1>6, <1>9 DEF Before
<1>12. Without(s, t, l, b)
  BY <1>5, <1>7, <1>8, <1>10, <1>11, TakenOff DEF n
<1>13. Before(t, l, prev, n)
  BY <1>1, <1>3, <1>4, <1>5, <1>6, <1>7, <1>12 DEF Before, Without
<1>14. From(t, n) = From(s, b) \ {b}
  <2>1. IsList(s, b)
    BY <1>1, SuffixLinked
  <2>2. b \notin From(s, n) /\ From(s, n) = From(s, b) \ {b}
    BY <1>2, <2>1, TailOf DEF n
  <2>3. \A c \in From(s, n) : t.pcb[c].next = s.pcb[c].next
    <3>1. From(s, n) \in SUBSET Blocks /\ Closed(s, From(s, n))
      BY <1>2, FromClosed
    <3>2. prev \notin From(s, n)
      BY <1>2, <1>4, <2>2, <3>1 DEF Before, Closed
    <3> QED  BY <1>5, <1>6, <3>1, <3>2
  <2> QED  BY <1>2, <1>8, <2>2, <2>3, FromSame
<1>15. t.pcb[b].next = n
  BY <1>2, <1>3, <1>5, <1>6 DEF n
<1> QED  BY <1>2, <1>3, <1>8, <1>12, <1>13, <1>14, <1>15 DEF n, Without

-----------------------------------------------------------------------------
(* The free blocks *)

LEMMA PushFree ==
  ASSUME NEW f \in Seq(Blocks), IsInjective(f), NEW b \in Blocks, b \notin ToSet(f)
  PROVE  LET g == <<b>> \o f
         IN  g \in Seq(Blocks) /\ IsInjective(g) /\ ToSet(g) = ToSet(f) \cup {b}
<1> DEFINE g == <<b>> \o f
<1>1. PICK n \in Nat : n = Len(f)
  OBVIOUS
<1>2. /\ g \in Seq(Blocks) /\ DOMAIN g = 1..(n + 1) /\ g[1] = b /\ DOMAIN f = 1..n
      /\ \A i \in 1..n : g[i + 1] = f[i]
  BY <1>1
<1> HIDE DEF g
<1>3. \A i \in 1..(n + 1) : i = 1 \/ (i - 1 \in 1..n /\ g[i] = f[i - 1])
  <2> TAKE i \in 1..(n + 1)
  <2>1. CASE i = 1
    BY <2>1
  <2>2. CASE i # 1
    <3>1. PICK k \in 1..n : i = k + 1 /\ k = i - 1
      BY <2>2
    <3> QED  BY <1>2, <3>1
  <2> QED  BY <2>1, <2>2
<1>4. ToSet(g) = ToSet(f) \cup {b}
  <2>1. ToSet(g) \subseteq ToSet(f) \cup {b}
    BY <1>2, <1>3, SMTT(30) DEF ToSet
  <2>2. b \in ToSet(g)
    BY <1>2 DEF ToSet
  <2>3. ASSUME NEW i \in 1..n PROVE f[i] \in ToSet(g)
    <3>1. i + 1 \in 1..(n + 1)
      OBVIOUS
    <3> QED  BY <1>2, <3>1 DEF ToSet
  <2>4. ToSet(f) \subseteq ToSet(g)
    BY <1>2, <2>3 DEF ToSet
  <2> QED  BY <2>1, <2>2, <2>4
<1>5. ASSUME NEW i \in 2..(n + 1) PROVE g[i] # b
  <2>1. i - 1 \in DOMAIN f /\ g[i] = f[i - 1]
    BY <1>2, <1>3
  <2> QED  BY <2>1 DEF ToSet
<1>6. IsInjective(g)
  <2> SUFFICES ASSUME NEW i \in 1..(n + 1), NEW j \in 1..(n + 1), g[i] = g[j] PROVE i = j
    BY <1>2 DEF IsInjective
  <2>1. CASE i = 1 \/ j = 1
    <3>1. i \in 2..(n + 1) \/ i = 1
      OBVIOUS
    <3>2. j \in 2..(n + 1) \/ j = 1
      OBVIOUS
    <3> QED  BY <1>2, <1>5, <2>1, <3>1, <3>2
  <2>2. CASE i # 1 /\ j # 1
    <3>1. i - 1 \in DOMAIN f /\ j - 1 \in DOMAIN f /\ f[i - 1] = f[j - 1]
      BY <1>2, <1>3, <2>2
    <3>2. i - 1 = j - 1
      BY <3>1 DEF IsInjective
    <3> QED  BY <3>2
  <2> QED  BY <2>1, <2>2
<1> QED  BY <1>2, <1>4, <1>6 DEF g

LEMMA PopFree ==
  ASSUME NEW f \in Seq(Blocks), f # <<>>, IsInjective(f)
  PROVE  /\ Tail(f) \in Seq(Blocks) /\ IsInjective(Tail(f)) /\ Head(f) \in ToSet(f)
         /\ ToSet(Tail(f)) = ToSet(f) \ {Head(f)} /\ Head(f) \in Blocks
<1> DEFINE g == Tail(f)
<1>1. PICK n \in Nat : Len(f) = n + 1
  <2>1. Len(f) \in Nat /\ Len(f) # 0
    OBVIOUS
  <2> QED  BY <2>1
<1>2. /\ g \in Seq(Blocks) /\ DOMAIN g = 1..n /\ DOMAIN f = 1..(n + 1) /\ Head(f) = f[1]
      /\ \A i \in 1..n : g[i] = f[i + 1]
  BY <1>1
<1> HIDE DEF g
<1>3. IsInjective(g)
  <2> SUFFICES ASSUME NEW i \in 1..n, NEW j \in 1..n, g[i] = g[j] PROVE i = j
    BY <1>2 DEF IsInjective
  <2>1. i + 1 \in DOMAIN f /\ j + 1 \in DOMAIN f /\ f[i + 1] = f[j + 1]
    BY <1>2
  <2>2. i + 1 = j + 1
    BY <2>1 DEF IsInjective
  <2> QED  BY <2>2
<1>4. ToSet(g) = ToSet(f) \ {f[1]}
  <2>1. ASSUME NEW i \in 1..n PROVE g[i] \in ToSet(f) \ {f[1]}
    <3>1. i + 1 \in DOMAIN f /\ 1 \in DOMAIN f /\ i + 1 # 1
      BY <1>2
    <3>2. f[i + 1] # f[1]
      BY <3>1 DEF IsInjective
    <3> QED  BY <1>2, <3>1, <3>2 DEF ToSet
  <2>2. ASSUME NEW i \in 1..(n + 1), f[i] # f[1] PROVE f[i] \in ToSet(g)
    <3>1. PICK k \in 1..n : i = k + 1
      <4>1. i - 1 \in 1..n /\ i = (i - 1) + 1
        BY <2>2
      <4> QED  BY <4>1
    <3> QED  BY <1>2, <3>1 DEF ToSet
  <2> QED  BY <1>2, <2>1, <2>2 DEF ToSet
<1>5. f[1] \in ToSet(f) /\ f[1] \in Blocks
  <2>1. 1 \in DOMAIN f
    BY <1>2
  <2> QED  BY <2>1 DEF ToSet
<1> QED  BY <1>2, <1>3, <1>4, <1>5 DEF g

-----------------------------------------------------------------------------
(* The place of a block *)

Places(s, b) == {l \in Lists : b \in On(s, l)}

(* What the state of a block, the lists it is on, whether it is free and      *)
(* whether an application knows it have to do with each other.  inhand: it    *)
(* is being moved from one place to another.                                  *)
HasPlace(state, places, free, mine, inhand) ==
  /\ free => state = "CLOSED" /\ places = {} /\ ~mine /\ ~inhand
  /\ inhand => places = {}
  /\ ~free /\ ~inhand =>
       /\ state \in ActiveStates => places = {"active"}
       /\ state = "TIME_WAIT" => places = {"tw"}
       /\ state = "CLOSED" => mine /\ places \subseteq {"bound"}
       /\ mine => state \in {"CLOSED", "SYN_SENT", "OPEN"}

PlacedAt(s, A, b) ==
  HasPlace(s.pcb[b].state, Places(s, b), b \in ToSet(s.free), b \in s.mine, b \in A)

SoundPool(s, A) ==
  /\ s \in PoolState /\ Lined(s) /\ IsInjective(s.free)
  /\ \A b \in Blocks : PlacedAt(s, A, b)

(* t is s but for the block b.                                                *)
SameFor(s, t, c) ==
  /\ t.pcb[c].state = s.pcb[c].state /\ Places(t, c) = Places(s, c)
  /\ (c \in ToSet(t.free) <=> c \in ToSet(s.free)) /\ (c \in t.mine <=> c \in s.mine)

LEMMA PlacedSame ==
  ASSUME NEW s, NEW t, NEW A, NEW B, NEW c, SameFor(s, t, c), c \in A <=> c \in B, PlacedAt(s, A, c)
  PROVE  PlacedAt(t, B, c)
BY DEF SameFor, PlacedAt, HasPlace

LEMMA SoundBut ==
  ASSUME NEW s, NEW t \in PoolState, NEW b \in Blocks, NEW A \in SUBSET {b}, NEW B \in SUBSET {b},
         SoundPool(s, A), Lined(t), IsInjective(t.free), PlacedAt(t, B, b),
         \A c \in Blocks \ {b} : SameFor(s, t, c)
  PROVE  SoundPool(t, B)
<1>1. ASSUME NEW c \in Blocks PROVE PlacedAt(t, B, c)
  <2>1. CASE c = b
    BY <2>1
  <2>2. CASE c # b
    BY <2>2, PlacedSame DEF SoundPool
  <2> QED  BY <2>1, <2>2
<1> QED  BY <1>1 DEF SoundPool

(* The lists stay; the block b itself changes.                                *)
LEMMA Touched ==
  ASSUME NEW s, NEW b \in Blocks, NEW A \in SUBSET {b}, NEW B \in SUBSET {b}, SoundPool(s, A),
         NEW t \in PoolState, t.list = s.list, t.free = s.free,
         \A c \in Blocks \ {b} : t.pcb[c] = s.pcb[c] /\ (c \in t.mine <=> c \in s.mine),
         t.pcb[b].next = s.pcb[b].next \/ Places(s, b) = {},
         HasPlace(t.pcb[b].state, Places(s, b), b \in ToSet(s.free), b \in t.mine, b \in B)
  PROVE  SoundPool(t, B) /\ \A l \in Lists : On(t, l) = On(s, l)
<1>1. s \in PoolState /\ Lined(s) /\ IsInjective(s.free)
  BY DEF SoundPool
<1>2. \A l \in Lists : \A c \in On(s, l) : t.pcb[c].next = s.pcb[c].next
  BY <1>1, OnIn DEF Places
<1>3. Lined(t) /\ \A l \in Lists : On(t, l) = On(s, l)
  BY <1>1, <1>2, LinedSame
<1>4. \A c \in Blocks : Places(t, c) = Places(s, c)
  BY <1>3 DEF Places
<1>5. PlacedAt(t, B, b)
  BY <1>4 DEF PlacedAt
<1>6. \A c \in Blocks \ {b} : SameFor(s, t, c)
  BY <1>4 DEF SameFor
<1>7. SoundPool(t, B)
  BY <1>1, <1>3, <1>5, <1>6, SoundBut
<1> QED  BY <1>3, <1>7

LEMMA OffSound ==
  ASSUME NEW s, NEW b \in Blocks, NEW A \in SUBSET {b}, SoundPool(s, A), NEW l \in Lists,
         Places(s, b) \subseteq {l}, b \notin ToSet(s.free),
         NEW t, Alike(s, t), Without(s, t, l, b)
  PROVE  SoundPool(t, {b})
<1>1. /\ s \in PoolState /\ IsInjective(s.free) /\ t \in PoolState /\ Lined(t)
      /\ t.free = s.free /\ t.mine = s.mine /\ \A c \in Blocks : t.pcb[c].state = s.pcb[c].state
  BY DEF SoundPool, Alike, Without
<1>2. /\ \A c \in Blocks \ {b} : Places(t, c) = Places(s, c)
      /\ Places(t, b) = {}
  BY DEF Places, Without
<1>3. PlacedAt(t, {b}, b)
  BY <1>1, <1>2 DEF PlacedAt, HasPlace
<1>4. \A c \in Blocks \ {b} : SameFor(s, t, c)
  BY <1>1, <1>2 DEF SameFor
<1> QED  BY <1>1, <1>3, <1>4, SoundBut

LEMMA RmvSound ==
  ASSUME NEW s, NEW b \in Blocks, NEW A \in SUBSET {b}, SoundPool(s, A), NEW l \in Lists,
         Places(s, b) \subseteq {l}, b \notin ToSet(s.free), NEW t, t = Rmv(s, l, b)
  PROVE  /\ SoundPool(t, {b}) /\ Alike(s, t) /\ Without(s, t, l, b) /\ t.pcb[b].next = NoBlock
<1>1. s \in PoolState /\ Lined(s) /\ \A m \in Lists \ {l} : b \notin On(s, m)
  BY DEF SoundPool, Places
<1>2. Alike(s, t) /\ t.pcb[b].next = NoBlock /\ Without(s, t, l, b)
  BY <1>1, RmvTakes
<1> QED  BY <1>2, OffSound

LEMMA RegSound ==
  ASSUME NEW s, NEW b \in Blocks, SoundPool(s, {b}), NEW l \in Lists,
         HasPlace(s.pcb[b].state, {l}, FALSE, b \in s.mine, FALSE), NEW t, t = Reg(s, l, b)
  PROVE  SoundPool(t, {}) /\ Alike(s, t) /\ With(s, t, l, b)
<1>1. s \in PoolState /\ Lined(s) /\ IsInjective(s.free) /\ PlacedAt(s, {b}, b)
  BY DEF SoundPool
<1>2. Places(s, b) = {} /\ b \notin ToSet(s.free) /\ \A m \in Lists : b \notin On(s, m)
  BY <1>1 DEF PlacedAt, HasPlace, Places
<1>3. Alike(s, t) /\ With(s, t, l, b)
  BY <1>1, <1>2, RegPuts
<1>4. /\ t \in PoolState /\ Lined(t) /\ t.free = s.free /\ t.mine = s.mine
      /\ \A c \in Blocks : t.pcb[c].state = s.pcb[c].state
  BY <1>3 DEF Alike, With
<1>5. /\ \A c \in Blocks \ {b} : Places(t, c) = Places(s, c)
      /\ Places(t, b) = {l}
  BY <1>2, <1>3 DEF Places, With
<1>6. PlacedAt(t, {}, b)
  BY <1>2, <1>4, <1>5 DEF PlacedAt, HasPlace
<1>7. \A c \in Blocks \ {b} : SameFor(s, t, c)
  BY <1>4, <1>5 DEF SameFor
<1>8. SoundPool(t, {})
  BY <1>1, <1>4, <1>6, <1>7, SoundBut
<1> QED  BY <1>3, <1>8

(* memp_free of a block in hand.                                              *)
Freed(s, t, b) ==
  t = [pcb |-> [s.pcb EXCEPT ![b] = [s.pcb[b] EXCEPT !.state = "CLOSED"]],
       list |-> s.list, free |-> <<b>> \o s.free, mine |-> s.mine \ {b}]

LEMMA FreedSound ==
  ASSUME NEW s, NEW b \in Blocks, SoundPool(s, {b}), NEW t, Freed(s, t, b)
  PROVE  /\ SoundPool(t, {}) /\ \A l \in Lists : On(t, l) = On(s, l)
         /\ t.list = s.list /\ \A c \in Blocks : t.pcb[c].next = s.pcb[c].next
<1> DEFINE p == [s.pcb EXCEPT ![b] = [s.pcb[b] EXCEPT !.state = "CLOSED"]]
           f == <<b>> \o s.free
<1>1. s \in PoolState /\ Lined(s) /\ IsInjective(s.free) /\ PlacedAt(s, {b}, b)
  BY DEF SoundPool
<1>2. Places(s, b) = {} /\ b \notin ToSet(s.free)
  BY <1>1 DEF PlacedAt, HasPlace
<1>3. s = [pcb |-> s.pcb, list |-> s.list, free |-> s.free, mine |-> s.mine]
      /\ s.pcb \in [Blocks -> BlockType] /\ s.free \in Seq(Blocks) /\ s.mine \in SUBSET Blocks
      /\ s.list \in [Lists -> Opt]
  BY <1>1 DEF PoolState
<1>4. t.list = s.list /\ t.pcb = p /\ t.free = f /\ t.mine = s.mine \ {b}
      /\ t = [pcb |-> p, list |-> s.list, free |-> f, mine |-> s.mine \ {b}]
  BY DEF Freed
<1>5. /\ p \in [Blocks -> BlockType] /\ p[b].next = s.pcb[b].next /\ p[b].state = "CLOSED"
      /\ \A c \in Blocks \ {b} : p[c] = s.pcb[c]
  BY <1>3 DEF BlockType, States
<1>6. f \in Seq(Blocks) /\ IsInjective(f) /\ ToSet(f) = ToSet(s.free) \cup {b}
  BY <1>1, <1>2, <1>3, PushFree
<1> HIDE DEF p, f
<1>7. t \in PoolState
  BY <1>3, <1>4, <1>5, <1>6 DEF PoolState
<1>8. \A c \in Blocks : t.pcb[c].next = s.pcb[c].next
  BY <1>4, <1>5
<1>9. Lined(t) /\ \A l \in Lists : On(t, l) = On(s, l)
  <2>1. \A l \in Lists : \A c \in On(s, l) : t.pcb[c].next = s.pcb[c].next
    BY <1>1, <1>8, OnIn
  <2> QED  BY <1>1, <1>4, <1>7, <2>1, LinedSame
<1>10. \A c \in Blocks : Places(t, c) = Places(s, c)
  BY <1>9 DEF Places
<1>11. PlacedAt(t, {}, b)
  BY <1>2, <1>4, <1>5, <1>6, <1>10 DEF PlacedAt, HasPlace
<1>12. \A c \in Blocks \ {b} : SameFor(s, t, c)
  BY <1>4, <1>5, <1>6, <1>10 DEF SameFor
<1>13. SoundPool(t, {})
  BY <1>1, <1>4, <1>6, <1>7, <1>9, <1>11, <1>12, SoundBut
<1> QED  BY <1>4, <1>8, <1>9, <1>13

-----------------------------------------------------------------------------
(* What the functions of the module do to a sound pool *)

LEMMA Listed ==
  ASSUME NEW s, SoundPool(s, {}), NEW l \in Lists, NEW b \in On(s, l)
  PROVE  /\ b \in Blocks /\ b \notin ToSet(s.free) /\ Places(s, b) = {l}
         /\ l = "active" => s.pcb[b].state \in ActiveStates
         /\ l = "tw" => s.pcb[b].state = "TIME_WAIT" /\ b \notin s.mine
         /\ l = "bound" => s.pcb[b].state = "CLOSED"
<1>1. s \in PoolState /\ b \in Blocks /\ l \in Places(s, b)
  BY OnIn DEF SoundPool, Places
<1>2. PlacedAt(s, {}, b) /\ s.pcb[b].state \in States
  BY <1>1, NextIn DEF SoundPool
<1> QED  BY <1>1, <1>2 DEF PlacedAt, HasPlace, States

LEMMA KnownTo ==
  ASSUME NEW s, SoundPool(s, {}), NEW b \in s.mine
  PROVE  /\ b \in Blocks /\ b \notin ToSet(s.free)
         /\ s.pcb[b].state \in {"CLOSED", "SYN_SENT", "OPEN"}
         /\ s.pcb[b].state = "CLOSED" => Places(s, b) \subseteq {"bound"}
         /\ s.pcb[b].state # "CLOSED" => Places(s, b) = {"active"}
<1>1. s \in PoolState /\ b \in Blocks
  BY DEF SoundPool, PoolState
<1>2. PlacedAt(s, {}, b)
  BY <1>1 DEF SoundPool
<1> QED  BY <1>1, <1>2 DEF PlacedAt, HasPlace, ActiveStates

LEMMA DisposeSound ==
  ASSUME NEW s, SoundPool(s, {}), NEW b \in Blocks, b \notin ToSet(s.free), NEW l \in Lists,
         Places(s, b) \subseteq {l}, NEW t, t = Dispose(s, l, b)
  PROVE  /\ SoundPool(t, {}) /\ t.pcb[b].next = NoBlock
         /\ On(t, l) = On(s, l) \ {b} /\ \A m \in Lists \ {l} : On(t, m) = On(s, m)
<1>1. PICK r : r = Rmv(s, l, b)
  OBVIOUS
<1>2. SoundPool(r, {b}) /\ Without(s, r, l, b) /\ r.pcb[b].next = NoBlock
  BY <1>1, RmvSound
<1>3. Freed(r, t, b)
  <2>1. r = [pcb |-> r.pcb, list |-> r.list, free |-> r.free, mine |-> r.mine]
    BY <1>2 DEF SoundPool, PoolState
  <2>2. t = [Free(Rmv(s, l, b), b) EXCEPT !.pcb[b].state = "CLOSED", !.mine = @ \ {b}]
    BY DEF Dispose
  <2> QED  BY <1>1, <2>1, <2>2 DEF Freed, Free
<1>4. SoundPool(t, {})
  BY <1>2, <1>3, FreedSound
<1>5. (\A m \in Lists : On(t, m) = On(r, m)) /\ t.pcb[b].next = r.pcb[b].next
  BY <1>2, <1>3, FreedSound
<1> QED  BY <1>2, <1>4, <1>5 DEF Without

LEMMA AbandonSound ==
  ASSUME NEW s, SoundPool(s, {}), NEW l \in {"active", "tw"}, NEW b \in On(s, l),
         NEW t, t = Abandon(s, b)
  PROVE  SoundPool(t, {}) /\ t.pcb[b].next = NoBlock /\ On(t, l) = On(s, l) \ {b}
<1>1. /\ l \in Lists /\ b \in Blocks /\ b \notin ToSet(s.free) /\ Places(s, b) = {l}
      /\ l = "tw" <=> s.pcb[b].state = "TIME_WAIT"
  BY Listed DEF Lists, ActiveStates
<1>2. t = Dispose(s, l, b)
  BY <1>1 DEF Abandon
<1> QED  BY <1>1, <1>2, DisposeSound

LEMMA KillSound ==
  ASSUME NEW s, SoundPool(s, {}), NEW l \in {"active", "tw"}, NEW t \in Kill(s, l)
  PROVE  SoundPool(t, {})
<1>1. CASE t = s
  BY <1>1
<1>2. CASE t # s
  <2>1. PICK b \in Inactive(s, l) : t = Abandon(s, b)
    BY <1>2 DEF Kill
  <2>2. b \in On(s, l)
    BY DEF Inactive
  <2> QED  BY <2>1, <2>2, AbandonSound
<1> QED  BY <1>1, <1>2

(* A free block is taken in hand.                                             *)
LEMMA TakeSound ==
  ASSUME NEW s, SoundPool(s, {}), s.free # <<>>, NEW b, b = Head(s.free), NEW t,
         t = [s EXCEPT !.free = Tail(@), !.pcb[b] = Fresh]
  PROVE  b \in Blocks /\ SoundPool(t, {b}) /\ t.pcb[b].state = "CLOSED" /\ b \notin t.mine
<1> DEFINE p == [s.pcb EXCEPT ![b] = Fresh]
           f == Tail(s.free)
<1>1. s \in PoolState /\ Lined(s) /\ IsInjective(s.free)
  BY DEF SoundPool
<1>2. s = [pcb |-> s.pcb, list |-> s.list, free |-> s.free, mine |-> s.mine]
      /\ s.pcb \in [Blocks -> BlockType] /\ s.free \in Seq(Blocks) /\ s.mine \in SUBSET Blocks
      /\ s.list \in [Lists -> Opt]
  BY <1>1 DEF PoolState
<1>3. /\ f \in Seq(Blocks) /\ IsInjective(f) /\ b \in ToSet(s.free) /\ b \in Blocks
      /\ ToSet(f) = ToSet(s.free) \ {b}
  BY <1>1, <1>2, PopFree
<1>4. t.list = s.list /\ t.pcb = p /\ t.free = f /\ t.mine = s.mine
      /\ t = [pcb |-> p, list |-> s.list, free |-> f, mine |-> s.mine]
  BY <1>2
<1>5. Fresh \in BlockType /\ Fresh.state = "CLOSED"
  BY PoolAssumption DEF Fresh, BlockType, States, Opt
<1>6. p \in [Blocks -> BlockType] /\ p[b] = Fresh /\ \A c \in Blocks \ {b} : p[c] = s.pcb[c]
  BY <1>2, <1>3, <1>5
<1> HIDE DEF p, f
<1>7. t \in PoolState
  BY <1>2, <1>3, <1>4, <1>6 DEF PoolState
<1>8. Places(s, b) = {} /\ b \notin s.mine
  BY <1>3 DEF SoundPool, PlacedAt, HasPlace
<1>9. \A l \in Lists : \A c \in On(s, l) : t.pcb[c].next = s.pcb[c].next
  BY <1>1, <1>4, <1>6, <1>8, OnIn DEF Places
<1>10. Lined(t) /\ \A l \in Lists : On(t, l) = On(s, l)
  BY <1>1, <1>4, <1>7, <1>9, LinedSame
<1>11. \A c \in Blocks : Places(t, c) = Places(s, c)
  BY <1>10 DEF Places
<1>12. PlacedAt(t, {b}, b)
  BY <1>3, <1>4, <1>8, <1>11 DEF PlacedAt, HasPlace
<1>13. \A c \in Blocks \ {b} : SameFor(s, t, c)
  BY <1>3, <1>4, <1>6, <1>11 DEF SameFor
<1>14. SoundPool(t, {b})
  BY <1>3, <1>4, <1>7, <1>10, <1>12, <1>13, SoundBut
<1> QED  BY <1>3, <1>4, <1>5, <1>6, <1>8, <1>14

(* What tcp_alloc gives: a block in hand that nobody knows, or none.          *)
Given(a) ==
  IF a.pcb = NoBlock THEN SoundPool(a.pool, {})
  ELSE /\ a.pcb \in Blocks /\ SoundPool(a.pool, {a.pcb})
       /\ a.pool.pcb[a.pcb].state = "CLOSED" /\ a.pcb \notin a.pool.mine

(* The steps of tcp_alloc.                                                    *)
Killed(s, kills) == IF s.free = <<>> /\ kills THEN Kill(s, "active") ELSE {s}

Handed(s) ==
  IF s.free = <<>> THEN [pool |-> s, pcb |-> NoBlock]
  ELSE [pool |-> [s EXCEPT !.free = Tail(@), !.pcb[Head(s.free)] = Fresh], pcb |-> Head(s.free)]

LEMMA AllocSound ==
  ASSUME NEW s, SoundPool(s, {}), NEW kills \in BOOLEAN, NEW a \in Alloc(s, kills)
  PROVE  Given(a)
<1> DEFINE tried == IF s.free = <<>> THEN Kill(s, "tw") ELSE {s}
<1>1. \E t \in tried : \E u \in Killed(t, kills) : a = Handed(u)
  BY DEF Alloc, Killed, Handed
<1>2. PICK t \in tried : \E u \in Killed(t, kills) : a = Handed(u)
  BY <1>1
<1>7. PICK u \in Killed(t, kills) : a = Handed(u)
  BY <1>2
<1>3. SoundPool(t, {})
  BY KillSound
<1>4. SoundPool(u, {})
  BY <1>3, KillSound DEF Killed
<1>5. CASE u.free = <<>>
  BY <1>4, <1>5, <1>7 DEF Given, Handed
<1>6. CASE u.free # <<>>
  <2>1. a.pcb = Head(u.free) /\ a.pool = [u EXCEPT !.free = Tail(@), !.pcb[a.pcb] = Fresh]
    BY <1>6, <1>7 DEF Handed
  <2>2. a.pcb \in Blocks /\ SoundPool(a.pool, {a.pcb}) /\ a.pool.pcb[a.pcb].state = "CLOSED"
        /\ a.pcb \notin a.pool.mine
    BY <1>4, <1>6, <2>1, TakeSound
  <2> QED  BY <2>2, PoolAssumption DEF Given
<1> QED  BY <1>5, <1>6

(* The fields of a pool of which the state or the age of a block changes, or  *)
(* what is known of it.                                                       *)
StateSet(s, t, b, x, M) ==
  t = [pcb |-> [s.pcb EXCEPT ![b] = [s.pcb[b] EXCEPT !.state = x]],
       list |-> s.list, free |-> s.free, mine |-> M]

LEMMA FieldsOf ==
  ASSUME NEW s \in PoolState
  PROVE  s = [pcb |-> s.pcb, list |-> s.list, free |-> s.free, mine |-> s.mine]
BY DEF PoolState

LEMMA StateIs ==
  ASSUME NEW s \in PoolState, NEW b \in Blocks, NEW x \in States, NEW M \in SUBSET Blocks,
         NEW t, StateSet(s, t, b, x, M)
  PROVE  /\ t \in PoolState /\ t.list = s.list /\ t.free = s.free /\ t.mine = M
         /\ t.pcb[b].state = x /\ t.pcb[b].next = s.pcb[b].next
         /\ \A c \in Blocks \ {b} : t.pcb[c] = s.pcb[c]
<1> DEFINE p == [s.pcb EXCEPT ![b] = [s.pcb[b] EXCEPT !.state = x]]
<1>1. s.pcb \in [Blocks -> BlockType] /\ s.free \in Seq(Blocks) /\ s.list \in [Lists -> Opt]
  BY DEF PoolState
<1>2. t.list = s.list /\ t.pcb = p /\ t.free = s.free /\ t.mine = M
      /\ t = [pcb |-> p, list |-> s.list, free |-> s.free, mine |-> M]
  BY DEF StateSet
<1>3. /\ p \in [Blocks -> BlockType] /\ p[b].next = s.pcb[b].next /\ p[b].state = x
      /\ \A c \in Blocks \ {b} : p[c] = s.pcb[c]
  BY <1>1 DEF BlockType
<1> HIDE DEF p
<1> QED  BY <1>1, <1>2, <1>3 DEF PoolState

LEMMA AgeIs ==
  ASSUME NEW s \in PoolState, NEW b \in Blocks, NEW t, t = [s EXCEPT !.pcb[b].age = 0]
  PROVE  /\ t \in PoolState /\ t.list = s.list /\ t.free = s.free /\ t.mine = s.mine
         /\ t.pcb[b].state = s.pcb[b].state /\ t.pcb[b].next = s.pcb[b].next
         /\ \A c \in Blocks \ {b} : t.pcb[c] = s.pcb[c]
<1> DEFINE p == [s.pcb EXCEPT ![b] = [s.pcb[b] EXCEPT !.age = 0]]
<1>1. s = [pcb |-> s.pcb, list |-> s.list, free |-> s.free, mine |-> s.mine]
      /\ s.pcb \in [Blocks -> BlockType] /\ s.free \in Seq(Blocks) /\ s.list \in [Lists -> Opt]
      /\ s.mine \in SUBSET Blocks
  BY DEF PoolState
<1>2. t.list = s.list /\ t.pcb = p /\ t.free = s.free /\ t.mine = s.mine
      /\ t = [pcb |-> p, list |-> s.list, free |-> s.free, mine |-> s.mine]
  BY <1>1
<1>3. 0 \in 0..(TimeWait + 1)
  BY PoolAssumption
<1>4. /\ p \in [Blocks -> BlockType] /\ p[b].next = s.pcb[b].next
      /\ p[b].state = s.pcb[b].state /\ \A c \in Blocks \ {b} : p[c] = s.pcb[c]
  BY <1>1, <1>3 DEF BlockType
<1> HIDE DEF p
<1> QED  BY <1>1, <1>2, <1>4 DEF PoolState

LEMMA MineIs ==
  ASSUME NEW s \in PoolState, NEW M \in SUBSET Blocks, NEW t, t = [s EXCEPT !.mine = M]
  PROVE  /\ t \in PoolState /\ t.list = s.list /\ t.free = s.free /\ t.mine = M /\ t.pcb = s.pcb
BY DEF PoolState

(* A block that stays where it is comes into another state.                   *)
LEMMA StateSound ==
  ASSUME NEW s, NEW b \in Blocks, NEW A \in SUBSET {b}, NEW B \in SUBSET {b}, SoundPool(s, A),
         NEW x \in States, NEW M \in SUBSET Blocks, \A c \in Blocks \ {b} : c \in M <=> c \in s.mine,
         HasPlace(x, Places(s, b), b \in ToSet(s.free), b \in M, b \in B),
         NEW t, StateSet(s, t, b, x, M)
  PROVE  /\ SoundPool(t, B) /\ t.pcb[b].state = x /\ t.mine = M
         /\ \A l \in Lists : On(t, l) = On(s, l) /\ t.list[l] = s.list[l]
         /\ \A c \in Blocks : t.pcb[c].next = s.pcb[c].next
<1>1. s \in PoolState
  BY DEF SoundPool
<1>2. /\ t \in PoolState /\ t.list = s.list /\ t.free = s.free /\ t.mine = M
      /\ t.pcb[b].state = x /\ t.pcb[b].next = s.pcb[b].next
      /\ \A c \in Blocks \ {b} : t.pcb[c] = s.pcb[c]
  BY <1>1, StateIs
<1>3. SoundPool(t, B) /\ \A l \in Lists : On(t, l) = On(s, l)
  BY <1>2, Touched
<1> QED  BY <1>2, <1>3

(* What a callback does to the way on from its block b: it is off the list,   *)
(* or the lists are the same.                                                 *)
OffOrSame(s, t, b) ==
  \/ t.pcb[b].next = NoBlock /\ b \notin On(t, "active")
  \/ t.list = s.list /\ \A c \in Blocks : t.pcb[c].next = s.pcb[c].next

LEMMA CloseSound ==
  ASSUME NEW s, SoundPool(s, {}), NEW b \in s.mine, NEW sent \in BOOLEAN, NEW t, t = Close(s, b, sent)
  PROVE  SoundPool(t, {}) /\ OffOrSame(s, t, b)
<1>1. /\ b \in Blocks /\ b \notin ToSet(s.free) /\ s \in PoolState /\ s.mine \in SUBSET Blocks
      /\ s.pcb[b].state \in {"CLOSED", "SYN_SENT", "OPEN"}
      /\ s.pcb[b].state = "CLOSED" => Places(s, b) \subseteq {"bound"}
      /\ s.pcb[b].state # "CLOSED" => Places(s, b) = {"active"}
  BY KnownTo DEF SoundPool, PoolState
<1>2. CASE s.pcb[b].state = "CLOSED"
  <2>1. t = Dispose(s, "bound", b)
    BY <1>2 DEF Close
  <2>2. b \notin On(s, "active")
    BY <1>1, <1>2 DEF Places, Lists
  <2> QED  BY <1>1, <1>2, <2>1, <2>2, DisposeSound DEF Lists, OffOrSame
<1>3. CASE s.pcb[b].state = "SYN_SENT"
  <2>1. t = Dispose(s, "active", b)
    BY <1>3 DEF Close
  <2> QED  BY <1>1, <1>3, <2>1, DisposeSound DEF Lists, OffOrSame
<1>4. CASE s.pcb[b].state = "OPEN" /\ sent
  <2>1. PICK M : M = s.mine \ {b}
    OBVIOUS
  <2>2. PICK x \in States : x = "CLOSING"
    BY DEF States, ActiveStates
  <2>3. StateSet(s, t, b, x, M)
    <3>1. s = [pcb |-> s.pcb, list |-> s.list, free |-> s.free, mine |-> s.mine]
          /\ s.pcb \in [Blocks -> BlockType]
      BY <1>1 DEF PoolState
    <3>2. t = [s EXCEPT !.pcb[b].state = "CLOSING", !.mine = s.mine \ {b}]
      BY <1>4 DEF Close
    <3>3. /\ t.pcb = [s.pcb EXCEPT ![b] = [s.pcb[b] EXCEPT !.state = "CLOSING"]]
          /\ t.mine = M /\ t.list = s.list /\ t.free = s.free
          /\ t = [pcb |-> t.pcb, list |-> t.list, free |-> t.free, mine |-> t.mine]
      BY <1>1, <2>1, <3>1, <3>2
    <3> QED  BY <2>2, <3>3 DEF StateSet
  <2>4. HasPlace(x, Places(s, b), b \in ToSet(s.free), b \in M, b \in {})
    BY <1>1, <1>4, <2>1, <2>2 DEF HasPlace, ActiveStates
  <2>5. M \in SUBSET Blocks /\ \A c \in Blocks \ {b} : c \in M <=> c \in s.mine
    BY <1>1, <2>1
  <2>6. t.list = s.list /\ \A c \in Blocks : t.pcb[c].next = s.pcb[c].next
    <3>1. s.pcb \in [Blocks -> BlockType]
      BY <1>1 DEF PoolState
    <3> QED  BY <1>1, <2>3, <3>1 DEF StateSet, BlockType
  <2>7. SoundPool(t, {})
    BY <1>1, <2>3, <2>4, <2>5, StateSound
  <2> QED  BY <1>4, <2>6, <2>7 DEF OffOrSame
<1>5. CASE s.pcb[b].state = "OPEN" /\ ~sent
  BY <1>5 DEF Close, OffOrSame
<1> QED  BY <1>1, <1>2, <1>3, <1>4, <1>5

LEMMA ConnectSound ==
  ASSUME NEW s, SoundPool(s, {}), NEW b \in s.mine, s.pcb[b].state = "CLOSED", NEW t, t = Connect(s, b)
  PROVE  SoundPool(t, {})
<1>1. /\ b \in Blocks /\ b \notin ToSet(s.free) /\ Places(s, b) \subseteq {"bound"}
  BY KnownTo
<1>2. PICK r : r = Rmv(s, "bound", b)
  OBVIOUS
<1>9. SoundPool(r, {b}) /\ Alike(s, r)
  BY <1>1, <1>2, RmvSound DEF Lists
<1>3. SoundPool(r, {b}) /\ r.mine = s.mine /\ r \in PoolState /\ r.mine \in SUBSET Blocks
  BY <1>9 DEF Alike, PoolState
<1>4. PICK u : u = [r EXCEPT !.pcb[b].state = "SYN_SENT"]
  OBVIOUS
<1>5. PICK x \in States : x = "SYN_SENT"
  BY DEF States, ActiveStates
<1>10. StateSet(r, u, b, x, r.mine)
  BY <1>3, <1>4, <1>5, FieldsOf DEF StateSet
<1>11. HasPlace(x, Places(r, b), b \in ToSet(r.free), b \in r.mine, b \in {b})
  BY <1>1, <1>3 DEF SoundPool, PlacedAt, HasPlace
<1>6. SoundPool(u, {b}) /\ u.pcb[b].state = x /\ u.mine = s.mine
  BY <1>1, <1>3, <1>10, <1>11, StateSound
<1>7. t = Reg(u, "active", b)
  BY <1>2, <1>4 DEF Connect
<1>8. HasPlace(u.pcb[b].state, {"active"}, FALSE, b \in u.mine, FALSE)
  BY <1>5, <1>6 DEF HasPlace, ActiveStates
<1> QED  BY <1>1, <1>6, <1>7, <1>8, RegSound DEF Lists

(* What a callback may do to the list leaves the walk its next block, or none. *)
LEMMA CallbackSound ==
  ASSUME NEW s, SoundPool(s, {}), NEW b \in On(s, "active"), NEW t \in Callback(s, b)
  PROVE  SoundPool(t, {}) /\ OffOrSame(s, t, b)
<1>1. b \in Blocks /\ s.pcb[b].state \in ActiveStates
  BY Listed DEF Lists
<1>2. CASE t = s
  BY <1>2 DEF OffOrSame
<1>3. CASE b \in s.mine /\ t = Abandon(s, b)
  BY <1>3, AbandonSound DEF OffOrSame
<1>4. CASE b \in s.mine /\ t = Close(s, b, TRUE)
  <2>1. PICK sent \in BOOLEAN : sent = TRUE
    OBVIOUS
  <2>2. t = Close(s, b, sent)
    BY <1>4, <2>1
  <2> QED  BY <1>4, <2>2, CloseSound
<1> QED  BY <1>2, <1>3, <1>4 DEF Callback

LEMMA ToFrontSound ==
  ASSUME NEW s, SoundPool(s, {}), NEW b \in On(s, "active"), NEW t, t = ToFront(s, b)
  PROVE  /\ SoundPool(t, {}) /\ b \in On(t, "active")
<1>1. /\ b \in Blocks /\ b \notin ToSet(s.free) /\ Places(s, b) = {"active"}
      /\ s.pcb[b].state \in ActiveStates
      /\ "active" \in Lists
  BY Listed DEF Lists
<1>2. PICK r : r = Rmv(s, "active", b)
  OBVIOUS
<1>6. SoundPool(r, {b}) /\ Alike(s, r)
  BY <1>1, <1>2, RmvSound
<1>3. SoundPool(r, {b}) /\ r.mine = s.mine /\ r.pcb[b].state = s.pcb[b].state
  BY <1>1, <1>6 DEF Alike
<1>4. HasPlace(r.pcb[b].state, {"active"}, FALSE, b \in r.mine, FALSE)
  BY <1>1, <1>3 DEF SoundPool, PlacedAt, HasPlace
<1>5. t = Reg(r, "active", b)
  BY <1>2 DEF ToFront
<1>7. SoundPool(t, {}) /\ With(r, t, "active", b)
  BY <1>1, <1>4, <1>5, <1>6, RegSound
<1> QED  BY <1>7 DEF With

LEMMA ToTimeWaitSound ==
  ASSUME NEW s, SoundPool(s, {}), NEW b \in On(s, "active"), b \notin s.mine, NEW t, t = ToTimeWait(s, b)
  PROVE  SoundPool(t, {})
<1>1. /\ b \in Blocks /\ b \notin ToSet(s.free) /\ Places(s, b) = {"active"}
      /\ "active" \in Lists /\ "tw" \in Lists
  BY Listed DEF Lists
<1>2. PICK r : r = Rmv(s, "active", b)
  OBVIOUS
<1>9. SoundPool(r, {b}) /\ Alike(s, r)
  BY <1>1, <1>2, RmvSound
<1>3. SoundPool(r, {b}) /\ r.mine = s.mine /\ r \in PoolState /\ r.mine \in SUBSET Blocks
  BY <1>9 DEF Alike, PoolState
<1>4. PICK u : u = [r EXCEPT !.pcb[b].state = "TIME_WAIT"]
  OBVIOUS
<1>5. PICK x \in States : x = "TIME_WAIT"
  BY DEF States, ActiveStates
<1>10. StateSet(r, u, b, x, r.mine)
  BY <1>3, <1>4, <1>5, FieldsOf DEF StateSet
<1>11. HasPlace(x, Places(r, b), b \in ToSet(r.free), b \in r.mine, b \in {b})
  BY <1>1, <1>3 DEF SoundPool, PlacedAt, HasPlace
<1>6. SoundPool(u, {b}) /\ u.pcb[b].state = x /\ u.mine = s.mine
  BY <1>1, <1>3, <1>10, <1>11, StateSound
<1>7. t = Reg(u, "tw", b)
  BY <1>2, <1>4 DEF ToTimeWait
<1>8. HasPlace(u.pcb[b].state, {"tw"}, FALSE, b \in u.mine, FALSE)
  BY <1>5, <1>6 DEF HasPlace, ActiveStates
<1> QED  BY <1>1, <1>6, <1>7, <1>8, RegSound

LEMMA OutcomesSound ==
  ASSUME NEW s, SoundPool(s, {}), NEW b \in On(s, "active"), NEW t \in Outcomes(s, b)
  PROVE  SoundPool(t, {})
<1>1. /\ b \in Blocks /\ b \notin ToSet(s.free) /\ Places(s, b) = {"active"} /\ "active" \in Lists
      /\ s.pcb[b].state \in ActiveStates /\ s \in PoolState /\ s.mine \in SUBSET Blocks
  BY Listed DEF Lists, SoundPool, PoolState
<1>2. CASE t = s
  BY <1>2
<1>3. CASE t = Dispose(s, "active", b)
  BY <1>1, <1>3, DisposeSound
<1>4. CASE s.pcb[b].state = "SYN_SENT" /\ t = [s EXCEPT !.pcb[b].state = "OPEN"]
  <2>1. StateSet(s, t, b, "OPEN", s.mine)
    BY <1>1, <1>4, FieldsOf DEF StateSet
  <2>2. HasPlace("OPEN", Places(s, b), b \in ToSet(s.free), b \in s.mine, b \in {})
    BY <1>1 DEF HasPlace, ActiveStates
  <2>3. "OPEN" \in States
    BY DEF States, ActiveStates
  <2> QED  BY <1>1, <2>1, <2>2, <2>3, StateSound
<1>5. CASE s.pcb[b].state = "SYN_RCVD"
           /\ t = [s EXCEPT !.pcb[b].state = "OPEN", !.mine = s.mine \cup {b}]
  <2>1. StateSet(s, t, b, "OPEN", s.mine \cup {b})
    <3>1. s = [pcb |-> s.pcb, list |-> s.list, free |-> s.free, mine |-> s.mine]
          /\ s.pcb \in [Blocks -> BlockType]
      BY <1>1 DEF PoolState
    <3>3. /\ t.pcb = [s.pcb EXCEPT ![b] = [s.pcb[b] EXCEPT !.state = "OPEN"]]
          /\ t.mine = s.mine \cup {b} /\ t.list = s.list /\ t.free = s.free
          /\ t = [pcb |-> t.pcb, list |-> t.list, free |-> t.free, mine |-> t.mine]
      BY <3>1, <1>1, <1>5
    <3> QED  BY <3>3 DEF StateSet
  <2>2. HasPlace("OPEN", Places(s, b), b \in ToSet(s.free), b \in s.mine \cup {b}, b \in {})
    BY <1>1 DEF HasPlace, ActiveStates
  <2>3. "OPEN" \in States /\ s.mine \cup {b} \in SUBSET Blocks
        /\ \A c \in Blocks \ {b} : c \in s.mine \cup {b} <=> c \in s.mine
    BY <1>1 DEF States, ActiveStates
  <2> QED  BY <1>1, <2>1, <2>2, <2>3, StateSound
<1>6. CASE s.pcb[b].state = "CLOSING" /\ t = ToTimeWait(s, b)
  <2>1. b \notin s.mine
    BY <1>6, KnownTo
  <2> QED  BY <1>6, <2>1, ToTimeWaitSound
<1> QED  BY <1>2, <1>3, <1>4, <1>5, <1>6 DEF Outcomes

LEMMA AgedSound ==
  ASSUME NEW s, SoundPool(s, {}), NEW t \in PoolState,
         t.list = s.list, t.free = s.free, t.mine = s.mine,
         \A c \in Blocks : t.pcb[c].state = s.pcb[c].state /\ t.pcb[c].next = s.pcb[c].next
  PROVE  SoundPool(t, {}) /\ \A l \in Lists : On(t, l) = On(s, l)
<1>1. s \in PoolState /\ Lined(s) /\ IsInjective(s.free)
  BY DEF SoundPool
<1>2. \A l \in Lists : \A c \in On(s, l) : t.pcb[c].next = s.pcb[c].next
  BY <1>1, OnIn
<1>3. Lined(t) /\ \A l \in Lists : On(t, l) = On(s, l)
  BY <1>1, <1>2, LinedSame
<1>4. \A c \in Blocks : SameFor(s, t, c)
  BY <1>3 DEF SameFor, Places
<1>5. \A c \in Blocks : PlacedAt(t, {}, c)
  BY <1>4, PlacedSame DEF SoundPool
<1> QED  BY <1>1, <1>3, <1>5 DEF SoundPool

LEMMA AgeSound ==
  ASSUME NEW s, SoundPool(s, {}), NEW b \in Blocks, NEW t, t = [s EXCEPT !.pcb[b].age = 0]
  PROVE  SoundPool(t, {}) /\ \A l \in Lists : On(t, l) = On(s, l)
<1>1. s \in PoolState
  BY DEF SoundPool
<1>2. /\ t \in PoolState /\ t.list = s.list /\ t.free = s.free /\ t.mine = s.mine
      /\ t.pcb[b].state = s.pcb[b].state /\ t.pcb[b].next = s.pcb[b].next
      /\ \A c \in Blocks \ {b} : t.pcb[c] = s.pcb[c]
  BY <1>1, AgeIs
<1>3. \A c \in Blocks : t.pcb[c].state = s.pcb[c].state /\ t.pcb[c].next = s.pcb[c].next
  BY <1>2
<1> QED  BY <1>2, <1>3, AgedSound

(* A block in hand is given to an application.                                *)
LEMMA MineSound ==
  ASSUME NEW s, NEW b \in Blocks, SoundPool(s, {b}), s.pcb[b].state = "CLOSED",
         NEW t, t = [s EXCEPT !.mine = @ \cup {b}]
  PROVE  SoundPool(t, {})
<1>1. s \in PoolState /\ PlacedAt(s, {b}, b) /\ s.mine \in SUBSET Blocks
  BY DEF SoundPool, PoolState
<1>2. PICK M \in SUBSET Blocks : M = s.mine \cup {b}
  BY <1>1
<1>3. t = [s EXCEPT !.mine = M]
  BY <1>1, <1>2 DEF PoolState
<1>4. t \in PoolState /\ t.list = s.list /\ t.free = s.free /\ t.mine = M /\ t.pcb = s.pcb
  BY <1>1, <1>2, <1>3, MineIs
<1>5. HasPlace(t.pcb[b].state, Places(s, b), b \in ToSet(s.free), b \in t.mine, b \in {})
  BY <1>1, <1>2, <1>4 DEF PlacedAt, HasPlace, ActiveStates
<1>6. \A c \in Blocks \ {b} : t.pcb[c] = s.pcb[c] /\ (c \in t.mine <=> c \in s.mine)
  BY <1>2, <1>4
<1> QED  BY <1>4, <1>5, <1>6, Touched

LEMMA NewSound ==
  ASSUME NEW s, SoundPool(s, {}), NEW t \in New(s)
  PROVE  SoundPool(t, {})
<1>1. PICK a \in Alloc(s, TRUE) :
        t = IF a.pcb = NoBlock THEN a.pool ELSE [a.pool EXCEPT !.mine = @ \cup {a.pcb}]
  BY DEF New
<1>2. Given(a)
  BY AllocSound
<1>3. CASE a.pcb = NoBlock
  BY <1>1, <1>2, <1>3 DEF Given
<1>4. CASE a.pcb # NoBlock
  <2>1. PICK b : b = a.pcb
    OBVIOUS
  <2>2. PICK u : u = a.pool
    OBVIOUS
  <2>3. b \in Blocks /\ SoundPool(u, {b}) /\ u.pcb[b].state = "CLOSED"
    BY <1>2, <1>4, <2>1, <2>2 DEF Given
  <2>4. t = [u EXCEPT !.mine = @ \cup {b}]
    BY <1>1, <1>4, <2>1, <2>2
  <2> QED  BY <2>3, <2>4, MineSound
<1> QED  BY <1>3, <1>4

(* A connection that comes in has its block put on the active list.           *)
LEMMA ReceivedSound ==
  ASSUME NEW s, NEW b \in Blocks, SoundPool(s, {b}), b \notin s.mine,
         NEW t, t = Reg([s EXCEPT !.pcb[b].state = "SYN_RCVD"], "active", b)
  PROVE  SoundPool(t, {}) /\ b \in On(t, "active")
<1>1. /\ s \in PoolState /\ PlacedAt(s, {b}, b) /\ s.mine \in SUBSET Blocks
      /\ "active" \in Lists
  BY DEF SoundPool, PoolState, Lists
<1>2. PICK u : u = [s EXCEPT !.pcb[b].state = "SYN_RCVD"]
  OBVIOUS
<1>3. PICK x \in States : x = "SYN_RCVD"
  BY DEF States, ActiveStates
<1>4. StateSet(s, u, b, x, s.mine)
  BY <1>1, <1>2, <1>3, FieldsOf DEF StateSet
<1>5. HasPlace(x, Places(s, b), b \in ToSet(s.free), b \in s.mine, b \in {b})
  BY <1>1 DEF PlacedAt, HasPlace
<1>6. SoundPool(u, {b}) /\ u.pcb[b].state = x /\ u.mine = s.mine
  BY <1>1, <1>4, <1>5, StateSound
<1>7. HasPlace(u.pcb[b].state, {"active"}, FALSE, b \in u.mine, FALSE)
  BY <1>3, <1>6 DEF HasPlace, ActiveStates
<1>8. t = Reg(u, "active", b)
  BY <1>2
<1>9. SoundPool(t, {}) /\ With(u, t, "active", b)
  BY <1>1, <1>6, <1>7, <1>8, RegSound
<1> QED  BY <1>9 DEF With

(* A slow tick.                                                               *)
LEMMA OlderIs ==
  ASSUME NEW p \in BlockType
  PROVE  Older(p) \in BlockType /\ Older(p).state = p.state /\ Older(p).next = p.next
<1>1. PICK n \in 0..(TimeWait + 1) : n = p.age
  BY DEF BlockType
<1>2. (IF n > TimeWait THEN n ELSE n + 1) \in 0..(TimeWait + 1)
  BY PoolAssumption
<1> QED  BY <1>1, <1>2 DEF Older, BlockType

-----------------------------------------------------------------------------
(* The calls and the segments *)

LEMMA PoolIs ==
  ASSUME NEW s \in PoolState, SetPool(s)
  PROVE  Pool' = s
<1>1. s = [pcb |-> s.pcb, list |-> s.list, free |-> s.free, mine |-> s.mine]
  BY FieldsOf
<1> QED  BY <1>1 DEF SetPool, Pool

LEMMA SetSound ==
  ASSUME NEW s, SoundPool(s, {}), SetPool(s)
  PROVE  Pool' = s /\ SoundPool(Pool', {})
BY PoolIs DEF SoundPool

Call ==
  \/ tcp_new \/ tcp_bind \/ tcp_listen \/ tcp_connect \/ tcp_close \/ tcp_abort
  \/ tcp_input \/ tcp_listen_input \/ tcp_timewait_input

LEMMA CallsSound ==
  ASSUME SoundPool(Pool, {}), Call
  PROVE  SoundPool(Pool', {}) /\ walk' = walk /\ walk.pc = "idle"
<1> DEFINE s == Pool
<1> USE DEF Lists
<1>0. s \in PoolState /\ s.mine = handles
  BY DEF SoundPool, Pool
<1>1. CASE tcp_new
  BY <1>1, NewSound, SetSound DEF tcp_new
<1>2. CASE tcp_bind
  <2>1. PICK b \in Unused(s) \ On(s, "bound") : SetPool(Reg(s, "bound", b))
    BY <1>2 DEF tcp_bind
  <2>2. b \in s.mine /\ s.pcb[b].state = "CLOSED"
    BY DEF Unused
  <2>3. b \in Blocks /\ b \notin ToSet(s.free) /\ Places(s, b) = {}
    BY <2>2, KnownTo DEF Places
  <2>4. SoundPool(s, {b})
    <3>1. PlacedAt(s, {b}, b)
      BY <2>3 DEF PlacedAt, HasPlace
    <3>2. \A c \in Blocks \ {b} : SameFor(s, s, c)
      BY DEF SameFor
    <3> QED  BY <1>0, <2>3, <3>1, <3>2, SoundBut DEF SoundPool
  <2>5. HasPlace(s.pcb[b].state, {"bound"}, FALSE, b \in s.mine, FALSE)
    BY <2>2 DEF HasPlace, ActiveStates
  <2>6. SoundPool(Reg(s, "bound", b), {})
    BY <2>3, <2>4, <2>5, RegSound
  <2> QED  BY <1>2, <2>1, <2>6, SetSound DEF tcp_bind
<1>3. CASE tcp_listen
  <2>1. PICK b \in On(s, "bound") : SetPool(Dispose(s, "bound", b))
    BY <1>3 DEF tcp_listen
  <2>2. SoundPool(Dispose(s, "bound", b), {})
    BY Listed, DisposeSound
  <2> QED  BY <1>3, <2>1, <2>2, SetSound DEF tcp_listen
<1>4. CASE tcp_connect
  <2>1. PICK b \in Unused(s) : SetPool(Connect(s, b))
    BY <1>4 DEF tcp_connect
  <2>2. SoundPool(Connect(s, b), {})
    BY ConnectSound DEF Unused
  <2> QED  BY <1>4, <2>1, <2>2, SetSound DEF tcp_connect
<1>5. CASE tcp_close
  <2>1. PICK b \in handles, sent \in BOOLEAN : SetPool(Close(s, b, sent))
    BY <1>5 DEF tcp_close
  <2>2. SoundPool(Close(s, b, sent), {})
    BY <1>0, CloseSound
  <2> QED  BY <1>5, <2>1, <2>2, SetSound DEF tcp_close
<1>6. CASE tcp_abort
  <2>1. PICK b \in handles \ Unused(s) : SetPool(Abandon(s, b))
    BY <1>6 DEF tcp_abort
  <2>2. b \in On(s, "active")
    <3>1. s.pcb[b].state # "CLOSED" /\ b \in s.mine
      BY <1>0 DEF Unused
    <3>2. Places(s, b) = {"active"}
      BY <3>1, KnownTo
    <3> QED  BY <3>2 DEF Places
  <2>3. SoundPool(Abandon(s, b), {})
    BY <2>2, AbandonSound
  <2> QED  BY <1>6, <2>1, <2>3, SetSound DEF tcp_abort
<1>7. CASE tcp_input
  <2>1. PICK b \in On(s, "active") :
          \E t \in Outcomes([ToFront(s, b) EXCEPT !.pcb[b].age = 0], b) : SetPool(t)
    BY <1>7 DEF tcp_input
  <2>2. PICK r : r = ToFront(s, b)
    OBVIOUS
  <2>3. SoundPool(r, {}) /\ b \in On(r, "active") /\ b \in Blocks
    BY <2>2, ToFrontSound, Listed
  <2>4. PICK u : u = [r EXCEPT !.pcb[b].age = 0]
    OBVIOUS
  <2>5. SoundPool(u, {}) /\ b \in On(u, "active")
    BY <2>3, <2>4, AgeSound
  <2>6. PICK t \in Outcomes(u, b) : SetPool(t)
    BY <2>1, <2>2, <2>4
  <2>7. SoundPool(t, {})
    BY <2>5, OutcomesSound
  <2> QED  BY <1>7, <2>6, <2>7, SetSound DEF tcp_input
<1>8. CASE tcp_listen_input
  <2>5. PICK kills \in BOOLEAN : \E a \in Alloc(s, kills), queued \in BOOLEAN :
          LET r == Reg([a.pool EXCEPT !.pcb[a.pcb].state = "SYN_RCVD"], "active", a.pcb)
          IN  SetPool(IF a.pcb = NoBlock THEN a.pool ELSE IF queued THEN r ELSE Abandon(r, a.pcb))
    BY <1>8 DEF tcp_listen_input
  <2>1. PICK a \in Alloc(s, kills), queued \in BOOLEAN :
          LET r == Reg([a.pool EXCEPT !.pcb[a.pcb].state = "SYN_RCVD"], "active", a.pcb)
          IN  SetPool(IF a.pcb = NoBlock THEN a.pool ELSE IF queued THEN r ELSE Abandon(r, a.pcb))
    BY <2>5
  <2>2. Given(a)
    BY AllocSound
  <2>3. CASE a.pcb = NoBlock
    BY <1>8, <2>1, <2>2, <2>3, SetSound DEF Given, tcp_listen_input
  <2>4. CASE a.pcb # NoBlock
    <3>1. PICK b, u : b = a.pcb /\ u = a.pool
      OBVIOUS
    <3>2. b \in Blocks /\ SoundPool(u, {b}) /\ b \notin u.mine
      BY <2>2, <2>4, <3>1 DEF Given
    <3>3. PICK r : r = Reg([u EXCEPT !.pcb[b].state = "SYN_RCVD"], "active", b)
      OBVIOUS
    <3>4. SoundPool(r, {}) /\ b \in On(r, "active")
      BY <3>2, <3>3, ReceivedSound
    <3>5. SoundPool(Abandon(r, b), {})
      BY <3>4, AbandonSound
    <3>6. SetPool(r) \/ SetPool(Abandon(r, b))
      BY <2>1, <2>4, <3>1, <3>3
    <3> QED  BY <1>8, <3>4, <3>5, <3>6, SetSound DEF tcp_listen_input
  <2> QED  BY <2>3, <2>4
<1>9. CASE tcp_timewait_input
  <2>1. PICK b \in On(s, "tw") : SetPool([s EXCEPT !.pcb[b].age = 0])
    BY <1>9 DEF tcp_timewait_input
  <2>2. PICK t : t = [s EXCEPT !.pcb[b].age = 0]
    OBVIOUS
  <2>3. SoundPool(t, {})
    BY <2>2, Listed, AgeSound
  <2> QED  BY <1>9, <2>1, <2>2, <2>3, SetSound DEF tcp_timewait_input
<1> QED  BY <1>1, <1>2, <1>3, <1>4, <1>5, <1>6, <1>7, <1>8, <1>9 DEF Call

-----------------------------------------------------------------------------
(* The walks *)

WalkType ==
  [pc : {"idle", "fast", "slow", "tw"}, odd : BOOLEAN, pcb : Opt, prev : Opt,
   due : SUBSET Blocks, cut : BOOLEAN]

(* Where a walk w over the pool s is: its block is on the list, after prev    *)
(* where prev matters, and what is left of the list is due.                   *)
WalkRight(s, w) ==
  /\ w \in WalkType
  /\ w.pc = "idle" => w.pcb = NoBlock
  /\ w.pc \in {"idle", "fast"} => w.prev = NoBlock /\ ~w.cut
  /\ w.pc = "fast" => w.pcb \in On(s, "active") \cup {NoBlock}
  /\ w.pc = "slow" /\ w.pcb # NoBlock =>
       w.pcb \in On(s, "active") /\ Before(s, "active", w.prev, w.pcb)
  /\ w.pc = "tw" /\ w.pcb # NoBlock =>
       w.pcb \in On(s, "tw") /\ Before(s, "tw", w.prev, w.pcb)
  /\ w.pc = "slow" => IF w.cut THEN w.pcb = NoBlock ELSE w.due = From(s, w.pcb)

PoolInv == SoundPool(Pool, {}) /\ WalkRight(Pool, walk)

LEMMA HeadOf ==
  ASSUME NEW s, SoundPool(s, {}), NEW l \in Lists
  PROVE  /\ s.list[l] \in Opt /\ s.list[l] \in On(s, l) \cup {NoBlock}
         /\ On(s, l) = From(s, s.list[l]) /\ On(s, l) \in SUBSET Blocks
         /\ Before(s, l, NoBlock, s.list[l])
BY OnIn DEF SoundPool, On, Before

(* From a block of a list on.                                                 *)
LEMMA RestOf ==
  ASSUME NEW s, SoundPool(s, {}), NEW l \in Lists, NEW b \in On(s, l)
  PROVE  /\ b \in Blocks /\ b # NoBlock /\ s.pcb[b].next \in On(s, l) \cup {NoBlock}
         /\ From(s, s.pcb[b].next) = From(s, b) \ {b} /\ s.pcb[b].next \in Opt
         /\ From(s, b) \in SUBSET Blocks
<1>1. s \in PoolState /\ s.list[l] \in Opt /\ On(s, l) = From(s, s.list[l]) /\ IsList(s, s.list[l])
  BY HeadOf DEF SoundPool, Lined
<1>2. b \in Blocks /\ b # NoBlock /\ s.pcb[b].next \in On(s, l) \cup {NoBlock}
  BY <1>1, NotItsOwnNext
<1>3. IsList(s, b)
  BY <1>1, SuffixLinked
<1>4. From(s, s.pcb[b].next) = From(s, b) \ {b} /\ s.pcb[b].next \in Opt
  BY <1>1, <1>2, <1>3, TailOf
<1> QED  BY <1>2, <1>4 DEF From

LEMMA PoolTypes ==
  ASSUME PoolInv
  PROVE  /\ Pool \in PoolState /\ SoundPool(Pool, {}) /\ walk \in WalkType
         /\ Pool.pcb = pcbs /\ Pool.list = pcblists /\ Pool.free = freepcbs /\ Pool.mine = handles
BY DEF PoolInv, SoundPool, WalkRight, Pool

LEMMA tcp_tmrRight ==
  ASSUME PoolInv, tcp_tmr
  PROVE  PoolInv'
<1> USE DEF Lists
<1>1. Pool' = Pool /\ walk.pc = "idle" /\ walk' = [walk EXCEPT !.pc = "fast", !.pcb = Pool.list["active"]]
  BY DEF tcp_tmr, Pool
<1>2. Pool.list["active"] \in On(Pool, "active") \cup {NoBlock} /\ Pool.list["active"] \in Opt
  BY PoolTypes, HeadOf
<1>3. walk.prev = NoBlock /\ ~walk.cut /\ walk \in WalkType
  BY <1>1 DEF PoolInv, WalkRight
<1>4. /\ walk' \in WalkType /\ walk'.pc = "fast" /\ walk'.pcb = Pool.list["active"]
      /\ walk'.prev = NoBlock /\ ~walk'.cut
  BY <1>1, <1>2, <1>3 DEF WalkType
<1>5. WalkRight(Pool, walk')
  BY <1>2, <1>4 DEF WalkRight
<1> QED  BY <1>1, <1>5 DEF PoolInv

LEMMA FastVisitRight ==
  ASSUME PoolInv, FastVisit
  PROVE  PoolInv'
<1> USE DEF Lists
<1>1. PICK s \in Callback(Pool, walk.pcb) :
        SetPool(s) /\ walk' = [walk EXCEPT !.pcb = s.pcb[walk.pcb].next]
  BY DEF FastVisit
<1>2. PICK b : b = walk.pcb
  OBVIOUS
<1>3. b \in On(Pool, "active") /\ walk.pc = "fast" /\ walk.prev = NoBlock /\ ~walk.cut
  BY <1>2 DEF FastVisit, PoolInv, WalkRight
<1>4. SoundPool(s, {}) /\ OffOrSame(Pool, s, b)
  BY <1>1, <1>2, <1>3, PoolTypes, CallbackSound
<1>5. Pool' = s /\ SoundPool(Pool', {})
  BY <1>1, <1>4, SetSound
<1>6. b \in Blocks /\ Pool.pcb[b].next \in On(Pool, "active") \cup {NoBlock}
  BY <1>3, PoolTypes, RestOf
<1>7. s.pcb[b].next \in On(s, "active") \cup {NoBlock}
  <2>1. CASE s.list = Pool.list /\ \A c \in Blocks : s.pcb[c].next = Pool.pcb[c].next
    <3>1. \A l \in Lists : \A c \in On(Pool, l) : s.pcb[c].next = Pool.pcb[c].next
      BY <2>1, OnIn, PoolTypes
    <3>2. On(s, "active") = On(Pool, "active")
      BY <1>4, <2>1, <3>1, PoolTypes, LinedSame DEF SoundPool
    <3> QED  BY <1>6, <2>1, <3>2
  <2> QED  BY <1>4, <2>1 DEF OffOrSame
<1>8. s.pcb[b].next \in Opt
  BY <1>4, <1>6, NextIn DEF SoundPool
<1>9. /\ walk' \in WalkType /\ walk'.pc = "fast" /\ walk'.pcb = s.pcb[b].next
      /\ walk'.prev = NoBlock /\ ~walk'.cut
  BY <1>1, <1>2, <1>3, <1>8, PoolTypes DEF WalkType
<1>10. WalkRight(s, walk')
  BY <1>7, <1>9 DEF WalkRight
<1> QED  BY <1>5, <1>10 DEF PoolInv

LEMMA FastDoneRight ==
  ASSUME PoolInv, FastDone
  PROVE  PoolInv'
<1> USE DEF Lists
<1>1. /\ walk.pc = "fast" /\ walk.pcb = NoBlock /\ walk.prev = NoBlock /\ ~walk.cut
      /\ Pool'.list = Pool.list /\ Pool'.free = Pool.free /\ Pool'.mine = Pool.mine
      /\ Pool'.pcb = pcbs'
      /\ Pool' = [pcb |-> pcbs', list |-> Pool.list, free |-> Pool.free, mine |-> Pool.mine]
  BY DEF FastDone, PoolInv, WalkRight, Pool
<1>2. pcbs \in [Blocks -> BlockType] /\ Pool.pcb = pcbs
  BY PoolTypes DEF PoolState
<1>3. /\ pcbs' \in [Blocks -> BlockType]
      /\ \A c \in Blocks : pcbs'[c].state = pcbs[c].state /\ pcbs'[c].next = pcbs[c].next
  <2>1. CASE walk.odd
    BY <1>2, <2>1 DEF FastDone
  <2>2. CASE ~walk.odd
    <3>1. pcbs' = [b \in Blocks |-> IF b \in ToSet(freepcbs) THEN pcbs[b] ELSE Older(pcbs[b])]
      BY <2>2 DEF FastDone
    <3>2. \A c \in Blocks : /\ pcbs'[c] \in BlockType /\ pcbs'[c].state = pcbs[c].state
                            /\ pcbs'[c].next = pcbs[c].next
      BY <1>2, <3>1, OlderIs
    <3> QED  BY <3>1, <3>2
  <2> QED  BY <2>1, <2>2
<1>4. Pool' \in PoolState
  BY <1>1, <1>3, PoolTypes DEF PoolState
<1>5. SoundPool(Pool', {}) /\ \A l \in Lists : On(Pool', l) = On(Pool, l)
  BY <1>1, <1>2, <1>3, <1>4, PoolTypes, AgedSound
<1>6. WalkRight(Pool', walk')
  <2>1. CASE walk.odd
    <3>1. walk' = [Idle EXCEPT !.odd = FALSE]
      BY <2>1 DEF FastDone
    <3>2. /\ walk' \in WalkType /\ walk'.pc = "idle" /\ walk'.pcb = NoBlock
          /\ walk'.prev = NoBlock /\ ~walk'.cut
      BY <3>1 DEF Idle, WalkType, Opt
    <3> QED  BY <3>2 DEF WalkRight
  <2>2. CASE ~walk.odd
    <3>1. walk' = [walk EXCEPT !.pc = "slow", !.odd = TRUE, !.pcb = Pool.list["active"],
                               !.due = On(Pool, "active")]
      BY <2>2 DEF FastDone, Pool
    <3>2. PICK h : h = Pool.list["active"]
      OBVIOUS
    <3>3. /\ h \in Opt /\ h = Pool'.list["active"] /\ h \in On(Pool', "active") \cup {NoBlock}
          /\ On(Pool, "active") = From(Pool', h) /\ On(Pool, "active") \in SUBSET Blocks
          /\ Before(Pool', "active", NoBlock, h)
      BY <1>1, <1>5, <3>2, HeadOf
    <3>4. /\ walk' \in WalkType /\ walk'.pc = "slow" /\ walk'.pcb = h /\ walk'.prev = NoBlock
          /\ walk'.due = On(Pool, "active") /\ ~walk'.cut
      BY <1>1, <3>1, <3>2, <3>3, PoolTypes DEF WalkType
    <3> QED  BY <3>3, <3>4 DEF WalkRight
  <2> QED  BY <2>1, <2>2
<1> QED  BY <1>5, <1>6 DEF PoolInv

LEMMA SlowRemoveRight ==
  ASSUME PoolInv, SlowRemove, Reconnects = FALSE
  PROVE  PoolInv'
<1> USE DEF Lists
<1>1. PICK b : b = walk.pcb
  OBVIOUS
<1>2. PICK off : off = Unlink(Pool, "active", walk.prev, b)
  OBVIOUS
<1>3. /\ b # NoBlock /\ walk.pc = "slow"
      /\ SetPool([Free([off EXCEPT !.mine = @ \ {b}], b) EXCEPT !.pcb[b].state = "CLOSED"])
      /\ walk' = [walk EXCEPT !.pcb = [off EXCEPT !.mine = @ \ {b}].pcb[b].next, !.due = @ \ {b}]
  <2>1. ErrorCallback([off EXCEPT !.mine = @ \ {b}], b) = {[off EXCEPT !.mine = @ \ {b}]}
    BY DEF ErrorCallback
  <2> QED  BY <1>1, <1>2, <2>1 DEF SlowRemove
<1>4. /\ b \in On(Pool, "active") /\ Before(Pool, "active", walk.prev, b) /\ walk.prev \in Opt
      /\ ~walk.cut /\ walk.due = From(Pool, b) /\ walk \in WalkType
  BY <1>1, <1>3 DEF PoolInv, WalkRight, WalkType
<1>5. Pool \in PoolState /\ Lined(Pool)
  BY PoolTypes DEF SoundPool
<1>6. PICK n : n = Pool.pcb[b].next
  OBVIOUS
<1>7. /\ Alike(Pool, off) /\ Without(Pool, off, "active", b) /\ off.pcb[b].next = n
      /\ Before(off, "active", walk.prev, n)
      /\ From(off, n) = From(Pool, b) \ {b} /\ n \in On(off, "active") \cup {NoBlock}
  BY <1>2, <1>4, <1>5, <1>6, UnlinkTakes
<1>8. b \in Blocks /\ b \notin ToSet(Pool.free) /\ Places(Pool, b) \subseteq {"active"} /\ n \in Opt
  BY <1>4, <1>6, PoolTypes, Listed, RestOf
<1>9. SoundPool(off, {b})
  BY <1>7, <1>8, PoolTypes, OffSound
<1>10. PICK t : t = [Free([off EXCEPT !.mine = @ \ {b}], b) EXCEPT !.pcb[b].state = "CLOSED"]
  OBVIOUS
<1>11. Freed(off, t, b) /\ [off EXCEPT !.mine = @ \ {b}].pcb[b].next = n
  <2>1. off = [pcb |-> off.pcb, list |-> off.list, free |-> off.free, mine |-> off.mine]
    BY <1>9, FieldsOf DEF SoundPool
  <2> QED  BY <1>7, <1>10, <2>1 DEF Freed, Free
<1>12. /\ SoundPool(t, {}) /\ t.list = off.list /\ (\A l \in Lists : On(t, l) = On(off, l))
       /\ \A c \in Blocks : t.pcb[c].next = off.pcb[c].next
  BY <1>8, <1>9, <1>11, FreedSound
<1>13. Pool' = t /\ SoundPool(Pool', {})
  BY <1>3, <1>10, <1>12, SetSound
<1>14. From(t, n) = From(Pool, b) \ {b}
  BY <1>7, <1>8, <1>9, <1>12, FromSame DEF From, SoundPool
<1>15. Before(t, "active", walk.prev, n) /\ n \in On(t, "active") \cup {NoBlock}
  <2>1. On(t, "active") \in SUBSET Blocks
    BY <1>12, OnIn DEF SoundPool
  <2> QED  BY <1>7, <1>12, <2>1 DEF Before
<1>16. /\ walk' \in WalkType /\ walk'.pc = "slow" /\ walk'.pcb = n /\ walk'.prev = walk.prev
       /\ walk'.due = From(Pool, b) \ {b} /\ ~walk'.cut
  BY <1>3, <1>4, <1>8, <1>11 DEF WalkType
<1>17. WalkRight(t, walk')
  BY <1>14, <1>15, <1>16 DEF WalkRight
<1> QED  BY <1>13, <1>17 DEF PoolInv

LEMMA SlowKeepRight ==
  ASSUME PoolInv, SlowKeep
  PROVE  PoolInv'
<1> USE DEF Lists
<1>1. PICK b : b = walk.pcb
  OBVIOUS
<1>2. PICK s \in Callback(Pool, b) :
        /\ SetPool(s)
        /\ walk' = [walk EXCEPT !.prev = b, !.pcb = s.pcb[b].next, !.due = @ \ {b},
                                !.cut = @ \/ b \notin On(s, "active")]
  BY <1>1 DEF SlowKeep, NextVisit
<1>3. /\ b \in On(Pool, "active") /\ walk.pc = "slow" /\ walk \in WalkType
      /\ ~walk.cut /\ walk.due = From(Pool, b)
  BY <1>1 DEF SlowKeep, PoolInv, WalkRight
<1>4. SoundPool(s, {}) /\ OffOrSame(Pool, s, b)
  BY <1>2, <1>3, PoolTypes, CallbackSound
<1>5. Pool' = s /\ SoundPool(Pool', {})
  BY <1>2, <1>4, SetSound
<1>6. PICK n : n = s.pcb[b].next
  OBVIOUS
<1>7. b \in Blocks /\ b # NoBlock /\ n \in Opt
  BY <1>3, <1>4, <1>6, PoolTypes, RestOf, NextIn DEF SoundPool
<1>8. /\ walk' \in WalkType /\ walk'.pc = "slow" /\ walk'.pcb = n /\ walk'.prev = b
      /\ walk'.due = From(Pool, b) \ {b} /\ walk'.cut = (b \notin On(s, "active"))
  BY <1>2, <1>3, <1>6, <1>7 DEF WalkType, Opt
<1>9. CASE b \in On(s, "active")
  <2>1. n \in On(s, "active") \cup {NoBlock} /\ From(s, n) = From(s, b) \ {b}
    BY <1>4, <1>6, <1>9, RestOf
  <2>2. From(s, b) = From(Pool, b)
    BY <1>4, <1>7, <1>9, PoolTypes, FromSame DEF From, Opt, SoundPool, OffOrSame
  <2>3. Before(s, "active", b, n)
    BY <1>6, <1>7, <1>9 DEF Before
  <2> QED  BY <1>5, <1>8, <1>9, <2>1, <2>2, <2>3 DEF PoolInv, WalkRight
<1>10. CASE b \notin On(s, "active")
  <2>1. n = NoBlock
    <3>1. CASE s.list = Pool.list /\ \A c \in Blocks : s.pcb[c].next = Pool.pcb[c].next
      <4>1. \A l \in Lists : \A c \in On(Pool, l) : s.pcb[c].next = Pool.pcb[c].next
        BY <3>1, OnIn, PoolTypes
      <4>2. On(s, "active") = On(Pool, "active")
        BY <1>4, <3>1, <4>1, PoolTypes, LinedSame DEF SoundPool
      <4> QED  BY <1>3, <1>10, <4>2
    <3> QED  BY <1>4, <1>6, <3>1 DEF OffOrSame
  <2>2. WalkRight(s, walk')
    BY <1>8, <1>10, <2>1 DEF WalkRight
  <2> QED  BY <1>5, <2>2 DEF PoolInv
<1> QED  BY <1>9, <1>10

LEMMA SlowDoneRight ==
  ASSUME PoolInv, SlowDone
  PROVE  PoolInv'
<1> USE DEF Lists
<1>1. Pool' = Pool /\ walk' = [Idle EXCEPT !.odd = walk.odd, !.pc = "tw", !.pcb = Pool.list["tw"]]
  BY DEF SlowDone, Pool
<1>2. PICK h : h = Pool.list["tw"]
  OBVIOUS
<1>3. h \in Opt /\ h \in On(Pool, "tw") \cup {NoBlock} /\ Before(Pool, "tw", NoBlock, h)
  BY <1>2, PoolTypes, HeadOf
<1>4. walk.odd \in BOOLEAN /\ NoBlock \in Opt
  BY PoolTypes DEF WalkType, Opt
<1>5. walk' \in WalkType /\ walk'.pc = "tw" /\ walk'.pcb = h /\ walk'.prev = NoBlock
  BY <1>1, <1>2, <1>3, <1>4 DEF WalkType, Idle
<1>6. WalkRight(Pool, walk')
  BY <1>3, <1>5 DEF WalkRight
<1> QED  BY <1>1, <1>6 DEF PoolInv

LEMMA TwRemoveRight ==
  ASSUME PoolInv, TwRemove
  PROVE  PoolInv'
<1> USE DEF Lists
<1>1. PICK b : b = walk.pcb
  OBVIOUS
<1>2. PICK off : off = Unlink(Pool, "tw", walk.prev, b)
  OBVIOUS
<1>3. PICK t : t = [Free(off, b) EXCEPT !.pcb[b].state = "CLOSED"]
  OBVIOUS
<1>4. PICK n : n = Pool.pcb[b].next
  OBVIOUS
<1>5. /\ b # NoBlock /\ walk.pc = "tw" /\ SetPool(t) /\ walk' = [walk EXCEPT !.pcb = n]
  BY <1>1, <1>2, <1>3, <1>4 DEF TwRemove, Pool
<1>6. /\ b \in On(Pool, "tw") /\ Before(Pool, "tw", walk.prev, b) /\ walk.prev \in Opt
      /\ walk \in WalkType
  BY <1>1, <1>5 DEF PoolInv, WalkRight, WalkType
<1>7. Pool \in PoolState /\ Lined(Pool)
  BY PoolTypes DEF SoundPool
<1>8. /\ Alike(Pool, off) /\ Without(Pool, off, "tw", b)
      /\ Before(off, "tw", walk.prev, n) /\ n \in On(off, "tw") \cup {NoBlock}
  BY <1>2, <1>4, <1>6, <1>7, UnlinkTakes
<1>9. /\ b \in Blocks /\ b \notin ToSet(Pool.free) /\ Places(Pool, b) \subseteq {"tw"} /\ n \in Opt
      /\ b \notin Pool.mine
  BY <1>4, <1>6, PoolTypes, Listed, RestOf
<1>10. SoundPool(off, {b})
  BY <1>8, <1>9, PoolTypes, OffSound
<1>11. Freed(off, t, b)
  <2>1. off = [pcb |-> off.pcb, list |-> off.list, free |-> off.free, mine |-> off.mine]
    BY <1>10, FieldsOf DEF SoundPool
  <2>2. off.mine \ {b} = off.mine
    BY <1>8, <1>9 DEF Alike
  <2>3. off.pcb \in [Blocks -> BlockType]
    BY <1>10 DEF SoundPool, PoolState
  <2> QED  BY <1>3, <1>9, <2>1, <2>2, <2>3 DEF Freed, Free
<1>12. /\ SoundPool(t, {}) /\ t.list = off.list /\ (\A l \in Lists : On(t, l) = On(off, l))
       /\ \A c \in Blocks : t.pcb[c].next = off.pcb[c].next
  BY <1>9, <1>10, <1>11, FreedSound
<1>13. Pool' = t /\ SoundPool(Pool', {})
  BY <1>5, <1>12, SetSound
<1>14. Before(t, "tw", walk.prev, n) /\ n \in On(t, "tw") \cup {NoBlock}
  <2>1. On(t, "tw") \in SUBSET Blocks
    BY <1>12, OnIn DEF SoundPool
  <2> QED  BY <1>8, <1>12, <2>1 DEF Before
<1>15. walk' \in WalkType /\ walk'.pc = "tw" /\ walk'.pcb = n /\ walk'.prev = walk.prev
  BY <1>5, <1>6, <1>9 DEF WalkType
<1>16. WalkRight(t, walk')
  BY <1>14, <1>15 DEF WalkRight
<1> QED  BY <1>13, <1>16 DEF PoolInv

LEMMA TwKeepRight ==
  ASSUME PoolInv, TwKeep
  PROVE  PoolInv'
<1> USE DEF Lists
<1>1. PICK b : b = walk.pcb
  OBVIOUS
<1>2. PICK n : n = Pool.pcb[b].next
  OBVIOUS
<1>3. /\ b # NoBlock /\ walk.pc = "tw" /\ Pool' = Pool
      /\ walk' = [walk EXCEPT !.prev = b, !.pcb = n]
  BY <1>1, <1>2 DEF TwKeep, Pool
<1>4. b \in On(Pool, "tw") /\ walk \in WalkType
  BY <1>1, <1>3 DEF PoolInv, WalkRight
<1>5. b \in Blocks /\ n \in Opt /\ n \in On(Pool, "tw") \cup {NoBlock} /\ b \in Opt
  BY <1>2, <1>4, PoolTypes, RestOf DEF Opt
<1>6. walk' \in WalkType /\ walk'.pc = "tw" /\ walk'.pcb = n /\ walk'.prev = b
  BY <1>3, <1>4, <1>5 DEF WalkType
<1>7. WalkRight(Pool, walk')
  BY <1>2, <1>3, <1>4, <1>5, <1>6 DEF WalkRight, Before
<1> QED  BY <1>3, <1>7 DEF PoolInv

LEMMA TwDoneRight ==
  ASSUME PoolInv, TwDone
  PROVE  PoolInv'
<1>1. Pool' = Pool /\ walk' = [Idle EXCEPT !.odd = walk.odd]
  BY DEF TwDone, Pool
<1>2. walk.odd \in BOOLEAN
  BY PoolTypes DEF WalkType
<1>3. walk' \in WalkType /\ walk'.pc = "idle" /\ walk'.pcb = NoBlock /\ walk'.prev = NoBlock /\ ~walk'.cut
  BY <1>1, <1>2 DEF WalkType, Idle, Opt
<1>4. WalkRight(Pool, walk')
  BY <1>3 DEF WalkRight
<1> QED  BY <1>1, <1>4 DEF PoolInv

-----------------------------------------------------------------------------
(* The invariant *)

(* Everything is free.                                                        *)
LEMMA AllFree ==
  LET f == SetToSeq(Blocks) IN f \in Seq(Blocks) /\ IsInjective(f) /\ ToSet(f) = Blocks
<1> DEFINE n == Cardinality(Blocks)
           f == SetToSeq(Blocks)
<1>1. n \in Nat /\ ExistsBijection(1..n, Blocks)
  BY PoolAssumption, FS_CardinalityType
<1>2. \E g \in [1..n -> Blocks] : IsInjective(g)
  <2>1. PICK g \in Bijection(1..n, Blocks) : TRUE
    BY <1>1 DEF ExistsBijection
  <2> QED  BY <2>1 DEF Bijection, Injection, IsInjective
<1>3. f \in [1..n -> Blocks] /\ IsInjective(f)
  BY <1>2 DEF SetToSeq
<1> HIDE DEF f
<1>4. f \in Seq(Blocks) /\ DOMAIN f = 1..n
  BY <1>1, <1>3
<1>5. ToSet(f) = Blocks
  <2>1. ToSet(f) \subseteq Blocks /\ IsFiniteSet(ToSet(f))
    BY <1>3, <1>4, PoolAssumption, FS_Subset DEF ToSet
  <2>2. f \in Bijection(1..n, ToSet(f))
    BY <1>3, <1>4 DEF Bijection, Injection, Surjection, IsInjective, ToSet
  <2>3. Cardinality(ToSet(f)) = n
    BY <1>1, <2>2, FS_CountingElements DEF ExistsBijection
  <2> QED  BY <2>1, <2>3, PoolAssumption, FS_Subset
<1> QED  BY <1>3, <1>4, <1>5 DEF f

LEMMA PoolBegins ==
  ASSUME PoolInit
  PROVE  PoolInv
<1>1. /\ Pool.pcb = [b \in Blocks |-> Fresh] /\ Pool.list = [l \in Lists |-> NoBlock]
      /\ Pool.free = SetToSeq(Blocks) /\ Pool.mine = {} /\ walk = Idle
      /\ Pool = [pcb |-> Pool.pcb, list |-> Pool.list, free |-> Pool.free, mine |-> Pool.mine]
  BY DEF PoolInit, Pool
<1>2. Fresh \in BlockType /\ NoBlock \in Opt
  BY PoolAssumption DEF Fresh, BlockType, States, Opt
<1>3. Pool.free \in Seq(Blocks) /\ IsInjective(Pool.free) /\ ToSet(Pool.free) = Blocks
  BY <1>1, AllFree
<1>4. Pool \in PoolState
  BY <1>1, <1>2, <1>3 DEF PoolState
<1>5. \A l \in Lists : On(Pool, l) = {} /\ Pool.list[l] = NoBlock
  BY <1>1, FromNone DEF On
<1>6. Lined(Pool)
  BY <1>5, FromNone DEF Lined, IsList
<1>7. \A b \in Blocks : PlacedAt(Pool, {}, b)
  BY <1>1, <1>3, <1>5 DEF PlacedAt, HasPlace, Places, Fresh
<1>8. WalkRight(Pool, walk)
  BY <1>1 DEF WalkRight, WalkType, Idle, Opt
<1> QED  BY <1>3, <1>4, <1>6, <1>7, <1>8 DEF PoolInv, SoundPool

LEMMA PoolStep ==
  ASSUME PoolInv, Reconnects = FALSE, [PoolNext]_poolVars
  PROVE  PoolInv'
<1>1. CASE Call
  <2>1. SoundPool(Pool', {}) /\ walk' = walk /\ walk.pc = "idle"
    BY <1>1, PoolTypes, CallsSound
  <2>2. WalkRight(Pool', walk)
    BY <2>1 DEF PoolInv, WalkRight
  <2> QED  BY <2>1, <2>2 DEF PoolInv
<1>2. CASE Timer
  BY <1>2, tcp_tmrRight, FastVisitRight, FastDoneRight, SlowRemoveRight, SlowKeepRight,
     SlowDoneRight, TwRemoveRight, TwKeepRight, TwDoneRight DEF Timer
<1>3. CASE UNCHANGED poolVars
  <2>1. Pool' = Pool /\ walk' = walk
    BY <1>3 DEF poolVars, Pool
  <2> QED  BY <2>1 DEF PoolInv
<1> QED  BY <1>1, <1>2, <1>3 DEF PoolNext, Call

LEMMA PoolInvGives ==
  ASSUME PoolInv
  PROVE  PoolSound
<1> USE DEF Lists
<1>1. /\ Pool \in PoolState /\ SoundPool(Pool, {}) /\ walk \in WalkType
      /\ Pool.pcb = pcbs /\ Pool.list = pcblists /\ Pool.free = freepcbs /\ Pool.mine = handles
      /\ WalkRight(Pool, walk)
  BY PoolTypes DEF PoolInv
<1>2. \A b \in Blocks : PlacedAt(Pool, {}, b) /\ pcbs[b].state \in States
  BY <1>1, NextIn DEF SoundPool
<1>3. EachBlockHasItsPlace
  <2>1. ASSUME NEW b \in Blocks
        PROVE  LET places == {l \in Lists : b \in On(Pool, l)}
               IN  CASE b \in ToSet(freepcbs)          -> places = {}
                     [] pcbs[b].state \in ActiveStates -> places = {"active"}
                     [] pcbs[b].state = "TIME_WAIT"    -> places = {"tw"}
                     [] OTHER -> b \in handles /\ places \subseteq {"bound"}
    <3>1. PICK p : p = Places(Pool, b)
      OBVIOUS
    <3>2. HasPlace(pcbs[b].state, p, b \in ToSet(freepcbs), b \in handles, FALSE) /\ pcbs[b].state \in States
      BY <1>1, <1>2, <3>1 DEF PlacedAt, HasPlace
    <3>3. CASE b \in ToSet(freepcbs)
      BY <3>1, <3>2, <3>3 DEF HasPlace, Places, ActiveStates
    <3>4. CASE b \notin ToSet(freepcbs) /\ pcbs[b].state \in ActiveStates
      BY <3>1, <3>2, <3>4 DEF HasPlace, Places, ActiveStates
    <3>5. CASE b \notin ToSet(freepcbs) /\ pcbs[b].state = "TIME_WAIT"
      BY <3>1, <3>2, <3>5 DEF HasPlace, Places, ActiveStates
    <3>6. CASE b \notin ToSet(freepcbs) /\ pcbs[b].state = "CLOSED"
      BY <3>1, <3>2, <3>6 DEF HasPlace, Places, ActiveStates
    <3> QED  BY <3>2, <3>3, <3>4, <3>5, <3>6 DEF States
  <2> QED  BY <1>1, <2>1 DEF EachBlockHasItsPlace, SoundPool
<1>4. HandlesLive
  BY <1>1, KnownTo DEF HandlesLive
<1>5. WalkOnList
  BY <1>1 DEF WalkOnList, WalkRight, Before, WalkType
<1>6. EachVisitedOnce
  <2> SUFFICES ASSUME walk.pc = "slow"
               PROVE  IF walk.pcb = NoBlock THEN walk.cut \/ walk.due = {} ELSE walk.pcb \in walk.due
    BY DEF EachVisitedOnce
  <2>1. CASE walk.pcb = NoBlock
    BY <1>1, <2>1, FromNone DEF WalkRight
  <2>2. CASE walk.pcb # NoBlock
    <3>1. walk.due = From(Pool, walk.pcb) /\ walk.pcb \in Opt
      BY <1>1, <2>2 DEF WalkRight, WalkType
    <3> QED  BY <1>1, <2>2, <3>1, FromClosed
  <2> QED  BY <2>1, <2>2
<1> QED  BY <1>3, <1>4, <1>5, <1>6 DEF PoolSound, BlocksAccounted, WalkSound

-----------------------------------------------------------------------------
(* Types *)

(* The functions of the module keep the type of the pool, sound or not.       *)
LEMMA FreedTyped ==
  ASSUME NEW s \in PoolState, NEW b \in Blocks, NEW t, Freed(s, t, b)
  PROVE  t \in PoolState
<1> DEFINE p == [s.pcb EXCEPT ![b] = [s.pcb[b] EXCEPT !.state = "CLOSED"]]
           f == <<b>> \o s.free
<1>1. /\ s.pcb \in [Blocks -> BlockType] /\ s.list \in [Lists -> Opt] /\ s.free \in Seq(Blocks)
      /\ s.mine \in SUBSET Blocks
  BY DEF PoolState
<1>2. t = [pcb |-> p, list |-> s.list, free |-> f, mine |-> s.mine \ {b}]
  BY DEF Freed
<1>3. p \in [Blocks -> BlockType] /\ f \in Seq(Blocks)
  BY <1>1 DEF BlockType, States
<1> HIDE DEF p, f
<1> QED  BY <1>1, <1>2, <1>3 DEF PoolState

LEMMA RegTyped ==
  ASSUME NEW s \in PoolState, NEW l \in Lists, NEW b \in Blocks
  PROVE  Reg(s, l, b) \in PoolState
<1> SUFFICES ASSUME NEW t, t = Reg(s, l, b) PROVE t \in PoolState
  OBVIOUS
<1> DEFINE p == [s.pcb EXCEPT ![b] = [s.pcb[b] EXCEPT !.next = s.list[l]]]
           ls == [s.list EXCEPT ![l] = b]
<1>1. /\ s.pcb \in [Blocks -> BlockType] /\ s.list \in [Lists -> Opt] /\ s.free \in Seq(Blocks)
      /\ s.mine \in SUBSET Blocks /\ s.list[l] \in Opt /\ b \in Opt
      /\ s = [pcb |-> s.pcb, list |-> s.list, free |-> s.free, mine |-> s.mine]
  BY DEF PoolState, Opt
<1>2. t = [pcb |-> p, list |-> ls, free |-> s.free, mine |-> s.mine]
  BY <1>1 DEF Reg
<1>3. p \in [Blocks -> BlockType] /\ ls \in [Lists -> Opt]
  BY <1>1 DEF BlockType
<1> HIDE DEF p, ls
<1> QED  BY <1>1, <1>2, <1>3 DEF PoolState

LEMMA UnlinkTyped ==
  ASSUME NEW s \in PoolState, NEW l \in Lists, NEW b \in Blocks, NEW prev
  PROVE  Unlink(s, l, prev, b) \in PoolState
<1> SUFFICES ASSUME NEW t, t = Unlink(s, l, prev, b) PROVE t \in PoolState
  OBVIOUS
<1> DEFINE n == s.pcb[b].next
           p == [c \in Blocks |-> IF c = prev THEN [s.pcb[c] EXCEPT !.next = n] ELSE s.pcb[c]]
           ls == [s.list EXCEPT ![l] = IF prev = NoBlock THEN n ELSE s.list[l]]
<1>1. /\ s.pcb \in [Blocks -> BlockType] /\ s.list \in [Lists -> Opt] /\ s.free \in Seq(Blocks)
      /\ s.mine \in SUBSET Blocks /\ n \in Opt
      /\ s = [pcb |-> s.pcb, list |-> s.list, free |-> s.free, mine |-> s.mine]
  BY NextIn DEF PoolState
<1>2. t = [pcb |-> p, list |-> ls, free |-> s.free, mine |-> s.mine]
  BY <1>1 DEF Unlink
<1> HIDE DEF n
<1>3. p \in [Blocks -> BlockType] /\ ls \in [Lists -> Opt]
  BY <1>1 DEF BlockType
<1> HIDE DEF p, ls
<1> QED  BY <1>1, <1>2, <1>3 DEF PoolState

LEMMA StateTyped ==
  ASSUME NEW s \in PoolState, NEW b \in Blocks, NEW x \in States
  PROVE  [s EXCEPT !.pcb[b].state = x] \in PoolState
<1>1. PICK t : t = [s EXCEPT !.pcb[b].state = x]
  OBVIOUS
<1>2. StateSet(s, t, b, x, s.mine) /\ s.mine \in SUBSET Blocks
  BY <1>1, FieldsOf DEF StateSet, PoolState
<1> QED  BY <1>1, <1>2, StateIs

LEMMA RmvTyped ==
  ASSUME NEW s \in PoolState, NEW l \in Lists, NEW b \in Blocks
  PROVE  Rmv(s, l, b) \in PoolState
BY RmvIs DEF Alike

LEMMA DisposeTyped ==
  ASSUME NEW s \in PoolState, NEW l \in Lists, NEW b \in Blocks
  PROVE  Dispose(s, l, b) \in PoolState
<1>1. PICK r \in PoolState : r = Rmv(s, l, b)
  BY RmvTyped
<1>2. PICK t : t = Dispose(s, l, b)
  OBVIOUS
<1>3. Freed(r, t, b)
  <2>1. r = [pcb |-> r.pcb, list |-> r.list, free |-> r.free, mine |-> r.mine]
    BY FieldsOf
  <2>2. t = [Free(Rmv(s, l, b), b) EXCEPT !.pcb[b].state = "CLOSED", !.mine = @ \ {b}]
    BY <1>2 DEF Dispose
  <2> QED  BY <1>1, <2>1, <2>2 DEF Freed, Free
<1> QED  BY <1>2, <1>3, FreedTyped

LEMMA AbandonTyped ==
  ASSUME NEW s \in PoolState, NEW b \in Blocks
  PROVE  Abandon(s, b) \in PoolState
BY DisposeTyped DEF Abandon, Lists

LEMMA AllocTyped ==
  ASSUME NEW s \in PoolState, NEW kills \in BOOLEAN, NEW a \in Alloc(s, kills)
  PROVE  a.pool \in PoolState /\ a.pcb \in Opt
<1>1. ASSUME NEW u \in PoolState, NEW l, NEW t \in Kill(u, l)
      PROVE  t \in PoolState
  <2>1. Inactive(u, l) \subseteq Blocks
    BY DEF Inactive, On, From
  <2> QED  BY <2>1, AbandonTyped DEF Kill
<1>2. PICK t \in (IF s.free = <<>> THEN Kill(s, "tw") ELSE {s}) :
        \E u \in Killed(t, kills) : a = Handed(u)
  BY DEF Alloc, Killed, Handed
<1>3. t \in PoolState
  BY <1>1
<1>4. PICK u \in PoolState : a = Handed(u)
  BY <1>1, <1>2, <1>3 DEF Killed
<1>5. CASE u.free = <<>>
  BY <1>4, <1>5 DEF Handed, Opt
<1>6. CASE u.free # <<>>
  <2>1. PICK b : b = Head(u.free)
    OBVIOUS
  <2>2. PICK t2 : t2 = [u EXCEPT !.free = Tail(u.free), !.pcb[b] = Fresh]
    OBVIOUS
  <2>3. /\ u.pcb \in [Blocks -> BlockType] /\ u.list \in [Lists -> Opt] /\ u.free \in Seq(Blocks)
        /\ u.mine \in SUBSET Blocks
        /\ u = [pcb |-> u.pcb, list |-> u.list, free |-> u.free, mine |-> u.mine]
    BY DEF PoolState
  <2>4. b \in Blocks /\ Tail(u.free) \in Seq(Blocks)
    BY <1>6, <2>1, <2>3
  <2>5. Fresh \in BlockType
    BY PoolAssumption DEF Fresh, BlockType, States, Opt
  <2>6. t2 = [pcb |-> [u.pcb EXCEPT ![b] = Fresh], list |-> u.list, free |-> Tail(u.free),
              mine |-> u.mine]
    BY <2>2, <2>3
  <2>7. [u.pcb EXCEPT ![b] = Fresh] \in [Blocks -> BlockType]
    BY <2>3, <2>5
  <2>8. t2 \in PoolState
    BY <2>3, <2>4, <2>6, <2>7 DEF PoolState
  <2> QED  BY <1>4, <1>6, <2>1, <2>2, <2>4, <2>8 DEF Handed, Opt
<1> QED  BY <1>5, <1>6

LEMMA GivenTyped ==
  ASSUME NEW s \in PoolState, NEW b \in Blocks
  PROVE  [s EXCEPT !.mine = @ \cup {b}] \in PoolState /\ [s EXCEPT !.mine = @ \ {b}] \in PoolState
BY DEF PoolState

LEMMA NewTyped ==
  ASSUME NEW s \in PoolState, NEW t \in New(s)
  PROVE  t \in PoolState
<1>1. PICK a \in Alloc(s, TRUE) :
        t = IF a.pcb = NoBlock THEN a.pool ELSE [a.pool EXCEPT !.mine = @ \cup {a.pcb}]
  BY DEF New
<1>2. a.pool \in PoolState /\ a.pcb \in Opt
  BY AllocTyped
<1> QED  BY <1>1, <1>2, GivenTyped DEF Opt

LEMMA ConnectTyped ==
  ASSUME NEW s \in PoolState, NEW b \in Blocks
  PROVE  Connect(s, b) \in PoolState
<1>1. Rmv(s, "bound", b) \in PoolState
  BY RmvTyped DEF Lists
<1>2. PICK x \in States : x = "SYN_SENT"
  BY DEF States, ActiveStates
<1>3. [Rmv(s, "bound", b) EXCEPT !.pcb[b].state = x] \in PoolState
  BY <1>1, StateTyped
<1> QED  BY <1>2, <1>3, RegTyped DEF Connect, Lists

LEMMA CloseTyped ==
  ASSUME NEW s \in PoolState, NEW b \in Blocks, NEW sent
  PROVE  Close(s, b, sent) \in PoolState
<1>1. PICK x \in States : x = "CLOSING"
  BY DEF States, ActiveStates
<1>2. PICK t : t = [s EXCEPT !.pcb[b].state = "CLOSING", !.mine = @ \ {b}]
  OBVIOUS
<1>3. PICK M \in SUBSET Blocks : M = s.mine \ {b}
  BY DEF PoolState
<1>4. StateSet(s, t, b, x, M)
  <2>1. s = [pcb |-> s.pcb, list |-> s.list, free |-> s.free, mine |-> s.mine]
        /\ s.pcb \in [Blocks -> BlockType]
    BY DEF PoolState
  <2>2. /\ t.pcb = [s.pcb EXCEPT ![b] = [s.pcb[b] EXCEPT !.state = "CLOSING"]]
        /\ t.mine = M /\ t.list = s.list /\ t.free = s.free
        /\ t = [pcb |-> t.pcb, list |-> t.list, free |-> t.free, mine |-> t.mine]
    BY <1>2, <1>3, <2>1
  <2> QED  BY <1>1, <2>2 DEF StateSet
<1>5. t \in PoolState
  BY <1>3, <1>4, StateIs
<1>6. Dispose(s, "bound", b) \in PoolState /\ Dispose(s, "active", b) \in PoolState
  BY DisposeTyped DEF Lists
<1>7. Close(s, b, sent) \in {Dispose(s, "bound", b), Dispose(s, "active", b), t, s}
  BY <1>2 DEF Close
<1> QED  BY <1>5, <1>6, <1>7

LEMMA NewAndConnectTyped ==
  ASSUME NEW s \in PoolState, NEW t \in NewAndConnect(s)
  PROVE  t \in PoolState
<1>1. PICK a \in Alloc(s, TRUE) :
        t = IF a.pcb = NoBlock THEN a.pool
            ELSE Connect([a.pool EXCEPT !.mine = @ \cup {a.pcb}], a.pcb)
  BY DEF NewAndConnect
<1>2. a.pool \in PoolState /\ a.pcb \in Opt
  BY AllocTyped
<1>3. CASE a.pcb \in Blocks
  <2>1. PICK u \in PoolState : u = [a.pool EXCEPT !.mine = @ \cup {a.pcb}]
    BY <1>2, <1>3, GivenTyped
  <2> QED  BY <1>1, <1>2, <1>3, <2>1, ConnectTyped
<1> QED  BY <1>1, <1>2, <1>3 DEF Opt

LEMMA OutcomesTyped ==
  ASSUME NEW s \in PoolState, NEW b \in Blocks, NEW t \in Outcomes(s, b)
  PROVE  t \in PoolState
<1>1. CASE t = s \/ t = Dispose(s, "active", b)
  BY <1>1, DisposeTyped DEF Lists
<1>2. CASE t = [s EXCEPT !.pcb[b].state = "OPEN"]
  <2>1. PICK x \in States : x = "OPEN"
    BY DEF States, ActiveStates
  <2> QED  BY <1>2, <2>1, StateTyped
<1>3. CASE t = [s EXCEPT !.pcb[b].state = "OPEN", !.mine = @ \cup {b}]
  <2>1. PICK x \in States : x = "OPEN"
    BY DEF States, ActiveStates
  <2>2. PICK M \in SUBSET Blocks : M = s.mine \cup {b}
    BY DEF PoolState
  <2>3. StateSet(s, t, b, x, M)
    <3>1. s = [pcb |-> s.pcb, list |-> s.list, free |-> s.free, mine |-> s.mine]
          /\ s.pcb \in [Blocks -> BlockType]
      BY DEF PoolState
    <3>2. /\ t.pcb = [s.pcb EXCEPT ![b] = [s.pcb[b] EXCEPT !.state = "OPEN"]]
          /\ t.mine = M /\ t.list = s.list /\ t.free = s.free
          /\ t = [pcb |-> t.pcb, list |-> t.list, free |-> t.free, mine |-> t.mine]
      BY <1>3, <2>2, <3>1
    <3> QED  BY <2>1, <3>2 DEF StateSet
  <2> QED  BY <2>2, <2>3, StateIs
<1>4. CASE t = ToTimeWait(s, b)
  <2>1. Rmv(s, "active", b) \in PoolState
    BY RmvTyped DEF Lists
  <2>2. PICK x \in States : x = "TIME_WAIT"
    BY DEF States
  <2>3. [Rmv(s, "active", b) EXCEPT !.pcb[b].state = x] \in PoolState
    BY <2>1, <2>2, StateTyped
  <2> QED  BY <1>4, <2>2, <2>3, RegTyped DEF ToTimeWait, Lists
<1> QED  BY <1>1, <1>2, <1>3, <1>4 DEF Outcomes

LEMMA CallbackTyped ==
  ASSUME NEW s \in PoolState, NEW b \in Blocks, NEW t \in Callback(s, b) \cup ErrorCallback(s, b)
  PROVE  t \in PoolState
BY AbandonTyped, CloseTyped, NewAndConnectTyped DEF Callback, ErrorCallback

PoolTyped == Pool \in PoolState /\ walk \in WalkType

LEMMA OnTyped == \A s, l : On(s, l) \in SUBSET Blocks
BY DEF On, From

LEMMA CallsTyped ==
  ASSUME PoolTyped, Call
  PROVE  PoolTyped'
<1> DEFINE s == Pool
<1> USE DEF Lists
<1>0. s \in PoolState /\ s.mine = handles /\ handles \in SUBSET Blocks /\ walk \in WalkType
      /\ Unused(s) \in SUBSET Blocks
  BY DEF PoolTyped, PoolState, Pool, Unused
<1> SUFFICES \E t \in PoolState : SetPool(t) /\ walk' = walk
  BY <1>0, PoolIs DEF PoolTyped
<1>1. CASE tcp_new
  BY <1>0, <1>1, NewTyped DEF tcp_new
<1>2. CASE tcp_bind
  BY <1>0, <1>2, RegTyped DEF tcp_bind
<1>3. CASE tcp_listen
  BY <1>0, <1>3, OnTyped, DisposeTyped DEF tcp_listen
<1>4. CASE tcp_connect
  BY <1>0, <1>4, ConnectTyped DEF tcp_connect
<1>5. CASE tcp_close
  BY <1>0, <1>5, CloseTyped DEF tcp_close
<1>6. CASE tcp_abort
  BY <1>0, <1>6, AbandonTyped DEF tcp_abort
<1>7. CASE tcp_input
  <2>1. PICK b \in On(s, "active") :
          \E t \in Outcomes([ToFront(s, b) EXCEPT !.pcb[b].age = 0], b) : SetPool(t)
    BY <1>7 DEF tcp_input
  <2>2. b \in Blocks
    BY OnTyped
  <2>3. PICK r \in PoolState : r = ToFront(s, b)
    BY <1>0, <2>2, RmvTyped, RegTyped DEF ToFront
  <2>4. PICK u : u = [r EXCEPT !.pcb[b].age = 0]
    OBVIOUS
  <2>5. u \in PoolState
    BY <2>2, <2>4, AgeIs
  <2>6. PICK t \in Outcomes(u, b) : SetPool(t)
    BY <2>1, <2>3, <2>4
  <2> QED  BY <1>7, <2>2, <2>5, <2>6, OutcomesTyped DEF tcp_input
<1>8. CASE tcp_listen_input
  <2>1. PICK kills \in BOOLEAN : \E a \in Alloc(s, kills), queued \in BOOLEAN :
          LET r == Reg([a.pool EXCEPT !.pcb[a.pcb].state = "SYN_RCVD"], "active", a.pcb)
          IN  SetPool(IF a.pcb = NoBlock THEN a.pool ELSE IF queued THEN r ELSE Abandon(r, a.pcb))
    BY <1>8 DEF tcp_listen_input
  <2>2. PICK a \in Alloc(s, kills), queued \in BOOLEAN :
          LET r == Reg([a.pool EXCEPT !.pcb[a.pcb].state = "SYN_RCVD"], "active", a.pcb)
          IN  SetPool(IF a.pcb = NoBlock THEN a.pool ELSE IF queued THEN r ELSE Abandon(r, a.pcb))
    BY <2>1
  <2>3. a.pool \in PoolState /\ a.pcb \in Opt
    BY <1>0, AllocTyped
  <2>4. CASE a.pcb = NoBlock
    BY <1>8, <2>2, <2>3, <2>4 DEF tcp_listen_input
  <2>5. CASE a.pcb # NoBlock
    <3>1. PICK b \in Blocks, u \in PoolState : b = a.pcb /\ u = a.pool
      BY <2>3, <2>5 DEF Opt
    <3>2. PICK x \in States : x = "SYN_RCVD"
      BY DEF States, ActiveStates
    <3>3. PICK v \in PoolState : v = [u EXCEPT !.pcb[b].state = "SYN_RCVD"]
      BY <3>2, StateTyped
    <3>4. PICK r \in PoolState : r = Reg(v, "active", b)
      BY RegTyped
    <3>5. SetPool(r) \/ SetPool(Abandon(r, b))
      BY <2>2, <2>5, <3>1, <3>3, <3>4
    <3>6. Abandon(r, b) \in PoolState
      BY AbandonTyped
    <3> QED  BY <1>8, <3>5, <3>6 DEF tcp_listen_input
  <2> QED  BY <2>4, <2>5
<1>9. CASE tcp_timewait_input
  <2>1. PICK b \in On(s, "tw") : SetPool([s EXCEPT !.pcb[b].age = 0])
    BY <1>9 DEF tcp_timewait_input
  <2>2. PICK t : t = [s EXCEPT !.pcb[b].age = 0]
    OBVIOUS
  <2>3. t \in PoolState
    BY <1>0, <2>2, OnTyped, AgeIs
  <2> QED  BY <1>9, <2>1, <2>2, <2>3 DEF tcp_timewait_input
<1> QED  BY <1>1, <1>2, <1>3, <1>4, <1>5, <1>6, <1>7, <1>8, <1>9 DEF Call

LEMMA TimerTyped ==
  ASSUME PoolTyped, Timer
  PROVE  PoolTyped'
<1> USE DEF Lists
<1>0. /\ Pool \in PoolState /\ walk \in WalkType /\ Pool.list = pcblists /\ Pool.pcb = pcbs
      /\ pcbs \in [Blocks -> BlockType] /\ pcblists \in [Lists -> Opt] /\ NoBlock \in Opt
      /\ Blocks \subseteq Opt
      /\ walk.pcb # NoBlock => walk.pcb \in Blocks
  BY DEF PoolTyped, PoolState, Pool, WalkType, Opt
<1>1. CASE tcp_tmr
  <2>1. Pool' = Pool
    BY <1>1 DEF tcp_tmr, Pool
  <2>2. walk' \in WalkType
    BY <1>0, <1>1 DEF tcp_tmr, WalkType
  <2> QED  BY <2>1, <2>2 DEF PoolTyped
<1>2. CASE FastVisit
  <2>1. PICK s \in Callback(Pool, walk.pcb) :
          SetPool(s) /\ walk' = [walk EXCEPT !.pcb = s.pcb[walk.pcb].next]
    BY <1>2 DEF FastVisit
  <2>2. walk.pcb \in Blocks
    BY <1>0, <1>2 DEF FastVisit
  <2>3. s \in PoolState /\ s.pcb[walk.pcb].next \in Opt
    BY <1>0, <2>2, CallbackTyped, NextIn
  <2>4. walk' \in WalkType
    BY <1>0, <2>1, <2>3 DEF WalkType
  <2> QED  BY <2>1, <2>3, <2>4, PoolIs DEF PoolTyped
<1>3. CASE FastDone
  <2>1. walk' \in WalkType
    BY <1>0, <1>3, OnTyped DEF FastDone, WalkType, Idle
  <2>2. pcbs' \in [Blocks -> BlockType]
    BY <1>0, <1>3, OlderIs DEF FastDone
  <2>3. Pool' = [pcb |-> pcbs', list |-> pcblists, free |-> freepcbs, mine |-> handles]
    BY <1>3 DEF FastDone, Pool
  <2>4. Pool' \in PoolState
    BY <1>0, <2>2, <2>3 DEF PoolState, Pool
  <2> QED  BY <2>1, <2>4 DEF PoolTyped
<1>4. CASE SlowRemove
  <2>1. PICK b \in Blocks : b = walk.pcb
    BY <1>0, <1>4 DEF SlowRemove
  <2>2. PICK u \in PoolState : u = Unlink(Pool, "active", walk.prev, b)
    BY <1>0, UnlinkTyped
  <2>3. PICK off \in PoolState : off = [u EXCEPT !.mine = @ \ {b}]
    BY GivenTyped
  <2>4. PICK s \in ErrorCallback(off, b) :
          /\ SetPool([Free(s, b) EXCEPT !.pcb[b].state = "CLOSED"])
          /\ walk' = [walk EXCEPT !.pcb = s.pcb[b].next, !.due = @ \ {b}]
    BY <1>4, <2>1, <2>2, <2>3 DEF SlowRemove
  <2>5. s \in PoolState /\ s.pcb[b].next \in Opt
    BY CallbackTyped, NextIn
  <2>6. PICK t : t = [Free(s, b) EXCEPT !.pcb[b].state = "CLOSED"]
    OBVIOUS
  <2>7. t \in PoolState
    <3>1. /\ s = [pcb |-> s.pcb, list |-> s.list, free |-> s.free, mine |-> s.mine]
          /\ s.pcb \in [Blocks -> BlockType] /\ s.list \in [Lists -> Opt]
          /\ s.free \in Seq(Blocks) /\ s.mine \in SUBSET Blocks
      BY <2>5 DEF PoolState
    <3>2. t = [pcb |-> [s.pcb EXCEPT ![b] = [s.pcb[b] EXCEPT !.state = "CLOSED"]],
               list |-> s.list, free |-> <<b>> \o s.free, mine |-> s.mine]
      BY <2>6, <3>1 DEF Free
    <3>3. [s.pcb EXCEPT ![b] = [s.pcb[b] EXCEPT !.state = "CLOSED"]] \in [Blocks -> BlockType]
      BY <3>1 DEF BlockType, States
    <3>4. <<b>> \o s.free \in Seq(Blocks)
      BY <3>1
    <3> QED  BY <3>1, <3>2, <3>3, <3>4 DEF PoolState
  <2>8. walk' \in WalkType
    BY <1>0, <2>4, <2>5 DEF WalkType
  <2> QED  BY <2>4, <2>6, <2>7, <2>8, PoolIs DEF PoolTyped
<1>5. CASE SlowKeep
  <2>1. PICK b \in Blocks : b = walk.pcb
    BY <1>0, <1>5 DEF SlowKeep
  <2>2. PICK s \in Callback(Pool, b) :
          /\ SetPool(s)
          /\ walk' = [walk EXCEPT !.prev = b, !.pcb = s.pcb[b].next, !.due = @ \ {b},
                                  !.cut = @ \/ b \notin On(s, "active")]
    BY <1>5, <2>1 DEF SlowKeep, NextVisit
  <2>3. s \in PoolState /\ s.pcb[b].next \in Opt
    BY <1>0, CallbackTyped, NextIn
  <2>4. walk' \in WalkType
    BY <1>0, <2>2, <2>3 DEF WalkType
  <2> QED  BY <2>2, <2>3, <2>4, PoolIs DEF PoolTyped
<1>6. CASE SlowDone \/ TwKeep \/ TwDone
  <2>1. Pool' = Pool
    BY <1>6 DEF SlowDone, TwKeep, TwDone, Pool
  <2>2. walk.pcb \in Blocks => pcbs[walk.pcb].next \in Opt
    BY <1>0, NextIn
  <2>3. walk' \in WalkType
    BY <1>0, <1>6, <2>2 DEF SlowDone, TwKeep, TwDone, WalkType, Idle
  <2> QED  BY <2>1, <2>3 DEF PoolTyped
<1>7. CASE TwRemove
  <2>1. PICK b \in Blocks : b = walk.pcb
    BY <1>0, <1>7 DEF TwRemove
  <2>2. PICK s \in PoolState : s = Unlink(Pool, "tw", walk.prev, b)
    BY <1>0, UnlinkTyped
  <2>3. PICK t : t = [Free(s, b) EXCEPT !.pcb[b].state = "CLOSED"]
    OBVIOUS
  <2>4. SetPool(t) /\ walk' = [walk EXCEPT !.pcb = pcbs[b].next] /\ pcbs[b].next \in Opt
    BY <1>0, <1>7, <2>1, <2>2, <2>3, NextIn DEF TwRemove
  <2>5. t \in PoolState
    <3>1. /\ s = [pcb |-> s.pcb, list |-> s.list, free |-> s.free, mine |-> s.mine]
          /\ s.pcb \in [Blocks -> BlockType] /\ s.list \in [Lists -> Opt]
          /\ s.free \in Seq(Blocks) /\ s.mine \in SUBSET Blocks
      BY DEF PoolState
    <3>2. t = [pcb |-> [s.pcb EXCEPT ![b] = [s.pcb[b] EXCEPT !.state = "CLOSED"]],
               list |-> s.list, free |-> <<b>> \o s.free, mine |-> s.mine]
      BY <2>3, <3>1 DEF Free
    <3>3. [s.pcb EXCEPT ![b] = [s.pcb[b] EXCEPT !.state = "CLOSED"]] \in [Blocks -> BlockType]
      BY <3>1 DEF BlockType, States
    <3>4. <<b>> \o s.free \in Seq(Blocks)
      BY <3>1
    <3> QED  BY <3>1, <3>2, <3>3, <3>4 DEF PoolState
  <2>6. walk' \in WalkType
    BY <1>0, <2>4 DEF WalkType
  <2> QED  BY <2>4, <2>5, <2>6, PoolIs DEF PoolTyped
<1> QED  BY <1>1, <1>2, <1>3, <1>4, <1>5, <1>6, <1>7 DEF Timer

(* The types of the pool and of its walks are kept, whatever the callbacks    *)
(* of the applications do.                                                    *)
THEOREM PoolTypesKept == PoolSpec => []PoolTypeOK
<1>1. PoolInit => PoolTyped
  BY PoolBegins DEF PoolInv, SoundPool, WalkRight, PoolTyped
<1>2. PoolTyped /\ [PoolNext]_poolVars => PoolTyped'
  <2>1. ASSUME PoolTyped, UNCHANGED poolVars PROVE PoolTyped'
    <3>1. Pool' = Pool /\ walk' = walk
      BY <2>1 DEF poolVars, Pool
    <3> QED  BY <2>1, <3>1 DEF PoolTyped
  <2> QED  BY <2>1, CallsTyped, TimerTyped DEF PoolNext, Call
<1>3. PoolTyped => PoolTypeOK
  <2> SUFFICES ASSUME PoolTyped PROVE PoolTypeOK
    OBVIOUS
  <2>1. /\ pcbs \in [Blocks -> BlockType] /\ pcblists \in [Lists -> Opt]
        /\ freepcbs \in Seq(Blocks) /\ handles \in SUBSET Blocks /\ walk \in WalkType
    BY DEF PoolTyped, PoolState, Pool
  <2>2. ToSet(freepcbs) \subseteq Blocks
    BY <2>1 DEF ToSet
  <2> QED  BY <2>1, <2>2 DEF PoolTypeOK, BlockType, States, Opt, WalkType
<1> QED  BY <1>1, <1>2, <1>3, PTL DEF PoolSpec

(* The lists and the pool agree at every point of the program, the steps of   *)
(* the timers' walks included, where no application opens a connection in its *)
(* error callback.  The block of a connection that tcp_slowtmr gives up is    *)
(* off the list when that callback runs, so that tcp_connect puts its block   *)
(* in front of the list, where a walk with prev = NULL takes it for the       *)
(* block it stands at: without this hypothesis PoolSound does not hold.       *)
THEOREM PoolInvariant ==
  ASSUME Reconnects = FALSE
  PROVE  PoolSpec => []PoolSound
<1>1. PoolInit => PoolInv
  BY PoolBegins
<1>2. PoolInv /\ [PoolNext]_poolVars => PoolInv'
  BY PoolStep
<1>3. PoolInv => PoolSound
  BY PoolInvGives
<1> QED  BY <1>1, <1>2, <1>3, PTL DEF PoolSpec

-----------------------------------------------------------------------------
(* The DNS client *)

NamesZ == Names \cup {Zero}

Addresses == Names \cup {Zero, Old}

EntryType ==
  [state : {"unused", "asking", "done"}, numdns : Nat, tmr : Nat, retries : Nat,
   seqno : 0..(DnsSeqMod - 1), ttl : 0..(TtlMod - 1), name : NamesZ, rest : NamesZ,
   ipaddr : Addresses]

Query == [id : Entries, name : Names, server : Nat]

Answer == [name : NamesZ, addr : Addresses]

DnsState ==
  [table : [Entries -> EntryType], seqno : 0..(DnsSeqMod - 1), server : Nat,
   asked : SUBSET Query, told : SUBSET Answer, begun : SUBSET Names]

(* The counters of an entry that is asked for are in their ranges.            *)
InTime(e) == /\ e.numdns < DNS_MAX_SERVERS /\ e.retries < DNS_MAX_RETRIES
             /\ e.tmr \in 1..DNS_MAX_RETRIES /\ e.name \in Names

Asking(d, i) == d.table[i].state = "asking"

SoundTable(d) == /\ d \in DnsState
            /\ \A i \in Entries : Asking(d, i) => InTime(d.table[i])

DnsInv == SoundTable(dns) /\ entry \in 0..DNS_TABLE_SIZE

(* An address that goes with a name, but for the names of N, which may have   *)
(* the address that was in an entry before.                                   *)
Matching(addr, name, N) == Related(addr, name) \/ (addr = Old /\ name \in N)

TableFits(d, N) ==
  \A i \in Entries :
    LET e == d.table[i]
    IN  /\ e.state = "done" => Matching(e.ipaddr, e.name, N)
        /\ e.state = "asking" => e.ipaddr = Old

ToldFits(d, N) == \A t \in d.told : t.addr = Zero \/ Matching(t.addr, t.name, N)

Right(d, N) == TableFits(d, N) /\ ToldFits(d, N)

-----------------------------------------------------------------------------
(* Operators *)

(* A set of natural numbers that has a member has a first one.                *)
LEMMA FirstOfIn ==
  ASSUME NEW S, S \subseteq Nat, S # {}
  PROVE  FirstOf(S) \in S /\ \A j \in S : FirstOf(S) <= j
<1> DEFINE R == OpToRel(<, Nat)
<1>1. IsWellFoundedOn(R, Nat)
  BY NatLessThanWellFounded
<1>2. \E x \in S : \A y \in S : <<y, x>> \notin R
  <2> HIDE DEF R
  <2> QED  BY <1>1, WFMin
<1>3. PICK x \in S : \A y \in S : <<y, x>> \notin R
  BY <1>2
<1>4. \A y \in S : x <= y
  <2> SUFFICES ASSUME NEW y \in S, ~(x <= y) PROVE FALSE
    OBVIOUS
  <2> HIDE DEF R
  <2>1. x \in Nat /\ y \in Nat /\ y < x
    OBVIOUS
  <2> USE DEF R
  <2>2. <<y, x>> \in R
    BY <2>1 DEF OpToRel
  <2> QED  BY <2>2, <1>3
<1> QED  BY <1>4 DEF FirstOf

LEMMA FirstEntry ==
  ASSUME NEW S, S \subseteq Entries, S # {}
  PROVE  FirstOf(S) \in S
<1>1. S \subseteq Nat
  BY DEF Entries
<1> QED  BY <1>1, FirstOfIn

(* dns_enqueue takes no entry that is asked for, and an unused one if any is.  *)
UnusedFirst(d, i) ==
  d.table[i].state = "unused" \/ \A j \in Entries : d.table[j].state # "unused"

LEMMA EntryForFree ==
  ASSUME NEW d, d \in DnsState, EntryFor(d) # {}
  PROVE  /\ FirstOf(EntryFor(d)) \in Entries /\ ~Asking(d, FirstOf(EntryFor(d)))
         /\ UnusedFirst(d, FirstOf(EntryFor(d)))
<1> DEFINE unused == {i \in Entries : d.table[i].state = "unused"}
           age(i) == d.seqno - d.table[i].seqno
           aged   == {i \in Entries : d.table[i].state = "done" /\ age(i) > 0}
           oldest == {i \in aged : \A j \in aged : age(j) <= age(i)}
           lseqi  == IF aged = {} THEN 0 ELSE FirstOf(oldest)
<1>e. EntryFor(d) = IF unused # {} THEN {FirstOf(unused)}
                    ELSE IF d.table[lseqi].state = "done" THEN {lseqi} ELSE {}
  BY DEF EntryFor
<1>1. \A x : FirstOf({x}) = x
  BY DEF FirstOf
<1>2. CASE unused # {}
  <2>1. unused \subseteq Entries
    OBVIOUS
  <2>2. FirstOf(unused) \in unused
    BY <1>2, <2>1, FirstEntry
  <2> QED  BY <1>e, <1>1, <1>2, <2>2 DEF Asking, UnusedFirst
<1>3. CASE unused = {}
  <2>1. d.table[lseqi].state = "done" /\ EntryFor(d) = {lseqi}
    BY <1>e, <1>3
  <2>2. lseqi \in Entries
    <3>1. CASE aged = {}
      BY <3>1, DnsAssumption DEF Entries
    <3>2. CASE aged # {}
      <4> DEFINE seqnos == {d.table[i].seqno : i \in aged}
      <4>t. d.seqno \in Nat /\ \A i \in Entries : d.table[i].seqno \in Nat
        BY DnsAssumption DEF DnsState, EntryType
      <4>1. seqnos # {} /\ seqnos \subseteq Nat
        BY <3>2, <4>t
      <4>2. FirstOf(seqnos) \in seqnos /\ \A j \in seqnos : FirstOf(seqnos) <= j
        BY <4>1, FirstOfIn
      <4>3. PICK i \in aged : \A j \in aged : d.table[i].seqno <= d.table[j].seqno
        BY <4>2
      <4>4. i \in oldest
        BY <4>3, <4>t
      <4>5. oldest # {} /\ oldest \subseteq Entries
        BY <4>4
      <4>6. FirstOf(oldest) \in oldest
        BY <4>5, FirstEntry
      <4> QED  BY <3>2, <4>6
    <3> QED  BY <3>1, <3>2
  <2>3. UnusedFirst(d, lseqi)
    BY <1>3 DEF UnusedFirst
  <2> QED  BY <1>1, <2>1, <2>2, <2>3 DEF Asking
<1> QED  BY <1>2, <1>3

-----------------------------------------------------------------------------
(* What dns_enqueue, dns_gethostbyname and a callback keep of a sound table.  *)

(* Entry i is the one that is asked for under a new name.                     *)
Takes(d, f, i, name) ==
  ~Asking(d, i) /\ Asking(f, i) /\ f.table[i].name = name /\ UnusedFirst(d, i)

(* Either nothing was begun, or a request that has an entry.                  *)
BeginsFor(d, f, name) ==
  \/ f.begun = d.begun
  \/ f.begun = d.begun \cup {name} /\ \E i \in Entries : Takes(d, f, i, name)

(* From d to f only an entry that was not asked for is asked for, under a     *)
(* new name, and what was told stays told.                                    *)
AsksMore(d, f, name) ==
  /\ \A i \in Entries : f.table[i] # d.table[i] =>
       ~Asking(d, i) /\ Asking(f, i) /\ f.table[i].name = name /\ f.table[i].ipaddr = Old
  /\ d.told \subseteq f.told
  /\ BeginsFor(d, f, name)

LEMMA SendKeeps ==
  ASSUME NEW d, SoundTable(d), NEW i \in Entries, Asking(d, i), NEW sent \in BOOLEAN
  PROVE  /\ SoundTable(Send(d, i, sent))
         /\ Send(d, i, sent).table = d.table /\ Send(d, i, sent).told = d.told
         /\ Send(d, i, sent).begun = d.begun
<1> DEFINE e == d.table[i]
           q == [id |-> i, name |-> e.name, server |-> e.numdns]
           asked == d.asked \cup {q}
           f == Send(d, i, sent)
<1>1. e \in EntryType /\ e.name \in Names /\ e.numdns \in Nat /\ d \in DnsState
  BY DEF SoundTable, DnsState, InTime, EntryType
<1>2. asked \subseteq Query
  BY <1>1 DEF Query, DnsState
<1>3. f = d \/ \E a \in SUBSET Query : f = [d EXCEPT !.server = e.numdns, !.asked = a]
  <2>1. CASE ~sent
    BY <2>1 DEF Send
  <2>2. CASE sent
    <3>1. f = [d EXCEPT !.server = e.numdns,
                        !.asked = IF Cardinality(asked) <= MaxAsked THEN asked ELSE d.asked]
      BY <2>2 DEF Send
    <3>2. d.asked \subseteq Query
      BY <1>1 DEF DnsState
    <3> QED  BY <3>1, <3>2, <1>2
  <2> QED  BY <2>1, <2>2
<1>4. CASE f = d
  BY <1>4
<1>5. CASE \E a \in SUBSET Query : f = [d EXCEPT !.server = e.numdns, !.asked = a]
  <2>1. PICK a \in SUBSET Query : f = [d EXCEPT !.server = e.numdns, !.asked = a]
    BY <1>5
  <2>2. f \in DnsState /\ f.table = d.table /\ f.told = d.told /\ f.begun = d.begun
    BY <2>1, <1>1 DEF DnsState
  <2> QED  BY <2>2 DEF SoundTable, Asking
<1> QED  BY <1>3, <1>4, <1>5

LEMMA EnqueueKeeps ==
  ASSUME NEW d, SoundTable(d), NEW name \in Names, NEW sent \in BOOLEAN
  PROVE  /\ SoundTable(Enqueue(d, name, sent)) /\ AsksMore(d, Enqueue(d, name, sent), name)
         /\ Enqueue(d, name, sent).told = d.told
<1> DEFINE i == FirstOf(EntryFor(d))
           e == [d.table[i] EXCEPT !.state = "asking", !.numdns = 0, !.tmr = 1,
                                   !.retries = 0, !.seqno = d.seqno, !.ttl = 0, !.name = name,
                                   !.rest = Beyond(d.table[i], name), !.ipaddr = Old]
           g == [d EXCEPT !.table[i] = e, !.seqno = (@ + 1) % DnsSeqMod,
                          !.begun = @ \cup {name}]
<1>1. CASE EntryFor(d) = {}
  BY <1>1 DEF Enqueue, AsksMore, BeginsFor
<1>2. CASE EntryFor(d) # {}
  <2>1. i \in Entries /\ ~Asking(d, i) /\ UnusedFirst(d, i) /\ d \in DnsState
    <3>1. d \in DnsState
      BY DEF SoundTable
    <3> QED  BY <1>2, <3>1, EntryForFree
  <2>2. Enqueue(d, name, sent) = Send(g, i, sent)
    BY <1>2 DEF Enqueue
  <2>3. /\ e \in EntryType /\ e.state = "asking" /\ e.name = name /\ InTime(e)
        /\ e.ipaddr = Old
    <3>1. d.table[i] \in EntryType /\ d.seqno \in 0..(DnsSeqMod - 1)
      BY <2>1 DEF DnsState
    <3>2. 0 \in 0..(TtlMod - 1) /\ 1 \in 1..DNS_MAX_RETRIES
      BY DnsAssumption
    <3>3. e \in EntryType
      BY <3>1, <3>2 DEF EntryType, NamesZ, Addresses, Beyond
    <3> HIDE DEF i
    <3>4. /\ e.state = "asking" /\ e.numdns = 0 /\ e.retries = 0 /\ e.tmr = 1 /\ e.name = name
          /\ e.ipaddr = Old
      BY <3>1 DEF EntryType
    <3> QED  BY <3>2, <3>3, <3>4, DnsAssumption DEF InTime
  <2>4. /\ g \in DnsState /\ g.told = d.told /\ g.begun = d.begun \cup {name}
        /\ g.table = [d.table EXCEPT ![i] = e]
    <3> HIDE DEF e, i
    <3>1. [d.table EXCEPT ![i] = e] \in [Entries -> EntryType]
      BY <2>1, <2>3 DEF DnsState
    <3>2. (d.seqno + 1) % DnsSeqMod \in 0..(DnsSeqMod - 1)
      BY <2>1, DnsAssumption DEF DnsState
    <3> QED  BY <2>1, <3>1, <3>2 DEF DnsState
  <2> HIDE DEF e, i, g
  <2>5. /\ \A j \in Entries : g.table[j] = IF j = i THEN e ELSE d.table[j]
        /\ Asking(g, i)
    BY <2>1, <2>3, <2>4 DEF DnsState, Asking
  <2>6. SoundTable(g)
    BY <2>3, <2>4, <2>5 DEF SoundTable, Asking
  <2>7. /\ SoundTable(Send(g, i, sent))
        /\ Send(g, i, sent).table = g.table /\ Send(g, i, sent).told = g.told
        /\ Send(g, i, sent).begun = g.begun
    BY <2>1, <2>5, <2>6, SendKeeps
  <2>8. Takes(d, Enqueue(d, name, sent), i, name)
    BY <2>1, <2>2, <2>3, <2>5, <2>7 DEF Takes, Asking
  <2>9. BeginsFor(d, Enqueue(d, name, sent), name)
    BY <2>1, <2>2, <2>4, <2>7, <2>8 DEF BeginsFor
  <2> QED  BY <2>1, <2>2, <2>3, <2>4, <2>5, <2>7, <2>9 DEF AsksMore, Asking
<1> QED  BY <1>1, <1>2

AnswerOf(name, addr) == [name |-> name, addr |-> addr]

ToldOf(d, name, addr) == d.told \cup {AnswerOf(name, addr)}

LEMMA ToldKeeps ==
  ASSUME NEW d, SoundTable(d), NEW name \in NamesZ, NEW addr \in Addresses
  PROVE  /\ SoundTable(Told(d, name, addr)) /\ Told(d, name, addr).table = d.table
         /\ Told(d, name, addr).begun = d.begun
         /\ Told(d, name, addr).told = ToldOf(d, name, addr)
<1> DEFINE told == d.told \cup {[name |-> name, addr |-> addr]}
           f == [d EXCEPT !.told = told]
<1>1. Told(d, name, addr) = f /\ d \in DnsState
  BY DEF Told, SoundTable
<1>2. told \subseteq Answer
  BY <1>1 DEF DnsState, Answer
<1> HIDE DEF told
<1>3. f \in DnsState /\ f.table = d.table /\ f.told = told /\ f.begun = d.begun
  BY <1>1, <1>2 DEF DnsState
<1> HIDE DEF f
<1> QED  BY <1>1, <1>3 DEF SoundTable, Asking, told, ToldOf, AnswerOf

(* A name that an entry was completed for is answered from it; any other is   *)
(* asked for.                                                                 *)
LEMMA AskKeeps ==
  ASSUME NEW d, SoundTable(d), NEW name \in Names, NEW sent \in BOOLEAN
  PROVE  /\ SoundTable(Ask(d, name, sent)) /\ AsksMore(d, Ask(d, name, sent), name)
         /\ Done(d, name) # {} => Ask(d, name, sent).table = d.table
<1>1. CASE Done(d, name) = {}
  BY <1>1, EnqueueKeeps DEF Ask
<1>2. CASE Done(d, name) # {}
  <2>1. FirstOf(Done(d, name)) \in Entries
    <3>1. Done(d, name) \subseteq Entries
      BY DEF Done
    <3> QED  BY <1>2, <3>1, FirstEntry
  <2> DEFINE addr == d.table[FirstOf(Done(d, name))].ipaddr
  <2>2. addr \in Addresses /\ name \in NamesZ
    BY <2>1 DEF SoundTable, DnsState, EntryType, NamesZ
  <2>3. Ask(d, name, sent) = Told(d, name, addr)
    BY <1>2 DEF Ask
  <2> HIDE DEF addr
  <2> QED  BY <2>2, <2>3, ToldKeeps DEF AsksMore, ToldOf, BeginsFor
<1> QED  BY <1>1, <1>2

LEMMA FoundKeeps ==
  ASSUME NEW d, SoundTable(d), NEW i \in Entries, NEW addr \in Addresses,
         NEW again \in NamesZ, NEW sent \in BOOLEAN
  PROVE  LET f == Found(d, i, addr, again, sent)
         IN  /\ SoundTable(f) /\ AsksMore(d, f, again)
             /\ AnswerOf(d.table[i].name, addr) \in f.told
             /\ Done(d, again) # {} \/ again = Zero => f.table = d.table
<1>n. PICK n \in NamesZ : n = d.table[i].name
  BY DEF SoundTable, DnsState, EntryType
<1> DEFINE t == Told(d, n, addr)
<1>2. /\ SoundTable(t) /\ t.table = d.table
      /\ t.told = ToldOf(d, n, addr) /\ t.begun = d.begun
  BY ToldKeeps
<1>3. Found(d, i, addr, again, sent) = IF again = Zero THEN t ELSE Ask(t, again, sent)
  BY <1>n DEF Found
<1> HIDE DEF t
<1>4. CASE again = Zero
  BY <1>2, <1>3, <1>4, <1>n DEF AsksMore, ToldOf, BeginsFor
<1>5. CASE again # Zero
  <2>1. again \in Names
    BY <1>5 DEF NamesZ
  <2>2. /\ SoundTable(Ask(t, again, sent)) /\ AsksMore(t, Ask(t, again, sent), again)
        /\ Done(t, again) # {} => Ask(t, again, sent).table = t.table
    BY <2>1, <1>2, AskKeeps
  <2>3. Done(t, again) = Done(d, again)
    BY <1>2 DEF Done
  <2>4. \A j : Takes(t, Ask(t, again, sent), j, again) => Takes(d, Ask(t, again, sent), j, again)
    BY <1>2 DEF Takes, Asking, UnusedFirst
  <2>5. BeginsFor(d, Ask(t, again, sent), again)
    BY <1>2, <2>2, <2>4 DEF AsksMore, BeginsFor
  <2> QED  BY <1>2, <1>3, <1>5, <1>n, <2>2, <2>3, <2>5 DEF AsksMore, ToldOf, Asking
<1> QED  BY <1>4, <1>5

LEMMA FlushKeeps ==
  ASSUME NEW d, SoundTable(d), NEW i \in Entries
  PROVE  /\ SoundTable(Flush(d, i)) /\ Flush(d, i).told = d.told
         /\ Flush(d, i).begun = d.begun
         /\ \A j \in Entries : j # i => Flush(d, i).table[j] = d.table[j]
         /\ Flush(d, i).table[i].state = "unused"
<1>1. d \in DnsState /\ d.table[i] \in EntryType
  BY DEF SoundTable, DnsState
<1> DEFINE e == [UnusedEntry EXCEPT !.rest = d.table[i].rest]
<1>2. e \in EntryType /\ e.state = "unused"
  BY <1>1, DnsAssumption DEF UnusedEntry, EntryType, NamesZ, Addresses
<1> DEFINE f == [d EXCEPT !.table = [d.table EXCEPT ![i] = e]]
<1>3. Flush(d, i) = f
  BY DEF Flush
<1> HIDE DEF e
<1>4. /\ f \in DnsState /\ f.told = d.told /\ f.begun = d.begun
      /\ f.table = [d.table EXCEPT ![i] = e]
  BY <1>1, <1>2 DEF DnsState
<1>5. \A j \in Entries : f.table[j] = IF j = i THEN e ELSE d.table[j]
  BY <1>1, <1>4 DEF DnsState
<1> HIDE DEF f
<1> QED  BY <1>2, <1>3, <1>4, <1>5 DEF SoundTable, Asking

LEMMA QuietSound ==
  ASSUME SoundTable(dns)
  PROVE  /\ SoundTable(Quiet) /\ Quiet.table = dns.table /\ Quiet.asked = dns.asked
         /\ Quiet.told = {} /\ Quiet.begun = {}
<1>1. /\ Quiet \in DnsState /\ Quiet.table = dns.table /\ Quiet.asked = dns.asked
      /\ Quiet.told = {} /\ Quiet.begun = {}
  BY DEF SoundTable, DnsState, Quiet
<1> QED  BY <1>1 DEF SoundTable, Asking

-----------------------------------------------------------------------------
(* The steps *)

(* What RequestsEnd says of an entry.                                         *)
RequestStep(i) ==
  LET e == dns.table[i]
      f == dns'.table[i]
      looked == entry = i /\ entry' = i + 1
  IN  e.state = "asking" =>
        \/ StillAsking(e, f) /\ Left(f) = Left(e) - (IF looked THEN 1 ELSE 0)
        \/ /\ ~StillAsking(e, f)
           /\ \E t \in dns'.told : t.name = e.name
           /\ looked => Left(e) = 1

LEMMA SumToNat ==
  ASSUME NEW n \in Nat
  PROVE  SumTo(n) \in Int /\ SumTo(n + 1) = SumTo(n) + n + 1
<1>1. n * (n + 1) \in Nat
  OBVIOUS
<1>2. (n + 1) * (n + 2) = n * (n + 1) + 2 * (n + 1)
  OBVIOUS
<1> DEFINE p == n * (n + 1)
<1>3. (p + 2 * (n + 1)) \div 2 = p \div 2 + (n + 1) /\ p \div 2 \in Int
  <2> HIDE DEF p
  <2>1. p \in Nat
    BY <1>1 DEF p
  <2> QED  BY <2>1
<1>4. (n + 1) * ((n + 1) + 1) = p + 2 * (n + 1)
  BY <1>2
<1> HIDE DEF p
<1>5. SumTo(n + 1) = (p + 2 * (n + 1)) \div 2 /\ SumTo(n) = p \div 2
  BY <1>4 DEF SumTo, p
<1> QED  BY <1>3, <1>5

LEMMA LeftInt ==
  ASSUME NEW e \in EntryType
  PROVE  Left(e) \in Int
<1>1. DNS_MAX_RETRIES - 1 \in Nat /\ e.retries \in Nat /\ e.tmr \in Int /\ e.numdns \in Int
  BY DnsAssumption DEF EntryType
<1>2. SumTo(DNS_MAX_RETRIES - 1) \in Int /\ SumTo(e.retries) \in Int
  BY <1>1, SumToNat
<1>3. (DNS_MAX_SERVERS - 1 - e.numdns) * (1 + SumTo(DNS_MAX_RETRIES - 1)) \in Int
  BY <1>1, <1>2, DnsAssumption
<1> QED  BY <1>1, <1>2, <1>3 DEF Left

(* An entry that is left alone and not looked at.                             *)
LEMMA Untouched ==
  ASSUME DnsInv, NEW i \in Entries, Asking(dns, i) => dns'.table[i] = dns.table[i],
         ~(entry = i /\ entry' = i + 1)
  PROVE  RequestStep(i)
<1>1. dns.table[i] \in EntryType
  BY DEF DnsInv, SoundTable, DnsState
<1>2. Left(dns.table[i]) \in Int
  BY <1>1, LeftInt
<1> QED  BY <1>2 DEF RequestStep, StillAsking, Asking

(* What RequestsEnd says of what was begun.                                   *)
BegunStep == \A name \in dns'.begun : IsAsked(dns', name) \/ FlushedAtOnce

StepKeeps == DnsInv' /\ BegunStep /\ \A i \in Entries : RequestStep(i)

(* What is begun when nothing was before is asked for.                        *)
LEMMA BegunIsAsked ==
  ASSUME NEW d, d.begun = {}, NEW f, NEW again, BeginsFor(d, f, again)
  PROVE  \A name \in f.begun : IsAsked(f, name)
<1> QED  BY DEF BeginsFor, Takes, IsAsked, Asking

LEMMA GethostbynameKeeps ==
  ASSUME DnsInv, dns_gethostbyname
  PROVE  StepKeeps
<1>1. PICK name \in Names, sent \in BOOLEAN : dns' = Ask(Quiet, name, sent)
  BY DEF dns_gethostbyname
<1>2. SoundTable(Quiet) /\ Quiet.table = dns.table /\ Quiet.begun = {}
  BY QuietSound DEF DnsInv
<1>3. SoundTable(dns') /\ AsksMore(Quiet, dns', name)
  BY <1>1, <1>2, AskKeeps
<1>4. DnsInv'
  BY <1>3 DEF DnsInv, SoundTable, DnsState, dns_gethostbyname
<1>5. ASSUME NEW i \in Entries PROVE RequestStep(i)
  <2>1. ~(entry = i /\ entry' = i + 1)
    BY DEF dns_gethostbyname, Entries
  <2> QED  BY <2>1, <1>2, <1>3, Untouched DEF AsksMore, Asking
<1>6. BegunStep
  BY <1>2, <1>3, BegunIsAsked DEF AsksMore, BegunStep
<1> QED  BY <1>4, <1>5, <1>6 DEF StepKeeps

LEMMA TmrKeeps ==
  ASSUME DnsInv, dns_tmr
  PROVE  StepKeeps
<1>1. SoundTable(dns') /\ dns'.table = dns.table /\ dns'.begun = {}
  BY QuietSound DEF dns_tmr, DnsInv
<1>2. DnsInv'
  BY <1>1, DnsAssumption DEF DnsInv, SoundTable, DnsState, dns_tmr
<1>3. ASSUME NEW i \in Entries PROVE RequestStep(i)
  <2>1. ~(entry = i /\ entry' = i + 1)
    BY DnsAssumption DEF dns_tmr, NoTick, Entries
  <2> QED  BY <2>1, <1>1, Untouched
<1> QED  BY <1>1, <1>2, <1>3 DEF StepKeeps, BegunStep

(* One entry set to another value.                                            *)
SetEntry(d, i, e) == [d EXCEPT !.table = [d.table EXCEPT ![i] = e]]

LEMMA SetEntryKeeps ==
  ASSUME NEW d, SoundTable(d), NEW i \in Entries, NEW e \in EntryType,
         e.state = "asking" => InTime(e)
  PROVE  LET f == SetEntry(d, i, e)
         IN  /\ SoundTable(f) /\ f.told = d.told /\ f.asked = d.asked /\ f.server = d.server
             /\ f.begun = d.begun
             /\ \A j \in Entries : f.table[j] = IF j = i THEN e ELSE d.table[j]
<1> DEFINE f == SetEntry(d, i, e)
<1>1. d \in DnsState
  BY DEF SoundTable
<1>2. /\ f \in DnsState /\ f.told = d.told /\ f.asked = d.asked /\ f.server = d.server
      /\ f.begun = d.begun /\ f.table = [d.table EXCEPT ![i] = e]
  BY <1>1 DEF SetEntry, DnsState
<1> HIDE DEF f
<1>3. \A j \in Entries : f.table[j] = IF j = i THEN e ELSE d.table[j]
  BY <1>1, <1>2 DEF DnsState
<1>4. SoundTable(f)
  BY <1>2, <1>3 DEF SoundTable, Asking
<1> QED  BY <1>2, <1>3, <1>4 DEF f

(* A look at an entry that is asked for makes its wait a second shorter, or   *)
(* ends it.                                                                   *)
LEMMA LookShortens ==
  ASSUME NEW e \in EntryType, NEW f \in EntryType, InTime(e),
         f.state = e.state, f.seqno = e.seqno, f.name = e.name,
         \/ e.tmr > 1 /\ f.tmr = e.tmr - 1 /\ f.retries = e.retries /\ f.numdns = e.numdns
         \/ /\ e.tmr = 1 /\ e.retries + 1 = DNS_MAX_RETRIES
            /\ f.numdns = e.numdns + 1 /\ f.tmr = 1 /\ f.retries = 0
         \/ /\ e.tmr = 1 /\ e.retries + 1 # DNS_MAX_RETRIES
            /\ f.numdns = e.numdns /\ f.tmr = e.retries + 1 /\ f.retries = e.retries + 1
  PROVE  Left(f) = Left(e) - 1
<1> DEFINE T == SumTo(DNS_MAX_RETRIES - 1)
           S == DNS_MAX_SERVERS - 1
<1>1. /\ e.tmr \in Nat /\ e.retries \in Nat /\ e.numdns \in Nat
      /\ f.tmr \in Nat /\ f.retries \in Nat /\ f.numdns \in Nat
      /\ DNS_MAX_RETRIES - 1 \in Nat /\ S \in Nat
  BY DnsAssumption DEF EntryType
<1>2. T \in Int /\ SumTo(e.retries) \in Int /\ SumTo(f.retries) \in Int
  BY <1>1, SumToNat
<1>3. /\ Left(e) = e.tmr + (T - SumTo(e.retries)) + (S - e.numdns) * (1 + T)
      /\ Left(f) = f.tmr + (T - SumTo(f.retries)) + (S - f.numdns) * (1 + T)
  BY DEF Left
<1>4. CASE e.tmr > 1 /\ f.tmr = e.tmr - 1 /\ f.retries = e.retries /\ f.numdns = e.numdns
  <2> HIDE DEF T, S
  <2>1. (S - e.numdns) * (1 + T) \in Int /\ (S - f.numdns) * (1 + T) = (S - e.numdns) * (1 + T)
    BY <1>1, <1>2, <1>4
  <2> DEFINE m == (S - e.numdns) * (1 + T)
  <2> HIDE DEF m
  <2>2. /\ m \in Int
        /\ Left(e) = e.tmr + (T - SumTo(e.retries)) + m
        /\ Left(f) = (e.tmr - 1) + (T - SumTo(e.retries)) + m
    BY <1>3, <1>4, <2>1 DEF m
  <2> QED  BY <1>1, <1>2, <2>2
<1>5. CASE /\ e.tmr = 1 /\ e.retries + 1 = DNS_MAX_RETRIES
           /\ f.numdns = e.numdns + 1 /\ f.tmr = 1 /\ f.retries = 0
  <2>1. e.retries = DNS_MAX_RETRIES - 1
    BY <1>1, <1>5, DnsAssumption
  <2>2. SumTo(0) = 0 /\ SumTo(e.retries) = T
    BY <2>1 DEF SumTo
  <2> HIDE DEF T, S
  <2>3. (S - (e.numdns + 1)) * (1 + T) = (S - e.numdns) * (1 + T) - (1 + T)
    BY <1>1, <1>2
  <2> DEFINE m == (S - e.numdns) * (1 + T)
  <2>4. m \in Int
    BY <1>1, <1>2
  <2> HIDE DEF m
  <2>5. Left(e) = 1 + (T - T) + m /\ Left(f) = 1 + (T - 0) + (m - (1 + T))
    BY <1>3, <1>5, <2>2, <2>3 DEF m
  <2> QED  BY <1>2, <2>4, <2>5
<1>6. CASE /\ e.tmr = 1 /\ e.retries + 1 # DNS_MAX_RETRIES
           /\ f.numdns = e.numdns /\ f.tmr = e.retries + 1 /\ f.retries = e.retries + 1
  <2>1. SumTo(f.retries) = SumTo(e.retries) + e.retries + 1
    BY <1>1, <1>6, SumToNat
  <2> HIDE DEF T, S
  <2> DEFINE m == (S - e.numdns) * (1 + T)
  <2>2. m \in Int
    BY <1>1, <1>2
  <2> HIDE DEF m
  <2>3. /\ Left(e) = 1 + (T - SumTo(e.retries)) + m
        /\ Left(f) = (e.retries + 1) + (T - (SumTo(e.retries) + e.retries + 1)) + m
    BY <1>3, <1>6, <2>1 DEF m
  <2> QED  BY <1>1, <1>2, <2>2, <2>3
<1> QED  BY <1>4, <1>5, <1>6

(* The last look at an entry.                                                 *)
LEMMA LastLook ==
  ASSUME NEW e \in EntryType, InTime(e), e.tmr = 1, e.retries + 1 = DNS_MAX_RETRIES,
         e.numdns + 1 >= DNS_MAX_SERVERS
  PROVE  Left(e) = 1
<1>1. /\ e.retries = DNS_MAX_RETRIES - 1 /\ e.numdns = DNS_MAX_SERVERS - 1
      /\ DNS_MAX_RETRIES - 1 \in Nat
  BY DnsAssumption DEF InTime, EntryType
<1>2. SumTo(DNS_MAX_RETRIES - 1) \in Int
  BY <1>1, SumToNat
<1>3. DNS_MAX_SERVERS - 1 - e.numdns = 0
  BY <1>1, DnsAssumption
<1>4. Left(e) = 1 + (SumTo(DNS_MAX_RETRIES - 1) - SumTo(DNS_MAX_RETRIES - 1))
                + 0 * (1 + SumTo(DNS_MAX_RETRIES - 1))
  BY <1>1, <1>3 DEF Left
<1> QED  BY <1>2, <1>4

LEMMA CheckAskingKeeps ==
  ASSUME DnsInv, entry \in Entries, entry' = entry + 1, Asking(dns, entry),
         CheckAsking(dns.table[entry])
  PROVE  StepKeeps
<1> DEFINE e == dns.table[entry]
           d == Quiet
<1>1. /\ SoundTable(d) /\ d.table = dns.table /\ d.told = {} /\ d.begun = {} /\ dns \in DnsState
      /\ e \in EntryType /\ InTime(e) /\ e.state = "asking" /\ Asking(d, entry)
  <2>1. SoundTable(d) /\ d.table = dns.table /\ d.told = {} /\ d.begun = {} /\ dns \in DnsState
    BY QuietSound DEF DnsInv, SoundTable
  <2> QED  BY <2>1 DEF DnsInv, SoundTable, DnsState, Asking
<1> HIDE DEF d
<1>2. ASSUME SoundTable(dns'), NEW f \in EntryType, dns'.table[entry] = f, BegunStep,
             \A j \in Entries : j # entry /\ Asking(dns, j) => dns'.table[j] = dns.table[j],
             \/ /\ f.state = "asking" /\ f.seqno = e.seqno /\ f.name = e.name
                /\ Left(f) = Left(e) - 1
             \/ /\ f.state = "unused" /\ Left(e) = 1 /\ \E t \in dns'.told : t.name = e.name
      PROVE  StepKeeps
  <2>1. DnsInv'
    <3>1. entry' \in 0..DNS_TABLE_SIZE
      BY DnsAssumption DEF Entries
    <3>2. SoundTable(dns)'
      BY <1>2 DEF SoundTable, DnsState
    <3> QED  BY <3>1, <3>2 DEF DnsInv
  <2>2. ASSUME NEW i \in Entries, i # entry PROVE RequestStep(i)
    <3>1. Asking(dns, i) => dns'.table[i] = dns.table[i]
      BY <1>2, <2>2
    <3> QED  BY <2>2, <3>1, Untouched
  <2>3. RequestStep(entry)
    BY <1>1, <1>2 DEF RequestStep, StillAsking
  <2> QED  BY <1>2, <2>1, <2>2, <2>3 DEF StepKeeps
<1>3. CASE e.tmr > 1 /\ dns' = [d EXCEPT !.table[entry].tmr = @ - 1]
  <2> DEFINE f == [e EXCEPT !.tmr = @ - 1]
  <2>1. f \in EntryType /\ f.state = "asking" /\ InTime(f)
    <3>1. e.tmr \in Nat /\ e.retries \in Nat /\ e.numdns \in Nat /\ e.tmr >= 1
      BY <1>1 DEF EntryType, InTime
    <3> HIDE DEF e
    <3>2. f \in EntryType
      BY <1>1, <1>3, <3>1 DEF EntryType
    <3>3. /\ f.tmr = e.tmr - 1 /\ f.retries = e.retries /\ f.numdns = e.numdns
          /\ f.state = "asking" /\ f.name = e.name
      BY <1>1, <3>1 DEF EntryType
    <3> HIDE DEF f
    <3> QED  BY <1>1, <1>3, <3>1, <3>2, <3>3, DnsAssumption DEF InTime
  <2>2. dns' = SetEntry(d, entry, f)
    BY <1>1, <1>3 DEF SetEntry
  <2>3. Left(f) = Left(e) - 1
    <3>1. /\ f.state = e.state /\ f.seqno = e.seqno /\ f.name = e.name
          /\ f.tmr = e.tmr - 1 /\ f.retries = e.retries /\ f.numdns = e.numdns
      BY <1>1 DEF EntryType
    <3> HIDE DEF f, e
    <3> QED  BY <1>1, <1>3, <2>1, <3>1, LookShortens
  <2>4. f.seqno = e.seqno /\ f.name = e.name
    BY <1>1 DEF EntryType
  <2> HIDE DEF f
  <2>5. /\ SoundTable(dns') /\ dns'.table[entry] = f /\ dns'.begun = {}
        /\ \A j \in Entries : j # entry => dns'.table[j] = dns.table[j]
    BY <1>1, <2>1, <2>2, SetEntryKeeps, SMTT(30)
  <2> QED  BY <1>2, <2>1, <2>3, <2>4, <2>5 DEF BegunStep
<1>4. CASE /\ e.tmr = 1 /\ e.retries + 1 = DNS_MAX_RETRIES /\ e.numdns + 1 < DNS_MAX_SERVERS
           /\ dns' = [d EXCEPT !.table[entry] = NextServer(@)]
  <2> DEFINE f == [e EXCEPT !.numdns = @ + 1, !.tmr = 1, !.retries = 0]
  <2>1. f \in EntryType /\ f.state = "asking" /\ InTime(f)
    <3>1. e.tmr \in Nat /\ e.retries \in Nat /\ e.numdns \in Nat /\ e.tmr >= 1
      BY <1>1 DEF EntryType, InTime
    <3> HIDE DEF e
    <3>k. PICK k \in Nat : k = e.numdns + 1
      BY <3>1
    <3>2. f \in EntryType
      <4>1. f = [e EXCEPT !.numdns = k, !.tmr = 1, !.retries = 0]
        BY <3>k
      <4>2. [e EXCEPT !.numdns = k, !.tmr = 1, !.retries = 0] \in EntryType
        BY <1>1 DEF EntryType
      <4> QED  BY <4>1, <4>2
    <3>3. /\ f.tmr = 1 /\ f.retries = 0 /\ f.numdns = e.numdns + 1
          /\ f.state = "asking" /\ f.name = e.name
      BY <1>1, <3>1 DEF EntryType
    <3> HIDE DEF f
    <3> QED  BY <1>1, <1>4, <3>1, <3>2, <3>3, DnsAssumption DEF InTime
  <2>2. dns' = SetEntry(d, entry, f)
    BY <1>1, <1>4 DEF SetEntry, NextServer
  <2>3. Left(f) = Left(e) - 1
    <3>1. /\ f.state = e.state /\ f.seqno = e.seqno /\ f.name = e.name
          /\ f.tmr = 1 /\ f.retries = 0 /\ f.numdns = e.numdns + 1
      BY <1>1 DEF EntryType
    <3> HIDE DEF f, e
    <3> QED  BY <1>1, <1>4, <2>1, <3>1, LookShortens
  <2>4. f.seqno = e.seqno /\ f.name = e.name
    BY <1>1 DEF EntryType
  <2> HIDE DEF f
  <2>5. /\ SoundTable(dns') /\ dns'.table[entry] = f /\ dns'.begun = {}
        /\ \A j \in Entries : j # entry => dns'.table[j] = dns.table[j]
    BY <1>1, <2>1, <2>2, SetEntryKeeps, SMTT(30)
  <2> QED  BY <1>2, <2>1, <2>3, <2>4, <2>5 DEF BegunStep
<1>5. CASE /\ e.tmr = 1 /\ e.retries + 1 = DNS_MAX_RETRIES /\ e.numdns + 1 >= DNS_MAX_SERVERS
           /\ \E again \in Again("timeout"), sent \in BOOLEAN :
                dns' = Flush(Found(d, entry, Zero, again, sent), entry)
  <2>1. PICK again \in NamesZ, sent \in BOOLEAN :
               dns' = Flush(Found(d, entry, Zero, again, sent), entry)
    BY <1>5 DEF Again, NamesZ
  <2> DEFINE g == Found(d, entry, Zero, again, sent)
  <2>2. Zero \in Addresses
    BY DEF Addresses
  <2>3. SoundTable(g) /\ AsksMore(d, g, again) /\ AnswerOf(d.table[entry].name, Zero) \in g.told
    BY <1>1, <2>2, FoundKeeps
  <2> HIDE DEF g
  <2>4. dns' = Flush(g, entry)
    BY <2>1 DEF g
  <2>5. /\ SoundTable(dns') /\ dns'.told = g.told /\ dns'.begun = g.begun
        /\ dns'.table[entry].state = "unused"
        /\ \A j \in Entries : j # entry => dns'.table[j] = g.table[j]
    BY <2>3, <2>4, FlushKeeps
  <2>6. \A j \in Entries : j # entry /\ Asking(dns, j) => dns'.table[j] = dns.table[j]
    BY <1>1, <2>3, <2>5 DEF AsksMore, Asking
  <2>7. \E t \in dns'.told : t.name = e.name
    BY <1>1, <2>3, <2>5 DEF AnswerOf
  <2>8. Left(e) = 1
    BY <1>1, <1>5, LastLook
  <2>9. dns'.table[entry] \in EntryType
    BY <2>5 DEF SoundTable, DnsState
  <2>10. BegunStep
    <3>1. \A j \in Entries : Takes(d, g, j, again) => dns'.table[j] = g.table[j]
      BY <1>1, <2>5 DEF Takes
    <3>2. g.begun # {} => g.begun = {again} /\ \E j \in Entries : Takes(d, g, j, again)
      BY <1>1, <2>3 DEF AsksMore, BeginsFor
    <3> QED  BY <2>5, <3>1, <3>2 DEF BegunStep, IsAsked, Takes, Asking
  <2> QED  BY <1>2, <2>5, <2>6, <2>7, <2>8, <2>9, <2>10
<1>6. CASE /\ e.tmr = 1 /\ e.retries + 1 # DNS_MAX_RETRIES
           /\ \E sent \in BOOLEAN :
                dns' = Send([d EXCEPT !.table[entry].retries = @ + 1,
                                      !.table[entry].tmr = e.retries + 1], entry, sent)
  <2> DEFINE f == [e EXCEPT !.retries = @ + 1, !.tmr = e.retries + 1]
             g == [d EXCEPT !.table[entry].retries = @ + 1,
                            !.table[entry].tmr = e.retries + 1]
  <2>1. f \in EntryType /\ f.state = "asking" /\ InTime(f)
    <3>1. e.tmr \in Nat /\ e.retries \in Nat /\ e.numdns \in Nat /\ e.tmr >= 1
      BY <1>1 DEF EntryType, InTime
    <3> HIDE DEF e
    <3>k. PICK k \in Nat : k = e.retries + 1
      BY <3>1
    <3>2. f \in EntryType
      <4>1. f = [e EXCEPT !.retries = k, !.tmr = k]
        BY <3>k
      <4>2. [e EXCEPT !.retries = k, !.tmr = k] \in EntryType
        BY <1>1 DEF EntryType
      <4> QED  BY <4>1, <4>2
    <3>3. /\ f.tmr = e.retries + 1 /\ f.retries = e.retries + 1 /\ f.numdns = e.numdns
          /\ f.state = "asking" /\ f.name = e.name
      BY <1>1, <3>1 DEF EntryType
    <3> HIDE DEF f
    <3> QED  BY <1>1, <1>6, <3>1, <3>2, <3>3, DnsAssumption DEF InTime
  <2>2. g = SetEntry(d, entry, f)
    BY <1>1 DEF SetEntry, SoundTable, DnsState, EntryType
  <2>3. Left(f) = Left(e) - 1
    <3>1. /\ f.state = e.state /\ f.seqno = e.seqno /\ f.name = e.name
          /\ f.tmr = e.retries + 1 /\ f.retries = e.retries + 1 /\ f.numdns = e.numdns
      BY <1>1 DEF EntryType
    <3> HIDE DEF f, e
    <3> QED  BY <1>1, <1>6, <2>1, <3>1, LookShortens
  <2>4. f.seqno = e.seqno /\ f.name = e.name
    BY <1>1 DEF EntryType
  <2>5. PICK sent \in BOOLEAN : dns' = Send(g, entry, sent)
    BY <1>6
  <2> HIDE DEF f, g
  <2>6. /\ SoundTable(g) /\ g.table[entry] = f /\ g.begun = {}
        /\ \A j \in Entries : j # entry => g.table[j] = dns.table[j]
    BY <1>1, <2>1, <2>2, SetEntryKeeps, SMTT(30)
  <2>7. Asking(g, entry)
    BY <2>1, <2>6 DEF Asking
  <2>8. SoundTable(dns') /\ dns'.table = g.table /\ dns'.begun = {}
    BY <2>5, <2>6, <2>7, SendKeeps
  <2> QED  BY <1>2, <2>1, <2>3, <2>4, <2>6, <2>8 DEF BegunStep
<1> QED  BY <1>3, <1>4, <1>5, <1>6 DEF CheckAsking, d

LEMMA CheckEntryKeeps ==
  ASSUME DnsInv, dns_check_entry
  PROVE  StepKeeps
<1> DEFINE e == dns.table[entry]
<1>1. /\ SoundTable(Quiet) /\ Quiet.table = dns.table /\ Quiet.begun = {}
      /\ entry \in Entries /\ entry' = entry + 1
      /\ e \in EntryType
  <2>1. entry \in Entries
    BY DnsAssumption DEF DnsInv, dns_check_entry, Entries
  <2> QED  BY <2>1, QuietSound DEF DnsInv, SoundTable, DnsState, dns_check_entry
<1>2. ASSUME SoundTable(dns'), dns'.begun = {}, ~Asking(dns, entry),
             \A j \in Entries : j # entry => dns'.table[j] = dns.table[j]
      PROVE  StepKeeps
  <2>1. DnsInv'
    <3>1. entry' \in 0..DNS_TABLE_SIZE
      BY <1>1, DnsAssumption DEF Entries
    <3>2. SoundTable(dns)'
      BY <1>2 DEF SoundTable, DnsState
    <3> QED  BY <3>1, <3>2 DEF DnsInv
  <2>2. ASSUME NEW i \in Entries PROVE RequestStep(i)
    <3>1. CASE i = entry
      BY <3>1, <1>2 DEF RequestStep, Asking
    <3>2. CASE i # entry
      BY <3>2, <1>2, Untouched
    <3> QED  BY <3>1, <3>2
  <2> QED  BY <1>2, <2>1, <2>2 DEF StepKeeps, BegunStep
<1>3. CASE e.state = "asking"
  BY <1>1, <1>3, CheckAskingKeeps DEF dns_check_entry, Asking
<1>4. CASE e.state = "done"
  <2> DEFINE ttl == (e.ttl - 1) % TtlMod
             f == [e EXCEPT !.ttl = ttl]
  <2>1. dns' = IF ttl = 0 THEN Flush(Quiet, entry) ELSE [Quiet EXCEPT !.table[entry].ttl = ttl]
    BY <1>4 DEF dns_check_entry, CheckDone
  <2>2. CASE ttl = 0
    BY <1>1, <1>2, <1>4, <2>1, <2>2, FlushKeeps DEF Asking
  <2>3. CASE ttl # 0
    <3>1. ttl \in 0..(TtlMod - 1)
      BY <1>1, DnsAssumption DEF EntryType
    <3>2. f \in EntryType /\ f.state = "done"
      BY <1>1, <1>4, <3>1 DEF EntryType
    <3>3. dns' = SetEntry(Quiet, entry, f)
      BY <1>1, <2>1, <2>3 DEF SetEntry
    <3> HIDE DEF f
    <3>4. /\ SoundTable(dns') /\ dns'.begun = {}
          /\ \A j \in Entries : j # entry => dns'.table[j] = dns.table[j]
      BY <1>1, <3>2, <3>3, SetEntryKeeps
    <3> QED  BY <1>2, <1>4, <3>4 DEF Asking
  <2> QED  BY <2>2, <2>3
<1>5. CASE e.state = "unused"
  <2>1. dns' = Quiet
    BY <1>5 DEF dns_check_entry
  <2> QED  BY <1>1, <1>2, <1>5, <2>1 DEF Asking
<1> QED  BY <1>1, <1>3, <1>4, <1>5 DEF EntryType

(* The completed entry, with or without what the answer brings.               *)
LEMMA CompletedIs ==
  ASSUME NEW d, SoundTable(d), NEW i \in Entries
  PROVE  \E f \in EntryType :
           /\ f.state = "done" /\ f.name = d.table[i].name /\ f.ipaddr = d.table[i].ipaddr
           /\ Completed(d, i) = SetEntry(d, i, f)
<1> DEFINE e == d.table[i]
           f == [e EXCEPT !.state = "done", !.numdns = 0, !.tmr = 0, !.retries = 0]
<1>1. e \in EntryType
  BY DEF SoundTable, DnsState
<1>2. Completed(d, i) = SetEntry(d, i, f)
  BY DEF Completed, SetEntry
<1> HIDE DEF e
<1>3. f \in EntryType
  BY <1>1 DEF EntryType
<1>4. f.state = "done" /\ f.name = e.name /\ f.ipaddr = e.ipaddr
  BY <1>1 DEF EntryType
<1> HIDE DEF f
<1> QED  BY <1>2, <1>3, <1>4 DEF e

Answered(d, i, ttl, addr) ==
  [Completed(d, i) EXCEPT !.table[i].ttl = Smaller(ttl, DNS_MAX_TTL), !.table[i].ipaddr = addr]

LEMMA AnsweredIs ==
  ASSUME NEW d, SoundTable(d), NEW i \in Entries, NEW ttl \in Ttls, NEW addr \in Names
  PROVE  \E f \in EntryType :
           /\ f.state = "done" /\ f.name = d.table[i].name /\ f.ipaddr = addr
           /\ Answered(d, i, ttl, addr) = SetEntry(d, i, f)
<1>1. PICK g \in EntryType : /\ g.state = "done" /\ g.name = d.table[i].name
                             /\ Completed(d, i) = SetEntry(d, i, g)
  BY CompletedIs
<1>2. PICK life \in 0..(TtlMod - 1) : life = Smaller(ttl, DNS_MAX_TTL)
  BY DnsAssumption DEF Smaller
<1> DEFINE f == [g EXCEPT !.ttl = life, !.ipaddr = addr]
<1>3. f \in EntryType /\ f.state = "done" /\ f.name = g.name /\ f.ipaddr = addr
  BY <1>1 DEF EntryType, Addresses
<1>4. [SetEntry(d, i, g) EXCEPT !.table[i].ttl = life, !.table[i].ipaddr = addr]
        = SetEntry(d, i, f)
  BY DEF SetEntry, SoundTable, DnsState
<1> HIDE DEF f
<1> QED  BY <1>1, <1>2, <1>3, <1>4 DEF Answered

LEMMA TakenKeeps ==
  ASSUME DnsInv, NoTick, UNCHANGED entry,
         NEW d, SoundTable(d), d.table = dns.table, d.begun = {},
         NEW q \in Query, Taken(d, q)
  PROVE  StepKeeps
<1> DEFINE i == q.id
           e == dns.table[i]
<1>1. i \in Entries /\ q.name \in Names /\ e.state = "asking" /\ Asking(d, i)
  BY DEF Query, Taken, Asking
<1> HIDE DEF i
<1>2. ASSUME SoundTable(dns'), BegunStep, dns'.table[i].state = "asking" => dns'.table[i].name # e.name,
             \A j \in Entries : j # i /\ Asking(dns, j) => dns'.table[j] = dns.table[j],
             \E t \in dns'.told : t.name = e.name
      PROVE  StepKeeps
  <2>1. DnsInv'
    BY <1>2 DEF DnsInv, SoundTable, DnsState
  <2>2. ASSUME NEW j \in Entries PROVE RequestStep(j)
    <3>1. ~(entry = j /\ entry' = j + 1)
      BY DEF Entries
    <3>2. CASE j = i
      BY <3>1, <3>2, <1>2 DEF RequestStep, StillAsking
    <3>3. CASE j # i
      <4>1. Asking(dns, j) => dns'.table[j] = dns.table[j]
        BY <1>2, <3>3
      <4> QED  BY <3>1, <4>1, Untouched
    <3> QED  BY <3>2, <3>3
  <2> QED  BY <1>2, <2>1, <2>2 DEF StepKeeps
<1>3. CASE Response(d, q)
  <2>1. PICK ttl \in Ttls, again \in NamesZ, sent \in BOOLEAN :
          dns' = Found(Answered(d, i, ttl, q.name), i, q.name, again, sent)
    BY <1>3 DEF Response, Again, NamesZ, i, Answered
  <2>2. PICK f \in EntryType :
           /\ f.state = "done" /\ f.name = d.table[i].name /\ f.ipaddr = q.name
           /\ Answered(d, i, ttl, q.name) = SetEntry(d, i, f)
    BY <1>1, AnsweredIs
  <2> DEFINE c == SetEntry(d, i, f)
  <2>3. /\ SoundTable(c) /\ c.begun = {}
        /\ \A j \in Entries : c.table[j] = IF j = i THEN f ELSE d.table[j]
    BY <1>1, <2>2, SetEntryKeeps
  <2> HIDE DEF c
  <2>4. dns' = Found(c, i, q.name, again, sent)
    BY <2>1, <2>2 DEF c
  <2>5. q.name \in Addresses
    BY <1>1 DEF Addresses
  <2>6. /\ SoundTable(dns') /\ AsksMore(c, dns', again)
        /\ AnswerOf(c.table[i].name, q.name) \in dns'.told
        /\ Done(c, again) # {} \/ again = Zero => dns'.table = c.table
    BY <1>1, <2>3, <2>4, <2>5, FoundKeeps
  <2>7. dns'.table[i].state = "asking" => dns'.table[i].name # e.name
    <3>1. c.table[i] = f /\ f.name = e.name
      BY <1>1, <2>2, <2>3
    <3>2. CASE again = e.name
      <4>1. i \in Done(c, again)
        BY <1>1, <2>2, <3>1, <3>2 DEF Done
      <4> QED  BY <2>2, <2>6, <3>1, <4>1
    <3>3. CASE again # e.name
      BY <1>1, <2>2, <2>6, <3>1, <3>3 DEF AsksMore
    <3> QED  BY <3>2, <3>3
  <2>8. \A j \in Entries : j # i /\ Asking(dns, j) => dns'.table[j] = dns.table[j]
    BY <2>3, <2>6 DEF AsksMore, Asking
  <2>9. \E t \in dns'.told : t.name = e.name
    BY <1>1, <2>2, <2>3, <2>6 DEF AnswerOf
  <2>10. BegunStep
    BY <2>3, <2>6, BegunIsAsked DEF AsksMore, BegunStep
  <2> QED  BY <1>2, <2>6, <2>7, <2>8, <2>9, <2>10
<1>4. CASE ResponseErr(d, i)
  <2>1. PICK again \in NamesZ, sent \in BOOLEAN :
          dns' = Flush(Found(Completed(d, i), i, Zero, again, sent), i)
    BY <1>4 DEF ResponseErr, Again, NamesZ
  <2>2. PICK f \in EntryType : /\ f.state = "done" /\ f.name = d.table[i].name
                               /\ Completed(d, i) = SetEntry(d, i, f)
    BY <1>1, CompletedIs
  <2> DEFINE c == Completed(d, i)
             g == Found(c, i, Zero, again, sent)
  <2>3. /\ SoundTable(c) /\ c.begun = {}
        /\ \A j \in Entries : c.table[j] = IF j = i THEN f ELSE d.table[j]
    BY <1>1, <2>2, SetEntryKeeps
  <2> HIDE DEF c
  <2>4. Zero \in Addresses
    BY DEF Addresses
  <2>5. SoundTable(g) /\ AsksMore(c, g, again) /\ AnswerOf(c.table[i].name, Zero) \in g.told
    BY <1>1, <2>3, <2>4, FoundKeeps
  <2> HIDE DEF g
  <2>6. dns' = Flush(g, i)
    BY <2>1 DEF g, c
  <2>7. /\ SoundTable(dns') /\ dns'.told = g.told /\ dns'.begun = g.begun
        /\ dns'.table[i].state = "unused"
        /\ \A j \in Entries : j # i => dns'.table[j] = g.table[j]
    BY <1>1, <2>5, <2>6, FlushKeeps
  <2>8. \A j \in Entries : j # i /\ Asking(dns, j) => dns'.table[j] = dns.table[j]
    BY <2>3, <2>5, <2>7 DEF AsksMore, Asking
  <2>9. \E t \in dns'.told : t.name = e.name
    BY <1>1, <2>2, <2>3, <2>5, <2>7 DEF AnswerOf
  <2>10. BegunStep
    <3>1. CASE g.begun = {}
      BY <2>7, <3>1 DEF BegunStep
    <3>2. CASE g.begun # {}
      <4>1. PICK k \in Entries : g.begun = {again} /\ Takes(c, g, k, again)
        BY <2>3, <2>5, <3>2 DEF AsksMore, BeginsFor
      <4>2. CASE k # i
        BY <2>7, <4>1, <4>2 DEF BegunStep, IsAsked, Takes, Asking
      <4>3. CASE k = i
        <5>1. \A j \in Entries : dns.table[j].state # "unused"
          BY <1>1, <2>2, <2>3, <4>1, <4>3 DEF Takes, UnusedFirst
        <5> QED  BY <1>1, <2>7, <5>1 DEF BegunStep, FlushedAtOnce
      <4> QED  BY <4>2, <4>3
    <3> QED  BY <3>1, <3>2
  <2> QED  BY <1>2, <2>7, <2>8, <2>9, <2>10
<1> QED  BY <1>3, <1>4 DEF Taken, i

LEMMA RecvKeeps ==
  ASSUME DnsInv, dns_recv
  PROVE  StepKeeps
<1>1. PICK q \in dns.asked :
        \/ Taken(Quiet, q)
        \/ LET d == [Quiet EXCEPT !.asked = @ \ {q}] IN Taken(d, q) \/ Dropped(d, q)
  BY DEF dns_recv
<1> DEFINE d == [Quiet EXCEPT !.asked = @ \ {q}]
<1>2. /\ SoundTable(Quiet) /\ Quiet.table = dns.table /\ Quiet.asked = dns.asked /\ q \in Query
      /\ Quiet.begun = {}
  BY QuietSound DEF DnsInv, SoundTable, DnsState
<1>3. SoundTable(d) /\ d.table = dns.table /\ d.begun = {}
  <2>1. d \in DnsState /\ d.table = Quiet.table /\ d.begun = Quiet.begun
    BY <1>2 DEF SoundTable, DnsState
  <2> HIDE DEF d
  <2> QED  BY <1>2, <2>1 DEF SoundTable, Asking
<1> HIDE DEF d
<1>4. UNCHANGED entry /\ NoTick
  BY DEF dns_recv
<1>5. CASE Taken(Quiet, q)
  BY <1>2, <1>4, <1>5, TakenKeeps
<1>6. CASE Taken(d, q)
  BY <1>2, <1>3, <1>4, <1>6, TakenKeeps
<1>7. CASE Dropped(d, q)
  <2>1. dns' = d
    BY <1>7 DEF Dropped
  <2>2. DnsInv'
    BY <1>3, <1>4, <2>1 DEF DnsInv, SoundTable, DnsState
  <2>3. ASSUME NEW j \in Entries PROVE RequestStep(j)
    <3>1. ~(entry = j /\ entry' = j + 1)
      BY <1>4 DEF Entries
    <3> QED  BY <1>3, <2>1, <3>1, Untouched
  <2> QED  BY <1>3, <2>1, <2>2, <2>3 DEF StepKeeps, BegunStep
<1> QED  BY <1>1, <1>5, <1>6, <1>7 DEF d

LEMMA NextKeeps ==
  ASSUME DnsInv, [DnsNext]_dnsVars
  PROVE  StepKeeps \/ UNCHANGED dnsVars
<1> QED  BY GethostbynameKeeps, TmrKeeps, CheckEntryKeeps, RecvKeeps DEF DnsNext

-----------------------------------------------------------------------------
(* Theorems *)

LEMMA InitSound ==
  ASSUME DnsInit
  PROVE  DnsInv
<1>1. UnusedEntry \in EntryType /\ UnusedEntry.state = "unused"
  BY DnsAssumption DEF UnusedEntry, EntryType, NamesZ, Addresses
<1>2. [i \in Entries |-> UnusedEntry] \in [Entries -> EntryType]
  BY <1>1
<1>3. dns \in DnsState /\ dns.table = [i \in Entries |-> UnusedEntry]
  BY <1>2, DnsAssumption DEF DnsInit, DnsState
<1> QED  BY <1>1, <1>3, DnsAssumption DEF DnsInit, DnsInv, SoundTable, Asking

(* The types of the table, of what was sent and of what was told, and the     *)
(* counters of a request in their ranges.                                     *)
THEOREM DnsInvariant == DnsSpec => []DnsInv
<1>1. DnsInv /\ [DnsNext]_dnsVars => DnsInv'
  BY NextKeeps DEF StepKeeps, DnsInv, dnsVars
<1> QED  BY InitSound, <1>1, PTL DEF DnsSpec

(* What DnsInv means for the fields of the entries.                           *)
THEOREM DnsTypes == DnsSpec => []DnsTypeOK
<1>1. DnsInv => DnsTypeOK
  <2> SUFFICES ASSUME DnsInv, NEW i \in Entries
               PROVE  LET e == dns.table[i]
                      IN  /\ e.state \in {"unused", "asking", "done"}
                          /\ e.state = "asking" => InTime(e)
                          /\ e.seqno < DnsSeqMod /\ e.ttl \in 0..(TtlMod - 1)
    BY DEF DnsTypeOK, DnsInv, InTime
  <2>1. dns.table[i] \in EntryType
    BY DEF DnsInv, SoundTable, DnsState
  <2>2. \A n \in 0..(DnsSeqMod - 1) : n < DnsSeqMod
    BY DnsAssumption
  <2> QED  BY <2>1, <2>2 DEF DnsInv, SoundTable, Asking, EntryType
<1> QED  BY <1>1, DnsInvariant, PTL

(* A request ends with its callback, and in the time that it had left when it *)
(* was made if no answer comes: every look of dns_tmr takes one second off,   *)
(* and no other step any.  A name for which ERR_INPROGRESS was returned is    *)
(* asked for when the step ends, also from a callback, unless that was told   *)
(* of an error and found no unused entry.                                     *)
THEOREM DnsRequestsEnd == DnsSpec => RequestsEnd
<1>1. DnsInv /\ [DnsNext]_dnsVars =>
        [BegunStep /\ \A i \in Entries : RequestStep(i)]_dnsVars
  BY NextKeeps DEF StepKeeps
<1>2. (BegunStep /\ \A i \in Entries : RequestStep(i)) <=>
       /\ \A i \in Entries :
            LET e == dns.table[i]
                f == dns'.table[i]
                looked == entry = i /\ entry' = i + 1
            IN  e.state = "asking" =>
                  \/ StillAsking(e, f) /\ Left(f) = Left(e) - (IF looked THEN 1 ELSE 0)
                  \/ /\ ~StillAsking(e, f)
                     /\ \E t \in dns'.told : t.name = e.name
                     /\ looked => Left(e) = 1
       /\ \A name \in dns'.begun : IsAsked(dns', name) \/ FlushedAtOnce
  BY DEF RequestStep, BegunStep
<1> QED  BY <1>1, <1>2, DnsInvariant, PTL DEF DnsSpec, RequestsEnd

-----------------------------------------------------------------------------
(* Addresses.  While the callback of a response without an address runs, its  *)
(* entry counts as completed with whatever address it had: N is then its      *)
(* name, which may be answered so, and has no member otherwise.               *)

(* Entries that stay as they are, are flushed or asked for anew, and what was *)
(* told before, do not matter.                                                *)
LEMMA RightKept ==
  ASSUME NEW N, NEW d, Right(d, N), NEW f, f.told = d.told,
         \A i \in Entries :
            \/ f.table[i] = d.table[i]
            \/ f.table[i].state = "unused"
            \/ f.table[i].state = "asking" /\ f.table[i].ipaddr = Old
  PROVE  Right(f, N)
<1> QED  BY DEF Right, TableFits, ToldFits

LEMMA ToldRight ==
  ASSUME NEW N, NEW d, SoundTable(d), Right(d, N), NEW name \in NamesZ, NEW addr \in Addresses,
         addr = Zero \/ Matching(addr, name, N)
  PROVE  Right(Told(d, name, addr), N)
<1>1. /\ Told(d, name, addr).table = d.table
      /\ Told(d, name, addr).told = ToldOf(d, name, addr)
  BY ToldKeeps
<1>2. \A t \in ToldOf(d, name, addr) : t.addr = Zero \/ Matching(t.addr, t.name, N)
  BY DEF ToldOf, AnswerOf, Right, ToldFits
<1> QED  BY <1>1, <1>2 DEF Right, TableFits, ToldFits

LEMMA AskRight ==
  ASSUME NEW N, NEW d, SoundTable(d), Right(d, N), NEW name \in Names, NEW sent \in BOOLEAN
  PROVE  Right(Ask(d, name, sent), N)
<1>1. CASE Done(d, name) = {}
  <2>1. /\ AsksMore(d, Enqueue(d, name, sent), name)
        /\ Enqueue(d, name, sent).told = d.told
    BY EnqueueKeeps
  <2>2. Ask(d, name, sent) = Enqueue(d, name, sent)
    BY <1>1 DEF Ask
  <2> QED  BY <2>1, <2>2, RightKept DEF AsksMore, Asking
<1>2. CASE Done(d, name) # {}
  <2> DEFINE k == FirstOf(Done(d, name))
  <2>1. k \in Entries /\ d.table[k].state = "done" /\ d.table[k].name = name
    <3>1. Done(d, name) \subseteq Entries
      BY DEF Done
    <3>2. k \in Done(d, name)
      BY <1>2, <3>1, FirstEntry
    <3> QED  BY <3>2 DEF Done
  <2> HIDE DEF k
  <2>2. d.table[k].ipaddr \in Addresses /\ Matching(d.table[k].ipaddr, name, N) /\ name \in NamesZ
    BY <2>1 DEF SoundTable, DnsState, EntryType, NamesZ, Right, TableFits
  <2>3. Ask(d, name, sent) = Told(d, name, d.table[k].ipaddr)
    BY <1>2 DEF Ask, k
  <2> QED  BY <2>2, <2>3, ToldRight
<1> QED  BY <1>1, <1>2

LEMMA FoundRight ==
  ASSUME NEW N, NEW d, SoundTable(d), Right(d, N), NEW i \in Entries, NEW addr \in Addresses,
         addr = Zero \/ Matching(addr, d.table[i].name, N),
         NEW again \in NamesZ, NEW sent \in BOOLEAN
  PROVE  Right(Found(d, i, addr, again, sent), N)
<1>n. PICK n \in NamesZ : n = d.table[i].name
  BY DEF SoundTable, DnsState, EntryType
<1> DEFINE t == Told(d, n, addr)
<1>1. SoundTable(t)
  BY ToldKeeps
<1>2. Right(t, N)
  BY <1>n, ToldRight
<1>3. Found(d, i, addr, again, sent) = IF again = Zero THEN t ELSE Ask(t, again, sent)
  BY <1>n DEF Found
<1> HIDE DEF t
<1>4. again # Zero => again \in Names
  BY DEF NamesZ
<1> QED  BY <1>1, <1>2, <1>3, <1>4, AskRight

LEMMA FlushRight ==
  ASSUME NEW N, NEW d, SoundTable(d), Right(d, N), NEW i \in Entries
  PROVE  Right(Flush(d, i), N)
<1>1. \A j \in Entries :
        Flush(d, i).table[j] = d.table[j] \/ Flush(d, i).table[j].state = "unused"
  BY FlushKeeps
<1>2. Flush(d, i).told = d.told
  BY FlushKeeps
<1> QED  BY <1>1, <1>2, RightKept

LEMMA SetEntryRight ==
  ASSUME NEW N, NEW d, SoundTable(d), Right(d, {}), NEW i \in Entries, NEW e \in EntryType,
         e.state = "done", Matching(e.ipaddr, e.name, N)
  PROVE  Right(SetEntry(d, i, e), N)
<1>1. /\ SetEntry(d, i, e).told = d.told
      /\ \A j \in Entries : SetEntry(d, i, e).table[j] = IF j = i THEN e ELSE d.table[j]
  BY SetEntryKeeps
<1>2. \A addr, name : Matching(addr, name, {}) => Matching(addr, name, N)
  BY DEF Matching
<1> QED  BY <1>1, <1>2 DEF Right, TableFits, ToldFits

(* What AddressesRight says of a step, and what is left of it in the state.   *)
AnswerStep == \A t \in dns'.told : t.addr = Zero \/ Related(t.addr, t.name) \/ LeftOver(t)

AddressStep == TableFits(dns', {}) /\ AnswerStep

LEMMA RightStep ==
  ASSUME Right(dns', {})
  PROVE  AddressStep
<1> QED  BY DEF Right, ToldFits, AnswerStep, AddressStep, Matching

LEMMA CheckEntryRight ==
  ASSUME DnsInv, TableFits(dns, {}), dns_check_entry
  PROVE  Right(dns', {})
<1> DEFINE e == dns.table[entry]
           d == Quiet
<1>1. /\ SoundTable(d) /\ d.table = dns.table /\ entry \in Entries /\ e \in EntryType /\ d.told = {}
  <2>1. entry \in Entries
    BY DnsAssumption DEF DnsInv, dns_check_entry, Entries
  <2> QED  BY <2>1, QuietSound DEF DnsInv, SoundTable, DnsState
<1> HIDE DEF d
<1>2. Right(d, {})
  BY <1>1 DEF Right, TableFits, ToldFits
<1>3. ASSUME dns'.told = d.told, NEW f, dns'.table = [d.table EXCEPT ![entry] = f],
             f.state = e.state /\ f.ipaddr = e.ipaddr /\ f.name = e.name
      PROVE  Right(dns', {})
  <2>1. \A j \in Entries : dns'.table[j] = IF j = entry THEN f ELSE d.table[j]
    BY <1>1, <1>3 DEF SoundTable, DnsState
  <2> QED  BY <1>1, <1>2, <1>3, <2>1 DEF Right, TableFits, ToldFits
<1>4. CASE e.state = "asking"
  <2>1. CheckAsking(e)
    BY <1>4 DEF dns_check_entry
  <2>2. CASE dns' = [d EXCEPT !.table[entry].tmr = @ - 1]
    <3> DEFINE f == [e EXCEPT !.tmr = @ - 1]
    <3>1. f.state = e.state /\ f.ipaddr = e.ipaddr /\ f.name = e.name
      BY <1>1 DEF EntryType
    <3>2. dns'.told = d.told /\ dns'.table = [d.table EXCEPT ![entry] = f]
      BY <1>1, <2>2 DEF SoundTable, DnsState
    <3> HIDE DEF f
    <3> QED  BY <1>3, <1>4, <3>1, <3>2
  <2>3. CASE dns' = [d EXCEPT !.table[entry] = NextServer(@)]
    <3> DEFINE f == NextServer(e)
    <3>1. f.state = e.state /\ f.ipaddr = e.ipaddr /\ f.name = e.name
      BY <1>1 DEF EntryType, NextServer
    <3>2. dns'.told = d.told /\ dns'.table = [d.table EXCEPT ![entry] = f]
      BY <1>1, <2>3 DEF SoundTable, DnsState
    <3> HIDE DEF f
    <3> QED  BY <1>3, <1>4, <3>1, <3>2
  <2>4. CASE \E again \in Again("timeout"), sent \in BOOLEAN :
               dns' = Flush(Found(d, entry, Zero, again, sent), entry)
    <3>1. PICK again \in NamesZ, sent \in BOOLEAN :
                 dns' = Flush(Found(d, entry, Zero, again, sent), entry)
      BY <2>4 DEF Again, NamesZ
    <3> DEFINE g == Found(d, entry, Zero, again, sent)
    <3>2. Zero \in Addresses
      BY DEF Addresses
    <3>3. SoundTable(g) /\ Right(g, {})
      BY <1>1, <1>2, <3>2, FoundKeeps, FoundRight
    <3> HIDE DEF g
    <3>4. dns' = Flush(g, entry)
      BY <3>1 DEF g
    <3> QED  BY <1>1, <3>3, <3>4, FlushRight
  <2>5. CASE \E sent \in BOOLEAN :
               dns' = Send([d EXCEPT !.table[entry].retries = @ + 1,
                                     !.table[entry].tmr = e.retries + 1], entry, sent)
    <3> DEFINE f == [e EXCEPT !.retries = @ + 1, !.tmr = e.retries + 1]
               g == [d EXCEPT !.table[entry].retries = @ + 1,
                              !.table[entry].tmr = e.retries + 1]
    <3>1. f.state = e.state /\ f.ipaddr = e.ipaddr /\ f.name = e.name
      BY <1>1 DEF EntryType
    <3>2. g.told = d.told /\ g.table = [d.table EXCEPT ![entry] = f]
      BY <1>1 DEF SoundTable, DnsState, EntryType
    <3>3. PICK sent \in BOOLEAN : dns' = Send(g, entry, sent)
      BY <2>5
    <3> HIDE DEF f
    <3>4. dns'.told = g.told /\ dns'.table = g.table
      <4>1. g.told = g.told /\ DOMAIN g = {"table", "seqno", "server", "asked", "told", "begun"}
        BY <1>1 DEF SoundTable, DnsState
      <4> HIDE DEF g
      <4> QED  BY <3>3, <4>1 DEF Send
    <3> HIDE DEF g
    <3> QED  BY <1>3, <1>4, <3>1, <3>2, <3>4
  <2> QED  BY <2>1, <2>2, <2>3, <2>4, <2>5 DEF CheckAsking, d
<1>5. CASE e.state = "done"
  <2> DEFINE ttl == (e.ttl - 1) % TtlMod
             f == [e EXCEPT !.ttl = ttl]
  <2>1. dns' = IF ttl = 0 THEN Flush(d, entry) ELSE [d EXCEPT !.table[entry].ttl = ttl]
    BY <1>5 DEF dns_check_entry, CheckDone, d
  <2>2. CASE ttl = 0
    BY <1>1, <1>2, <2>1, <2>2, FlushRight
  <2>3. CASE ttl # 0
    <3>1. f.state = e.state /\ f.ipaddr = e.ipaddr /\ f.name = e.name
      BY <1>1 DEF EntryType
    <3>2. dns'.told = d.told /\ dns'.table = [d.table EXCEPT ![entry] = f]
      BY <1>1, <2>1, <2>3 DEF SoundTable, DnsState
    <3> HIDE DEF f
    <3> QED  BY <1>3, <1>5, <3>1, <3>2
  <2> QED  BY <2>2, <2>3
<1>6. CASE e.state = "unused"
  BY <1>2, <1>6 DEF dns_check_entry, d
<1> QED  BY <1>1, <1>4, <1>5, <1>6 DEF EntryType

LEMMA TakenRight ==
  ASSUME NoTick, NEW d, SoundTable(d), Right(d, {}), d.table = dns.table, d.told = {},
         NEW q \in Query, Taken(d, q)
  PROVE  AddressStep
<1> DEFINE i == q.id
<1>1. /\ i \in Entries /\ q.name \in Names /\ q.name \in Addresses /\ Zero \in Addresses
      /\ d.table[i].state = "asking" /\ d.table[i].ipaddr = Old
  BY DEF Query, Addresses, Taken, Right, TableFits
<1>2. CASE Response(d, q)
  <2>1. PICK ttl \in Ttls, again \in NamesZ, sent \in BOOLEAN :
          dns' = Found(Answered(d, i, ttl, q.name), i, q.name, again, sent)
    BY <1>2 DEF Response, Again, NamesZ, Answered
  <2>2. Matching(q.name, d.table[i].name, {})
    BY <1>2 DEF Response, SameName, Matching, Related
  <2> HIDE DEF i
  <2>3. PICK f \in EntryType :
           /\ f.state = "done" /\ f.name = d.table[i].name /\ f.ipaddr = q.name
           /\ Answered(d, i, ttl, q.name) = SetEntry(d, i, f)
    BY <1>1, AnsweredIs
  <2> DEFINE c == SetEntry(d, i, f)
  <2>4. SoundTable(c) /\ c.table[i] = f
    BY <1>1, <2>3, SetEntryKeeps
  <2>5. Right(c, {})
    BY <1>1, <2>2, <2>3, SetEntryRight
  <2> HIDE DEF c
  <2>6. dns' = Found(c, i, q.name, again, sent)
    BY <2>1, <2>3 DEF c
  <2>7. Right(dns', {})
    BY <1>1, <2>2, <2>3, <2>4, <2>5, <2>6, FoundRight
  <2> QED  BY <2>7, RightStep
<1>3. CASE ResponseErr(d, i)
  <2>1. PICK again \in NamesZ, sent \in BOOLEAN :
          dns' = Flush(Found(Completed(d, i), i, Zero, again, sent), i)
    BY <1>3 DEF ResponseErr, Again, NamesZ
  <2> HIDE DEF i
  <2> DEFINE N == {d.table[i].name}
             c == Completed(d, i)
             g == Found(c, i, Zero, again, sent)
  <2>2. PICK f \in EntryType :
           /\ f.state = "done" /\ f.name = d.table[i].name /\ f.ipaddr = d.table[i].ipaddr
           /\ c = SetEntry(d, i, f)
    BY <1>1, CompletedIs
  <2>3. /\ SoundTable(c)
        /\ \A j \in Entries : c.table[j] = IF j = i THEN f ELSE d.table[j]
    BY <1>1, <2>2, SetEntryKeeps
  <2>4. Matching(f.ipaddr, f.name, N)
    BY <1>1, <2>2 DEF Matching
  <2> HIDE DEF N
  <2>5. Right(c, N)
    BY <1>1, <2>2, <2>4, SetEntryRight
  <2> HIDE DEF c
  <2>6. SoundTable(g) /\ AsksMore(c, g, again) /\ Right(g, N)
    BY <1>1, <2>3, <2>5, FoundKeeps, FoundRight
  <2> HIDE DEF g
  <2>7. dns' = Flush(g, i)
    BY <2>1 DEF g, c
  <2>8. /\ dns'.told = g.told /\ dns'.table[i].state = "unused"
        /\ \A j \in Entries : j # i => dns'.table[j] = g.table[j]
    BY <1>1, <2>6, <2>7, FlushKeeps
  <2>9. TableFits(dns', {})
    <3> SUFFICES ASSUME NEW j \in Entries
                 PROVE  /\ dns'.table[j].state = "done" =>
                              Matching(dns'.table[j].ipaddr, dns'.table[j].name, {})
                        /\ dns'.table[j].state = "asking" => dns'.table[j].ipaddr = Old
      BY DEF TableFits
    <3>1. CASE j = i
      BY <2>8, <3>1
    <3>2. CASE j # i /\ g.table[j] = c.table[j]
      BY <2>3, <2>8, <3>2 DEF Right, TableFits
    <3>3. CASE j # i /\ g.table[j] # c.table[j]
      BY <2>6, <2>8, <3>3 DEF AsksMore, Asking
    <3> QED  BY <3>1, <3>2, <3>3
  <2>10. AnswerStep
    <3> SUFFICES ASSUME NEW t \in dns'.told, t.addr # Zero, ~Related(t.addr, t.name)
                 PROVE  LeftOver(t)
      BY DEF AnswerStep
    <3>1. t.addr = Old /\ t.name = d.table[i].name
      BY <2>6, <2>8 DEF Right, ToldFits, Matching, N
    <3> QED  BY <1>1, <2>8, <3>1 DEF LeftOver
  <2> QED  BY <2>9, <2>10 DEF AddressStep
<1> QED  BY <1>2, <1>3 DEF Taken

LEMMA NextRight ==
  ASSUME DnsInv, TableFits(dns, {}), DnsNext
  PROVE  AddressStep
<1>1. SoundTable(Quiet) /\ Quiet.table = dns.table /\ Quiet.told = {} /\ Quiet.asked = dns.asked
  BY QuietSound DEF DnsInv
<1>2. Right(Quiet, {})
  BY <1>1 DEF Right, TableFits, ToldFits
<1>3. CASE dns_gethostbyname
  <2>1. Right(dns', {})
    BY <1>1, <1>2, <1>3, AskRight DEF dns_gethostbyname
  <2> QED  BY <2>1, RightStep
<1>4. CASE dns_tmr
  BY <1>2, <1>4, RightStep DEF dns_tmr
<1>5. CASE dns_check_entry
  BY <1>5, CheckEntryRight, RightStep
<1>6. CASE dns_recv
  <2>1. PICK q \in dns.asked :
        \/ Taken(Quiet, q)
        \/ LET d == [Quiet EXCEPT !.asked = @ \ {q}] IN Taken(d, q) \/ Dropped(d, q)
    BY <1>6 DEF dns_recv
  <2> DEFINE d == [Quiet EXCEPT !.asked = @ \ {q}]
  <2>2. q \in Query
    BY DEF DnsInv, SoundTable, DnsState
  <2>3. d \in DnsState /\ d.table = Quiet.table /\ d.told = Quiet.told
    BY <1>1 DEF SoundTable, DnsState
  <2> HIDE DEF d
  <2>4. SoundTable(d) /\ Right(d, {})
    BY <1>1, <1>2, <2>3 DEF SoundTable, Asking, Right, TableFits, ToldFits
  <2>5. Taken(Quiet, q) \/ Taken(d, q) \/ dns' = d
    BY <2>1 DEF Dropped, d
  <2>6. NoTick
    BY <1>6 DEF dns_recv
  <2>7. CASE Taken(Quiet, q) \/ Taken(d, q)
    BY <1>1, <1>2, <2>2, <2>3, <2>4, <2>6, <2>7, TakenRight
  <2>8. CASE dns' = d
    BY <2>4, <2>8, RightStep
  <2> QED  BY <2>5, <2>7, <2>8
<1> QED  BY <1>3, <1>4, <1>5, <1>6 DEF DnsNext

TablesRight == TableFits(dns, {})

(* An address in the table is of the name it goes with, or of one of which    *)
(* one begins with the other, and what an entry that is asked for holds is    *)
(* from before.                                                               *)
LEMMA AddressesOfNames == DnsSpec => []TablesRight
<1>1. DnsInit => TablesRight
  BY DEF DnsInit, TablesRight, TableFits, UnusedEntry
<1>2. DnsInv /\ TablesRight /\ [DnsNext]_dnsVars => TablesRight'
  <2>1. ASSUME DnsInv, TablesRight, DnsNext PROVE TablesRight'
    <3>1. AddressStep
      BY <2>1, NextRight DEF TablesRight
    <3> QED  BY <3>1 DEF AddressStep, TablesRight, TableFits
  <2>2. ASSUME TablesRight, UNCHANGED dnsVars PROVE TablesRight'
    BY <2>2 DEF TablesRight, TableFits, dnsVars
  <2> QED  BY <2>1, <2>2
<1> QED  BY <1>1, <1>2, DnsInvariant, PTL DEF DnsSpec

(* However late an answer is, an address goes with the name it was given for  *)
(* or with one of which one begins with the other, as far as names are        *)
(* compared; and only a callback that was told of an error may be given what  *)
(* its entry held before ("answers might arrive late for hostname not on the  *)
(* list any more").                                                           *)
THEOREM DnsAddressesRight == DnsSpec => AddressesRight
<1>1. DnsInv /\ TablesRight /\ [DnsNext]_dnsVars => [AddressStep]_dnsVars
  BY NextRight DEF TablesRight
<1>2. AddressStep =>
        /\ \A i \in Entries :
             LET e == dns'.table[i] IN e.state = "done" => Related(e.ipaddr, e.name)
        /\ \A t \in dns'.told : t.addr = Zero \/ Related(t.addr, t.name) \/ LeftOver(t)
  BY DEF AddressStep, AnswerStep, TableFits, Matching
<1> QED  BY <1>1, <1>2, DnsInvariant, AddressesOfNames, PTL DEF DnsSpec, AddressesRight

-----------------------------------------------------------------------------
(* All of them *)

(* What a step of the program is to each of its parts: a step, or none. *)
LEMMA ResourcesStep ==
  ASSUME [ResourcesNext]_resourceVars
  PROVE  /\ [WndNext]_wndVars /\ [PoolNext]_poolVars /\ [MemNext]_memVars
         /\ [PbufNext]_pbufVars /\ [DnsNext]_dnsVars
BY DEF ResourcesNext, resourceVars, OfWindow, OfPool, OfMem, OfPbuf, OfDns

(* The parts share no variable: what runs is each of them, and the window     *)
(* with the fairness that its timer is given here.                            *)
LEMMA EachRuns ==
  ResourcesSpec => /\ WndInit /\ [][WndNext]_wndVars
                   /\ PoolSpec /\ MemSpec /\ PbufSpec /\ DnsSpec
BY ResourcesStep, PTL DEF ResourcesSpec, ResourcesInit, PoolSpec, MemSpec, PbufSpec, DnsSpec

WndSound == WindowInv /\ MissedOK /\ PendingInv

LEMMA WindowRuns == ResourcesSpec => []WndSound
<1>1. WndInit => WndSound
  BY WindowInit, AckInit DEF WndInit, MissedOK, WndSound
<1>2. WndSound /\ [WndNext]_wndVars => WndSound'
  BY WindowStep, MissedKept, AckStep DEF WndSound, Moved
<1> QED  BY <1>1, <1>2, EachRuns, PTL

(* Sequence numbers, windows, lengths, counters and indices keep the ranges   *)
(* that the code declares for them, and no pointer leads to what was freed,   *)
(* whatever the parts do side by side.                                        *)
THEOREM ResourcesTypes == ResourcesSpec => []ResourcesTypeOK
<1>1. WndSound => WndTypeOK
  BY WindowTypes DEF WndSound
<1> QED  BY <1>1, WindowRuns, EachRuns, PoolTypesKept, ListStaysWhole, PbufTyped, DnsTypes, PTL
         DEF ResourcesTypeOK

(* The program does what its parts promise: the receive buffer is conserved,  *)
(* the peer's promise is kept and nothing is left unsaid, pbufs are sound.    *)
THEOREM ResourcesPromises ==
  ResourcesSpec => [](WindowConserved /\ PromiseKept /\ NothingUnsaid /\ PbufsSound)
<1>1. WndSound => WindowConserved /\ PromiseKept /\ NothingUnsaid
  BY PendingUnacked, PendingOpen
     DEF WndSound, WindowInv, Sound, PromiseKept, NothingUnsaid
<1> QED  BY <1>1, WindowRuns, EachRuns, PbufsStaySound, PTL

(* The announced edge never moves back, the heap implements its promise and   *)
(* requests of names end, whatever else the program does.                     *)
THEOREM ResourcesSteps ==
  ResourcesSpec => EdgeNeverRetreats /\ ImplementsHeap /\ RequestsEnd
<1>1. WndSound /\ [WndNext]_wndVars
        => [pcb'.rcv_ann_right_edge >= pcb.rcv_ann_right_edge]_wndVars
  BY WindowStep DEF WndSound, Moved
<1> QED  BY <1>1, WindowRuns, EachRuns, HeapKeepsItsPromise, DnsRequestsEnd, PTL
         DEF EdgeNeverRetreats

(* The lists of control blocks and the pool agree, where no application opens *)
(* a connection in its error callback.                                        *)
THEOREM ResourcesPool ==
  ASSUME Reconnects = FALSE
  PROVE  ResourcesSpec => []PoolSound
BY PoolInvariant, EachRuns, PTL

(* The addresses of DNS go with the names they were given for, as far as     *)
(* names are compared, whatever else the program does.                        *)
THEOREM ResourcesNames == ResourcesSpec => AddressesRight
BY DnsAddressesRight, EachRuns, PTL

=============================================================================
