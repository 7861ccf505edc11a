-------------------------------- MODULE Keys --------------------------------
(***************************************************************************)
(* The keys of the board (bsp_key.c): every ten interrupts of the clock    *)
(* bsp_KeyScan reads the keys, filters what it reads and puts codes into a *)
(* ring; the main loop takes them out, and is interrupted between any two  *)
(* of its accesses.                                                        *)
(***************************************************************************)
EXTENDS Naturals, Sequences

CONSTANTS
  KeyIds,            \* the keys
  KEY_FILTER_TIME,   \* scans that are filtered out
  KEY_FIFO_SIZE,
  LongTime,          \* scans until a key that is held is a long one
  RepeatSpeed        \* scans between two repetitions then, 0 for none

ASSUME KeysAssumption ==
  /\ KEY_FILTER_TIME \in Nat \ {0} /\ KEY_FIFO_SIZE \in Nat \ {0, 1}
  /\ LongTime \in Nat \ {0} /\ RepeatSpeed \in Nat

VARIABLES
  s_tBtn,     \* for each key: Count, State, LongCount, RepeatCount
  s_tKey,     \* the ring: Buf, Read, Write
  getkey,     \* bsp_GetKey in the main loop: pc, what it read, and what it
              \* returned last
  toscan,     \* the keys that the running interrupt has still to look at
  keyhist     \* history: row, how the last scans in a row read each key, and
              \* how many they are; odd, the parity of the scans; codes, the
              \* codes not taken yet; overrun, there have been too many

keysVars == <<s_tBtn, s_tKey, getkey, toscan, keyhist>>

FifoIndex == 0..(KEY_FIFO_SIZE - 1)
KEY_NONE  == <<>>
Code(key, what) == <<key, what>>

KeysInit ==
  /\ s_tBtn = [k \in KeyIds |-> [Count |-> KEY_FILTER_TIME \div 2, State |-> 0,
                                 LongCount |-> 0, RepeatCount |-> 0]]
  /\ s_tKey = [Buf |-> [i \in FifoIndex |-> KEY_NONE], Read |-> 0, Write |-> 0]
  /\ getkey = [pc |-> "test", ret |-> KEY_NONE, wrong |-> FALSE]
  /\ toscan = {}
  /\ keyhist = [odd |-> FALSE, row |-> [k \in KeyIds |-> [down |-> FALSE, n |-> 0]],
                codes |-> <<>>, overrun |-> FALSE]

-----------------------------------------------------------------------------
(* bsp_DetectKey: the button afterwards, and the codes it puts *)

Result(b, codes) == [btn |-> b, codes |-> codes]

(* What a key that is held does after the filter. *)
HeldLong(b, key) ==
  CASE b.LongCount < LongTime ->
         Result([b EXCEPT !.LongCount = @ + 1],
                IF b.LongCount + 1 = LongTime THEN <<Code(key, "long")>> ELSE <<>>)
    [] b.LongCount >= LongTime /\ RepeatSpeed > 0 /\ b.RepeatCount + 1 >= RepeatSpeed ->
         Result([b EXCEPT !.RepeatCount = 0], <<Code(key, "down")>>)
    [] b.LongCount >= LongTime /\ RepeatSpeed > 0 /\ b.RepeatCount + 1 < RepeatSpeed ->
         Result([b EXCEPT !.RepeatCount = @ + 1], <<>>)
    [] OTHER -> Result(b, <<>>)

DetectDown(b, key) ==
  LET long == HeldLong([b EXCEPT !.State = 1], key)
  IN  CASE b.Count < KEY_FILTER_TIME -> Result([b EXCEPT !.Count = KEY_FILTER_TIME], <<>>)
        [] b.Count \in KEY_FILTER_TIME..(2 * KEY_FILTER_TIME - 1) ->
             Result([b EXCEPT !.Count = @ + 1], <<>>)
        [] OTHER -> [long EXCEPT !.codes =
                       (IF b.State = 0 THEN <<Code(key, "down")>> ELSE <<>>) \o @]

(* Bug: a reading that bounces takes one off the count. *)
DetectUpGentle(b, key) ==
  IF b.Count > 0
  THEN Result([b EXCEPT !.Count = @ - 1, !.LongCount = 0, !.RepeatCount = 0], <<>>)
  ELSE Result([b EXCEPT !.State = 0, !.LongCount = 0, !.RepeatCount = 0],
              IF b.State = 1 THEN <<Code(key, "up")>> ELSE <<>>)

DetectUp(b, key) ==
  LET c == [b EXCEPT !.LongCount = 0, !.RepeatCount = 0]
  IN  CASE b.Count > KEY_FILTER_TIME -> Result([c EXCEPT !.Count = KEY_FILTER_TIME], <<>>)
        [] b.Count \in 1..KEY_FILTER_TIME -> Result([c EXCEPT !.Count = @ - 1], <<>>)
        [] OTHER -> Result([c EXCEPT !.State = 0],
                           IF b.State = 1 THEN <<Code(key, "up")>> ELSE <<>>)

bsp_DetectKey(b, key, down) == IF down THEN DetectDown(b, key) ELSE DetectUp(b, key)

-----------------------------------------------------------------------------
(* The ring *)

NextIndex(i) == IF i + 1 >= KEY_FIFO_SIZE THEN 0 ELSE i + 1

(* Bug: the index is advanced before the code is stored. *)
bsp_PutKeyEarly(ring, code) ==
  [ring EXCEPT !.Buf[NextIndex(ring.Write)] = code, !.Write = NextIndex(ring.Write)]

(* bsp_PutKey does not look whether there is room. *)
bsp_PutKey(ring, code) ==
  [ring EXCEPT !.Buf[ring.Write] = code, !.Write = NextIndex(ring.Write)]

(* The history of the ring: the codes that wait, unless there are too many.   *)
Note(h, code) ==
  IF Len(h.codes) + 1 >= KEY_FIFO_SIZE \/ h.overrun THEN [h EXCEPT !.codes = <<>>, !.overrun = TRUE]
  ELSE [h EXCEPT !.codes = Append(@, code)]

(* A key gives two codes at most, the first one first. *)
InTurn(Op(_, _), x, codes) ==
  CASE Len(codes) = 0 -> x
    [] Len(codes) = 1 -> Op(x, codes[1])
    [] OTHER          -> Op(Op(x, codes[1]), codes[2])

Limit == KEY_FILTER_TIME + LongTime + 1
Capped(n) == IF n > Limit THEN Limit ELSE n

Readings(r, down) == [down |-> down, n |-> Capped(IF r.down = down THEN r.n + 1 ELSE 1)]

(* The interrupt looks at one key after the other. *)
bsp_KeyScan ==
  LET left == IF toscan = {} THEN KeyIds ELSE toscan
  IN  \E k \in left, down \in BOOLEAN :
        LET got == bsp_DetectKey(s_tBtn[k], k, down)
        IN  /\ s_tBtn' = [s_tBtn EXCEPT ![k] = got.btn]
            /\ s_tKey' = InTurn(bsp_PutKey, s_tKey, got.codes)
            /\ keyhist' = [InTurn(Note, keyhist, got.codes)
                             EXCEPT !.row[k] = Readings(@, down), !.odd = ~@]
            /\ toscan' = left \ {k}
            /\ UNCHANGED getkey

-----------------------------------------------------------------------------
(* bsp_GetKey, one access to the ring at a time, never inside the interrupt *)

GetTest ==
  /\ toscan = {} /\ getkey.pc = "test"
  /\ getkey' = IF s_tKey.Read = s_tKey.Write THEN [getkey EXCEPT !.ret = KEY_NONE]
               ELSE [getkey EXCEPT !.pc = "load"]
  /\ UNCHANGED <<s_tBtn, s_tKey, toscan, keyhist>>

GetLoad ==
  /\ toscan = {} /\ getkey.pc = "load"
  /\ getkey' = [getkey EXCEPT !.pc = "advance", !.ret = s_tKey.Buf[s_tKey.Read]]
  /\ UNCHANGED <<s_tBtn, s_tKey, toscan, keyhist>>

GetAdvance ==
  /\ toscan = {} /\ getkey.pc = "advance"
  /\ s_tKey' = [s_tKey EXCEPT !.Read = NextIndex(@)]
  /\ getkey' = [getkey EXCEPT !.pc = "test",
                  !.wrong = ~keyhist.overrun /\ getkey.ret # Head(keyhist.codes)]
  /\ keyhist' = [keyhist EXCEPT !.codes = IF @ = <<>> THEN @ ELSE Tail(@)]
  /\ UNCHANGED <<s_tBtn, toscan>>

bsp_GetKey == GetTest \/ GetLoad \/ GetAdvance

KeysNext == bsp_KeyScan \/ bsp_GetKey

KeysSpec == KeysInit /\ [][KeysNext]_keysVars /\ WF_keysVars(bsp_KeyScan) /\ WF_keysVars(bsp_GetKey)

-----------------------------------------------------------------------------
(* Properties *)

(* The types of s_tBtn and s_tKey. *)
KeysTypeOK ==
  /\ \A k \in KeyIds :
       /\ s_tBtn[k].Count \in 0..(2 * KEY_FILTER_TIME) /\ s_tBtn[k].State \in {0, 1}
       /\ s_tBtn[k].LongCount \in 0..LongTime /\ s_tBtn[k].RepeatCount \in 0..RepeatSpeed
  /\ s_tKey.Read \in FifoIndex /\ s_tKey.Write \in FifoIndex

(* While fewer codes than KEY_FIFO_SIZE wait, the main loop gets each code    *)
(* once, in the order of the scans, though a scan may interrupt bsp_GetKey    *)
(* anywhere and nothing is masked.                                            *)
KeysInOrder ==
  /\ ~getkey.wrong
  /\ ~keyhist.overrun =>
       /\ (s_tKey.Write + KEY_FIFO_SIZE - s_tKey.Read) % KEY_FIFO_SIZE = Len(keyhist.codes)
       /\ \A i \in DOMAIN keyhist.codes :
            s_tKey.Buf[(s_tKey.Read + i - 1) % KEY_FIFO_SIZE] = keyhist.codes[i]

(* A key is taken as pressed or released only after more than KEY_FILTER_TIME *)
(* equal readings in a row, and as held long after LongTime more: a reading   *)
(* that bounces starts them again.                                            *)
Debounced ==
  [][\A k \in KeyIds :
       /\ s_tBtn'[k].State # s_tBtn[k].State => keyhist'.row[k].n > KEY_FILTER_TIME
       /\ s_tBtn'[k].LongCount = LongTime /\ s_tBtn[k].LongCount # LongTime
            => keyhist'.row[k].n >= KEY_FILTER_TIME + LongTime]_keysVars

(* A key that stays pressed is taken as pressed, one that stays released as   *)
(* released.                                                                  *)
KeySeen ==
  \A k \in KeyIds :
    /\ <>[](keyhist.row[k].down) => <>[](s_tBtn[k].State = 1)
    /\ <>[](~keyhist.row[k].down) => <>[](s_tBtn[k].State = 0)

(* The filter neither takes a bounce for a key nor hides a key that is held.  *)
KeysFiltered == Debounced /\ KeySeen
=============================================================================
