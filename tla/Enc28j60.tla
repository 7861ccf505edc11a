------------------------------ MODULE Enc28j60 ------------------------------
(***************************************************************************)
(* The driver of the Ethernet controller (HARDWARE/ENC28J60/enc28j60.c):   *)
(* the ring that the controller fills with frames while the main loop      *)
(* empties it, one access to a register at a time, and the resets of a     *)
(* controller that seems to have stopped.                                  *)
(*                                                                         *)
(* The controller is external.  It writes a frame after the last one, with *)
(* the address of the next and a status before it, if there is room up to  *)
(* ERXRDPT and EPKTCNT is not at its limit (data sheet, 7.2.4).  It may    *)
(* stop receiving.  A header may get damaged: its status shows it, or the  *)
(* status is good and the address of the next frame is wrong, somewhere in *)
(* the ring.  The driver cannot tell and goes on from there: what it reads *)
(* next may be anything, and it gives back the wrong room.                 *)
(***************************************************************************)
EXTENDS Integers, SequencesExt

CONSTANTS
  RXSTOP_INIT,                    \* the last byte of the ring; the first is 0
  FrameSizes,                     \* what a frame takes in the ring: even
  EPKTCNT_MAX,                    \* 255: no frame is accepted beyond
  ENC28J60_BREAKDOWN_THRESHOLD    \* idle polls before a reset

RXSTART_INIT == 0
Ring == RXSTART_INIT..RXSTOP_INIT

ASSUME EncAssumption ==
  /\ RXSTOP_INIT \in Nat /\ RXSTOP_INIT % 2 = 1
  /\ \A s \in FrameSizes : s \in Ring /\ s > 0 /\ s % 2 = 0
  /\ EPKTCNT_MAX \in Nat /\ ENC28J60_BREAKDOWN_THRESHOLD \in Nat \ {0}

VARIABLES
  chip,   \* the controller: ERXWRPT, ERXRDPT, RXEN, whether it hangs, and the
          \* frames that EPKTCNT counts, each with its place and its header,
          \* which is good, shows that it is bad, or lies about the next place
  enc     \* the driver: where in Packet_Receive or Full_Reset it is,
          \* NextPacketPtr and ENC_BreakDown_Cnt; and, which it cannot know,
          \* whether it followed a wrong address since the last reset

encVars == <<chip, enc>>

(* After ENC28J60_Init; without RXEN the other registers do not matter. *)
Initialized == [wrpt |-> RXSTART_INIT, rdpt |-> RXSTART_INIT, rxen |-> TRUE,
                hung |-> FALSE, frames |-> <<>>]

EncInit ==
  /\ chip = Initialized
  /\ enc = [pc |-> "idle", NextPacketPtr |-> RXSTART_INIT, BreakDown |-> 0, stray |-> FALSE]

After(a, n) == (a + n) % (RXSTOP_INIT + 1)

-----------------------------------------------------------------------------
(* The controller *)

FreeSpace == After(chip.rdpt, RXSTOP_INIT - chip.wrpt)

Arrive(size) ==
  /\ chip.rxen /\ ~chip.hung /\ size <= FreeSpace /\ Len(chip.frames) < EPKTCNT_MAX
  /\ chip' = [chip EXCEPT !.wrpt = After(@, size),
                 !.frames = Append(@, [at |-> chip.wrpt, size |-> size, header |-> "good"])]
  /\ UNCHANGED enc

Hang == chip.rxen /\ chip' = [chip EXCEPT !.hung = TRUE] /\ UNCHANGED enc

(* The header that is read next. *)
Damage ==
  /\ chip.frames # <<>>
  /\ \E header \in {"bad", "lies"} : chip' = [chip EXCEPT !.frames[1].header = header]
  /\ UNCHANGED enc

-----------------------------------------------------------------------------
(* ENC28J60_Packet_Receive *)

(* Bug: the count of idle polls is lost from one call to the next. *)
CountedAnew(count) == 1

Counted(count) == count + 1

(* EPKTCNT is read. *)
Poll ==
  /\ enc.pc = "idle"
  /\ IF chip.frames # <<>>
     THEN enc' = [enc EXCEPT !.BreakDown = 0, !.pc = "header"]
     ELSE LET count == Counted(enc.BreakDown)
          IN  enc' = IF count >= ENC28J60_BREAKDOWN_THRESHOLD
                     THEN [enc EXCEPT !.BreakDown = 0, !.pc = "reset"]
                     ELSE [enc EXCEPT !.BreakDown = count]
  /\ UNCHANGED chip

(* What is read of the header of f.                                          *)
Says(f, next, ok) ==
  /\ ok <=> f.header # "bad"
  /\ f.header = "good" => next = After(f.at, f.size)

(* The header at NextPacketPtr.  Where no frame begins, and after a wrong     *)
(* address, which leads to a frame only by chance, anything may be read.      *)
Header ==
  /\ enc.pc = "header"
  /\ \E next \in Ring, ok \in BOOLEAN :
       /\ \A f \in ToSet(chip.frames) :
            ~enc.stray /\ f.at = enc.NextPacketPtr => Says(f, next, ok)
       /\ LET oldest == chip.frames[1] IN
          enc' = [enc EXCEPT !.NextPacketPtr = next, !.pc = IF ok THEN "copy" ELSE "reset",
                    !.stray = @ \/ (ok /\ next # After(oldest.at, oldest.size))]
  /\ UNCHANGED chip

(* Errata, 14: ERXRDPT has to be odd. *)
nextpackptr_odd(next) == IF next = RXSTART_INIT THEN RXSTOP_INIT ELSE next - 1

(* The frame is copied, and only then its room is given back. *)
Copy ==
  /\ enc.pc = "copy"
  /\ chip' = [chip EXCEPT !.rdpt = nextpackptr_odd(enc.NextPacketPtr)]
  /\ enc' = [enc EXCEPT !.pc = "decrement"]

(* ECON2_PKTDEC *)
Decrement ==
  /\ enc.pc = "decrement"
  /\ chip' = [chip EXCEPT !.frames = IF @ = <<>> THEN @ ELSE Tail(@)]
  /\ enc' = [enc EXCEPT !.pc = "idle"]

-----------------------------------------------------------------------------
(* ENC28J60_Full_Reset *)

SoftReset ==
  /\ enc.pc = "reset"
  /\ chip' = [chip EXCEPT !.rxen = FALSE, !.hung = FALSE, !.frames = <<>>]
  /\ enc' = [enc EXCEPT !.pc = "clock"]

(* CLKRDY is not seen in time: the result is ignored. *)
ResetFails ==
  /\ enc.pc = "clock"
  /\ enc' = [enc EXCEPT !.pc = "idle"]
  /\ UNCHANGED chip

(* Bug: the driver goes on from where it read last. *)
RestartedThere(next) == next

RestartedAt(next) == RXSTART_INIT

(* The registers are written again, RXEN last. *)
Initialize ==
  /\ enc.pc = "clock"
  /\ chip' = Initialized
  /\ enc' = [enc EXCEPT !.pc = "idle", !.NextPacketPtr = RestartedAt(@), !.stray = FALSE]

(* A key of the board resets the controller between two calls; another does   *)
(* so after ENC28J60_RX_Reset, of which that leaves NextPacketPtr.            *)
KeyReset ==
  /\ enc.pc = "idle"
  /\ \E next \in {enc.NextPacketPtr, RXSTART_INIT} :
       enc' = [enc EXCEPT !.NextPacketPtr = next, !.pc = "reset"]
  /\ UNCHANGED chip

ENC28J60_Packet_Receive == Poll \/ Header \/ Copy \/ Decrement \/ SoftReset \/ ResetFails \/ Initialize

EncNext ==
  \/ ENC28J60_Packet_Receive
  \/ KeyReset \/ Hang \/ Damage
  \/ \E size \in FrameSizes : Arrive(size)

(* The main loop calls the driver again and again, and a controller that is   *)
(* reset often enough comes up.                                               *)
EncSpec == EncInit /\ [][EncNext]_encVars
           /\ WF_encVars(ENC28J60_Packet_Receive) /\ SF_encVars(Initialize)

-----------------------------------------------------------------------------
(* Properties *)

Unread == IF enc.pc = "decrement" THEN Tail(chip.frames) ELSE chip.frames

FirstUnread == IF Unread = <<>> THEN chip.wrpt ELSE Unread[1].at

Area(a, size) == {After(a, n) : n \in 0..(size - 1)}

(* While the controller receives and no address was wrong that the driver     *)
(* followed since the last reset, the two agree on the ring, across wraps,    *)
(* headers that show their damage, and resets, those that fail too, which     *)
(* undo a wrong address as well: a frame that has not been copied, the one    *)
(* being copied among them, is not in the room that the controller may write, *)
(* and between two calls NextPacketPtr is where the oldest one is, or the     *)
(* next will be.  Once a frame was taken, ERXRDPT is odd and just before it.  *)
RingInStep ==
  chip.rxen /\ ~enc.stray =>
    /\ enc.pc = "idle" => enc.NextPacketPtr = FirstUnread
    /\ enc.pc = "decrement" => chip.frames # <<>>
    /\ chip.rdpt # RXSTART_INIT => chip.rdpt % 2 = 1 /\ After(chip.rdpt, 1) = FirstUnread
    /\ \A i \in DOMAIN Unread :
         Area(Unread[i].at, Unread[i].size) \cap Area(chip.wrpt, FreeSpace) = {}

(* The controller can receive a frame: it runs, and has room for one.         *)
Receives ==
  chip.rxen /\ ~chip.hung /\ \E size \in FrameSizes : size <= FreeSpace

(* A controller that has stopped is found and brought back by the resets; so  *)
(* is one whose ERXRDPT, set from a wrong address, leaves it no room.         *)
ReceiverRecovers == []<>Receives

(* Frames in the ring are taken, or lost in a reset.                          *)
FramesLeave == chip.frames # <<>> ~> enc.pc \in {"decrement", "clock"}

(* The driver serves the ring, whatever the controller does.                  *)
ReceiverServes == ReceiverRecovers /\ FramesLeave
=============================================================================
