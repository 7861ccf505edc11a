------------------------------- MODULE Board --------------------------------
(***************************************************************************)
(* The parts of the board's program around TCP, checked side by side.      *)
(*                                                                         *)
(* They share no variable: the clock and its timers, the keys, the         *)
(* interface with ARP, reassembly, the Ethernet controller.  Each passes   *)
(* the others only calls and frames, which every part takes in any order   *)
(* as it is.  A behaviour of all of them is therefore one of each,         *)
(* interleaved, and a property of one is decided by that part alone: the   *)
(* initial state chooses it and the others rest.                           *)
(***************************************************************************)
EXTENDS Clock, Keys, Netif, IpReass, Enc28j60

VARIABLE part   \* the one that is looked at

boardVars == <<clockVars, keysVars, netifVars, reassVars, encVars, part>>

BoardInit ==
  /\ ClockInit /\ KeysInit /\ NetifInit /\ ReassInit /\ EncInit
  /\ part \in {"clock", "keys", "netif", "reass", "enc"}

OfClock(A) == part = "clock" /\ A
              /\ UNCHANGED <<keysVars, netifVars, reassVars, encVars, part>>
OfKeys(A)  == part = "keys" /\ A
              /\ UNCHANGED <<clockVars, netifVars, reassVars, encVars, part>>
OfNetif(A) == part = "netif" /\ A
              /\ UNCHANGED <<clockVars, keysVars, reassVars, encVars, part>>
OfReass(A) == part = "reass" /\ A
              /\ UNCHANGED <<clockVars, keysVars, netifVars, encVars, part>>
OfEnc(A)   == part = "enc" /\ A
              /\ UNCHANGED <<clockVars, keysVars, netifVars, reassVars, part>>

BoardNext ==
  \/ OfClock(ClockNext)
  \/ OfKeys(KeysNext)
  \/ OfNetif(NetifNext)
  \/ OfReass(ReassNext)
  \/ OfEnc(EncNext)

(* The fairness of the parts, cf. their specifications.  As only one part     *)
(* ever moves, fairness of a disjunction is fairness of each disjunct.        *)
BoardFairness ==
  /\ WF_boardVars(\/ OfClock(SysTick_ISR) \/ OfKeys(bsp_KeyScan)
                  \/ OfNetif(etharp_tmr) \/ OfReass(ip_reass_tmr))
  /\ WF_boardVars(OfClock(MainLoop) \/ OfKeys(bsp_GetKey)
                  \/ OfEnc(ENC28J60_Packet_Receive))
  /\ SF_boardVars(OfEnc(Initialize))

BoardSpec == BoardInit /\ [][BoardNext]_boardVars /\ BoardFairness

(* The variables of the parts keep their ranges: ages, counters and indices   *)
(* that the code declares in 8 and 16 bits and never tests.                   *)
BoardTypeOK ==
  ClockTypeOK /\ KeysTypeOK /\ NetifTypeOK /\ ReassTypeOK
=============================================================================
