------------------------------ MODULE Resources -----------------------------
(***************************************************************************)
(* What the program may run out of, checked side by side: the receive      *)
(* window and the pool of control blocks of TCP, the heap, the pbufs, the  *)
(* table of the DNS client.                                                *)
(*                                                                         *)
(* They share no variable, and each takes the calls of the others in any   *)
(* order as it is.  So the initial state chooses one, as in Board.         *)
(***************************************************************************)
EXTENDS RcvWindow, TcpPool, Mem, Pbuf, Dns

VARIABLE resource   \* the one that is looked at

resourceVars == <<wndVars, poolVars, memVars, pbufVars, dnsVars, resource>>

ResourcesInit ==
  /\ WndInit /\ PoolInit /\ MemInit /\ PbufInit /\ DnsInit
  /\ resource \in {"window", "pool", "mem", "pbuf", "dns"}

OfWindow(A) == resource = "window" /\ A
               /\ UNCHANGED <<poolVars, memVars, pbufVars, dnsVars, resource>>
OfPool(A)   == resource = "pool" /\ A
               /\ UNCHANGED <<wndVars, memVars, pbufVars, dnsVars, resource>>
OfMem(A)    == resource = "mem" /\ A
               /\ UNCHANGED <<wndVars, poolVars, pbufVars, dnsVars, resource>>
OfPbuf(A)   == resource = "pbuf" /\ A
               /\ UNCHANGED <<wndVars, poolVars, memVars, dnsVars, resource>>
OfDns(A)    == resource = "dns" /\ A
               /\ UNCHANGED <<wndVars, poolVars, memVars, pbufVars, resource>>

ResourcesNext ==
  \/ OfWindow(WndNext)
  \/ OfPool(PoolNext)
  \/ OfMem(MemNext)
  \/ OfPbuf(PbufNext)
  \/ OfDns(DnsNext)

(* tcp_tmr runs for as long as the program does; cf. WndFairness.             *)
ResourcesSpec == /\ ResourcesInit /\ [][ResourcesNext]_resourceVars
                 /\ WF_<<pcb, refused_data, unread, fin>>(OfWindow(FastTimer))

(* Sequence numbers, windows, lengths, counters and indices keep the ranges   *)
(* that the code declares for them, without a test where it subtracts; no     *)
(* pointer leads to what was freed.                                           *)
ResourcesTypeOK == WndTypeOK /\ PoolTypeOK /\ MemTypeOK /\ PbufTypeOK /\ DnsTypeOK
=============================================================================
