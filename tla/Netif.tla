------------------------------- MODULE Netif --------------------------------
(***************************************************************************)
(* The Ethernet interface (netif/ethernetif.c, ethernet_input) with the    *)
(* pool its frames are put into and the ARP module above it.               *)
(*                                                                         *)
(* The main loop polls.  When there is no frame the driver answers 0, and  *)
(* a pbuf is allocated all the same: its payload is that of the frame that *)
(* was in it before.  The pool gives the pbuf that was freed last, so what *)
(* freed pbufs hold is part of the state.                                  *)
(***************************************************************************)
EXTENDS Etharp

CONSTANTS
  PBUF_POOL_SIZE,
  Other    \* a payload that is not an IP packet of this network

ASSUME NetifAssumption == PBUF_POOL_SIZE \in Nat /\ Other \notin Addresses

VARIABLES
  arp,        \* cf. Etharp
  pbufs,      \* the payload of the free pbufs of the pool, the next one first
  pbufsheld   \* the payload of those the upper layers keep

netifVars == <<arp, pbufs, pbufsheld>>

(* Payloads: an IP packet from an address, or anything else.  Its frame was   *)
(* sent by the host of that address, but in the case of Self, whose entry, if *)
(* there is one, is of no use to anyone. *)
Payloads == Addresses \cup {Other}

NetifInit ==
  /\ arp = ArpReset
  /\ pbufs = [i \in 1..PBUF_POOL_SIZE |-> Other]
  /\ pbufsheld = <<>>

(* What is sent in a step is that step's. *)
Quiet == [arp EXCEPT !.sent = <<>>]

-----------------------------------------------------------------------------
(* A frame of host h was received: with an IP packet that the layers above    *)
(* free at once or keep, a ping, or an ARP packet. *)

TakeIp(h, keep) ==
  /\ arp' = UpdateArpEntry(Quiet, h, h, FALSE)
  /\ pbufs' = IF keep THEN Tail(pbufs) ELSE <<h>> \o Tail(pbufs)
  /\ pbufsheld' = IF keep THEN Append(pbufsheld, h) ELSE pbufsheld

(* icmp_input answers in the pbuf of the ping: its source is now this host. *)
TakePing(h, copy) ==
  /\ arp' = EtharpQuery(UpdateArpEntry(Quiet, h, h, FALSE), h, copy)
  /\ pbufs' = <<Self>> \o Tail(pbufs)
  /\ UNCHANGED pbufsheld

(* etharp_arp_input.  The sender of a probe has no address yet. *)
TakeArp(ip, forUs) ==
  /\ arp' = UpdateArpEntry(Quiet, ip, ip, forUs)
  /\ pbufs' = <<Other>> \o Tail(pbufs)
  /\ UNCHANGED pbufsheld

(* No frame, or a bad one, and a pbuf of length 0.  An IP packet that is left *)
(* in it updates the table before its length is looked at; an ARP packet, or  *)
(* another type, is dropped.                                                  *)
TakeNothing ==
  LET src == Head(pbufs)
  IN  /\ arp' = IF src = Other THEN Quiet ELSE UpdateArpEntry(Quiet, src, src, FALSE)
      /\ UNCHANGED <<pbufs, pbufsheld>>

(* A frame is taken out of the controller even when there is no pbuf. *)
ethernetif_input ==
  \/ /\ pbufs # <<>>
     /\ \/ TakeNothing
        \/ \E h \in Hosts, keep \in BOOLEAN : TakeIp(h, keep)
        \/ \E h \in Hosts, copy \in BOOLEAN : TakePing(h, copy)
        \/ \E ip \in Hosts \cup {NoAddr}, forUs \in BOOLEAN : TakeArp(ip, forUs)
  \/ /\ pbufs = <<>>
     /\ arp' = Quiet /\ UNCHANGED <<pbufs, pbufsheld>>

-----------------------------------------------------------------------------
(* The layers above *)

(* pbuf_free of a pbuf that was kept: refused data, data out of order, ... *)
ReleasePbuf ==
  \E i \in DOMAIN pbufsheld :
    /\ pbufs' = <<pbufsheld[i]>> \o pbufs
    /\ pbufsheld' = RemoveAt(pbufsheld, i)
    /\ arp' = Quiet

(* A packet for a host of this network; for one outside, ip is the gateway. *)
etharp_output ==
  /\ \E ip \in Hosts, copy \in BOOLEAN : arp' = EtharpQuery(Quiet, ip, copy)
  /\ UNCHANGED <<pbufs, pbufsheld>>

etharp_tmr == arp' = EtharpTmr(Quiet) /\ UNCHANGED <<pbufs, pbufsheld>>

NetifNext == ethernetif_input \/ ReleasePbuf \/ etharp_output \/ etharp_tmr

NetifSpec == NetifInit /\ [][NetifNext]_netifVars /\ WF_netifVars(etharp_tmr)

-----------------------------------------------------------------------------
(* Properties *)

(* The types of the table, and each pbuf of the pool is free or kept. *)
NetifTypeOK ==
  /\ \A i \in ArpIndex :
       /\ arp.table[i].state \in {"EMPTY", "PENDING", "STABLE"}
       /\ arp.table[i].state = "STABLE" => arp.table[i].ctime \in 0..(ARP_MAXAGE - 1)
       /\ arp.table[i].state = "PENDING" => arp.table[i].ctime \in 0..(ARP_MAXPENDING - 1)
       /\ arp.table[i].ipaddr \in Addresses \cup {NoAddr}
  /\ arp.cached \in ArpIndex /\ arp.blocks \in 0..MEMP_NUM_ARP_QUEUE
  /\ ToSet(pbufs) \cup ToSet(pbufsheld) \subseteq Payloads
  /\ Len(pbufs) + Len(pbufsheld) = PBUF_POOL_SIZE

(* An address has one entry, whether it was found through the cached index,   *)
(* by the scan, or made anew in place of another.                             *)
OneEntryPerAddress ==
  \A i, j \in ArpIndex :
    /\ arp.table[i].state # "EMPTY" /\ arp.table[j].state # "EMPTY"
    /\ arp.table[i].ipaddr = arp.table[j].ipaddr
    => i = j

(* The assertions of find_entry and etharp_tmr: packets wait only on pending  *)
(* entries; and no block of MEMP_ARP_QUEUE is lost when entries are resolved, *)
(* expire or are recycled.                                                    *)
QueueBlocksKept ==
  /\ \A i \in ArpIndex : arp.table[i].q # <<>> => arp.table[i].state = "PENDING"
  /\ arp.blocks + Cardinality(QueuedOn(arp, ArpIndex)) = MEMP_NUM_ARP_QUEUE

(* The table of ARP in itself: addresses and queues. *)
ArpTableSound == OneEntryPerAddress /\ QueueBlocksKept

(* Packets for a host go to the hardware address of that host, also when the  *)
(* pbuf of an older frame is taken for a new one.                             *)
SentToItsHost == \A k \in DOMAIN arp.sent : arp.sent[k].to = arp.sent[k].ip

(* Packets for one host leave in the order they came: those that leave        *)
(* together, and none while an earlier one waits.                             *)
SentInOrder ==
  /\ \A k, l \in DOMAIN arp.sent : k < l => arp.sent[k].n < arp.sent[l].n
  /\ \A k \in DOMAIN arp.sent, i \in ArpIndex :
       arp.table[i].ipaddr = arp.sent[k].ip =>
         \A n \in ToSet(arp.table[i].q) : arp.sent[k].n < n
  /\ \A i \in ArpIndex : \A m, n \in DOMAIN arp.table[i].q :
       m < n => arp.table[i].q[m] < arp.table[i].q[n]

(* What ARP sends goes where it should, in the order it came. *)
SentRightly == SentToItsHost /\ SentInOrder

(* What waits for an address does not wait for ever: the host answers,        *)
(* another address takes the entry, or it expires, however many packets more  *)
(* come for it.                                                               *)
Waits(ip) == \E i \in ArpIndex : arp.table[i].ipaddr = ip /\ arp.table[i].q # <<>>

QueuesDrain == \A ip \in Hosts : Waits(ip) ~> ~Waits(ip)
=============================================================================
