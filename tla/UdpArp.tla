------------------------------- MODULE UdpArp -------------------------------
(***************************************************************************)
(* UDP and address resolution together.  Sending a datagram resolves its   *)
(* next hop inside ip_send, so that the same process waits for messages    *)
(* of arp_in in one call and of udp_in in the next; both say OK.           *)
(***************************************************************************)
EXTENDS Udp

CONSTANTS ARP_SIZ, ARP_RETRY,
          Hop,      \* the hosts of the local network, gateways included
          Anytime   \* whether other programs send to a process in arp_resolve

ASSUME ArpAssumption ==
  ARP_SIZ \in Nat \ {0} /\ ARP_RETRY \in Nat \ {0} /\ Anytime \in BOOLEAN

VARIABLES arpcache, resolve

arpvars == <<arpcache, resolve>>
allvars == <<vars, arpvars>>

A == INSTANCE Arp WITH Host <- Hop

\* ip_send has the datagram of p and needs the hardware address of h, once.
Resolves(p, h) ==
  /\ call[p].op = "send" /\ call[p].buf # NoBuf
  /\ A!ResolveStart(p, h)
  /\ call' = [call EXCEPT ![p].op = "resolve"]
  /\ UNCHANGED <<udptab, free, packet, owner>>

Resolving(p) ==
  A!Resolving(p) /\ UNCHANGED <<udptab, free, packet, call, owner>>

\* The datagram is sent, or dropped because its hop is unknown; a hop that is in
\* the cache, or a broadcast, needs no resolution.
Sent(p) == resolve[p].at = "none" /\ udp_sendDone(p)

Disturbs(p, m) ==
  /\ Anytime \/ resolve[p].at = "none"
  /\ ForeignMessage(p, m)

\* An ARP packet of any host, an answer or a request for this machine.
ArpArrival ==
  /\ \E h \in Hop, forus \in BOOLEAN : A!arp_in(h, forus)
  /\ UNCHANGED <<udptab, free, packet, call, owner>>

\* The steps of UDP, which leave the cache alone.
UdpSteps(p) ==
  Calls(p) \/ udp_recvResume(p) \/ Timeout(p) \/ udp_sendFill(p) \/ Sent(p)

ComposedInit == Init /\ A!Init

ComposedNext ==
  \/ Arrival /\ UNCHANGED arpvars
  \/ ArpArrival
  \/ \E p \in Proc :
       \/ UdpSteps(p) /\ UNCHANGED arpvars
       \/ \E m \in Foreign : Disturbs(p, m) /\ UNCHANGED arpvars
       \/ \E h \in Hop : Resolves(p, h)
       \/ Resolving(p)

ComposedSpec == ComposedInit /\ [][ComposedNext]_allvars
-----------------------------------------------------------------------------
(* Properties: those of the parts, of the composition. *)

\* The type of the endpoint table, of the cache and of the calls under way.
AllTypeOK == TypeOK /\ A!TypeOK

\* A host has one entry in the cache that arp_in and arp_resolve share.
OneEntryPerHost == A!OneEntryPerHost

\* While arp_resolve awaits the answer, its entry stays its own.
AwaitedIsKept == A!AwaitedIsKept

\* A pending entry is one that a process in arp_resolve waits for.
PendingIsInProgress == A!PendingIsInProgress

\* OK in arp_resolve means that the entry holds the address asked for.
AnswerIsOfHop == A!AnswerIsOfHop
=============================================================================
