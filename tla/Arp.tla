-------------------------------- MODULE Arp --------------------------------
(***************************************************************************)
(* Address resolution: a cache whose entries are free, pending or          *)
(* resolved.  arp_resolve makes a pending entry, broadcasts a request up   *)
(* to ARP_RETRY times and waits for a message from arp_in, which runs in   *)
(* the network input process.  Requests and answers may be lost, late,     *)
(* repeated or reordered: any host's packet may arrive at any time.        *)
(***************************************************************************)
EXTENDS Integers, Message

CONSTANTS Proc,
          Host,          \* the hosts of the network
          ARP_SIZ,       \* entries of the cache
          ARP_RETRY      \* how often a request is sent

Slot == 0 .. ARP_SIZ - 1

VARIABLES
  arpcache,  \* the cache
  proc,      \* the processes' states and messages
  resolve    \* the arp_resolve that a process is in

arpvars == <<arpcache, resolve>>

NoHost == "nohost"
Nobody == "nobody"

\* arhaddr is the host whose hardware address it is, or all zero (NoHost).
FreeEntry ==
  [arstate |-> "free", arpaddr |-> NoHost, arpid |-> Nobody, arhaddr |-> NoHost]

\* "write": about to broadcast a request; "recv": waits for the answer.
NoCall == [at |-> "none", hop |-> NoHost, slot |-> 0, tries |-> 0]

\* The entry that the search for an address finds.
Found(h) == {s \in Slot : arpcache[s].arstate # "free" /\ arpcache[s].arpaddr = h}

First(S) == CHOOSE s \in S : \A t \in S : s <= t

\* (Mutant: the entry is taken without a look at its state.)
ReusableAny == Slot

\* arp_alloc: the free entries or, when there is none, the resolved ones.
Reusable ==
  LET unused == {s \in Slot : arpcache[s].arstate = "free"}
  IN IF unused # {} THEN unused
     ELSE {s \in Slot : arpcache[s].arstate = "resolved"}

-----------------------------------------------------------------------------
(* arp_resolve. *)

\* (Mutant: a second entry is made for an address that is pending.)
ResolveStartAlways(p, h) ==
  /\ resolve[p].at = "none" /\ Reusable # {}
  /\ LET s == First(Reusable)
     IN /\ arpcache' = [arpcache EXCEPT ![s] =
             [FreeEntry EXCEPT !.arstate = "pending", !.arpaddr = h, !.arpid = p]]
        /\ resolve' = [resolve EXCEPT ![p] =
             [at |-> "write", hop |-> h, slot |-> s, tries |-> 0]]
  /\ proc' = [proc EXCEPT ![p].prmsg = NoMsg]

\* The address is not in the cache, and an entry is made for it.  For one that is
\* there, resolved or pending, and in a cache of pending entries the call
\* returns at once and changes nothing.
ResolveStart(p, h) ==
  /\ resolve[p].at = "none" /\ Found(h) = {} /\ Reusable # {}
  /\ LET s == First(Reusable)
     IN /\ arpcache' = [arpcache EXCEPT ![s] =
             [FreeEntry EXCEPT !.arstate = "pending", !.arpaddr = h, !.arpid = p]]
        /\ resolve' = [resolve EXCEPT ![p] =
             [at |-> "write", hop |-> h, slot |-> s, tries |-> 0]]
  /\ proc' = [proc EXCEPT ![p].prmsg = NoMsg]

\* The request is written, which may take a while, and recvtime is called; a
\* message that has come by then ends it at once.
ResolveWait(p) ==
  /\ resolve[p].at = "write"
  /\ resolve' = [resolve EXCEPT ![p].at = "recv"]
  /\ proc' = [proc EXCEPT ![p].prstate =
                IF proc[p].prmsg = NoMsg THEN "rectim" ELSE "ready"]
  /\ UNCHANGED arpcache

\* (Mutant: one request too many.)
ResolveAgainOver(p) ==
  /\ resolve[p].at = "recv" /\ proc[p].prstate = "ready"
  /\ Answer(proc, p) = TIMEOUT /\ resolve[p].tries < ARP_RETRY
  /\ resolve' = [resolve EXCEPT ![p] =
                   [@ EXCEPT !.at = "write", !.tries = resolve[p].tries + 1]]
  /\ proc' = Taken(proc, p)
  /\ UNCHANGED arpcache

\* recvtime has returned TIMEOUT and a request is left.
ResolveAgain(p) ==
  /\ resolve[p].at = "recv" /\ proc[p].prstate = "ready"
  /\ Answer(proc, p) = TIMEOUT /\ resolve[p].tries + 1 < ARP_RETRY
  /\ resolve' = [resolve EXCEPT ![p] =
                   [@ EXCEPT !.at = "write", !.tries = resolve[p].tries + 1]]
  /\ proc' = Taken(proc, p)
  /\ UNCHANGED arpcache

\* (Mutant: the entry stays as it is.)
ResolveTimeoutPending(p) ==
  /\ resolve[p].at = "recv" /\ proc[p].prstate = "ready"
  /\ Answer(proc, p) = TIMEOUT /\ resolve[p].tries + 1 >= ARP_RETRY
  /\ resolve' = [resolve EXCEPT ![p] = NoCall]
  /\ proc' = Taken(proc, p)
  /\ UNCHANGED arpcache

\* It was the last one: the entry is freed.
ResolveTimeout(p) ==
  /\ resolve[p].at = "recv" /\ proc[p].prstate = "ready"
  /\ Answer(proc, p) = TIMEOUT /\ resolve[p].tries + 1 >= ARP_RETRY
  /\ arpcache' = [arpcache EXCEPT ![resolve[p].slot].arstate = "free"]
  /\ resolve' = [resolve EXCEPT ![p] = NoCall]
  /\ proc' = Taken(proc, p)

\* Any other message ends the call and leaves the entry as it is: SYSERR with an
\* error, the others with the hardware address that the entry holds now.
ResolveDone(p) ==
  /\ resolve[p].at = "recv" /\ proc[p].prstate = "ready"
  /\ Answer(proc, p) # TIMEOUT
  /\ resolve' = [resolve EXCEPT ![p] = NoCall]
  /\ proc' = Taken(proc, p)
  /\ UNCHANGED arpcache

-----------------------------------------------------------------------------
(* arp_in. *)

\* (Mutant: the entry is resolved before the address is stored in it.)
LearnLate(h, s) ==
  /\ arpcache' = [arpcache EXCEPT ![s] =
       [@ EXCEPT !.arhaddr = IF arpcache[s].arstate = "pending" THEN @ ELSE h,
                 !.arstate = "resolved"]]
  /\ proc' = IF arpcache[s].arstate = "pending" /\ arpcache[s].arpid \in Proc
             THEN send(proc, arpcache[s].arpid, OK) ELSE proc

\* (Mutant: every packet of the host is reported, not the first only.)
LearnAgain(h, s) ==
  /\ arpcache' = [arpcache EXCEPT ![s] =
                    [@ EXCEPT !.arhaddr = h, !.arstate = "resolved"]]
  /\ proc' = IF arpcache[s].arpid \in Proc
             THEN send(proc, arpcache[s].arpid, OK) ELSE proc

\* The sender is in the cache: its address is stored, and the process that
\* waits for it is told.
Learn(h, s) ==
  /\ arpcache' = [arpcache EXCEPT ![s] =
                    [@ EXCEPT !.arhaddr = h, !.arstate = "resolved"]]
  /\ proc' = IF arpcache[s].arstate = "pending" /\ arpcache[s].arpid \in Proc
             THEN send(proc, arpcache[s].arpid, OK) ELSE proc

\* A packet of host h; forus: a request for this machine's address, which is
\* answered and whose sender is entered.
arp_in(h, forus) ==
  /\ \/ Found(h) # {} /\ Learn(h, First(Found(h)))
     \/ /\ Found(h) = {} /\ forus /\ Reusable # {}
        /\ arpcache' = [arpcache EXCEPT ![First(Reusable)] =
             [FreeEntry EXCEPT !.arstate = "resolved", !.arpaddr = h, !.arhaddr = h]]
        /\ UNCHANGED proc
  /\ UNCHANGED resolve

-----------------------------------------------------------------------------

\* arp_init.
Init ==
  /\ arpcache = [s \in Slot |-> FreeEntry]
  /\ resolve = [p \in Proc |-> NoCall]

\* What a process does inside arp_resolve.
Resolving(p) ==
  ResolveWait(p) \/ ResolveAgain(p) \/ ResolveTimeout(p) \/ ResolveDone(p)
-----------------------------------------------------------------------------
(* Properties. *)

\* The type of the cache and of the calls under way.
TypeOK ==
  /\ arpcache \in [Slot -> [arstate : {"free", "pending", "resolved"},
                            arpaddr : Host \union {NoHost},
                            arpid : Proc \union {Nobody},
                            arhaddr : Host \union {NoHost}]]
  /\ resolve \in [Proc -> [at : {"none", "write", "recv"},
                           hop : Host \union {NoHost}, slot : Slot,
                           tries : 0 .. ARP_RETRY - 1]]

\* No address has two entries: arp_in would update one and leave a process
\* waiting at the other.
OneEntryPerHost == \A h \in Host : \A s, t \in Found(h) : s = t

\* An entry is pending only while the process it names is in arp_resolve for
\* it (arp.h: "Resolution in progress"); otherwise every later call for that
\* address is refused, because "only one process can be waiting at a time".
PendingIsInProgress ==
  \A s \in Slot : arpcache[s].arstate = "pending" =>
    LET p == arpcache[s].arpid
    IN resolve[p].at # "none" /\ resolve[p].slot = s

\* A process inside arp_resolve has its entry: nobody takes it away while the
\* answer is awaited, and a retry or the timeout never touches the entry of
\* another address.
AwaitedIsKept ==
  \A p \in Proc :
    (resolve[p].at # "none" /\ proc[p].prmsg = NoMsg) =>
      LET e == arpcache[resolve[p].slot]
      IN e.arstate = "pending" /\ e.arpaddr = resolve[p].hop /\ e.arpid = p

\* OK reaches a process in arp_resolve only when its entry holds the hardware
\* address it asked for (arp.c: "entry is resolved"): it is neither the message
\* of a packet nor one for a resolution that has ended.  An entry that arp_alloc
\* has given away before the process runs names another process.
AnswerIsOfHop ==
  \A p \in Proc :
    LET e == arpcache[resolve[p].slot]
    IN (resolve[p].at # "none" /\ proc[p].prmsg = OK /\ e.arpid = p) =>
         e.arstate = "resolved" /\ e.arpaddr = resolve[p].hop
           /\ e.arhaddr = resolve[p].hop
=============================================================================
