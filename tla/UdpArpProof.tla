---------------------------- MODULE UdpArpProof -----------------------------
(***************************************************************************)
(* The steps of address resolution keep the invariant of UdpStepProof, and *)
(* what follows from it: every safety property of UDP with address         *)
(* resolution, for every value of the constants.                           *)
(***************************************************************************)
EXTENDS UdpStepProof, FiniteSetTheorems

(* Address resolution. *)

USE DEF A!NoMsg, A!OK, A!TIMEOUT, NoMsg, OK, TIMEOUT

\* The types of a cache entry and of a call of arp_resolve.
EntryType == [arstate : {"free", "pending", "resolved"},
              arpaddr : Hop \union {A!NoHost}, arpid : Proc \union {A!Nobody},
              arhaddr : Hop \union {A!NoHost}]

ResolveType == [at : {"none", "write", "recv"}, hop : Hop \union {A!NoHost},
                slot : A!Slot, tries : 0 .. ARP_RETRY - 1]

\* The types of the cache and of the calls of arp_resolve, now and next.
LEMMA ArpTypes ==
  /\ A!TypeOK <=> /\ arpcache \in [A!Slot -> EntryType]
                  /\ resolve \in [Proc -> ResolveType]
  /\ A!TypeOK' <=> /\ arpcache' \in [A!Slot -> EntryType]
                   /\ resolve' \in [Proc -> ResolveType]
  BY DEF A!TypeOK, EntryType, ResolveType

\* The parts of the invariant that are UDP's, after a step of address resolution.
LEMMA UdpKept ==
  ASSUME IInv, UNCHANGED <<udptab, free, packet, owner, call>>,
         proc' \in [Proc -> MsgType], A!TypeOK',
         \A p \in Proc : call[p].op = "recv" => proc'[p].prmsg = proc[p].prmsg
  PROVE  AllTypeOK' /\ Waits' /\ Rings' /\ Places' /\ Matched'
<1>. USE DEF IInv
<1>1. AllTypeOK'
  BY Types, TypesNext
<1>2. Waits'
  BY WaitsKept
<1>3. Rings' /\ Places'
  BY PlacesKept DEF Places, HeldOnce
<1>. QED
  BY <1>1, <1>2, <1>3, MatchedKept

\* arp_alloc finds an entry that nobody waits for.
LEMMA ReusableEntry ==
  ASSUME A!Reusable # {}
  PROVE  /\ A!First(A!Reusable) \in A!Slot
         /\ arpcache[A!First(A!Reusable)].arstate # "pending"
<1>1. A!Reusable \in SUBSET Nat
  BY Zenon, Slots DEF A!Reusable
<1>2. A!First(A!Reusable) \in A!Reusable
  BY <1>1, LeastIsMember, Zenon DEF A!First
<1>. HIDE DEF A!First
<1>. QED
  BY <1>2 DEF A!Reusable

\* The search finds an entry of the address.
LEMMA FoundEntry ==
  ASSUME NEW h \in Hop, A!Found(h) # {}
  PROVE  /\ A!First(A!Found(h)) \in A!Slot
         /\ arpcache[A!First(A!Found(h))].arstate # "free"
         /\ arpcache[A!First(A!Found(h))].arpaddr = h
<1>1. A!Found(h) \in SUBSET Nat
  BY Zenon, Slots DEF A!Found
<1>2. A!First(A!Found(h)) \in A!Found(h)
  BY <1>1, LeastIsMember, Zenon DEF A!First
<1>. HIDE DEF A!First
<1>. QED
  BY <1>2 DEF A!Found

\* A process in arp_resolve is not in udp_recv.
LEMMA ResolvingNotReceiving ==
  ASSUME IInv, NEW p \in Proc, resolve[p].at # "none"
  PROVE  call[p].op = "resolve" /\ proc[p].prmsg \in {NoMsg, OK}
  BY DEF IInv, Resolutions

\* A process goes on in arp_resolve: it writes a request, or waits for the answer.
LEMMA GoesOnStep ==
  ASSUME IInv, NEW p \in Proc, NEW r \in ResolveType,
         UNCHANGED <<udptab, free, packet, owner, call, arpcache>>,
         resolve[p].at # "none", r.at # "none",
         r.hop = resolve[p].hop, r.slot = resolve[p].slot,
         resolve' = [resolve EXCEPT ![p] = r],
         proc' \in [Proc -> MsgType],
         \A q \in Proc : proc'[q].prmsg = proc[q].prmsg
  PROVE  IInv'
<1>. USE DEF IInv
<1>1. /\ resolve' \in [Proc -> ResolveType] /\ resolve'[p] = r
      /\ \A q \in Proc : q # p => resolve'[q] = resolve[q]
  BY Types, ArpTypes
<1>2. A!TypeOK'
  BY <1>1, Types, ArpTypes
<1>3. AllTypeOK' /\ Waits' /\ Rings' /\ Places' /\ Matched'
  BY <1>2, UdpKept
<1>4. \A q \in Proc : /\ resolve'[q].at # "none" <=> resolve[q].at # "none"
                      /\ resolve'[q].hop = resolve[q].hop
                      /\ resolve'[q].slot = resolve[q].slot
  BY <1>1
<1>5. Resolutions'
  <2>. USE DEF Resolutions, A!Slot
  <2>1. PendingIsInProgress' /\ AwaitedIsKept' /\ AnswerIsOfHop'
    BY SMT, SMTT(30), <1>4 DEF PendingIsInProgress, A!PendingIsInProgress, AwaitedIsKept,
         A!AwaitedIsKept, AnswerIsOfHop, A!AnswerIsOfHop
  <2>. QED BY <1>4, <2>1
<1>. QED
  BY <1>3, <1>5

\* arp_resolve waits for the answer to its request.
LEMMA ResolveWaitStep ==
  ASSUME IInv, NEW p \in Proc, A!ResolveWait(p),
         UNCHANGED <<udptab, free, packet, call, owner>>
  PROVE  IInv'
<1>. USE DEF IInv
<1>. DEFINE r == [resolve[p] EXCEPT !.at = "recv"]
            st == IF proc[p].prmsg = NoMsg THEN "rectim" ELSE "ready"
<1>1. /\ resolve[p].at = "write" /\ resolve' = [resolve EXCEPT ![p] = r]
      /\ proc' = [proc EXCEPT ![p].prstate = st] /\ UNCHANGED arpcache
  BY DEF A!ResolveWait
<1>2. resolve[p] \in ResolveType
  BY Types, ArpTypes
<1>3. /\ r \in ResolveType /\ r.at = "recv" /\ r.hop = resolve[p].hop
      /\ r.slot = resolve[p].slot
  BY <1>2 DEF ResolveType
<1>4. st \in {"rectim", "ready"}
  OBVIOUS
<1>. HIDE DEF r, st
<1>5. proc' \in [Proc -> MsgType] /\ \A q \in Proc : proc'[q].prmsg = proc[q].prmsg
  BY <1>1, <1>4, Types DEF MsgType
<1>. QED
  BY Zenon, <1>1, <1>3, <1>5, GoesOnStep

\* Only an empty message box makes recvtime return TIMEOUT.
LEMMA TimeoutIsEmpty ==
  ASSUME AllTypeOK, NEW p \in Proc
  PROVE  A!Answer(proc, p) = TIMEOUT <=> proc[p].prmsg = NoMsg
<1>1. proc[p].prmsg \in {NoMsg, OK} \union Foreign
  BY Types DEF MsgType
<1>. QED
  BY <1>1, UdpAssumption DEF A!Answer

\* arp_resolve sends its request again after a wait without an answer.
LEMMA ResolveAgainStep ==
  ASSUME IInv, NEW p \in Proc, A!ResolveAgain(p),
         UNCHANGED <<udptab, free, packet, call, owner>>
  PROVE  IInv'
<1>. USE DEF IInv
<1>. DEFINE r == [resolve[p] EXCEPT !.at = "write", !.tries = resolve[p].tries + 1]
<1>0. proc[p].prmsg = NoMsg
  BY TimeoutIsEmpty DEF A!ResolveAgain
<1>1. /\ resolve[p].at = "recv" /\ resolve[p].tries + 1 < ARP_RETRY
      /\ resolve' = [resolve EXCEPT ![p] = r]
      /\ proc' = [proc EXCEPT ![p] = Running] /\ UNCHANGED arpcache
  BY DEF A!ResolveAgain, A!Taken, A!Running, Running
<1>2. resolve[p] \in ResolveType
  BY Types, ArpTypes
<1>3. resolve[p].tries + 1 \in 0 .. ARP_RETRY - 1
  BY <1>1, <1>2, ArpAssumption DEF ResolveType
<1>4. /\ r \in ResolveType /\ r.at = "write" /\ r.hop = resolve[p].hop
      /\ r.slot = resolve[p].slot
  BY Zenon, <1>2, <1>3 DEF ResolveType
<1>. HIDE DEF r
<1>5. Running \in MsgType /\ Running.prmsg = NoMsg
  BY DEF Running, MsgType
<1>6. proc' \in [Proc -> MsgType] /\ \A q \in Proc : proc'[q].prmsg = proc[q].prmsg
  BY <1>0, <1>1, <1>5, Types
<1>. QED
  BY Zenon, <1>1, <1>4, <1>6, GoesOnStep

\* A process leaves arp_resolve: its entry is freed, or is not pending any more.
LEMMA LeavesStep ==
  ASSUME IInv, NEW p \in Proc, resolve[p].at # "none",
         UNCHANGED <<udptab, free, packet, owner, call>>,
         proc' = [proc EXCEPT ![p] = Running],
         resolve' = [resolve EXCEPT ![p] = A!NoCall],
         arpcache' \in [A!Slot -> EntryType],
         \A s \in A!Slot :
           \/ arpcache'[s] = arpcache[s]
           \/ /\ arpcache'[s].arstate = "free"
              /\ arpcache[s].arpid = p /\ arpcache'[s].arpid = p,
         \A s \in A!Slot : arpcache'[s].arstate = "pending" => arpcache[s].arpid # p
  PROVE  IInv'
<1>. USE DEF IInv
<1>1. A!NoCall \in ResolveType /\ A!NoCall.at = "none"
  BY Slots, ArpAssumption DEF A!NoCall, ResolveType
<1>2. /\ resolve' \in [Proc -> ResolveType] /\ resolve'[p].at = "none"
      /\ \A q \in Proc : q # p => resolve'[q] = resolve[q]
  BY <1>1, Types, ArpTypes
<1>3. Running \in MsgType
  BY DEF Running, MsgType
<1>4. proc' \in [Proc -> MsgType] /\ \A q \in Proc : q # p => proc'[q] = proc[q]
  BY <1>3, Types
<1>5. AllTypeOK' /\ Waits' /\ Rings' /\ Places' /\ Matched'
  <2>1. A!TypeOK'
    BY <1>2, ArpTypes
  <2>2. call[p].op = "resolve"
    BY ResolvingNotReceiving
  <2>. QED BY <1>4, <2>1, <2>2, UdpKept
<1>6. \A q \in Proc : resolve[q].slot \in A!Slot
  BY Types, ArpTypes DEF ResolveType
<1>7. PendingIsInProgress'
  BY <1>2 DEF Resolutions, PendingIsInProgress, A!PendingIsInProgress, A!Slot
<1>8. AwaitedIsKept'
  BY <1>2, <1>4, <1>6
  DEF Resolutions, AwaitedIsKept, A!AwaitedIsKept
<1>9. AnswerIsOfHop'
  BY <1>2, <1>4, <1>6
  DEF Resolutions, AnswerIsOfHop, A!AnswerIsOfHop
<1>10. Resolutions'
  BY <1>2, <1>4, <1>7, <1>8, <1>9 DEF Resolutions, A!Slot
<1>. QED
  BY <1>5, <1>10

\* arp_resolve gives up and frees its entry.
LEMMA ResolveTimeoutStep ==
  ASSUME IInv, NEW p \in Proc, A!ResolveTimeout(p),
         UNCHANGED <<udptab, free, packet, call, owner>>
  PROVE  IInv'
<1>. USE DEF IInv
<1>. DEFINE s == resolve[p].slot
<1>0. proc[p].prmsg = NoMsg
  BY TimeoutIsEmpty DEF A!ResolveTimeout
<1>1. /\ resolve[p].at = "recv" /\ resolve' = [resolve EXCEPT ![p] = A!NoCall]
      /\ proc' = [proc EXCEPT ![p] = Running]
      /\ arpcache' = [arpcache EXCEPT ![s].arstate = "free"]
  BY DEF A!ResolveTimeout, A!Taken, A!Running, Running
<1>2. s \in A!Slot /\ arpcache[s] \in EntryType /\ arpcache \in [A!Slot -> EntryType]
  BY Types, ArpTypes DEF ResolveType
<1>3. arpcache[s].arpid = p
  BY <1>0, <1>1 DEF Resolutions, AwaitedIsKept, A!AwaitedIsKept
<1>4. \A t \in A!Slot : arpcache[t].arstate = "pending" /\ arpcache[t].arpid = p => t = s
  BY DEF Resolutions, PendingIsInProgress, A!PendingIsInProgress
<1>. HIDE DEF s
<1>5. /\ arpcache' \in [A!Slot -> EntryType]
      /\ arpcache'[s].arstate = "free" /\ arpcache'[s].arpid = p
      /\ \A t \in A!Slot : t # s => arpcache'[t] = arpcache[t]
  BY <1>1, <1>2, <1>3 DEF EntryType
<1>6. resolve[p].at # "none"
  BY <1>1
<1>7. /\ \A t \in A!Slot :
           \/ arpcache'[t] = arpcache[t]
           \/ /\ arpcache'[t].arstate = "free"
              /\ arpcache[t].arpid = p /\ arpcache'[t].arpid = p
      /\ \A t \in A!Slot : arpcache'[t].arstate = "pending" => arpcache[t].arpid # p
  BY <1>3, <1>4, <1>5
<1>. QED
  BY Zenon, <1>1, <1>5, <1>6, <1>7, LeavesStep

\* arp_resolve returns with the answer.
LEMMA ResolveDoneStep ==
  ASSUME IInv, NEW p \in Proc, A!ResolveDone(p),
         UNCHANGED <<udptab, free, packet, call, owner>>
  PROVE  IInv'
<1>. USE DEF IInv
<1>1. /\ resolve[p].at = "recv" /\ resolve' = [resolve EXCEPT ![p] = A!NoCall]
      /\ proc' = [proc EXCEPT ![p] = Running] /\ UNCHANGED arpcache
  BY DEF A!ResolveDone, A!Taken, A!Running, Running
<1>2. proc[p].prmsg = OK
  <2>1. proc[p].prmsg # NoMsg
    BY TimeoutIsEmpty DEF A!ResolveDone
  <2>. QED BY <1>1, <2>1, ResolvingNotReceiving
<1>3. \A t \in A!Slot : arpcache[t].arstate = "pending" => arpcache[t].arpid # p
  BY <1>1, <1>2 DEF Resolutions, PendingIsInProgress, A!PendingIsInProgress,
                    AnswerIsOfHop, A!AnswerIsOfHop
<1>4. arpcache' \in [A!Slot -> EntryType]
  BY <1>1, Types, ArpTypes
<1>5. resolve[p].at # "none"
  BY <1>1
<1>6. /\ \A t \in A!Slot :
           \/ arpcache'[t] = arpcache[t]
           \/ /\ arpcache'[t].arstate = "free"
              /\ arpcache[t].arpid = p /\ arpcache'[t].arpid = p
      /\ \A t \in A!Slot : arpcache'[t].arstate = "pending" => arpcache[t].arpid # p
  BY <1>1, <1>3
<1>. QED
  BY Zenon, <1>1, <1>4, <1>5, <1>6, LeavesStep

\* arp_resolve makes an entry for an address that has none.
LEMMA ResolvesStep ==
  ASSUME IInv, NEW p \in Proc, NEW h \in Hop, Resolves(p, h)
  PROVE  IInv'
<1>. USE DEF IInv
<1>. DEFINE s == A!First(A!Reusable)
            e == [A!FreeEntry EXCEPT !.arstate = "pending", !.arpaddr = h, !.arpid = p]
            r == [at |-> "write", hop |-> h, slot |-> s, tries |-> 0]
<1>1. /\ UNCHANGED <<udptab, free, packet, owner>>
      /\ call[p].op = "send" /\ call' = [call EXCEPT ![p].op = "resolve"]
      /\ call[p].buf # NoBuf
      /\ resolve[p].at = "none" /\ A!Found(h) = {} /\ A!Reusable # {}
      /\ arpcache' = [arpcache EXCEPT ![s] = e]
      /\ resolve' = [resolve EXCEPT ![p] = r]
      /\ proc' = [proc EXCEPT ![p].prmsg = NoMsg]
  BY DEF Resolves, A!ResolveStart
<1>2. s \in A!Slot /\ arpcache[s].arstate # "pending"
  BY <1>1, ReusableEntry
<1>3. /\ e \in EntryType /\ e.arstate = "pending" /\ e.arpaddr = h /\ e.arpid = p
  BY Zenon DEF A!FreeEntry, EntryType
<1>4. /\ r \in ResolveType /\ r.at = "write" /\ r.hop = h /\ r.slot = s
  BY <1>2, ArpAssumption DEF ResolveType
<1>. HIDE DEF s, e, r
<1>5. /\ arpcache' \in [A!Slot -> EntryType] /\ arpcache'[s] = e
      /\ \A t \in A!Slot : t # s => arpcache'[t] = arpcache[t]
  BY <1>1, <1>2, <1>3, Types, ArpTypes
<1>6. /\ resolve' \in [Proc -> ResolveType] /\ resolve'[p] = r
      /\ \A q \in Proc : q # p => resolve'[q] = resolve[q]
  BY <1>1, <1>4, Types, ArpTypes
<1>7. /\ proc' \in [Proc -> MsgType] /\ proc'[p].prmsg = NoMsg
      /\ \A q \in Proc : q # p => proc'[q] = proc[q]
  BY <1>1, Types DEF MsgType
<1>8. /\ call' \in [Proc -> CallType] /\ call'[p].op = "resolve"
      /\ call'[p].buf = call[p].buf
      /\ \A q \in Proc : q # p => call'[q] = call[q]
  BY <1>1, Types DEF CallType
<1>9. AllTypeOK'
  BY <1>1, <1>5, <1>6, <1>7, <1>8, Types, TypesNext, ArpTypes
<1>10. Waits'
  BY <1>1, <1>7, <1>8, WaitsKept
<1>11. Rings' /\ Places'
  BY <1>1, <1>8, PlacesKept DEF Places, HeldOnce
<1>12. \A q \in Proc : resolve[q].slot \in A!Slot
  BY Types, ArpTypes DEF ResolveType
<1>13. Resolutions'
  <2>1. \A q \in Proc : resolve'[q].at # "none" =>
          call'[q].op = "resolve" /\ proc'[q].prmsg \in {NoMsg, OK}
    BY <1>6, <1>7, <1>8 DEF Resolutions
  <2>2. \A t, u \in A!Slot :
          (/\ arpcache'[t].arstate # "free" /\ arpcache'[u].arstate # "free"
           /\ arpcache'[t].arpaddr = arpcache'[u].arpaddr) => t = u
    BY <1>1, <1>3, <1>5 DEF Resolutions, A!Found
  <2>3. \A t \in A!Slot : arpcache'[t].arstate = "pending" => arpcache'[t].arpid \in Proc
    BY <1>3, <1>5 DEF Resolutions
  <2>4. PendingIsInProgress'
    BY <1>1, <1>3, <1>4, <1>5, <1>6
    DEF Resolutions, PendingIsInProgress, A!PendingIsInProgress, A!Slot
  <2>5. AwaitedIsKept'
    BY SMT, SMTT(30), <1>2, <1>3, <1>4, <1>5, <1>6, <1>7, <1>12
    DEF Resolutions, AwaitedIsKept, A!AwaitedIsKept
  <2>6. AnswerIsOfHop'
    BY SMT, SMTT(30), <1>3, <1>5, <1>6, <1>7, <1>12
    DEF Resolutions, AnswerIsOfHop, A!AnswerIsOfHop
  <2>. QED BY <2>1, <2>2, <2>3, <2>4, <2>5, <2>6 DEF Resolutions, A!Slot
<1>. QED
  BY <1>1, <1>9, <1>10, <1>11, <1>13, MatchedKept

\* arp_in finds the sender's entry, and tells the process that waits for it.
LEMMA LearnStep ==
  ASSUME IInv, NEW h \in Hop, NEW s \in A!Slot, A!Learn(h, s),
         arpcache[s].arstate # "free", arpcache[s].arpaddr = h,
         UNCHANGED <<udptab, free, packet, call, owner, resolve>>
  PROVE  IInv'
<1>. USE DEF IInv
<1>. DEFINE e == [arpcache[s] EXCEPT !.arhaddr = h, !.arstate = "resolved"]
            w == arpcache[s].arpid
<1>1. /\ arpcache' = [arpcache EXCEPT ![s] = e]
      /\ proc' = IF arpcache[s].arstate = "pending" /\ w \in Proc
                 THEN send(proc, w, OK) ELSE proc
  BY DEF A!Learn, A!send, send
<1>2. arpcache \in [A!Slot -> EntryType] /\ arpcache[s] \in EntryType
  BY Types, ArpTypes
<1>3. /\ e \in EntryType /\ e.arstate = "resolved" /\ e.arpaddr = h
      /\ e.arpid = w /\ e.arhaddr = h
  BY Zenon, <1>2 DEF EntryType
<1>. HIDE DEF e
<1>4. /\ arpcache' \in [A!Slot -> EntryType] /\ arpcache'[s] = e
      /\ \A t \in A!Slot : t # s => arpcache'[t] = arpcache[t]
  BY <1>1, <1>2, <1>3
<1>5. arpcache[s].arstate = "pending" =>
        /\ w \in Proc /\ resolve[w].at # "none" /\ resolve[w].slot = s
        /\ call[w].op = "resolve" /\ proc[w].prmsg \in {NoMsg, OK}
  BY DEF Resolutions, PendingIsInProgress, A!PendingIsInProgress
<1>6. /\ proc' \in [Proc -> MsgType]
      /\ \A q \in Proc : proc'[q].prmsg # proc[q].prmsg =>
           /\ arpcache[s].arstate = "pending" /\ q = w
           /\ proc[q].prmsg = NoMsg /\ proc'[q].prmsg = OK
      /\ arpcache[s].arstate = "pending" => proc'[w].prmsg = OK
  <2>1. CASE arpcache[s].arstate = "pending"
    <3>1. w \in Proc /\ proc' = send(proc, w, OK)
      BY <1>1, <1>5, <2>1
    <3>. HIDE DEF w
    <3>2. /\ proc' \in [Proc -> MsgType]
          /\ \A q \in Proc : q # w => proc'[q] = proc[q]
          /\ proc[w].prmsg = NoMsg => proc'[w].prmsg = OK
          /\ proc[w].prmsg # NoMsg => proc'[w] = proc[w]
      BY <3>1, SendType DEF MsgType
    <3>. QED BY <1>5, <2>1, <3>1, <3>2
  <2>2. CASE arpcache[s].arstate # "pending"
    BY <1>1, <2>2, Types
  <2>. QED BY <2>1, <2>2
<1>7. AllTypeOK' /\ Waits' /\ Rings' /\ Places' /\ Matched'
  <2>1. A!TypeOK'
    BY <1>4, Types, ArpTypes
  <2>2. \A q \in Proc : call[q].op = "recv" => proc'[q].prmsg = proc[q].prmsg
    BY <1>5, <1>6
  <2>. QED BY <1>6, <2>1, <2>2, UdpKept
<1>8. \A q \in Proc : resolve[q].slot \in A!Slot
  BY Types, ArpTypes DEF ResolveType
<1>9. Resolutions'
  <2>1. \A q \in Proc : resolve'[q].at # "none" =>
          call'[q].op = "resolve" /\ proc'[q].prmsg \in {NoMsg, OK}
    BY <1>6 DEF Resolutions
  <2>2. \A t, u \in A!Slot :
          (/\ arpcache'[t].arstate # "free" /\ arpcache'[u].arstate # "free"
           /\ arpcache'[t].arpaddr = arpcache'[u].arpaddr) => t = u
    BY <1>3, <1>4 DEF Resolutions
  <2>3. \A t \in A!Slot : arpcache'[t].arstate = "pending" => arpcache'[t].arpid \in Proc
    BY <1>3, <1>4 DEF Resolutions
  <2>4. PendingIsInProgress'
    BY <1>3, <1>4
    DEF Resolutions, PendingIsInProgress, A!PendingIsInProgress, A!Slot
  <2>5. AwaitedIsKept'
    <3>. SUFFICES ASSUME NEW q \in Proc, resolve[q].at # "none", proc'[q].prmsg = NoMsg
         PROVE  LET x == arpcache'[resolve[q].slot]
                IN  x.arstate = "pending" /\ x.arpaddr = resolve[q].hop /\ x.arpid = q
      BY DEF AwaitedIsKept, A!AwaitedIsKept
    <3>1. proc[q].prmsg = NoMsg
      BY <1>6
    <3>2. LET x == arpcache[resolve[q].slot]
          IN  x.arstate = "pending" /\ x.arpaddr = resolve[q].hop /\ x.arpid = q
      BY <3>1 DEF Resolutions, AwaitedIsKept, A!AwaitedIsKept
    <3>3. resolve[q].slot # s
      BY <1>6, <3>2
    <3>. QED BY <1>4, <1>8, <3>2, <3>3
  <2>6. AnswerIsOfHop'
    <3>. SUFFICES ASSUME NEW q \in Proc, resolve[q].at # "none", proc'[q].prmsg = OK,
                         arpcache'[resolve[q].slot].arpid = q
         PROVE  LET x == arpcache'[resolve[q].slot]
                IN  /\ x.arstate = "resolved" /\ x.arpaddr = resolve[q].hop
                    /\ x.arhaddr = resolve[q].hop
      BY DEF AnswerIsOfHop, A!AnswerIsOfHop
    <3>1. proc[q].prmsg \in {NoMsg, OK}
      BY ResolvingNotReceiving
    <3>2. CASE resolve[q].slot = s
      <4>1. arpcache[s].arpid = q /\ arpcache[s].arpaddr = resolve[q].hop
        BY SMT, SMTT(30), <1>3, <1>4, <3>1, <3>2
        DEF Resolutions, AwaitedIsKept, A!AwaitedIsKept, AnswerIsOfHop, A!AnswerIsOfHop
      <4>. QED BY <1>3, <1>4, <3>2, <4>1
    <3>3. CASE resolve[q].slot # s
      <4>1. arpcache'[resolve[q].slot] = arpcache[resolve[q].slot]
        BY <1>4, <1>8, <3>3
      <4>2. proc[q].prmsg = OK
        BY <1>5, <1>6, <3>3
      <4>. QED BY <4>1, <4>2 DEF Resolutions, AnswerIsOfHop, A!AnswerIsOfHop
    <3>. QED BY <3>2, <3>3
  <2>. QED BY <2>1, <2>2, <2>3, <2>4, <2>5, <2>6 DEF Resolutions, A!Slot
<1>. QED
  BY <1>7, <1>9

\* arp_in enters the sender of a request for this machine's address.
LEMMA EnterStep ==
  ASSUME IInv, NEW h \in Hop, A!Found(h) = {}, A!Reusable # {},
         arpcache' = [arpcache EXCEPT ![A!First(A!Reusable)] =
           [A!FreeEntry EXCEPT !.arstate = "resolved", !.arpaddr = h, !.arhaddr = h]],
         UNCHANGED <<udptab, free, packet, call, owner, resolve, proc>>
  PROVE  IInv'
<1>. USE DEF IInv
<1>. DEFINE s == A!First(A!Reusable)
            e == [A!FreeEntry EXCEPT !.arstate = "resolved", !.arpaddr = h, !.arhaddr = h]
<1>1. s \in A!Slot /\ arpcache[s].arstate # "pending"
  BY ReusableEntry
<1>2. e \in EntryType /\ e.arstate = "resolved" /\ e.arpaddr = h /\ e.arpid \notin Proc
  BY Zenon, UdpAssumption DEF A!FreeEntry, EntryType, A!Nobody, Nobody
<1>. HIDE DEF s, e
<1>3. arpcache' = [arpcache EXCEPT ![s] = e]
  BY DEF s, e
<1>4. /\ arpcache' \in [A!Slot -> EntryType] /\ arpcache'[s] = e
      /\ \A t \in A!Slot : t # s => arpcache'[t] = arpcache[t]
  BY Zenon, <1>1, <1>2, <1>3, Types, ArpTypes
<1>5. AllTypeOK' /\ Waits' /\ Rings' /\ Places' /\ Matched'
  <2>1. A!TypeOK' /\ proc' \in [Proc -> MsgType]
    BY <1>4, Types, ArpTypes
  <2>. QED BY <2>1, UdpKept
<1>6. \A q \in Proc : resolve[q].slot \in A!Slot
  BY Types, ArpTypes DEF ResolveType
<1>7. Resolutions'
  <2>1. \A t, u \in A!Slot :
          (/\ arpcache'[t].arstate # "free" /\ arpcache'[u].arstate # "free"
           /\ arpcache'[t].arpaddr = arpcache'[u].arpaddr) => t = u
    BY <1>2, <1>4 DEF Resolutions, A!Found
  <2>2. \A t \in A!Slot : arpcache'[t].arstate = "pending" => arpcache'[t].arpid \in Proc
    BY <1>2, <1>4 DEF Resolutions
  <2>3. PendingIsInProgress'
    BY <1>2, <1>4
    DEF Resolutions, PendingIsInProgress, A!PendingIsInProgress, A!Slot
  <2>4. AwaitedIsKept'
    <3>. SUFFICES ASSUME NEW q \in Proc, resolve[q].at # "none", proc[q].prmsg = NoMsg
         PROVE  LET x == arpcache'[resolve[q].slot]
                IN  x.arstate = "pending" /\ x.arpaddr = resolve[q].hop /\ x.arpid = q
      BY DEF AwaitedIsKept, A!AwaitedIsKept
    <3>1. LET x == arpcache[resolve[q].slot]
          IN  x.arstate = "pending" /\ x.arpaddr = resolve[q].hop /\ x.arpid = q
      BY DEF Resolutions, AwaitedIsKept, A!AwaitedIsKept
    <3>. QED BY Zenon, <1>1, <1>4, <1>6, <3>1
  <2>5. AnswerIsOfHop'
    <3>. SUFFICES ASSUME NEW q \in Proc, resolve[q].at # "none", proc[q].prmsg = OK,
                         arpcache'[resolve[q].slot].arpid = q
         PROVE  LET x == arpcache'[resolve[q].slot]
                IN  /\ x.arstate = "resolved" /\ x.arpaddr = resolve[q].hop
                    /\ x.arhaddr = resolve[q].hop
      BY DEF AnswerIsOfHop, A!AnswerIsOfHop
    <3>1. arpcache'[resolve[q].slot] = arpcache[resolve[q].slot]
      BY Zenon, <1>2, <1>4, <1>6
    <3>. QED BY Zenon, <3>1 DEF Resolutions, AnswerIsOfHop, A!AnswerIsOfHop
  <2>. QED BY <2>1, <2>2, <2>3, <2>4, <2>5 DEF Resolutions, A!Slot
<1>. QED
  BY <1>5, <1>7

\* arp_in.
LEMMA ArpArrivalStep ==
  ASSUME IInv, ArpArrival
  PROVE  IInv'
<1>1. PICK h \in Hop, forus \in BOOLEAN : A!arp_in(h, forus)
  BY DEF ArpArrival
<1>2. UNCHANGED <<udptab, free, packet, call, owner, resolve>>
  BY <1>1 DEF ArpArrival, A!arp_in
<1>3. CASE A!Found(h) # {} /\ A!Learn(h, A!First(A!Found(h)))
  BY <1>2, <1>3, FoundEntry, LearnStep
<1>4. CASE /\ A!Found(h) = {} /\ A!Reusable # {}
           /\ arpcache' = [arpcache EXCEPT ![A!First(A!Reusable)] =
                [A!FreeEntry EXCEPT !.arstate = "resolved", !.arpaddr = h, !.arhaddr = h]]
           /\ UNCHANGED proc
  BY Zenon, <1>2, <1>4, EnterStep
<1>. QED
  BY <1>1, <1>3, <1>4 DEF A!arp_in

-----------------------------------------------------------------------------
(* The invariant holds in every reachable state. *)

\* udp_init and arp_init establish the invariant.
LEMMA InitHolds ==
  ASSUME ComposedInit
  PROVE  IInv
<1>. USE DEF ComposedInit, Init, A!Init
<1>. DEFINE e == [udstate |-> "free", udremip |-> 0, udremport |-> 0, udlocport |-> 0,
                  udhead |-> 0, udtail |-> 0, udcount |-> 0, udpid |-> Nobody,
                  udqueue |-> [i \in 0 .. UDP_QSIZ - 1 |-> NoBuf]]
<1>1. e \in SlotType
  BY UdpAssumption DEF SlotType
<1>2. /\ NoCall \in CallType /\ NoCall.op = "none" /\ NoCall.buf = NoBuf
      /\ Running \in MsgType
  BY Slots DEF NoCall, CallType, Running, MsgType
<1>3. A!FreeEntry \in EntryType /\ A!FreeEntry.arstate = "free"
  BY DEF A!FreeEntry, EntryType
<1>4. A!NoCall \in ResolveType /\ A!NoCall.at = "none"
  BY Slots, ArpAssumption DEF A!NoCall, ResolveType
<1>5. \A s \in Slot : udptab[s] = e
  OBVIOUS
<1>6. AllTypeOK
  BY Zenon, <1>1, <1>2, <1>3, <1>4, Types, ArpTypes
<1>7. \A s \in Slot : /\ udptab[s].udstate = "free" /\ udptab[s].udcount = 0
                      /\ udptab[s].udhead = 0 /\ udptab[s].udtail = 0
                      /\ \A k \in Place : udptab[s].udqueue[k] = NoBuf
  BY Zenon, <1>5 DEF Place
<1>8. Waits
  BY <1>2, <1>7 DEF Waits
<1>9. Rings
  <2>1. 0 % UDP_QSIZ = 0 /\ 0 + 0 = 0 /\ \A k \in Place : ~ Within(0, 0, k)
    BY EmptyRing, Slots
  <2>. QED BY Zenon, <1>7, <2>1 DEF Rings
<1>10. Places
  BY SMT, SMTT(30), <1>2, <1>7, UdpAssumption DEF Places, QueuedOnce, HeldOnce, NoneLost
<1>11. Matched
  BY Zenon, <1>7 DEF Matched
<1>12. Resolutions
  BY <1>3, <1>4
  DEF Resolutions, PendingIsInProgress, A!PendingIsInProgress, AwaitedIsKept,
      A!AwaitedIsKept, AnswerIsOfHop, A!AnswerIsOfHop
<1>. QED
  BY <1>6, <1>8, <1>9, <1>10, <1>11, <1>12 DEF IInv

\* Every step keeps the invariant when no other program disturbs arp_resolve.
LEMMA NextStep ==
  ASSUME Quiet, IInv, [ComposedNext]_allvars
  PROVE  IInv'
<1>1. CASE UNCHANGED allvars
  <2>1. UNCHANGED <<udptab, free, packet, proc, call, owner>> /\ UNCHANGED arpvars
    BY <1>1 DEF allvars, vars
  <2>2. A!TypeOK' /\ proc' \in [Proc -> MsgType]
    BY <2>1, Types, ArpTypeKept DEF IInv
  <2>. QED BY <2>1, <2>2, UdpKept, ResolutionsKept DEF IInv
<1>2. CASE Arrival /\ UNCHANGED arpvars
  BY <1>2, ArrivalStep
<1>3. CASE ArpArrival
  BY <1>3, ArpArrivalStep
<1>4. ASSUME NEW p \in Proc, UdpSteps(p), UNCHANGED arpvars
      PROVE  IInv'
  <2>1. CASE Calls(p)
    BY <1>4, <2>1, RegisterStep, ReleaseStep, RecvStep, WaitStep, SendStep DEF Calls
  <2>2. CASE udp_recvResume(p)
    BY <1>4, <2>2, ResumeStep
  <2>3. CASE Timeout(p)
    BY <1>4, <2>3, TimeoutStep
  <2>4. CASE udp_sendFill(p)
    BY <1>4, <2>4, FillStep
  <2>5. CASE Sent(p)
    BY <1>4, <2>5, SentStep
  <2>. QED BY <1>4, <2>1, <2>2, <2>3, <2>4, <2>5 DEF UdpSteps
<1>5. ASSUME NEW p \in Proc, NEW m \in Foreign, Disturbs(p, m), UNCHANGED arpvars
      PROVE  IInv'
  BY <1>5, DisturbsStep
<1>6. ASSUME NEW p \in Proc, NEW h \in Hop, Resolves(p, h)
      PROVE  IInv'
  BY <1>6, ResolvesStep
<1>7. ASSUME NEW p \in Proc, Resolving(p)
      PROVE  IInv'
  BY <1>7, ResolveWaitStep, ResolveAgainStep, ResolveTimeoutStep, ResolveDoneStep
  DEF Resolving, A!Resolving
<1>. QED
  BY <1>1, <1>2, <1>3, <1>4, <1>5, <1>6, <1>7 DEF ComposedNext

\* The inductive invariant: types, waits, queues, buffers and resolutions fit
\* together in every state that the network code reaches.
THEOREM Invariant ==
  ASSUME Quiet
  PROVE  ComposedSpec => []IInv
<1>1. ComposedInit => IInv
  BY InitHolds
<1>2. IInv /\ [ComposedNext]_allvars => IInv'
  BY NextStep
<1>. QED
  BY <1>1, <1>2, PTL DEF ComposedSpec

-----------------------------------------------------------------------------
(* What the invariant says. *)

\* The table, the cache and the calls under way have their types.
THEOREM NetTypeCorrect ==
  ASSUME Quiet
  PROVE  ComposedSpec => []AllTypeOK
<1>1. IInv => AllTypeOK
  BY DEF IInv
<1>. QED
  BY <1>1, Invariant, PTL

\* udp_in and the timeout of udp_recv leave no slot in the receiving state without
\* the process that waits there.
THEOREM ReceiversWait ==
  ASSUME Quiet
  PROVE  ComposedSpec => []ReceivingIsWaiting
<1>1. IInv => ReceivingIsWaiting
  BY DEF IInv, Waits, ReceivingIsWaiting
<1>. QED
  BY <1>1, Invariant, PTL

\* udp_recv dequeues only when there is a packet, although OK is also the message
\* with which arp_in ends arp_resolve of the same process.
THEOREM WokenByPacket ==
  ASSUME Quiet
  PROVE  ComposedSpec => []WokenHasPacket
<1>1. IInv => WokenHasPacket
  BY DEF IInv, Waits, WokenHasPacket, Answer
<1>. QED
  BY <1>1, Invariant, PTL

\* A packet is read only from a slot registered for its endpoint.
THEOREM PacketsMatch ==
  ASSUME Quiet
  PROVE  ComposedSpec => []QueuedMatches
<1>1. IInv => QueuedMatches
  BY QueuedPlaces DEF IInv, Matched, QueuedMatches
<1>. QED
  BY <1>1, Invariant, PTL

\* arp_resolve and arp_in, which both make entries, never make two for an address.
THEOREM OneEntry ==
  ASSUME Quiet
  PROVE  ComposedSpec => []OneEntryPerHost
<1>1. IInv => OneEntryPerHost
  BY DEF IInv, Resolutions, OneEntryPerHost, A!OneEntryPerHost, A!Found
<1>. QED
  BY <1>1, Invariant, PTL

\* Nobody takes the entry of a process that waits in arp_resolve.
THEOREM AwaitedEntry ==
  ASSUME Quiet
  PROVE  ComposedSpec => []AwaitedIsKept
<1>1. IInv => AwaitedIsKept
  BY DEF IInv, Resolutions
<1>. QED
  BY <1>1, Invariant, PTL

\* No entry stays pending after arp_resolve has returned.
THEOREM PendingEntry ==
  ASSUME Quiet
  PROVE  ComposedSpec => []PendingIsInProgress
<1>1. IInv => PendingIsInProgress
  BY DEF IInv, Resolutions
<1>. QED
  BY <1>1, Invariant, PTL

\* The hardware address that arp_resolve returns is that of the hop it was asked for.
THEOREM AnswerOfHop ==
  ASSUME Quiet
  PROVE  ComposedSpec => []AnswerIsOfHop
<1>1. IInv => AnswerIsOfHop
  BY DEF IInv, Resolutions
<1>. QED
  BY <1>1, Invariant, PTL

-----------------------------------------------------------------------------
(* Counting the buffers. *)

\* Two indices of a queue reach different places.
LEMMA RingInjective ==
  ASSUME NEW h \in Place, NEW i \in Place, NEW j \in Place,
         (h + i) % UDP_QSIZ = (h + j) % UDP_QSIZ
  PROVE  i = j
<1>0. UDP_QSIZ \in Nat \ {0}
  BY UdpAssumption
<1>1. h + i \in 0 .. 2 * UDP_QSIZ - 1 /\ h + j \in 0 .. 2 * UDP_QSIZ - 1
  BY <1>0 DEF Place
<1>2. (h + i) % UDP_QSIZ = IF h + i < UDP_QSIZ THEN h + i ELSE h + i - UDP_QSIZ
  BY <1>0, <1>1, Wrap, SMT DEF Place
<1>3. (h + j) % UDP_QSIZ = IF h + j < UDP_QSIZ THEN h + j ELSE h + j - UDP_QSIZ
  BY <1>0, <1>1, Wrap, SMT DEF Place
<1>. QED
  BY <1>0, <1>2, <1>3, SMT DEF Place

\* A queue holds as many buffers as it counts.
LEMMA QueuedCount ==
  ASSUME IInv, NEW s \in Slot
  PROVE  Cardinality(Queued(s)) = udptab[s].udcount
<1>. USE DEF IInv
<1>. DEFINE h == udptab[s].udhead
            n == udptab[s].udcount
            q == udptab[s].udqueue
            f == [i \in 0 .. n - 1 |-> q[(h + i) % UDP_QSIZ]]
<1>1. h \in Place /\ n \in 0 .. UDP_QSIZ
  BY SlotFields
<1>2. \A k, l \in Place : q[k] = q[l] => q[k] = NoBuf \/ k = l
  BY DEF Places, QueuedOnce
<1>3. \A k \in Place : q[k] # NoBuf <=> Within(h, n, k)
  BY DEF Rings
<1>4. Queued(s) = {q[(h + i) % UDP_QSIZ] : i \in 0 .. n - 1}
  BY DEF Queued
<1>. HIDE DEF h, n, q
<1>5. \A i, j \in 0 .. n - 1 : f[i] = f[j] => i = j
  <2>. SUFFICES ASSUME NEW i \in 0 .. n - 1, NEW j \in 0 .. n - 1, f[i] = f[j]
       PROVE  i = j
    OBVIOUS
  <2>1. i \in Place /\ j \in Place
    BY <1>1, UdpAssumption DEF Place
  <2>2. (h + i) % UDP_QSIZ = (h + j) % UDP_QSIZ
    BY Zenon, <1>1, <1>2, <1>3, RingPlaces
  <2>. QED BY <1>1, <2>1, <2>2, RingInjective
<1>6. f \in Injection(0 .. n - 1, Queued(s))
  BY <1>4, <1>5 DEF Injection, IsInjective
<1>7. f \in Surjection(0 .. n - 1, Queued(s))
  BY <1>4 DEF Surjection
<1>8. ExistsBijection(0 .. n - 1, Queued(s))
  BY <1>6, <1>7 DEF ExistsBijection, Bijection
<1>9. n - 1 \in Int /\ n \in Nat
  BY <1>1, UdpAssumption
<1>10. /\ IsFiniteSet(0 .. n - 1)
       /\ Cardinality(0 .. n - 1) = IF 0 > n - 1 THEN 0 ELSE n - 1 - 0 + 1
  BY <1>9, FS_Interval
<1>11. Cardinality(0 .. n - 1) = n
  BY <1>9, <1>10
<1>12. Cardinality(Queued(s)) = n
  BY <1>8, <1>10, <1>11, FS_Bijection
<1>. QED
  BY <1>12 DEF n

\* The senders have as many buffers as there are senders with one.
LEMMA HeldCount ==
  ASSUME IInv
  PROVE  LET sending == {p \in Proc : call[p].buf # NoBuf}
             held == {call[p].buf : p \in sending}
         IN  IsFiniteSet(held) /\ Cardinality(held) = Cardinality(sending)
<1>. USE DEF IInv
<1>. DEFINE sending == {p \in Proc : call[p].buf # NoBuf}
            held == {call[p].buf : p \in sending}
            f == [p \in sending |-> call[p].buf]
<1>1. IsFiniteSet(sending)
  BY FS_Subset, UdpAssumption
<1>2. f \in Injection(sending, held)
  BY DEF Injection, IsInjective, Places, HeldOnce
<1>3. f \in Surjection(sending, held)
  BY DEF Surjection
<1>4. ExistsBijection(sending, held)
  BY <1>2, <1>3 DEF ExistsBijection, Bijection
<1>. HIDE DEF sending, held
<1>5. IsFiniteSet(held) /\ Cardinality(held) = Cardinality(sending)
  BY <1>1, <1>4, FS_Bijection
<1>. QED
  BY <1>5 DEF sending, held

\* udp_in, udp_recv, udp_release, getbuf and freebuf neither lose nor duplicate a
\* buffer.
THEOREM BuffersKept ==
  ASSUME Quiet
  PROVE  ComposedSpec => []BuffersConserved
<1>1. ASSUME IInv PROVE BuffersConserved
  <2>. USE <1>1 DEF IInv
  <2>. DEFINE sending == {p \in Proc : call[p].buf # NoBuf}
              held == {call[p].buf : p \in sending}
              queued == UNION {Queued(s) : s \in Slot}
  <2>1. \A s \in Slot :
          /\ Cardinality(Queued(s)) = udptab[s].udcount /\ NoBuf \notin Queued(s)
          /\ udptab[s].udtail = (udptab[s].udhead + udptab[s].udcount) % UDP_QSIZ
          /\ Queued(s) \intersect free = {}
          /\ \A t \in Slot \ {s} : Queued(s) \intersect Queued(t) = {}
    <3>. SUFFICES ASSUME NEW s \in Slot
         PROVE  /\ Cardinality(Queued(s)) = udptab[s].udcount /\ NoBuf \notin Queued(s)
                /\ udptab[s].udtail = (udptab[s].udhead + udptab[s].udcount) % UDP_QSIZ
                /\ Queued(s) \intersect free = {}
                /\ \A t \in Slot \ {s} : Queued(s) \intersect Queued(t) = {}
      OBVIOUS
    <3>1. Queued(s) \intersect free = {} /\ NoBuf \notin Queued(s)
      BY QueuedPlaces DEF Places, QueuedOnce
    <3>2. \A t \in Slot \ {s} : Queued(s) \intersect Queued(t) = {}
      BY QueuedPlaces DEF Places, QueuedOnce
    <3>. QED BY <3>1, <3>2, QueuedCount DEF Rings
  <2>2. \A b : b \in queued <=> b # NoBuf /\ \E s \in Slot : \E k \in Place :
                                              udptab[s].udqueue[k] = b
    BY QueuedPlaces
  <2>3. queued \subseteq Buffer
    BY <2>2, SlotFields
  <2>4. held \subseteq Buffer
    BY Types DEF CallType
  <2>5. free \subseteq Buffer
    BY Types
  <2>6. Buffer = free \union (queued \union held)
    BY <2>2, <2>3, <2>4, <2>5, UdpAssumption DEF Places, NoneLost
  <2>7. queued \intersect held = {} /\ free \intersect (queued \union held) = {}
    BY <2>2 DEF Places, QueuedOnce, HeldOnce
  <2>8. IsFiniteSet(held) /\ Cardinality(held) = Cardinality(sending)
    BY HeldCount
  <2>. HIDE DEF queued, held, sending
  <2>9. IsFiniteSet(Buffer)
    BY UdpAssumption
  <2>10. IsFiniteSet(queued) /\ IsFiniteSet(free)
    BY <2>3, <2>5, <2>9, FS_Subset
  <2>11. /\ IsFiniteSet(queued \union held)
         /\ Cardinality(queued \union held) = Cardinality(queued) + Cardinality(held)
                                              - Cardinality({})
    BY <2>7, <2>8, <2>10, FS_Union
  <2>12. Cardinality(Buffer) = Cardinality(free) + Cardinality(queued \union held)
                                 - Cardinality({})
    BY <2>6, <2>7, <2>10, <2>11, FS_Union
  <2>13. /\ Cardinality({}) = 0 /\ Cardinality(free) \in Nat
         /\ Cardinality(queued) \in Nat /\ Cardinality(sending) \in Nat
    BY <2>8, <2>10, FS_EmptySet, FS_CardinalityType
  <2>14. Cardinality(free) + Cardinality(queued) + Cardinality(sending)
           = Cardinality(Buffer)
    BY <2>8, <2>11, <2>12, <2>13
  <2>. QED BY <2>1, <2>14 DEF BuffersConserved, queued, sending
<1>. QED
  BY <1>1, Invariant, PTL
=============================================================================
