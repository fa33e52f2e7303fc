---------------------------- MODULE UdpStepProof ----------------------------
(***************************************************************************)
(* The inductive invariant of UDP with address resolution, and the proofs  *)
(* that the steps of UDP keep it, for every number of processes,           *)
(* endpoints, buffers, cache entries, retries and hosts.                   *)
(*                                                                         *)
(* Waits ties a process that waits in udp_recv to the slot it waits at,    *)
(* Rings says which places of a circular queue are in use, Places says     *)
(* where every buffer is, Matched what a queued packet matches, and        *)
(* Resolutions ties a process in arp_resolve to its cache entry.  Waits    *)
(* and Resolutions need each other: both kinds of wait end with the same   *)
(* message, and only the state of the caller tells whose it is.            *)
(***************************************************************************)
EXTENDS UdpArp, WellFoundedInduction, TLAPS

\* Other programs leave a process in arp_resolve alone.
Quiet == Anytime = FALSE

Place == 0 .. UDP_QSIZ - 1

\* Place k of a circular queue with head h is one of its n entries.
Within(h, n, k) == (h <= k /\ k < h + n) \/ k < h + n - UDP_QSIZ

\* A slot in the receiving state names the process that waits there; that process
\* registered the slot, and finds a packet when it has been told of one.
Waits ==
  /\ \A s \in Slot : udptab[s].udstate = "free" => owner[s] = Nobody
  /\ \A s \in Slot : udptab[s].udstate = "recv" =>
       /\ udptab[s].udpid \in Proc
       /\ call[udptab[s].udpid].op = "recv" /\ call[udptab[s].udpid].slot = s
  /\ \A p \in Proc : call[p].op = "recv" =>
       /\ owner[call[p].slot] = p
       /\ proc[p].prmsg = OK => udptab[call[p].slot].udcount > 0

\* The entries of a circular queue from its head to its tail are buffers, the
\* others are not.
Rings ==
  \A s \in Slot :
    /\ udptab[s].udstate = "free" => udptab[s].udcount = 0
    /\ udptab[s].udtail = (udptab[s].udhead + udptab[s].udcount) % UDP_QSIZ
    /\ \A k \in Place : udptab[s].udqueue[k] # NoBuf
                          <=> Within(udptab[s].udhead, udptab[s].udcount, k)

\* No buffer is at two places of the queues, and none of those in the pool.
QueuedOnce ==
  /\ \A s, t \in Slot : \A k, l \in Place :
       udptab[s].udqueue[k] = udptab[t].udqueue[l] =>
         udptab[s].udqueue[k] = NoBuf \/ (s = t /\ k = l)
  /\ \A s \in Slot : \A k \in Place : udptab[s].udqueue[k] \notin free

\* A sender's buffer is its own.
HeldOnce ==
  /\ \A p \in Proc : call[p].op \in {"none", "recv"} => call[p].buf = NoBuf
  /\ \A p \in Proc : call[p].buf \notin free
  /\ \A p, q \in Proc : call[p].buf = call[q].buf => call[p].buf = NoBuf \/ p = q
  /\ \A p \in Proc, s \in Slot : \A k \in Place :
       call[p].buf = udptab[s].udqueue[k] => call[p].buf = NoBuf

\* Every buffer is somewhere.
NoneLost ==
  \A b \in Buffer :
    \/ b \in free
    \/ \E p \in Proc : call[p].buf = b
    \/ \E s \in Slot : \E k \in Place : udptab[s].udqueue[k] = b

\* A buffer is in the pool, at one place of one queue or with one sender.
Places == QueuedOnce /\ HeldOnce /\ NoneLost

\* A packet at a place of a queue matches the slot.
Matched ==
  \A s \in Slot : \A k \in Place : udptab[s].udqueue[k] # NoBuf =>
    Matches(s, packet[udptab[s].udqueue[k]])

\* A process in arp_resolve is sending, hears from arp_in only, and finds its
\* entry as arp_in left it; a pending entry names such a process.
Resolutions ==
  /\ \A p \in Proc : resolve[p].at # "none" =>
       call[p].op = "resolve" /\ proc[p].prmsg \in {NoMsg, OK}
  /\ \A s, t \in A!Slot :
       (/\ arpcache[s].arstate # "free" /\ arpcache[t].arstate # "free"
        /\ arpcache[s].arpaddr = arpcache[t].arpaddr) => s = t
  /\ \A s \in A!Slot : arpcache[s].arstate = "pending" => arpcache[s].arpid \in Proc
  /\ PendingIsInProgress /\ AwaitedIsKept /\ AnswerIsOfHop

IInv == AllTypeOK /\ Waits /\ Rings /\ Places /\ Matched /\ Resolutions
-----------------------------------------------------------------------------
(* Facts about the operators. *)

\* Slots are searched in order: the least member of a set of slots is a member.
LEMMA LeastIsMember ==
  ASSUME NEW S \in SUBSET Nat, S # {}
  PROVE  (CHOOSE i \in S : \A j \in S : i <= j) \in S
<1>1. PICK m \in S : \A k \in S : <<k, m>> \notin OpToRel(<, Nat)
  BY WFMin, NatLessThanWellFounded, Zenon
<1>2. \A k \in S : ~ (k < m)
  BY <1>1, Zenon DEF OpToRel
<1>3. \A k \in S : m <= k
  BY <1>2, SMT
<1>. QED
  BY <1>3, Zenon

\* An index that has run past the end of a queue once is wrapped by one turn.
LEMMA Wrap ==
  ASSUME NEW x \in 0 .. 2 * UDP_QSIZ - 1
  PROVE  x % UDP_QSIZ = IF x < UDP_QSIZ THEN x ELSE x - UDP_QSIZ
  BY UdpAssumption, SMT

\* The slots and entries are natural numbers, and there is a first one.
LEMMA Slots ==
  /\ Slot \in SUBSET Nat /\ 0 \in Slot /\ A!Slot \in SUBSET Nat /\ 0 \in A!Slot
  /\ 0 \in Place /\ Place \in SUBSET Nat
  BY UdpAssumption, ArpAssumption DEF Slot, A!Slot, Place

\* send changes the receiver's message only, and only when it has none.
LEMMA SendType ==
  ASSUME AllTypeOK, NEW p \in Proc, NEW m \in {OK} \union Foreign,
         proc' = send(proc, p, m)
  PROVE  /\ proc' \in [Proc -> [prstate : {"run", "rectim", "ready"},
                                prmsg : {NoMsg, OK} \union Foreign]]
         /\ \A q \in Proc : q # p => proc'[q] = proc[q]
         /\ proc[p].prmsg = NoMsg => proc'[p].prmsg = m
         /\ proc[p].prmsg # NoMsg => proc'[p] = proc[p]
  BY DEF AllTypeOK, TypeOK, send

-----------------------------------------------------------------------------
(* Types. *)

\* The type of an entry of the endpoint table.
SlotType ==
  [udstate : {"free", "used", "recv"}, udremip : Host \union {0},
   udremport : RemPort \union {0}, udlocport : LocPort \union {0},
   udhead : 0 .. UDP_QSIZ - 1, udtail : 0 .. UDP_QSIZ - 1,
   udcount : 0 .. UDP_QSIZ, udpid : Proc \union {Nobody},
   udqueue : [0 .. UDP_QSIZ - 1 -> Buffer \union {NoBuf}]]

\* The types of the fields of a slot.
LEMMA SlotFields ==
  ASSUME AllTypeOK
  PROVE  /\ udptab \in [Slot -> SlotType]
         /\ \A s \in Slot :
              /\ udptab[s] \in SlotType
              /\ udptab[s].udhead \in Place /\ udptab[s].udtail \in Place
              /\ udptab[s].udcount \in 0 .. UDP_QSIZ
              /\ udptab[s].udqueue \in [Place -> Buffer \union {NoBuf}]
<1>1. udptab \in [Slot -> SlotType]
  BY DEF AllTypeOK, TypeOK, SlotType
<1>2. \A r \in SlotType :
        /\ r.udhead \in Place /\ r.udtail \in Place
        /\ r.udcount \in 0 .. UDP_QSIZ
        /\ r.udqueue \in [Place -> Buffer \union {NoBuf}]
  BY DEF SlotType, Place
<1>. QED
  BY <1>1, <1>2

\* What the operations write to an entry has its type.
LEMMA SlotUpdates ==
  ASSUME NEW r \in SlotType, NEW st \in {"free", "used", "recv"},
         NEW h \in Place, NEW t \in Place, NEW n \in 0 .. UDP_QSIZ,
         NEW q \in [Place -> Buffer \union {NoBuf}]
  PROVE  /\ [r EXCEPT !.udqueue = q, !.udhead = h, !.udcount = n, !.udstate = st]
               \in SlotType
         /\ [r EXCEPT !.udcount = n, !.udqueue = q, !.udtail = t, !.udstate = st]
               \in SlotType
         /\ [r EXCEPT !.udhead = h, !.udqueue = q, !.udcount = n, !.udstate = st]
               \in SlotType
  BY Zenon DEF SlotType, Place

-----------------------------------------------------------------------------
(* What the operations on the endpoint table do to its fields. *)

\* Every slot but s is as before.
Only(s) == \A t \in Slot : t # s => udptab'[t] = udptab[t]

\* Slot s is registered for the same endpoint as before.
SameEnd(s) ==
  /\ udptab'[s].udremip = udptab[s].udremip
  /\ udptab'[s].udremport = udptab[s].udremport
  /\ udptab'[s].udlocport = udptab[s].udlocport

\* The queue of slot s is as before.
SameQueue(s) ==
  /\ udptab'[s].udhead = udptab[s].udhead /\ udptab'[s].udtail = udptab[s].udtail
  /\ udptab'[s].udcount = udptab[s].udcount
  /\ udptab'[s].udqueue = udptab[s].udqueue

\* Dequeue takes the buffer at the head.
LEMMA DequeueEffect ==
  ASSUME AllTypeOK, NEW p \in Proc, NEW s \in Slot, udptab[s].udcount > 0,
         Dequeue(p, s)
  PROVE  /\ udptab' \in [Slot -> SlotType] /\ Only(s) /\ SameEnd(s)
         /\ udptab'[s].udstate = "used"
         /\ udptab'[s].udhead = (udptab[s].udhead + 1) % UDP_QSIZ
         /\ udptab'[s].udtail = udptab[s].udtail
         /\ udptab'[s].udcount = udptab[s].udcount - 1
         /\ udptab'[s].udqueue =
              [udptab[s].udqueue EXCEPT ![udptab[s].udhead] = NoBuf]
<1>1. udptab[s].udhead \in Place /\ udptab[s].udcount \in 1 .. UDP_QSIZ
  BY SlotFields
<1>2. (udptab[s].udhead + 1) % UDP_QSIZ \in Place
  BY <1>1, UdpAssumption, SMT DEF Place
<1>. DEFINE q == [udptab[s].udqueue EXCEPT ![udptab[s].udhead] = NoBuf]
            r == [udptab[s] EXCEPT !.udqueue = q,
                    !.udhead = (udptab[s].udhead + 1) % UDP_QSIZ,
                    !.udcount = udptab[s].udcount - 1, !.udstate = "used"]
<1>3. q \in [Place -> Buffer \union {NoBuf}]
  BY <1>1, SlotFields
<1>4. udptab[s] \in SlotType /\ udptab[s].udcount - 1 \in 0 .. UDP_QSIZ
  BY <1>1, SlotFields, UdpAssumption
<1>5. udptab' = [udptab EXCEPT ![s] = r]
  BY DEF Dequeue
<1>. HIDE DEF q
<1>6. r \in SlotType
  BY Zenon, <1>2, <1>3, <1>4, SlotUpdates
<1>7. udptab' \in [Slot -> SlotType] /\ Only(s) /\ udptab'[s] = r
  <2>. HIDE DEF r
  <2>. QED BY <1>5, <1>6, SlotFields DEF Only
<1>. QED
  BY <1>4, <1>7 DEF SlotType, SameEnd, q

\* udp_in puts the buffer at the tail and ends the receiving state.
LEMMA EnqueueEffect ==
  ASSUME AllTypeOK, NEW s \in Slot, udptab[s].udcount < UDP_QSIZ,
         NEW b \in Buffer,
         udptab' = [udptab EXCEPT ![s] =
           [udptab[s] EXCEPT !.udcount = udptab[s].udcount + 1,
              !.udqueue = [udptab[s].udqueue EXCEPT ![udptab[s].udtail] = b],
              !.udtail = (udptab[s].udtail + 1) % UDP_QSIZ,
              !.udstate = "used"]]
  PROVE  /\ udptab' \in [Slot -> SlotType] /\ Only(s) /\ SameEnd(s)
         /\ udptab'[s].udstate = "used"
         /\ udptab'[s].udhead = udptab[s].udhead
         /\ udptab'[s].udtail = (udptab[s].udtail + 1) % UDP_QSIZ
         /\ udptab'[s].udcount = udptab[s].udcount + 1
         /\ udptab'[s].udqueue =
              [udptab[s].udqueue EXCEPT ![udptab[s].udtail] = b]
<1>1. udptab[s].udtail \in Place /\ udptab[s].udcount \in 0 .. UDP_QSIZ - 1
  BY SlotFields, UdpAssumption
<1>2. (udptab[s].udtail + 1) % UDP_QSIZ \in Place
  BY <1>1, UdpAssumption, SMT DEF Place
<1>. DEFINE q == [udptab[s].udqueue EXCEPT ![udptab[s].udtail] = b]
            r == [udptab[s] EXCEPT !.udcount = udptab[s].udcount + 1,
                    !.udqueue = q, !.udtail = (udptab[s].udtail + 1) % UDP_QSIZ,
                    !.udstate = "used"]
<1>3. q \in [Place -> Buffer \union {NoBuf}]
  BY <1>1, SlotFields
<1>4. udptab[s] \in SlotType /\ udptab[s].udcount + 1 \in 0 .. UDP_QSIZ
  BY <1>1, SlotFields, UdpAssumption
<1>5. udptab' = [udptab EXCEPT ![s] = r]
  OBVIOUS
<1>. HIDE DEF q
<1>6. r \in SlotType
  BY Zenon, <1>2, <1>3, <1>4, SlotUpdates
<1>7. udptab' \in [Slot -> SlotType] /\ Only(s) /\ udptab'[s] = r
  <2>. HIDE DEF r
  <2>. QED BY <1>5, <1>6, SlotFields DEF Only
<1>. QED
  BY SMT, SMTT(30), <1>4, <1>7 DEF SlotType, SameEnd, q

\* udp_release empties the queue and frees the slot.
LEMMA ReleaseEffect ==
  ASSUME AllTypeOK, NEW p \in Proc, NEW s \in Slot, udp_release(p, s)
  PROVE  /\ udptab' \in [Slot -> SlotType] /\ Only(s) /\ SameEnd(s)
         /\ udptab'[s].udstate = "free"
         /\ udptab'[s].udhead = (udptab[s].udhead + udptab[s].udcount) % UDP_QSIZ
         /\ udptab'[s].udtail = udptab[s].udtail
         /\ udptab'[s].udcount = 0
         /\ udptab'[s].udqueue = [i \in Place |-> NoBuf]
<1>. DEFINE h == (udptab[s].udhead + udptab[s].udcount) % UDP_QSIZ
            q == [i \in Place |-> NoBuf]
            r == [udptab[s] EXCEPT !.udhead = h, !.udqueue = q, !.udcount = 0,
                                   !.udstate = "free"]
<1>1. udptab[s].udhead \in Place /\ udptab[s].udcount \in 0 .. UDP_QSIZ
  BY SlotFields
<1>2. h \in Place /\ 0 \in 0 .. UDP_QSIZ
  BY <1>1, UdpAssumption, SMT DEF Place
<1>3. udptab[s] \in SlotType /\ q \in [Place -> Buffer \union {NoBuf}]
  BY SlotFields
<1>4. udptab' = [udptab EXCEPT ![s] = r]
  BY DEF udp_release, Place
<1>. HIDE DEF q, h
<1>5. r \in SlotType
  BY Zenon, <1>2, <1>3, SlotUpdates
<1>6. udptab' \in [Slot -> SlotType] /\ Only(s) /\ udptab'[s] = r
  <2>. HIDE DEF r
  <2>. QED BY <1>4, <1>5, SlotFields DEF Only
<1>. QED
  BY <1>3, <1>6 DEF SlotType, SameEnd, q, h

\* udp_register takes a free slot and resets its queue's indices.
LEMMA RegisterEffect ==
  ASSUME AllTypeOK, NEW p \in Proc, NEW e \in Endpoint,
         udp_register(p, e[1], e[2], e[3])
  PROVE  \E s \in Slot :
           /\ udptab[s].udstate = "free" /\ owner' = [owner EXCEPT ![s] = p]
           /\ udptab' \in [Slot -> SlotType] /\ Only(s)
           /\ udptab'[s].udstate = "used" /\ udptab'[s].udcount = 0
           /\ udptab'[s].udhead = 0 /\ udptab'[s].udtail = 0
           /\ udptab'[s].udqueue = udptab[s].udqueue
<1>. DEFINE unused == {i \in Slot : udptab[i].udstate = "free"}
            s == CHOOSE i \in unused : \A j \in unused : i <= j
            r == [udptab[s] EXCEPT !.udlocport = e[3], !.udremport = e[2],
                    !.udremip = e[1], !.udcount = 0, !.udhead = 0,
                    !.udtail = 0, !.udpid = Nobody, !.udstate = "used"]
<1>1. unused \in SUBSET Nat /\ unused # {}
  BY Slots DEF udp_register
<1>2. s \in unused
  BY <1>1, LeastIsMember, Zenon
<1>3. udptab' = [udptab EXCEPT ![s] = r] /\ owner' = [owner EXCEPT ![s] = p]
  BY DEF udp_register
<1>. HIDE DEF s
<1>4. udptab[s] \in SlotType
  BY <1>2, SlotFields
<1>5. /\ e[1] \in Host \union {0} /\ e[2] \in RemPort \union {0} /\ e[3] \in LocPort
      /\ 0 \in Place /\ 0 \in 0 .. UDP_QSIZ
  BY UdpAssumption, Slots
<1>6. r \in SlotType
  BY Zenon, <1>4, <1>5 DEF SlotType, Place
<1>7. udptab' \in [Slot -> SlotType] /\ Only(s) /\ udptab'[s] = r
  <2>. HIDE DEF r
  <2>. QED BY <1>2, <1>3, <1>6, SlotFields DEF Only
<1>8. /\ udptab'[s].udstate = "used" /\ udptab'[s].udcount = 0
      /\ udptab'[s].udhead = 0 /\ udptab'[s].udtail = 0
      /\ udptab'[s].udqueue = udptab[s].udqueue
  BY <1>4, <1>7 DEF SlotType
<1>. QED
  BY Zenon, <1>2, <1>3, <1>7, <1>8

\* udp_recv that waits marks the slot and leaves its queue alone.
LEMMA WaitEffect ==
  ASSUME AllTypeOK, NEW p \in Proc, NEW s \in Slot, udp_recvWait(p, s)
  PROVE  /\ udptab' \in [Slot -> SlotType] /\ Only(s) /\ SameEnd(s) /\ SameQueue(s)
         /\ udptab'[s].udstate = "recv" /\ udptab'[s].udpid = p
<1>. DEFINE r == [udptab[s] EXCEPT !.udstate = "recv", !.udpid = p]
<1>1. udptab' = [udptab EXCEPT ![s] = r]
  BY DEF udp_recvWait
<1>2. udptab[s] \in SlotType
  BY SlotFields
<1>3. r \in SlotType
  BY Zenon, <1>2 DEF SlotType
<1>4. udptab' \in [Slot -> SlotType] /\ Only(s) /\ udptab'[s] = r
  <2>. HIDE DEF r
  <2>. QED BY <1>1, <1>3, SlotFields DEF Only
<1>. QED
  BY <1>2, <1>4 DEF SlotType, SameEnd, SameQueue

\* udp_recv that returns without a packet ends the receiving state.
LEMMA UsedEffect ==
  ASSUME AllTypeOK, NEW s \in Slot,
         udptab' = [udptab EXCEPT ![s].udstate = "used"]
  PROVE  /\ udptab' \in [Slot -> SlotType] /\ Only(s) /\ SameEnd(s) /\ SameQueue(s)
         /\ udptab'[s].udstate = "used" /\ udptab'[s].udpid = udptab[s].udpid
<1>. DEFINE r == [udptab[s] EXCEPT !.udstate = "used"]
<1>1. udptab' = [udptab EXCEPT ![s] = r]
  OBVIOUS
<1>2. udptab[s] \in SlotType
  BY SlotFields
<1>3. r \in SlotType
  BY <1>2 DEF SlotType
<1>4. udptab' \in [Slot -> SlotType] /\ Only(s) /\ udptab'[s] = r
  <2>. HIDE DEF r
  <2>. QED BY <1>1, <1>3, SlotFields DEF Only
<1>. QED
  BY SMT, SMTT(30), <1>2, <1>4 DEF SlotType, SameEnd, SameQueue

-----------------------------------------------------------------------------
(* Parts of the invariant that a step leaves alone. *)

\* The resolutions are not disturbed by a step of UDP that neither ends the call of
\* a process in arp_resolve nor sends it a message.
LEMMA ResolutionsKept ==
  ASSUME Resolutions, UNCHANGED arpvars,
         \A p \in Proc : resolve[p].at # "none" =>
           call'[p].op = call[p].op /\ proc'[p].prmsg = proc[p].prmsg
  PROVE  Resolutions'
<1>. USE DEF Resolutions, arpvars, A!Slot
<1>1. PendingIsInProgress' /\ AwaitedIsKept' /\ AnswerIsOfHop'
  BY DEF PendingIsInProgress, A!PendingIsInProgress, AwaitedIsKept,
         A!AwaitedIsKept, AnswerIsOfHop, A!AnswerIsOfHop, A!NoMsg, A!OK,
         NoMsg, OK
<1>. QED
  BY <1>1

\* The waits in udp_recv are not disturbed by a step that leaves the table alone
\* and neither begins nor ends such a wait, nor tells the process OK.
LEMMA WaitsKept ==
  ASSUME Waits, UNCHANGED <<udptab, owner>>, AllTypeOK,
         \A p \in Proc : call'[p].op = "recv" => call[p].op = "recv",
         \A p \in Proc : call[p].op = "recv" =>
           /\ call'[p] = call[p]
           /\ proc'[p].prmsg = OK => proc[p].prmsg = OK
  PROVE  Waits'
  BY DEF Waits

\* The buffers stay where they are in a step that moves none.
LEMMA PlacesKept ==
  ASSUME Rings, Places, UNCHANGED <<udptab, free>>,
         \A p \in Proc : /\ call'[p].buf = call[p].buf
                         /\ call'[p].op \in {"none", "recv"} => call[p].buf = NoBuf
  PROVE  Rings' /\ Places'
  BY DEF Rings, Places, QueuedOnce, HeldOnce, NoneLost

\* The packets match their slots after a step that writes to none of them.
LEMMA MatchedKept ==
  ASSUME Matched, UNCHANGED <<udptab, packet>>
  PROVE  Matched'
  BY Zenon DEF Matched, Matches

-----------------------------------------------------------------------------
(* The steps of UDP that leave the endpoint table alone. *)

\* The types of the calls and messages.
CallType == [op : {"none", "recv", "send", "resolve"}, slot : Slot,
             buf : Buffer \union {NoBuf}]

MsgType == [prstate : {"run", "rectim", "ready"}, prmsg : {NoMsg, OK} \union Foreign]

\* The types of the whole state, variable by variable.
LEMMA Types ==
  AllTypeOK <=> /\ udptab \in [Slot -> SlotType]
                /\ free \subseteq Buffer
                /\ packet \in [Buffer -> Packets \union {NoPacket}]
                /\ proc \in [Proc -> MsgType]
                /\ call \in [Proc -> CallType]
                /\ owner \in [Slot -> Proc \union {Nobody}]
                /\ A!TypeOK
  BY DEF AllTypeOK, TypeOK, SlotType, MsgType, CallType

\* The same of the next state.
LEMMA TypesNext ==
  AllTypeOK' <=> /\ udptab' \in [Slot -> SlotType]
                 /\ free' \subseteq Buffer
                 /\ packet' \in [Buffer -> Packets \union {NoPacket}]
                 /\ proc' \in [Proc -> MsgType]
                 /\ call' \in [Proc -> CallType]
                 /\ owner' \in [Slot -> Proc \union {Nobody}]
                 /\ A!TypeOK'
  BY DEF AllTypeOK, TypeOK, SlotType, MsgType, CallType

\* The cache keeps its type in a step of UDP.
LEMMA ArpTypeKept ==
  ASSUME A!TypeOK, UNCHANGED arpvars
  PROVE  A!TypeOK'
  BY DEF A!TypeOK, arpvars, A!Slot

\* The call that udp_send and udp_recv begin.
LEMMA NewCall ==
  ASSUME NEW o \in {"recv", "send"}, NEW s \in Slot
  PROVE  /\ [NoCall EXCEPT !.op = o, !.slot = s] \in CallType
         /\ [NoCall EXCEPT !.op = o, !.slot = s].op = o
         /\ [NoCall EXCEPT !.op = o, !.slot = s].slot = s
         /\ [NoCall EXCEPT !.op = o, !.slot = s].buf = NoBuf
  BY Zenon, Slots DEF NoCall, CallType

\* udp_send begins.
LEMMA SendStep ==
  ASSUME IInv, NEW p \in Proc, NEW s \in Slot, NEW to \in BOOLEAN,
         udp_send(p, s, to), UNCHANGED arpvars
  PROVE  IInv'
<1>. USE DEF IInv
<1>. DEFINE c == [NoCall EXCEPT !.op = "send", !.slot = s]
<1>1. /\ UNCHANGED <<udptab, free, packet, proc, owner>>
      /\ call' = [call EXCEPT ![p] = c] /\ call[p].op = "none"
  BY DEF udp_send, MayUse
<1>2. c \in CallType /\ c.op = "send" /\ c.buf = NoBuf
  BY NewCall, Zenon
<1>. HIDE DEF c
<1>3. call' \in [Proc -> CallType]
  BY <1>1, <1>2, Types
<1>4. AllTypeOK'
  BY <1>1, <1>3, Types, TypesNext, ArpTypeKept
<1>5. \A q \in Proc : q # p => call'[q] = call[q]
  BY <1>1, Types
<1>6. call'[p].op = "send" /\ call'[p].buf = NoBuf
  BY <1>1, <1>2, Types
<1>7. Waits'
  BY <1>1, <1>5, <1>6, WaitsKept
<1>8. /\ call[p].buf = NoBuf
      /\ \A q \in Proc : call[q].op \in {"none", "recv"} => call[q].buf = NoBuf
  BY <1>1 DEF Places, HeldOnce
<1>9. Rings' /\ Places'
  BY <1>1, <1>5, <1>6, <1>8, PlacesKept
<1>10. Resolutions'
  <2>1. resolve[p].at = "none"
    BY <1>1 DEF Resolutions
  <2>. QED BY <2>1, <1>1, <1>5, ResolutionsKept
<1>. QED
  BY <1>1, <1>4, <1>7, <1>9, <1>10, MatchedKept

\* The sender takes a buffer from the pool.
LEMMA FillStep ==
  ASSUME IInv, NEW p \in Proc, udp_sendFill(p), UNCHANGED arpvars
  PROVE  IInv'
<1>. USE DEF IInv
<1>1. PICK b \in free :
        /\ UNCHANGED <<udptab, packet, proc, owner>>
        /\ call' = [call EXCEPT ![p].buf = b] /\ free' = free \ {b}
        /\ call[p].op = "send" /\ call[p].buf = NoBuf
  BY Zenon DEF udp_sendFill
<1>2. b \in Buffer /\ b # NoBuf
  BY Types, UdpAssumption
<1>3. /\ call' \in [Proc -> CallType] /\ call'[p].op = "send" /\ call'[p].buf = b
      /\ \A q \in Proc : q # p => call'[q] = call[q]
  BY <1>1, <1>2, Types DEF CallType
<1>4. AllTypeOK'
  BY <1>1, <1>3, Types, TypesNext, ArpTypeKept
<1>5. Waits'
  BY <1>1, <1>3, WaitsKept
<1>6. Rings'
  BY <1>1 DEF Rings
<1>7. Places'
  <2>1. QueuedOnce'
    BY <1>1 DEF Places, QueuedOnce
  <2>2. HeldOnce'
    BY <1>1, <1>2, <1>3 DEF Places, HeldOnce, QueuedOnce
  <2>3. NoneLost'
    BY <1>1, <1>2, <1>3, UdpAssumption DEF Places, NoneLost
  <2>. QED BY <2>1, <2>2, <2>3 DEF Places
<1>8. Resolutions'
  BY <1>1, <1>3, ResolutionsKept
<1>. QED
  BY <1>1, <1>4, <1>5, <1>6, <1>7, <1>8, MatchedKept

\* ip_send has freed the sender's buffer.
LEMMA SentStep ==
  ASSUME IInv, NEW p \in Proc, Sent(p), UNCHANGED arpvars
  PROVE  IInv'
<1>. USE DEF IInv
<1>1. /\ UNCHANGED <<udptab, packet, proc, owner>>
      /\ call' = [call EXCEPT ![p] = NoCall] /\ free' = free \union {call[p].buf}
      /\ call[p].op \in {"send", "resolve"} /\ call[p].buf # NoBuf
      /\ resolve[p].at = "none"
  BY DEF Sent, udp_sendDone
<1>2. NoCall \in CallType /\ NoCall.op = "none" /\ NoCall.buf = NoBuf
  BY Slots DEF NoCall, CallType
<1>3. /\ call' \in [Proc -> CallType] /\ call'[p].op = "none" /\ call'[p].buf = NoBuf
      /\ \A q \in Proc : q # p => call'[q] = call[q]
  BY <1>1, <1>2, Types
<1>4. call[p].buf \in Buffer
  BY <1>1, Types DEF CallType
<1>5. AllTypeOK'
  BY <1>1, <1>3, <1>4, Types, TypesNext, ArpTypeKept
<1>6. Waits'
  BY <1>1, <1>3, WaitsKept
<1>7. Rings'
  BY <1>1 DEF Rings
<1>8. Places'
  <2>1. QueuedOnce'
    BY <1>1 DEF Places, QueuedOnce, HeldOnce
  <2>2. HeldOnce'
    <3>1. NoBuf \notin free'
      BY <1>5, Types, TypesNext, UdpAssumption
    <3>. QED BY <1>1, <1>3, <3>1 DEF Places, HeldOnce
  <2>3. NoneLost'
    BY <1>1, <1>3 DEF Places, NoneLost
  <2>. QED BY <2>1, <2>2, <2>3 DEF Places
<1>9. Resolutions'
  BY <1>1, <1>3, ResolutionsKept
<1>. QED
  BY <1>1, <1>5, <1>6, <1>7, <1>8, <1>9, MatchedKept

\* The clock ends the wait of a process.
LEMMA TimeoutStep ==
  ASSUME IInv, NEW p \in Proc, Timeout(p), UNCHANGED arpvars
  PROVE  IInv'
<1>. USE DEF IInv
<1>1. /\ UNCHANGED <<udptab, free, packet, call, owner>>
      /\ proc' = [proc EXCEPT ![p].prstate = "ready"]
  BY DEF Timeout, Expire
<1>2. proc' \in [Proc -> MsgType] /\ \A q \in Proc : proc'[q].prmsg = proc[q].prmsg
  BY <1>1, Types DEF MsgType
<1>3. AllTypeOK'
  BY <1>1, <1>2, Types, TypesNext, ArpTypeKept
<1>4. Waits'
  BY <1>1, <1>2, WaitsKept
<1>5. Rings' /\ Places'
  BY <1>1, PlacesKept DEF Places, HeldOnce
<1>6. Resolutions'
  BY <1>1, <1>2, ResolutionsKept
<1>. QED
  BY <1>1, <1>3, <1>4, <1>5, <1>6, MatchedKept

\* Another program sends a message to a process that is not in arp_resolve.
LEMMA DisturbsStep ==
  ASSUME Quiet, IInv, NEW p \in Proc, NEW m \in Foreign, Disturbs(p, m),
         UNCHANGED arpvars
  PROVE  IInv'
<1>. USE DEF IInv
<1>1. /\ UNCHANGED <<udptab, free, packet, call, owner>> /\ resolve[p].at = "none"
      /\ proc' = send(proc, p, m)
  BY DEF Disturbs, ForeignMessage, Quiet
<1>2. m # OK
  BY UdpAssumption
<1>3. /\ proc' \in [Proc -> MsgType]
      /\ \A q \in Proc : q # p => proc'[q] = proc[q]
      /\ proc'[p].prmsg = OK => proc[p].prmsg = OK
  BY <1>1, <1>2, SendType DEF MsgType
<1>4. AllTypeOK'
  BY <1>1, <1>3, Types, TypesNext, ArpTypeKept
<1>5. Waits'
  BY <1>1, <1>3, WaitsKept
<1>6. Rings' /\ Places'
  BY <1>1, PlacesKept DEF Places, HeldOnce
<1>7. Resolutions'
  BY <1>1, <1>3, ResolutionsKept
<1>. QED
  BY <1>1, <1>4, <1>5, <1>6, <1>7, MatchedKept

-----------------------------------------------------------------------------
(* The steps that change the endpoint table. *)

\* A queue without entries has no place within it.
LEMMA EmptyRing ==
  ASSUME NEW h \in Place, NEW k \in Place
  PROVE  ~ Within(h, 0, k) /\ h % UDP_QSIZ = h
<1>1. h \in 0 .. 2 * UDP_QSIZ - 1 /\ UDP_QSIZ \in Nat \ {0}
  BY UdpAssumption DEF Place
<1>. QED
  BY <1>1, Wrap DEF Within, Place

\* The queues hold the same buffers when no place changes.
LEMMA QueuesKept ==
  ASSUME Places, UNCHANGED <<free, call>>,
         \A s \in Slot : udptab'[s].udqueue = udptab[s].udqueue
  PROVE  Places'
  BY DEF Places, QueuedOnce, HeldOnce, NoneLost

\* udp_register.
LEMMA RegisterStep ==
  ASSUME IInv, NEW p \in Proc, NEW e \in Endpoint,
         udp_register(p, e[1], e[2], e[3]), UNCHANGED arpvars
  PROVE  IInv'
<1>. USE DEF IInv
<1>1. PICK s \in Slot :
           /\ udptab[s].udstate = "free" /\ owner' = [owner EXCEPT ![s] = p]
           /\ udptab' \in [Slot -> SlotType] /\ Only(s)
           /\ udptab'[s].udstate = "used" /\ udptab'[s].udcount = 0
           /\ udptab'[s].udhead = 0 /\ udptab'[s].udtail = 0
           /\ udptab'[s].udqueue = udptab[s].udqueue
  BY RegisterEffect
<1>2. UNCHANGED <<free, packet, proc, call>>
  BY DEF udp_register
<1>3. /\ owner' \in [Slot -> Proc \union {Nobody}] /\ owner'[s] = p
      /\ \A t \in Slot : t # s => owner'[t] = owner[t]
  BY <1>1, Types
<1>4. AllTypeOK'
  BY <1>1, <1>2, <1>3, Types, TypesNext, ArpTypeKept
<1>5. Waits'
  <2>1. \A q \in Proc : call[q].op = "recv" => call[q].slot \in Slot \ {s}
    <3>1. \A q \in Proc : call[q].slot \in Slot
      BY Types DEF CallType
    <3>2. owner[s] = Nobody
      BY <1>1 DEF Waits
    <3>. QED BY <3>1, <3>2, UdpAssumption DEF Waits
  <2>. QED BY <1>1, <1>2, <1>3, <2>1 DEF Waits, Only
<1>6. \A k \in Place : udptab[s].udqueue[k] = NoBuf
  BY <1>1, EmptyRing, SlotFields DEF Rings
<1>7. Rings'
  <2>1. 0 % UDP_QSIZ = 0 /\ \A k \in Place : ~ Within(0, 0, k)
    BY EmptyRing, Slots
  <2>2. SUFFICES ASSUME NEW t \in Slot
        PROVE  /\ udptab'[t].udstate = "free" => udptab'[t].udcount = 0
               /\ udptab'[t].udtail = (udptab'[t].udhead + udptab'[t].udcount) % UDP_QSIZ
               /\ \A k \in Place : udptab'[t].udqueue[k] # NoBuf
                          <=> Within(udptab'[t].udhead, udptab'[t].udcount, k)
    BY Zenon DEF Rings, Within
  <2>3. CASE t = s
    BY <2>3, <1>1, <1>6, <2>1
  <2>4. CASE t # s
    BY <2>4, <1>1 DEF Only, Rings
  <2>. QED BY <2>3, <2>4
<1>8. Places'
  BY <1>1, <1>2, QueuesKept DEF Only
<1>9. Matched'
  BY <1>1, <1>2, <1>6 DEF Matched, Matches, Only
<1>10. Resolutions'
  BY <1>2, ResolutionsKept
<1>. QED
  BY <1>4, <1>5, <1>7, <1>8, <1>9, <1>10

\* The places within a queue are those that its indices reach from the head.
LEMMA RingPlaces ==
  ASSUME NEW h \in Place, NEW n \in 0 .. UDP_QSIZ
  PROVE  /\ \A i \in 0 .. n - 1 :
              (h + i) % UDP_QSIZ \in Place /\ Within(h, n, (h + i) % UDP_QSIZ)
         /\ \A k \in Place : Within(h, n, k) =>
              \E i \in 0 .. n - 1 : (h + i) % UDP_QSIZ = k
<1>0. UDP_QSIZ \in Nat \ {0}
  BY UdpAssumption
<1>1. ASSUME NEW i \in 0 .. n - 1
      PROVE  (h + i) % UDP_QSIZ \in Place /\ Within(h, n, (h + i) % UDP_QSIZ)
  <2>1. h + i \in 0 .. 2 * UDP_QSIZ - 1
    BY <1>0 DEF Place
  <2>2. (h + i) % UDP_QSIZ = IF h + i < UDP_QSIZ THEN h + i ELSE h + i - UDP_QSIZ
    BY <1>0, <2>1, Wrap, SMT DEF Place
  <2>. QED BY <1>0, <2>1, <2>2 DEF Place, Within
<1>2. ASSUME NEW k \in Place, Within(h, n, k)
      PROVE  \E i \in 0 .. n - 1 : (h + i) % UDP_QSIZ = k
  <2>1. CASE h <= k /\ k < h + n
    <3>1. k - h \in 0 .. n - 1 /\ h + (k - h) = k /\ k \in 0 .. 2 * UDP_QSIZ - 1
             /\ k < UDP_QSIZ
      BY <1>0, <2>1 DEF Place
    <3>2. k % UDP_QSIZ = k
      BY <3>1, Wrap
    <3>. QED BY Zenon, <3>1, <3>2
  <2>2. CASE k < h + n - UDP_QSIZ
    <3>1. /\ k - h + UDP_QSIZ \in 0 .. n - 1 /\ h + (k - h + UDP_QSIZ) = k + UDP_QSIZ
          /\ k + UDP_QSIZ \in 0 .. 2 * UDP_QSIZ - 1 /\ ~ (k + UDP_QSIZ < UDP_QSIZ)
          /\ k + UDP_QSIZ - UDP_QSIZ = k
      BY <1>0, <2>2 DEF Place
    <3>2. (k + UDP_QSIZ) % UDP_QSIZ = k
      BY <1>0, <3>1, Wrap DEF Place
    <3>. QED BY <3>1, <3>2
  <2>. QED BY <1>2, <2>1, <2>2 DEF Within
<1>. QED
  BY <1>1, <1>2

\* What a queue holds, by its indices and by its places.
LEMMA QueuedPlaces ==
  ASSUME AllTypeOK, Rings, NEW s \in Slot, NEW b
  PROVE  b \in Queued(s) <=>
           b # NoBuf /\ \E k \in Place : udptab[s].udqueue[k] = b
<1>. DEFINE h == udptab[s].udhead
            n == udptab[s].udcount
            q == udptab[s].udqueue
<1>1. h \in Place /\ n \in 0 .. UDP_QSIZ
  BY SlotFields
<1>2. \A k \in Place : q[k] # NoBuf <=> Within(h, n, k)
  BY DEF Rings
<1>3. b \in Queued(s) <=> \E i \in 0 .. n - 1 : q[(h + i) % UDP_QSIZ] = b
  BY DEF Queued
<1>. HIDE DEF h, n, q
<1>4. ASSUME NEW i \in 0 .. n - 1, q[(h + i) % UDP_QSIZ] = b
      PROVE  b # NoBuf /\ \E k \in Place : q[k] = b
  BY <1>1, <1>2, <1>4, RingPlaces
<1>5. ASSUME b # NoBuf, NEW k \in Place, q[k] = b
      PROVE  \E i \in 0 .. n - 1 : q[(h + i) % UDP_QSIZ] = b
  <2>1. PICK i \in 0 .. n - 1 : (h + i) % UDP_QSIZ = k
    BY <1>1, <1>2, <1>5, RingPlaces
  <2>. QED BY <2>1, <1>5
<1>. QED
  BY <1>3, <1>4, <1>5 DEF q

\* Nobody waits at a slot whose owner is outside the calls, and whose owner is the
\* only process that may use it.
LEMMA OwnerAlone ==
  ASSUME IInv, NEW p \in Proc, NEW s \in Slot, MayUse(p, s), NEW q \in Proc,
         call[q].op = "recv"
  PROVE  call[q].slot \in Slot \ {s}
<1>1. call[q].slot \in Slot
  BY Types DEF IInv, CallType
<1>. QED
  BY <1>1 DEF IInv, Waits, MayUse

\* udp_release.
LEMMA ReleaseStep ==
  ASSUME IInv, NEW p \in Proc, NEW s \in Slot, udp_release(p, s),
         UNCHANGED arpvars
  PROVE  IInv'
<1>. USE DEF IInv
<1>1. /\ udptab' \in [Slot -> SlotType] /\ Only(s)
      /\ udptab'[s].udstate = "free"
      /\ udptab'[s].udhead = (udptab[s].udhead + udptab[s].udcount) % UDP_QSIZ
      /\ udptab'[s].udtail = udptab[s].udtail
      /\ udptab'[s].udcount = 0
      /\ udptab'[s].udqueue = [i \in Place |-> NoBuf]
  BY ReleaseEffect
<1>2. /\ UNCHANGED <<proc, call>> /\ MayUse(p, s)
      /\ free' = free \union Queued(s)
      /\ packet' = [b \in Buffer |-> IF b \in Queued(s) THEN NoPacket ELSE packet[b]]
      /\ owner' = [owner EXCEPT ![s] = Nobody]
  BY DEF udp_release
<1>3. /\ owner' \in [Slot -> Proc \union {Nobody}] /\ owner'[s] = Nobody
      /\ \A t \in Slot : t # s => owner'[t] = owner[t]
  BY <1>2, Types
<1>4. \A t \in Slot : \A k \in Place :
        udptab[t].udqueue[k] \in Buffer \union {NoBuf}
  BY SlotFields
<1>5. free' \subseteq Buffer
  BY <1>2, <1>4, Types, QueuedPlaces
<1>6. AllTypeOK'
  <2>1. packet' \in [Buffer -> Packets \union {NoPacket}]
    BY <1>2, Types
  <2>. QED BY <1>1, <1>2, <1>3, <1>5, <2>1, Types, TypesNext, ArpTypeKept
<1>7. Waits'
  BY <1>1, <1>2, <1>3, OwnerAlone DEF Waits, Only
<1>8. Rings'
  <2>1. SUFFICES ASSUME NEW t \in Slot
        PROVE  /\ udptab'[t].udstate = "free" => udptab'[t].udcount = 0
               /\ udptab'[t].udtail = (udptab'[t].udhead + udptab'[t].udcount) % UDP_QSIZ
               /\ \A k \in Place : udptab'[t].udqueue[k] # NoBuf
                          <=> Within(udptab'[t].udhead, udptab'[t].udcount, k)
    BY Zenon DEF Rings, Within
  <2>2. CASE t = s
    <3>. DEFINE h == udptab'[s].udhead
    <3>0. h = udptab[s].udtail
      BY <1>1 DEF Rings
    <3>1. h \in Place /\ h + 0 = h
      BY <3>0, SlotFields, UdpAssumption DEF Place
    <3>2. h % UDP_QSIZ = h /\ \A k \in Place : ~ Within(h, 0, k)
      BY <3>1, EmptyRing
    <3>. QED BY <2>2, <1>1, <3>0, <3>1, <3>2
  <2>3. CASE t # s
    BY <2>3, <1>1 DEF Only, Rings
  <2>. QED BY <2>2, <2>3
<1>9. Places'
  <2>1. QueuedOnce'
    <3>1. NoBuf \notin free'
      BY <1>5, UdpAssumption
    <3>2. \A t \in Slot \ {s} : \A k \in Place : udptab[t].udqueue[k] \notin Queued(s)
      BY QueuedPlaces DEF Places, QueuedOnce
    <3>. QED BY SMT, SMTT(30), <1>1, <1>2, <3>1, <3>2 DEF Places, QueuedOnce, Only
  <2>2. HeldOnce'
    <3>1. \A q \in Proc : call[q].buf \notin free'
      BY <1>2, <1>5, QueuedPlaces, UdpAssumption DEF Places, HeldOnce
    <3>. QED BY <1>1, <1>2, <3>1 DEF Places, HeldOnce, Only
  <2>3. NoneLost'
    BY SMT, SMTT(30), <1>1, <1>2, QueuedPlaces, UdpAssumption DEF Places, NoneLost, Only
  <2>. QED BY <2>1, <2>2, <2>3 DEF Places
<1>10. Matched'
  <2>1. \A t \in Slot \ {s} : \A k \in Place : udptab[t].udqueue[k] # NoBuf =>
          packet'[udptab[t].udqueue[k]] = packet[udptab[t].udqueue[k]]
    BY <1>2, <1>4, QueuedPlaces DEF Places, QueuedOnce
  <2>2. ASSUME NEW t \in Slot, NEW k \in Place, udptab'[t].udqueue[k] # NoBuf
        PROVE  Matches(t, packet[udptab[t].udqueue[k]])'
    <3>1. t # s
      BY <1>1, <2>2
    <3>2. udptab'[t] = udptab[t]
      BY <1>1, <3>1 DEF Only
    <3>3. Matches(t, packet[udptab[t].udqueue[k]])
      BY <2>2, <3>2 DEF Matched
    <3>. QED BY <2>1, <2>2, <3>1, <3>2, <3>3 DEF Matches
  <2>. QED BY <2>2 DEF Matched
<1>11. Resolutions'
  BY <1>2, ResolutionsKept
<1>. QED
  BY <1>6, <1>7, <1>8, <1>9, <1>10, <1>11

\* Moving the head by one place takes that place out of the queue.
LEMMA RingNext ==
  ASSUME NEW h \in Place, NEW n \in 1 .. UDP_QSIZ
  PROVE  /\ (h + 1) % UDP_QSIZ \in Place /\ Within(h, n, h)
         /\ (((h + 1) % UDP_QSIZ) + (n - 1)) % UDP_QSIZ = (h + n) % UDP_QSIZ
         /\ \A k \in Place :
              Within((h + 1) % UDP_QSIZ, n - 1, k) <=> Within(h, n, k) /\ k # h
<1>0. UDP_QSIZ \in Nat \ {0}
  BY UdpAssumption
<1>. DEFINE g == (h + 1) % UDP_QSIZ
<1>1. h + 1 \in 0 .. 2 * UDP_QSIZ - 1 /\ h + n \in 0 .. 2 * UDP_QSIZ - 1
  BY <1>0 DEF Place
<1>2. g = IF h + 1 < UDP_QSIZ THEN h + 1 ELSE h + 1 - UDP_QSIZ
  BY <1>0, <1>1, Wrap, SMT DEF Place
<1>. HIDE DEF g
<1>3. g \in Place /\ g + (n - 1) \in 0 .. 2 * UDP_QSIZ - 1
  BY <1>0, <1>2 DEF Place
<1>4. (g + (n - 1)) % UDP_QSIZ
        = IF g + (n - 1) < UDP_QSIZ THEN g + (n - 1) ELSE g + (n - 1) - UDP_QSIZ
  BY <1>0, <1>3, Wrap, SMT DEF Place
<1>5. (h + n) % UDP_QSIZ = IF h + n < UDP_QSIZ THEN h + n ELSE h + n - UDP_QSIZ
  BY <1>0, <1>1, Wrap, SMT DEF Place
<1>6. (g + (n - 1)) % UDP_QSIZ = (h + n) % UDP_QSIZ
  BY <1>0, <1>2, <1>4, <1>5 DEF Place
<1>7. \A k \in Place : Within(g, n - 1, k) <=> Within(h, n, k) /\ k # h
  BY <1>0, <1>2 DEF Place, Within
<1>8. Within(h, n, h)
  BY <1>0 DEF Place, Within
<1>. QED
  BY <1>3, <1>6, <1>7, <1>8 DEF g

\* The tail is outside a queue that is not full, and becomes its last place.
LEMMA RingMore ==
  ASSUME NEW h \in Place, NEW n \in 0 .. UDP_QSIZ - 1
  PROVE  /\ (h + n) % UDP_QSIZ \in Place /\ ~ Within(h, n, (h + n) % UDP_QSIZ)
         /\ (((h + n) % UDP_QSIZ) + 1) % UDP_QSIZ = (h + (n + 1)) % UDP_QSIZ
         /\ \A k \in Place :
              Within(h, n + 1, k) <=> Within(h, n, k) \/ k = (h + n) % UDP_QSIZ
<1>0. UDP_QSIZ \in Nat \ {0}
  BY UdpAssumption
<1>. DEFINE g == (h + n) % UDP_QSIZ
<1>1. h + n \in 0 .. 2 * UDP_QSIZ - 1 /\ h + (n + 1) \in 0 .. 2 * UDP_QSIZ - 1
  BY <1>0 DEF Place
<1>2. g = IF h + n < UDP_QSIZ THEN h + n ELSE h + n - UDP_QSIZ
  BY <1>0, <1>1, Wrap, SMT DEF Place
<1>. HIDE DEF g
<1>3. g \in Place /\ g + 1 \in 0 .. 2 * UDP_QSIZ - 1
  BY <1>0, <1>2 DEF Place
<1>4. (g + 1) % UDP_QSIZ = IF g + 1 < UDP_QSIZ THEN g + 1 ELSE g + 1 - UDP_QSIZ
  BY <1>0, <1>3, Wrap, SMT DEF Place
<1>5. (h + (n + 1)) % UDP_QSIZ
        = IF h + (n + 1) < UDP_QSIZ THEN h + (n + 1) ELSE h + (n + 1) - UDP_QSIZ
  BY <1>0, <1>1, Wrap, SMT DEF Place
<1>6. (g + 1) % UDP_QSIZ = (h + (n + 1)) % UDP_QSIZ
  BY <1>0, <1>2, <1>4, <1>5 DEF Place
<1>7. \A k \in Place : Within(h, n + 1, k) <=> Within(h, n, k) \/ k = g
  BY <1>0, <1>2 DEF Place, Within
<1>8. ~ Within(h, n, g)
  BY <1>0, <1>2 DEF Place, Within
<1>. QED
  BY <1>3, <1>6, <1>7, <1>8 DEF g

\* Taking the first packet of a queue moves its buffer to the pool and nothing
\* else, whatever call the packet is taken in.
LEMMA DequeueMoves ==
  ASSUME IInv, NEW p \in Proc, NEW s \in Slot, udptab[s].udcount > 0,
         Dequeue(p, s),
         \A q \in Proc : /\ call'[q].buf = call[q].buf
                         /\ call'[q].op \in {"none", "recv"} => call[q].buf = NoBuf
  PROVE  /\ free' \subseteq Buffer
         /\ packet' \in [Buffer -> Packets \union {NoPacket}]
         /\ Rings' /\ Places' /\ Matched'
<1>. USE DEF IInv
<1>. DEFINE h == udptab[s].udhead
            n == udptab[s].udcount
            b == udptab[s].udqueue[h]
<1>1. /\ Only(s) /\ SameEnd(s) /\ udptab'[s].udstate = "used"
      /\ udptab'[s].udhead = (h + 1) % UDP_QSIZ
      /\ udptab'[s].udtail = udptab[s].udtail
      /\ udptab'[s].udcount = n - 1
      /\ udptab'[s].udqueue = [udptab[s].udqueue EXCEPT ![h] = NoBuf]
  BY DequeueEffect
<1>2. /\ free' = free \union ({b} \ {NoBuf})
      /\ packet' = [c \in Buffer |-> IF c = b THEN NoPacket ELSE packet[c]]
  BY DEF Dequeue
<1>3. h \in Place /\ n \in 1 .. UDP_QSIZ
  BY SlotFields
<1>4. \A t \in Slot : udptab[t].udqueue \in [Place -> Buffer \union {NoBuf}]
  BY SlotFields
<1>5. b \in Buffer /\ b # NoBuf
  <2>1. Within(h, n, h)
    <3>. HIDE DEF h, n
    <3>. QED BY <1>3, RingNext
  <2>2. b # NoBuf
    BY <1>3, <2>1 DEF Rings
  <2>. QED BY <1>3, <1>4, <2>2
<1>6. /\ udptab'[s].udqueue[h] = NoBuf
      /\ \A k \in Place : k # h => udptab'[s].udqueue[k] = udptab[s].udqueue[k]
  BY <1>1, <1>3, <1>4
<1>. HIDE DEF b
<1>7. free' \subseteq Buffer /\ packet' \in [Buffer -> Packets \union {NoPacket}]
  BY <1>2, <1>5, Types
<1>8. Rings'
  <2>1. SUFFICES ASSUME NEW t \in Slot
        PROVE  /\ udptab'[t].udstate = "free" => udptab'[t].udcount = 0
               /\ udptab'[t].udtail = (udptab'[t].udhead + udptab'[t].udcount) % UDP_QSIZ
               /\ \A k \in Place : udptab'[t].udqueue[k] # NoBuf
                          <=> Within(udptab'[t].udhead, udptab'[t].udcount, k)
    BY Zenon DEF Rings, Within
  <2>2. CASE t = s
    <3>1. udptab[s].udtail = (h + n) % UDP_QSIZ
            /\ \A k \in Place : udptab[s].udqueue[k] # NoBuf <=> Within(h, n, k)
      BY DEF Rings
    <3>. HIDE DEF h, n
    <3>. QED BY <2>2, <1>1, <1>3, <1>6, <3>1, RingNext
  <2>3. CASE t # s
    BY <2>3, <1>1 DEF Only, Rings
  <2>. QED BY <2>2, <2>3
<1>9. Places'
  <2>0. NoBuf \notin free'
    BY <1>7, UdpAssumption
  <2>1. QueuedOnce'
    <3>1. \A t \in Slot : \A k \in Place :
            udptab'[t].udqueue[k] # NoBuf =>
              udptab'[t].udqueue[k] = udptab[t].udqueue[k] /\ ~ (t = s /\ k = h)
      BY Zenon, <1>1, <1>6 DEF Only
    <3>2. \A t \in Slot : \A k \in Place :
            udptab[t].udqueue[k] = b => t = s /\ k = h
      BY <1>3, <1>5 DEF Places, QueuedOnce, b
    <3>. HIDE DEF h
    <3>3. \A t \in Slot : \A k \in Place : udptab'[t].udqueue[k] \notin free'
      BY <1>2, <2>0, <3>1, <3>2 DEF Places, QueuedOnce
    <3>4. \A t, u \in Slot : \A k, l \in Place :
            udptab'[t].udqueue[k] = udptab'[u].udqueue[l] =>
              udptab'[t].udqueue[k] = NoBuf \/ (t = u /\ k = l)
      BY <3>1 DEF Places, QueuedOnce
    <3>. QED BY <3>3, <3>4 DEF QueuedOnce
  <2>2. HeldOnce'
    <3>1. \A q \in Proc : call'[q].buf \notin free'
      BY <1>2, <1>3, <1>5, <2>0 DEF Places, HeldOnce, b
    <3>2. \A t \in Slot : \A k \in Place :
            udptab'[t].udqueue[k] \in {NoBuf, udptab[t].udqueue[k]}
      BY Zenon, <1>1, <1>6 DEF Only
    <3>. QED BY <3>1, <3>2 DEF Places, HeldOnce
  <2>3. NoneLost'
    <3>1. ASSUME NEW c \in Buffer, c # b, NEW t \in Slot, NEW k \in Place,
                 udptab[t].udqueue[k] = c
          PROVE  udptab'[t].udqueue[k] = c
      BY Zenon, <3>1, <1>1, <1>6 DEF Only, b
    <3>. QED BY <1>2, <1>5, <3>1 DEF Places, NoneLost
  <2>. QED BY <2>1, <2>2, <2>3 DEF Places
<1>10. Matched'
  <2>1. SUFFICES ASSUME NEW t \in Slot, NEW k \in Place, udptab'[t].udqueue[k] # NoBuf
        PROVE  LET pkt == packet'[udptab'[t].udqueue[k]]
               IN  /\ udptab'[t].udstate # "free"
                   /\ pkt.dport = udptab'[t].udlocport
                   /\ udptab'[t].udremport \in {0, pkt.sport}
                   /\ udptab'[t].udremip \in {0, pkt.src}
    BY Zenon DEF Matched, Matches
  <2>. DEFINE c == udptab[t].udqueue[k]
  <2>2. udptab'[t].udqueue[k] = c /\ ~ (t = s /\ k = h)
    BY Zenon, <2>1, <1>1, <1>6 DEF Only
  <2>3. c # b /\ c \in Buffer
    BY <2>1, <2>2, <1>3, <1>4, <1>5 DEF Places, QueuedOnce, b
  <2>4. packet'[c] = packet[c]
    <3>. HIDE DEF c
    <3>. QED BY <1>2, <2>3
  <2>5. Matches(t, packet[c])
    BY Zenon, <2>1, <2>2 DEF Matched
  <2>6. /\ udptab'[t].udstate # "free"
        /\ udptab'[t].udlocport = udptab[t].udlocport
        /\ udptab'[t].udremport = udptab[t].udremport
        /\ udptab'[t].udremip = udptab[t].udremip
    BY <1>1, <2>5 DEF Only, SameEnd, Matches
  <2>7. /\ packet[c].dport = udptab[t].udlocport
        /\ udptab[t].udremport \in {0, packet[c].sport}
        /\ udptab[t].udremip \in {0, packet[c].src}
    BY <2>5 DEF Matches
  <2>. HIDE DEF c
  <2>. QED BY <2>2, <2>4, <2>6, <2>7
<1>. QED
  BY <1>7, <1>8, <1>9, <1>10

\* The processes that wait at other slots are not concerned when a slot leaves the
\* receiving state.
LEMMA OthersWait ==
  ASSUME Waits, NEW s \in Slot, Only(s), udptab'[s].udstate = "used", UNCHANGED owner,
         \A q \in Proc : call'[q].op = "recv" =>
           /\ call'[q] = call[q] /\ proc'[q] = proc[q]
           /\ call[q].slot \in Slot \ {s},
         \A q \in Proc : call[q].op = "recv" /\ call[q].slot # s => call'[q] = call[q]
  PROVE  Waits'
<1>1. \A t \in Slot : udptab'[t].udstate = "free" => owner'[t] = Nobody
  BY DEF Waits, Only
<1>2. \A t \in Slot : udptab'[t].udstate = "recv" =>
        /\ udptab'[t].udpid \in Proc
        /\ call'[udptab'[t].udpid].op = "recv" /\ call'[udptab'[t].udpid].slot = t
  <2>1. SUFFICES ASSUME NEW t \in Slot, udptab'[t].udstate = "recv"
        PROVE  /\ udptab'[t].udpid \in Proc
               /\ call'[udptab'[t].udpid].op = "recv"
               /\ call'[udptab'[t].udpid].slot = t
    OBVIOUS
  <2>2. t # s /\ udptab'[t] = udptab[t]
    BY <2>1 DEF Only
  <2>3. /\ udptab[t].udpid \in Proc
        /\ call[udptab[t].udpid].op = "recv" /\ call[udptab[t].udpid].slot = t
    BY Zenon, <2>1, <2>2 DEF Waits
  <2>. QED BY Zenon, <2>2, <2>3
<1>3. \A q \in Proc : call'[q].op = "recv" =>
        /\ owner'[call'[q].slot] = q
        /\ proc'[q].prmsg = OK => udptab'[call'[q].slot].udcount > 0
  <2>1. SUFFICES ASSUME NEW q \in Proc, call'[q].op = "recv"
        PROVE  /\ owner'[call'[q].slot] = q
               /\ proc'[q].prmsg = OK => udptab'[call'[q].slot].udcount > 0
    OBVIOUS
  <2>2. call'[q] = call[q] /\ proc'[q] = proc[q] /\ call[q].slot \in Slot \ {s}
    BY Zenon, <2>1
  <2>3. udptab'[call[q].slot] = udptab[call[q].slot]
    BY Zenon, <2>2 DEF Only
  <2>. QED BY Zenon, <2>1, <2>2, <2>3 DEF Waits
<1>. QED
  BY Zenon, <1>1, <1>2, <1>3 DEF Waits

\* udp_recv that finds a packet.
LEMMA RecvStep ==
  ASSUME IInv, NEW p \in Proc, NEW s \in Slot, udp_recv(p, s),
         UNCHANGED arpvars
  PROVE  IInv'
<1>. USE DEF IInv
<1>1. /\ MayUse(p, s) /\ udptab[s].udcount > 0 /\ Dequeue(p, s)
      /\ UNCHANGED <<proc, call, owner>>
  <2>1. udptab[s].udcount \in 0 .. UDP_QSIZ /\ udptab[s].udcount # 0
    BY SlotFields DEF udp_recv
  <2>. QED BY <2>1 DEF udp_recv
<1>2. udptab' \in [Slot -> SlotType] /\ Only(s) /\ udptab'[s].udstate = "used"
  BY Zenon, <1>1, DequeueEffect
<1>3. /\ free' \subseteq Buffer /\ packet' \in [Buffer -> Packets \union {NoPacket}]
      /\ Rings' /\ Places' /\ Matched'
  BY <1>1, DequeueMoves DEF Places, HeldOnce
<1>4. AllTypeOK'
  BY Zenon, <1>1, <1>2, <1>3, Types, TypesNext, ArpTypeKept
<1>5. Waits'
  <2>1. \A q \in Proc : call[q].op = "recv" => call[q].slot \in Slot \ {s}
    BY Zenon, <1>1, OwnerAlone
  <2>. QED BY Zenon, <1>1, <1>2, <2>1, OthersWait
<1>6. Resolutions'
  BY <1>1, ResolutionsKept
<1>. QED
  BY <1>3, <1>4, <1>5, <1>6

\* A slot whose queue is untouched holds the same packets.
LEMMA SameSlots ==
  ASSUME IInv, NEW s \in Slot, Only(s), SameEnd(s), SameQueue(s),
         UNCHANGED <<free, packet>>,
         udptab[s].udstate # "free", udptab'[s].udstate # "free",
         \A q \in Proc : /\ call'[q].buf = call[q].buf
                         /\ call'[q].op \in {"none", "recv"} => call[q].buf = NoBuf
  PROVE  Rings' /\ Places' /\ Matched'
<1>. USE DEF IInv
<1>1. \A t \in Slot :
        /\ udptab'[t].udqueue = udptab[t].udqueue
        /\ udptab'[t].udhead = udptab[t].udhead /\ udptab'[t].udtail = udptab[t].udtail
        /\ udptab'[t].udcount = udptab[t].udcount
        /\ udptab'[t].udstate = "free" <=> udptab[t].udstate = "free"
        /\ udptab'[t].udremip = udptab[t].udremip
        /\ udptab'[t].udremport = udptab[t].udremport
        /\ udptab'[t].udlocport = udptab[t].udlocport
  BY DEF Only, SameEnd, SameQueue
<1>2. Rings'
  <2>1. SUFFICES ASSUME NEW t \in Slot
        PROVE  /\ udptab'[t].udstate = "free" => udptab'[t].udcount = 0
               /\ udptab'[t].udtail = (udptab'[t].udhead + udptab'[t].udcount) % UDP_QSIZ
               /\ \A k \in Place : udptab'[t].udqueue[k] # NoBuf
                          <=> Within(udptab'[t].udhead, udptab'[t].udcount, k)
    BY Zenon DEF Rings, Within
  <2>. QED BY Zenon, <1>1 DEF Rings
<1>3. Places'
  <2>1. QueuedOnce'
    BY <1>1 DEF Places, QueuedOnce
  <2>2. HeldOnce'
    BY <1>1 DEF Places, HeldOnce
  <2>3. NoneLost'
    BY <1>1 DEF Places, NoneLost
  <2>. QED BY <2>1, <2>2, <2>3 DEF Places
<1>4. Matched'
  <2>1. SUFFICES ASSUME NEW t \in Slot, NEW k \in Place, udptab'[t].udqueue[k] # NoBuf
        PROVE  LET pkt == packet'[udptab'[t].udqueue[k]]
               IN  /\ udptab'[t].udstate # "free"
                   /\ pkt.dport = udptab'[t].udlocport
                   /\ udptab'[t].udremport \in {0, pkt.sport}
                   /\ udptab'[t].udremip \in {0, pkt.src}
    BY Zenon DEF Matched, Matches
  <2>2. Matches(t, packet[udptab[t].udqueue[k]])
    BY Zenon, <2>1, <1>1 DEF Matched
  <2>. QED BY Zenon, <1>1, <2>2 DEF Matches
<1>. QED
  BY <1>2, <1>3, <1>4

\* udp_recv that waits.
LEMMA WaitStep ==
  ASSUME IInv, NEW p \in Proc, NEW s \in Slot, udp_recvWait(p, s),
         UNCHANGED arpvars
  PROVE  IInv'
<1>. USE DEF IInv
<1>. DEFINE c == [NoCall EXCEPT !.op = "recv", !.slot = s]
<1>1. /\ UNCHANGED <<free, packet, owner>> /\ MayUse(p, s)
      /\ udptab[s].udstate = "used" /\ call[p].op = "none" /\ owner[s] = p
      /\ call' = [call EXCEPT ![p] = c]
      /\ proc' = [proc EXCEPT ![p] = [prstate |-> "rectim", prmsg |-> NoMsg]]
  BY DEF udp_recvWait, MayUse, recvtime
<1>2. c \in CallType /\ c.op = "recv" /\ c.slot = s /\ c.buf = NoBuf
  BY NewCall, Zenon
<1>. HIDE DEF c
<1>3. /\ call' \in [Proc -> CallType] /\ call'[p] = c
      /\ \A q \in Proc : q # p => call'[q] = call[q]
  BY <1>1, <1>2, Types
<1>4. /\ proc' \in [Proc -> MsgType] /\ proc'[p].prmsg = NoMsg
      /\ \A q \in Proc : q # p => proc'[q] = proc[q]
  BY <1>1, Types DEF MsgType
<1>5. /\ udptab' \in [Slot -> SlotType] /\ Only(s) /\ SameEnd(s) /\ SameQueue(s)
      /\ udptab'[s].udstate = "recv" /\ udptab'[s].udpid = p
  BY WaitEffect
<1>6. AllTypeOK'
  BY Zenon, <1>1, <1>3, <1>4, <1>5, Types, TypesNext, ArpTypeKept
<1>7. Waits'
  <2>1. \A q \in Proc : call[q].op = "recv" => call[q].slot \in Slot \ {s}
    BY <1>1, OwnerAlone
  <2>2. proc'[p].prmsg # OK
    BY <1>4 DEF NoMsg, OK
  <2>3. \A t \in Slot : udptab'[t].udstate = "free" => owner'[t] = Nobody
    BY Zenon, <1>1, <1>5 DEF Waits, Only
  <2>4. \A t \in Slot : t # s /\ udptab[t].udstate = "recv" => udptab[t].udpid # p
    BY Zenon, <1>1 DEF Waits
  <2>5. \A t \in Slot : udptab'[t].udstate = "recv" =>
          /\ udptab'[t].udpid \in Proc
          /\ call'[udptab'[t].udpid].op = "recv" /\ call'[udptab'[t].udpid].slot = t
    BY <1>2, <1>3, <1>5, <2>4 DEF Waits, Only
  <2>6. \A q \in Proc : call'[q].op = "recv" =>
          /\ owner'[call'[q].slot] = q
          /\ proc'[q].prmsg = OK => udptab'[call'[q].slot].udcount > 0
    <3>1. SUFFICES ASSUME NEW q \in Proc, call'[q].op = "recv"
          PROVE  /\ owner[call'[q].slot] = q
                 /\ proc'[q].prmsg = OK => udptab'[call'[q].slot].udcount > 0
      BY Zenon, <1>1
    <3>2. CASE q = p
      BY Zenon, <3>2, <1>1, <1>2, <1>3, <2>2
    <3>3. CASE q # p
      <4>1. call'[q] = call[q] /\ proc'[q] = proc[q] /\ call[q].op = "recv"
        BY Zenon, <3>1, <3>3, <1>3, <1>4
      <4>2. udptab'[call[q].slot] = udptab[call[q].slot]
        BY Zenon, <4>1, <2>1, <1>5 DEF Only
      <4>. QED BY Zenon, <4>1, <4>2 DEF Waits
    <3>. QED BY <3>2, <3>3
  <2>. QED BY Zenon, <2>3, <2>5, <2>6 DEF Waits
<1>8. Rings' /\ Places' /\ Matched'
  BY Zenon, <1>1, <1>2, <1>3, <1>5, SameSlots DEF Places, HeldOnce
<1>9. Resolutions'
  <2>1. resolve[p].at = "none"
    BY <1>1 DEF Resolutions
  <2>. QED BY <2>1, <1>3, <1>4, ResolutionsKept
<1>. QED
  BY <1>6, <1>7, <1>8, <1>9

\* udp_recv runs again after its wait.
LEMMA ResumeStep ==
  ASSUME IInv, NEW p \in Proc, udp_recvResume(p), UNCHANGED arpvars
  PROVE  IInv'
<1>. USE DEF IInv
<1>. DEFINE s == call[p].slot
<1>1. /\ call[p].op = "recv" /\ UNCHANGED owner
      /\ proc' = [proc EXCEPT ![p] = Running] /\ call' = [call EXCEPT ![p] = NoCall]
  BY DEF udp_recvResume, Taken
<1>2. s \in Slot /\ owner[s] = p /\ call[p].buf = NoBuf
  BY <1>1, Types DEF CallType, Waits, Places, HeldOnce
<1>3. /\ NoCall \in CallType /\ NoCall.op = "none" /\ NoCall.buf = NoBuf
      /\ Running \in MsgType
  BY Slots DEF NoCall, CallType, Running, MsgType
<1>4. /\ call' \in [Proc -> CallType] /\ call'[p] = NoCall
      /\ \A q \in Proc : q # p => call'[q] = call[q]
      /\ proc' \in [Proc -> MsgType]
      /\ \A q \in Proc : q # p => proc'[q] = proc[q]
  BY <1>1, <1>3, Types
<1>5. \A q \in Proc : /\ call'[q].buf = call[q].buf
                      /\ call'[q].op \in {"none", "recv"} => call[q].buf = NoBuf
  BY <1>2, <1>3, <1>4 DEF Places, HeldOnce
<1>6. udptab[s].udstate # "free"
  <2>1. owner[s] # Nobody
    BY Zenon, <1>2, UdpAssumption
  <2>. HIDE DEF s
  <2>. QED BY Zenon, <1>2, <2>1 DEF Waits
<1>7. /\ udptab' \in [Slot -> SlotType] /\ Only(s) /\ udptab'[s].udstate = "used"
      /\ free' \subseteq Buffer /\ packet' \in [Buffer -> Packets \union {NoPacket}]
      /\ Rings' /\ Places' /\ Matched'
  <2>1. CASE Answer(proc, p) = OK
    <3>1. proc[p].prmsg = OK
      BY <2>1 DEF Answer, OK, TIMEOUT
    <3>2. udptab[s].udcount > 0
      BY <1>1, <3>1 DEF Waits
    <3>3. Dequeue(p, s)
      BY <2>1 DEF udp_recvResume
    <3>. HIDE DEF s
    <3>. QED BY Zenon, <1>2, <1>5, <3>2, <3>3, DequeueEffect, DequeueMoves
  <2>2. CASE Answer(proc, p) # OK
    <3>1. udptab' = [udptab EXCEPT ![s].udstate = "used"] /\ UNCHANGED <<free, packet>>
      BY <2>2 DEF udp_recvResume
    <3>. HIDE DEF s
    <3>2. /\ udptab' \in [Slot -> SlotType] /\ Only(s) /\ SameEnd(s) /\ SameQueue(s)
          /\ udptab'[s].udstate = "used"
      BY Zenon, <1>2, <3>1, UsedEffect
    <3>. QED BY <1>2, <1>5, <1>6, <3>1, <3>2, SameSlots, Types
  <2>. QED BY <2>1, <2>2
<1>8. AllTypeOK'
  BY <1>1, <1>2, <1>4, <1>7, Types, TypesNext, ArpTypeKept
<1>9. Waits'
  <2>1. \A q \in Proc : call'[q].op = "recv" =>
          q # p /\ call[q].op = "recv" /\ call[q].slot \in Slot \ {s}
    <3>1. \A q \in Proc : call[q].slot \in Slot
      BY Types DEF CallType
    <3>. QED BY <1>2, <1>3, <1>4, <3>1 DEF Waits
  <2>2. \A q \in Proc : call[q].op = "recv" /\ call[q].slot # s => call'[q] = call[q]
    BY <1>4
  <2>. HIDE DEF s
  <2>. QED BY Zenon, <1>1, <1>2, <1>4, <1>7, <2>1, <2>2, OthersWait
<1>10. Resolutions'
  <2>1. resolve[p].at = "none"
    BY <1>1 DEF Resolutions
  <2>. QED BY <2>1, <1>4, ResolutionsKept
<1>. QED
  BY <1>7, <1>8, <1>9, <1>10

\* udp_in puts a packet into a queue.
LEMMA ArrivalStep ==
  ASSUME IInv, Arrival, UNCHANGED arpvars
  PROVE  IInv'
<1>. USE DEF IInv
<1>1. PICK b \in free, pkt \in Packets : udp_in(b, pkt)
  BY DEF Arrival
<1>. DEFINE s == CHOOSE i \in Accepts(pkt) : \A j \in Accepts(pkt) : i <= j
            h == udptab[s].udhead
            n == udptab[s].udcount
            l == udptab[s].udtail
<1>2. s \in Slot /\ Matches(s, pkt) /\ n < UDP_QSIZ
  <2>1. Accepts(pkt) # {} /\ Accepts(pkt) \in SUBSET Nat
    BY Zenon, <1>1, Slots DEF udp_in, Accepts
  <2>2. s \in Accepts(pkt)
    BY <2>1, LeastIsMember, Zenon
  <2>. HIDE DEF s
  <2>. QED BY <2>2 DEF Accepts
<1>3. /\ udptab' = [udptab EXCEPT ![s] =
           [udptab[s] EXCEPT !.udcount = udptab[s].udcount + 1,
              !.udqueue = [udptab[s].udqueue EXCEPT ![udptab[s].udtail] = b],
              !.udtail = (udptab[s].udtail + 1) % UDP_QSIZ,
              !.udstate = "used"]]
      /\ proc' = IF udptab[s].udstate = "recv" THEN send(proc, udptab[s].udpid, OK)
                 ELSE proc
      /\ free' = free \ {b} /\ packet' = [packet EXCEPT ![b] = pkt]
      /\ UNCHANGED <<call, owner>>
  BY <1>1 DEF udp_in
<1>. HIDE DEF s
<1>4. b \in Buffer /\ b # NoBuf
  BY Types, UdpAssumption
<1>5. /\ udptab' \in [Slot -> SlotType] /\ Only(s) /\ SameEnd(s)
      /\ udptab'[s].udstate = "used" /\ udptab'[s].udhead = h
      /\ udptab'[s].udtail = (l + 1) % UDP_QSIZ /\ udptab'[s].udcount = n + 1
      /\ udptab'[s].udqueue = [udptab[s].udqueue EXCEPT ![l] = b]
  BY Zenon, <1>2, <1>3, <1>4, EnqueueEffect
<1>6. h \in Place /\ n \in 0 .. UDP_QSIZ - 1 /\ l \in Place
  BY <1>2, SlotFields, UdpAssumption
<1>7. \A t \in Slot : udptab[t].udqueue \in [Place -> Buffer \union {NoBuf}]
  BY SlotFields
<1>8. /\ udptab'[s].udqueue[l] = b
      /\ \A k \in Place : k # l => udptab'[s].udqueue[k] = udptab[s].udqueue[k]
  BY <1>2, <1>5, <1>6, <1>7
<1>9. l = (h + n) % UDP_QSIZ
        /\ \A k \in Place : udptab[s].udqueue[k] # NoBuf <=> Within(h, n, k)
  BY <1>2 DEF Rings
<1>10. udptab[s].udqueue[l] = NoBuf
  <2>. HIDE DEF h, n
  <2>. QED BY <1>6, <1>9, RingMore
<1>11. /\ proc' \in [Proc -> MsgType]
       /\ \A q \in Proc : proc'[q].prmsg # proc[q].prmsg =>
            call[q].op = "recv" /\ call[q].slot = s
  <2>1. CASE udptab[s].udstate = "recv"
    <3>1. /\ udptab[s].udpid \in Proc /\ call[udptab[s].udpid].op = "recv"
          /\ call[udptab[s].udpid].slot = s
      BY <1>2, <2>1 DEF Waits
    <3>2. proc' = send(proc, udptab[s].udpid, OK)
      BY <1>3, <2>1
    <3>. QED BY <3>1, <3>2, SendType DEF MsgType
  <2>2. CASE udptab[s].udstate # "recv"
    BY <1>3, <2>2, Types
  <2>. QED BY <2>1, <2>2
<1>12. AllTypeOK'
  <2>1. packet' \in [Buffer -> Packets \union {NoPacket}]
    BY <1>3, <1>4, Types
  <2>. QED BY <1>3, <1>5, <1>11, <2>1, Types, TypesNext, ArpTypeKept
<1>13. Waits'
  <2>1. n + 1 > 0
    BY <1>6
  <2>2. \A q \in Proc : call[q].slot \in Slot
    BY Types DEF CallType
  <2>3. udptab[s].udstate # "free"
    BY <1>2 DEF Matches
  <2>. HIDE DEF n
  <2>. QED BY <1>2, <1>3, <1>5, <1>11, <2>1, <2>2, <2>3 DEF Waits, Only
<1>14. Rings'
  <2>1. SUFFICES ASSUME NEW t \in Slot
        PROVE  /\ udptab'[t].udstate = "free" => udptab'[t].udcount = 0
               /\ udptab'[t].udtail = (udptab'[t].udhead + udptab'[t].udcount) % UDP_QSIZ
               /\ \A k \in Place : udptab'[t].udqueue[k] # NoBuf
                          <=> Within(udptab'[t].udhead, udptab'[t].udcount, k)
    BY Zenon DEF Rings, Within
  <2>2. CASE t = s
    <3>. HIDE DEF h, n, l
    <3>. QED BY <2>2, <1>4, <1>5, <1>6, <1>8, <1>9, RingMore
  <2>3. CASE t # s
    BY <2>3, <1>5 DEF Only, Rings
  <2>. QED BY <2>2, <2>3
<1>15. Places'
  <2>. HIDE DEF h, n, l
  <2>0. \A t \in Slot : \A k \in Place :
          udptab'[t].udqueue[k] = IF t = s /\ k = l THEN b ELSE udptab[t].udqueue[k]
    BY Zenon, <1>5, <1>8 DEF Only
  <2>1. QueuedOnce'
    BY <1>3, <2>0 DEF Places, QueuedOnce
  <2>2. HeldOnce'
    BY <1>3, <2>0 DEF Places, HeldOnce
  <2>3. NoneLost'
    <3>1. \A c \in Buffer, t \in Slot : \A k \in Place :
            udptab[t].udqueue[k] = c => udptab'[t].udqueue[k] = c
      BY <1>10, <2>0, UdpAssumption DEF l
    <3>2. udptab'[s].udqueue[l] = b
      BY <1>8
    <3>. QED BY <1>2, <1>3, <1>6, <3>1, <3>2 DEF Places, NoneLost
  <2>. QED BY <2>1, <2>2, <2>3 DEF Places
<1>16. Matched'
  <2>1. packet'[b] = pkt /\ \A c \in Buffer : c # b => packet'[c] = packet[c]
    BY <1>3, <1>4, Types
  <2>. QED
    <3>. SUFFICES ASSUME NEW t \in Slot, NEW k \in Place, udptab'[t].udqueue[k] # NoBuf
         PROVE  Matches(t, packet[udptab[t].udqueue[k]])'
      BY DEF Matched
    <3>1. CASE t = s /\ k = l
      BY Zenon, <3>1, <1>2, <1>5, <1>8, <2>1 DEF Matches, SameEnd
    <3>2. CASE ~ (t = s /\ k = l)
      <4>1. udptab'[t].udqueue[k] = udptab[t].udqueue[k]
        BY Zenon, <3>2, <1>5, <1>8 DEF Only
      <4>2. udptab[t].udqueue[k] \in Buffer \ {b}
        BY <4>1, <1>7 DEF Places, QueuedOnce
      <4>3. Matches(t, packet[udptab[t].udqueue[k]])
        BY <4>1 DEF Matched
      <4>. QED BY <1>2, <1>5, <2>1, <4>1, <4>2, <4>3 DEF Matches, Only, SameEnd
    <3>. QED BY <3>1, <3>2
<1>17. Resolutions'
  BY <1>3, <1>11, ResolutionsKept DEF Resolutions
<1>. QED
  BY <1>12, <1>13, <1>14, <1>15, <1>16, <1>17
=============================================================================
