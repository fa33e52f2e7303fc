-------------------------------- MODULE Udp --------------------------------
(***************************************************************************)
(* UDP endpoints: a table of slots, each with a circular queue of packets  *)
(* that udp_in fills from the network input process and udp_recv empties,  *)
(* waiting with a timeout for a message from udp_in when there is none.    *)
(***************************************************************************)
EXTENDS Integers, FiniteSets, Message

CONSTANTS Proc,
          UDP_SLOTS, UDP_QSIZ,   \* slots, and packets in the queue of a slot
          Buffer,                \* the network buffers
          Host, RemPort, LocPort,\* remote addresses and ports, local ports
          Endpoint,              \* what programs register; zero: any remote
          Foreign                \* messages that other programs send

NoBuf == "nobuf"
Nobody == "nobody"

\* The sets are finite, zero is no address, and other programs do not send what
\* the network code answers with.
ASSUME UdpAssumption ==
  /\ UDP_SLOTS \in Nat \ {0} /\ UDP_QSIZ \in Nat \ {0}
  /\ 0 \notin Host /\ 0 \notin RemPort
  /\ Endpoint \subseteq (Host \union {0}) \X (RemPort \union {0}) \X LocPort
  /\ IsFiniteSet(Proc) /\ Nobody \notin Proc
  /\ IsFiniteSet(Buffer) /\ NoBuf \notin Buffer
  /\ Foreign \intersect {NoMsg, OK, TIMEOUT} = {}

Slot == 0 .. UDP_SLOTS - 1

VARIABLES
  udptab,    \* the endpoint table
  free,      \* the buffers in the pool
  packet,    \* what the buffers hold
  proc,      \* the processes' states and messages
  call,      \* what a process is doing: the operation, its slot, its buffer
  owner      \* the process that registered a slot

vars == <<udptab, free, packet, proc, call, owner>>

NoPacket == [src |-> 0, sport |-> 0, dport |-> 0]

\* A packet that the network delivers.
Packets == [src : Host, sport : RemPort, dport : LocPort]

NoCall == [op |-> "none", slot |-> 0, buf |-> NoBuf]

\* p is not inside a call, and uses the slots that it has registered.
MayUse(p, s) == call[p].op = "none" /\ owner[s] = p

-----------------------------------------------------------------------------
(* Registration. *)

\* udp_register, which refuses a triple that is in the table.
udp_register(p, remip, remport, locport) ==
  LET unused == {s \in Slot : udptab[s].udstate = "free"}
  IN /\ call[p].op = "none" /\ unused # {}
     /\ ~ \E s \in Slot \ unused :
            /\ udptab[s].udremport = remport
            /\ udptab[s].udlocport = locport
            /\ udptab[s].udremip = remip
     /\ LET s == CHOOSE i \in unused : \A j \in unused : i <= j
        IN /\ udptab' = [udptab EXCEPT ![s] =
                [@ EXCEPT !.udlocport = locport, !.udremport = remport,
                          !.udremip = remip, !.udcount = 0, !.udhead = 0,
                          !.udtail = 0, !.udpid = Nobody, !.udstate = "used"]]
           /\ owner' = [owner EXCEPT ![s] = p]
     /\ UNCHANGED <<free, packet, proc, call>>

\* The buffers in the queue of a slot, from the head on.  An entry outside this
\* range is NoBuf: a pointer to a buffer that is the queue's no more.
Queued(s) ==
  {udptab[s].udqueue[(udptab[s].udhead + i) % UDP_QSIZ] :
     i \in 0 .. udptab[s].udcount - 1}

\* udp_release: the packets in the queue are freed first.
udp_release(p, s) ==
  /\ MayUse(p, s) /\ udptab[s].udstate # "free"
  /\ free' = free \union Queued(s)
  /\ packet' = [b \in Buffer |-> IF b \in Queued(s) THEN NoPacket ELSE packet[b]]
  /\ udptab' = [udptab EXCEPT ![s] =
       [@ EXCEPT !.udhead = (udptab[s].udhead + udptab[s].udcount) % UDP_QSIZ,
                 !.udqueue = [i \in 0 .. UDP_QSIZ - 1 |-> NoBuf],
                 !.udcount = 0, !.udstate = "free"]]
  /\ owner' = [owner EXCEPT ![s] = Nobody]
  /\ UNCHANGED <<proc, call>>

-----------------------------------------------------------------------------
(* Input. *)

\* A slot that accepts the packet; zero stands for any remote.
Matches(s, pkt) ==
  /\ udptab[s].udstate # "free"
  /\ pkt.dport = udptab[s].udlocport
  /\ udptab[s].udremport \in {0, pkt.sport}
  /\ udptab[s].udremip \in {0, pkt.src}

\* (Mutant: the remote port is not compared.)
AcceptsPort(pkt) ==
  {s \in Slot : /\ udptab[s].udstate # "free" /\ udptab[s].udcount < UDP_QSIZ
                /\ pkt.dport = udptab[s].udlocport
                /\ udptab[s].udremip \in {0, pkt.src}}

\* The slots with room for the packet.
Accepts(pkt) == {s \in Slot : Matches(s, pkt) /\ udptab[s].udcount < UDP_QSIZ}

\* udp_in for a packet in buffer b: the first slot takes it, and a process that
\* waits there is told.  A packet that no slot accepts goes back to the pool.
udp_in(b, pkt) ==
  /\ b \in free /\ Accepts(pkt) # {}
  /\ LET s == CHOOSE i \in Accepts(pkt) : \A j \in Accepts(pkt) : i <= j
         t == udptab[s]
     IN /\ udptab' = [udptab EXCEPT ![s] =
             [t EXCEPT !.udcount = t.udcount + 1,
                       !.udqueue = [t.udqueue EXCEPT ![t.udtail] = b],
                       !.udtail = (t.udtail + 1) % UDP_QSIZ,
                       !.udstate = "used"]]
        /\ proc' = IF t.udstate = "recv" THEN send(proc, t.udpid, OK) ELSE proc
  /\ free' = free \ {b}
  /\ packet' = [packet EXCEPT ![b] = pkt]
  /\ UNCHANGED <<call, owner>>

-----------------------------------------------------------------------------
(* Receiving. *)

\* (Mutant: the head is not wrapped at the end of the queue.)
DequeueNoWrap(p, s) ==
  LET t == udptab[s]
      b == t.udqueue[t.udhead]
  IN /\ udptab' = [udptab EXCEPT ![s] =
          [t EXCEPT !.udqueue = [t.udqueue EXCEPT ![t.udhead] = NoBuf],
                    !.udhead = IF @ = UDP_QSIZ - 1 THEN @ ELSE @ + 1,
                    !.udcount = t.udcount - 1, !.udstate = "used"]]
     /\ free' = free \union ({b} \ {NoBuf})
     /\ packet' = [c \in Buffer |-> IF c = b THEN NoPacket ELSE packet[c]]

\* Take the first packet, copy it, free its buffer.
Dequeue(p, s) ==
  LET t == udptab[s]
      b == t.udqueue[t.udhead]
  IN /\ udptab' = [udptab EXCEPT ![s] =
          [t EXCEPT !.udqueue = [t.udqueue EXCEPT ![t.udhead] = NoBuf],
                    !.udhead = (t.udhead + 1) % UDP_QSIZ,
                    !.udcount = t.udcount - 1, !.udstate = "used"]]
     /\ free' = free \union ({b} \ {NoBuf})
     /\ packet' = [c \in Buffer |-> IF c = b THEN NoPacket ELSE packet[c]]

\* udp_recv and udp_recvaddr with a packet in the queue.
udp_recv(p, s) ==
  /\ MayUse(p, s) /\ udptab[s].udstate = "used" /\ udptab[s].udcount # 0
  /\ Dequeue(p, s)
  /\ UNCHANGED <<proc, call, owner>>

\* udp_recv with an empty queue: the caller waits for a message.
udp_recvWait(p, s) ==
  /\ MayUse(p, s) /\ udptab[s].udstate = "used" /\ udptab[s].udcount = 0
  /\ udptab' = [udptab EXCEPT ![s] =
                  [@ EXCEPT !.udstate = "recv", !.udpid = p]]
  /\ proc' = recvtime(proc, p)
  /\ call' = [call EXCEPT ![p] = [NoCall EXCEPT !.op = "recv", !.slot = s]]
  /\ UNCHANGED <<free, packet, owner>>

\* (Mutant: after the timeout the entry stays in the receiving state.)
udp_recvResumeStays(p) ==
  LET s == call[p].slot
  IN /\ call[p].op = "recv" /\ proc[p].prstate = "ready"
     /\ IF Answer(proc, p) = OK THEN Dequeue(p, s)
                                ELSE UNCHANGED <<udptab, free, packet>>
     /\ proc' = Taken(proc, p)
     /\ call' = [call EXCEPT ![p] = NoCall]
     /\ UNCHANGED owner

\* The caller runs again: a packet, the timeout, or a message that is not OK.
udp_recvResume(p) ==
  LET s == call[p].slot
  IN /\ call[p].op = "recv" /\ proc[p].prstate = "ready"
     /\ IF Answer(proc, p) = OK
        THEN Dequeue(p, s)
        ELSE /\ udptab' = [udptab EXCEPT ![s].udstate = "used"]
             /\ UNCHANGED <<free, packet>>
     /\ proc' = Taken(proc, p)
     /\ call' = [call EXCEPT ![p] = NoCall]
     /\ UNCHANGED owner

-----------------------------------------------------------------------------
(* Sending: getbuf may block, and ip_send has the buffer until it frees it. *)

\* udp_send needs a remote address, udp_sendto is given one.
udp_send(p, s, to) ==
  /\ MayUse(p, s) /\ udptab[s].udstate # "free"
  /\ to \/ udptab[s].udremip # 0
  /\ call' = [call EXCEPT ![p] = [NoCall EXCEPT !.op = "send", !.slot = s]]
  /\ UNCHANGED <<udptab, free, packet, proc, owner>>

\* A buffer is taken and filled.
udp_sendFill(p) ==
  /\ call[p].op = "send" /\ call[p].buf = NoBuf
  /\ free # {}
  /\ LET b == CHOOSE c \in free : TRUE
     IN /\ free' = free \ {b}
        /\ call' = [call EXCEPT ![p].buf = b]
  /\ UNCHANGED <<udptab, packet, proc, owner>>

\* ip_send has freed the buffer.
udp_sendDone(p) ==
  /\ call[p].op \in {"send", "resolve"} /\ call[p].buf # NoBuf
  /\ free' = free \union {call[p].buf}
  /\ call' = [call EXCEPT ![p] = NoCall]
  /\ UNCHANGED <<udptab, packet, proc, owner>>

-----------------------------------------------------------------------------
(* The environment of a process: the clock and other programs. *)

Timeout(p) ==
  /\ proc[p].prstate = "rectim"
  /\ proc' = Expire(proc, p)
  /\ UNCHANGED <<udptab, free, packet, call, owner>>

ForeignMessage(p, m) ==
  /\ proc' = send(proc, p, m)
  /\ UNCHANGED <<udptab, free, packet, call, owner>>

-----------------------------------------------------------------------------

\* udp_init.
Init ==
  /\ udptab = [s \in Slot |->
       [udstate |-> "free", udremip |-> 0, udremport |-> 0, udlocport |-> 0,
        udhead |-> 0, udtail |-> 0, udcount |-> 0, udpid |-> Nobody,
        udqueue |-> [i \in 0 .. UDP_QSIZ - 1 |-> NoBuf]]]
  /\ free = Buffer
  /\ packet = [b \in Buffer |-> NoPacket]
  /\ proc = [p \in Proc |-> Running]
  /\ call = [p \in Proc |-> NoCall]
  /\ owner = [s \in Slot |-> Nobody]

Calls(p) ==
  \/ \E e \in Endpoint : udp_register(p, e[1], e[2], e[3])
  \/ \E s \in Slot :
       \/ udp_release(p, s)
       \/ udp_recv(p, s)
       \/ udp_recvWait(p, s)
       \/ \E to \in BOOLEAN : udp_send(p, s, to)

\* The buffers are alike: the next packet comes in any one of them.
Arrival ==
  /\ free # {}
  /\ LET b == CHOOSE c \in free : TRUE
     IN \E pkt \in Packets : udp_in(b, pkt)
-----------------------------------------------------------------------------
(* Properties. *)

\* The type of the table and of the calls under way.
TypeOK ==
  /\ udptab \in [Slot ->
       [udstate : {"free", "used", "recv"}, udremip : Host \union {0},
        udremport : RemPort \union {0}, udlocport : LocPort \union {0},
        udhead : 0 .. UDP_QSIZ - 1, udtail : 0 .. UDP_QSIZ - 1,
        udcount : 0 .. UDP_QSIZ, udpid : Proc \union {Nobody},
        udqueue : [0 .. UDP_QSIZ - 1 -> Buffer \union {NoBuf}]]]
  /\ free \subseteq Buffer
  /\ packet \in [Buffer -> Packets \union {NoPacket}]
  /\ proc \in [Proc -> [prstate : {"run", "rectim", "ready"},
                        prmsg : {NoMsg, OK} \union Foreign]]
  /\ call \in [Proc -> [op : {"none", "recv", "send", "resolve"}, slot : Slot,
                        buf : Buffer \union {NoBuf}]]
  /\ owner \in [Slot -> Proc \union {Nobody}]

\* The circular queue of a slot holds exactly its udcount packets, and every
\* buffer is in the pool, in one queue, or with one sender: udp_in, udp_recv
\* and udp_release neither lose nor duplicate one.
BuffersConserved ==
  /\ \A s \in Slot :
       /\ Cardinality(Queued(s)) = udptab[s].udcount /\ NoBuf \notin Queued(s)
       /\ udptab[s].udtail = (udptab[s].udhead + udptab[s].udcount) % UDP_QSIZ
            \/ udptab[s].udstate = "free"
       /\ Queued(s) \intersect free = {}
       /\ \A t \in Slot \ {s} : Queued(s) \intersect Queued(t) = {}
  /\ LET sending == {p \in Proc : call[p].buf # NoBuf}
     IN Cardinality(free) + Cardinality(UNION {Queued(s) : s \in Slot})
          + Cardinality(sending) = Cardinality(Buffer)

\* A receiver that was told of a packet finds one: udcount is not zero when
\* recvtime has returned OK (udp.c: "Packet has arrived -- dequeue it").
WokenHasPacket ==
  \A p \in Proc :
    (call[p].op = "recv" /\ proc[p].prstate = "ready" /\ Answer(proc, p) = OK)
      => udptab[call[p].slot].udcount > 0

\* A slot is in the receiving state only while the process that it names waits
\* or is about to return: otherwise every later udp_recv on it would fail.
ReceivingIsWaiting ==
  \A s \in Slot : udptab[s].udstate = "recv" =>
    LET p == udptab[s].udpid IN call[p].op = "recv" /\ call[p].slot = s

\* Packets wait only in a slot that they match, also after slots were released
\* and registered for another endpoint.
QueuedMatches ==
  \A s \in Slot : udptab[s].udstate # "free" =>
    \A b \in Queued(s) : Matches(s, packet[b])
=============================================================================
