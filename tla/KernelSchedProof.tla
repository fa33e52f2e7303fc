-------------------------- MODULE KernelSchedProof --------------------------
(***************************************************************************)
(* The states of a process and the steps between them, receive, which      *)
(* blocks until there is a message, and the processor for the process of   *)
(* the highest priority.                                                   *)
(***************************************************************************)
EXTENDS KernelSyncProof

USE DEF NULLPROC

-----------------------------------------------------------------------------
(***************************************************************************)
(* Messages.                                                               *)
(***************************************************************************)

\* A message leaves its process only when the process takes it and returns to its
\* program, or when its entry is free and begins another process.
LEMMA MessageStep ==
  ASSUME IInv, [Next]_vars, NEW p \in Pid, prmsg[p] # NoMsg, prmsg'[p] # prmsg[p]
  PROVE  /\ prmsg'[p] = NoMsg /\ pc'[p] = "user"
         /\ p = currpid \/ prstate[p] = "PR_FREE"
<1>0. /\ prmsg \in [Pid -> Message \union {NoMsg}] /\ currpid \in Pid
      /\ pc \in [Pid -> Place]
  BY DEF IInv, DataOK, ListInv, Running
<1>1. ASSUME NEW r \in Pid, NEW m, Deliver(r, m)
      PROVE  FALSE
  BY <1>0, <1>1 DEF Deliver
<1>2. ASSUME TakeMessage, GoTo("user") \/ (UNCHANGED pc /\ pc[currpid] = "user")
      PROVE  prmsg'[p] = NoMsg /\ pc'[p] = "user" /\ p = currpid
  BY <1>0, <1>2 DEF TakeMessage, GoTo
<1>3. CASE ProcessCall
  <2>1. ASSUME NEW prio \in Prio, Create(prio)
        PROVE  prmsg'[p] = NoMsg /\ pc'[p] = "user" /\ prstate[p] = "PR_FREE"
    <3>1. newpid \in Pid /\ prstate[newpid] = "PR_FREE"
      BY <2>1, NewpidFacts DEF Create
    <3>2. /\ prmsg' = [prmsg EXCEPT ![newpid] = NoMsg]
          /\ pc' = [pc EXCEPT ![newpid] = "user"]
      BY <2>1 DEF Create
    <3>. HIDE DEF newpid
    <3>. QED  BY <1>0, <3>1, <3>2
  <2>2. ASSUME NEW v \in Pid, Kill(v)
        PROVE  FALSE
    <3>1. prparent[v] \in Pid
      BY DEF IInv, DataOK
    <3>. QED  BY <1>1, <2>2, <3>1 DEF Kill
  <2>3. \/ \E prio \in Prio : Create(prio)
        \/ \E v \in Pid : Kill(v)
        \/ prmsg' = prmsg
    BY <1>3 DEF ProcessCall, CreateRefused, Resume, SuspendReady, SuspendSelf, Yield,
                Chprio, KillLast
  <2>. QED  BY <2>1, <2>2, <2>3
<1>4. CASE MessageCall
  <2>1. ASSUME NEW r \in Pid, NEW m \in Msg, Send(r, m)
        PROVE  FALSE
    BY <1>1, <2>1 DEF Send
  <2>2. CASE ReceiveNow
    BY <1>2, <2>2 DEF ReceiveNow, Calls, UserMode
  <2>3. prmsg' # prmsg
    OBVIOUS
  <2>. QED  BY <1>4, <2>1, <2>2, <2>3 DEF MessageCall, Receive, Recvtime
<1>5. CASE SemaphoreCall \/ DelayCall \/ Tick \/ Interrupt
  BY <1>5, Zenon DEF SemaphoreCall, DelayCall, Tick, Interrupt, Semcreate, Wait, Signal,
              Signaln, Semdelete, Semreset, StartLoop, Sleepms, Clkhandler,
              ClkhandlerDue
<1>6. CASE KernelStep
  <2>1. (TakeMessage /\ GoTo("user")) \/ prmsg' = prmsg
    BY <1>6, Zenon DEF KernelStep, ReceiveResume, RecvtimeResume, KillSelf, KillSleeper,
                KillWaiter, KillReady, KillOther, Removes, SignalnNext, SignalnEnd,
                SemdeleteNext, SemdeleteEnd, SemresetNext, SemresetEnd, EndLoop,
                WakeupNext, WakeupEnd, InterruptSignal, InterruptReturn
  <2>. QED  BY <1>2, <2>1
<1>7. CASE UNCHANGED vars
  BY <1>7 DEF vars
<1>. QED  BY <1>3, <1>4, <1>5, <1>6, <1>7 DEF Next, Halted

\* A message that was accepted stays as it is until its receiver runs and takes
\* it, or until create takes the entry of a process that was killed.
THEOREM MessagesKept == Spec => MessageStays
<1>1. IInv /\ [Next]_vars =>
        [\A p \in Pid : prmsg[p] # NoMsg =>
           \/ prmsg'[p] = prmsg[p]
           \/ prmsg'[p] = NoMsg /\ (p = currpid \/ prstate[p] = "PR_FREE")]_vars
  BY MessageStep
<1>. QED  BY <1>1, KernelInvariant, PTL DEF Spec, MessageStays

-----------------------------------------------------------------------------
(***************************************************************************)
(* The order of waiters.                                                   *)
(***************************************************************************)

\* Queue r holds at least the processes of q that are not freed in states st,
\* except possibly the first.
InTurn(q, r, st) ==
  \A j \in DOMAIN q : \/ \E k \in DOMAIN r : r[k] = q[j]
                      \/ j = 1
                      \/ st[q[j]] = "PR_FREE"

\* Whoever is in queue q has in queue r only those before it that were.
NotOvertaken(q, r) ==
  \A p, w : Waits(w, q) /\ Before(p, w, r) => Before(p, w, q)

Served(q, r, st) == InTurn(q, r, st) /\ NotOvertaken(q, r)

\* dequeue leaves the order of the others as it was.
LEMMA OrderOfTail ==
  ASSUME NEW P, NEW q \in Seq(P), q # <<>>
  PROVE  NotOvertaken(q, Tail(q))
<1>. DEFINE r == Tail(q)
<1>1. /\ Len(q) \in Nat /\ DOMAIN q = 1 .. Len(q) /\ DOMAIN r = 1 .. Len(q) - 1
      /\ \A j \in 1 .. Len(q) - 1 : r[j] = q[j + 1]
  OBVIOUS
<1>. HIDE DEF r
<1>2. ASSUME NEW i \in DOMAIN r, NEW j \in DOMAIN r, i < j
      PROVE  Before(r[i], r[j], q)
  <2>1. /\ i + 1 \in DOMAIN q /\ j + 1 \in DOMAIN q /\ i + 1 < j + 1
        /\ r[i] = q[i + 1] /\ r[j] = q[j + 1]
    BY <1>1, <1>2
  <2>. QED  BY <2>1, Zenon DEF Before
<1>3. ASSUME NEW p, NEW w, Waits(w, q), Before(p, w, r)
      PROVE  Before(p, w, q)
  <2>1. PICK i \in DOMAIN r, j \in DOMAIN r : i < j /\ r[i] = p /\ r[j] = w
    BY <1>3, Zenon DEF Before
  <2>. QED  BY <1>2, <1>3, <2>1
<1>. QED  BY <1>3, Zenon DEF NotOvertaken, r

\* getitem leaves the order of the others as it was.
LEMMA OrderOfUnqueue ==
  ASSUME NEW P, NEW q \in Seq(P), NEW v, \E i \in DOMAIN q : q[i] = v
  PROVE  NotOvertaken(q, Unqueue(v, q))
<1>. DEFINE at == CHOOSE k \in DOMAIN q : q[k] = v
            r == RemoveAt(q, at)
<1>1. Len(q) \in Nat /\ DOMAIN q = 1 .. Len(q) /\ at \in 1 .. Len(q)
  OBVIOUS
<1>2. Unqueue(v, q) = r
  BY DEF Unqueue
<1>. HIDE DEF at
<1>3. /\ r \in Seq(P) /\ Len(r) = Len(q) - 1
      /\ \A j \in 1 .. Len(q) - 1 : r[j] = IF j < at THEN q[j] ELSE q[j + 1]
  BY <1>1, RemoveAtElements, Zenon
<1>. HIDE DEF r
<1>4. DOMAIN r = 1 .. Len(q) - 1
  BY <1>1, <1>3
<1>5. ASSUME NEW i \in DOMAIN r, NEW j \in DOMAIN r, i < j
      PROVE  Before(r[i], r[j], q)
  <2>. DEFINE from(l) == IF l < at THEN l ELSE l + 1
  <2>1. /\ from(i) \in DOMAIN q /\ from(j) \in DOMAIN q /\ from(i) < from(j)
        /\ r[i] = q[from(i)] /\ r[j] = q[from(j)]
    BY <1>1, <1>3, <1>4, <1>5
  <2>. HIDE DEF from
  <2>. QED  BY <2>1, Zenon DEF Before
<1>6. ASSUME NEW p, NEW w, Waits(w, q), Before(p, w, r)
      PROVE  Before(p, w, q)
  <2>1. PICK i \in DOMAIN r, j \in DOMAIN r : i < j /\ r[i] = p /\ r[j] = w
    BY <1>6, Zenon DEF Before
  <2>. QED  BY <1>5, <1>6, <2>1
<1>. QED  BY <1>2, <1>6, Zenon DEF NotOvertaken

\* enqueue puts a newcomer behind everybody.
LEMMA OrderOfAppend ==
  ASSUME NEW P, NEW q \in Seq(P), NEW c \in P, ~Waits(c, q)
  PROVE  NotOvertaken(q, Append(q, c))
<1>. DEFINE r == Append(q, c)
<1>1. /\ Len(q) \in Nat /\ DOMAIN q = 1 .. Len(q) /\ DOMAIN r = 1 .. Len(q) + 1
      /\ \A j \in 1 .. Len(q) : r[j] = q[j]
      /\ r[Len(q) + 1] = c
  OBVIOUS
<1>. HIDE DEF r
<1>2. ASSUME NEW i \in DOMAIN r, NEW j \in DOMAIN r, i < j, Waits(r[j], q)
      PROVE  Before(r[i], r[j], q)
  <2>1. j # Len(q) + 1
    BY <1>1, <1>2
  <2>2. /\ i \in DOMAIN q /\ j \in DOMAIN q /\ r[i] = q[i] /\ r[j] = q[j]
    BY <1>1, <1>2, <2>1
  <2>. QED  BY <1>2, <2>2, Zenon DEF Before
<1>3. ASSUME NEW p, NEW w, Waits(w, q), Before(p, w, r)
      PROVE  Before(p, w, q)
  <2>1. PICK i \in DOMAIN r, j \in DOMAIN r : i < j /\ r[i] = p /\ r[j] = w
    BY <1>3, Zenon DEF Before
  <2>. QED  BY <1>2, <1>3, <2>1
<1>. QED  BY <1>3, Zenon DEF NotOvertaken, r

\* Every step takes processes out of semaphore queues in turn, and puts them in
\* behind the others.
LEMMA FifoStep ==
  ASSUME IInv, [Next]_vars, NEW s \in Sem
  PROVE  Served(squeue[s], squeue'[s], prstate')
<1>0. /\ squeue \in [Sem -> Seq(Pid)] /\ squeue[s] \in Seq(Pid)
      /\ \A j, k \in DOMAIN squeue[s] : squeue[s][j] = squeue[s][k] => j = k
  BY DEF IInv, ListInv, WaitAgrees
<1>1. ASSUME squeue'[s] = squeue[s]
      PROVE  Served(squeue[s], squeue'[s], prstate')
  BY <1>1 DEF Served, InTurn, NotOvertaken
<1>2. ASSUME NEW t \in Sem, squeue[t] # <<>>, squeue' = [squeue EXCEPT ![t] = Tail(@)]
      PROVE  Served(squeue[s], squeue'[s], prstate')
  <2>1. CASE s # t
    BY <1>0, <1>1, <1>2, <2>1
  <2>2. CASE s = t
    <3>1. squeue'[s] = Tail(squeue[s]) /\ squeue[s] # <<>>
      BY <1>0, <1>2, <2>2
    <3>2. 1 \in DOMAIN squeue[s] /\ Without(Tail(squeue[s]), squeue[s], squeue[s][1])
      BY <1>0, <3>1, DequeueFacts
    <3>3. ASSUME NEW j \in DOMAIN squeue[s], j # 1
          PROVE  \E k \in DOMAIN squeue'[s] : squeue'[s][k] = squeue[s][j]
      <4>1. squeue[s][j] # squeue[s][1]
        BY <1>0, <3>2, <3>3
      <4>. QED  BY <3>1, <3>2, <4>1, Zenon DEF Without
    <3>4. InTurn(squeue[s], squeue'[s], prstate')
      BY <3>3 DEF InTurn
    <3>5. NotOvertaken(squeue[s], squeue'[s])
      BY <1>0, <3>1, OrderOfTail
    <3>. QED  BY <3>4, <3>5 DEF Served
  <2>. QED  BY <2>1, <2>2
<1>3. ASSUME NEW t \in Sem, Release(t), ~Resetting(t)
      PROVE  Served(squeue[s], squeue'[s], prstate')
  <2>1. CASE scount[t] < 0
    <3>1. squeue[t] # <<>>
      <4>1. Len(squeue[t]) = -scount[t] /\ scount[t] \in Int /\ squeue[t] \in Seq(Pid)
        BY <1>0, <1>3, <2>1 DEF IInv, SemInv, DataOK
      <4>. QED  BY <2>1, <4>1
    <3>. QED  BY <1>2, <1>3, <2>1, <3>1 DEF Release
  <2>2. CASE ~(scount[t] < 0)
    BY <1>1, <1>3, <2>2 DEF Release
  <2>. QED  BY <2>1, <2>2
<1>4. ASSUME NEW t \in Sem, Wait(t)
      PROVE  Served(squeue[s], squeue'[s], prstate')
  <2>1. \/ squeue' = squeue
        \/ squeue' = [squeue EXCEPT ![t] = Append(@, currpid)]
    BY <1>4 DEF Wait
  <2>2. CASE squeue'[s] = squeue[s]
    BY <1>1, <2>2
  <2>3. CASE squeue'[s] = Append(squeue[s], currpid)
    <3>1. currpid \in Pid
      BY DEF IInv, ListInv, Running
    <3>2. \A j \in DOMAIN squeue[s] : /\ j \in DOMAIN squeue'[s]
                                      /\ squeue'[s][j] = squeue[s][j]
      BY <1>0, <2>3, <3>1
    <3>3. InTurn(squeue[s], squeue'[s], prstate')
      BY <3>2 DEF InTurn
    <3>4. ~Waits(currpid, squeue[s])
      BY <3>1 DEF IInv, ListInv, Running, WaitAgrees, Waits
    <3>5. NotOvertaken(squeue[s], squeue'[s])
      BY <1>0, <2>3, <3>1, <3>4, OrderOfAppend
    <3>. QED  BY <3>3, <3>5 DEF Served
  <2>. QED  BY <1>0, <2>1, <2>2, <2>3
<1>5. ASSUME KillWaiter
      PROVE  Served(squeue[s], squeue'[s], prstate')
  <2>. DEFINE v == victim[currpid]
              t == prsem[v]
  <2>1. /\ Removes({"PR_WAIT"}) /\ prstate' = Freed
        /\ squeue' = [squeue EXCEPT ![t] = Unqueue(v, @)]
    BY <1>5 DEF KillWaiter
  <2>2. /\ v \in Pid /\ prstate[v] = "PR_WAIT" /\ t \in Sem /\ prstate'[v] = "PR_FREE"
    BY <2>1, RemovesFacts, SMT, SMTT(30) DEF IInv, ListInv, WaitAgrees
  <2>3. \E i \in DOMAIN squeue[t] : squeue[t][i] = v
    BY <2>2, SMT, SMTT(30) DEF IInv, ListInv, WaitAgrees
  <2>. HIDE DEF v, t
  <2>4. CASE s # t
    BY <1>0, <1>1, <2>1, <2>2, <2>4
  <2>5. CASE s = t
    <3>1. squeue'[s] = Unqueue(v, squeue[s])
      BY <1>0, <2>1, <2>5
    <3>2. Without(Unqueue(v, squeue[s]), squeue[s], v)
      BY <1>0, <2>3, <2>5, UnqueueFacts
    <3>3. ASSUME NEW j \in DOMAIN squeue[s], squeue[s][j] # v
          PROVE  \E k \in DOMAIN squeue'[s] : squeue'[s][k] = squeue[s][j]
      BY SMT, SMTT(30), <3>1, <3>2, <3>3 DEF Without
    <3>4. InTurn(squeue[s], squeue'[s], prstate')
      BY <2>2, <3>3 DEF InTurn
    <3>5. NotOvertaken(squeue[s], squeue'[s])
      BY <1>0, <2>3, <2>5, <3>1, OrderOfUnqueue
    <3>. QED  BY <3>4, <3>5 DEF Served
  <2>. QED  BY <2>4, <2>5
<1>6. CASE ProcessCall \/ MessageCall \/ DelayCall \/ Tick \/ Interrupt
  <2>1. squeue' = squeue
    <3>1. CASE ProcessCall
      BY <3>1 DEF ProcessCall, Create, CreateRefused, Resume, SuspendReady, SuspendSelf,
                  Yield, Chprio, KillLast, Kill, semvars
    <3>2. CASE MessageCall
      BY <3>2 DEF MessageCall, Send, Receive, ReceiveNow, Recvtime, TakeMessage, semvars
    <3>3. CASE DelayCall \/ Tick \/ Interrupt
      BY <3>3, Zenon DEF DelayCall, Tick, Interrupt, Sleepms, Clkhandler, ClkhandlerDue, semvars
    <3>. QED  BY <1>6, <3>1, <3>2, <3>3
  <2>. QED  BY <1>1, <2>1
<1>7. CASE SemaphoreCall
  <2>1. \/ \E t \in Sem : Wait(t)
        \/ \E t \in Sem : Release(t) /\ ~Resetting(t)
        \/ squeue' = squeue
    BY <1>7 DEF SemaphoreCall, Semcreate, Signal, Signaln, Semdelete, Semreset,
                StartLoop, Calls, UserMode, Resetting
  <2>. QED  BY <1>1, <1>3, <1>4, <2>1
<1>8. CASE KernelStep
  <2>0. loop.sem \in Sem
    BY DEF IInv, DataOK
  <2>1. \/ KillWaiter
        \/ \E t \in Sem : Release(t) /\ ~Resetting(t)
        \/ \E t \in Sem : squeue[t] # <<>> /\ squeue' = [squeue EXCEPT ![t] = Tail(@)]
        \/ squeue' = squeue
    <3>1. CASE \/ ReceiveResume \/ RecvtimeResume \/ KillSelf \/ KillSleeper
               \/ KillReady \/ KillOther \/ SignalnEnd \/ SemdeleteEnd \/ SemresetEnd
               \/ WakeupNext \/ WakeupEnd \/ InterruptReturn
      BY <3>1, Zenon DEF ReceiveResume, RecvtimeResume, TakeMessage, KillSelf, KillSleeper,
                  KillReady, KillOther, SignalnEnd, SemdeleteEnd, SemresetEnd, EndLoop,
                  WakeupNext, WakeupEnd, InterruptReturn, semvars
    <3>2. CASE SignalnNext \/ SemdeleteNext \/ \E t \in Sem : InterruptSignal(t)
      BY <2>0, <3>2 DEF SignalnNext, SemdeleteNext, InterruptSignal, Continues, Resetting
    <3>3. CASE SemresetNext
      BY <2>0, <3>3, Zenon DEF SemresetNext
    <3>. QED  BY <1>8, <3>1, <3>2, <3>3 DEF KernelStep
  <2>. QED  BY <1>1, <1>2, <1>3, <1>5, <2>1
<1>9. CASE UNCHANGED vars
  BY <1>1, <1>9 DEF vars, semvars
<1>. QED  BY <1>6, <1>7, <1>8, <1>9 DEF Next, Halted

\* Waiters are served in the order in which they came: a newcomer stands behind
\* everybody, nobody who waits is overtaken, and by every way of releasing them
\* the one at the head leaves first; only a killed process leaves out of turn.
THEOREM SemaphoresFifo == Spec => SemFifo
<1>1. ASSUME IInv, [Next]_vars, NEW s \in Sem, NEW p \in Pid, NEW r \in Pid
      PROVE  /\ Waits(r, squeue[s]) /\ Before(p, r, squeue'[s]) => Before(p, r, squeue[s])
             /\ Before(p, r, squeue[s]) /\ Waits(p, squeue'[s]) /\ ~Waits(r, squeue'[s])
                  => prstate'[r] = "PR_FREE"
  <2>1. Served(squeue[s], squeue'[s], prstate')
    BY <1>1, FifoStep
  <2>2. Waits(r, squeue[s]) /\ Before(p, r, squeue'[s]) => Before(p, r, squeue[s])
    BY <2>1, Zenon DEF Served, NotOvertaken
  <2>3. ASSUME Before(p, r, squeue[s]), ~Waits(r, squeue'[s])
        PROVE  prstate'[r] = "PR_FREE"
    <3>1. PICK i \in DOMAIN squeue[s], j \in DOMAIN squeue[s] :
            i < j /\ squeue[s][i] = p /\ squeue[s][j] = r
      BY <2>3, Zenon DEF Before
    <3>2. j # 1
      <4>1. squeue[s] \in Seq(Pid)
        BY <1>1 DEF IInv, ListInv, WaitAgrees
      <4>2. i \in 1 .. Len(squeue[s]) /\ j \in 1 .. Len(squeue[s]) /\ Len(squeue[s]) \in Nat
        BY <4>1
      <4>. QED  BY <3>1, <4>2
    <3>. QED  BY <2>1, <2>3, <3>1, <3>2, Zenon DEF Served, InTurn, Waits
  <2>. QED  BY <2>2, <2>3
<1>2. IInv /\ [Next]_vars =>
        [\A s \in Sem : \A p, r \in Pid :
           /\ Waits(r, squeue[s]) /\ Before(p, r, squeue'[s]) => Before(p, r, squeue[s])
           /\ Before(p, r, squeue[s]) /\ Waits(p, squeue'[s]) /\ ~Waits(r, squeue'[s])
                => prstate'[r] = "PR_FREE"]_vars
  BY <1>1
<1>. QED  BY <1>2, KernelInvariant, PTL DEF Spec, SemFifo

-----------------------------------------------------------------------------
(***************************************************************************)
(* receive.                                                                *)
(***************************************************************************)

\* A process inside receive that has no message is blocked, or is gone.
Awaits ==
  \A p \in Pid : pc[p] = "receive" /\ prmsg[p] = NoMsg =>
                   prstate[p] \in {"PR_RECV", "PR_FREE"}

\* The first process of a semaphore queue waits.
LEMMA FirstWaits ==
  ASSUME IInv, NEW s \in Sem, squeue[s] # <<>>
  PROVE  squeue[s][1] \in Pid /\ prstate[squeue[s][1]] = "PR_WAIT"
<1>1. squeue[s] \in Seq(Pid)
  BY DEF IInv, ListInv, WaitAgrees
<1>2. 1 \in DOMAIN squeue[s] /\ squeue[s][1] \in Pid
  BY <1>1
<1>. QED  BY <1>2 DEF IInv, ListInv, WaitAgrees

\* What one increment of a semaphore's count does to the processes.
LEMMA ReleaseReadies ==
  ASSUME IInv, NEW s \in Sem, ~Resetting(s), Release(s)
  PROVE  \/ UNCHANGED <<runvars, Defer>>
         \/ \E r \in Pid : prstate[r] = "PR_WAIT" /\ ready(r)
<1>1. CASE scount[s] < 0
  <2>1. squeue[s] # <<>>
    <3>1. Len(squeue[s]) = -scount[s] /\ scount[s] \in Int /\ squeue[s] \in Seq(Pid)
      BY <1>1 DEF IInv, SemInv, DataOK, ListInv, WaitAgrees
    <3>. QED  BY <1>1, <3>1
  <2>. QED  BY <1>1, <2>1, FirstWaits, Zenon DEF Release
<1>2. CASE ~(scount[s] < 0)
  BY <1>2, Zenon DEF Release
<1>. QED  BY <1>1, <1>2

\* A process that kills itself frees its entry before it gives up the processor.
LEMMA SelfFreed ==
  ASSUME IInv, KillSelf
  PROVE  Switched(Freed, prstate')
<1>0. /\ currpid \in Pid /\ MayRun(prstate) /\ ReadyAgrees(prstate, readylist)
      /\ prprio \in [Pid -> Int] /\ preempt \in 1 .. QUANTUM
  BY DEF IInv, ListInv, Running, DataOK, MayRun
<1>1. Removes({"PR_CURR"}) /\ Dispatch(Freed, readylist, preempt)
  BY DEF KillSelf
<1>2. /\ victim[currpid] \in Pid \ {NULLPROC} /\ prstate[victim[currpid]] = "PR_CURR"
      /\ Freed \in [Pid -> State]
      /\ \A r \in Pid : Freed[r] = IF r = victim[currpid] THEN "PR_FREE" ELSE prstate[r]
  BY <1>1, RemovesFacts
<1>3. MayRun(Freed)
  BY <1>0, <1>2, NullIsPid DEF MayRun
<1>4. ReadyAgrees(Freed, readylist)
  BY <1>0, <1>2 DEF ReadyAgrees
<1>. QED  BY <1>0, <1>1, <1>3, <1>4, DispatchFacts, Zenon

\* The workload has a call that waits for a message.
Listens == "receive" \in Workload \/ "recvtime" \in Workload

\* Every step moves every process along an edge of the state diagram; only receive
\* and recvtime make receivers.
LEMMA StateStep ==
  ASSUME IInv, [Next]_vars, NEW p \in Pid
  PROVE  /\ Moved(p)
         /\ prstate'[p] \in {"PR_RECV", "PR_RECTIM"} =>
              prstate[p] \in {"PR_RECV", "PR_RECTIM"} \/ Listens
<1>. DEFINE old == prstate[p]
            new == prstate'[p]
            Kept == new = old \/ (old \in Eligible /\ new \in Eligible)
            Goal == /\ Moved(p)
                    /\ new \in {"PR_RECV", "PR_RECTIM"} =>
                         old \in {"PR_RECV", "PR_RECTIM"} \/ Listens
<1>0. /\ prstate \in [Pid -> State] /\ currpid \in Pid /\ prstate[currpid] = "PR_CURR"
      /\ prmsg \in [Pid -> Message \union {NoMsg}] /\ pc \in [Pid -> Place]
      /\ \A r \in Pid : prstate[r] = "PR_CURR" => r = currpid
      /\ MayRun(prstate) /\ ReadyAgrees(prstate, readylist)
      /\ prprio \in [Pid -> Int] /\ preempt \in 1 .. QUANTUM
  BY DEF IInv, ListInv, Running, DataOK, MayRun
<1>1. Kept => Goal
  BY DEF Moved, Eligible
<1>2. ASSUME NEW r \in Pid, ready(r), prstate[r] \notin {"PR_CURR", "PR_READY"}
      PROVE  IF p = r THEN new \in Eligible ELSE Kept
  <2>1. Switched([prstate EXCEPT ![r] = "PR_READY"], prstate')
    BY <1>2, ReadyFacts, Zenon
  <2>. QED  BY <1>0, <2>1 DEF Switched, Eligible
<1>3. ASSUME NEW slice \in 1 .. QUANTUM, Dispatch(prstate, readylist, slice)
      PROVE  Goal
  <2>1. Switched(prstate, prstate')
    BY <1>0, <1>3, DispatchFacts, Zenon
  <2>. QED  BY <1>1, <2>1 DEF Switched, Eligible
<1>4. ASSUME NEW x \in State \ {"PR_CURR", "PR_READY"},
             pc[currpid] = "user", currpid # NULLPROC,
             resched([prstate EXCEPT ![currpid] = x], readylist)
      PROVE  IF p = currpid THEN new = x ELSE Kept
  <2>1. Switched([prstate EXCEPT ![currpid] = x], prstate')
    BY <1>4, QuietFacts, BlockFacts, Zenon DEF Deferring
  <2>. QED  BY <1>0, <1>4, <2>1 DEF Switched, Eligible
<1>5. ASSUME NEW r \in Pid, NEW m \in Message, Deliver(r, m)
      PROVE  Goal
  <2>1. m # NoMsg
    BY DataAssumption, TableAssumption DEF Message, NoMsg, Pid
  <2>2. CASE UNCHANGED prstate
    BY <1>1, <2>2
  <2>3. CASE /\ prmsg' = [prmsg EXCEPT ![r] = m]
             /\ prstate[r] \in {"PR_RECV", "PR_RECTIM"} /\ ready(r)
    <3>1. IF p = r THEN new \in Eligible ELSE Kept
      BY <1>2, <2>3
    <3>. QED  BY <1>0, <1>1, <2>1, <2>3, <3>1 DEF Moved, Eligible
  <2>. QED  BY <1>5, <2>2, <2>3, Zenon DEF Deliver, runvars
<1>6. ASSUME NEW r \in Pid, prstate[r] \in {"PR_SUSP", "PR_WAIT"}, ready(r)
      PROVE  Goal
  <2>1. IF p = r THEN new \in Eligible ELSE Kept
    BY <1>2, <1>6
  <2>. QED  BY <1>1, <1>6, <2>1 DEF Moved, Eligible
<1>7. ASSUME NEW s \in Sem, Release(s), ~Resetting(s)
      PROVE  Goal
  <2>1. CASE UNCHANGED runvars
    BY <1>1, <2>1 DEF runvars
  <2>. QED  BY <1>6, <1>7, <2>1, ReleaseReadies
<1>8. CASE ProcessCall
  <2>1. ASSUME NEW prio \in Prio, Create(prio)
        PROVE  Goal
    <3>1. newpid \in Pid /\ prstate[newpid] = "PR_FREE"
      BY <2>1, NewpidFacts DEF Create
    <3>2. /\ prstate' = [prstate EXCEPT ![newpid] = "PR_SUSP"]
          /\ pc' = [pc EXCEPT ![newpid] = "user"] /\ prcount' = prcount + 1
      BY <2>1 DEF Create
    <3>. HIDE DEF newpid
    <3>. QED  BY <1>0, <1>1, <3>1, <3>2 DEF Moved, Eligible
  <2>2. ASSUME NEW r \in Pid, Resume(r)
        PROVE  Goal
    BY <1>6, <2>2 DEF Resume
  <2>3. ASSUME NEW r \in Pid, SuspendReady(r)
        PROVE  Goal
    <3>1. prstate[r] = "PR_READY" /\ prstate' = [prstate EXCEPT ![r] = "PR_SUSP"]
      BY <2>3 DEF SuspendReady
    <3>. QED  BY <1>0, <1>1, <3>1 DEF Moved, Eligible
  <2>4. CASE SuspendSelf
    <3>1. IF p = currpid THEN new = "PR_SUSP" ELSE Kept
      BY <1>4, <2>4 DEF SuspendSelf, Calls, UserMode, State
    <3>. QED  BY <1>1, <2>4, <3>1 DEF Moved, SuspendSelf, Calls
  <2>5. CASE Yield
    <3>1. Dispatch(prstate, readylist, preempt)
      BY <2>5, QuietFacts DEF Yield, Calls, UserMode, Deferring, Quiet, resched
    <3>. QED  BY <1>0, <1>3, <3>1
  <2>6. ASSUME NEW v \in Pid, Kill(v)
        PROVE  Goal
    <3>1. prparent[v] \in Pid /\ v \in Message
      BY DEF IInv, DataOK, Message
    <3>. QED  BY <1>5, <2>6, <3>1 DEF Kill
  <2>7. ASSUME UNCHANGED runvars
        PROVE  Goal
    BY <1>1, <2>7 DEF runvars
  <2>8. \/ \E prio \in Prio : Create(prio)
        \/ \E r \in Pid : Resume(r)
        \/ \E r \in Pid : SuspendReady(r)
        \/ SuspendSelf \/ Yield
        \/ \E v \in Pid : Kill(v)
        \/ UNCHANGED runvars
    BY <1>8, Zenon DEF ProcessCall, CreateRefused, Chprio, KillLast
  <2>. QED  BY <2>1, <2>2, <2>3, <2>4, <2>5, <2>6, <2>7, <2>8
<1>9. CASE MessageCall \/ DelayCall
  <2>1. ASSUME NEW r \in Pid, NEW m \in Msg, Send(r, m)
        PROVE  Goal
    BY <1>5, <2>1 DEF Send, Message
  <2>2. CASE Receive
    <3>1. IF p = currpid THEN new = "PR_RECV" ELSE Kept
      BY <1>4, <2>2 DEF Receive, Calls, UserMode, State
    <3>. QED  BY <1>1, <2>2, <3>1 DEF Moved, Receive, Calls, Listens
  <2>3. CASE ReceiveNow
    BY <1>1, <2>3 DEF ReceiveNow, TakeMessage, runvars
  <2>4. ASSUME NEW d, Recvtime(d)
        PROVE  Goal
    <3>1. IF p = currpid THEN new = "PR_RECTIM" ELSE Kept
      BY <1>4, <2>4 DEF Recvtime, Calls, UserMode, State
    <3>. QED  BY <1>1, <2>4, <3>1 DEF Moved, Recvtime, Calls, Listens
  <2>5. ASSUME NEW d, Sleepms(d)
        PROVE  Goal
    <3>1. IF p = currpid THEN new = "PR_SLEEP" ELSE Kept
      BY <1>4, <2>5 DEF Sleepms, Calls, UserMode, State
    <3>. QED  BY <1>1, <2>5, <3>1 DEF Moved, Sleepms, Calls
  <2>. QED  BY <1>9, <2>1, <2>2, <2>3, <2>4, <2>5 DEF MessageCall, DelayCall
<1>10. CASE SemaphoreCall
  <2>1. ASSUME NEW s, Wait(s)
        PROVE  Goal
    <3>1. CASE UNCHANGED runvars
      BY <1>1, <3>1 DEF runvars
    <3>2. CASE resched([prstate EXCEPT ![currpid] = "PR_WAIT"], readylist)
      <4>1. IF p = currpid THEN new = "PR_WAIT" ELSE Kept
        BY <1>4, <2>1, <3>2 DEF Wait, Calls, UserMode, State
      <4>. QED  BY <1>1, <2>1, <4>1 DEF Moved, Wait, Calls
    <3>. QED  BY <2>1, <3>1, <3>2, Zenon DEF Wait
  <2>2. ASSUME NEW s \in Sem, Signal(s)
        PROVE  Goal
    BY <1>7, <2>2 DEF Signal, Calls, UserMode, Resetting
  <2>3. ASSUME UNCHANGED runvars
        PROVE  Goal
    BY <1>1, <2>3 DEF runvars
  <2>4. \/ \E s \in Sem : Wait(s)
        \/ \E s \in Sem : Signal(s)
        \/ UNCHANGED runvars
    BY <1>10, Zenon DEF SemaphoreCall, Semcreate, Signaln, Semdelete, Semreset, StartLoop
  <2>. QED  BY <2>1, <2>2, <2>3, <2>4
<1>11. CASE Tick \/ WakeupEnd
  <2>1. ASSUME NEW attempt \in BOOLEAN, ClkReturn(attempt)
        PROVE  Goal
    <3>1. \/ \E slice \in 1 .. QUANTUM : Dispatch(prstate, readylist, slice)
          \/ UNCHANGED prstate
      <4>1. /\ QUANTUM \in 1 .. QUANTUM
            /\ preempt - 1 # 0 => preempt - 1 \in 1 .. QUANTUM
        BY <1>0, SliceAssumption
      <4>. QED  BY <2>1, <4>1, Zenon DEF ClkReturn
    <3>. QED  BY <1>1, <1>3, <3>1
  <2>2. CASE ClkhandlerDue
    BY <1>1, <2>2 DEF ClkhandlerDue, runvars
  <2>3. Defer.attempt \in BOOLEAN
    BY DEF IInv, DataOK
  <2>. QED  BY <1>11, <2>1, <2>2, <2>3 DEF Tick, Clkhandler, WakeupEnd
<1>12. CASE KernelStep
  <2>0. loop.sem \in Sem
    BY DEF IInv, DataOK
  <2>1. CASE KillSelf
    <3>1. Removes({"PR_CURR"}) /\ Switched(Freed, prstate')
      BY <2>1, SelfFreed DEF KillSelf
    <3>2. \A r \in Pid : Freed[r] = IF r = victim[currpid] THEN "PR_FREE" ELSE prstate[r]
      BY <3>1, RemovesFacts
    <3>3. IF p = victim[currpid] THEN new = "PR_FREE" ELSE Kept
      BY <1>0, <3>1, <3>2 DEF Switched, Eligible
    <3>. QED  BY <1>1, <3>1, <3>3 DEF Moved, Removes
  <2>2. ASSUME NEW S, Removes(S), prstate' = Freed
        PROVE  Goal
    <3>1. IF p = victim[currpid] THEN new = "PR_FREE" ELSE Kept
      BY <2>2, RemovesFacts
    <3>. QED  BY <1>1, <2>2, <3>1 DEF Moved, Removes
  <2>3. CASE KillSleeper \/ KillWaiter \/ KillReady \/ KillOther
    BY <2>2, <2>3 DEF KillSleeper, KillWaiter, KillReady, KillOther
  <2>4. CASE SignalnNext \/ SemdeleteNext \/ \E s \in Sem : InterruptSignal(s)
    <3>1. \E s \in Sem : Release(s) /\ ~Resetting(s)
      BY <2>0, <2>4 DEF SignalnNext, SemdeleteNext, InterruptSignal, Continues, Resetting
    <3>. QED  BY <1>7, <3>1
  <2>5. CASE SemresetNext
    <3>1. squeue[loop.sem] # <<>> /\ ready(squeue[loop.sem][1])
      BY <2>5 DEF SemresetNext
    <3>2. /\ squeue[loop.sem][1] \in Pid
          /\ prstate[squeue[loop.sem][1]] = "PR_WAIT"
      BY <2>0, <3>1, FirstWaits
    <3>. QED  BY <1>6, <3>1, <3>2
  <2>6. CASE SignalnEnd \/ SemdeleteEnd \/ SemresetEnd \/ InterruptReturn
    <3>1. DeferStop
      BY <2>6 DEF SignalnEnd, SemdeleteEnd, SemresetEnd, EndLoop, InterruptReturn
    <3>2. Dispatch(prstate, readylist, preempt) \/ UNCHANGED runvars
      BY <3>1 DEF DeferStop
    <3>. QED  BY <1>0, <1>1, <1>3, <3>2 DEF runvars
  <2>7. CASE WakeupNext
    <3>1. sleepq # <<>> /\ ready(sleepq[1].pid) /\ Continues("wakeup")
      BY <2>7 DEF WakeupNext, Overdue
    <3>2. sleepq[1].pid \in Pid /\ sleepq[1].pid \in Members(sleepq)
      BY <3>1, TailKeyed DEF IInv, ListInv, SleepAgrees
    <3>3. prstate[sleepq[1].pid] \in {"PR_SLEEP", "PR_RECTIM"}
      BY <3>2 DEF IInv, ListInv, SleepAgrees
    <3>4. IF p = sleepq[1].pid THEN new \in Eligible ELSE Kept
      BY <1>2, <3>1, <3>2, <3>3
    <3>. QED  BY <1>1, <3>1, <3>3, <3>4 DEF Moved, Eligible
  <2>8. CASE ReceiveResume \/ RecvtimeResume
    BY <1>1, <2>8 DEF ReceiveResume, RecvtimeResume, TakeMessage, runvars
  <2>. QED  BY <1>11, <1>12, <2>1, <2>3, <2>4, <2>5, <2>6, <2>7, <2>8 DEF KernelStep
<1>13. CASE Interrupt \/ UNCHANGED vars
  BY <1>1, <1>13 DEF Interrupt, vars, runvars
<1>. QED  BY <1>8, <1>9, <1>10, <1>11, <1>12, <1>13 DEF Next, Halted

\* A process changes its state only along the edges of the state diagram: nobody but
\* itself blocks it, and what it waits for, or kill, must happen for it to go on.
THEOREM StatesFollowDiagram == Spec => StateDiagram
<1>1. IInv /\ [Next]_vars => [\A p \in Pid : Moved(p)]_vars
  BY StateStep
<1>. QED  BY <1>1, KernelInvariant, PTL DEF Spec, StateDiagram

\* Every step leaves a blocked receiver blocked and a free entry free, unless it
\* delivers a message to it or creates a process in it.
LEMMA BlockedStays ==
  ASSUME IInv, [Next]_vars, NEW p \in Pid, prstate[p] \in {"PR_RECV", "PR_FREE"}
  PROVE  \/ prstate'[p] = prstate[p]
         \/ prstate'[p] = "PR_FREE"
         \/ prstate[p] = "PR_RECV" /\ prmsg'[p] # NoMsg
         \/ prstate'[p] = "PR_SUSP" /\ pc'[p] = "user"
<1>1. Moved(p)
  BY StateStep
<1>2. currpid \in Pid /\ prstate[currpid] = "PR_CURR"
  BY DEF IInv, ListInv, Running
<1>. QED  BY <1>1, <1>2 DEF Moved, Eligible

\* Every step moves only the running process to another place, or a new process
\* to its beginning; only receive leads to the wait for a message.
LEMMA PlaceStep ==
  ASSUME IInv, [Next]_vars, NEW p \in Pid
  PROVE  /\ p # currpid => pc'[p] = pc[p] \/ pc'[p] = "user"
         /\ pc'[p] = "receive" => pc[p] = "receive" \/ (Receive /\ p = currpid)
<1>0. pc \in [Pid -> Place] /\ currpid \in Pid
  BY DEF IInv, ListInv, Running, DataOK
<1>1. ASSUME NEW l, GoTo(l)
      PROVE  /\ p # currpid => pc'[p] = pc[p]
             /\ p = currpid => pc'[p] = l
  BY <1>0, <1>1 DEF GoTo
<1>2. CASE Receive
  BY <1>1, <1>2 DEF Receive
<1>3. ASSUME NEW prio \in Prio, Create(prio)
      PROVE  pc'[p] = pc[p] \/ pc'[p] = "user"
  <2>1. newpid \in Pid
    BY <1>3, NewpidFacts DEF Create
  <2>2. pc' = [pc EXCEPT ![newpid] = "user"]
    BY <1>3 DEF Create
  <2>. HIDE DEF newpid
  <2>. QED  BY <1>0, <2>1, <2>2
<1>4. \/ Receive
      \/ \E prio \in Prio : Create(prio)
      \/ \E l \in Place \ {"receive"} : GoTo(l)
      \/ UNCHANGED pc
  <2>1. CASE ProcessCall
    BY <2>1, Zenon DEF ProcessCall, CreateRefused, Resume, SuspendReady, SuspendSelf,
                       Yield, Chprio, KillLast, Kill, ctlvars, Place
  <2>2. CASE MessageCall \/ DelayCall
    BY <2>2, Zenon DEF MessageCall, DelayCall, Send, ReceiveNow, Recvtime, Sleepms,
                       ctlvars, Place
  <2>3. CASE SemaphoreCall
    BY <2>3, Zenon DEF SemaphoreCall, Semcreate, Wait, Signal, Signaln, Semdelete,
                       Semreset, StartLoop, ctlvars, Place
  <2>4. CASE Tick \/ Interrupt \/ UNCHANGED vars
    BY <2>4, Zenon DEF Tick, Clkhandler, ClkhandlerDue, Interrupt, vars, ctlvars, Place
  <2>5. CASE KernelStep
    BY <2>5, Zenon DEF KernelStep, ReceiveResume, RecvtimeResume, KillSelf, KillSleeper,
                       KillWaiter, KillReady, KillOther, Removes, SignalnNext, SignalnEnd,
                       SemdeleteNext, SemdeleteEnd, SemresetNext, SemresetEnd, EndLoop,
                       WakeupNext, WakeupEnd, InterruptSignal, InterruptReturn, ctlvars,
                       Place
  <2>. QED  BY <2>1, <2>2, <2>3, <2>4, <2>5 DEF Next, Halted
<1>5. ASSUME NEW l \in Place \ {"receive"}, GoTo(l)
      PROVE  /\ p # currpid => pc'[p] = pc[p]
             /\ p = currpid => pc'[p] # "receive"
  BY <1>1, <1>5
<1>. QED  BY <1>2, <1>1, <1>3, <1>4, <1>5 DEF Receive

\* Every step leaves the processes inside receive blocked or with a message.
LEMMA AwaitsStep ==
  ASSUME IInv, Awaits, [Next]_vars
  PROVE  Awaits'
<1>. SUFFICES ASSUME NEW p \in Pid, pc'[p] = "receive", prmsg'[p] = NoMsg
              PROVE  prstate'[p] \in {"PR_RECV", "PR_FREE"}
  BY DEF Awaits
<1>1. CASE Receive /\ p = currpid
  <2>1. Switched([prstate EXCEPT ![currpid] = "PR_RECV"], prstate')
    <3>1. currpid # NULLPROC /\ Quiet
      BY <1>1, QuietFacts DEF Receive, Calls, UserMode, Deferring
    <3>. QED  BY <1>1, <3>1, BlockFacts DEF Receive, State
  <2>. QED  BY <1>1, <2>1 DEF Switched, IInv, ListInv, Running
<1>2. CASE pc[p] = "receive"
  <2>1. prmsg[p] = NoMsg
    BY MessageStep
  <2>2. prstate[p] \in {"PR_RECV", "PR_FREE"}
    BY <1>2, <2>1 DEF Awaits
  <2>. QED  BY <2>2, BlockedStays
<1>. QED  BY <1>1, <1>2, PlaceStep

\* A process that returns from receive has a message, whoever was killed, created
\* or resumed since it blocked: receive.c takes the message without testing that
\* there is one.
THEOREM ReceiveReturnsMessage == Spec => []ReceiveHasMessage
<1>1. Init => Awaits
  BY DEF Init, Awaits
<1>2. IInv /\ Awaits /\ [Next]_vars => Awaits'
  BY AwaitsStep
<1>3. IInv /\ Awaits => ReceiveHasMessage
  BY DEF IInv, ListInv, Running, Awaits, ReceiveHasMessage, Continues
<1>. QED  BY <1>1, <1>2, <1>3, KernelInvariant, PTL DEF Spec

-----------------------------------------------------------------------------
(***************************************************************************)
(* Priorities.                                                             *)
(***************************************************************************)

\* No rescheduling that was attempted waits for the end of a deferral.
CaughtUp == Defer.ndefers = 0 \/ ~Defer.attempt

\* The ready list is in order; its keys are the priorities of its processes, and
\* once rescheduling has caught up none is above that of the running process.
PrioInv ==
  /\ KeysFrom(readylist, prprio)
  /\ CaughtUp => Below(readylist, prprio[currpid])

\* What a dispatch does to the order of the ready list.
LEMMA DispatchSorted ==
  ASSUME NEW st, NEW rl \in KeyedLists(Pid), NEW slice,
         currpid \in Pid, prprio \in [Pid -> Int], Sorted(rl),
         st[currpid] = "PR_CURR" \/ rl # <<>>, Dispatch(st, rl, slice)
  PROVE  /\ Sorted(readylist')
         /\ KeysFrom(rl, prprio) => /\ KeysFrom(readylist', prprio)
                                    /\ Below(readylist', prprio[currpid'])
<1>1. CASE st[currpid] = "PR_CURR" /\ prprio[currpid] > firstkey(rl)
  <2>1. readylist' = rl /\ currpid' = currpid
    BY <1>1 DEF Dispatch
  <2>2. Below(rl, prprio[currpid])
    <3>1. CASE rl = <<>>
      BY <3>1 DEF Below
    <3>2. CASE rl # <<>>
      <4>1. Len(rl) \in Nat \ {0} /\ DOMAIN rl = 1 .. Len(rl)
        BY <3>2 DEF KeyedLists
      <4>2. \A i \in DOMAIN rl : rl[i].qkey \in Int
        BY <4>1, ListNodes
      <4>3. \A i \in DOMAIN rl : rl[i].qkey <= rl[1].qkey
        BY <4>1, <4>2 DEF Sorted
      <4>4. prprio[currpid] > rl[1].qkey /\ prprio[currpid] \in Int
        BY <1>1, <3>2 DEF firstkey
      <4>5. 1 \in DOMAIN rl
        BY <4>1
      <4>. QED  BY <4>2, <4>3, <4>4, <4>5 DEF Below
    <3>. QED  BY <3>1, <3>2
  <2>. QED  BY <2>1, <2>2
<1>2. CASE ~(st[currpid] = "PR_CURR" /\ prprio[currpid] > firstkey(rl))
  <2>. DEFINE stays == st[currpid] = "PR_CURR"
              rl1 == IF stays THEN insert(currpid, rl, prprio[currpid]) ELSE rl
  <2>1. currpid' = rl1[1].pid /\ readylist' = Tail(rl1)
    BY <1>2 DEF Dispatch
  <2>2. /\ rl1 \in KeyedLists(Pid) /\ rl1 # <<>> /\ Sorted(rl1)
        /\ KeysFrom(rl, prprio) => KeysFrom(rl1, prprio)
    <3>1. CASE stays
      <4>1. prprio[currpid] \in Int
        OBVIOUS
      <4>. QED  BY <3>1, <4>1, InsertFacts, InsertSorted
    <3>2. CASE ~stays
      BY <3>2
    <3>. QED  BY <3>1, <3>2
  <2>. HIDE DEF rl1
  <2>3. /\ Sorted(Tail(rl1)) /\ Below(Tail(rl1), rl1[1].qkey)
        /\ KeysFrom(rl1, prprio) => /\ KeysFrom(Tail(rl1), prprio)
                                    /\ rl1[1].qkey = prprio[rl1[1].pid]
    BY <2>2, TailSorted, Zenon
  <2>. QED  BY <2>1, <2>2, <2>3
<1>. QED  BY <1>1, <1>2

\* A dispatch among processes one of which can run.
Dispatches ==
  \E st, slice : /\ st[currpid] = "PR_CURR" \/ readylist # <<>>
                 /\ Dispatch(st, readylist, slice)

\* What a step does to the ready list, the running process and the deferral.
SchedStep ==
  \/ UNCHANGED <<readylist, currpid>> /\ (CaughtUp' => CaughtUp)
  \/ Dispatches
  \/ \E r \in Pid : prstate[r] \notin {"PR_CURR", "PR_READY", "PR_FREE"} /\ ready(r)
  \/ \E r \in Members(readylist) : /\ readylist' = getitem(r, readylist)
                                   /\ UNCHANGED <<currpid, Defer>>

\* A process other than the null process that runs leaves somebody to dispatch.
LEMMA SomebodyReady ==
  ASSUME IInv, currpid # NULLPROC
  PROVE  readylist # <<>>
<1>1. NULLPROC \in Members(readylist)
  BY NullIsPid DEF IInv, ListInv, Running, ReadyAgrees
<1>. QED  BY <1>1 DEF Members


\* Every step of the kernel schedules in one of these ways.
LEMMA SchedulingStep ==
  ASSUME IInv, [Next]_vars
  PROVE  SchedStep
<1>0. /\ currpid \in Pid /\ prstate[currpid] = "PR_CURR"
      /\ Defer \in [ndefers : Nat, attempt : BOOLEAN] /\ loop.sem \in Sem
  BY DEF IInv, ListInv, Running, DataOK
<1>1. ASSUME UNCHANGED runvars, Defer' = Defer
      PROVE  SchedStep
  BY <1>1 DEF SchedStep, runvars, CaughtUp
<1>2. ASSUME NEW x, pc[currpid] \notin Deferring, currpid # NULLPROC,
             resched([prstate EXCEPT ![currpid] = x], readylist)
      PROVE  SchedStep
  <2>1. Dispatch([prstate EXCEPT ![currpid] = x], readylist, preempt)
    BY <1>2, QuietFacts DEF Quiet, resched
  <2>. QED  BY <1>2, <2>1, SomebodyReady DEF SchedStep, Dispatches
<1>3. ASSUME NEW r \in Pid, NEW m, Deliver(r, m)
      PROVE  SchedStep
  <2>1. CASE UNCHANGED <<runvars, Defer>>
    BY <1>1, <2>1
  <2>2. CASE prstate[r] \in {"PR_RECV", "PR_RECTIM"} /\ ready(r)
    BY <2>2 DEF SchedStep
  <2>. QED  BY <1>3, <2>1, <2>2, Zenon DEF Deliver
<1>4. ASSUME NEW s \in Sem, Release(s), ~Resetting(s)
      PROVE  SchedStep
  <2>1. CASE UNCHANGED <<runvars, Defer>>
    BY <1>1, <2>1
  <2>2. ASSUME NEW r \in Pid, prstate[r] = "PR_WAIT", ready(r)
        PROVE  SchedStep
    BY <2>2 DEF SchedStep
  <2>. QED  BY <1>4, <2>1, <2>2, ReleaseReadies
<1>5. ASSUME UNCHANGED runvars, pc[currpid] \notin Deferring
      PROVE  SchedStep
  BY <1>5, QuietFacts DEF SchedStep, CaughtUp, Quiet, runvars
<1>6. ASSUME NEW slice, Dispatch(prstate, readylist, slice)
      PROVE  SchedStep
  BY <1>0, <1>6 DEF SchedStep, Dispatches
<1>7. ASSUME Defer.ndefers = 1, DeferStop
      PROVE  SchedStep
  <2>1. CASE Defer.attempt
    BY <1>6, <1>7, <2>1 DEF DeferStop
  <2>2. CASE ~Defer.attempt
    BY <1>7, <2>2 DEF DeferStop, SchedStep, CaughtUp, runvars
  <2>. QED  BY <2>1, <2>2
<1>8. ASSUME NEW attempt, ClkReturn(attempt), ~attempt => CaughtUp
      PROVE  SchedStep
  <2>1. \/ \E slice : Dispatch(prstate, readylist, slice)
        \/ UNCHANGED <<readylist, currpid>> /\ ~attempt
    BY <1>8, Zenon DEF ClkReturn
  <2>. QED  BY <1>6, <1>8, <2>1 DEF SchedStep
<1>9. CASE ProcessCall
  <2>1. CASE \E prio \in Prio : Create(prio)
    BY <2>1, <1>0 DEF Create, SchedStep, CaughtUp
  <2>2. ASSUME NEW r \in Pid, Resume(r)
        PROVE  SchedStep
    BY <2>2 DEF Resume, SchedStep
  <2>3. ASSUME NEW r \in Pid, SuspendReady(r)
        PROVE  SchedStep
    <3>1. r \in Members(readylist)
      BY <2>3 DEF SuspendReady, IInv, ListInv, ReadyAgrees
    <3>. QED  BY <2>3, <3>1 DEF SuspendReady, SchedStep
  <2>4. CASE SuspendSelf
    BY <1>2, <2>4 DEF SuspendSelf, Calls, UserMode, Deferring
  <2>5. CASE Yield
    <3>1. Dispatch(prstate, readylist, preempt)
      BY <2>5, QuietFacts DEF Yield, Calls, UserMode, Deferring, Quiet, resched
    <3>. QED  BY <1>6, <3>1
  <2>6. ASSUME NEW v \in Pid, Kill(v)
        PROVE  SchedStep
    <3>1. prparent[v] \in Pid
      BY DEF IInv, DataOK
    <3>. QED  BY <1>3, <2>6, <3>1 DEF Kill
  <2>7. \/ \E prio \in Prio : Create(prio)
        \/ \E r \in Pid : Resume(r)
        \/ \E r \in Pid : SuspendReady(r)
        \/ SuspendSelf \/ Yield
        \/ \E v \in Pid : Kill(v)
        \/ UNCHANGED runvars /\ Defer' = Defer
    BY <1>9, Zenon DEF ProcessCall, CreateRefused, Chprio, KillLast
  <2>. QED  BY <1>1, <2>1, <2>2, <2>3, <2>4, <2>5, <2>6, <2>7
<1>10. CASE MessageCall \/ DelayCall
  <2>1. ASSUME NEW r \in Pid, NEW m \in Msg, Send(r, m)
        PROVE  SchedStep
    BY <1>3, <2>1 DEF Send
  <2>2. CASE Receive
    BY <1>2, <2>2 DEF Receive, Calls, UserMode, Deferring
  <2>3. CASE ReceiveNow
    BY <1>1, <2>3 DEF ReceiveNow, TakeMessage
  <2>4. ASSUME NEW d, Recvtime(d) \/ Sleepms(d)
        PROVE  SchedStep
    BY <1>2, <2>4 DEF Recvtime, Sleepms, Calls, UserMode, Deferring
  <2>. QED  BY <1>10, <2>1, <2>2, <2>3, <2>4 DEF MessageCall, DelayCall
<1>11. CASE SemaphoreCall
  <2>1. ASSUME NEW s, Wait(s)
        PROVE  SchedStep
    <3>1. CASE UNCHANGED <<runvars, Defer>>
      BY <1>1, <3>1
    <3>2. CASE resched([prstate EXCEPT ![currpid] = "PR_WAIT"], readylist)
      BY <1>2, <2>1, <3>2 DEF Wait, Calls, UserMode, Deferring
    <3>. QED  BY <2>1, <3>1, <3>2, Zenon DEF Wait
  <2>2. ASSUME NEW s \in Sem, Signal(s)
        PROVE  SchedStep
    BY <1>4, <2>2 DEF Signal, Calls, UserMode, Resetting
  <2>3. \/ \E s \in Sem : Wait(s)
        \/ \E s \in Sem : Signal(s)
        \/ UNCHANGED runvars /\ UserMode
    BY <1>11, Zenon DEF SemaphoreCall, Semcreate, Signaln, Semdelete, Semreset,
                        StartLoop, Calls
  <2>. QED  BY <1>5, <2>1, <2>2, <2>3 DEF UserMode, Deferring
<1>12. CASE Tick
  <2>1. CASE Clkhandler
    <3>1. CaughtUp /\ ClkReturn(FALSE)
      BY <2>1, QuietFacts DEF Clkhandler, UserMode, Deferring, Quiet, CaughtUp
    <3>. QED  BY <1>8, <3>1
  <2>2. CASE ClkhandlerDue
    BY <1>5, <2>2 DEF ClkhandlerDue, UserMode, Deferring
  <2>. QED  BY <1>12, <2>1, <2>2 DEF Tick
<1>13. CASE Interrupt
  BY <1>5, <1>13 DEF Interrupt, UserMode, Deferring
<1>14. CASE KernelStep
  <2>1. CASE ReceiveResume \/ RecvtimeResume
    BY <1>1, <2>1 DEF ReceiveResume, RecvtimeResume, TakeMessage
  <2>2. CASE KillSelf
    <3>1. Removes({"PR_CURR"}) /\ Dispatch(Freed, readylist, preempt)
      BY <2>2 DEF KillSelf
    <3>2. victim[currpid] # NULLPROC /\ victim[currpid] = currpid
      BY <3>1, RemovesFacts DEF IInv, ListInv, Running
    <3>. QED  BY <3>1, <3>2, SomebodyReady DEF SchedStep, Dispatches
  <2>3. CASE KillSleeper \/ KillWaiter \/ KillOther
    BY <2>3 DEF KillSleeper, KillWaiter, KillOther, Removes, SchedStep, CaughtUp
  <2>4. CASE KillReady
    <3>1. victim[currpid] \in Members(readylist)
      BY <2>4, RemovesFacts DEF KillReady, IInv, ListInv, ReadyAgrees
    <3>. QED  BY <2>4, <3>1 DEF KillReady, Removes, SchedStep
  <2>5. CASE SignalnNext \/ SemdeleteNext \/ \E s \in Sem : InterruptSignal(s)
    <3>1. \E s \in Sem : Release(s) /\ ~Resetting(s)
      BY <1>0, <2>5 DEF SignalnNext, SemdeleteNext, InterruptSignal, Continues, Resetting
    <3>. QED  BY <1>4, <3>1
  <2>6. CASE SemresetNext
    <3>1. squeue[loop.sem] # <<>> /\ ready(squeue[loop.sem][1])
      BY <2>6 DEF SemresetNext
    <3>2. /\ squeue[loop.sem][1] \in Pid
          /\ prstate[squeue[loop.sem][1]] = "PR_WAIT"
      BY <1>0, <3>1, FirstWaits
    <3>. QED  BY <3>1, <3>2 DEF SchedStep
  <2>7. CASE SignalnEnd \/ SemdeleteEnd \/ SemresetEnd \/ InterruptReturn
    <3>1. DeferStop /\ pc[currpid] \in {"signaln", "semdelete", "semreset", "irq"}
      BY <2>7 DEF SignalnEnd, SemdeleteEnd, SemresetEnd, EndLoop, InterruptReturn,
                  Continues
    <3>. QED  BY <1>7, <3>1 DEF IInv, DeferInv, Deferring
  <2>8. CASE WakeupNext
    <3>1. sleepq # <<>> /\ ready(sleepq[1].pid)
      BY <2>8 DEF WakeupNext, Overdue
    <3>2. sleepq[1].pid \in Pid /\ sleepq[1].pid \in Members(sleepq)
      <4>1. sleepq \in KeyedLists(Pid) /\ Once(sleepq)
        BY DEF IInv, ListInv, SleepAgrees
      <4>2. /\ sleepq[1] \in [pid : Pid, qkey : Int]
            /\ sleepq[1].pid \in Members(sleepq)
        BY <3>1, <4>1, TailKeyed, Zenon
      <4>. QED  BY <4>2
    <3>3. prstate[sleepq[1].pid] \in {"PR_SLEEP", "PR_RECTIM"}
      BY <3>2 DEF IInv, ListInv, SleepAgrees
    <3>. QED  BY <3>1, <3>2, <3>3 DEF SchedStep
  <2>9. CASE WakeupEnd
    BY <1>8, <2>9 DEF WakeupEnd, CaughtUp
  <2>. QED  BY <1>14, <2>1, <2>2, <2>3, <2>4, <2>5, <2>6, <2>7, <2>8, <2>9
            DEF KernelStep
<1>15. CASE UNCHANGED vars
  BY <1>1, <1>15 DEF vars
<1>. QED  BY <1>9, <1>10, <1>11, <1>12, <1>13, <1>14, <1>15 DEF Next, Halted

\* The ready list after a process was made ready.
LEMMA ReadySortedFacts ==
  ASSUME IInv, ReadySorted, NEW r \in Pid, ready(r)
  PROVE  /\ Sorted(readylist')
         /\ KeysFrom(readylist, prprio) =>
              /\ KeysFrom(readylist', prprio)
              /\ CaughtUp' => Below(readylist', prprio[currpid'])
<1>. DEFINE st == [prstate EXCEPT ![r] = "PR_READY"]
            rl == insert(r, readylist, prprio[r])
<1>1. /\ currpid \in Pid /\ prprio \in [Pid -> Int] /\ prprio[r] \in Int
      /\ readylist \in KeyedLists(Pid) /\ Sorted(readylist)
      /\ Defer \in [ndefers : Nat, attempt : BOOLEAN]
  BY DEF IInv, ListInv, Running, ReadyAgrees, DataOK, ReadySorted, Sorted
<1>2. /\ rl \in KeyedLists(Pid) /\ rl # <<>> /\ Sorted(rl)
      /\ KeysFrom(readylist, prprio) => KeysFrom(rl, prprio)
  BY <1>1, InsertFacts, InsertSorted
<1>3. resched(st, rl)
  BY DEF ready
<1>. HIDE DEF st, rl
<1>4. CASE Defer.ndefers > 0
  <2>1. readylist' = rl /\ Defer' = [Defer EXCEPT !.attempt = TRUE]
    BY <1>3, <1>4 DEF resched
  <2>2. ~CaughtUp'
    BY <1>1, <1>4, <2>1 DEF CaughtUp
  <2>. QED  BY <1>2, <2>1, <2>2
<1>5. CASE ~(Defer.ndefers > 0)
  <2>1. Dispatch(st, rl, preempt)
    BY <1>3, <1>5 DEF resched
  <2>. QED  BY <1>1, <1>2, <2>1, DispatchSorted
<1>. QED  BY <1>4, <1>5

\* Every step keeps the ready list in order, and with it its keys and the rank
\* of the running process as long as the priorities of its processes stay.
LEMMA SortedStep ==
  ASSUME IInv, ReadySorted, [Next]_vars
  PROVE  /\ Sorted(readylist')
         /\ PrioInv => /\ KeysFrom(readylist', prprio)
                       /\ CaughtUp' => Below(readylist', prprio[currpid'])
<1>1. /\ currpid \in Pid /\ prprio \in [Pid -> Int]
      /\ readylist \in KeyedLists(Pid) /\ Sorted(readylist) /\ Once(readylist)
  BY DEF IInv, ListInv, Running, ReadyAgrees, DataOK, ReadySorted, Sorted
<1>2. CASE UNCHANGED <<readylist, currpid>> /\ (CaughtUp' => CaughtUp)
  BY <1>1, <1>2 DEF PrioInv
<1>3. CASE Dispatches
  BY <1>1, <1>3, DispatchSorted DEF Dispatches, PrioInv
<1>4. ASSUME NEW r \in Pid, ready(r)
      PROVE  /\ Sorted(readylist')
             /\ PrioInv => /\ KeysFrom(readylist', prprio)
                           /\ CaughtUp' => Below(readylist', prprio[currpid'])
  BY <1>4, ReadySortedFacts DEF PrioInv
<1>5. ASSUME NEW r \in Members(readylist), readylist' = getitem(r, readylist),
             UNCHANGED <<currpid, Defer>>
      PROVE  /\ Sorted(readylist')
             /\ PrioInv => /\ KeysFrom(readylist', prprio)
                           /\ CaughtUp' => Below(readylist', prprio[currpid'])
  <2>1. PosOf(r, readylist) \in DOMAIN readylist
    BY DEF PosOf, Members
  <2>2. readylist' = RemoveAt(readylist, PosOf(r, readylist))
    BY <1>5 DEF getitem
  <2>3. /\ Sorted(readylist')
        /\ \A pr : KeysFrom(readylist, pr) => KeysFrom(readylist', pr)
        /\ \A n : Below(readylist, n) => Below(readylist', n)
    BY <1>1, <2>1, <2>2, RemoveSorted
  <2>4. CaughtUp' = CaughtUp
    BY <1>5 DEF CaughtUp
  <2>. QED  BY <1>5, <2>3, <2>4 DEF PrioInv
<1>. QED  BY <1>2, <1>3, <1>4, <1>5, SchedulingStep DEF SchedStep

\* The processes that run or can run keep their priorities.
LEMMA PrioritiesKept ==
  ASSUME IInv, [Next]_vars, "chprio" \notin Workload,
         NEW p \in Pid, prstate[p] # "PR_FREE"
  PROVE  prprio'[p] = prprio[p]
<1>1. ASSUME NEW prio \in Prio, Create(prio)
      PROVE  prprio'[p] = prprio[p]
  <2>1. newpid \in Pid /\ prstate[newpid] = "PR_FREE"
    BY <1>1, NewpidFacts DEF Create
  <2>2. prprio' = [prprio EXCEPT ![newpid] = prio]
    BY <1>1 DEF Create
  <2>. HIDE DEF newpid
  <2>. QED  BY <2>1, <2>2 DEF IInv, DataOK
<1>2. (\E prio \in Prio : Create(prio)) \/ prprio' = prprio
  <2>1. CASE ProcessCall
    BY <2>1, Zenon DEF ProcessCall, CreateRefused, Resume, SuspendReady, SuspendSelf,
                       Yield, Chprio, Calls, KillLast, Kill, procvars
  <2>2. CASE MessageCall \/ DelayCall
    BY <2>2, Zenon DEF MessageCall, DelayCall, Send, Receive, ReceiveNow, Recvtime,
                       TakeMessage, Sleepms, procvars
  <2>3. CASE SemaphoreCall
    BY <2>3, Zenon DEF SemaphoreCall, Semcreate, Wait, Signal, Signaln, Semdelete,
                       Semreset, StartLoop, procvars
  <2>4. CASE Tick \/ Interrupt \/ UNCHANGED vars
    BY <2>4, Zenon DEF Tick, Clkhandler, ClkhandlerDue, Interrupt, vars, procvars
  <2>5. CASE KernelStep
    BY <2>5, Zenon DEF KernelStep, ReceiveResume, RecvtimeResume, TakeMessage, KillSelf,
                       KillSleeper, KillWaiter, KillReady, KillOther, Removes,
                       SignalnNext, SignalnEnd, SemdeleteNext, SemdeleteEnd,
                       SemresetNext, SemresetEnd, EndLoop, WakeupNext, WakeupEnd,
                       InterruptSignal, InterruptReturn, procvars
  <2>. QED  BY <2>1, <2>2, <2>3, <2>4, <2>5 DEF Next, Halted
<1>. QED  BY <1>1, <1>2

\* The priorities of the processes agree with the ready list after every step.
LEMMA PrioStep ==
  ASSUME IInv, ReadySorted, PrioInv, [Next]_vars, "chprio" \notin Workload
  PROVE  PrioInv'
<1>1. IInv'
  BY NextInv
<1>2. ASSUME NEW p \in Pid, prstate'[p] \in {"PR_READY", "PR_CURR"}
      PROVE  prprio'[p] = prprio[p]
  <2>1. prstate[p] # "PR_FREE"
    BY <1>2, BlockedStays
  <2>. QED  BY <2>1, PrioritiesKept
<1>3. /\ KeysFrom(readylist', prprio)
      /\ CaughtUp' => Below(readylist', prprio[currpid'])
  BY SortedStep
<1>4. currpid' \in Pid /\ prstate'[currpid'] = "PR_CURR"
  BY <1>1 DEF IInv, ListInv, Running
<1>5. \A i \in DOMAIN readylist' : /\ readylist'[i].pid \in Pid
                                   /\ prstate'[readylist'[i].pid] = "PR_READY"
  <2>1. \A i \in DOMAIN readylist' : readylist'[i].pid \in Members(readylist')
    BY DEF Members
  <2>2. Members(readylist') \subseteq Pid
    <3>1. readylist' \in KeyedLists(Pid)
      BY <1>1 DEF IInv, ListInv, ReadyAgrees
    <3>2. \A i \in DOMAIN readylist' : readylist'[i] \in [pid : Pid, qkey : Int]
      BY <3>1, ListNodes
    <3>. QED  BY <3>2 DEF Members
  <2>. QED  BY <1>1, <2>1, <2>2 DEF IInv, ListInv, ReadyAgrees
<1>6. prprio'[currpid'] = prprio[currpid']
  BY <1>2, <1>4
<1>7. KeysFrom(readylist', prprio')
  BY <1>2, <1>3, <1>5 DEF KeysFrom
<1>. QED  BY <1>3, <1>6, <1>7 DEF PrioInv

\* The ready list is in descending order of its keys through every insertion and
\* removal, also while priorities are changed: insert and resched rely on it.
THEOREM ReadyListOrdered == Spec => []ReadySorted
<1>1. Init => ReadySorted
  <2>. SUFFICES ASSUME Init, NEW i \in 1 .. NSTART, NEW j \in 1 .. NSTART, i < j
                PROVE  readylist[i].qkey >= readylist[j].qkey
    BY DEF Init, ReadySorted
  <2>. USE TableAssumption, PrioAssumption
  <2>1. readylist[i].qkey = StartPrio[i + 1] /\ i + 1 \in 1 .. NSTART
    BY DEF Init, Node
  <2>2. CASE j = NSTART
    BY <2>1, <2>2 DEF Init, Node
  <2>3. CASE j < NSTART
    <3>1. readylist[j].qkey = StartPrio[j + 1] /\ j + 1 \in 1 .. NSTART
      BY <2>3 DEF Init, Node
    <3>. QED  BY <2>1, <3>1
  <2>. QED  BY <2>2, <2>3
<1>2. IInv /\ ReadySorted /\ [Next]_vars => ReadySorted'
  BY SortedStep DEF ReadySorted, Sorted
<1>. QED  BY <1>1, <1>2, KernelInvariant, PTL DEF Spec

\* Priorities and ready list agree in every state, if no program calls chprio.
LEMMA PrioInvariant ==
  ASSUME "chprio" \notin Workload
  PROVE  Spec => []PrioInv
<1>1. Init => PrioInv
  <2>. SUFFICES ASSUME Init PROVE PrioInv
    OBVIOUS
  <2>. USE TableAssumption, PrioAssumption
  <2>1. /\ DOMAIN readylist = 1 .. NSTART /\ prprio[currpid] = StartPrio[1]
        /\ \A i \in 1 .. NSTART :
             /\ readylist[i].pid = IF i < NSTART THEN i + 1 ELSE 0
             /\ readylist[i].qkey = IF i < NSTART THEN StartPrio[i + 1] ELSE 0
    BY DEF Init, Node, Pid
  <2>2. \A i \in 1 .. NSTART : prprio[readylist[i].pid] = readylist[i].qkey
    BY <2>1 DEF Init, Pid
  <2>. QED  BY <2>1, <2>2 DEF PrioInv, KeysFrom, Below
<1>2. IInv /\ ReadySorted /\ PrioInv /\ [Next]_vars => PrioInv'
  BY PrioStep
<1>. QED  BY <1>1, <1>2, KernelInvariant, ReadyListOrdered, PTL DEF Spec

\* Once rescheduling has caught up, no process that can run has a higher priority
\* than the one that runs.
LEMMA RunsHighest ==
  ASSUME IInv, PrioInv, CaughtUp, NEW p \in Pid, prstate[p] = "PR_READY"
  PROVE  prprio[p] <= prprio[currpid]
<1>1. PICK i \in DOMAIN readylist : readylist[i].pid = p
  BY DEF IInv, ListInv, ReadyAgrees, Members
<1>. QED  BY <1>1 DEF PrioInv, KeysFrom, Below

\* While user code runs no process that can run has a higher priority than the
\* running one, through every call, interrupt and deferral, if no program calls
\* chprio (which leaves the ready list as it is).
THEOREM HighestRuns ==
  ASSUME "chprio" \notin Workload
  PROVE  Spec => []HighestPriorityRuns
<1>1. IInv /\ PrioInv => HighestPriorityRuns
  <2>. SUFFICES ASSUME IInv, PrioInv, UserMode, NEW p \in Pid, prstate[p] = "PR_READY"
                PROVE  prprio[p] <= prprio[currpid]
    BY DEF HighestPriorityRuns
  <2>1. CaughtUp
    BY QuietFacts DEF UserMode, Deferring, Quiet, CaughtUp
  <2>. QED  BY <2>1, RunsHighest
<1>. QED  BY <1>1, PrioInvariant, KernelInvariant, PTL

\* Every dispatch is of a process with the highest priority among those that can
\* run, as resched promises, if no program calls chprio.
THEOREM DispatchHighest ==
  ASSUME "chprio" \notin Workload
  PROVE  Spec => DispatchesHighest
<1>1. IInv /\ IInv' /\ PrioInv' /\ [Next]_vars =>
        [currpid' # currpid =>
           \A p \in Pid : prstate'[p] = "PR_READY" => prprio'[p] <= prprio'[currpid']]_vars
  <2>. SUFFICES ASSUME IInv, IInv', PrioInv', [Next]_vars, currpid' # currpid,
                       NEW p \in Pid, prstate'[p] = "PR_READY"
                PROVE  prprio'[p] <= prprio'[currpid']
    OBVIOUS
  <2>1. currpid' \in Pid
    BY DEF IInv, ListInv, Running
  <2>2. pc[currpid'] \notin Deferring
    BY <2>1 DEF IInv, DeferInv
  <2>3. pc'[currpid'] \notin Deferring
    BY <2>1, <2>2, PlaceStep DEF Deferring
  <2>4. CaughtUp'
    BY <2>3 DEF IInv, DeferInv, CaughtUp
  <2>5. PICK i \in DOMAIN readylist' : readylist'[i].pid = p
    BY DEF IInv, ListInv, ReadyAgrees, Members
  <2>. QED  BY <2>4, <2>5 DEF PrioInv, KeysFrom, Below
<1>. QED  BY <1>1, PrioInvariant, KernelInvariant, PTL DEF Spec, DispatchesHighest
=============================================================================
