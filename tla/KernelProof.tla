---------------------------- MODULE KernelProof -----------------------------
(***************************************************************************)
(* The sleep queue, which implements the timers of DelayTimers, and the    *)
(* halt of the system when the last process ends.                          *)
(***************************************************************************)
EXTENDS KernelSchedProof, FiniteSetTheorems

USE DEF NULLPROC

-----------------------------------------------------------------------------
(***************************************************************************)
(* Delays.                                                                 *)
(***************************************************************************)

\* No key of the sleep queue is negative, and but for the loop of wakeup the
\* first process has time left.
TimerInv ==
  /\ Pending(sleepq)
  /\ pc[currpid] # "wakeup" => FirstLater(sleepq)

\* What a step does to the sleep queue.
TimeStep ==
  \/ UserMode /\ \E d \in Delay : sleepq' = insertd(currpid, sleepq, d)
  \/ UserMode /\ sleepq' = Ticked /\ (Due => pc'[currpid'] = "wakeup")
  \/ \E p \in Members(sleepq) :
       /\ sleepq' = unsleep(p, sleepq) /\ pc[currpid] # "wakeup"
       /\ prstate'[p] = "PR_FREE" \/ prmsg'[p] # NoMsg
  \/ /\ Overdue /\ sleepq' = Tail(sleepq)
     /\ pc[currpid] = "wakeup" /\ pc'[currpid'] = "wakeup"
  \/ /\ UNCHANGED sleepq
     /\ pc[currpid] # "wakeup" \/ ~Overdue \/ pc'[currpid'] = "wakeup"

\* Every step of the kernel changes the sleep queue in one of these ways.
LEMMA DelayStep ==
  ASSUME IInv, [Next]_vars
  PROVE  TimeStep
<1>0. /\ currpid \in Pid /\ pc \in [Pid -> Place]
      /\ prmsg \in [Pid -> Message \union {NoMsg}] /\ prstate \in [Pid -> State]
      /\ \A p \in Pid : prstate[p] \in {"PR_SLEEP", "PR_RECTIM"} <=> p \in Members(sleepq)
  BY DEF IInv, ListInv, Running, DataOK, SleepAgrees
<1>1. ASSUME UNCHANGED sleepq, pc[currpid] # "wakeup"
      PROVE  TimeStep
  BY <1>1 DEF TimeStep
<1>2. ASSUME NEW p \in Pid, NEW m \in Message, Deliver(p, m), pc[currpid] = "user"
      PROVE  TimeStep
  <2>1. m # NoMsg
    BY DataAssumption, TableAssumption DEF Message, NoMsg, Pid
  <2>2. CASE UNCHANGED sleepq
    BY <1>1, <1>2, <2>2
  <2>3. CASE /\ prstate[p] = "PR_RECTIM" /\ sleepq' = unsleep(p, sleepq)
             /\ prmsg' = [prmsg EXCEPT ![p] = m]
    <3>1. p \in Members(sleepq) /\ prmsg'[p] = m
      BY <1>0, <2>3
    <3>. QED  BY <1>2, <2>1, <2>3, <3>1 DEF TimeStep
  <2>. QED  BY <1>2, <2>2, <2>3, Zenon DEF Deliver
<1>3. CASE ProcessCall
  <2>1. ASSUME NEW v \in Pid, Kill(v)
        PROVE  TimeStep
    <3>1. prparent[v] \in Pid /\ v \in Message
      BY DEF IInv, DataOK, Message
    <3>2. Deliver(prparent[v], v) /\ pc[currpid] = "user"
      BY <2>1, Zenon DEF Kill, Calls, UserMode
    <3>. QED  BY <1>2, <3>1, <3>2
  <2>2. \/ \E v \in Pid : Kill(v)
        \/ UNCHANGED sleepq /\ pc[currpid] = "user"
    BY <1>3, Zenon DEF ProcessCall, Create, CreateRefused, Resume, SuspendReady,
                       SuspendSelf, Yield, Chprio, KillLast, Calls, UserMode
  <2>. QED  BY <1>1, <2>1, <2>2
<1>4. CASE MessageCall \/ DelayCall
  <2>1. ASSUME NEW p \in Pid, NEW m \in Msg, Send(p, m)
        PROVE  TimeStep
    <3>1. m \in Message /\ Deliver(p, m) /\ pc[currpid] = "user"
      BY <2>1 DEF Send, Calls, UserMode, Message
    <3>. QED  BY <1>2, <3>1
  <2>2. ASSUME NEW d \in Delay, Recvtime(d) \/ Sleepms(d)
        PROVE  TimeStep
    BY <2>2 DEF Recvtime, Sleepms, Calls, TimeStep
  <2>3. CASE Receive \/ ReceiveNow
    <3>1. UNCHANGED sleepq /\ pc[currpid] = "user"
      BY <2>3, Zenon DEF Receive, ReceiveNow, TakeMessage, Calls, UserMode
    <3>. QED  BY <1>1, <3>1
  <2>. QED  BY <1>4, <2>1, <2>2, <2>3, Zenon DEF MessageCall, DelayCall
<1>5. CASE SemaphoreCall \/ Interrupt
  <2>1. UNCHANGED sleepq /\ pc[currpid] = "user"
    BY <1>5, Zenon DEF SemaphoreCall, Semcreate, Wait, Signal, Signaln, Semdelete,
                       Semreset, StartLoop, Interrupt, Calls, UserMode
  <2>. QED  BY <1>1, <2>1
<1>6. CASE Clkhandler
  BY <1>6, Zenon DEF Clkhandler, TimeStep
<1>7. CASE ClkhandlerDue
  <2>1. /\ UserMode /\ sleepq' = Ticked
        /\ currpid' = currpid /\ pc' = [pc EXCEPT ![currpid] = "wakeup"]
    BY <1>7 DEF ClkhandlerDue, GoTo, runvars
  <2>. QED  BY <1>0, <2>1 DEF TimeStep
<1>8. CASE KernelStep
  <2>1. CASE KillSleeper
    <3>1. /\ victim[currpid] \in Pid
          /\ prstate[victim[currpid]] \in {"PR_SLEEP", "PR_RECTIM"}
      BY <2>1, RemovesFacts DEF KillSleeper, Removes, IInv, DataOK, ListInv, Running
    <3>2. victim[currpid] \in Members(sleepq) /\ prstate'[victim[currpid]] = "PR_FREE"
      BY <1>0, <2>1, <3>1 DEF KillSleeper, Freed
    <3>3. sleepq' = unsleep(victim[currpid], sleepq) /\ pc[currpid] # "wakeup"
      BY <2>1 DEF KillSleeper, Removes, Continues
    <3>. QED  BY <3>2, <3>3 DEF TimeStep
  <2>2. CASE WakeupNext
    <3>1. /\ Overdue /\ sleepq' = Tail(sleepq) /\ sleepq # <<>> /\ ready(sleepq[1].pid)
          /\ pc[currpid] = "wakeup" /\ pc' = pc
      BY <2>2 DEF WakeupNext, Continues, ctlvars, Overdue
    <3>2. Defer.ndefers > 0
      BY <3>1 DEF IInv, DeferInv, Deferring
    <3>3. currpid' = currpid
      BY <3>1, <3>2 DEF ready, resched
    <3>. QED  BY <3>1, <3>3 DEF TimeStep
  <2>3. CASE WakeupEnd
    BY <2>3 DEF WakeupEnd, TimeStep
  <2>4. \/ KillSleeper \/ WakeupNext \/ WakeupEnd
        \/ UNCHANGED sleepq /\ pc[currpid] \in Place \ {"wakeup"}
    BY <1>8, Zenon DEF KernelStep, ReceiveResume, RecvtimeResume, TakeMessage, KillSelf,
                       KillWaiter, KillReady, KillOther, Removes, SignalnNext,
                       SignalnEnd, SemdeleteNext, SemdeleteEnd, SemresetNext,
                       SemresetEnd, EndLoop, InterruptSignal, InterruptReturn,
                       Continues, Place
  <2>. QED  BY <1>1, <2>1, <2>2, <2>3, <2>4
<1>9. CASE UNCHANGED vars
  <2>1. UNCHANGED <<sleepq, pc, currpid>>
    BY <1>9 DEF vars, ctlvars, runvars
  <2>. QED  BY <2>1 DEF TimeStep
<1>. QED  BY <1>3, <1>4, <1>5, <1>6, <1>7, <1>8, <1>9 DEF Next, Halted, Tick

\* A tick of a queue whose first process has time left.
LEMMA TickedLeft ==
  ASSUME IInv, TimerInv, pc[currpid] # "wakeup", sleepq # <<>>
  PROVE  /\ Left(Ticked) = [p \in Members(sleepq) |-> Left(sleepq)[p] - 1]
         /\ Pending(Ticked)
         /\ ~Due => FirstLater(Ticked)
<1>. DEFINE N == [pid : Pid, qkey : Int]
            r == [sleepq EXCEPT ![1].qkey = @ - 1]
<1>1. /\ sleepq \in KeyedLists(Pid) /\ Once(sleepq) /\ Len(sleepq) \in Nat
      /\ DOMAIN sleepq = 1 .. Len(sleepq) /\ Len(sleepq) # 0
      /\ \A i \in DOMAIN sleepq : sleepq[i] \in N /\ sleepq[i].qkey \in Int
  <2>1. sleepq \in KeyedLists(Pid) /\ Once(sleepq)
    BY DEF IInv, ListInv, SleepAgrees
  <2>. QED  BY <2>1, ListNodes
<1>2. Ticked = r
  BY DEF Ticked
<1>3. /\ DOMAIN r = DOMAIN sleepq /\ 1 \in DOMAIN sleepq
      /\ r[1] = [sleepq[1] EXCEPT !.qkey = @ - 1]
      /\ \A i \in DOMAIN sleepq \ {1} : r[i] = sleepq[i]
      /\ r = [i \in DOMAIN sleepq |-> r[i]]
  <2>1. 1 \in DOMAIN sleepq
    BY <1>1
  <2>2. DOMAIN r = DOMAIN sleepq /\ r = [i \in DOMAIN sleepq |-> r[i]]
    OBVIOUS
  <2>3. r[1] = [sleepq[1] EXCEPT !.qkey = @ - 1]
    BY <2>1
  <2>4. \A i \in DOMAIN sleepq \ {1} : r[i] = sleepq[i]
    OBVIOUS
  <2>. QED  BY <2>1, <2>2, <2>3, <2>4
<1>. HIDE DEF r
<1>4. r[1] \in N /\ r[1].pid = sleepq[1].pid /\ r[1].qkey = sleepq[1].qkey - 1
  BY <1>1, <1>3
<1>5. \A i \in DOMAIN sleepq : r[i] \in N /\ r[i].pid = sleepq[i].pid
  BY SMT, SMTT(30), <1>1, <1>3, <1>4
<1>6. r \in [DOMAIN sleepq -> N]
  BY <1>3, <1>5
<1>7. r \in KeyedLists(Pid) /\ Members(r) = Members(sleepq) /\ Once(r)
  BY SMT, SMTT(30), <1>1, <1>5, <1>6, RekeyKeyed
<1>8. Len(r) = Len(sleepq)
  <2>1. Len(r) \in Nat /\ DOMAIN r = 1 .. Len(r)
    BY <1>7, ListNodes
  <2>. QED  BY <1>1, <1>3, <2>1
<1>9. \A i \in 2 .. Len(sleepq) : r[i] = sleepq[i]
  BY <1>1, <1>3
<1>10. Left(r) = [p \in Members(sleepq) |-> Left(sleepq)[p] - 1]
  BY <1>1, <1>4, <1>7, <1>8, <1>9, TickLeft
<1>11. sleepq[1].qkey > 0 /\ r[1].qkey >= 0
  BY <1>1, <1>3, <1>4 DEF TimerInv, FirstLater
<1>12. Pending(r)
  <2>1. \A i \in DOMAIN sleepq : sleepq[i].qkey >= 0
    BY DEF TimerInv, Pending
  <2>2. \A i \in DOMAIN sleepq : r[i].qkey >= 0
    BY <1>3, <1>11, <2>1
  <2>. QED  BY <1>3, <2>2 DEF Pending
<1>13. ~Due => FirstLater(r)
  BY <1>1, <1>2, <1>3, <1>4, <1>11 DEF Due, FirstLater
<1>. QED  BY <1>2, <1>10, <1>12, <1>13

\* Every step keeps the keys of the sleep queue, and implements a step of the
\* timers.
LEMMA TimersStep ==
  ASSUME IInv, TimerInv, [Next]_vars, 0 \notin Delay
  PROVE  TimerInv' /\ Timers!Next
<1>. DEFINE ex == {p \in Pid : prstate[p] = "PR_FREE" \/ prmsg[p] # NoMsg}
<1>1. sleepq \in KeyedLists(Pid) /\ Once(sleepq) /\ currpid \in Pid
  BY DEF IInv, ListInv, SleepAgrees, Running
<1>2. IInv' /\ ex' \in SUBSET Pid
  BY NextInv
<1>3. DOMAIN Left(sleepq) = Members(sleepq)
  BY DEF Left
<1>4. ASSUME UserMode, NEW d \in Delay, sleepq' = insertd(currpid, sleepq, d)
      PROVE  TimerInv' /\ Timers!Next
  <2>1. d \in Int /\ d > 0 /\ pc[currpid] # "wakeup"
    BY <1>4, DataAssumption DEF UserMode
  <2>2. currpid \notin Members(sleepq)
    BY DEF IInv, ListInv, SleepAgrees, Running
  <2>3. /\ Left(sleepq') = [r \in Members(sleepq) \union {currpid} |->
                              IF r = currpid THEN d ELSE Left(sleepq)[r]]
        /\ Pending(sleepq') /\ FirstLater(sleepq')
    <3>1. /\ sleepq \in KeyedLists(Pid) /\ Once(sleepq) /\ currpid \in Pid
          /\ currpid \notin Members(sleepq) /\ d \in Int /\ d > 0 /\ d >= 0
          /\ Pending(sleepq) /\ FirstLater(sleepq)
      BY <1>1, <2>1, <2>2 DEF TimerInv
    <3>2. /\ Left(insertd(currpid, sleepq, d)) = LeftWith(sleepq, currpid, d)
          /\ Pending(insertd(currpid, sleepq, d))
          /\ FirstLater(insertd(currpid, sleepq, d))
      BY <3>1, InsertdLeft, Zenon
    <3>. QED  BY <1>4, <3>2 DEF LeftWith
  <2>4. Timers!Set(currpid, d)
    BY <1>3, <2>2, <2>3 DEF Timers!Set, Timers!Delayed, Left
  <2>. QED  BY <1>1, <1>2, <2>3, <2>4 DEF TimerInv, Timers!Next
<1>5. ASSUME UserMode, sleepq' = Ticked, Due => pc'[currpid'] = "wakeup"
      PROVE  TimerInv' /\ Timers!Next
  <2>0. pc[currpid] # "wakeup"
    BY <1>5 DEF UserMode
  <2>1. CASE sleepq = <<>>
    <3>1. sleepq' = sleepq
      BY <1>5, <2>1 DEF Ticked
    <3>. QED  BY <1>2, <2>0, <3>1 DEF TimerInv, Timers!Next
  <2>2. CASE sleepq # <<>>
    <3>1. /\ Left(sleepq') = [p \in Members(sleepq) |-> Left(sleepq)[p] - 1]
          /\ Pending(sleepq') /\ (~Due => FirstLater(sleepq'))
      BY <1>5, <2>0, <2>2, TickedLeft
    <3>2. \A p \in Members(sleepq) : Left(sleepq)[p] > 0
      <4>1. \A i \in DOMAIN sleepq : DueIn(sleepq)[i] > 0
        BY <1>1, <2>0, AllLater DEF TimerInv
      <4>. QED  BY <1>1, <4>1, LeftOfNode DEF Members
    <3>3. Timers!Tick
      BY SMT, SMTT(30), <1>3, <3>1, <3>2 DEF Timers!Tick, Timers!Delayed, Left
    <3>. QED  BY <1>2, <1>5, <3>1, <3>3 DEF TimerInv, Timers!Next
  <2>. QED  BY <2>1, <2>2
<1>6. ASSUME NEW p \in Members(sleepq), sleepq' = unsleep(p, sleepq),
             pc[currpid] # "wakeup", prstate'[p] = "PR_FREE" \/ prmsg'[p] # NoMsg
      PROVE  TimerInv' /\ Timers!Next
  <2>1. /\ Left(sleepq') = [r \in Members(sleepq) \ {p} |-> Left(sleepq)[r]]
        /\ Pending(sleepq') /\ FirstLater(sleepq')
    <3>1. /\ sleepq \in KeyedLists(Pid) /\ Once(sleepq) /\ p \in Members(sleepq)
          /\ Pending(sleepq) /\ FirstLater(sleepq)
      BY <1>1, <1>6 DEF TimerInv
    <3>2. /\ Left(unsleep(p, sleepq)) = LeftWithout(sleepq, p)
          /\ Pending(unsleep(p, sleepq)) /\ FirstLater(unsleep(p, sleepq))
      BY <3>1, UnsleepLeft, Zenon
    <3>. QED  BY <1>6, <3>2 DEF LeftWithout
  <2>2. p \in ex'
    <3>1. p \in Pid
      BY <1>1, ListNodes DEF Members
    <3>. QED  BY <1>6, <3>1
  <2>. HIDE DEF ex
  <2>3. Timers!Cancel(p)
    BY SMT, SMTT(30), <1>3, <2>1, <2>2 DEF Timers!Cancel, Timers!Without, Timers!Delayed, Left, ex
  <2>. QED  BY <1>2, <1>3, <2>1, <2>3 DEF TimerInv, Timers!Next, Timers!Delayed, Left, ex
<1>7. ASSUME Overdue, sleepq' = Tail(sleepq), pc'[currpid'] = "wakeup"
      PROVE  TimerInv' /\ Timers!Next
  <2>. DEFINE p == sleepq[1].pid
  <2>1. /\ sleepq # <<>> /\ 1 \in DOMAIN sleepq /\ sleepq[1].qkey = 0
        /\ p \in Members(sleepq)
    <3>1. sleepq # <<>> /\ sleepq[1].qkey <= 0
      BY <1>7 DEF Overdue, firstkey
    <3>2. 1 \in DOMAIN sleepq /\ sleepq[1].qkey \in Int
      <4>1. sleepq \in KeyedLists(Pid) /\ sleepq # <<>>
        BY <1>1, <3>1
      <4>. QED  BY <4>1, FirstNode, Zenon
    <3>. QED  BY <3>1, <3>2 DEF TimerInv, Pending, Members
  <2>2. /\ Left(sleepq)[p] = 0
        /\ Left(sleepq') = [r \in Members(sleepq) \ {p} |-> Left(sleepq)[r]]
    <3>1. /\ sleepq \in KeyedLists(Pid) /\ Once(sleepq)
          /\ sleepq # <<>> /\ sleepq[1].qkey = 0
      BY <1>1, <2>1
    <3>2. /\ Left(sleepq)[sleepq[1].pid] = 0
          /\ Left(Tail(sleepq)) = LeftWithout(sleepq, sleepq[1].pid)
      BY <3>1, TailLeft, Zenon
    <3>. QED  BY <1>7, <3>2 DEF LeftWithout
  <2>3. Pending(sleepq')
    <3>1. /\ Len(sleepq) \in Nat /\ DOMAIN sleepq = 1 .. Len(sleepq)
      BY <1>1, ListNodes
    <3>2. sleepq \in Seq([pid : Pid, qkey : Int])
      BY <1>1 DEF KeyedLists
    <3>3. /\ Len(Tail(sleepq)) = Len(sleepq) - 1
          /\ Tail(sleepq) \in Seq([pid : Pid, qkey : Int])
          /\ \A i \in 1 .. Len(sleepq) - 1 : Tail(sleepq)[i] = sleepq[i + 1]
      <4>. DEFINE N == [pid : Pid, qkey : Int]
      <4>1. sleepq \in Seq(N) /\ sleepq # <<>>
        BY <2>1, <3>2
      <4>. HIDE DEF N
      <4>2. /\ Len(Tail(sleepq)) = Len(sleepq) - 1 /\ Tail(sleepq) \in Seq(N)
            /\ \A i \in 1 .. Len(sleepq) - 1 : Tail(sleepq)[i] = sleepq[i + 1]
        BY <3>1, <4>1
      <4>. QED  BY <4>2 DEF N
    <3>4. DOMAIN sleepq' = 1 .. Len(sleepq) - 1
      BY <1>7, <3>3
    <3>. QED  BY <1>7, <3>1, <3>3, <3>4 DEF TimerInv, Pending
  <2>. HIDE DEF p
  <2>4. Timers!Expire(p)
    BY SMT, SMTT(30), <1>3, <2>2 DEF Timers!Expire, Timers!Without, Timers!Delayed, Left
  <2>. QED  BY <1>2, <1>3, <1>7, <2>1, <2>3, <2>4
            DEF TimerInv, Timers!Next, Timers!Delayed, Left
<1>8. ASSUME UNCHANGED sleepq,
             pc[currpid] # "wakeup" \/ ~Overdue \/ pc'[currpid'] = "wakeup"
      PROVE  TimerInv' /\ Timers!Next
  <2>1. pc'[currpid'] # "wakeup" => FirstLater(sleepq)
    <3>1. sleepq # <<>> => sleepq[1].qkey \in Int
      BY <1>1, ListNodes
    <3>. QED  BY <1>8, <3>1 DEF TimerInv, FirstLater, Overdue, firstkey
  <2>. QED  BY <1>2, <1>8, <2>1 DEF TimerInv, Timers!Next
<1>. QED  BY <1>4, <1>5, <1>6, <1>7, <1>8, DelayStep DEF TimeStep

\* The sleep queue starts empty.
LEMMA TimersInit ==
  ASSUME Init
  PROVE  TimerInv /\ Timers!Init
<1>1. sleepq = <<>> /\ DOMAIN sleepq = {} /\ Members(sleepq) = {}
  BY DEF Init, Members
<1>2. TimerInv
  BY <1>1 DEF TimerInv, Pending, FirstLater
<1>3. Timers!Init
  BY <1>1 DEF Timers!Init
<1>. QED  BY <1>2, <1>3

\* The keys of the sleep queue stay as TimerInv says if no delay is 0: recvtime
\* accepts 0 and enters a process that is due at once.
LEMMA TimerInvariant ==
  ASSUME 0 \notin Delay
  PROVE  Spec => []TimerInv
<1>1. Init => TimerInv
  BY TimersInit
<1>2. IInv /\ TimerInv /\ [Next]_vars => TimerInv'
  BY TimersStep
<1>. QED  BY <1>1, <1>2, KernelInvariant, PTL DEF Spec

\* When user code runs no process of the sleep queue is due: wakeup awakens all
\* that are, and the relative keys of insertd and unsleep never hide one.
THEOREM NoneOverdue ==
  ASSUME 0 \notin Delay
  PROVE  Spec => []NoOverdue
<1>1. IInv /\ TimerInv => NoOverdue
  <2>. SUFFICES ASSUME IInv, TimerInv, UserMode
                PROVE  \A i \in DOMAIN sleepq : DueIn(sleepq)[i] > 0
    BY DEF NoOverdue
  <2>1. sleepq \in KeyedLists(Pid) /\ Pending(sleepq) /\ FirstLater(sleepq)
    BY DEF IInv, ListInv, SleepAgrees, TimerInv, UserMode
  <2>. QED  BY <2>1, AllLater
<1>. QED  BY <1>1, TimerInvariant, KernelInvariant, PTL

\* The delta list of sleepms, recvtime, unsleep, wakeup and the clock implements
\* one independent timer for each process: a delay lasts exactly the ticks asked
\* for, unless a message or a kill ends it.
THEOREM SleepQueueImplementsTimers ==
  ASSUME 0 \notin Delay
  PROVE  Spec => TimersImplemented
<1>1. Init => Timers!Init
  BY TimersInit
<1>2. IInv /\ TimerInv /\ [Next]_vars => [Timers!Next]_(Timers!vars)
  BY TimersStep
<1>. QED  BY <1>1, <1>2, TimerInvariant, KernelInvariant, PTL
          DEF Spec, TimersImplemented, Timers!Spec

-----------------------------------------------------------------------------
(***************************************************************************)
(* The end of the last process.                                            *)
(***************************************************************************)

\* The processes in the middle of kill.
Killing == {p \in Pid : pc[p] = "kill"}

\* The killer and the victim of a kill under way.
Pair(p) == {p, victim[p]}

\* The kill that begins has no process in common with another under way.
KillsApart ==
  pc[currpid] = "user" /\ pc'[currpid] = "kill"
    => {currpid, victim'[currpid]} \intersect (Dying \union Killing) = {}

\* Kills under way are about processes that exist, and have none in common.
PairsInv ==
  /\ \A p \in Killing : Pair(p) \subseteq Users
  /\ \A p, q \in Killing : p = q \/ Pair(p) \intersect Pair(q) = {}

\* prcount is the number of processes, the null process included, less those that
\* a kill under way has counted already.
CountInv ==
  /\ PairsInv
  /\ ~halted => prcount = Cardinality(Users) + 1 - Cardinality(Killing)
  /\ HaltsAtEnd

\* What a step does to the processes that exist, the kills under way and the count.
SameProcesses ==
  /\ Users' = Users /\ Killing' = Killing
  /\ \A p \in Killing : victim'[p] = victim[p]
  /\ prcount' = prcount /\ halted' = halted

Enters(n) ==
  /\ n \in Pid \ Users /\ Users' = Users \union {n} /\ Killing' = Killing \ {n}
  /\ \A p \in Killing \ {n} : victim'[p] = victim[p]
  /\ prcount' = prcount + 1 /\ ~halted /\ ~halted'

Begins(p, v) ==
  /\ Kill(v) \/ KillLast(v)
  /\ p \in Users \ Killing /\ v \in Users
  /\ pc[currpid] = "user" /\ pc'[currpid] = "kill" /\ p = currpid
  /\ Users' = Users /\ Killing' = Killing \union {p}
  /\ victim'[p] = v /\ \A q \in Killing : victim'[q] = victim[q]
  /\ prcount' = prcount - 1 /\ ~halted
  /\ halted' => prcount - 1 <= 1

Ends(p) ==
  /\ p \in Killing /\ Users' = Users \ {victim[p]} /\ Killing' = Killing \ {p}
  /\ \A q \in Killing \ {p} : victim'[q] = victim[q]
  /\ prcount' = prcount /\ ~halted /\ ~halted'

\* Every step is one of these.
LEMMA UserStep ==
  ASSUME IInv, [Next]_vars
  PROVE  \/ SameProcesses
         \/ \E n \in Pid : Enters(n)
         \/ \E p, v \in Pid : Begins(p, v)
         \/ \E p \in Pid : Ends(p)
<1>0. /\ prstate \in [Pid -> State] /\ currpid \in Pid /\ prstate[currpid] = "PR_CURR"
      /\ prstate[NULLPROC] \in Eligible /\ pc \in [Pid -> Place]
      /\ victim \in [Pid -> Pid] /\ prcount \in Int
  BY DEF IInv, ListInv, Running, DataOK, Eligible
<1>1. \A p \in Pid : Moved(p)
  BY StateStep
<1>2. ASSUME ~(pc[currpid] = "kill"), prcount' # prcount + 1
      PROVE  Users' = Users
  <2>1. \A p \in Pid : prstate[p] = "PR_FREE" <=> prstate'[p] = "PR_FREE"
    <3>. SUFFICES ASSUME NEW p \in Pid
                  PROVE  prstate[p] = "PR_FREE" <=> prstate'[p] = "PR_FREE"
      OBVIOUS
    <3>. QED  BY <1>0, <1>1, <1>2 DEF Moved, Eligible, Continues
  <2>. QED  BY <2>1 DEF Users
<1>3. ASSUME NEW prio \in Prio, Create(prio)
      PROVE  \E n \in Pid : Enters(n)
  <2>. DEFINE n == newpid
  <2>1. n \in Pid /\ prstate[n] = "PR_FREE"
    BY <1>3, NewpidFacts DEF Create
  <2>2. /\ prstate' = [prstate EXCEPT ![n] = "PR_SUSP"]
        /\ pc' = [pc EXCEPT ![n] = "user"]
        /\ victim' = [victim EXCEPT ![n] = NULLPROC]
        /\ prcount' = prcount + 1 /\ ~halted /\ ~halted'
    BY <1>3 DEF Create, Calls, UserMode
  <2>. HIDE DEF n
  <2>3. n \in Pid \ Users /\ Users' = Users \union {n}
    BY <1>0, <2>1, <2>2 DEF Users, Eligible
  <2>4. Killing' = Killing \ {n} /\ \A p \in Killing \ {n} : victim'[p] = victim[p]
    BY <1>0, <2>1, <2>2 DEF Killing
  <2>. QED  BY <2>1, <2>2, <2>3, <2>4 DEF Enters
<1>4. ASSUME NEW v \in Pid, Kill(v) \/ KillLast(v)
      PROVE  \E p, q \in Pid : Begins(p, q)
  <2>1. /\ pc[currpid] = "user" /\ currpid # NULLPROC /\ ~halted
        /\ v # NULLPROC /\ prstate[v] # "PR_FREE"
        /\ prcount' = prcount - 1 /\ pc' = [pc EXCEPT ![currpid] = "kill"]
        /\ victim' = [victim EXCEPT ![currpid] = v]
        /\ halted' => prcount - 1 <= 1
    BY <1>4 DEF Kill, KillLast, Calls, UserMode, GoTo
  <2>2. Users' = Users
    BY <1>0, <1>2, <2>1
  <2>3. currpid \in Users \ Killing /\ v \in Users
    BY <1>0, <2>1 DEF Users, Killing
  <2>4. /\ Killing' = Killing \union {currpid} /\ pc'[currpid] = "kill"
        /\ victim'[currpid] = v /\ \A q \in Killing : victim'[q] = victim[q]
    BY <1>0, <2>1 DEF Killing
  <2>5. Begins(currpid, v)
    BY <1>4, <2>1, <2>2, <2>3, <2>4 DEF Begins
  <2>. QED  BY <1>0, <2>5
<1>5. CASE KillSelf \/ KillSleeper \/ KillWaiter \/ KillReady \/ KillOther
  <2>1. /\ pc[currpid] = "kill" /\ ~halted /\ ~halted' /\ prcount' = prcount
        /\ pc' = [pc EXCEPT ![currpid] = "user"]
        /\ victim' = [victim EXCEPT ![currpid] = NULLPROC]
    <3>1. \E S : Removes(S)
      BY <1>5, Zenon DEF KillSelf, KillSleeper, KillWaiter, KillReady, KillOther
    <3>. QED  BY <3>1 DEF Removes, Continues, GoTo, procvars
  <2>2. Killing' = Killing \ {currpid} /\ currpid \in Killing
    BY <1>0, <2>1 DEF Killing
  <2>3. \A q \in Killing \ {currpid} : victim'[q] = victim[q]
    BY <1>0, <2>1 DEF Killing
  <2>4. prstate'[victim[currpid]] = "PR_FREE" /\ victim[currpid] \in Pid
    <3>1. Freed[victim[currpid]] = "PR_FREE" /\ victim[currpid] \in Pid
      BY <1>0 DEF Freed
    <3>2. CASE KillSelf
      BY <3>1, <3>2, SelfFreed DEF Switched
    <3>3. CASE prstate' = Freed
      BY <3>1, <3>3
    <3>. QED  BY <1>5, <3>2, <3>3 DEF KillSleeper, KillWaiter, KillReady, KillOther
  <2>5. Users' = Users \ {victim[currpid]}
    <3>1. ASSUME NEW p \in Pid, p # victim[currpid]
          PROVE  prstate[p] = "PR_FREE" <=> prstate'[p] = "PR_FREE"
      <4>1. Moved(p) /\ prcount' # prcount + 1
        BY <1>0, <1>1, <2>1
      <4>. QED  BY <1>0, <3>1, <4>1 DEF Moved, Eligible
    <3>. QED  BY <2>4, <3>1 DEF Users
  <2>. QED  BY <1>0, <2>1, <2>2, <2>3, <2>5 DEF Ends
<1>6. ASSUME UNCHANGED <<prcount, victim, halted>>, pc[currpid] # "kill",
             UNCHANGED pc \/ \E l \in Place \ {"kill"} : GoTo(l)
      PROVE  SameProcesses
  <2>1. Users' = Users
    BY <1>0, <1>2, <1>6
  <2>2. Killing' = Killing
    BY <1>0, <1>6 DEF Killing, GoTo
  <2>. QED  BY <1>6, <2>1, <2>2 DEF SameProcesses
<1>7. CASE UNCHANGED vars
  BY <1>7 DEF vars, procvars, ctlvars, runvars, SameProcesses, Users, Killing
<1>. DEFINE Other == /\ UNCHANGED <<prcount, victim, halted>> /\ pc[currpid] # "kill"
                     /\ UNCHANGED pc \/ \E l \in Place \ {"kill"} : GoTo(l)
<1>8. ASSUME ProcessCall
      PROVE  \/ \E prio \in Prio : Create(prio)
             \/ \E v \in Pid : Kill(v) \/ KillLast(v)
             \/ Other
  BY <1>8, Zenon DEF ProcessCall, CreateRefused, Resume, SuspendReady, SuspendSelf, Yield,
                     Chprio, Calls, UserMode, procvars, ctlvars
<1>9. ASSUME MessageCall \/ DelayCall
      PROVE  Other
  BY <1>9, Zenon DEF MessageCall, DelayCall, Send, Receive, ReceiveNow, Recvtime, Sleepms,
                     TakeMessage, Calls, UserMode, procvars, ctlvars, Place
<1>10. ASSUME SemaphoreCall
       PROVE  Other
  BY <1>10, Zenon DEF SemaphoreCall, Semcreate, Wait, Signal, Signaln, Semdelete, Semreset,
                      StartLoop, Calls, UserMode, procvars, ctlvars, Place
<1>11. ASSUME Tick \/ Interrupt
       PROVE  Other
  BY <1>11, Zenon DEF Tick, Interrupt, Clkhandler, ClkhandlerDue, UserMode, procvars,
                      ctlvars, Place
<1>12. ASSUME KernelStep, ~(KillSelf \/ KillSleeper \/ KillWaiter \/ KillReady \/ KillOther)
       PROVE  Other
  BY <1>12, Zenon DEF KernelStep, ReceiveResume, RecvtimeResume, TakeMessage, SignalnNext,
                      SignalnEnd, SemdeleteNext, SemdeleteEnd, SemresetNext, SemresetEnd,
                      EndLoop, WakeupNext, WakeupEnd, InterruptSignal, InterruptReturn,
                      Continues, procvars, ctlvars, Place
<1>. HIDE DEF Other
<1>13. Other => SameProcesses
  BY <1>6 DEF Other
<1>. QED  BY <1>3, <1>4, <1>5, <1>7, <1>8, <1>9, <1>10, <1>11, <1>12, <1>13
          DEF Next, Halted

\* The process table is finite.
LEMMA PidsFinite ==
  ASSUME NEW S, S \subseteq Pid
  PROVE  IsFiniteSet(S) /\ Cardinality(S) \in Nat
<1>1. IsFiniteSet(0 .. NPROC - 1)
  BY FS_Interval, TableAssumption
<1>2. IsFiniteSet(S)
  BY <1>1, FS_Subset DEF Pid
<1>. QED  BY <1>2, FS_CardinalityType

\* The processes that are dying are the victims of the kills under way.
LEMMA DyingAre == PairsInv => Dying = {victim[p] : p \in Killing}
<1>. SUFFICES ASSUME PairsInv
              PROVE  Dying = {victim[p] : p \in Killing}
  OBVIOUS
<1>1. {q \in Users : pc[q] = "kill"} = Killing
  BY DEF PairsInv, Pair, Users, Killing
<1>. QED  BY <1>1, Zenon DEF Dying

LEMMA DyingWillBe == (PairsInv => Dying = {victim[p] : p \in Killing})'
  BY DyingAre, PTL

\* Every step whose kills have no process in common with others keeps the count.
LEMMA CountStep ==
  ASSUME IInv, CountInv, [Next]_vars, [KillsApart]_vars
  PROVE  CountInv'
<1>0. /\ IsFiniteSet(Users) /\ Cardinality(Users) \in Nat
      /\ IsFiniteSet(Killing) /\ Cardinality(Killing) \in Nat
      /\ Users \subseteq Pid /\ Killing \subseteq Pid /\ prcount \in Int
      /\ \A p \in Killing : victim[p] \in Pid
  <2>1. Users \subseteq Pid /\ Killing \subseteq Pid
    BY DEF Users, Killing
  <2>. QED  BY <2>1, PidsFinite DEF IInv, DataOK
<1>1. /\ \A p \in Killing : p \in Users /\ victim[p] \in Users
      /\ \A p, q \in Killing : p = q \/ (p # victim[q] /\ q # victim[p] /\ victim[p] # victim[q])
  BY DEF CountInv, PairsInv, Pair
<1>2. ~halted => prcount = Cardinality(Users) + 1 - Cardinality(Killing)
  BY DEF CountInv
<1>3. ASSUME /\ \A p \in Killing' : p \in Users' /\ victim'[p] \in Users'
             /\ \A p, q \in Killing' : p = q \/ (p # victim'[q] /\ q # victim'[p]
                                                   /\ victim'[p] # victim'[q])
      PROVE  PairsInv'
  BY <1>3 DEF PairsInv, Pair
<1>4. Dying = {victim[p] : p \in Killing}
  BY DyingAre DEF CountInv
<1>5. ASSUME PairsInv'
      PROVE  Dying' = {victim'[p] : p \in Killing'}
  BY <1>5, DyingWillBe, Zenon
<1>6. CASE SameProcesses
  <2>1. PairsInv'
    BY <1>1, <1>3, <1>6 DEF SameProcesses
  <2>2. Dying' = Dying
    BY <1>4, <1>5, <1>6, <2>1 DEF SameProcesses
  <2>. QED  BY <1>6, <2>1, <2>2 DEF CountInv, SameProcesses, HaltsAtEnd
<1>7. ASSUME NEW n \in Pid, Enters(n)
      PROVE  CountInv'
  <2>1. n \notin Users /\ n \notin Killing
    BY <1>1, <1>7 DEF Enters
  <2>2. /\ Users' = Users \union {n} /\ Killing' = Killing
        /\ \A p \in Killing : victim'[p] = victim[p]
        /\ prcount' = prcount + 1 /\ ~halted /\ ~halted'
    BY <1>7, <2>1 DEF Enters
  <2>3. PairsInv'
    BY <1>1, <1>3, <2>2
  <2>4. Cardinality(Users') = Cardinality(Users) + 1
    BY <1>0, <2>1, <2>2, FS_AddElement
  <2>5. prcount' = Cardinality(Users') + 1 - Cardinality(Killing')
    BY <1>0, <1>2, <2>2, <2>4
  <2>. QED  BY <2>2, <2>3, <2>5 DEF CountInv, HaltsAtEnd
<1>8. ASSUME NEW p \in Pid, Ends(p)
      PROVE  CountInv'
  <2>1. /\ p \in Killing /\ Users' = Users \ {victim[p]} /\ Killing' = Killing \ {p}
        /\ \A q \in Killing \ {p} : victim'[q] = victim[q]
        /\ prcount' = prcount /\ ~halted /\ ~halted'
    BY <1>8 DEF Ends
  <2>2. PairsInv'
    BY <1>1, <1>3, <2>1
  <2>3. victim[p] \in Users
    BY <1>1, <2>1
  <2>4. Cardinality(Users') = Cardinality(Users) - 1
    BY <1>0, <2>1, <2>3, FS_RemoveElement
  <2>5. Cardinality(Killing') = Cardinality(Killing) - 1
    BY <1>0, <2>1, FS_RemoveElement
  <2>6. prcount' = Cardinality(Users') + 1 - Cardinality(Killing')
    BY <1>0, <1>2, <2>1, <2>4, <2>5
  <2>. QED  BY <2>1, <2>2, <2>6 DEF CountInv, HaltsAtEnd
<1>9. ASSUME NEW p \in Pid, NEW v \in Pid, Begins(p, v)
      PROVE  CountInv'
  <2>1. /\ p \in Users \ Killing /\ v \in Users
        /\ pc[currpid] = "user" /\ pc'[currpid] = "kill" /\ p = currpid
        /\ Users' = Users /\ Killing' = Killing \union {p}
        /\ victim'[p] = v /\ \A q \in Killing : victim'[q] = victim[q]
        /\ prcount' = prcount - 1 /\ ~halted
        /\ halted' => prcount - 1 <= 1
    BY <1>9 DEF Begins
  <2>2. KillsApart
    BY <2>1 DEF vars, ctlvars
  <2>3. {p, v} \intersect (Dying \union Killing) = {}
    BY <2>1, <2>2 DEF KillsApart
  <2>4. \A q \in Killing : p # q /\ p # victim[q] /\ v # q /\ v # victim[q]
    BY <1>4, <2>3
  <2>5. PairsInv'
    BY <1>1, <1>3, <2>1, <2>4
  <2>6. Cardinality(Killing') = Cardinality(Killing) + 1
    BY <1>0, <2>1, FS_AddElement
  <2>7. prcount' = Cardinality(Users') + 1 - Cardinality(Killing')
    BY <1>0, <1>2, <2>1, <2>6
  <2>8. ASSUME halted'
        PROVE  Users' \subseteq Dying'
    <3>. DEFINE f == [q \in Killing' |-> victim'[q]]
    <3>1. f \in Injection(Killing', Users)
      <4>1. f \in [Killing' -> Users]
        BY <2>1, <2>5 DEF PairsInv, Pair
      <4>2. \A q, r \in Killing' : f[q] = f[r] => q = r
        BY <2>5 DEF PairsInv, Pair
      <4>. QED  BY <4>1, <4>2 DEF Injection, IsInjective
    <3>2. /\ Cardinality(Killing') <= Cardinality(Users)
          /\ Cardinality(Killing') = Cardinality(Users) => f \in Surjection(Killing', Users)
      BY <1>0, <3>1, FS_Injection
    <3>3. Cardinality(Killing') = Cardinality(Users)
      BY <1>0, <1>2, <2>1, <2>6, <2>8, <3>2
    <3>4. \A u \in Users : \E q \in Killing' : f[q] = u
      BY <3>2, <3>3 DEF Surjection
    <3>5. \A u \in Users : \E q \in Killing' : victim'[q] = u
      BY <3>4
    <3>6. Dying' = {victim'[q] : q \in Killing'}
      BY <1>5, <2>5
    <3>7. Users \subseteq Dying'
      BY <3>5, <3>6
    <3>. QED  BY <2>1, <3>7
  <2>. QED  BY <2>5, <2>7, <2>8 DEF CountInv, HaltsAtEnd
<1>. QED  BY <1>6, <1>7, <1>8, <1>9, UserStep

\* At boot nobody is being killed, and prcount is the number of processes.
LEMMA CountInit ==
  ASSUME Init
  PROVE  CountInv
<1>1. NSTART \in Nat /\ NPROC \in Nat /\ NSTART <= NPROC - 1 /\ 1 <= NSTART
  BY TableAssumption
<1>2. Users = 1 .. NSTART
  BY <1>1 DEF Init, Users, Pid
<1>3. Killing = {}
  BY DEF Init, Killing
<1>4. Cardinality(Users) = NSTART
  BY <1>1, <1>2, FS_Interval
<1>5. Cardinality(Killing) = 0
  BY <1>3, FS_EmptySet
<1>6. ~halted /\ prcount = NSTART + 1
  BY DEF Init
<1>. QED  BY <1>1, <1>3, <1>4, <1>5, <1>6 DEF CountInv, PairsInv, HaltsAtEnd

\* As long as kills under way have no process in common, kill halts the system only
\* when its victim is the last user process: nobody is left who is not being killed.
\* (A process that is killed twice, or in the middle of a kill, is counted twice or
\* leaves a victim that is counted and alive.)
THEOREM HaltsWhenDone == Spec /\ [][KillsApart]_vars => []HaltsAtEnd
<1>1. Init => CountInv
  BY CountInit
<1>2. IInv /\ CountInv /\ [Next]_vars /\ [KillsApart]_vars => CountInv'
  BY CountStep
<1>3. CountInv => HaltsAtEnd
  BY DEF CountInv
<1>. QED  BY <1>1, <1>2, <1>3, KernelInvariant, PTL DEF Spec

\* Nobody waits for a message, and only the running process is in the middle of kill.
KillsAlone ==
  /\ \A p \in Pid : prstate[p] \notin {"PR_RECV", "PR_RECTIM"}
  /\ Killing \subseteq {currpid}

\* Without receivers the notice to the parent switches nobody in, so a kill is over
\* before anything else happens.
LEMMA AloneStep ==
  ASSUME ~Listens, IInv, KillsAlone, [Next]_vars
  PROVE  KillsAlone'
<1>0. pc \in [Pid -> Place] /\ currpid \in Pid
  BY DEF IInv, ListInv, Running, DataOK
<1>1. \A p \in Pid : prstate'[p] \notin {"PR_RECV", "PR_RECTIM"}
  BY StateStep DEF KillsAlone
<1>2. CASE pc[currpid] = "kill"
  <2>1. \/ UNCHANGED vars
        \/ KillSelf \/ KillSleeper \/ KillWaiter \/ KillReady \/ KillOther
    <3>1. ~ProcessCall
      BY <1>2 DEF ProcessCall, Create, CreateRefused, Resume, SuspendReady, SuspendSelf,
                  Yield, Chprio, KillLast, Kill, Calls, UserMode
    <3>2. ~(MessageCall \/ DelayCall \/ Tick \/ Interrupt)
      BY <1>2 DEF MessageCall, DelayCall, Tick, Interrupt, Send, Receive, ReceiveNow,
                  Recvtime, Sleepms, Clkhandler, ClkhandlerDue, Calls, UserMode
    <3>3. ~SemaphoreCall
      BY <1>2 DEF SemaphoreCall, Semcreate, Wait, Signal, Signaln, Semdelete, Semreset,
                  Calls, UserMode
    <3>4. ASSUME KernelStep
          PROVE  KillSelf \/ KillSleeper \/ KillWaiter \/ KillReady \/ KillOther
      BY <1>2, <3>4 DEF KernelStep, ReceiveResume, RecvtimeResume, SignalnNext, SignalnEnd,
                  SemdeleteNext, SemdeleteEnd, SemresetNext, SemresetEnd, EndLoop,
                  WakeupNext, WakeupEnd, InterruptSignal, InterruptReturn, Continues
    <3>. QED  BY <3>1, <3>2, <3>3, <3>4 DEF Next, Halted
  <2>2. CASE UNCHANGED vars
    BY <1>1, <2>2 DEF KillsAlone, Killing, vars, ctlvars, runvars
  <2>3. CASE KillSelf \/ KillSleeper \/ KillWaiter \/ KillReady \/ KillOther
    <3>1. GoTo("user")
      BY <2>3, Zenon DEF KillSelf, KillSleeper, KillWaiter, KillReady, KillOther, Removes
    <3>2. Killing' = {}
      BY <1>0, <3>1 DEF KillsAlone, Killing, GoTo
    <3>. QED  BY <1>1, <3>2 DEF KillsAlone
  <2>. QED  BY <2>1, <2>2, <2>3
<1>3. CASE pc[currpid] # "kill"
  <2>1. Killing = {}
    BY <1>3 DEF KillsAlone, Killing
  <2>2. CASE Killing' = {}
    BY <1>1, <2>2 DEF KillsAlone
  <2>3. ASSUME NEW p \in Pid, NEW v \in Pid, Begins(p, v)
        PROVE  KillsAlone'
    <3>1. Killing' = {currpid} /\ (Kill(v) \/ KillLast(v))
      BY <2>1, <2>3 DEF Begins
    <3>2. currpid' = currpid
      <4>1. CASE KillLast(v)
        BY <4>1 DEF KillLast, runvars
      <4>2. CASE Kill(v)
        <5>1. prparent[v] \in Pid
          BY DEF IInv, DataOK
        <5>2. prstate[prparent[v]] \notin {"PR_RECV", "PR_RECTIM"}
          BY <5>1 DEF KillsAlone
        <5>3. Deliver(prparent[v], v)
          BY <4>2 DEF Kill
        <5>. QED  BY <5>2, <5>3, Zenon DEF Deliver, runvars
      <4>. QED  BY <3>1, <4>1, <4>2
    <3>. QED  BY <1>1, <3>1, <3>2 DEF KillsAlone
  <2>4. SameProcesses \/ (\E n \in Pid : Enters(n)) => Killing' = {}
    BY <2>1 DEF SameProcesses, Enters
  <2>5. ~\E p \in Pid : Ends(p)
    BY <2>1 DEF Ends
  <2>. QED  BY <2>2, <2>3, <2>4, <2>5, UserStep
<1>. QED  BY <1>2, <1>3

\* Programs that wait for no messages are halted only when the last of them is killed,
\* whatever they create, suspend and kill: kill.c, "Last user process completes".
THEOREM HaltsWithoutReceivers ==
  ASSUME ~Listens
  PROVE  Spec => []HaltsAtEnd
<1>1. Init => KillsAlone
  BY DEF Init, KillsAlone, Killing
<1>2. IInv /\ KillsAlone /\ [Next]_vars => KillsAlone'
  BY AloneStep
<1>3. KillsAlone => [KillsApart]_vars
  <2>. SUFFICES ASSUME KillsAlone, pc[currpid] = "user"
                PROVE  Dying \union Killing = {}
    BY DEF KillsApart
  <2>1. Killing = {}
    BY DEF KillsAlone, Killing
  <2>2. Dying = {}
    BY <2>1 DEF Dying, Killing, Users
  <2>. QED  BY <2>1, <2>2
<1>. QED  BY <1>1, <1>2, <1>3, KernelInvariant, HaltsWhenDone, PTL DEF Spec
=============================================================================
