------------------------------- MODULE Kernel -------------------------------
(***************************************************************************)
(* The core of the kernel on its single processor: the process table, the  *)
(* scheduler with deferred rescheduling, semaphores, messages, the sleep   *)
(* queue and the clock interrupt.                                          *)
(*                                                                         *)
(* A system call runs with interrupts disabled, so what it does up to the  *)
(* next call of ctxsw (inside resched) is one atomic step.  A process that *)
(* loses the processor inside a call keeps, in pc, the place where it will *)
(* continue; while the running process is inside the kernel no interrupt   *)
(* and no other process can take a step.  The loops that run under         *)
(* deferred rescheduling are one step per iteration.                       *)
(***************************************************************************)
EXTENDS ProcQueue

CONSTANTS
  NPROC,     \* slots of proctab
  NSEM,      \* slots of semtab
  QUANTUM,   \* ticks of a time slice
  NSTART,    \* processes besides the null process that exist initially
  StartPrio, \* their priorities
  Prio,      \* priorities programs ask for
  Msg,       \* messages programs send
  Delay,     \* delays programs ask for, in ticks
  Count,     \* counts programs give to semaphores
  MaxCount,  \* bound on the count of a semaphore
  Workload   \* the system calls programs make

ASSUME TableAssumption ==
  /\ NPROC \in Nat /\ NPROC >= 2
  /\ NSEM \in Nat \ {0}
  /\ NSTART \in 1 .. NPROC - 1
ASSUME SliceAssumption == QUANTUM \in Nat \ {0}
ASSUME PrioAssumption ==
  /\ StartPrio \in [1 .. NSTART -> Nat \ {0}]
  /\ \A i, j \in 1 .. NSTART : i < j => StartPrio[i] >= StartPrio[j]
  /\ Prio \subseteq Int
ASSUME DataAssumption == Msg \subseteq Nat /\ Delay \subseteq Nat
ASSUME CountAssumption == MaxCount \in Nat /\ Count \subseteq 0 .. MaxCount

NULLPROC == 0
Pid == 0 .. NPROC - 1
Sem == 0 .. NSEM - 1

\* A message is 32 bits of data; kill sends the identifier of the victim.  NoMsg
\* stands for prhasmsg = FALSE.
NoMsg == -1
Message == Msg \union Pid

VARIABLES
  prstate, prprio, prsem, prparent,
  prmsg,      \* prmsg while prhasmsg is set, otherwise NoMsg
  currpid, readylist, sleepq, preempt, prcount,
  nextpid,    \* the static of newpid, modulo NPROC
  sstate, scount, squeue,
  nextsem,    \* the static of newsem
  Defer,
  pc,         \* where a process continues when it next runs
  victim,     \* the argument of the kill a process is executing
  loop,       \* semaphore and remaining count of the loop being executed
  halted

procvars  == <<prprio, prparent, prcount, nextpid>>
semvars   == <<sstate, scount, squeue, nextsem, prsem>>
runvars   == <<prstate, readylist, currpid, preempt>>
ctlvars   == <<pc, victim, loop, halted>>
vars == <<procvars, semvars, runvars, ctlvars, prmsg, sleepq, Defer>>

State == {"PR_FREE", "PR_CURR", "PR_READY", "PR_RECV", "PR_SLEEP", "PR_SUSP",
          "PR_WAIT", "PR_RECTIM"}
Place == {"user", "receive", "recvtime", "kill", "wakeup", "irq", "signaln",
          "semdelete", "semreset"}
NoLoop == [sem |-> 0, count |-> 0]

-----------------------------------------------------------------------------
(***************************************************************************)
(* The scheduler.                                                          *)
(***************************************************************************)

\* (Mutant: a process keeps the processor against others of its priority.)
DispatchKeepsEqual(st, rl, slice) ==
  IF st[currpid] = "PR_CURR" /\ prprio[currpid] >= firstkey(rl)
  THEN /\ prstate' = st
       /\ readylist' = rl
       /\ preempt' = slice
       /\ UNCHANGED currpid
  ELSE LET stays == st[currpid] = "PR_CURR"
           st1 == IF stays THEN [st EXCEPT ![currpid] = "PR_READY"] ELSE st
           rl1 == IF stays THEN insert(currpid, rl, prprio[currpid]) ELSE rl
       IN /\ currpid' = rl1[1].pid
          /\ prstate' = [st1 EXCEPT ![rl1[1].pid] = "PR_CURR"]
          /\ readylist' = Tail(rl1)
          /\ preempt' = QUANTUM

\* resched without deferral.  st and rl are the process states and the ready
\* list when it is called, slice the time slice the process keeps when it is
\* not switched out.
Dispatch(st, rl, slice) ==
  IF st[currpid] = "PR_CURR" /\ prprio[currpid] > firstkey(rl)
  THEN /\ prstate' = st
       /\ readylist' = rl
       /\ preempt' = slice
       /\ UNCHANGED currpid
  ELSE LET stays == st[currpid] = "PR_CURR"
           st1 == IF stays THEN [st EXCEPT ![currpid] = "PR_READY"] ELSE st
           rl1 == IF stays THEN insert(currpid, rl, prprio[currpid]) ELSE rl
       IN /\ currpid' = rl1[1].pid
          /\ prstate' = [st1 EXCEPT ![rl1[1].pid] = "PR_CURR"]
          /\ readylist' = Tail(rl1)
          /\ preempt' = QUANTUM

\* (Mutant: deferral is ignored.)
reschedAtOnce(st, rl) == Dispatch(st, rl, preempt) /\ UNCHANGED Defer

\* resched: under deferral only the attempt is recorded.
resched(st, rl) ==
  IF Defer.ndefers > 0
  THEN /\ Defer' = [Defer EXCEPT !.attempt = TRUE]
       /\ prstate' = st
       /\ readylist' = rl
       /\ UNCHANGED <<currpid, preempt>>
  ELSE /\ Dispatch(st, rl, preempt)
       /\ UNCHANGED Defer

\* (Mutant: no rescheduling.)
readyOnly(p) ==
  /\ prstate' = [prstate EXCEPT ![p] = "PR_READY"]
  /\ readylist' = insert(p, readylist, prprio[p])
  /\ UNCHANGED <<currpid, preempt, Defer>>

\* ready: make p eligible, then reschedule.
ready(p) ==
  resched([prstate EXCEPT ![p] = "PR_READY"], insert(p, readylist, prprio[p]))

\* resched_cntl(DEFER_START)
DeferStart ==
  Defer' = [ndefers |-> Defer.ndefers + 1,
            attempt |-> Defer.ndefers > 0 /\ Defer.attempt]

\* (Mutant: the attempt recorded inside is forgotten.)
DeferStopForgets ==
  /\ Defer' = [Defer EXCEPT !.ndefers = @ - 1]
  /\ UNCHANGED runvars

\* resched_cntl(DEFER_STOP)
DeferStop ==
  /\ Defer' = [Defer EXCEPT !.ndefers = @ - 1]
  /\ IF Defer.ndefers = 1 /\ Defer.attempt
     THEN Dispatch(prstate, readylist, preempt)
     ELSE UNCHANGED runvars

\* The running process executes user code, with interrupts enabled.
UserMode == ~halted /\ pc[currpid] = "user"

\* The running process may make system call c; the null process makes none.
Calls(c) == UserMode /\ currpid # NULLPROC /\ c \in Workload

\* The running process continues at place l of the kernel.
Continues(l) == ~halted /\ pc[currpid] = l

GoTo(l) == pc' = [pc EXCEPT ![currpid] = l]

-----------------------------------------------------------------------------
(***************************************************************************)
(* Processes.                                                              *)
(***************************************************************************)

FreeSlot == \E p \in Pid : prstate[p] = "PR_FREE"

\* newpid: the first free slot from nextpid on, around the table.
newpid ==
  (nextpid + Min({k \in Pid : prstate[(nextpid + k) % NPROC] = "PR_FREE"}))
    % NPROC

\* create, when the stack and a slot are available.
Create(prio) ==
  /\ Calls("create") /\ prio >= 1 /\ FreeSlot
  /\ LET p == newpid IN
       /\ prstate' = [prstate EXCEPT ![p] = "PR_SUSP"]
       /\ prprio' = [prprio EXCEPT ![p] = prio]
       /\ prsem' = [prsem EXCEPT ![p] = -1]
       /\ prparent' = [prparent EXCEPT ![p] = currpid]
       /\ prmsg' = [prmsg EXCEPT ![p] = NoMsg]
       /\ pc' = [pc EXCEPT ![p] = "user"]
       /\ victim' = [victim EXCEPT ![p] = NULLPROC]
       /\ nextpid' = (p + 1) % NPROC
  /\ prcount' = prcount + 1
  /\ UNCHANGED <<readylist, currpid, preempt, sstate, scount, squeue, nextsem,
                 sleepq, Defer, loop, halted>>

\* create with a priority that is refused after newpid took its turn.
CreateRefused(prio) ==
  /\ Calls("create") /\ prio < 1 /\ FreeSlot
  /\ nextpid' = (newpid + 1) % NPROC
  /\ UNCHANGED <<prprio, prparent, prcount, semvars, runvars, ctlvars, prmsg,
                 sleepq, Defer>>

\* (Mutants: other states than PR_SUSP are accepted.)
ResumeAny(p) ==
  /\ Calls("resume") /\ prstate[p] # "PR_FREE"
  /\ ready(p)
  /\ UNCHANGED <<procvars, semvars, ctlvars, prmsg, sleepq>>
ResumeReceiver(p) ==
  /\ Calls("resume") /\ prstate[p] \in {"PR_SUSP", "PR_RECV"}
  /\ ready(p)
  /\ UNCHANGED <<procvars, semvars, ctlvars, prmsg, sleepq>>

Resume(p) ==
  /\ Calls("resume") /\ prstate[p] = "PR_SUSP"
  /\ ready(p)
  /\ UNCHANGED <<procvars, semvars, ctlvars, prmsg, sleepq>>

\* (Mutant: the null process may be suspended.)
SuspendNull(p) ==
  /\ Calls("suspend") /\ prstate[p] = "PR_READY"
  /\ readylist' = getitem(p, readylist)
  /\ prstate' = [prstate EXCEPT ![p] = "PR_SUSP"]
  /\ UNCHANGED <<procvars, semvars, ctlvars, prmsg, sleepq, Defer, currpid,
                 preempt>>

SuspendReady(p) ==
  /\ Calls("suspend") /\ p # NULLPROC /\ prstate[p] = "PR_READY"
  /\ readylist' = getitem(p, readylist)
  /\ prstate' = [prstate EXCEPT ![p] = "PR_SUSP"]
  /\ UNCHANGED <<procvars, semvars, ctlvars, prmsg, sleepq, Defer, currpid,
                 preempt>>

SuspendSelf ==
  /\ Calls("suspend")
  /\ resched([prstate EXCEPT ![currpid] = "PR_SUSP"], readylist)
  /\ UNCHANGED <<procvars, semvars, ctlvars, prmsg, sleepq>>

Yield ==
  /\ Calls("yield")
  /\ resched(prstate, readylist)
  /\ UNCHANGED <<procvars, semvars, ctlvars, prmsg, sleepq>>

\* chprio changes the table entry and nothing else.
Chprio(p, prio) ==
  /\ Calls("chprio") /\ prstate[p] # "PR_FREE"
  /\ prprio' = [prprio EXCEPT ![p] = prio]
  /\ UNCHANGED <<prparent, prcount, nextpid, semvars, runvars, ctlvars, prmsg,
                 sleepq, Defer>>

-----------------------------------------------------------------------------
(***************************************************************************)
(* Messages.                                                               *)
(***************************************************************************)

\* (Mutants: a waiting message is overwritten; the timer is not cancelled; a
\* sleeping process is awakened too.)
DeliverOver(p, m) ==
  IF prstate[p] = "PR_FREE"
  THEN UNCHANGED <<runvars, prmsg, sleepq, Defer>>
  ELSE /\ prmsg' = [prmsg EXCEPT ![p] = m]
       /\ IF prstate[p] = "PR_RECV" THEN ready(p)
                                    ELSE UNCHANGED <<runvars, Defer>>
       /\ UNCHANGED sleepq
DeliverKeepsTimer(p, m) ==
  IF prstate[p] = "PR_FREE" \/ prmsg[p] # NoMsg
  THEN UNCHANGED <<runvars, prmsg, sleepq, Defer>>
  ELSE /\ prmsg' = [prmsg EXCEPT ![p] = m]
       /\ IF prstate[p] \in {"PR_RECV", "PR_RECTIM"}
          THEN ready(p) ELSE UNCHANGED <<runvars, Defer>>
       /\ UNCHANGED sleepq

DeliverWakes(p, m) ==
  IF prstate[p] = "PR_FREE" \/ prmsg[p] # NoMsg
  THEN UNCHANGED <<runvars, prmsg, sleepq, Defer>>
  ELSE /\ prmsg' = [prmsg EXCEPT ![p] = m]
       /\ IF prstate[p] \in {"PR_RECV", "PR_RECTIM", "PR_SLEEP"}
          THEN ready(p) ELSE UNCHANGED <<runvars, Defer>>
       /\ sleepq' = IF prstate[p] \in {"PR_RECTIM", "PR_SLEEP"}
                    THEN unsleep(p, sleepq) ELSE sleepq

\* The body of send: a message for a process that is gone or already has one
\* is dropped; a receiver that waits becomes ready.
Deliver(p, m) ==
  IF prstate[p] = "PR_FREE" \/ prmsg[p] # NoMsg
  THEN UNCHANGED <<runvars, prmsg, sleepq, Defer>>
  ELSE /\ prmsg' = [prmsg EXCEPT ![p] = m]
       /\ IF prstate[p] \in {"PR_RECV", "PR_RECTIM"}
          THEN ready(p)
          ELSE UNCHANGED <<runvars, Defer>>
       /\ sleepq' = IF prstate[p] = "PR_RECTIM"
                    THEN unsleep(p, sleepq) ELSE sleepq

Send(p, m) ==
  /\ Calls("send")
  /\ Deliver(p, m)
  /\ UNCHANGED <<procvars, semvars, ctlvars>>

\* receive without a message pending: block, to continue in ReceiveResume.
Receive ==
  /\ Calls("receive") /\ prmsg[currpid] = NoMsg
  /\ resched([prstate EXCEPT ![currpid] = "PR_RECV"], readylist)
  /\ GoTo("receive")
  /\ UNCHANGED <<procvars, semvars, victim, loop, halted, prmsg, sleepq>>

\* Take the message: the end of receive and of recvtime, and recvclr.
TakeMessage ==
  /\ prmsg' = [prmsg EXCEPT ![currpid] = NoMsg]
  /\ UNCHANGED <<procvars, semvars, runvars, victim, loop, halted, sleepq,
                 Defer>>

ReceiveResume ==
  /\ Continues("receive") /\ GoTo("user") /\ TakeMessage

\* receive, recvtime and recvclr find a message waiting.
ReceiveNow ==
  /\ Calls("receive") \/ Calls("recvtime") \/ Calls("recvclr")
  /\ prmsg[currpid] # NoMsg
  /\ TakeMessage
  /\ UNCHANGED pc

Recvtime(d) ==
  /\ Calls("recvtime") /\ prmsg[currpid] = NoMsg
  /\ sleepq' = insertd(currpid, sleepq, d)
  /\ resched([prstate EXCEPT ![currpid] = "PR_RECTIM"], readylist)
  /\ GoTo("recvtime")
  /\ UNCHANGED <<procvars, semvars, victim, loop, halted, prmsg>>

RecvtimeResume ==
  /\ Continues("recvtime") /\ GoTo("user") /\ TakeMessage

-----------------------------------------------------------------------------
(***************************************************************************)
(* kill (also exit and userret, with the caller as victim).  The parent is *)
(* told before the victim is removed, and may run in between.              *)
(***************************************************************************)

\* (Mutant: the bound of the test is off by one.)
KillLastButOne(v) ==
  /\ Calls("kill") /\ v # NULLPROC /\ prstate[v] # "PR_FREE"
  /\ prcount - 1 <= 2
  /\ prcount' = prcount - 1
  /\ halted' = TRUE
  /\ GoTo("kill")
  /\ victim' = [victim EXCEPT ![currpid] = v]
  /\ UNCHANGED <<prprio, prparent, nextpid, semvars, runvars, loop, prmsg,
                 sleepq, Defer>>

\* kill decrements prcount; for the last user process xdone halts.
KillLast(v) ==
  /\ Calls("kill") /\ v # NULLPROC /\ prstate[v] # "PR_FREE"
  /\ prcount - 1 <= 1
  /\ prcount' = prcount - 1
  /\ halted' = TRUE
  /\ GoTo("kill")
  /\ victim' = [victim EXCEPT ![currpid] = v]
  /\ UNCHANGED <<prprio, prparent, nextpid, semvars, runvars, loop, prmsg,
                 sleepq, Defer>>

\* kill up to the send that tells the parent.  The close of the victim's
\* descriptors that follows is not modelled: it belongs to the devices.
Kill(v) ==
  /\ Calls("kill") /\ v # NULLPROC /\ prstate[v] # "PR_FREE"
  /\ prcount - 1 > 1
  /\ prcount' = prcount - 1
  /\ Deliver(prparent[v], v)
  /\ GoTo("kill")
  /\ victim' = [victim EXCEPT ![currpid] = v]
  /\ UNCHANGED <<prprio, prparent, nextpid, semvars, loop, halted>>

\* The rest of kill finds the victim in one of the states in S.
Removes(S) ==
  /\ Continues("kill") /\ prstate[victim[currpid]] \in S
  /\ GoTo("user")
  /\ victim' = [victim EXCEPT ![currpid] = NULLPROC]
  /\ UNCHANGED <<procvars, prmsg, Defer, loop, halted>>

Freed == [prstate EXCEPT ![victim[currpid]] = "PR_FREE"]

KillSelf ==
  /\ Removes({"PR_CURR"})
  /\ Dispatch(Freed, readylist, preempt)
  /\ UNCHANGED <<semvars, sleepq>>

KillSleeper ==
  /\ Removes({"PR_SLEEP", "PR_RECTIM"})
  /\ sleepq' = unsleep(victim[currpid], sleepq)
  /\ prstate' = Freed
  /\ UNCHANGED <<semvars, readylist, currpid, preempt>>

\* (Mutants: the count is not adjusted; the victim stays in the queue.)
KillWaiterKeepsCount ==
  /\ Removes({"PR_WAIT"})
  /\ squeue' = [squeue EXCEPT ![prsem[victim[currpid]]]
                              = Unqueue(victim[currpid], @)]
  /\ prstate' = Freed
  /\ UNCHANGED <<scount, sstate, nextsem, prsem, readylist, currpid, preempt,
                 sleepq>>
KillWaiterStaysQueued ==
  /\ Removes({"PR_WAIT"})
  /\ scount' = [scount EXCEPT ![prsem[victim[currpid]]] = @ + 1]
  /\ prstate' = Freed
  /\ UNCHANGED <<squeue, sstate, nextsem, prsem, readylist, currpid, preempt,
                 sleepq>>

KillWaiter ==
  /\ Removes({"PR_WAIT"})
  /\ LET v == victim[currpid]
         s == prsem[v]
     IN /\ scount' = [scount EXCEPT ![s] = @ + 1]
        /\ squeue' = [squeue EXCEPT ![s] = Unqueue(v, @)]
  /\ prstate' = Freed
  /\ UNCHANGED <<sstate, nextsem, prsem, readylist, currpid, preempt, sleepq>>

\* (Mutant: the victim stays in the ready list.)
KillReadyStaysListed ==
  /\ Removes({"PR_READY"})
  /\ prstate' = Freed
  /\ UNCHANGED <<semvars, readylist, currpid, preempt, sleepq>>

KillReady ==
  /\ Removes({"PR_READY"})
  /\ readylist' = getitem(victim[currpid], readylist)
  /\ prstate' = Freed
  /\ UNCHANGED <<semvars, currpid, preempt, sleepq>>

KillOther ==
  /\ Removes({"PR_RECV", "PR_SUSP", "PR_FREE"})
  /\ prstate' = Freed
  /\ UNCHANGED <<semvars, readylist, currpid, preempt, sleepq>>

-----------------------------------------------------------------------------
(***************************************************************************)
(* Semaphores.                                                             *)
(***************************************************************************)

\* newsem: the first free entry from nextsem on, around the table.
newsem ==
  (nextsem + Min({k \in Sem : sstate[(nextsem + k) % NSEM] = "S_FREE"})) % NSEM

Semcreate(c) ==
  /\ Calls("semcreate") /\ \E s \in Sem : sstate[s] = "S_FREE"
  /\ LET s == newsem IN
       /\ sstate' = [sstate EXCEPT ![s] = "S_USED"]
       /\ scount' = [scount EXCEPT ![s] = c]
       /\ nextsem' = (s + 1) % NSEM
  /\ UNCHANGED <<squeue, prsem, procvars, runvars, ctlvars, prmsg, sleepq,
                 Defer>>

\* (Mutant: the process is put at the head of the queue.)
WaitAtHead(s) ==
  /\ Calls("wait") /\ sstate[s] = "S_USED"
  /\ scount' = [scount EXCEPT ![s] = @ - 1]
  /\ IF scount[s] - 1 < 0
     THEN /\ prsem' = [prsem EXCEPT ![currpid] = s]
          /\ squeue' = [squeue EXCEPT ![s] = <<currpid>> \o @]
          /\ resched([prstate EXCEPT ![currpid] = "PR_WAIT"], readylist)
     ELSE UNCHANGED <<prsem, squeue, runvars, Defer>>
  /\ UNCHANGED <<sstate, nextsem, procvars, ctlvars, prmsg, sleepq>>

Wait(s) ==
  /\ Calls("wait") /\ sstate[s] = "S_USED"
  /\ scount' = [scount EXCEPT ![s] = @ - 1]
  /\ IF scount[s] - 1 < 0
     THEN /\ prsem' = [prsem EXCEPT ![currpid] = s]
          /\ squeue' = [squeue EXCEPT ![s] = Append(@, currpid)]
          /\ resched([prstate EXCEPT ![currpid] = "PR_WAIT"], readylist)
     ELSE UNCHANGED <<prsem, squeue, runvars, Defer>>
  /\ UNCHANGED <<sstate, nextsem, procvars, ctlvars, prmsg, sleepq>>

\* One increment of the count, releasing the first waiter if there is one.
Release(s) ==
  /\ scount' = [scount EXCEPT ![s] = @ + 1]
  /\ IF scount[s] < 0
     THEN /\ squeue' = [squeue EXCEPT ![s] = Tail(@)]
          /\ ready(squeue[s][1])
     ELSE UNCHANGED <<squeue, runvars, Defer>>

Signal(s) ==
  /\ Calls("signal") /\ sstate[s] = "S_USED" /\ scount[s] < MaxCount
  /\ Release(s)
  /\ UNCHANGED <<sstate, nextsem, prsem, procvars, ctlvars, prmsg, sleepq>>

\* The calls that release several waiters: place l, semaphore s, argument n.
StartLoop(l, s, n) ==
  /\ DeferStart
  /\ GoTo(l)
  /\ loop' = [sem |-> s, count |-> n]
  /\ UNCHANGED <<victim, halted, procvars, runvars, scount, squeue, nextsem,
                 prsem, prmsg, sleepq>>

EndLoop(l) ==
  /\ Continues(l)
  /\ DeferStop
  /\ GoTo("user")
  /\ loop' = NoLoop
  /\ UNCHANGED <<victim, halted, procvars, sstate, squeue, nextsem, prsem,
                 prmsg, sleepq>>

Signaln(s, n) ==
  /\ Calls("signaln") /\ sstate[s] = "S_USED" /\ scount[s] + n <= MaxCount
  /\ StartLoop("signaln", s, n)
  /\ UNCHANGED sstate

SignalnNext ==
  /\ Continues("signaln") /\ loop.count > 0
  /\ Release(loop.sem)
  /\ loop' = [loop EXCEPT !.count = @ - 1]
  /\ UNCHANGED <<sstate, nextsem, prsem, procvars, pc, victim, halted, prmsg,
                 sleepq>>

SignalnEnd == loop.count = 0 /\ EndLoop("signaln") /\ UNCHANGED scount

Semdelete(s) ==
  /\ Calls("semdelete") /\ sstate[s] = "S_USED"
  /\ sstate' = [sstate EXCEPT ![s] = "S_FREE"]
  /\ StartLoop("semdelete", s, 0)

SemdeleteNext ==
  /\ Continues("semdelete") /\ scount[loop.sem] < 0
  /\ Release(loop.sem)
  /\ UNCHANGED <<sstate, nextsem, prsem, procvars, ctlvars, prmsg, sleepq>>

\* The test that ends the loop of semdelete increments the count once more.
SemdeleteEnd ==
  /\ scount[loop.sem] >= 0
  /\ EndLoop("semdelete")
  /\ scount' = [scount EXCEPT ![loop.sem] = @ + 1]

Semreset(s, c) ==
  /\ Calls("semreset") /\ sstate[s] = "S_USED"
  /\ StartLoop("semreset", s, c)
  /\ UNCHANGED sstate

SemresetNext ==
  /\ Continues("semreset") /\ squeue[loop.sem] # <<>>
  /\ squeue' = [squeue EXCEPT ![loop.sem] = Tail(@)]
  /\ ready(squeue[loop.sem][1])
  /\ UNCHANGED <<sstate, scount, nextsem, prsem, procvars, ctlvars, prmsg,
                 sleepq>>

SemresetEnd ==
  /\ squeue[loop.sem] = <<>>
  /\ EndLoop("semreset")
  /\ scount' = [scount EXCEPT ![loop.sem] = loop.count]

-----------------------------------------------------------------------------
(***************************************************************************)
(* Delays and the clock interrupt.                                         *)
(***************************************************************************)

\* sleepms with a positive delay; with delay 0 it is Yield.
Sleepms(d) ==
  /\ Calls("sleepms") /\ d > 0
  /\ sleepq' = insertd(currpid, sleepq, d)
  /\ resched([prstate EXCEPT ![currpid] = "PR_SLEEP"], readylist)
  /\ UNCHANGED <<procvars, semvars, ctlvars, prmsg>>

\* (Mutant: the last tick of a delay is not counted.)
TickedAboveOne ==
  IF sleepq = <<>> \/ firstkey(sleepq) <= 1
  THEN sleepq ELSE [sleepq EXCEPT ![1].qkey = @ - 1]

\* The sleep queue after a tick: the first node is one tick closer.
Ticked ==
  IF sleepq = <<>> THEN sleepq ELSE [sleepq EXCEPT ![1].qkey = @ - 1]

\* Some process is due at this tick.
Due == sleepq # <<>> /\ Ticked[1].qkey = 0

\* (Mutant: the slice is not renewed.)
ReturnUnrenewed(attempt) ==
  LET wanted == attempt \/ preempt - 1 = 0
  IN /\ Defer' = [ndefers |-> 0, attempt |-> wanted]
     /\ IF wanted
        THEN Dispatch(prstate, readylist, preempt - 1)
        ELSE /\ preempt' = preempt - 1
             /\ UNCHANGED <<prstate, readylist, currpid>>

\* (Mutant: the attempt recorded inside wakeup is forgotten.)
ReturnForgets(attempt) ==
  LET slice == IF preempt - 1 = 0 THEN QUANTUM ELSE preempt - 1
      wanted == preempt - 1 = 0
  IN /\ Defer' = [ndefers |-> 0, attempt |-> wanted]
     /\ IF wanted
        THEN Dispatch(prstate, readylist, slice)
        ELSE /\ preempt' = slice
             /\ UNCHANGED <<prstate, readylist, currpid>>

\* The end of clkhandler, which ends the time slice, and of irq_dispatch, which
\* deferred rescheduling until then.
ClkReturn(attempt) ==
  LET slice == IF preempt - 1 = 0 THEN QUANTUM ELSE preempt - 1
      wanted == attempt \/ preempt - 1 = 0
  IN /\ Defer' = [ndefers |-> 0, attempt |-> wanted]
     /\ IF wanted
        THEN Dispatch(prstate, readylist, slice)
        ELSE /\ preempt' = slice
             /\ UNCHANGED <<prstate, readylist, currpid>>

\* A clock interrupt at which no process is due.
Clkhandler ==
  /\ UserMode /\ ~Due
  /\ sleepq' = Ticked
  /\ ClkReturn(FALSE)
  /\ UNCHANGED <<procvars, semvars, ctlvars, prmsg>>

\* A clock interrupt that calls wakeup: two nested deferrals.
ClkhandlerDue ==
  /\ UserMode /\ Due
  /\ sleepq' = Ticked
  /\ Defer' = [ndefers |-> 2, attempt |-> FALSE]
  /\ GoTo("wakeup")
  /\ UNCHANGED <<procvars, semvars, runvars, victim, loop, halted, prmsg>>

\* (Mutant: the test of wakeup is off by one.)
OverdueStrictly == sleepq # <<>> /\ firstkey(sleepq) < 0

\* The first process of the sleep queue has no more time to sleep.
Overdue == sleepq # <<>> /\ firstkey(sleepq) <= 0

WakeupNext ==
  /\ Continues("wakeup") /\ Overdue
  /\ sleepq' = Tail(sleepq)
  /\ ready(sleepq[1].pid)
  /\ UNCHANGED <<procvars, semvars, ctlvars, prmsg>>

WakeupEnd ==
  /\ Continues("wakeup") /\ ~Overdue
  /\ GoTo("user")
  /\ ClkReturn(Defer.attempt)
  /\ UNCHANGED <<procvars, semvars, victim, loop, halted, prmsg, sleepq>>

-----------------------------------------------------------------------------
(***************************************************************************)
(* Device interrupts: irq_dispatch defers rescheduling while the handler   *)
(* runs, on behalf of whatever process is current, and the handler signals *)
(* semaphores.                                                             *)
(***************************************************************************)

Interrupt ==
  /\ UserMode /\ "irq" \in Workload
  /\ DeferStart
  /\ GoTo("irq")
  /\ UNCHANGED <<procvars, semvars, runvars, victim, loop, halted, prmsg, sleepq>>

InterruptSignal(s) ==
  /\ Continues("irq") /\ sstate[s] = "S_USED" /\ scount[s] < MaxCount
  /\ Release(s)
  /\ UNCHANGED <<sstate, nextsem, prsem, procvars, ctlvars, prmsg, sleepq>>

InterruptReturn ==
  /\ Continues("irq")
  /\ DeferStop
  /\ GoTo("user")
  /\ UNCHANGED <<procvars, semvars, victim, loop, halted, prmsg, sleepq>>

\* halt never returns.
Halted == halted /\ UNCHANGED vars

-----------------------------------------------------------------------------

\* The state once the boot has started NSTART processes (startup, netin, ipout,
\* main, the shell) and the one with the highest priority runs.
Init ==
  /\ prstate = [p \in Pid |-> IF p = 1 THEN "PR_CURR"
                              ELSE IF p <= NSTART THEN "PR_READY" ELSE "PR_FREE"]
  /\ prprio = [p \in Pid |-> IF p \in 1 .. NSTART THEN StartPrio[p] ELSE 0]
  /\ prsem = [p \in Pid |-> IF p \in 1 .. NSTART THEN -1 ELSE 0]
  /\ prparent = [p \in Pid |-> IF p \in 2 .. NSTART THEN 1 ELSE NULLPROC]
  /\ prmsg = [p \in Pid |-> NoMsg]
  /\ currpid = 1
  /\ readylist = [i \in 1 .. NSTART |->
                    IF i < NSTART THEN Node(i + 1, StartPrio[i + 1])
                    ELSE Node(NULLPROC, 0)]
  /\ sleepq = <<>>
  /\ preempt = QUANTUM
  /\ prcount = NSTART + 1
  /\ nextpid = (NSTART + 1) % NPROC
  /\ sstate = [s \in Sem |-> "S_FREE"]
  /\ scount = [s \in Sem |-> 0]
  /\ squeue = [s \in Sem |-> <<>>]
  /\ nextsem = 0
  /\ Defer = [ndefers |-> 0, attempt |-> FALSE]
  /\ pc = [p \in Pid |-> "user"]
  /\ victim = [p \in Pid |-> NULLPROC]
  /\ loop = NoLoop
  /\ halted = FALSE

ProcessCall ==
  \/ \E prio \in Prio : Create(prio)
  \/ \E prio \in Prio : CreateRefused(prio)
  \/ \E p \in Pid : Resume(p)
  \/ \E p \in Pid : SuspendReady(p)
  \/ SuspendSelf
  \/ Yield
  \/ \E p \in Pid, prio \in Prio : Chprio(p, prio)
  \/ \E v \in Pid : KillLast(v)
  \/ \E v \in Pid : Kill(v)

MessageCall ==
  \/ \E p \in Pid, m \in Msg : Send(p, m)
  \/ Receive
  \/ ReceiveNow
  \/ \E d \in Delay : Recvtime(d)

SemaphoreCall ==
  \/ \E c \in Count : Semcreate(c)
  \/ \E s \in Sem : Wait(s)
  \/ \E s \in Sem : Signal(s)
  \/ \E s \in Sem, n \in Count : Signaln(s, n)
  \/ \E s \in Sem : Semdelete(s)
  \/ \E s \in Sem, c \in Count : Semreset(s, c)

DelayCall == \E d \in Delay : Sleepms(d)

Tick == Clkhandler \/ ClkhandlerDue

\* What the running process does inside the kernel, interrupts disabled.
KernelStep ==
  \/ ReceiveResume \/ RecvtimeResume
  \/ KillSelf \/ KillSleeper \/ KillWaiter \/ KillReady \/ KillOther
  \/ SignalnNext \/ SignalnEnd
  \/ SemdeleteNext \/ SemdeleteEnd
  \/ SemresetNext \/ SemresetEnd
  \/ WakeupNext \/ WakeupEnd
  \/ \E s \in Sem : InterruptSignal(s)
  \/ InterruptReturn

Next ==
  ProcessCall \/ MessageCall \/ SemaphoreCall \/ DelayCall
    \/ Tick \/ Interrupt \/ KernelStep \/ Halted

Spec == Init /\ [][Next]_vars

-----------------------------------------------------------------------------
(***************************************************************************)
(* Correctness.                                                            *)
(***************************************************************************)

\* Every variable has its type: the tables, the lists and the places where
\* processes continue (process.h, semaphore.h, queue.h).
TypeOK ==
  /\ prstate \in [Pid -> State]
  /\ prprio \in [Pid -> Int]
  /\ prsem \in [Pid -> Sem \union {-1}]
  /\ prparent \in [Pid -> Pid]
  /\ prmsg \in [Pid -> Message \union {NoMsg}]
  /\ currpid \in Pid
  /\ readylist \in KeyedLists(Pid)
  /\ sleepq \in KeyedLists(Pid)
  /\ preempt \in 1 .. QUANTUM
  /\ prcount \in Int
  /\ nextpid \in Pid
  /\ sstate \in [Sem -> {"S_FREE", "S_USED"}]
  /\ scount \in [Sem -> Int]
  /\ squeue \in [Sem -> Seq(Pid)]
  /\ nextsem \in Sem
  /\ Defer \in [ndefers : Nat, attempt : BOOLEAN]
  /\ pc \in [Pid -> Place]
  /\ victim \in [Pid -> Pid]
  /\ loop \in [sem : Sem, count : 0 .. MaxCount]
  /\ halted \in BOOLEAN

\* Whatever calls, kills and interrupts interleave, a process is in exactly the
\* list its state names and in no other: one process is current, the ready
\* ones are in the ready list, the delayed ones in the sleep queue, and those
\* that wait in the queue of the semaphore recorded in prsem.
QueueInv ==
  /\ \A p \in Pid : prstate[p] = "PR_CURR" <=> p = currpid
  /\ \A p \in Pid : prstate[p] = "PR_READY" <=> p \in Members(readylist)
  /\ \A p \in Pid : prstate[p] \in {"PR_SLEEP", "PR_RECTIM"}
                      <=> p \in Members(sleepq)
  /\ \A p \in Pid, s \in Sem :
       prstate[p] = "PR_WAIT" /\ prsem[p] = s
         <=> \E i \in DOMAIN squeue[s] : squeue[s][i] = p
  /\ \A p \in Pid : prstate[p] = "PR_WAIT" => prsem[p] \in Sem
  /\ Once(readylist) /\ Once(sleepq)
  /\ \A s \in Sem : \A i, j \in DOMAIN squeue[s] :
       squeue[s][i] = squeue[s][j] => i = j

\* The semaphore being reset, whose count is out of date until the loop ends.
Resetting(s) == pc[currpid] = "semreset" /\ loop.sem = s

\* The semaphore being deleted, whose waiters are being released.
Deleting(s) == pc[currpid] = "semdelete" /\ loop.sem = s

\* A negative count is the number of waiting processes, a nonnegative one means
\* that none waits, through kills of waiters, deletion, reset and reuse of the
\* entry (semaphore.h: scount, squeue); an entry that is free has no waiters, so
\* semcreate starts with an empty queue.
SemInv ==
  /\ \A s \in Sem : ~Resetting(s) =>
       Len(squeue[s]) = IF scount[s] < 0 THEN -scount[s] ELSE 0
  /\ \A s \in Sem : sstate[s] = "S_FREE" /\ ~Deleting(s) => squeue[s] = <<>>

\* The null process can always run, so resched never finds the ready list empty.
NullEligible == prstate[NULLPROC] \in {"PR_READY", "PR_CURR"}

\* Keys of the ready list do not increase, so its first node has the highest
\* priority.
ReadySorted ==
  \A i, j \in DOMAIN readylist :
    i < j => readylist[i].qkey >= readylist[j].qkey

\* When user code runs, no eligible process has a higher priority than the
\* running one (resched.c, "highest priority eligible process").
HighestPriorityRuns ==
  UserMode => \A p \in Pid : prstate[p] = "PR_READY" =>
                               prprio[p] <= prprio[currpid]

Deferring == {"signaln", "semdelete", "semreset", "irq", "wakeup"}

\* Rescheduling is deferred exactly while the running process is in the loop of
\* signaln, semdelete or semreset or in an interrupt (twice in wakeup), and no
\* other process was switched out there: the deferral count is balanced
\* whatever process the loop makes ready.
DeferInv ==
  /\ Defer.ndefers = IF pc[currpid] \notin Deferring THEN 0
                     ELSE IF pc[currpid] = "wakeup" THEN 2 ELSE 1
  /\ \A p \in Pid \ {currpid} : pc[p] \notin Deferring

\* A process that returns from receive has a message, although others sent,
\* killed, created and resumed since it was made ready, or it was itself
\* suspended and resumed in between: receive takes it without a test.
ReceiveHasMessage == Continues("receive") => prmsg[currpid] # NoMsg

\* A message that was accepted stays as it is until its receiver runs and takes it
\* (receive, recvtime, recvclr), or until create takes the entry of a process that
\* was killed: neither another send nor the notices of kill replace it or lose it.
MessageStays ==
  [][\A p \in Pid : prmsg[p] # NoMsg =>
       \/ prmsg'[p] = prmsg[p]
       \/ prmsg'[p] = NoMsg /\ (p = currpid \/ prstate[p] = "PR_FREE")]_vars

Eligible == {"PR_READY", "PR_CURR"}

\* The edges of the state diagram of a process, with what must be true for the
\* process to take them.
Moved(p) ==
  LET old == prstate[p]
      new == prstate'[p]
  IN \/ new = old
     \/ old \in Eligible /\ new \in Eligible
     \/ old = "PR_READY" /\ new = "PR_SUSP"
     \/ p = currpid /\ UserMode
          /\ new \in {"PR_SUSP", "PR_WAIT", "PR_SLEEP", "PR_RECV", "PR_RECTIM"}
     \/ old \in {"PR_SUSP", "PR_WAIT"} /\ new \in Eligible
     \/ old \in {"PR_RECV", "PR_RECTIM"} /\ prmsg'[p] # NoMsg /\ new \in Eligible
     \/ old \in {"PR_SLEEP", "PR_RECTIM"} /\ Continues("wakeup") /\ new \in Eligible
     \/ old = "PR_FREE" /\ new = "PR_SUSP" /\ pc'[p] = "user" /\ prcount' = prcount + 1
     \/ new = "PR_FREE" /\ Continues("kill") /\ victim[currpid] = p

\* A process changes its state only along the edges of the diagram (process.h),
\* whoever runs: nobody but itself blocks it, except that a ready process can be
\* suspended; a sleeper continues when its time is over, a receiver with a message
\* or when its time is over, and only a kill of that process frees its entry,
\* whatever state it reached since the kill began.
StateDiagram == [][\A p \in Pid : Moved(p)]_vars

\* The user processes, and those of them that some kill is removing.
Users == {p \in Pid \ {NULLPROC} : prstate[p] # "PR_FREE"}
Dying == {victim[p] : p \in {q \in Users : pc[q] = "kill"}}

\* The system halts only when the last user process is killed (kill.c, "Last
\* user process completes").
HaltsAtEnd == halted => Users \subseteq Dying

\* When a process is dispatched no eligible process has a higher priority
\* (resched.c, "Reschedule processor to highest priority eligible process").
DispatchesHighest ==
  [][currpid' # currpid =>
       \A p \in Pid : prstate'[p] = "PR_READY" => prprio'[p] <= prprio'[currpid']
    ]_vars

\* Process p is in queue q, and process p is before process r in it.
Waits(p, q) == \E i \in DOMAIN q : q[i] = p
Before(p, r, q) == \E i, j \in DOMAIN q : i < j /\ q[i] = p /\ q[j] = r

\* Waiters of a semaphore are served in the order in which they came.  Who waits
\* is never overtaken: a step of wait puts the newcomer behind everybody and no
\* step changes the order of the others.  And nobody leaves before one who came
\* earlier and still waits, whether signal, signaln, semdelete, semreset or an
\* interrupt releases them, unless kill removes it.
SemFifo ==
  [][\A s \in Sem : \A p, r \in Pid :
       /\ Waits(r, squeue[s]) /\ Before(p, r, squeue'[s]) => Before(p, r, squeue[s])
       /\ Before(p, r, squeue[s]) /\ Waits(p, squeue'[s]) /\ ~Waits(r, squeue'[s])
            => prstate'[r] = "PR_FREE"]_vars

\* When user code runs every process in the sleep queue still has time to
\* sleep (wakeup.c, "Awaken all processes that have no more time to sleep").
NoOverdue == UserMode => \A i \in DOMAIN sleepq : DueIn(sleepq)[i] > 0

\* A process that has no more time to sleep was awakened when its time ended:
\* when user code runs no process in the sleep queue is past its time (wakeup.c,
\* "Awaken all processes that have no more time to sleep").
NonePastDue == UserMode => \A i \in DOMAIN sleepq : DueIn(sleepq)[i] >= 0

\* The sleep queue implements one independent timer for each process.
Timers ==
  INSTANCE DelayTimers WITH
    Proc <- Pid,
    Length <- Delay,
    remaining <- [p \in Members(sleepq) |-> DueIn(sleepq)[PosOf(p, sleepq)]],
    excused <- {p \in Pid : prstate[p] = "PR_FREE" \/ prmsg[p] # NoMsg}

\* sleepms, recvtime, send, kill and the clock implement DelayTimers: whatever other
\* delays begin or end, a tick counts for all delayed processes or for none, and
\* no delay ends before as many ticks as were asked for have counted, unless a
\* message or a kill ends it.
TimersImplemented == Timers!Spec

\* The timer interrupt stays latched until interrupts are enabled again, and the
\* running process does not stop inside the kernel.
Fairness == SF_vars(Tick) /\ WF_vars(KernelStep)

FairSpec == Spec /\ Fairness

\* A process that is eligible with the highest priority is not left waiting for
\* the processor forever by others of that priority: the time slice ends.
NoStarvation ==
  \A p \in Pid :
    []<>( \/ halted
          \/ prstate[p] # "PR_READY"
          \/ \E q \in Members(readylist) \union {currpid} : prprio[q] > prprio[p] )

\* A delayed process becomes eligible again (or is killed).
DelayEnds ==
  \A p \in Pid :
    prstate[p] \in {"PR_SLEEP", "PR_RECTIM"} ~>
      halted \/ prstate[p] \notin {"PR_SLEEP", "PR_RECTIM"}
=============================================================================
