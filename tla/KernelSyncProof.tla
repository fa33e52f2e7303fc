-------------------------- MODULE KernelSyncProof ---------------------------
(***************************************************************************)
(* kill, semaphores, the loops that defer rescheduling, delays and         *)
(* interrupts: each of their steps preserves the inductive invariant, too. *)
(* The invariant, and the theorems that follow from it at once.            *)
(***************************************************************************)
EXTENDS KernelCallProof

USE DEF NULLPROC

-----------------------------------------------------------------------------
(***************************************************************************)
(* kill.                                                                   *)
(***************************************************************************)

LEMMA KillLastInv ==
  ASSUME IInv, NEW v \in Pid, KillLast(v)
  PROVE  IInv'
<1>1. Quiet /\ CountsAgree(sstate, scount, squeue)
  BY QuietFacts DEF KillLast, Calls, UserMode, Deferring
<1>2. /\ currpid \in Pid /\ pc' = [pc EXCEPT ![currpid] = "kill"]
      /\ victim' = [victim EXCEPT ![currpid] = v] /\ v # NULLPROC
  BY DEF KillLast, GoTo, IInv, ListInv, Running
<1>3. ListInv'
  BY DEF KillLast, IInv, ListInv, Running, semvars, runvars
<1>4. DataOK'
  BY <1>2 DEF KillLast, IInv, DataOK, semvars, Place
<1>5. Quiet' /\ KillInv' /\ CountsAgree(sstate', scount', squeue')
  BY <1>1, <1>2 DEF KillLast, IInv, DataOK, Quiet, KillInv, Deferring, semvars
<1>. QED  BY <1>3, <1>4, <1>5, QuietStep

\* The first half of kill counts the victim and tells the parent.
LEMMA KillFirstInv ==
  ASSUME IInv, NEW v \in Pid, Kill(v)
  PROVE  IInv'
<1>1. Quiet /\ CountsAgree(sstate, scount, squeue)
  BY QuietFacts DEF Kill, Calls, UserMode, Deferring
<1>2. /\ Running' /\ ReadyAgrees(prstate', readylist')
      /\ SleepAgrees(prstate', sleepq') /\ WaitAgrees(prstate', prsem, squeue)
      /\ prmsg' \in [Pid -> Message \union {NoMsg}]
      /\ Defer' \in [ndefers : Nat, attempt : BOOLEAN]
      /\ Defer'.ndefers = Defer.ndefers
  <2>1. prparent[v] \in Pid /\ v \in Message
    BY DEF IInv, DataOK, Message
  <2>. QED  BY <2>1, DeliverFacts DEF Kill
<1>3. /\ currpid \in Pid /\ pc' = [pc EXCEPT ![currpid] = "kill"]
      /\ victim' = [victim EXCEPT ![currpid] = v] /\ v # NULLPROC
  BY DEF Kill, GoTo, IInv, ListInv, Running
<1>4. ListInv'
  BY <1>2 DEF Kill, ListInv, semvars
<1>5. DataOK'
  BY <1>2, <1>3, SMT, SMTT(30) DEF Kill, IInv, DataOK, semvars, Place
<1>6. Quiet' /\ KillInv' /\ CountsAgree(sstate', scount', squeue')
  BY <1>1, <1>2, <1>3 DEF Kill, IInv, DataOK, Quiet, KillInv, Deferring, semvars
<1>. QED  BY <1>4, <1>5, <1>6, QuietStep

\* The end of kill frees a process other than the null process.
LEMMA RemovesFacts ==
  ASSUME IInv, NEW S, Removes(S)
  PROVE  /\ Quiet /\ CountsAgree(sstate, scount, squeue)
         /\ currpid \in Pid /\ victim[currpid] \in Pid \ {NULLPROC}
         /\ prstate[victim[currpid]] \in S
         /\ Freed \in [Pid -> State]
         /\ \A p \in Pid : Freed[p] = IF p = victim[currpid] THEN "PR_FREE"
                                                             ELSE prstate[p]
         /\ Defer' = Defer
         /\ Quiet' /\ KillInv'
         /\ (sstate' \in [Sem -> {"S_FREE", "S_USED"}] /\ scount' \in [Sem -> Int]
              /\ nextsem' \in Sem) => DataOK'
<1>1. Quiet /\ CountsAgree(sstate, scount, squeue)
  BY QuietFacts DEF Removes, Continues, Deferring
<1>2. /\ currpid \in Pid /\ pc[currpid] = "kill" /\ victim[currpid] \in Pid \ {NULLPROC}
      /\ prstate[victim[currpid]] \in S
      /\ pc' = [pc EXCEPT ![currpid] = "user"]
      /\ victim' = [victim EXCEPT ![currpid] = NULLPROC]
      /\ UNCHANGED <<procvars, prmsg, Defer, loop, halted>>
  BY DEF Removes, Continues, GoTo, IInv, ListInv, Running, DataOK, KillInv
<1>3. /\ Freed \in [Pid -> State]
      /\ \A p \in Pid : Freed[p] = IF p = victim[currpid] THEN "PR_FREE"
                                                          ELSE prstate[p]
  BY <1>2 DEF Freed, IInv, ListInv, Running, State
<1>4. Quiet' /\ KillInv'
  BY <1>1, <1>2 DEF IInv, DataOK, Quiet, KillInv, Deferring
<1>5. (sstate' \in [Sem -> {"S_FREE", "S_USED"}] /\ scount' \in [Sem -> Int]
        /\ nextsem' \in Sem) => DataOK'
  BY <1>2, NullIsPid DEF IInv, DataOK, procvars, Place
<1>. QED  BY <1>1, <1>2, <1>3, <1>4, <1>5

\* kill of the caller itself frees its entry and never returns.
LEMMA KillSelfInv ==
  ASSUME IInv, KillSelf
  PROVE  IInv'
<1>. DEFINE v == victim[currpid]
<1>1. /\ Quiet /\ CountsAgree(sstate, scount, squeue)
      /\ currpid \in Pid /\ v \in Pid \ {NULLPROC} /\ prstate[v] = "PR_CURR"
      /\ Freed \in [Pid -> State]
      /\ \A p \in Pid : Freed[p] = IF p = v THEN "PR_FREE" ELSE prstate[p]
      /\ Quiet' /\ KillInv' /\ DataOK'
      /\ UNCHANGED <<semvars, sleepq>>
  <2>1. Removes({"PR_CURR"}) /\ UNCHANGED <<semvars, sleepq>>
    BY DEF KillSelf
  <2>2. /\ sstate' \in [Sem -> {"S_FREE", "S_USED"}] /\ scount' \in [Sem -> Int]
        /\ nextsem' \in Sem
    BY <2>1 DEF IInv, DataOK, semvars
  <2>. QED  BY <2>1, <2>2, RemovesFacts
<1>2. v = currpid
  BY <1>1 DEF IInv, ListInv, Running
<1>. HIDE DEF v
<1>3. MayRun(Freed) /\ ReadyAgrees(Freed, readylist)
  <2>1. MayRun(Freed)
    BY <1>1, <1>2, NullIsPid DEF IInv, ListInv, Running, MayRun
  <2>2. ReadyAgrees(Freed, readylist)
    BY <1>1 DEF IInv, ListInv, ReadyAgrees
  <2>. QED  BY <2>1, <2>2
<1>4. SleepAgrees(Freed, sleepq)
  BY <1>1 DEF IInv, ListInv, SleepAgrees
<1>5. WaitAgrees(Freed, prsem, squeue)
  <2>1. \A p \in Pid : Freed[p] = "PR_WAIT" <=> prstate[p] = "PR_WAIT"
    BY <1>1
  <2>. QED  BY <2>1, SMT, SMTT(30) DEF IInv, ListInv, WaitAgrees
<1>6. /\ Running' /\ ReadyAgrees(prstate', readylist')
      /\ SleepAgrees(prstate', sleepq) /\ WaitAgrees(prstate', prsem, squeue)
  <2>1. preempt \in 1 .. QUANTUM /\ prprio \in [Pid -> Int]
    BY DEF IInv, ListInv, Running, DataOK
  <2>2. Dispatch(Freed, readylist, preempt)
    BY DEF KillSelf
  <2>. HIDE DEF Freed
  <2>. QED  BY <1>1, <1>3, <1>4, <1>5, <2>1, <2>2, DispatchFacts
<1>. QED  BY <1>1, <1>6, QuietStep DEF ListInv, semvars

\* kill of a process in the sleep queue unsleeps it.
LEMMA KillSleeperInv ==
  ASSUME IInv, KillSleeper
  PROVE  IInv'
<1>. DEFINE v == victim[currpid]
<1>1. Removes({"PR_SLEEP", "PR_RECTIM"}) /\ prstate' = Freed
      /\ sleepq' = unsleep(v, sleepq)
      /\ UNCHANGED <<semvars, readylist, currpid, preempt>>
  BY DEF KillSleeper
<1>2. /\ sstate' \in [Sem -> {"S_FREE", "S_USED"}] /\ scount' \in [Sem -> Int]
      /\ nextsem' \in Sem
  BY <1>1 DEF IInv, DataOK, semvars
<1>3. /\ Quiet /\ CountsAgree(sstate, scount, squeue)
      /\ currpid \in Pid /\ v \in Pid \ {NULLPROC}
      /\ prstate[v] \in {"PR_SLEEP", "PR_RECTIM"}
      /\ prstate' \in [Pid -> State]
      /\ \A p \in Pid : prstate'[p] = IF p = v THEN "PR_FREE" ELSE prstate[p]
      /\ Quiet' /\ KillInv' /\ DataOK'
  BY <1>1, <1>2, RemovesFacts
<1>. HIDE DEF v
<1>4. Running'
  BY <1>1, <1>3, NullIsPid DEF IInv, ListInv, Running
<1>5. ReadyAgrees(prstate', readylist')
  BY <1>1, <1>3 DEF IInv, ListInv, ReadyAgrees
<1>6. SleepAgrees(prstate', sleepq')
  <2>1. /\ sleepq' \in KeyedLists(Pid) /\ Once(sleepq')
        /\ Members(sleepq') = Members(sleepq) \ {v}
    BY <1>1, <1>3, UnsleepFacts DEF IInv, ListInv, SleepAgrees
  <2>. QED  BY <1>3, <2>1 DEF IInv, ListInv, SleepAgrees
<1>7. WaitAgrees(prstate', prsem', squeue')
  <2>1. \A p \in Pid : prstate'[p] = "PR_WAIT" <=> prstate[p] = "PR_WAIT"
    BY <1>3
  <2>2. prsem' = prsem /\ squeue' = squeue
    BY <1>1 DEF semvars
  <2>. QED  BY <2>1, <2>2, WaitersKept
<1>. QED  BY <1>1, <1>3, <1>4, <1>5, <1>6, <1>7, QuietStep DEF ListInv, semvars

\* kill of a waiting process gives its count back to the semaphore.
LEMMA KillWaiterInv ==
  ASSUME IInv, KillWaiter
  PROVE  IInv'
<1>. DEFINE v == victim[currpid]
            s == prsem[v]
<1>1. /\ Removes({"PR_WAIT"}) /\ prstate' = Freed
      /\ scount' = [scount EXCEPT ![s] = @ + 1]
      /\ squeue' = [squeue EXCEPT ![s] = Unqueue(v, @)]
      /\ UNCHANGED <<sstate, nextsem, prsem, readylist, currpid, preempt, sleepq>>
  BY DEF KillWaiter
<1>2. v \in Pid /\ prstate[v] = "PR_WAIT" /\ s \in Sem
  BY <1>1, RemovesFacts, SMT, SMTT(30) DEF IInv, ListInv, WaitAgrees
<1>3. /\ sstate' \in [Sem -> {"S_FREE", "S_USED"}] /\ scount' \in [Sem -> Int]
      /\ nextsem' \in Sem
  <2>1. /\ sstate \in [Sem -> {"S_FREE", "S_USED"}] /\ scount \in [Sem -> Int]
        /\ nextsem \in Sem
    BY DEF IInv, DataOK
  <2>2. /\ scount' = [scount EXCEPT ![s] = @ + 1]
        /\ sstate' = sstate /\ nextsem' = nextsem /\ s \in Sem
    BY ONLY <1>1, <1>2
  <2>. HIDE DEF v, s
  <2>. QED  BY ONLY <2>1, <2>2
<1>4. /\ Quiet /\ CountsAgree(sstate, scount, squeue)
      /\ currpid \in Pid /\ v \in Pid \ {NULLPROC}
      /\ prstate' \in [Pid -> State]
      /\ \A p \in Pid : prstate'[p] = IF p = v THEN "PR_FREE" ELSE prstate[p]
      /\ Quiet' /\ KillInv' /\ DataOK'
  BY <1>1, <1>3, RemovesFacts
<1>5. s = prsem[v]
  OBVIOUS
<1>. HIDE DEF v, s
<1>6. Running'
  BY <1>1, <1>2, <1>4, NullIsPid DEF IInv, ListInv, Running
<1>7. ReadyAgrees(prstate', readylist')
  BY <1>1, <1>2, <1>4 DEF IInv, ListInv, ReadyAgrees
<1>8. SleepAgrees(prstate', sleepq')
  BY <1>1, <1>2, <1>4 DEF IInv, ListInv, SleepAgrees
<1>9. /\ squeue[s] \in Seq(Pid) /\ \E i \in DOMAIN squeue[s] : squeue[s][i] = v
      /\ \A j, k \in DOMAIN squeue[s] : squeue[s][j] = squeue[s][k] => j = k
  BY <1>2, <1>5 DEF IInv, ListInv, WaitAgrees
<1>10. /\ Unqueue(v, squeue[s]) \in Seq(Pid)
       /\ Without(Unqueue(v, squeue[s]), squeue[s], v)
  BY <1>9, UnqueueFacts
<1>11. /\ squeue'[s] = Unqueue(v, squeue[s])
       /\ \A t \in Sem \ {s} : squeue'[t] = squeue[t]
  <2>1. squeue \in [Sem -> Seq(Pid)]
    BY DEF IInv, ListInv, WaitAgrees
  <2>. QED  BY ONLY <1>1, <1>2, <2>1
<1>12. WaitAgrees(prstate', prsem', squeue')
  <2>1. WaitAgrees(prstate, prsem, squeue)
    BY DEF IInv, ListInv
  <2>2. prstate'[v] # "PR_WAIT" /\ \A p \in Pid \ {v} : prstate'[p] = prstate[p]
    BY <1>4
  <2>3. WaitAgrees(prstate', prsem, [squeue EXCEPT ![s] = Unqueue(v, squeue[s])])
    BY <1>2, <1>5, <1>10, <2>1, <2>2, LeaveFacts
  <2>. QED  BY <1>1, <2>3
<1>13. CountsAgree(sstate', scount', squeue')
  <2>1. scount \in [Sem -> Int]
    BY DEF IInv, DataOK
  <2>2. /\ scount'[s] = scount[s] + 1 /\ sstate' = sstate
        /\ \A t \in Sem \ {s} : scount'[t] = scount[t]
    BY ONLY <1>1, <1>2, <2>1
  <2>3. \A t \in Sem : /\ scount[t] \in Int
                       /\ Len(squeue[t]) = IF scount[t] < 0 THEN -scount[t] ELSE 0
                       /\ sstate[t] = "S_FREE" => squeue[t] = <<>>
    BY ONLY <1>4, <2>1 DEF CountsAgree
  <2>4. /\ squeue[s] # <<>> /\ Len(squeue[s]) \in Nat /\ Len(squeue[s]) # 0
    BY <1>9
  <2>5. Len(squeue'[s]) = Len(squeue[s]) - 1
    BY <1>10, <1>11 DEF Without
  <2>6. ASSUME NEW t \in Sem
        PROVE  /\ Len(squeue'[t]) = IF scount'[t] < 0 THEN -scount'[t] ELSE 0
               /\ sstate'[t] = "S_FREE" => squeue'[t] = <<>>
    <3>1. CASE t # s
      BY ONLY <1>11, <2>2, <2>3, <3>1, t \in Sem
    <3>2. CASE t = s
      <4>1. scount[s] \in Int /\ Len(squeue[s]) = -scount[s] /\ scount[s] < 0
        BY ONLY <1>2, <2>3, <2>4
      <4>2. sstate'[s] # "S_FREE"
        BY ONLY <1>2, <2>2, <2>3, <2>4
      <4>. QED  BY ONLY <2>2, <2>5, <3>2, <4>1, <4>2
    <3>. QED  BY <3>1, <3>2
  <2>. QED  BY <2>6 DEF CountsAgree
<1>. QED  BY <1>4, <1>6, <1>7, <1>8, <1>12, <1>13, QuietStep DEF ListInv

\* kill of a ready process takes it out of the ready list.
LEMMA KillReadyInv ==
  ASSUME IInv, KillReady
  PROVE  IInv'
<1>. DEFINE v == victim[currpid]
<1>1. Removes({"PR_READY"}) /\ prstate' = Freed
      /\ readylist' = getitem(v, readylist)
      /\ UNCHANGED <<semvars, currpid, preempt, sleepq>>
  BY DEF KillReady
<1>2. /\ sstate' \in [Sem -> {"S_FREE", "S_USED"}] /\ scount' \in [Sem -> Int]
      /\ nextsem' \in Sem
  BY <1>1 DEF IInv, DataOK, semvars
<1>3. /\ Quiet /\ CountsAgree(sstate, scount, squeue)
      /\ currpid \in Pid /\ v \in Pid \ {NULLPROC} /\ prstate[v] = "PR_READY"
      /\ prstate' \in [Pid -> State]
      /\ \A p \in Pid : prstate'[p] = IF p = v THEN "PR_FREE" ELSE prstate[p]
      /\ Quiet' /\ KillInv' /\ DataOK'
  BY <1>1, <1>2, RemovesFacts, SMT, SMTT(30)
<1>. HIDE DEF v
<1>4. Running'
  BY <1>1, <1>3, NullIsPid DEF IInv, ListInv, Running
<1>5. ReadyAgrees(prstate', readylist')
  <2>1. /\ readylist' \in KeyedLists(Pid) /\ Once(readylist')
        /\ Members(readylist') = Members(readylist) \ {v}
    BY <1>1, <1>3, GetitemFacts DEF IInv, ListInv, ReadyAgrees
  <2>. QED  BY <1>3, <2>1 DEF IInv, ListInv, ReadyAgrees
<1>6. SleepAgrees(prstate', sleepq')
  BY <1>1, <1>3 DEF IInv, ListInv, SleepAgrees
<1>7. WaitAgrees(prstate', prsem', squeue')
  <2>1. \A p \in Pid : prstate'[p] = "PR_WAIT" <=> prstate[p] = "PR_WAIT"
    BY <1>3
  <2>2. prsem' = prsem /\ squeue' = squeue
    BY <1>1 DEF semvars
  <2>. QED  BY <2>1, <2>2, WaitersKept
<1>. QED  BY <1>1, <1>3, <1>4, <1>5, <1>6, <1>7, QuietStep DEF ListInv, semvars

\* kill of a process that is in no list frees its entry.
LEMMA KillOtherInv ==
  ASSUME IInv, KillOther
  PROVE  IInv'
<1>. DEFINE v == victim[currpid]
<1>1. Removes({"PR_RECV", "PR_SUSP", "PR_FREE"}) /\ prstate' = Freed
      /\ UNCHANGED <<semvars, readylist, currpid, preempt, sleepq>>
  BY DEF KillOther
<1>2. /\ sstate' \in [Sem -> {"S_FREE", "S_USED"}] /\ scount' \in [Sem -> Int]
      /\ nextsem' \in Sem
  BY <1>1 DEF IInv, DataOK, semvars
<1>3. /\ Quiet /\ CountsAgree(sstate, scount, squeue)
      /\ currpid \in Pid /\ v \in Pid \ {NULLPROC}
      /\ prstate[v] \in {"PR_RECV", "PR_SUSP", "PR_FREE"}
      /\ prstate' \in [Pid -> State]
      /\ \A p \in Pid : prstate'[p] = IF p = v THEN "PR_FREE" ELSE prstate[p]
      /\ Quiet' /\ KillInv' /\ DataOK'
  BY <1>1, <1>2, RemovesFacts
<1>. HIDE DEF v
<1>4. Running'
  BY <1>1, <1>3, NullIsPid DEF IInv, ListInv, Running
<1>5. ReadyAgrees(prstate', readylist')
  BY <1>1, <1>3 DEF IInv, ListInv, ReadyAgrees
<1>6. SleepAgrees(prstate', sleepq')
  BY <1>1, <1>3 DEF IInv, ListInv, SleepAgrees
<1>7. WaitAgrees(prstate', prsem', squeue')
  <2>1. \A p \in Pid : prstate'[p] = "PR_WAIT" <=> prstate[p] = "PR_WAIT"
    BY <1>3
  <2>2. prsem' = prsem /\ squeue' = squeue
    BY <1>1 DEF semvars
  <2>. QED  BY <2>1, <2>2, WaitersKept
<1>. QED  BY <1>1, <1>3, <1>4, <1>5, <1>6, <1>7, QuietStep DEF ListInv, semvars

-----------------------------------------------------------------------------
(***************************************************************************)
(* Semaphores.                                                             *)
(***************************************************************************)

\* The first waiter of a semaphore is dequeued and becomes ready.
LEMMA PopFacts ==
  ASSUME IInv, NEW s \in Sem, squeue[s] # <<>>,
         squeue' = [squeue EXCEPT ![s] = Tail(@)], ready(squeue[s][1])
  PROVE  /\ Running'
         /\ ReadyAgrees(prstate', readylist')
         /\ SleepAgrees(prstate', sleepq)
         /\ WaitAgrees(prstate', prsem, squeue')
         /\ squeue'[s] = Tail(squeue[s])
         /\ Len(squeue'[s]) = Len(squeue[s]) - 1
         /\ \A t \in Sem \ {s} : squeue'[t] = squeue[t]
         /\ Defer' \in [ndefers : Nat, attempt : BOOLEAN]
         /\ Defer'.ndefers = Defer.ndefers
         /\ Defer.ndefers > 0 => currpid' = currpid
<1>. DEFINE v == squeue[s][1]
            st == [prstate EXCEPT ![v] = "PR_READY"]
<1>1. /\ squeue \in [Sem -> Seq(Pid)] /\ squeue[s] \in Seq(Pid)
      /\ \A j, k \in DOMAIN squeue[s] : squeue[s][j] = squeue[s][k] => j = k
      /\ WaitAgrees(prstate, prsem, squeue)
      /\ prstate \in [Pid -> State]
  BY DEF IInv, ListInv, WaitAgrees, Running
<1>2. /\ v \in Pid /\ 1 \in DOMAIN squeue[s]
      /\ Tail(squeue[s]) \in Seq(Pid) /\ Without(Tail(squeue[s]), squeue[s], v)
  BY <1>1, DequeueFacts
<1>3. prstate[v] = "PR_WAIT" /\ prsem[v] = s
  BY <1>1, <1>2 DEF WaitAgrees
<1>4. ready(v)
  OBVIOUS
<1>. HIDE DEF v
<1>5. st[v] # "PR_WAIT" /\ \A p \in Pid \ {v} : st[p] = prstate[p]
  BY <1>1, <1>2
<1>6. WaitAgrees(st, prsem, squeue')
  <2>. HIDE DEF st
  <2>1. WaitAgrees(st, prsem, [squeue EXCEPT ![s] = Tail(squeue[s])])
    BY <1>1, <1>2, <1>3, <1>5, LeaveFacts, Zenon
  <2>. QED  BY <2>1
<1>7. /\ Running' /\ ReadyAgrees(prstate', readylist')
      /\ SleepAgrees(prstate', sleepq)
      /\ \A ps, sq : WaitAgrees(st, ps, sq) => WaitAgrees(prstate', ps, sq)
      /\ Defer' \in [ndefers : Nat, attempt : BOOLEAN]
      /\ Defer'.ndefers = Defer.ndefers
      /\ Defer.ndefers > 0 => currpid' = currpid
  BY <1>2, <1>3, <1>4, ReadyFacts, Zenon
<1>. HIDE DEF st
<1>8. /\ squeue'[s] = Tail(squeue[s])
      /\ \A t \in Sem \ {s} : squeue'[t] = squeue[t]
  BY <1>1
<1>9. Len(squeue'[s]) = Len(squeue[s]) - 1
  BY <1>2, <1>8, Zenon DEF Without
<1>. QED  BY <1>6, <1>7, <1>8, <1>9

\* One increment of the count of s, with the release of a waiter if there is
\* one.
LEMMA ReleaseFacts ==
  ASSUME IInv, NEW s \in Sem, ~Resetting(s), Release(s)
  PROVE  /\ Running'
         /\ ReadyAgrees(prstate', readylist')
         /\ SleepAgrees(prstate', sleepq)
         /\ WaitAgrees(prstate', prsem, squeue')
         /\ scount' \in [Sem -> Int]
         /\ \A t \in Sem : ~Resetting(t) =>
              Len(squeue'[t]) = IF scount'[t] < 0 THEN -scount'[t] ELSE 0
         /\ \A t \in Sem : squeue[t] = <<>> => squeue'[t] = <<>>
         /\ Defer' \in [ndefers : Nat, attempt : BOOLEAN]
         /\ Defer'.ndefers = Defer.ndefers
         /\ Defer.ndefers > 0 => currpid' = currpid
<1>1. /\ scount' = [scount EXCEPT ![s] = @ + 1] /\ scount \in [Sem -> Int]
      /\ scount' \in [Sem -> Int] /\ scount'[s] = scount[s] + 1
      /\ \A t \in Sem \ {s} : scount'[t] = scount[t]
  BY DEF Release, IInv, DataOK
<1>2. /\ \A t \in Sem : ~Resetting(t) =>
           Len(squeue[t]) = IF scount[t] < 0 THEN -scount[t] ELSE 0
      /\ squeue \in [Sem -> Seq(Pid)]
  BY DEF IInv, SemInv, ListInv, WaitAgrees
<1>3. CASE scount[s] < 0
  <2>1. squeue[s] # <<>>
    <3>1. Len(squeue[s]) = -scount[s] /\ scount[s] \in Int
      BY <1>1, <1>2, <1>3
    <3>. QED  BY <1>2, <1>3, <3>1
  <2>2. /\ squeue' = [squeue EXCEPT ![s] = Tail(@)] /\ ready(squeue[s][1])
    BY <1>3 DEF Release
  <2>3. /\ Running'
        /\ ReadyAgrees(prstate', readylist')
        /\ SleepAgrees(prstate', sleepq)
        /\ WaitAgrees(prstate', prsem, squeue')
        /\ Len(squeue'[s]) = Len(squeue[s]) - 1
        /\ \A t \in Sem \ {s} : squeue'[t] = squeue[t]
        /\ Defer' \in [ndefers : Nat, attempt : BOOLEAN]
        /\ Defer'.ndefers = Defer.ndefers
        /\ Defer.ndefers > 0 => currpid' = currpid
    BY <2>1, <2>2, PopFacts, Zenon
  <2>4. \A t \in Sem : ~Resetting(t) =>
          Len(squeue'[t]) = IF scount'[t] < 0 THEN -scount'[t] ELSE 0
    BY SMT, SMTT(30), <1>1, <1>2, <1>3, <2>3
  <2>. QED  BY SMT, SMTT(30), <1>1, <2>1, <2>3, <2>4
<1>4. CASE ~(scount[s] < 0)
  <2>1. UNCHANGED <<squeue, runvars, Defer>>
    BY <1>4 DEF Release
  <2>2. \A t \in Sem : ~Resetting(t) =>
          Len(squeue'[t]) = IF scount'[t] < 0 THEN -scount'[t] ELSE 0
    BY <1>1, <1>2, <1>4, <2>1
  <2>. QED  BY SMT, SMTT(30), <1>1, <2>1, <2>2 DEF IInv, ListInv, Running, DataOK, runvars
<1>. QED  BY <1>3, <1>4

\* newsem returns a free semaphore (semcreate.c).
LEMMA NewsemFacts ==
  ASSUME IInv, \E s \in Sem : sstate[s] = "S_FREE"
  PROVE  newsem \in Sem /\ sstate[newsem] = "S_FREE"
<1>. DEFINE F == {s \in Sem : sstate[s] = "S_FREE"}
<1>1. NSEM \in Nat \ {0} /\ nextsem \in 0 .. NSEM - 1 /\ Sem = 0 .. NSEM - 1
  BY TableAssumption DEF IInv, DataOK, Sem
<1>2. F \in SUBSET (0 .. NSEM - 1) /\ F # {}
  BY <1>1
<1>3. (nextsem + Min({k \in 0 .. NSEM - 1 : (nextsem + k) % NSEM \in F})) % NSEM \in F
  <2>. HIDE DEF F
  <2>. QED  BY <1>1, <1>2, ScanFacts
<1>4. {k \in 0 .. NSEM - 1 : (nextsem + k) % NSEM \in F}
        = {k \in Sem : sstate[(nextsem + k) % NSEM] = "S_FREE"}
  <2>1. \A k \in Sem : (nextsem + k) % NSEM \in Sem
    BY <1>1, ModFacts
  <2>. QED  BY SMT, SMTT(30), <1>1, <2>1
<1>5. newsem \in F
  <2>. HIDE DEF F
  <2>. QED  BY <1>3, <1>4, Zenon DEF newsem
<1>. QED  BY <1>5

\* semcreate takes a free semaphore, whose queue is empty.
LEMMA SemcreateInv ==
  ASSUME IInv, NEW c \in Count, Semcreate(c)
  PROVE  IInv'
<1>. DEFINE s == newsem
<1>1. Quiet /\ CountsAgree(sstate, scount, squeue)
  BY QuietFacts DEF Semcreate, Calls, UserMode, Deferring
<1>2. s \in Sem /\ sstate[s] = "S_FREE"
  BY NewsemFacts DEF Semcreate
<1>. HIDE DEF s
<1>3. /\ sstate' = [sstate EXCEPT ![s] = "S_USED"]
      /\ scount' = [scount EXCEPT ![s] = c]
      /\ nextsem' = (s + 1) % NSEM
      /\ UNCHANGED <<squeue, prsem, procvars, runvars, ctlvars, prmsg, sleepq, Defer>>
  BY DEF Semcreate, s
<1>4. c \in Nat /\ (s + 1) % NSEM \in Sem
  BY <1>2, CountAssumption, TableAssumption, ModFacts DEF Sem
<1>5. ListInv'
  BY <1>3 DEF IInv, ListInv, Running, runvars
<1>6. DataOK'
  BY <1>2, <1>3, <1>4 DEF IInv, DataOK, procvars, ctlvars
<1>7. Quiet' /\ KillInv'
  BY <1>1, <1>3 DEF IInv, Quiet, KillInv, ctlvars
<1>8. CountsAgree(sstate', scount', squeue')
  <2>1. squeue[s] = <<>> /\ Len(squeue[s]) = 0
    BY <1>1, <1>2 DEF CountsAgree
  <2>2. /\ sstate'[s] = "S_USED" /\ scount'[s] = c
        /\ \A t \in Sem \ {s} : sstate'[t] = sstate[t] /\ scount'[t] = scount[t]
    BY <1>2, <1>3 DEF IInv, DataOK
  <2>. QED  BY <1>1, <1>3, <1>4, <2>1, <2>2 DEF CountsAgree
<1>. QED  BY <1>5, <1>6, <1>7, <1>8, QuietStep

\* wait decrements the count and joins the queue when it is negative.
LEMMA WaitInv ==
  ASSUME IInv, NEW s \in Sem, Wait(s)
  PROVE  IInv'
<1>1. Quiet /\ CountsAgree(sstate, scount, squeue)
  BY QuietFacts DEF Wait, Calls, UserMode, Deferring
<1>2. /\ scount \in [Sem -> Int] /\ scount' \in [Sem -> Int]
      /\ scount'[s] = scount[s] - 1
      /\ \A t \in Sem \ {s} : scount'[t] = scount[t]
      /\ sstate[s] = "S_USED" /\ sstate' = sstate
      /\ currpid # NULLPROC /\ currpid \in Pid /\ prstate \in [Pid -> State]
      /\ prstate[currpid] = "PR_CURR"
  BY SMT, SMTT(30) DEF Wait, Calls, IInv, ListInv, Running, DataOK
<1>3. CASE scount[s] - 1 < 0
  <2>. DEFINE st == [prstate EXCEPT ![currpid] = "PR_WAIT"]
  <2>1. /\ prsem' = [prsem EXCEPT ![currpid] = s]
        /\ squeue' = [squeue EXCEPT ![s] = Append(@, currpid)]
        /\ resched(st, readylist)
    BY <1>3 DEF Wait
  <2>2. /\ st[currpid] = "PR_WAIT" /\ prstate[currpid] # "PR_WAIT"
        /\ \A p \in Pid \ {currpid} : st[p] = prstate[p]
        /\ WaitAgrees(prstate, prsem, squeue)
    BY <1>2 DEF IInv, ListInv
  <2>3. /\ Running' /\ ReadyAgrees(prstate', readylist')
        /\ SleepAgrees(prstate', sleepq)
        /\ \A ps, sq : WaitAgrees(st, ps, sq) => WaitAgrees(prstate', ps, sq)
        /\ Defer' \in [ndefers : Nat, attempt : BOOLEAN] /\ Defer'.ndefers = 0
    <3>1. "PR_WAIT" \in State \ {"PR_CURR", "PR_READY"}
           /\ "PR_WAIT" \notin {"PR_SLEEP", "PR_RECTIM"}
      BY DEF State
    <3>. QED  BY <1>1, <1>2, <2>1, <3>1, BlockFacts, Zenon
  <2>. HIDE DEF st
  <2>4. WaitAgrees(st, prsem', squeue') /\ Len(Append(squeue[s], currpid)) = Len(squeue[s]) + 1
    <3>1. /\ WaitAgrees(st, [prsem EXCEPT ![currpid] = s],
                         [squeue EXCEPT ![s] = Append(squeue[s], currpid)])
          /\ Len(Append(squeue[s], currpid)) = Len(squeue[s]) + 1
      <4>. DEFINE v == currpid
      <4>1. /\ WaitAgrees(prstate, prsem, squeue) /\ v \in Pid
            /\ prstate[v] # "PR_WAIT" /\ st[v] = "PR_WAIT"
            /\ \A p \in Pid \ {v} : st[p] = prstate[p]
        BY <1>2, <2>2
      <4>2. v = currpid
        OBVIOUS
      <4>. HIDE DEF v
      <4>3. WaitAgrees(st, [prsem EXCEPT ![v] = s],
                       [squeue EXCEPT ![s] = Append(squeue[s], v)])
        BY <4>1, JoinFacts, Zenon
      <4>4. Len(Append(squeue[s], v)) = Len(squeue[s]) + 1
        BY <4>1, JoinFacts
      <4>. QED  BY <4>2, <4>3, <4>4
    <3>. QED  BY <2>1, <3>1
  <2>5. ListInv'
    BY <2>3, <2>4 DEF Wait, ListInv
  <2>6. DataOK'
    BY SMT, SMTT(30), <1>2, <2>3 DEF Wait, IInv, DataOK, procvars, ctlvars
  <2>7. Quiet' /\ KillInv'
    BY <1>1, <2>3 DEF Wait, IInv, Quiet, KillInv, ctlvars
  <2>8. CountsAgree(sstate', scount', squeue')
    <3>1. /\ squeue'[s] = Append(squeue[s], currpid)
          /\ \A t \in Sem \ {s} : squeue'[t] = squeue[t]
      BY <1>2, <2>1 DEF IInv, ListInv, WaitAgrees
    <3>2. Len(squeue'[s]) = Len(squeue[s]) + 1 /\ Len(squeue[s]) = -scount[s]
      BY <1>1, <1>2, <1>3, <2>4, <3>1 DEF CountsAgree
    <3>. QED  BY SMT, SMTT(30), <1>1, <1>2, <1>3, <3>1, <3>2 DEF CountsAgree
  <2>. QED  BY <2>5, <2>6, <2>7, <2>8, QuietStep
<1>4. CASE ~(scount[s] - 1 < 0)
  <2>1. UNCHANGED <<prsem, squeue, runvars, Defer>>
    BY <1>4 DEF Wait
  <2>2. ListInv' /\ DataOK' /\ Quiet' /\ KillInv'
    BY <1>1, <1>2, <2>1, Zenon DEF Wait, IInv, ListInv, Running, DataOK, Quiet, KillInv,
                            procvars, runvars, ctlvars
  <2>3. CountsAgree(sstate', scount', squeue')
    BY SMT, SMTT(30), <1>1, <1>2, <1>4, <2>1 DEF CountsAgree
  <2>. QED  BY <2>2, <2>3, QuietStep
<1>. QED  BY <1>3, <1>4

\* signal increments the count and releases the first waiter, if any.
LEMMA SignalInv ==
  ASSUME IInv, NEW s \in Sem, Signal(s)
  PROVE  IInv'
<1>1. Quiet /\ CountsAgree(sstate, scount, squeue)
  BY QuietFacts, Zenon DEF Signal, Calls, UserMode, Deferring
<1>2. \A t \in Sem : ~Resetting(t)
  BY DEF Signal, Calls, UserMode, Resetting
<1>3. /\ Running' /\ ReadyAgrees(prstate', readylist')
      /\ SleepAgrees(prstate', sleepq) /\ WaitAgrees(prstate', prsem, squeue')
      /\ scount' \in [Sem -> Int]
      /\ \A t \in Sem : ~Resetting(t) =>
           Len(squeue'[t]) = IF scount'[t] < 0 THEN -scount'[t] ELSE 0
      /\ \A t \in Sem : squeue[t] = <<>> => squeue'[t] = <<>>
      /\ Defer' \in [ndefers : Nat, attempt : BOOLEAN]
      /\ Defer'.ndefers = Defer.ndefers
  BY <1>2, ReleaseFacts, Zenon DEF Signal
<1>4. ListInv'
  BY <1>3 DEF Signal, ListInv
<1>5. DataOK'
  BY SMT, SMTT(30), <1>3 DEF Signal, IInv, DataOK, procvars, ctlvars
<1>6. Quiet' /\ KillInv'
  BY <1>1, <1>3, Zenon DEF Signal, IInv, Quiet, KillInv, ctlvars
<1>7. CountsAgree(sstate', scount', squeue')
  BY <1>1, <1>2, <1>3 DEF Signal, CountsAgree
<1>. QED  BY <1>4, <1>5, <1>6, <1>7, QuietStep

-----------------------------------------------------------------------------
(***************************************************************************)
(* The loops that defer rescheduling.                                      *)
(***************************************************************************)

\* A step inside a loop: the running process keeps its place, and no process
\* joins a semaphore queue.
LEMMA DeferredStep ==
  ASSUME IInv, ListInv', DataOK', currpid' = currpid, pc' = pc, victim' = victim,
         Defer'.ndefers = Defer.ndefers, loop'.sem = loop.sem, sstate' = sstate,
         \A s \in Sem : ~Resetting(s) =>
           Len(squeue'[s]) = IF scount'[s] < 0 THEN -scount'[s] ELSE 0,
         \A s \in Sem : squeue[s] = <<>> => squeue'[s] = <<>>
  PROVE  IInv'
<1>1. DeferInv'
  BY DEF IInv, DeferInv
<1>2. SemInv'
  BY DEF IInv, SemInv, Resetting, Deleting
<1>3. KillInv'
  BY DEF IInv, KillInv
<1>. QED  BY <1>1, <1>2, <1>3 DEF IInv

\* resched_cntl(DEFER_START) at the outermost level.
LEMMA DeferStartFacts ==
  ASSUME Defer.ndefers = 0, DeferStart
  PROVE  Defer' = [ndefers |-> 1, attempt |-> FALSE]
<1>1. Defer.ndefers + 1 = 1 /\ ~(Defer.ndefers > 0)
  OBVIOUS
<1>2. (Defer.ndefers > 0 /\ Defer.attempt) = FALSE
  BY <1>1, Zenon
<1>. QED  BY <1>1, <1>2, Zenon DEF DeferStart

\* A loop begins: rescheduling is deferred once.
LEMMA StartLoopInv ==
  ASSUME IInv, NEW l \in {"signaln", "semdelete", "semreset"}, NEW s \in Sem,
         NEW n \in 0 .. MaxCount, UserMode, StartLoop(l, s, n),
         sstate' \in [Sem -> {"S_FREE", "S_USED"}],
         \A t \in Sem : sstate'[t] # sstate[t] => l = "semdelete" /\ t = s
  PROVE  IInv'
<1>1. Quiet /\ CountsAgree(sstate, scount, squeue)
  BY QuietFacts DEF UserMode, Deferring
<1>2. /\ currpid \in Pid /\ pc' = [pc EXCEPT ![currpid] = l] /\ pc \in [Pid -> Place]
      /\ loop' = [sem |-> s, count |-> n]
      /\ Defer' = [ndefers |-> 1, attempt |-> FALSE]
      /\ UNCHANGED <<victim, halted, procvars, runvars, scount, squeue, nextsem,
                     prsem, prmsg, sleepq>>
  <2>1. Defer' = [ndefers |-> 1, attempt |-> FALSE]
    BY <1>1, DeferStartFacts DEF StartLoop, Quiet
  <2>2. currpid \in Pid /\ pc \in [Pid -> Place]
    BY DEF IInv, ListInv, Running, DataOK
  <2>. QED  BY <2>1, <2>2 DEF StartLoop, GoTo
<1>3. ListInv'
  BY <1>2 DEF IInv, ListInv, Running, runvars
<1>4. DataOK'
  BY <1>2 DEF IInv, DataOK, procvars, Place
<1>5. currpid' = currpid /\ pc'[currpid] = l /\ loop'.sem = s
  BY <1>2 DEF runvars
<1>6. DeferInv'
  BY <1>1, <1>2, <1>5 DEF DeferInv, Deferring, Quiet
<1>7. SemInv'
  <2>1. \A t \in Sem : Len(squeue'[t]) = IF scount'[t] < 0 THEN -scount'[t] ELSE 0
    BY <1>1, <1>2 DEF CountsAgree
  <2>2. ASSUME NEW t \in Sem, sstate'[t] = "S_FREE", ~Deleting(t)'
        PROVE  squeue'[t] = <<>>
    <3>1. sstate[t] = "S_FREE"
      BY <1>5, <2>2 DEF Deleting
    <3>. QED  BY <1>1, <1>2, <3>1 DEF CountsAgree
  <2>. QED  BY <2>1, <2>2 DEF SemInv
<1>8. KillInv'
  BY <1>2 DEF IInv, KillInv
<1>. QED  BY <1>3, <1>4, <1>6, <1>7, <1>8 DEF IInv

\* signaln starts its loop with rescheduling deferred.
LEMMA SignalnInv ==
  ASSUME IInv, NEW s \in Sem, NEW n \in Count, Signaln(s, n)
  PROVE  IInv'
<1>1. n \in 0 .. MaxCount
  BY CountAssumption
<1>2. UserMode /\ StartLoop("signaln", s, n) /\ sstate' = sstate
  BY DEF Signaln, Calls
<1>. QED  BY <1>1, <1>2, StartLoopInv DEF IInv, DataOK

\* semdelete marks the semaphore free and starts to release its waiters.
LEMMA SemdeleteInv ==
  ASSUME IInv, NEW s \in Sem, Semdelete(s)
  PROVE  IInv'
<1>1. 0 \in 0 .. MaxCount
  BY CountAssumption
<1>2. UserMode /\ StartLoop("semdelete", s, 0)
  BY DEF Semdelete, Calls
<1>3. /\ sstate' \in [Sem -> {"S_FREE", "S_USED"}]
      /\ \A t \in Sem : sstate'[t] # sstate[t] => t = s
  BY DEF Semdelete, IInv, DataOK
<1>. QED  BY <1>1, <1>2, <1>3, StartLoopInv

\* semreset starts to release the waiters.
LEMMA SemresetInv ==
  ASSUME IInv, NEW s \in Sem, NEW c \in Count, Semreset(s, c)
  PROVE  IInv'
<1>1. c \in 0 .. MaxCount
  BY CountAssumption
<1>2. UserMode /\ StartLoop("semreset", s, c) /\ sstate' = sstate
  BY DEF Semreset, Calls
<1>. QED  BY <1>1, <1>2, StartLoopInv DEF IInv, DataOK

\* One release in a loop, or by the handler of an interrupt.
LEMMA ReleaseStep ==
  ASSUME IInv, NEW s \in Sem, pc[currpid] \in Deferring, ~Resetting(s), Release(s),
         UNCHANGED <<sstate, nextsem, prsem, procvars, pc, victim, halted, prmsg,
                     sleepq>>,
         loop' \in [sem : Sem, count : 0 .. MaxCount], loop'.sem = loop.sem
  PROVE  IInv'
<1>1. Defer.ndefers > 0
  BY DEF IInv, DeferInv
<1>2. /\ Running' /\ ReadyAgrees(prstate', readylist')
      /\ SleepAgrees(prstate', sleepq) /\ WaitAgrees(prstate', prsem, squeue')
      /\ scount' \in [Sem -> Int]
      /\ \A t \in Sem : ~Resetting(t) =>
           Len(squeue'[t]) = IF scount'[t] < 0 THEN -scount'[t] ELSE 0
      /\ \A t \in Sem : squeue[t] = <<>> => squeue'[t] = <<>>
      /\ Defer' \in [ndefers : Nat, attempt : BOOLEAN]
      /\ Defer'.ndefers = Defer.ndefers
      /\ Defer.ndefers > 0 => currpid' = currpid
  BY ReleaseFacts
<1>3. ListInv'
  BY <1>2 DEF ListInv
<1>4. DataOK'
  <2>1. /\ prprio' \in [Pid -> Int] /\ prparent' \in [Pid -> Pid]
        /\ prcount' \in Int /\ nextpid' \in Pid
    BY DEF IInv, DataOK, procvars
  <2>2. /\ prmsg' \in [Pid -> Message \union {NoMsg}]
        /\ sstate' \in [Sem -> {"S_FREE", "S_USED"}] /\ nextsem' \in Sem
        /\ pc' \in [Pid -> Place] /\ victim' \in [Pid -> Pid] /\ halted' \in BOOLEAN
    BY DEF IInv, DataOK
  <2>. QED  BY <1>2, <2>1, <2>2, Zenon DEF DataOK
<1>. QED  BY <1>1, <1>2, <1>3, <1>4, DeferredStep

\* One iteration of the loop of signaln.
LEMMA SignalnNextInv ==
  ASSUME IInv, SignalnNext
  PROVE  IInv'
<1>1. /\ loop.sem \in Sem /\ loop.count \in Nat /\ loop.count <= MaxCount
      /\ loop \in [sem : Sem, count : 0 .. MaxCount] /\ MaxCount \in Nat
  BY CountAssumption DEF IInv, DataOK
<1>2. loop' \in [sem : Sem, count : 0 .. MaxCount] /\ loop'.sem = loop.sem
  BY <1>1 DEF SignalnNext
<1>3. pc[currpid] \in Deferring /\ ~Resetting(loop.sem)
  BY DEF SignalnNext, Continues, Deferring, Resetting
<1>. QED  BY <1>1, <1>2, <1>3, ReleaseStep DEF SignalnNext

\* One iteration of the loop of semdelete.
LEMMA SemdeleteNextInv ==
  ASSUME IInv, SemdeleteNext
  PROVE  IInv'
<1>1. loop.sem \in Sem /\ loop \in [sem : Sem, count : 0 .. MaxCount]
  BY DEF IInv, DataOK
<1>2. pc[currpid] \in Deferring /\ ~Resetting(loop.sem)
  BY DEF SemdeleteNext, Continues, Deferring, Resetting
<1>. QED  BY <1>1, <1>2, ReleaseStep DEF SemdeleteNext, ctlvars

\* A device handler signals a semaphore while rescheduling is deferred.
LEMMA InterruptSignalInv ==
  ASSUME IInv, NEW s \in Sem, InterruptSignal(s)
  PROVE  IInv'
<1>1. loop \in [sem : Sem, count : 0 .. MaxCount]
  BY DEF IInv, DataOK
<1>2. pc[currpid] \in Deferring /\ ~Resetting(s)
  BY DEF InterruptSignal, Continues, Deferring, Resetting
<1>. QED  BY <1>1, <1>2, ReleaseStep DEF InterruptSignal, ctlvars

\* One iteration of the loop of semreset.
LEMMA SemresetNextInv ==
  ASSUME IInv, SemresetNext
  PROVE  IInv'
<1>. DEFINE s == loop.sem
<1>1. /\ s \in Sem /\ squeue[s] # <<>> /\ squeue' = [squeue EXCEPT ![s] = Tail(@)]
      /\ ready(squeue[s][1]) /\ Resetting(s)
  BY DEF IInv, DataOK, SemresetNext, Resetting, Continues
<1>2. Defer.ndefers > 0
  BY DEF IInv, DeferInv, SemresetNext, Continues, Deferring
<1>3. s = loop.sem
  OBVIOUS
<1>. HIDE DEF s
<1>4. /\ Running' /\ ReadyAgrees(prstate', readylist')
      /\ SleepAgrees(prstate', sleepq) /\ WaitAgrees(prstate', prsem, squeue')
      /\ \A t \in Sem \ {s} : squeue'[t] = squeue[t]
      /\ Defer' \in [ndefers : Nat, attempt : BOOLEAN]
      /\ Defer'.ndefers = Defer.ndefers
      /\ Defer.ndefers > 0 => currpid' = currpid
  BY <1>1, PopFacts, Zenon
<1>5. ListInv'
  BY <1>4 DEF SemresetNext, ListInv
<1>6. DataOK'
  BY <1>4 DEF SemresetNext, IInv, DataOK, procvars, ctlvars
<1>7. /\ \A t \in Sem : ~Resetting(t) =>
           Len(squeue'[t]) = IF scount'[t] < 0 THEN -scount'[t] ELSE 0
      /\ \A t \in Sem : squeue[t] = <<>> => squeue'[t] = <<>>
  BY <1>1, <1>4, Zenon DEF SemresetNext, IInv, SemInv
<1>. QED  BY SMT, SMTT(30), <1>2, <1>4, <1>5, <1>6, <1>7, DeferredStep DEF SemresetNext, ctlvars

\* resched_cntl(DEFER_STOP) at the outermost level.
LEMMA DeferStopFacts ==
  ASSUME IInv, Defer.ndefers = 1, DeferStop
  PROVE  /\ Running' /\ ReadyAgrees(prstate', readylist')
         /\ SleepAgrees(prstate', sleepq) /\ WaitAgrees(prstate', prsem, squeue)
         /\ Defer' \in [ndefers : Nat, attempt : BOOLEAN] /\ Defer'.ndefers = 0
<1>1. /\ currpid \in Pid /\ preempt \in 1 .. QUANTUM /\ prprio \in [Pid -> Int]
      /\ MayRun(prstate) /\ ReadyAgrees(prstate, readylist)
  BY DEF IInv, ListInv, Running, DataOK, MayRun
<1>2. Defer' \in [ndefers : Nat, attempt : BOOLEAN] /\ Defer'.ndefers = 0
  BY DEF DeferStop, IInv, DataOK
<1>3. CASE Dispatch(prstate, readylist, preempt)
  BY <1>1, <1>2, <1>3, DispatchFacts DEF IInv, ListInv
<1>4. CASE UNCHANGED runvars
  BY <1>2, <1>4 DEF IInv, ListInv, Running, runvars
<1>. QED  BY <1>3, <1>4 DEF DeferStop

\* A loop ends: the running process returns to its program.
LEMMA EndLoopInv ==
  ASSUME IInv, NEW l \in {"signaln", "semdelete", "semreset"}, EndLoop(l),
         scount' \in [Sem -> Int], CountsAgree(sstate', scount', squeue')
  PROVE  IInv'
<1>1. currpid \in Pid /\ pc[currpid] = l
  BY DEF EndLoop, Continues, IInv, ListInv, Running
<1>2. Defer.ndefers = 1
  BY <1>1 DEF IInv, DeferInv, Deferring
<1>3. /\ Running' /\ ReadyAgrees(prstate', readylist')
      /\ SleepAgrees(prstate', sleepq) /\ WaitAgrees(prstate', prsem, squeue)
      /\ Defer' \in [ndefers : Nat, attempt : BOOLEAN] /\ Defer'.ndefers = 0
  BY <1>2, DeferStopFacts DEF EndLoop
<1>4. ListInv'
  BY <1>3 DEF EndLoop, ListInv
<1>5. pc' = [pc EXCEPT ![currpid] = "user"] /\ pc \in [Pid -> Place]
  BY DEF EndLoop, GoTo, IInv, DataOK
<1>6. DataOK'
  <2>1. loop' \in [sem : Sem, count : 0 .. MaxCount]
    BY CountAssumption, TableAssumption DEF EndLoop, NoLoop, Sem
  <2>. QED  BY <1>3, <1>5, <2>1, Zenon DEF EndLoop, IInv, DataOK, procvars, Place
<1>7. Quiet' /\ KillInv'
  BY <1>1, <1>3, <1>5 DEF EndLoop, IInv, DeferInv, KillInv, Quiet, Deferring
<1>. QED  BY <1>4, <1>6, <1>7, QuietStep

\* signaln ends its deferral and catches up on rescheduling.
LEMMA SignalnEndInv ==
  ASSUME IInv, SignalnEnd
  PROVE  IInv'
<1>1. EndLoop("signaln") /\ UNCHANGED <<scount, sstate, squeue>>
  BY DEF SignalnEnd, EndLoop
<1>2. CountsAgree(sstate', scount', squeue')
  BY <1>1 DEF EndLoop, Continues, IInv, SemInv, Resetting, Deleting, CountsAgree
<1>. QED  BY <1>1, <1>2, EndLoopInv DEF IInv, DataOK

\* semdelete ends its deferral.
LEMMA SemdeleteEndInv ==
  ASSUME IInv, SemdeleteEnd
  PROVE  IInv'
<1>. DEFINE s == loop.sem
<1>1. /\ EndLoop("semdelete") /\ UNCHANGED <<sstate, squeue>> /\ scount[s] >= 0
      /\ s \in Sem /\ scount \in [Sem -> Int]
      /\ scount' = [scount EXCEPT ![s] = @ + 1]
  BY DEF SemdeleteEnd, EndLoop, IInv, DataOK
<1>2. /\ \A t \in Sem : Len(squeue[t]) = IF scount[t] < 0 THEN -scount[t] ELSE 0
      /\ \A t \in Sem \ {s} : sstate[t] = "S_FREE" => squeue[t] = <<>>
  BY <1>1 DEF EndLoop, Continues, IInv, SemInv, Resetting, Deleting
<1>. HIDE DEF s
<1>3. squeue[s] = <<>>
  <2>1. squeue[s] \in Seq(Pid) /\ Len(squeue[s]) = 0
    BY <1>1, <1>2 DEF IInv, ListInv, WaitAgrees
  <2>. QED  BY <2>1
<1>4. CountsAgree(sstate', scount', squeue')
  BY <1>1, <1>2, <1>3 DEF CountsAgree
<1>. QED  BY <1>1, <1>4, EndLoopInv

\* semreset sets the new count when no waiter is left, and ends its deferral.
LEMMA SemresetEndInv ==
  ASSUME IInv, SemresetEnd
  PROVE  IInv'
<1>. DEFINE s == loop.sem
<1>1. /\ EndLoop("semreset") /\ UNCHANGED <<sstate, squeue>> /\ squeue[s] = <<>>
      /\ s \in Sem /\ scount \in [Sem -> Int] /\ loop.count \in 0 .. MaxCount
      /\ scount' = [scount EXCEPT ![s] = loop.count]
  BY DEF SemresetEnd, EndLoop, IInv, DataOK
<1>2. /\ \A t \in Sem \ {s} : Len(squeue[t]) = IF scount[t] < 0 THEN -scount[t] ELSE 0
      /\ \A t \in Sem : sstate[t] = "S_FREE" => squeue[t] = <<>>
  BY <1>1 DEF EndLoop, Continues, IInv, SemInv, Resetting, Deleting
<1>. HIDE DEF s
<1>3. Len(squeue[s]) = 0
  BY <1>1
<1>4. CountsAgree(sstate', scount', squeue')
  BY <1>1, <1>2, <1>3, CountAssumption DEF CountsAgree
<1>. QED  BY <1>1, <1>4, CountAssumption, EndLoopInv

-----------------------------------------------------------------------------
(***************************************************************************)
(* Delays, the clock and device interrupts.                                *)
(***************************************************************************)

LEMMA SleepmsInv ==
  ASSUME IInv, NEW d \in Delay, Sleepms(d)
  PROVE  IInv'
<1>1. Quiet /\ CountsAgree(sstate, scount, squeue)
  BY QuietFacts DEF Sleepms, Calls, UserMode, Deferring
<1>2. /\ sleepq' \in KeyedLists(Pid) /\ Once(sleepq')
      /\ Members(sleepq') = Members(sleepq) \union {currpid}
  <2>1. /\ sleepq \in KeyedLists(Pid) /\ Once(sleepq)
        /\ currpid \in Pid /\ currpid \notin Members(sleepq) /\ d \in Int
    BY DataAssumption DEF IInv, ListInv, Running, SleepAgrees
  <2>. QED  BY <2>1, InsertdFacts DEF Sleepms
<1>3. /\ Running' /\ ReadyAgrees(prstate', readylist')
      /\ SleepAgrees(prstate', sleepq') /\ WaitAgrees(prstate', prsem, squeue)
      /\ Defer' \in [ndefers : Nat, attempt : BOOLEAN] /\ Defer'.ndefers = 0
  BY <1>1, <1>2, BlockFacts DEF Sleepms, Calls, State
<1>4. ListInv'
  BY <1>3 DEF Sleepms, ListInv, semvars
<1>5. DataOK'
  BY <1>3 DEF Sleepms, IInv, DataOK, procvars, semvars, ctlvars
<1>6. Quiet' /\ KillInv' /\ CountsAgree(sstate', scount', squeue')
  BY <1>1, <1>3 DEF Sleepms, IInv, Quiet, KillInv, semvars, ctlvars
<1>. QED  BY <1>4, <1>5, <1>6, QuietStep

\* A tick leaves the processes of the sleep queue as they are.
LEMMA TickedFacts ==
  ASSUME IInv
  PROVE  \A st : SleepAgrees(st, sleepq) => SleepAgrees(st, Ticked)
<1>1. CASE sleepq = <<>>
  BY <1>1 DEF Ticked
<1>2. CASE sleepq # <<>>
  <2>. DEFINE r == [sleepq EXCEPT ![1].qkey = @ - 1]
  <2>1. sleepq \in KeyedLists(Pid)
    BY DEF IInv, ListInv, SleepAgrees
  <2>2. \A i \in DOMAIN sleepq : sleepq[i] \in [pid : Pid, qkey : Int]
    BY <2>1, ListNodes
  <2>3. /\ r \in [DOMAIN sleepq -> [pid : Pid, qkey : Int]]
        /\ \A i \in DOMAIN sleepq : r[i].pid = sleepq[i].pid
    <3>1. DOMAIN r = DOMAIN sleepq
      OBVIOUS
    <3>2. \A i \in DOMAIN sleepq : r[i] \in [pid : Pid, qkey : Int]
                                  /\ r[i].pid = sleepq[i].pid
      <4>1. \A i \in DOMAIN sleepq \ {1} : r[i] = sleepq[i]
        OBVIOUS
      <4>2. 1 \in DOMAIN sleepq => r[1] = [sleepq[1] EXCEPT !.qkey = @ - 1]
        OBVIOUS
      <4>. HIDE DEF r
      <4>. QED  BY <2>2, <4>1, <4>2
    <3>3. r = [i \in DOMAIN sleepq |-> r[i]]
      OBVIOUS
    <3>. HIDE DEF r
    <3>. QED  BY <3>2, <3>3
  <2>. HIDE DEF r
  <2>4. /\ r \in KeyedLists(Pid) /\ Members(r) = Members(sleepq)
        /\ Once(sleepq) => Once(r)
    BY <2>1, <2>3, RekeyKeyed
  <2>5. Ticked = r
    BY <1>2 DEF Ticked, r
  <2>. QED  BY <2>4, <2>5 DEF SleepAgrees
<1>. QED  BY <1>1, <1>2

\* The end of an interrupt of the clock.
LEMMA ClkReturnFacts ==
  ASSUME IInv, NEW attempt \in BOOLEAN, ClkReturn(attempt)
  PROVE  /\ Running' /\ ReadyAgrees(prstate', readylist')
         /\ \A q : SleepAgrees(prstate, q) => SleepAgrees(prstate', q)
         /\ WaitAgrees(prstate', prsem, squeue)
         /\ Defer' \in [ndefers : Nat, attempt : BOOLEAN] /\ Defer'.ndefers = 0
<1>. DEFINE slice == IF preempt - 1 = 0 THEN QUANTUM ELSE preempt - 1
            wanted == attempt \/ preempt - 1 = 0
<1>1. /\ currpid \in Pid /\ preempt \in 1 .. QUANTUM /\ prprio \in [Pid -> Int]
      /\ MayRun(prstate) /\ ReadyAgrees(prstate, readylist)
  BY DEF IInv, ListInv, Running, DataOK, MayRun
<1>2. slice \in 1 .. QUANTUM
  BY <1>1, SliceAssumption
<1>3. wanted \in BOOLEAN
  OBVIOUS
<1>4. /\ Defer' = [ndefers |-> 0, attempt |-> wanted]
      /\ \/ Dispatch(prstate, readylist, slice)
         \/ preempt' = slice /\ UNCHANGED <<prstate, readylist, currpid>>
  BY DEF ClkReturn
<1>. HIDE DEF slice, wanted
<1>5. Defer' \in [ndefers : Nat, attempt : BOOLEAN] /\ Defer'.ndefers = 0
  BY <1>3, <1>4
<1>6. CASE Dispatch(prstate, readylist, slice)
  BY <1>1, <1>2, <1>5, <1>6, DispatchFacts DEF IInv, ListInv
<1>7. CASE preempt' = slice /\ UNCHANGED <<prstate, readylist, currpid>>
  BY <1>2, <1>5, <1>7 DEF IInv, ListInv, Running
<1>. QED  BY <1>4, <1>6, <1>7

\* A clock interrupt that awakens nobody.
LEMMA ClkhandlerInv ==
  ASSUME IInv, Clkhandler
  PROVE  IInv'
<1>1. Quiet /\ CountsAgree(sstate, scount, squeue)
  BY QuietFacts DEF Clkhandler, UserMode, Deferring
<1>2. /\ Running' /\ ReadyAgrees(prstate', readylist')
      /\ SleepAgrees(prstate', Ticked) /\ WaitAgrees(prstate', prsem, squeue)
      /\ Defer' \in [ndefers : Nat, attempt : BOOLEAN] /\ Defer'.ndefers = 0
  <2>1. SleepAgrees(prstate, Ticked)
    BY TickedFacts DEF IInv, ListInv
  <2>2. ClkReturn(FALSE)
    BY Zenon DEF Clkhandler
  <2>. QED  BY <2>1, <2>2, ClkReturnFacts, Zenon
<1>3. ListInv'
  BY <1>2 DEF Clkhandler, ListInv, semvars
<1>4. DataOK'
  BY <1>2 DEF Clkhandler, IInv, DataOK, procvars, semvars, ctlvars
<1>5. Quiet' /\ KillInv' /\ CountsAgree(sstate', scount', squeue')
  BY <1>1, <1>2 DEF Clkhandler, IInv, Quiet, KillInv, semvars, ctlvars
<1>. QED  BY <1>3, <1>4, <1>5, QuietStep

\* An interrupt begins, in user code: the running process goes to place l.
LEMMA EnterInv ==
  ASSUME IInv, UserMode, NEW l \in {"irq", "wakeup"}, GoTo(l),
         SleepAgrees(prstate, sleepq'),
         Defer' = [ndefers |-> IF l = "irq" THEN 1 ELSE 2, attempt |-> FALSE],
         UNCHANGED <<procvars, semvars, runvars, victim, loop, halted, prmsg>>
  PROVE  IInv'
<1>1. Quiet /\ CountsAgree(sstate, scount, squeue)
  BY QuietFacts DEF UserMode, Deferring
<1>2. currpid \in Pid /\ pc' = [pc EXCEPT ![currpid] = l] /\ pc \in [Pid -> Place]
  BY DEF GoTo, IInv, ListInv, Running, DataOK
<1>3. ListInv'
  BY DEF IInv, ListInv, Running, runvars, semvars
<1>4. DataOK'
  BY <1>2 DEF IInv, DataOK, procvars, semvars, Place
<1>5. DeferInv'
  BY <1>1, <1>2 DEF DeferInv, Deferring, Quiet, runvars
<1>6. SemInv'
  BY <1>1 DEF SemInv, CountsAgree, semvars
<1>7. KillInv'
  BY <1>2 DEF IInv, KillInv
<1>. QED  BY <1>3, <1>4, <1>5, <1>6, <1>7 DEF IInv

\* A clock interrupt that finds the first delay over and enters wakeup.
LEMMA ClkhandlerDueInv ==
  ASSUME IInv, ClkhandlerDue
  PROVE  IInv'
<1>1. SleepAgrees(prstate, sleepq')
  BY TickedFacts DEF ClkhandlerDue, IInv, ListInv
<1>2. /\ UserMode /\ GoTo("wakeup") /\ Defer' = [ndefers |-> 2, attempt |-> FALSE]
      /\ UNCHANGED <<procvars, semvars, runvars, victim, loop, halted, prmsg>>
  BY DEF ClkhandlerDue
<1>. QED  BY <1>1, <1>2, EnterInv

\* A device interrupt defers rescheduling and enters its handler.
LEMMA InterruptInv ==
  ASSUME IInv, Interrupt
  PROVE  IInv'
<1>1. SleepAgrees(prstate, sleepq')
  BY DEF Interrupt, IInv, ListInv
<1>2. /\ UserMode /\ GoTo("irq")
      /\ UNCHANGED <<procvars, semvars, runvars, victim, loop, halted, prmsg>>
  BY DEF Interrupt
<1>3. Defer' = [ndefers |-> 1, attempt |-> FALSE]
  <2>1. Defer.ndefers = 0
    BY <1>2, QuietFacts DEF Quiet, UserMode, Deferring
  <2>. QED  BY <2>1, DeferStartFacts DEF Interrupt
<1>. QED  BY <1>1, <1>2, <1>3, EnterInv

\* One iteration of the loop of wakeup.
LEMMA WakeupNextInv ==
  ASSUME IInv, WakeupNext
  PROVE  IInv'
<1>. DEFINE p == sleepq[1].pid
<1>1. /\ Continues("wakeup") /\ sleepq # <<>> /\ sleepq' = Tail(sleepq) /\ ready(p)
      /\ UNCHANGED <<procvars, semvars, ctlvars, prmsg>>
  BY DEF WakeupNext, Overdue
<1>2. /\ sleepq' \in KeyedLists(Pid) /\ Once(sleepq')
      /\ p \in Pid /\ p \in Members(sleepq)
      /\ Members(sleepq') = Members(sleepq) \ {p}
  BY <1>1, TailKeyed DEF IInv, ListInv, SleepAgrees
<1>. HIDE DEF p
<1>3. prstate[p] \in {"PR_SLEEP", "PR_RECTIM"}
  BY <1>2 DEF IInv, ListInv, SleepAgrees
<1>4. /\ Running' /\ ReadyAgrees(prstate', readylist')
      /\ SleepAgrees(prstate', sleepq') /\ WaitAgrees(prstate', prsem, squeue)
      /\ Defer' \in [ndefers : Nat, attempt : BOOLEAN]
      /\ Defer'.ndefers = Defer.ndefers
      /\ Defer.ndefers > 0 => currpid' = currpid
  BY <1>1, <1>2, <1>3, ReadyFacts, Zenon
<1>5. Defer.ndefers > 0
  BY <1>1 DEF IInv, DeferInv, Continues, Deferring
<1>6. ListInv'
  BY <1>1, <1>4 DEF ListInv, semvars
<1>7. DataOK'
  BY <1>1, <1>4 DEF IInv, DataOK, procvars, semvars, ctlvars
<1>8. /\ \A s \in Sem : ~Resetting(s) =>
           Len(squeue'[s]) = IF scount'[s] < 0 THEN -scount'[s] ELSE 0
      /\ \A s \in Sem : squeue[s] = <<>> => squeue'[s] = <<>>
  BY <1>1 DEF IInv, SemInv, semvars
<1>. QED  BY <1>1, <1>4, <1>5, <1>6, <1>7, <1>8, DeferredStep DEF semvars, ctlvars

\* An interrupt ends: the running process returns to its program.
LEMMA LeaveInv ==
  ASSUME IInv, pc[currpid] \in {"irq", "wakeup"}, GoTo("user"),
         Running', ReadyAgrees(prstate', readylist'),
         SleepAgrees(prstate', sleepq), WaitAgrees(prstate', prsem, squeue),
         Defer' \in [ndefers : Nat, attempt : BOOLEAN], Defer'.ndefers = 0,
         UNCHANGED <<procvars, semvars, victim, loop, halted, prmsg, sleepq>>
  PROVE  IInv'
<1>1. /\ currpid \in Pid /\ pc' = [pc EXCEPT ![currpid] = "user"]
      /\ pc \in [Pid -> Place]
  BY DEF GoTo, IInv, ListInv, Running, DataOK
<1>2. ListInv'
  BY DEF ListInv, semvars
<1>3. DataOK'
  BY <1>1 DEF IInv, DataOK, procvars, semvars, Place
<1>4. Quiet' /\ KillInv'
  BY <1>1 DEF IInv, DeferInv, KillInv, Quiet, Deferring
<1>5. CountsAgree(sstate', scount', squeue')
  BY DEF IInv, SemInv, Resetting, Deleting, CountsAgree, semvars
<1>. QED  BY <1>2, <1>3, <1>4, <1>5, QuietStep

\* wakeup ends its deferral inside that of irq_dispatch.
LEMMA WakeupEndInv ==
  ASSUME IInv, WakeupEnd
  PROVE  IInv'
<1>1. Defer.attempt \in BOOLEAN /\ SleepAgrees(prstate, sleepq)
  BY DEF IInv, DataOK, ListInv
<1>2. /\ Running' /\ ReadyAgrees(prstate', readylist')
      /\ SleepAgrees(prstate', sleepq) /\ WaitAgrees(prstate', prsem, squeue)
      /\ Defer' \in [ndefers : Nat, attempt : BOOLEAN] /\ Defer'.ndefers = 0
  BY <1>1, ClkReturnFacts DEF WakeupEnd
<1>. QED  BY <1>2, LeaveInv DEF WakeupEnd, Continues

\* irq_dispatch ends its deferral and catches up on rescheduling.
LEMMA InterruptReturnInv ==
  ASSUME IInv, InterruptReturn
  PROVE  IInv'
<1>1. Defer.ndefers = 1
  BY DEF InterruptReturn, Continues, IInv, DeferInv, Deferring
<1>2. /\ Running' /\ ReadyAgrees(prstate', readylist')
      /\ SleepAgrees(prstate', sleepq) /\ WaitAgrees(prstate', prsem, squeue)
      /\ Defer' \in [ndefers : Nat, attempt : BOOLEAN] /\ Defer'.ndefers = 0
  BY <1>1, DeferStopFacts DEF InterruptReturn
<1>. QED  BY <1>2, LeaveInv DEF InterruptReturn, Continues

-----------------------------------------------------------------------------
(***************************************************************************)
(* The theorems.                                                           *)
(***************************************************************************)

LEMMA InitInv ==
  ASSUME Init
  PROVE  IInv
<1>. USE TableAssumption, SliceAssumption, PrioAssumption, CountAssumption
<1>1. \A i \in 1 .. NSTART :
        /\ readylist[i] \in [pid : Pid, qkey : Int]
        /\ readylist[i].pid = IF i < NSTART THEN i + 1 ELSE NULLPROC
  BY DEF Init, Node, Pid
<1>2. DOMAIN readylist = 1 .. NSTART /\ readylist = [i \in 1 .. NSTART |-> readylist[i]]
  BY DEF Init
<1>3. readylist \in KeyedLists(Pid)
  <2>. DEFINE N == [pid : Pid, qkey : Int]
  <2>1. \A i \in 1 .. NSTART : readylist[i] \in N
    BY <1>1
  <2>. HIDE DEF N
  <2>2. readylist \in [1 .. NSTART -> N] /\ NSTART \in Nat
    BY <1>2, <2>1
  <2>3. readylist \in Seq(N)
    BY <2>2
  <2>. QED  BY <2>3 DEF KeyedLists, N
<1>4. Members(readylist) = {p \in Pid : p = NULLPROC \/ p \in 2 .. NSTART}
  <2>1. ASSUME NEW p \in Members(readylist)
        PROVE  p \in Pid /\ (p = NULLPROC \/ p \in 2 .. NSTART)
    <3>1. PICK i \in 1 .. NSTART : readylist[i].pid = p
      BY <1>2 DEF Members
    <3>. QED  BY <1>1, <3>1 DEF Pid
  <2>2. ASSUME NEW p \in 2 .. NSTART
        PROVE  p \in Members(readylist)
    <3>1. p - 1 \in 1 .. NSTART /\ readylist[p - 1].pid = p
      BY <1>1
    <3>. QED  BY SMT, SMTT(30), <1>2, <3>1 DEF Members
  <2>3. NULLPROC \in Members(readylist)
    <3>1. NSTART \in 1 .. NSTART /\ readylist[NSTART].pid = NULLPROC
      BY <1>1
    <3>. QED  BY <1>2, <3>1 DEF Members
  <2>. QED  BY <2>1, <2>2, <2>3
<1>5. Once(readylist)
  <2>1. ASSUME NEW i \in 1 .. NSTART, NEW j \in 1 .. NSTART,
               readylist[i].pid = readylist[j].pid
        PROVE  i = j
    BY <1>1, <2>1
  <2>. QED  BY SMT, SMTT(30), <1>2, <2>1 DEF Once
<1>6. /\ prstate \in [Pid -> State] /\ currpid = 1 /\ currpid \in Pid
      /\ \A p \in Pid : prstate[p] = IF p = 1 THEN "PR_CURR"
                                     ELSE IF p <= NSTART THEN "PR_READY"
                                     ELSE "PR_FREE"
  BY DEF Init, State, Pid
<1>7. Running
  BY <1>6, NullIsPid DEF Init, Running
<1>8. ReadyAgrees(prstate, readylist)
  <2>1. \A p \in Pid : prstate[p] = "PR_READY" <=> p = NULLPROC \/ p \in 2 .. NSTART
    BY <1>6 DEF Pid
  <2>. QED  BY <1>3, <1>4, <1>5, <2>1 DEF ReadyAgrees
<1>9. SleepAgrees(prstate, sleepq)
  <2>1. sleepq = <<>> /\ sleepq \in KeyedLists(Pid)
    BY DEF Init, KeyedLists
  <2>2. Members(sleepq) = {} /\ Once(sleepq)
    BY <2>1 DEF Members, Once
  <2>. QED  BY <1>6, <2>1, <2>2 DEF SleepAgrees
<1>10. WaitAgrees(prstate, prsem, squeue)
  <2>1. /\ squeue \in [Sem -> Seq(Pid)] /\ \A s \in Sem : squeue[s] = <<>>
        /\ prsem \in [Pid -> Sem \union {-1}]
    BY DEF Init, Sem
  <2>2. \A s \in Sem : DOMAIN squeue[s] = {}
    BY <2>1
  <2>. QED  BY <1>6, <2>1, <2>2 DEF WaitAgrees
<1>11. DataOK
  <2>1. (NSTART + 1) % NPROC \in Pid /\ 0 \in Sem /\ 1 \in Pid
    BY ModFacts DEF Pid, Sem
  <2>2. /\ prprio \in [Pid -> Int] /\ prparent \in [Pid -> Pid]
        /\ prmsg \in [Pid -> Message \union {NoMsg}] /\ victim \in [Pid -> Pid]
        /\ pc \in [Pid -> Place]
    BY <2>1, NullIsPid DEF Init, Place
  <2>3. /\ Defer \in [ndefers : Nat, attempt : BOOLEAN]
        /\ loop \in [sem : Sem, count : 0 .. MaxCount]
        /\ halted \in BOOLEAN
    <3>1. loop \in [sem : Sem, count : 0 .. MaxCount]
      BY <2>1 DEF Init, NoLoop
    <3>2. Defer \in [ndefers : Nat, attempt : BOOLEAN]
      BY DEF Init
    <3>3. halted \in BOOLEAN
      BY Zenon DEF Init
    <3>. QED  BY <3>1, <3>2, <3>3
  <2>. QED  BY <2>1, <2>2, <2>3, SMT, SMTT(30) DEF Init, DataOK
<1>12. DeferInv /\ KillInv
  BY <1>6 DEF Init, DeferInv, KillInv, Deferring
<1>13. SemInv
  <2>1. \A s \in Sem : squeue[s] = <<>> /\ Len(squeue[s]) = 0 /\ scount[s] = 0
    BY DEF Init
  <2>. QED  BY <2>1 DEF SemInv
<1>. QED  BY <1>7, <1>8, <1>9, <1>10, <1>11, <1>12, <1>13 DEF IInv, ListInv

\* Every step of the kernel preserves the inductive invariant.
LEMMA NextInv ==
  ASSUME IInv, [Next]_vars
  PROVE  IInv'
<1>1. CASE ProcessCall
  BY <1>1, CreateInv, CreateRefusedInv, ResumeInv, SuspendReadyInv, SuspendSelfInv,
     YieldInv, ChprioInv, KillLastInv, KillFirstInv DEF ProcessCall
<1>2. CASE MessageCall
  <2>1. CASE ReceiveNow
    <3>1. TakeMessage /\ UNCHANGED pc /\ pc[currpid] \notin Deferring
      BY <2>1 DEF ReceiveNow, Calls, UserMode, Deferring
    <3>. QED  BY <3>1, TakeMessageInv
  <2>. QED  BY <1>2, <2>1, SendInv, ReceiveInv, RecvtimeInv DEF MessageCall
<1>3. CASE SemaphoreCall
  BY <1>3, SemcreateInv, WaitInv, SignalInv, SignalnInv, SemdeleteInv, SemresetInv
     DEF SemaphoreCall
<1>4. CASE DelayCall
  BY <1>4, SleepmsInv DEF DelayCall
<1>5. CASE Tick
  BY <1>5, ClkhandlerInv, ClkhandlerDueInv DEF Tick
<1>6. CASE Interrupt
  BY <1>6, InterruptInv
<1>7. CASE KernelStep
  <2>1. CASE ReceiveResume
    <3>1. TakeMessage /\ GoTo("user") /\ pc[currpid] \notin Deferring
      BY <2>1 DEF ReceiveResume, Continues, Deferring
    <3>. QED  BY <3>1, TakeMessageInv
  <2>2. CASE RecvtimeResume
    <3>1. TakeMessage /\ GoTo("user") /\ pc[currpid] \notin Deferring
      BY <2>2 DEF RecvtimeResume, Continues, Deferring
    <3>. QED  BY <3>1, TakeMessageInv
  <2>3. CASE KillSelf \/ KillSleeper \/ KillWaiter \/ KillReady \/ KillOther
    BY <2>3, KillSelfInv, KillSleeperInv, KillWaiterInv, KillReadyInv, KillOtherInv
  <2>4. CASE SignalnNext \/ SignalnEnd \/ SemdeleteNext \/ SemdeleteEnd
               \/ SemresetNext \/ SemresetEnd
    BY <2>4, SignalnNextInv, SignalnEndInv, SemdeleteNextInv, SemdeleteEndInv,
       SemresetNextInv, SemresetEndInv
  <2>5. CASE WakeupNext \/ WakeupEnd \/ (\E s \in Sem : InterruptSignal(s))
               \/ InterruptReturn
    BY <2>5, WakeupNextInv, WakeupEndInv, InterruptSignalInv, InterruptReturnInv
  <2>. QED  BY <1>7, <2>1, <2>2, <2>3, <2>4, <2>5 DEF KernelStep
<1>8. CASE UNCHANGED vars
  <2>1. UNCHANGED <<procvars, semvars, runvars, ctlvars, prmsg, sleepq, Defer>>
    BY <1>8 DEF vars
  <2>2. ListInv' /\ DataOK'
    BY <2>1 DEF IInv, ListInv, Running, DataOK, procvars, semvars, runvars, ctlvars
  <2>3. DeferInv' /\ KillInv'
    BY <2>1 DEF IInv, DeferInv, KillInv, runvars, ctlvars
  <2>4. SemInv'
    BY <2>1 DEF IInv, SemInv, Resetting, Deleting, semvars, runvars, ctlvars
  <2>. QED  BY <2>2, <2>3, <2>4 DEF IInv
<1>. QED  BY <1>1, <1>2, <1>3, <1>4, <1>5, <1>6, <1>7, <1>8 DEF Next, Halted

\* The inductive invariant holds in every reachable state of the kernel: lists,
\* states, counts, deferral and kills under way agree after every step.
THEOREM KernelInvariant == Spec => []IInv
<1>1. Init => IInv
  BY InitInv
<1>2. IInv /\ [Next]_vars => IInv'
  BY NextInv
<1>. QED  BY <1>1, <1>2, PTL DEF Spec

\* The tables, lists and counters of the kernel always have their types.
THEOREM TypeCorrect == Spec => []TypeOK
<1>1. IInv => TypeOK
  BY IInvParts
<1>. QED  BY <1>1, KernelInvariant, PTL

\* A process is in exactly the list its state names, whatever calls, kills and
\* interrupts interleave.
THEOREM QueuesAgree == Spec => []QueueInv
<1>1. IInv => QueueInv
  BY IInvParts
<1>. QED  BY <1>1, KernelInvariant, PTL

\* A negative semaphore count is the number of waiters, and a free entry has
\* none.
THEOREM SemaphoreCounts == Spec => []SemInv
<1>1. IInv => SemInv
  BY IInvParts
<1>. QED  BY <1>1, KernelInvariant, PTL

\* The null process can always run, so resched has a process to dispatch.
THEOREM NullAlwaysEligible == Spec => []NullEligible
<1>1. IInv => NullEligible
  BY IInvParts
<1>. QED  BY <1>1, KernelInvariant, PTL

\* Rescheduling is deferred exactly inside the loops and interrupts that defer
\* it, and never by a process that is switched out.
THEOREM DeferralBalanced == Spec => []DeferInv
<1>1. IInv => DeferInv
  BY IInvParts
<1>. QED  BY <1>1, KernelInvariant, PTL
=============================================================================
