----------------------------- MODULE DelayTimers -----------------------------
(***************************************************************************)
(* What the sleep queue promises: each delayed process has a timer of its  *)
(* own.  A tick brings every timer one closer to zero, none passes zero,   *)
(* and a process loses its timer when it reaches zero, or earlier only if  *)
(* it is excused: it has a message to receive, or it was killed.           *)
(***************************************************************************)
EXTENDS Integers

CONSTANTS
  Proc,   \* processes
  Length  \* delays they may ask for, in ticks

VARIABLES
  remaining,  \* for each delayed process, the ticks it has left
  excused     \* the processes that need not wait any longer

vars == <<remaining, excused>>

Delayed == DOMAIN remaining

Init == remaining = [p \in {} |-> 0] /\ excused \in SUBSET Proc

Set(p, d) ==
  /\ p \notin Delayed
  /\ remaining' = [q \in Delayed \union {p} |-> IF q = p THEN d ELSE remaining[q]]

Without(p) == [q \in Delayed \ {p} |-> remaining[q]]

Expire(p) == remaining[p] = 0 /\ remaining' = Without(p)

Cancel(p) == p \in excused' /\ remaining' = Without(p)

Tick ==
  /\ \A p \in Delayed : remaining[p] > 0
  /\ remaining' = [p \in Delayed |-> remaining[p] - 1]

Next ==
  /\ excused' \in SUBSET Proc
  /\ \/ \E p \in Proc, d \in Length : Set(p, d)
     \/ \E p \in Delayed : Expire(p)
     \/ \E p \in Delayed : Cancel(p)
     \/ Tick
     \/ UNCHANGED remaining

Spec == Init /\ [][Next]_vars
=============================================================================
