------------------------------ MODULE MCKernel ------------------------------
(***************************************************************************)
(* Instances of the kernel for TLC.                                        *)
(***************************************************************************)
EXTENDS Kernel

\* Priorities of the processes at the start: all equal, or the last one lower.
Equal == [i \in 1 .. NSTART |-> 2]
LastLower == [i \in 1 .. NSTART |-> IF i = NSTART THEN 1 ELSE 2]

\* The calls of programs that synchronise with semaphores.
SemaphoreWorkload ==
  {"semcreate", "wait", "signal", "signaln", "semdelete", "semreset", "irq",
   "kill"}

\* The calls of programs that start, stop and end processes.
ProcessWorkload == {"create", "resume", "suspend", "yield", "kill"}

\* The calls of programs that exchange messages.
MessageWorkload ==
  {"send", "receive", "recvclr", "create", "resume", "chprio", "kill"}

\* The calls of programs that use time.
TimerWorkload ==
  {"sleepms", "recvtime", "receive", "send", "suspend", "resume", "kill"}

\* The calls of programs that compete for the processor, and sleep.
SliceWorkload ==
  {"yield", "sleepms", "recvtime", "send", "suspend", "resume", "create"}

\* The calls of programs that change priorities.
PriorityWorkload == {"chprio", "yield", "suspend", "resume"}
=============================================================================
