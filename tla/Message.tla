------------------------------ MODULE Message ------------------------------
(***************************************************************************)
(* One-word messages as the network code uses them: a process empties its  *)
(* message with recvclr, waits with recvtime, and is released by send or   *)
(* by the clock.  Other processes may run before it does; what it finds    *)
(* then decides what recvtime returns.  Kernel models the calls            *)
(* themselves.                                                             *)
(***************************************************************************)

NoMsg == "none"
OK == "OK"
TIMEOUT == "TIMEOUT"

\* A process: "run", "rectim" (waits), "ready" (released), and its message.
Running == [prstate |-> "run", prmsg |-> NoMsg]

\* send: refused when the receiver has a message.
send(proc, p, m) ==
  IF proc[p].prmsg # NoMsg THEN proc
  ELSE [proc EXCEPT ![p] =
         [prmsg |-> m,
          prstate |-> IF @.prstate = "rectim" THEN "ready" ELSE @.prstate]]

\* recvclr and then recvtime.
recvtime(proc, p) ==
  [proc EXCEPT ![p] = [prstate |-> "rectim", prmsg |-> NoMsg]]

\* The clock ends the wait.
Expire(proc, p) == [proc EXCEPT ![p].prstate = "ready"]

\* What recvtime returns when the process runs again.
Answer(proc, p) ==
  IF proc[p].prmsg = NoMsg THEN TIMEOUT ELSE proc[p].prmsg

Taken(proc, p) == [proc EXCEPT ![p] = Running]
=============================================================================
