------------------------------ MODULE FileMode ------------------------------
(***************************************************************************)
(* The mode strings of the remote and the local file systems (rfsgetmode   *)
(* and lfgetmode, which are the same): letters in any order, each at most  *)
(* once, and not both old and new.                                         *)
(***************************************************************************)
EXTENDS Naturals, Sequences

SYSERR == {"SYSERR"}

\* One letter: the bits so far and the bits with it.
Step(bits, ch) ==
  IF \/ bits = SYSERR
     \/ ch \notin {"r", "w", "o", "n"}
     \/ ch \in {"r", "w"} /\ ch \in bits
     \/ ch \in {"o", "n"} /\ bits \intersect {"o", "n"} # {}
  THEN SYSERR ELSE bits \union {ch}

getmode(s) ==
  LET bits[k \in 0 .. Len(s)] == IF k = 0 THEN {} ELSE Step(bits[k - 1], s[k])
      all == bits[Len(s)]
  IN IF all # SYSERR /\ all \intersect {"r", "w"} = {} THEN all \union {"r", "w"} ELSE all
=============================================================================
