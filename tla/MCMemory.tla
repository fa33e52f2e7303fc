------------------------------ MODULE MCMemory ------------------------------
(***************************************************************************)
(* Instances of the memory manager for TLC: a heap of six units of 8 bytes *)
(* in a word of 7 bits.                                                    *)
(***************************************************************************)
EXTENDS Memory

\* Sizes that need one, two and three units, two of them not multiples of 8.
SmallRequests == {5, 12, 24}

\* A size that is rounded to more than the word holds.
HugeRequests == {8, WORD - 1}
=============================================================================
