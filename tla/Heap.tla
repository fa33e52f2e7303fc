-------------------------------- MODULE Heap --------------------------------
(***************************************************************************)
(* What the memory manager promises to its callers: a request is given     *)
(* bytes of the heap that nobody else holds, and it is refused only when   *)
(* no run of free bytes is long enough for it.  There is no free list      *)
(* here, only the blocks that are held.                                    *)
(***************************************************************************)
EXTENDS Integers

CONSTANTS MINHEAP, MAXHEAP,   \* the heap is MINHEAP .. MAXHEAP - 1
          Unit,               \* blocks start and end at multiples of Unit
          Sizes,              \* the sizes of blocks
          SYSERR              \* the answer to a request that is refused

VARIABLES held,               \* the blocks held, [addr, size]
          answer              \* the answer to the last request

Apart(a, b) == a.addr + a.size <= b.addr \/ b.addr + b.size <= a.addr

Places == {a \in MINHEAP .. MAXHEAP : a % Unit = 0}

\* A block that could be given out.
Available(b) == /\ b.addr + b.size <= MAXHEAP
                /\ \A h \in held : Apart(b, h)

HeapInit == held = {} /\ answer = SYSERR

Grant(n) == \E a \in Places :
  LET b == [addr |-> a, size |-> n]
  IN Available(b) /\ held' = held \union {b} /\ answer' = b

Refuse(n) ==
  /\ ~ \E a \in Places : Available([addr |-> a, size |-> n])
  /\ answer' = SYSERR
  /\ UNCHANGED held

Return(b) == held' = held \ {b} /\ UNCHANGED answer

HeapNext == \/ \E n \in Sizes : Grant(n) \/ Refuse(n)
            \/ \E b \in held : Return(b)

HeapSpec == HeapInit /\ [][HeapNext]_<<held, answer>>
=============================================================================
