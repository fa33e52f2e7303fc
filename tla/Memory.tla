------------------------------- MODULE Memory -------------------------------
(***************************************************************************)
(* The memory manager: a list of free blocks in the order of their         *)
(* addresses, from which getmem takes the first block that is large enough *)
(* and getstk the last one, and to which freemem gives blocks back.  Every *)
(* call runs with interrupts disabled and is one action.                   *)
(***************************************************************************)
EXTENDS Integers, Sequences, FiniteSets, FiniteSetsExt

CONSTANTS MINHEAP, MAXHEAP,   \* start of the heap and the address behind it
          WORD,               \* 2^32 in the code: addresses wrap around
          Requests            \* the sizes that programs ask for

ASSUME HeapAssumption ==
  /\ MINHEAP \in Nat /\ MAXHEAP \in Nat /\ WORD \in Nat
  /\ 0 < MINHEAP /\ MINHEAP < MAXHEAP /\ MAXHEAP + (MAXHEAP - MINHEAP) < WORD
  /\ MINHEAP % 8 = 0 /\ MAXHEAP % 8 = 0 /\ WORD % 8 = 0
  /\ Requests \subseteq 1 .. WORD - 1

VARIABLES
  memlist,    \* the free blocks: a sequence of [addr, mlength]
  mlength,    \* memlist.mlength, the free bytes
  owned,      \* what programs hold: the pointer they were given, the size
              \* they asked for, and whether getstk gave it to them
  answer      \* what the last getmem or getstk returned (a member of owned, or
              \* SYSERR)

vars == <<memlist, mlength, owned, answer>>

\* A pointer, and what getmem and getstk return when they fail.
Holding(p, n, stk) == [ptr |-> p, nbytes |-> n, stack |-> stk]

SYSERR == Holding(-1, 0, FALSE)

Block(a, n) == [addr |-> a, mlength |-> n]

End(b) == b.addr + b.mlength

-----------------------------------------------------------------------------
(* Rounding, in 32 bits. *)

\* (Mutant: rounds to words.)
roundmbWord(n) == (((n + 3) % WORD) \div 4) * 4

\* Round a size up to memory blocks of 8 bytes.
roundmb(n) == (((n + 7) % WORD) \div 8) * 8

\* sizeof(uint32), the distance of a stack's base from its end.
sizeofWord == 4

-----------------------------------------------------------------------------
(* Taking a block off the list. *)

\* The places of the blocks with room for n bytes.
Fits(n) == {i \in DOMAIN memlist : memlist[i].mlength >= n}

\* The list q without the block at place i.
Unlink(q, i) == SubSeq(q, 1, i - 1) \o SubSeq(q, i + 1, Len(q))

\* getmem: the scan stops at the first block that fits and takes its low end.
GetmemAt(n) == Min(Fits(n))

TakeLow(i, n) ==
  IF memlist[i].mlength = n
  THEN Unlink(memlist, i)
  ELSE [memlist EXCEPT ![i] = Block(memlist[i].addr + n,
                                    memlist[i].mlength - n)]

\* getstk: the scan goes on to the last block that fits and takes its high end.
GetstkAt(n) == Max(Fits(n))

TakeHigh(i, n) ==
  IF memlist[i].mlength = n
  THEN Unlink(memlist, i)
  ELSE [memlist EXCEPT ![i] = Block(memlist[i].addr, memlist[i].mlength - n)]

\* (Mutant: the address of what is left, not of what is taken.)
StackBaseLow(i, n) == memlist[i].addr

\* The lowest address of the stack that TakeHigh takes.
StackBase(i, n) == memlist[i].addr + memlist[i].mlength - n

-----------------------------------------------------------------------------
(* Giving a block back. *)

\* The walk of freemem ends behind the last block below the address.
Before(block) ==
  Max({0} \union {i \in DOMAIN memlist : \A j \in 1 .. i : memlist[j].addr < block})

\* The end of the block before, NULL when there is none.
Top(at) == IF at = 0 THEN 0 ELSE End(memlist[at]) % WORD

\* (Mutant: also a block that touches the one before.)
RefusedTouching(block, nbytes) ==
  LET at == Before(block)
  IN \/ nbytes = 0 \/ block < MINHEAP \/ block > MAXHEAP
     \/ at > 0 /\ block <= Top(at)
     \/ /\ at < Len(memlist)
        /\ (block + roundmb(nbytes)) % WORD > memlist[at + 1].addr

\* (Mutant: the block behind is not looked at.)
RefusedBelow(block, nbytes) ==
  LET at == Before(block)
  IN \/ nbytes = 0 \/ block < MINHEAP \/ block > MAXHEAP
     \/ at > 0 /\ block < Top(at)

\* What freemem refuses: addresses outside the heap, and blocks that overlap a
\* free one.
Refused(block, nbytes) ==
  LET at == Before(block)
      n  == roundmb(nbytes)
  IN \/ nbytes = 0 \/ block < MINHEAP \/ block > MAXHEAP
     \/ at > 0 /\ block < Top(at)
     \/ at < Len(memlist) /\ (block + n) % WORD > memlist[at + 1].addr

\* (Mutant: the block does not coalesce with the one behind it.)
GiveBelow(block, n) ==
  LET at    == Before(block)
      joins == at > 0 /\ Top(at) = block
      low   == IF joins THEN Block(memlist[at].addr, memlist[at].mlength + n)
                        ELSE Block(block, n)
  IN SubSeq(memlist, 1, IF joins THEN at - 1 ELSE at)
     \o <<low>> \o SubSeq(memlist, at + 1, Len(memlist))

\* The block coalesces with the one before it and with the one behind it.
Give(block, n) ==
  LET at    == Before(block)
      joins == at > 0 /\ Top(at) = block
      low   == IF joins THEN Block(memlist[at].addr, memlist[at].mlength + n)
                        ELSE Block(block, n)
      meets == at < Len(memlist) /\ End(low) = memlist[at + 1].addr
      new   == IF meets
               THEN Block(low.addr, low.mlength + memlist[at + 1].mlength)
               ELSE low
  IN SubSeq(memlist, 1, IF joins THEN at - 1 ELSE at)
     \o <<new>>
     \o SubSeq(memlist, IF meets THEN at + 2 ELSE at + 1, Len(memlist))

-----------------------------------------------------------------------------
(* The calls. *)

\* meminit: one block.
Init ==
  /\ memlist = <<Block(MINHEAP, MAXHEAP - MINHEAP)>>
  /\ mlength = MAXHEAP - MINHEAP
  /\ owned = {}
  /\ answer = SYSERR

Getmem(nbytes) ==
  LET n == roundmb(nbytes)
      i == GetmemAt(n)
      new == Holding(memlist[i].addr, nbytes, FALSE)
  IN /\ Fits(n) # {}
     /\ memlist' = TakeLow(i, n)
     /\ mlength' = (mlength - n) % WORD
     /\ owned' = owned \union {new}
     /\ answer' = new

Getstk(nbytes) ==
  LET n == roundmb(nbytes)
      i == GetstkAt(n)
      new == Holding(StackBase(i, n) + n - sizeofWord, nbytes, TRUE)
  IN /\ Fits(n) # {}
     /\ memlist' = TakeHigh(i, n)
     /\ mlength' = (mlength - n) % WORD
     /\ owned' = owned \union {new}
     /\ answer' = new

\* getmem or getstk when no block is large enough.
NoMemory(nbytes) ==
  /\ Fits(roundmb(nbytes)) = {}
  /\ answer' = SYSERR
  /\ UNCHANGED <<memlist, mlength, owned>>

\* Where a program's block starts: freestk computes it from the stack's base.
Base(b) == IF b.stack THEN (b.ptr - roundmb(b.nbytes) + sizeofWord) % WORD
                      ELSE b.ptr

\* The size that is passed to freemem.
Passed(b) == IF b.stack THEN roundmb(b.nbytes) ELSE b.nbytes

\* (Mutant: counts the bytes as they were asked for.)
FreememUnrounded(b) ==
  /\ ~ Refused(Base(b), Passed(b))
  /\ memlist' = Give(Base(b), roundmb(Passed(b)))
  /\ mlength' = (mlength + b.nbytes) % WORD
  /\ owned' = owned \ {b}
  /\ UNCHANGED answer

\* freemem, or freestk, of a block the program holds.
Freemem(b) ==
  LET n == roundmb(Passed(b))
  IN /\ ~ Refused(Base(b), Passed(b))
     /\ memlist' = Give(Base(b), n)
     /\ mlength' = (mlength + n) % WORD
     /\ owned' = owned \ {b}
     /\ UNCHANGED answer

Next == \/ \E n \in Requests : Getmem(n) \/ Getstk(n) \/ NoMemory(n)
        \/ \E b \in owned : Freemem(b)

Spec == Init /\ [][Next]_vars

-----------------------------------------------------------------------------
(* Correctness. *)

InHeap(b) == MINHEAP <= b.addr /\ End(b) <= MAXHEAP

Apart(a, b) == End(a) <= b.addr \/ End(b) <= a.addr

Free == {memlist[i] : i \in DOMAIN memlist}

Aligned(a) == a % 8 = 0

\* Types, and blocks that start and end at multiples of 8: a free block has room
\* for its header (struct memblk) whatever splits and joins came before, and the
\* start that freestk computes for a stack is such an address again.
TypeOK ==
  /\ memlist \in Seq([addr : Nat, mlength : Nat])
  /\ mlength \in 0 .. WORD - 1
  /\ \A f \in Free : Aligned(f.addr) /\ Aligned(f.mlength)
  /\ \A b \in owned : Aligned(Base(b))
  /\ \A b \in owned : /\ b.ptr \in 0 .. WORD - 1
                      /\ b.nbytes \in Requests
                      /\ b.stack \in BOOLEAN
  /\ answer = SYSERR \/ answer.nbytes \in Requests

\* The free blocks lie in the heap, in the order of their addresses, with bytes
\* in use between any two of them: getmem, getstk and freemem keep the list
\* sorted and freemem coalesces on both sides.
ListOrdered ==
  /\ \A i \in DOMAIN memlist : memlist[i].mlength > 0 /\ InHeap(memlist[i])
  /\ \A i, j \in DOMAIN memlist : i < j => End(memlist[i]) < memlist[j].addr

\* The bytes that a caller may use: as many as it asked for, from the address
\* getmem returned, or down from the word whose address getstk returned.
Region(b) ==
  Block(IF b.stack THEN b.ptr + sizeofWord - b.nbytes ELSE b.ptr, b.nbytes)

\* The bytes that callers of getmem and getstk asked for lie in the heap, belong
\* to one caller only, and are not on the free list.
Disjoint ==
  /\ \A b \in owned : InHeap(Region(b))
  /\ \A b, c \in owned : b = c \/ Apart(Region(b), Region(c))
  /\ \A b \in owned : \A f \in Free : Apart(Region(b), f)

\* The bytes of a block, those on the free list, and the block that getmem or
\* getstk took off the list for a caller.
Bytes(b) == b.addr .. End(b) - 1
FreeBytes == UNION {Bytes(f) : f \in Free}
Taken(b) == Block(Base(b), roundmb(b.nbytes))

\* Every byte of the heap is free or taken for one caller, and memlist.mlength
\* counts the free ones: splitting and coalescing lose nothing.
Conserved ==
  /\ mlength = Cardinality(FreeBytes)
  /\ FreeBytes \union UNION {Bytes(Taken(b)) : b \in owned} = MINHEAP .. MAXHEAP - 1
  /\ \A b \in owned : FreeBytes \intersect Bytes(Taken(b)) = {}
  /\ \A b, c \in owned : b = c \/ Bytes(Taken(b)) \intersect Bytes(Taken(c)) = {}

\* freemem never refuses a block that its caller holds.
FreeAccepted == \A b \in owned : ~ Refused(Base(b), Passed(b))

\* freemem refuses to free bytes that are free already, whatever size it is told
\* as long as the rounded block ends inside the address space: at a larger size
\* the sum in freemem wraps around and the test for overlap says nothing.
DoubleFreeRefused ==
  \A f \in Free : \A a \in f.addr .. End(f) - 1 : \A n \in 1 .. WORD - 1 :
    Aligned(a) /\ a + n + 7 < WORD => Refused(a, n)

\* The free list implements the promise of Heap: in particular a request fails
\* only when no run of free bytes is long enough, because freemem coalesces.
Promise(b) == [addr |-> Base(b), size |-> roundmb(b.nbytes)]

Refused0 == [addr |-> -1, size |-> 0]

HeapI == INSTANCE Heap WITH
  held <- {Promise(b) : b \in owned},
  answer <- IF answer = SYSERR THEN Refused0 ELSE Promise(answer),
  SYSERR <- Refused0, Unit <- 8, Sizes <- {roundmb(n) : n \in Requests}

ImplementsHeap == HeapI!HeapSpec
=============================================================================
