----------------------------- MODULE MemoryProof -----------------------------
(***************************************************************************)
(* Proofs about the memory manager, for every heap and every set of sizes  *)
(* that programs ask for, as long as rounding a size up does not overflow  *)
(* a word (NoWrap).                                                        *)
(*                                                                         *)
(* The inductive invariant IInv describes the heap byte by byte. The free  *)
(* list is sorted, with a gap behind every block (Sorted); what a caller   *)
(* holds is a run of whole units inside the heap (Held); no byte is held   *)
(* twice (Separate); and a byte is on the free list exactly when nobody    *)
(* holds it (Partition). Partition is what makes coalescing visible: free  *)
(* bytes next to each other are in one block, so when the list cannot      *)
(* serve a request there is no run of free bytes that could.               *)
(***************************************************************************)
EXTENDS Memory, FiniteSetTheorems, WellFoundedInduction, TLAPS

\* roundmb of a size that is asked for fits into a word.
NoWrap == \A n \in Requests : n + 7 < WORD

BlockType == [addr : Nat, mlength : Nat]

HoldingType == [ptr : Nat, nbytes : Requests, stack : BOOLEAN]

\* A block starts and ends at multiples of 8.
Whole(b) == Aligned(b.addr) /\ Aligned(b.mlength)

Sorted ==
  /\ memlist \in Seq(BlockType)
  /\ \A i \in DOMAIN memlist : Whole(memlist[i])
  /\ ListOrdered

\* What a caller holds is one or more units of the heap; a pointer to a stack is
\* that of its last word.
Held ==
  /\ owned \subseteq HoldingType
  /\ \A b \in owned :
       /\ Base(b) \in Nat /\ Whole(Taken(b)) /\ InHeap(Taken(b))
       /\ b.ptr = Base(b) + (IF b.stack THEN roundmb(b.nbytes) - sizeofWord ELSE 0)

Within(a, b) == b.addr <= a /\ a < End(b)

FreeByte(a) == \E i \in DOMAIN memlist : Within(a, memlist[i])

\* No byte is held twice.
Separate == \A b, c \in owned : b = c \/ Apart(Taken(b), Taken(c))

\* A byte of the heap is on the free list when nobody holds it, and only then.
Partition ==
  \A a \in MINHEAP .. MAXHEAP - 1 :
    FreeByte(a) <=> \A b \in owned : ~ Within(a, Taken(b))

\* The count of free bytes is a word, and an answer is to a request.
Counts ==
  /\ mlength \in 0 .. WORD - 1
  /\ answer = SYSERR \/ answer.nbytes \in Requests

IInv == Sorted /\ Held /\ Separate /\ Partition /\ Counts
-----------------------------------------------------------------------------
(* Rounding. *)

\* roundmb gives the next multiple of 8.
LEMMA Rounds ==
  ASSUME NEW n \in Nat, n + 7 < WORD
  PROVE  /\ roundmb(n) \in Nat /\ roundmb(n) % 8 = 0
         /\ n <= roundmb(n) /\ roundmb(n) <= n + 7
<1>1. WORD \in Nat \ {0} /\ (n + 7) % WORD = n + 7
  BY HeapAssumption
<1>2. roundmb(n) = ((n + 7) \div 8) * 8
  BY <1>1 DEF roundmb
<1>. QED
  BY <1>2

\* A multiple of 8 is rounded already: freestk rounds a size, and freemem again.
LEMMA RoundsOnce ==
  ASSUME NEW n \in Nat, n % 8 = 0, n + 7 < WORD
  PROVE  roundmb(n) = n
  BY Rounds

\* The sizes that are asked for.
LEMMA Sizes ==
  ASSUME NoWrap, NEW n \in Requests
  PROVE  /\ n \in Nat /\ n > 0 /\ roundmb(n) \in Nat /\ roundmb(n) % 8 = 0
         /\ n <= roundmb(n) /\ roundmb(n) <= n + 7 /\ roundmb(n) >= 8
  BY SMT, SMTT(30), Rounds, HeapAssumption DEF NoWrap
-----------------------------------------------------------------------------
(* Lists of blocks. *)

\* A block of a list has an address and a length.
LEMMA BlockFields ==
  ASSUME NEW q \in Seq(BlockType), NEW i \in 1 .. Len(q)
  PROVE  q[i] \in BlockType /\ q[i].addr \in Nat /\ q[i].mlength \in Nat
<1>1. q[i] \in BlockType
  OBVIOUS
<1>. QED
  BY <1>1 DEF BlockType

\* What a concatenation consists of.
LEMMA Concatenated ==
  ASSUME NEW S, NEW a \in Seq(S), NEW c \in Seq(S)
  PROVE  /\ a \o c \in Seq(S) /\ Len(a \o c) = Len(a) + Len(c)
         /\ \A j \in 1 .. Len(a) + Len(c) :
              (a \o c)[j] = IF j <= Len(a) THEN a[j] ELSE c[j - Len(a)]
<1>1. a \o c \in Seq(S)
  OBVIOUS
<1>2. Len(a \o c) = Len(a) + Len(c)
  OBVIOUS
<1>3. ASSUME NEW j \in 1 .. Len(a) + Len(c)
      PROVE  (a \o c)[j] = IF j <= Len(a) THEN a[j] ELSE c[j - Len(a)]
  OBVIOUS
<1>. QED  BY <1>1, <1>2, <1>3

\* Unlink takes one element out and moves those behind it.
LEMMA RemoveElements ==
  ASSUME NEW S, NEW q \in Seq(S), NEW i \in 1 .. Len(q)
  PROVE  /\ Unlink(q, i) \in Seq(S)
         /\ Len(Unlink(q, i)) = Len(q) - 1
         /\ \A j \in 1 .. Len(q) - 1 :
              Unlink(q, i)[j] = IF j < i THEN q[j] ELSE q[j + 1]
<1>. DEFINE a == SubSeq(q, 1, i - 1)
            c == SubSeq(q, i + 1, Len(q))
<1>1. /\ a \in Seq(S) /\ Len(a) = i - 1
      /\ \A j \in 1 .. i - 1 : a[j] = q[j]
  OBVIOUS
<1>2. /\ c \in Seq(S) /\ Len(c) = Len(q) - i
      /\ \A j \in 1 .. Len(q) - i : c[j] = q[i + j]
  OBVIOUS
<1>. HIDE DEF a, c
<1>3. /\ a \o c \in Seq(S) /\ Len(a \o c) = Len(q) - 1
      /\ \A j \in 1 .. Len(q) - 1 : (a \o c)[j] = IF j < i THEN q[j] ELSE q[j + 1]
  <2>1. /\ a \o c \in Seq(S) /\ Len(a \o c) = Len(a) + Len(c)
        /\ \A j \in 1 .. Len(a) + Len(c) :
             (a \o c)[j] = IF j <= Len(a) THEN a[j] ELSE c[j - Len(a)]
    BY <1>1, <1>2, Concatenated, Zenon
  <2>. QED BY SMT, SMTT(30), <2>1, <1>1, <1>2
<1>. QED
  BY <1>3 DEF Unlink, a, c

\* Replaces the elements of q between place l and place r by x.
Splice(q, l, x, r) == SubSeq(q, 1, l) \o <<x>> \o SubSeq(q, r, Len(q))

\* What freemem writes: the blocks before, one block, and those behind.
LEMMA SpliceElements ==
  ASSUME NEW S, NEW q \in Seq(S), NEW x \in S,
         NEW l \in 0 .. Len(q), NEW r \in 1 .. Len(q) + 1, l < r
  PROVE  /\ Splice(q, l, x, r) \in Seq(S)
         /\ Len(Splice(q, l, x, r)) = Len(q) + l + 2 - r
         /\ \A j \in 1 .. Len(q) + l + 2 - r :
              Splice(q, l, x, r)[j] = IF j <= l THEN q[j]
                                      ELSE IF j = l + 1 THEN x ELSE q[j + r - l - 2]
<1>. DEFINE a == SubSeq(q, 1, l)
            c == SubSeq(q, r, Len(q))
            b == a \o <<x>>
<1>1. /\ a \in Seq(S) /\ Len(a) = l
      /\ \A j \in 1 .. l : a[j] = q[j]
  OBVIOUS
<1>2. /\ c \in Seq(S) /\ Len(c) = Len(q) - r + 1
      /\ \A j \in 1 .. Len(q) - r + 1 : c[j] = q[r + j - 1]
  OBVIOUS
<1>3. <<x>> \in Seq(S) /\ Len(<<x>>) = 1 /\ <<x>>[1] = x
  OBVIOUS
<1>4. /\ b \in Seq(S) /\ Len(b) = l + 1
      /\ \A j \in 1 .. l + 1 : b[j] = IF j <= l THEN q[j] ELSE x
  BY SMT, SMTT(30), <1>1, <1>3
<1>5. /\ b \o c \in Seq(S) /\ Len(b \o c) = Len(q) + l + 2 - r
      /\ \A j \in 1 .. Len(q) + l + 2 - r :
           (b \o c)[j] = IF j <= l THEN q[j]
                         ELSE IF j = l + 1 THEN x ELSE q[j + r - l - 2]
  <2>. HIDE DEF b, c
  <2>1. /\ b \o c \in Seq(S) /\ Len(b \o c) = Len(b) + Len(c)
        /\ \A j \in 1 .. Len(b) + Len(c) :
             (b \o c)[j] = IF j <= Len(b) THEN b[j] ELSE c[j - Len(b)]
    BY <1>2, <1>4, Concatenated, Zenon
  <2>. QED BY SMT, SMTT(30), <2>1, <1>2, <1>4
<1>. QED
  BY <1>5 DEF Splice
-----------------------------------------------------------------------------
(* Searches. *)

\* A search upwards finds the first.
LEMMA LeastOfNat ==
  ASSUME NEW S \in SUBSET Nat, S # {}
  PROVE  \E m \in S : \A k \in S : m <= k
<1>1. PICK m \in S : \A k \in S : <<k, m>> \notin OpToRel(<, Nat)
  BY WFMin, NatLessThanWellFounded, Zenon
<1>2. \A k \in S : ~ (k < m)
  BY <1>1, Zenon DEF OpToRel
<1>3. \A k \in S : m <= k
  BY <1>2, SMT
<1>. QED
  BY <1>3, Zenon

\* A search that goes on to the end finds the last.
LEMMA GreatestOfNat ==
  ASSUME NEW l \in Nat, NEW S \in SUBSET (0 .. l), S # {}
  PROVE  \E m \in S : \A k \in S : m >= k
<1>. DEFINE T == {l - i : i \in S}
<1>1. T \in SUBSET Nat /\ T # {}
  <2>1. \A i \in S : l - i \in Nat
    OBVIOUS
  <2>. QED BY <2>1, Zenon
<1>2. PICK d \in T : \A e \in T : d <= e
  <2>. HIDE DEF T
  <2>. QED BY <1>1, LeastOfNat, Zenon
<1>3. PICK m \in S : d = l - m
  BY <1>2, Zenon
<1>4. \A k \in S : l - m <= l - k
  BY <1>2, <1>3
<1>. QED
  BY <1>4

\* The scan of getmem ends at a block that fits, and so does that of getstk.
LEMMA Scans ==
  ASSUME Sorted, NEW n \in Nat, Fits(n) # {}
  PROVE  GetmemAt(n) \in Fits(n) /\ GetstkAt(n) \in Fits(n)
<1>1. Len(memlist) \in Nat /\ Fits(n) \in SUBSET (0 .. Len(memlist))
  BY DEF Fits, Sorted
<1>2. \E m \in Fits(n) : \A k \in Fits(n) : m <= k
  BY SMT, SMTT(30), <1>1, LeastOfNat
<1>3. \E m \in Fits(n) : \A k \in Fits(n) : m >= k
  BY <1>1, GreatestOfNat, Zenon
<1>. QED
  BY <1>2, <1>3, Zenon DEF GetmemAt, GetstkAt, Min, Max

\* The walk of freemem ends between the blocks below the address and the others.
LEMMA Walks ==
  ASSUME memlist \in Seq(BlockType), NEW a \in Nat
  PROVE  /\ Before(a) \in 0 .. Len(memlist)
         /\ \A i \in 1 .. Before(a) : memlist[i].addr < a
         /\ Before(a) < Len(memlist) => memlist[Before(a) + 1].addr >= a
<1>. DEFINE l == Len(memlist)
            S == {0} \union {i \in DOMAIN memlist :
                              \A j \in 1 .. i : memlist[j].addr < a}
            m == Before(a)
<1>1. l \in Nat /\ DOMAIN memlist = 1 .. l
  OBVIOUS
<1>2. S \in SUBSET (0 .. l) /\ S # {}
  BY <1>1
<1>3. m \in S /\ \A k \in S : m >= k
  <2>1. m = Max(S)
    BY Zenon DEF Before
  <2>. HIDE DEF S, m
  <2>2. \E k \in S : \A i \in S : k >= i
    BY <1>1, <1>2, GreatestOfNat, Zenon
  <2>. QED BY <2>1, <2>2, Zenon DEF Max
<1>. HIDE DEF m
<1>4. m \in 0 .. l /\ \A i \in 1 .. m : memlist[i].addr < a
  BY <1>1, <1>3
<1>5. ASSUME m < l
      PROVE  memlist[m + 1].addr >= a
  <2>1. m + 1 \in 1 .. l /\ m + 1 \notin S
    BY <1>1, <1>3, <1>4, <1>5
  <2>2. ~ (memlist[m + 1].addr < a)
    BY <1>1, <1>4, <2>1
  <2>3. memlist[m + 1].addr \in Nat
    BY <2>1, BlockFields
  <2>. QED BY <2>2, <2>3
<1>. QED
  BY <1>4, <1>5 DEF m
-----------------------------------------------------------------------------
(* Blocks and their bytes. *)

\* Blocks that share no byte lie one before the other.
LEMMA ApartBytes ==
  ASSUME NEW x \in BlockType, NEW y \in BlockType, x.mlength > 0, y.mlength > 0
  PROVE  Apart(x, y) <=> \A a \in Nat : ~ (Within(a, x) /\ Within(a, y))
<1>1. /\ x.addr \in Nat /\ x.mlength \in Nat /\ y.addr \in Nat /\ y.mlength \in Nat
  BY DEF BlockType
<1>2. ASSUME Apart(x, y), NEW a \in Nat, Within(a, x), Within(a, y)
      PROVE  FALSE
  BY <1>1, <1>2 DEF Apart, Within, End
<1>3. ASSUME ~ Apart(x, y)
      PROVE  \E a \in Nat : Within(a, x) /\ Within(a, y)
  <2>1. CASE x.addr <= y.addr
    <3>1. Within(y.addr, x) /\ Within(y.addr, y)
      BY <1>1, <1>3, <2>1 DEF Apart, Within, End
    <3>. QED BY <1>1, <3>1
  <2>2. CASE y.addr < x.addr
    <3>1. Within(x.addr, x) /\ Within(x.addr, y)
      BY <1>1, <1>3, <2>2 DEF Apart, Within, End
    <3>. QED BY <1>1, <3>1
  <2>. QED BY <1>1, <2>1, <2>2
<1>. QED
  BY <1>2, <1>3

\* The blocks of the list, and their order.
LEMMA Listed ==
  ASSUME Sorted
  PROVE  /\ Len(memlist) \in Nat /\ DOMAIN memlist = 1 .. Len(memlist)
         /\ \A i \in 1 .. Len(memlist) :
              /\ memlist[i] \in BlockType /\ Whole(memlist[i])
              /\ memlist[i].addr \in Nat /\ memlist[i].mlength \in Nat
              /\ memlist[i].mlength > 0
              /\ MINHEAP <= memlist[i].addr
              /\ memlist[i].addr + memlist[i].mlength <= MAXHEAP
         /\ \A i, j \in 1 .. Len(memlist) : i < j =>
              memlist[i].addr + memlist[i].mlength < memlist[j].addr
<1>1. memlist \in Seq(BlockType)
  BY DEF Sorted
<1>2. Len(memlist) \in Nat /\ DOMAIN memlist = 1 .. Len(memlist)
  BY <1>1
<1>3. \A i \in 1 .. Len(memlist) :
        memlist[i] \in BlockType /\ memlist[i].addr \in Nat /\ memlist[i].mlength \in Nat
  BY <1>1, BlockFields
<1>. QED
  BY <1>2, <1>3 DEF Sorted, ListOrdered, InHeap, End

\* The next list is sorted when it is a list of such blocks.
LEMMA ListedNext ==
  ASSUME memlist' \in Seq(BlockType),
         \A i \in 1 .. Len(memlist') :
           /\ Whole(memlist'[i])
           /\ memlist'[i].mlength > 0
           /\ MINHEAP <= memlist'[i].addr
           /\ memlist'[i].addr + memlist'[i].mlength <= MAXHEAP,
         \A i, j \in 1 .. Len(memlist') : i < j =>
           memlist'[i].addr + memlist'[i].mlength < memlist'[j].addr
  PROVE  Sorted'
<1>1. DOMAIN memlist' = 1 .. Len(memlist')
  OBVIOUS
<1>. QED
  BY <1>1 DEF Sorted, ListOrdered, InHeap, End, Whole, Aligned

\* The list without the block at a place.
LEMMA Removed ==
  ASSUME Sorted, NEW i \in 1 .. Len(memlist), memlist' = Unlink(memlist, i)
  PROVE  /\ Sorted'
         /\ \A a \in Nat : FreeByte(a)' <=> FreeByte(a) /\ ~ Within(a, memlist[i])
<1>. DEFINE l == Len(memlist)
<1>1. /\ memlist' \in Seq(BlockType) /\ Len(memlist') = l - 1
      /\ \A j \in 1 .. l - 1 : memlist'[j] = IF j < i THEN memlist[j] ELSE memlist[j + 1]
  BY SMT, SMTT(30), RemoveElements DEF Sorted
<1>2. Sorted'
  <2>1. \A j \in 1 .. l - 1 : \E k \in 1 .. l : memlist'[j] = memlist[k]
    BY <1>1, Listed
  <2>2. \A j, k \in 1 .. l - 1 : j < k => \E m, n \in 1 .. l :
          m < n /\ memlist'[j] = memlist[m] /\ memlist'[k] = memlist[n]
    <3>1. SUFFICES ASSUME NEW j \in 1 .. l - 1, NEW k \in 1 .. l - 1, j < k
          PROVE  \E m, n \in 1 .. l :
                   m < n /\ memlist'[j] = memlist[m] /\ memlist'[k] = memlist[n]
      OBVIOUS
    <3>. DEFINE m == IF j < i THEN j ELSE j + 1
                n == IF k < i THEN k ELSE k + 1
    <3>2. m \in 1 .. l /\ n \in 1 .. l /\ m < n
      BY <3>1, Listed
    <3>3. memlist'[j] = memlist[m] /\ memlist'[k] = memlist[n]
      BY SMT, SMTT(30), <1>1
    <3>. QED BY <3>2, <3>3, Zenon
  <2>. HIDE DEF l
  <2>3. \A j \in 1 .. l - 1 :
          /\ Whole(memlist'[j]) /\ memlist'[j].mlength > 0
          /\ MINHEAP <= memlist'[j].addr
          /\ memlist'[j].addr + memlist'[j].mlength <= MAXHEAP
    BY <2>1, Listed DEF l
  <2>4. \A j, k \in 1 .. l - 1 : j < k =>
          memlist'[j].addr + memlist'[j].mlength < memlist'[k].addr
    BY SMT, SMTT(30), <2>2, Listed DEF l
  <2>. QED BY <1>1, <2>3, <2>4, ListedNext
<1>3. ASSUME NEW a \in Nat
      PROVE  FreeByte(a)' <=> FreeByte(a) /\ ~ Within(a, memlist[i])
  <2>1. \A k \in 1 .. l : k # i => ~ (Within(a, memlist[k]) /\ Within(a, memlist[i]))
    BY SMT, SMTT(30), Listed DEF Within, End
  <2>2. FreeByte(a)' <=> \E j \in 1 .. l - 1 : Within(a, memlist'[j])
    BY SMT, SMTT(30), <1>1 DEF FreeByte, Within, End
  <2>3. FreeByte(a) <=> \E k \in 1 .. l : Within(a, memlist[k])
    BY Listed DEF FreeByte
  <2>4. \A j \in 1 .. l - 1 : \E k \in 1 .. l : k # i /\ memlist'[j] = memlist[k]
    <3>1. SUFFICES ASSUME NEW j \in 1 .. l - 1
          PROVE  \E k \in 1 .. l : k # i /\ memlist'[j] = memlist[k]
      OBVIOUS
    <3>. DEFINE k == IF j < i THEN j ELSE j + 1
    <3>2. k \in 1 .. l /\ k # i /\ memlist'[j] = memlist[k]
      BY <1>1, Listed
    <3>. QED BY <3>2, Zenon
  <2>5. \A k \in 1 .. l : k # i => \E j \in 1 .. l - 1 : memlist'[j] = memlist[k]
    <3>1. SUFFICES ASSUME NEW k \in 1 .. l, k # i
          PROVE  \E j \in 1 .. l - 1 : memlist'[j] = memlist[k]
      OBVIOUS
    <3>. DEFINE j == IF k < i THEN k ELSE k - 1
    <3>2. j \in 1 .. l - 1 /\ memlist'[j] = memlist[k]
      BY <1>1, <3>1, Listed
    <3>. QED BY <3>2, Zenon
  <2>. HIDE DEF l
  <2>. QED BY <2>1, <2>2, <2>3, <2>4, <2>5, Zenon DEF l
<1>. QED
  BY <1>2, <1>3

\* The list with one block in the place of those between l and r.
LEMMA Spliced ==
  ASSUME Sorted, NEW x \in BlockType, Whole(x), x.mlength > 0,
         MINHEAP <= x.addr, End(x) <= MAXHEAP,
         NEW l \in 0 .. Len(memlist), NEW r \in 1 .. Len(memlist) + 1, l < r,
         \A j \in 1 .. l : End(memlist[j]) < x.addr,
         \A k \in r .. Len(memlist) : End(x) < memlist[k].addr,
         memlist' \in Seq(BlockType), Len(memlist') = Len(memlist) + l + 2 - r,
         \A j \in 1 .. Len(memlist) + l + 2 - r :
           memlist'[j] = IF j <= l THEN memlist[j]
                         ELSE IF j = l + 1 THEN x ELSE memlist[j + r - l - 2]
  PROVE  /\ Sorted'
         /\ \A a \in Nat : FreeByte(a)' <=>
              \/ Within(a, x)
              \/ \E k \in 1 .. Len(memlist) : (k <= l \/ k >= r) /\ Within(a, memlist[k])
<1>. DEFINE m == Len(memlist)
            d == m + l + 2 - r
            From(j) == IF j <= l THEN j ELSE j + r - l - 2
<1>0. m \in Nat /\ d \in Nat /\ l + 1 <= d
  BY Listed
<1>1. \A j \in 1 .. d : j # l + 1 =>
        /\ From(j) \in 1 .. m /\ (From(j) <= l \/ From(j) >= r)
        /\ From(j) <= l <=> j <= l
        /\ memlist'[j] = memlist[From(j)]
  BY SMT, SMTT(30), <1>0
<1>2. memlist'[l + 1] = x
  BY <1>0
<1>3. \A j, k \in 1 .. d : j < k /\ j # l + 1 /\ k # l + 1 => From(j) < From(k)
  BY <1>0
<1>4. x.addr \in Nat /\ x.mlength \in Nat
  BY DEF BlockType
<1>5. \A j \in 1 .. d :
        /\ Whole(memlist'[j]) /\ memlist'[j].mlength > 0
        /\ MINHEAP <= memlist'[j].addr
        /\ memlist'[j].addr + memlist'[j].mlength <= MAXHEAP
  <2>. HIDE DEF d, m, From
  <2>. SUFFICES ASSUME NEW j \in 1 .. d
       PROVE  /\ Whole(memlist'[j]) /\ memlist'[j].mlength > 0
              /\ MINHEAP <= memlist'[j].addr
              /\ memlist'[j].addr + memlist'[j].mlength <= MAXHEAP
    OBVIOUS
  <2>1. CASE j = l + 1
    BY <1>2, <2>1 DEF End
  <2>2. CASE j # l + 1
    BY SMT, SMTT(30), <1>1, <2>2, Listed DEF m
  <2>. QED BY <2>1, <2>2
<1>6. ASSUME NEW j \in 1 .. d, NEW k \in 1 .. d, j < k
      PROVE  memlist'[j].addr + memlist'[j].mlength < memlist'[k].addr
  <2>1. CASE j # l + 1 /\ k # l + 1
    <3>1. /\ From(j) \in 1 .. m /\ From(k) \in 1 .. m /\ From(j) < From(k)
          /\ memlist'[j] = memlist[From(j)] /\ memlist'[k] = memlist[From(k)]
      BY <1>1, <1>3, <1>6, <2>1
    <3>. HIDE DEF From
    <3>. QED BY SMT, SMTT(30), <3>1, Listed
  <2>2. CASE j = l + 1
    <3>1. From(k) \in r .. m /\ memlist'[k] = memlist[From(k)]
      BY <1>0, <1>1, <1>6, <2>2
    <3>. HIDE DEF From, m, d
    <3>. QED BY SMT, SMTT(30), <1>2, <2>2, <3>1 DEF End, m
  <2>3. CASE k = l + 1
    <3>1. j \in 1 .. l /\ memlist'[j] = memlist[j]
      BY <1>0, <1>6, <2>3
    <3>. HIDE DEF From, m, d
    <3>. QED BY SMT, SMTT(30), <1>2, <2>3, <3>1 DEF End
  <2>. QED BY <2>1, <2>2, <2>3
<1>7. Sorted'
  <2>. HIDE DEF From
  <2>. QED BY SMT, SMTT(30), <1>5, <1>6, ListedNext
<1>8. ASSUME NEW a \in Nat
      PROVE  FreeByte(a)' <=>
               \/ Within(a, x)
               \/ \E k \in 1 .. m : (k <= l \/ k >= r) /\ Within(a, memlist[k])
  <2>1. FreeByte(a)' <=> \E j \in 1 .. d : Within(a, memlist'[j])
    <3>1. DOMAIN memlist' = 1 .. d
      BY <1>0
    <3>. HIDE DEF d
    <3>. QED BY <3>1, Zenon DEF FreeByte, Within, End
  <2>2. \A j \in 1 .. d : j # l + 1 =>
          \E k \in 1 .. m : (k <= l \/ k >= r) /\ memlist'[j] = memlist[k]
    BY <1>1, Zenon
  <2>3. \A k \in 1 .. m : k <= l \/ k >= r =>
          \E j \in 1 .. d : memlist'[j] = memlist[k]
    <3>1. SUFFICES ASSUME NEW k \in 1 .. m, k <= l \/ k >= r
          PROVE  \E j \in 1 .. d : memlist'[j] = memlist[k]
      BY SMT, SMTT(30)
    <3>. DEFINE j == IF k <= l THEN k ELSE k - r + l + 2
    <3>2. j \in 1 .. d /\ j # l + 1 /\ From(j) = k
      BY SMT, SMTT(30), <1>0, <3>1
    <3>. HIDE DEF j, From
    <3>. QED BY <1>1, <3>2, Zenon
  <2>4. l + 1 \in 1 .. d
    BY <1>0
  <2>. HIDE DEF d, m
  <2>. QED BY <1>2, <2>1, <2>2, <2>3, <2>4, Zenon
<1>. QED
  BY <1>7, <1>8

\* The list with a block replaced by a part of it.
LEMMA Replaced ==
  ASSUME Sorted, NEW i \in 1 .. Len(memlist), NEW x \in BlockType, Whole(x),
         x.mlength > 0, memlist[i].addr <= x.addr, End(x) <= End(memlist[i]),
         memlist' = [memlist EXCEPT ![i] = x]
  PROVE  /\ Sorted'
         /\ \A a \in Nat : FreeByte(a)' <=>
              Within(a, x) \/ (FreeByte(a) /\ ~ Within(a, memlist[i]))
<1>. DEFINE m == Len(memlist)
<1>1. /\ memlist' \in Seq(BlockType) /\ Len(memlist') = m
      /\ \A j \in 1 .. m : memlist'[j] = IF j = i THEN x ELSE memlist[j]
  BY DEF Sorted
<1>2. m \in Nat /\ i - 1 \in 0 .. m /\ i + 1 \in 1 .. m + 1 /\ i - 1 < i + 1
  BY Listed
<1>3. x.addr \in Nat /\ x.mlength \in Nat
  BY DEF BlockType
<1>4. /\ MINHEAP <= x.addr /\ End(x) <= MAXHEAP
      /\ \A j \in 1 .. i - 1 : End(memlist[j]) < x.addr
      /\ \A k \in i + 1 .. m : End(x) < memlist[k].addr
  <2>1. /\ x.addr + x.mlength <= memlist[i].addr + memlist[i].mlength
        /\ MINHEAP <= memlist[i].addr
        /\ memlist[i].addr + memlist[i].mlength <= MAXHEAP
        /\ memlist[i].addr \in Nat /\ memlist[i].mlength \in Nat
    BY Listed DEF End
  <2>2. \A j \in 1 .. i - 1 : /\ memlist[j].addr \in Nat /\ memlist[j].mlength \in Nat
                              /\ memlist[j].addr + memlist[j].mlength < memlist[i].addr
    BY <1>2, Listed
  <2>3. \A k \in i + 1 .. m : /\ memlist[k].addr \in Nat
                              /\ memlist[i].addr + memlist[i].mlength < memlist[k].addr
    BY <1>2, Listed
  <2>4. MINHEAP <= x.addr /\ x.addr + x.mlength <= MAXHEAP
    <3>1. MINHEAP \in Nat /\ MAXHEAP \in Nat
      BY HeapAssumption
    <3>. QED BY SMT, SMTT(30), <1>3, <2>1, <3>1
  <2>5. \A j \in 1 .. i - 1 : memlist[j].addr + memlist[j].mlength < x.addr
    BY SMT, SMTT(30), <1>3, <2>1, <2>2
  <2>6. \A k \in i + 1 .. m : x.addr + x.mlength < memlist[k].addr
    BY SMT, SMTT(30), <1>3, <2>1, <2>3
  <2>. QED BY <2>4, <2>5, <2>6 DEF End
<1>5. /\ Len(memlist') = m + (i - 1) + 2 - (i + 1)
      /\ \A j \in 1 .. m + (i - 1) + 2 - (i + 1) :
           memlist'[j] = IF j <= i - 1 THEN memlist[j]
                         ELSE IF j = (i - 1) + 1 THEN x
                         ELSE memlist[j + (i + 1) - (i - 1) - 2]
  BY <1>1, <1>2
<1>6. /\ Sorted'
      /\ \A a \in Nat : FreeByte(a)' <=>
           \/ Within(a, x)
           \/ \E k \in 1 .. m : (k <= i - 1 \/ k >= i + 1) /\ Within(a, memlist[k])
  BY <1>1, <1>2, <1>4, <1>5, Spliced, Zenon
<1>7. ASSUME NEW a \in Nat
      PROVE  (\E k \in 1 .. m : (k <= i - 1 \/ k >= i + 1) /\ Within(a, memlist[k]))
               <=> FreeByte(a) /\ ~ Within(a, memlist[i])
  <2>1. \A k \in 1 .. m : k # i => ~ (Within(a, memlist[k]) /\ Within(a, memlist[i]))
    BY SMT, SMTT(30), Listed DEF Within, End
  <2>2. FreeByte(a) <=> \E k \in 1 .. m : Within(a, memlist[k])
    BY SMT, SMTT(30), Listed DEF FreeByte
  <2>3. \A k \in 1 .. m : k # i <=> k <= i - 1 \/ k >= i + 1
    OBVIOUS
  <2>. HIDE DEF m
  <2>. QED BY <2>1, <2>2, <2>3, Zenon
<1>. QED
  BY <1>6, <1>7

\* A block is cut in two.
LEMMA Cut ==
  ASSUME NEW b \in BlockType, Whole(b), NEW m \in Nat, m > 0, m < b.mlength,
         m % 8 = 0
  PROVE  LET low  == Block(b.addr, m)
             high == Block(b.addr + m, b.mlength - m)
         IN /\ low \in BlockType /\ Whole(low) /\ low.mlength > 0
            /\ high \in BlockType /\ Whole(high) /\ high.mlength > 0
            /\ b.addr <= low.addr /\ End(low) <= End(b)
            /\ b.addr <= high.addr /\ End(high) <= End(b)
            /\ \A a \in Nat : /\ Within(a, b) <=> Within(a, low) \/ Within(a, high)
                              /\ ~ (Within(a, low) /\ Within(a, high))
<1>1. /\ b.addr \in Nat /\ b.mlength \in Nat /\ b.addr % 8 = 0 /\ b.mlength % 8 = 0
  BY DEF BlockType, Whole, Aligned
<1>2. /\ b.addr + m \in Nat /\ b.mlength - m \in Nat /\ b.mlength - m > 0
      /\ (b.addr + m) % 8 = 0 /\ (b.mlength - m) % 8 = 0
  BY <1>1
<1>. QED
  BY <1>1, <1>2 DEF Block, BlockType, Whole, Aligned, Within, End

\* The bytes that getmem takes off the list.
LEMMA LowTaken ==
  ASSUME Sorted, NEW n \in Nat, n > 0, n % 8 = 0, NEW i \in Fits(n),
         memlist' = TakeLow(i, n)
  PROVE  /\ Sorted'
         /\ \A a \in Nat : FreeByte(a)' <=>
              FreeByte(a) /\ ~ Within(a, Block(memlist[i].addr, n))
<1>1. /\ i \in 1 .. Len(memlist) /\ memlist[i].mlength >= n
      /\ memlist[i] \in BlockType /\ Whole(memlist[i])
      /\ memlist[i].addr \in Nat /\ memlist[i].mlength \in Nat
  BY Listed DEF Fits
<1>2. CASE memlist[i].mlength = n
  <2>1. memlist' = Unlink(memlist, i)
    BY <1>2 DEF TakeLow
  <2>2. \A a : Within(a, Block(memlist[i].addr, n)) <=> Within(a, memlist[i])
    BY <1>2 DEF Within, End, Block
  <2>. QED BY <1>1, <2>1, <2>2, Removed, Zenon
<1>3. CASE memlist[i].mlength # n
  <2>. DEFINE x == Block(memlist[i].addr + n, memlist[i].mlength - n)
  <2>0. n < memlist[i].mlength
    BY <1>1, <1>3
  <2>1. memlist' = [memlist EXCEPT ![i] = x]
    BY <1>3 DEF TakeLow
  <2>2. /\ x \in BlockType /\ Whole(x) /\ x.mlength > 0
        /\ memlist[i].addr <= x.addr /\ End(x) <= End(memlist[i])
    BY SMT, SMTT(30), <1>1, <2>0, Cut
  <2>3. \A a \in Nat :
          /\ Within(a, memlist[i]) <=>
               Within(a, x) \/ Within(a, Block(memlist[i].addr, n))
          /\ ~ (Within(a, x) /\ Within(a, Block(memlist[i].addr, n)))
    BY SMT, SMTT(30), <1>1, <2>0, Cut
  <2>4. \A a \in Nat : Within(a, memlist[i]) => FreeByte(a)
    BY <1>1, Listed DEF FreeByte
  <2>. HIDE DEF x
  <2>5. /\ Sorted'
        /\ \A a \in Nat : FreeByte(a)' <=>
             Within(a, x) \/ (FreeByte(a) /\ ~ Within(a, memlist[i]))
    BY <1>1, <2>1, <2>2, Replaced, Zenon
  <2>. QED BY <2>3, <2>4, <2>5, Zenon
<1>. QED
  BY <1>2, <1>3

\* The bytes that getstk takes off the list.
LEMMA HighTaken ==
  ASSUME Sorted, NEW n \in Nat, n > 0, n % 8 = 0, NEW i \in Fits(n),
         memlist' = TakeHigh(i, n)
  PROVE  /\ Sorted'
         /\ \A a \in Nat : FreeByte(a)' <=>
              FreeByte(a) /\ ~ Within(a, Block(StackBase(i, n), n))
<1>1. /\ i \in 1 .. Len(memlist) /\ memlist[i].mlength >= n
      /\ memlist[i] \in BlockType /\ Whole(memlist[i])
      /\ memlist[i].addr \in Nat /\ memlist[i].mlength \in Nat
  BY Listed DEF Fits
<1>2. CASE memlist[i].mlength = n
  <2>1. memlist' = Unlink(memlist, i)
    BY <1>2 DEF TakeHigh
  <2>2. \A a : Within(a, Block(StackBase(i, n), n)) <=> Within(a, memlist[i])
    BY <1>1, <1>2 DEF Within, End, Block, StackBase
  <2>. QED BY <1>1, <2>1, <2>2, Removed, Zenon
<1>3. CASE memlist[i].mlength # n
  <2>. DEFINE x == Block(memlist[i].addr, memlist[i].mlength - n)
  <2>0. /\ memlist[i].mlength - n \in Nat /\ memlist[i].mlength - n > 0
        /\ memlist[i].mlength - n < memlist[i].mlength
        /\ (memlist[i].mlength - n) % 8 = 0
        /\ memlist[i].mlength - (memlist[i].mlength - n) = n
        /\ StackBase(i, n) = memlist[i].addr + (memlist[i].mlength - n)
    BY SMT, SMTT(30), <1>1, <1>3 DEF StackBase, Whole, Aligned
  <2>1. memlist' = [memlist EXCEPT ![i] = x]
    BY <1>3 DEF TakeHigh
  <2>2. /\ x \in BlockType /\ Whole(x) /\ x.mlength > 0
        /\ memlist[i].addr <= x.addr /\ End(x) <= End(memlist[i])
    BY SMT, SMTT(30), <1>1, <2>0, Cut
  <2>3. \A a \in Nat :
          /\ Within(a, memlist[i]) <=>
               Within(a, x) \/ Within(a, Block(StackBase(i, n), n))
          /\ ~ (Within(a, x) /\ Within(a, Block(StackBase(i, n), n)))
    BY SMT, SMTT(30), <1>1, <2>0, Cut
  <2>4. \A a \in Nat : Within(a, memlist[i]) => FreeByte(a)
    BY <1>1, Listed DEF FreeByte
  <2>. HIDE DEF x
  <2>5. /\ Sorted'
        /\ \A a \in Nat : FreeByte(a)' <=>
             Within(a, x) \/ (FreeByte(a) /\ ~ Within(a, memlist[i]))
    BY <1>1, <2>1, <2>2, Replaced, Zenon
  <2>. QED BY <2>3, <2>4, <2>5, Zenon
<1>. QED
  BY <1>2, <1>3
-----------------------------------------------------------------------------
(* What callers hold. *)

\* The bounds of the heap.
LEMMA Bounds ==
  /\ MINHEAP \in Nat /\ MAXHEAP \in Nat /\ WORD \in Nat \ {0}
  /\ MINHEAP < MAXHEAP /\ MAXHEAP < WORD /\ MAXHEAP - MINHEAP + 7 < WORD
<1>1. /\ MINHEAP \in Nat /\ MAXHEAP \in Nat /\ WORD \in Nat
      /\ 0 < MINHEAP /\ MINHEAP < MAXHEAP /\ MAXHEAP + (MAXHEAP - MINHEAP) < WORD
  BY HeapAssumption
<1>2. MINHEAP % 8 = 0
  BY HeapAssumption
<1>3. MINHEAP >= 8
  BY <1>1, <1>2
<1>. QED
  BY <1>1, <1>3

\* The block of a caller, and what freemem makes of the size that it is passed.
LEMMA HeldBlock ==
  ASSUME NoWrap, Held, NEW b \in owned
  PROVE  /\ Taken(b) \in BlockType /\ Whole(Taken(b)) /\ Taken(b).mlength > 0
         /\ Taken(b).addr = Base(b) /\ Taken(b).mlength = roundmb(b.nbytes)
         /\ End(Taken(b)) = Base(b) + roundmb(b.nbytes)
         /\ b.nbytes \in Requests /\ Base(b) \in Nat /\ roundmb(b.nbytes) \in Nat
         /\ MINHEAP <= Base(b) /\ Base(b) + roundmb(b.nbytes) <= MAXHEAP
         /\ roundmb(Passed(b)) = roundmb(b.nbytes) /\ Passed(b) \in Nat /\ Passed(b) > 0
<1>1. b.nbytes \in Requests
  BY DEF Held, HoldingType
<1>2. /\ b.nbytes \in Nat /\ b.nbytes > 0
      /\ roundmb(b.nbytes) \in Nat /\ roundmb(b.nbytes) % 8 = 0 /\ roundmb(b.nbytes) > 0
  BY <1>1, Sizes
<1>3. /\ Base(b) \in Nat /\ Whole(Taken(b)) /\ MINHEAP <= Base(b)
      /\ Base(b) + roundmb(b.nbytes) <= MAXHEAP
  BY DEF Held, InHeap, Taken, Block, End
<1>4. roundmb(b.nbytes) + 7 < WORD
  BY <1>2, <1>3, Bounds
<1>5. roundmb(roundmb(b.nbytes)) = roundmb(b.nbytes)
  BY <1>2, <1>4, RoundsOnce
<1>6. roundmb(Passed(b)) = roundmb(b.nbytes) /\ Passed(b) \in Nat /\ Passed(b) > 0
  BY <1>2, <1>5, Zenon DEF Passed
<1>. QED
  BY <1>1, <1>2, <1>3, <1>6 DEF Taken, Block, BlockType, End

\* Held blocks and free blocks have no byte in common.
LEMMA HeldNotFree ==
  ASSUME NoWrap, IInv, NEW b \in owned, NEW i \in 1 .. Len(memlist)
  PROVE  Apart(Taken(b), memlist[i])
<1>. USE DEF IInv
<1>1. /\ memlist[i] \in BlockType /\ memlist[i].mlength > 0 /\ i \in DOMAIN memlist
      /\ Taken(b) \in BlockType /\ Taken(b).mlength > 0
  BY Listed, HeldBlock
<1>2. ASSUME NEW a \in Nat, Within(a, Taken(b)), Within(a, memlist[i])
      PROVE  FALSE
  <2>1. a \in MINHEAP .. MAXHEAP - 1
    BY SMT, SMTT(30), <1>2, HeldBlock, Bounds DEF Within
  <2>2. FreeByte(a)
    BY <1>1, <1>2, Zenon DEF FreeByte
  <2>. QED BY <1>2, <2>1, <2>2, Zenon DEF Partition
<1>. QED
  BY <1>1, <1>2, ApartBytes

\* Where freemem finds the place of a block that its caller holds.
LEMMA FreedPlace ==
  ASSUME NoWrap, IInv, NEW b \in owned
  PROVE  LET at == Before(Base(b))
         IN /\ at \in 0 .. Len(memlist)
            /\ at > 0 => /\ at \in 1 .. Len(memlist)
                         /\ End(memlist[at]) <= Base(b) /\ Top(at) = End(memlist[at])
            /\ at < Len(memlist) =>
                 Base(b) + roundmb(b.nbytes) <= memlist[at + 1].addr
<1>. DEFINE at == Before(Base(b))
<1>1. /\ at \in 0 .. Len(memlist) /\ Len(memlist) \in Nat
      /\ \A i \in 1 .. at : memlist[i].addr < Base(b)
      /\ at < Len(memlist) => memlist[at + 1].addr >= Base(b)
  BY Walks, HeldBlock, Listed DEF IInv, Sorted
<1>2. /\ Base(b) \in Nat /\ roundmb(b.nbytes) \in Nat /\ roundmb(b.nbytes) > 0
      /\ Taken(b).addr = Base(b) /\ End(Taken(b)) = Base(b) + roundmb(b.nbytes)
  BY HeldBlock DEF IInv
<1>. HIDE DEF at
<1>3. ASSUME at > 0
      PROVE  /\ at \in 1 .. Len(memlist)
             /\ End(memlist[at]) <= Base(b) /\ Top(at) = End(memlist[at])
  <2>1. at \in 1 .. Len(memlist) /\ memlist[at].addr < Base(b)
    BY <1>1, <1>3
  <2>2. /\ memlist[at].addr \in Nat /\ memlist[at].mlength \in Nat
        /\ memlist[at].addr + memlist[at].mlength <= MAXHEAP
    BY <2>1, Listed DEF IInv
  <2>3. End(Taken(b)) <= memlist[at].addr \/ End(memlist[at]) <= Taken(b).addr
    BY <2>1, HeldNotFree DEF Apart
  <2>4. End(memlist[at]) <= Base(b)
    BY <1>2, <2>1, <2>2, <2>3 DEF End
  <2>5. Top(at) = End(memlist[at])
    <3>0. at # 0
      BY <2>1
    <3>1. Top(at) = End(memlist[at]) % WORD
      BY <3>0, Zenon DEF Top
    <3>2. /\ End(memlist[at]) \in Nat /\ End(memlist[at]) < WORD
      BY <2>2, Bounds DEF End
    <3>. QED BY <3>1, <3>2, Bounds
  <2>. QED BY <2>1, <2>4, <2>5
<1>4. ASSUME at < Len(memlist)
      PROVE  Base(b) + roundmb(b.nbytes) <= memlist[at + 1].addr
  <2>1. at + 1 \in 1 .. Len(memlist) /\ memlist[at + 1].addr >= Base(b)
    BY <1>1, <1>4
  <2>2. /\ memlist[at + 1].addr \in Nat /\ memlist[at + 1].mlength \in Nat
        /\ memlist[at + 1].mlength > 0
    BY <2>1, Listed DEF IInv
  <2>3. \/ End(Taken(b)) <= memlist[at + 1].addr
        \/ End(memlist[at + 1]) <= Taken(b).addr
    BY <2>1, HeldNotFree DEF Apart
  <2>. QED BY <1>2, <2>1, <2>2, <2>3 DEF End
<1>. QED
  BY <1>1, <1>3, <1>4 DEF at

\* The list after freemem: the bytes of the block are added, and the block is merged
\* with those it touches.
LEMMA Given ==
  ASSUME NoWrap, IInv, NEW b \in owned, memlist' = Give(Base(b), roundmb(Passed(b)))
  PROVE  /\ Sorted'
         /\ \A a \in Nat : FreeByte(a)' <=> FreeByte(a) \/ Within(a, Taken(b))
<1>. DEFINE m     == Len(memlist)
            base  == Base(b)
            n     == roundmb(b.nbytes)
            at    == Before(base)
            joins == at > 0 /\ Top(at) = base
            low   == IF joins THEN Block(memlist[at].addr, memlist[at].mlength + n)
                              ELSE Block(base, n)
            meets == at < m /\ End(low) = memlist[at + 1].addr
            new   == IF meets
                     THEN Block(low.addr, low.mlength + memlist[at + 1].mlength)
                     ELSE low
            l     == IF joins THEN at - 1 ELSE at
            r     == IF meets THEN at + 2 ELSE at + 1
<1>1. memlist' = Splice(memlist, l, new, r)
  <2>1. memlist' = Give(base, n)
    BY HeldBlock DEF IInv
  <2>. HIDE DEF base, n
  <2>. QED BY <2>1, Zenon DEF Give, Splice
<1>2. /\ base \in Nat /\ n \in Nat /\ n > 0 /\ base % 8 = 0 /\ n % 8 = 0
      /\ MINHEAP <= base /\ base + n <= MAXHEAP
      /\ Taken(b).addr = base /\ End(Taken(b)) = base + n
  BY HeldBlock DEF IInv, Whole, Aligned
<1>3. /\ m \in Nat /\ at \in 0 .. m
      /\ at > 0 => /\ at \in 1 .. m
                   /\ End(memlist[at]) <= base /\ Top(at) = End(memlist[at])
      /\ at < m => base + n <= memlist[at + 1].addr
  BY FreedPlace, Listed DEF IInv
<1>4. Sorted
  BY DEF IInv
<1>. HIDE DEF m, base, n, at
<1>5. /\ at > 0 => /\ memlist[at].addr \in Nat /\ memlist[at].mlength \in Nat
                   /\ memlist[at].mlength > 0 /\ Whole(memlist[at])
                   /\ MINHEAP <= memlist[at].addr
                   /\ memlist[at].addr + memlist[at].mlength <= base
                   /\ joins <=> memlist[at].addr + memlist[at].mlength = base
      /\ joins => at > 0
  BY <1>3, <1>4, Listed, Zenon DEF End, m
<1>6. /\ low.addr = IF joins THEN memlist[at].addr ELSE base
      /\ low.mlength = IF joins THEN memlist[at].mlength + n ELSE n
      /\ End(low) = base + n /\ low.addr \in Nat /\ low.mlength \in Nat
      /\ low.mlength > 0 /\ Whole(low) /\ MINHEAP <= low.addr
  <2>1. CASE joins
    <3>1. /\ low.addr = memlist[at].addr /\ low.mlength = memlist[at].mlength + n
      BY <2>1 DEF Block
    <3>. HIDE DEF low, joins
    <3>. QED BY <1>2, <1>5, <2>1, <3>1 DEF End, Whole, Aligned
  <2>2. CASE ~ joins
    <3>1. low.addr = base /\ low.mlength = n
      BY <2>2 DEF Block
    <3>. HIDE DEF low, joins
    <3>. QED BY <1>2, <2>2, <3>1 DEF End, Whole, Aligned
  <2>. QED BY <2>1, <2>2
<1>7. at < m => /\ at + 1 \in 1 .. m /\ memlist[at + 1].addr \in Nat
                /\ memlist[at + 1].mlength \in Nat /\ memlist[at + 1].mlength > 0
                /\ Whole(memlist[at + 1])
                /\ memlist[at + 1].addr + memlist[at + 1].mlength <= MAXHEAP
                /\ base + n <= memlist[at + 1].addr
  <2>1. at < m => at + 1 \in 1 .. m
    BY <1>3
  <2>. QED BY <1>3, <1>4, <2>1, Listed, Zenon DEF m
<1>8. meets <=> at < m /\ base + n = memlist[at + 1].addr
  BY <1>6
<1>. HIDE DEF low, joins
<1>9. /\ new.addr = low.addr /\ new \in BlockType /\ Whole(new)
      /\ new.addr \in Nat /\ new.mlength \in Nat /\ new.mlength > 0
      /\ new.addr + new.mlength =
           IF meets THEN memlist[at + 1].addr + memlist[at + 1].mlength ELSE base + n
  <2>1. CASE meets
    <3>1. /\ new = Block(low.addr, low.mlength + memlist[at + 1].mlength)
          /\ new.addr = low.addr /\ new.mlength = low.mlength + memlist[at + 1].mlength
      BY <2>1 DEF Block
    <3>2. at < m /\ base + n = memlist[at + 1].addr
      BY <1>8, <2>1
    <3>. HIDE DEF new, meets
    <3>3. new \in BlockType
      BY <1>6, <1>7, <3>1, <3>2 DEF Block, BlockType
    <3>4. Whole(new)
      BY <1>6, <1>7, <3>1, <3>2 DEF Whole, Aligned
    <3>5. /\ new.addr \in Nat /\ new.mlength \in Nat /\ new.mlength > 0
          /\ new.addr + new.mlength = memlist[at + 1].addr + memlist[at + 1].mlength
      BY <1>2, <1>6, <1>7, <3>1, <3>2 DEF End
    <3>. QED BY <2>1, <3>1, <3>3, <3>4, <3>5, Zenon
  <2>2. CASE ~ meets
    <3>1. new = low
      BY <2>2
    <3>2. low \in BlockType
      BY <1>2, <1>5, <1>6 DEF low, Block, BlockType
    <3>. HIDE DEF new, meets
    <3>. QED BY <1>2, <1>6, <2>2, <3>1, <3>2 DEF End
  <2>. QED BY <2>1, <2>2
<1>. HIDE DEF new, meets
<1>10. /\ l \in 0 .. m /\ r \in 1 .. m + 1 /\ l < r
  BY <1>3, <1>5, <1>8
<1>11. MINHEAP <= new.addr /\ End(new) <= MAXHEAP
  BY <1>2, <1>6, <1>7, <1>8, <1>9, Bounds DEF End
<1>12. \A j \in 1 .. l : End(memlist[j]) < new.addr
  <2>. SUFFICES ASSUME NEW j \in 1 .. l
       PROVE  memlist[j].addr + memlist[j].mlength < new.addr
    BY DEF End
  <2>1. j \in 1 .. m /\ j <= at /\ (joins => j < at)
    BY <1>3, <1>5, <1>10
  <2>. HIDE DEF l
  <2>2. /\ at \in 1 .. m /\ memlist[j].addr \in Nat /\ memlist[j].mlength \in Nat
        /\ j < at => memlist[j].addr + memlist[j].mlength < memlist[at].addr
    BY <1>3, <1>4, <2>1, Listed DEF m
  <2>3. CASE joins
    BY <1>6, <1>9, <2>1, <2>2, <2>3
  <2>4. CASE ~ joins
    BY <1>2, <1>5, <1>6, <1>9, <2>1, <2>2, <2>4
  <2>. QED BY <2>3, <2>4
<1>13. \A k \in r .. m : End(new) < memlist[k].addr
  <2>. SUFFICES ASSUME NEW k \in r .. m
       PROVE  new.addr + new.mlength < memlist[k].addr
    BY DEF End
  <2>1. k \in 1 .. m /\ k >= at + 1 /\ (meets => k > at + 1) /\ at < m
    BY <1>3, <1>10
  <2>. HIDE DEF r
  <2>2. /\ memlist[k].addr \in Nat
        /\ k > at + 1 =>
             memlist[at + 1].addr + memlist[at + 1].mlength < memlist[k].addr
    BY <1>4, <1>7, <2>1, Listed DEF m
  <2>3. CASE meets
    BY <1>9, <2>1, <2>2, <2>3
  <2>4. CASE ~ meets
    BY <1>2, <1>7, <1>8, <1>9, <2>1, <2>2, <2>4
  <2>. QED BY <2>3, <2>4
<1>14. /\ Sorted'
       /\ \A a \in Nat : FreeByte(a)' <=>
            \/ Within(a, new)
            \/ \E k \in 1 .. m : (k <= l \/ k >= r) /\ Within(a, memlist[k])
  <2>. HIDE DEF l, r
  <2>1. memlist \in Seq(BlockType)
    BY <1>4 DEF Sorted
  <2>2. /\ memlist' \in Seq(BlockType) /\ Len(memlist') = m + l + 2 - r
        /\ \A j \in 1 .. m + l + 2 - r :
             memlist'[j] = IF j <= l THEN memlist[j]
                           ELSE IF j = l + 1 THEN new ELSE memlist[j + r - l - 2]
    <3>1. /\ Splice(memlist, l, new, r) \in Seq(BlockType)
          /\ Len(Splice(memlist, l, new, r)) = m + l + 2 - r
          /\ \A j \in 1 .. m + l + 2 - r :
               Splice(memlist, l, new, r)[j] =
                 IF j <= l THEN memlist[j]
                 ELSE IF j = l + 1 THEN new ELSE memlist[j + r - l - 2]
      BY <1>9, <1>10, <2>1, SpliceElements DEF m
    <3>. QED BY <1>1, <3>1, Zenon
  <2>. QED BY <1>4, <1>9, <1>10, <1>11, <1>12, <1>13, <2>2, Spliced, Zenon DEF m
<1>15. ASSUME NEW a \in Nat
       PROVE  /\ Within(a, new) <=> \/ Within(a, Taken(b))
                                    \/ joins /\ Within(a, memlist[at])
                                    \/ meets /\ Within(a, memlist[at + 1])
  <2>1. Within(a, Taken(b)) <=> base <= a /\ a < base + n
    BY <1>2 DEF Within
  <2>2. Within(a, new) <=> new.addr <= a /\ a < new.addr + new.mlength
    BY DEF Within, End
  <2>3. joins => (Within(a, memlist[at]) <=> new.addr <= a /\ a < base)
    BY <1>5, <1>6, <1>9 DEF Within, End
  <2>4. meets => (Within(a, memlist[at + 1])
                    <=> base + n <= a /\ a < new.addr + new.mlength)
    BY <1>8, <1>9 DEF Within, End
  <2>5. /\ new.addr <= base /\ base + n <= new.addr + new.mlength
        /\ ~ joins => new.addr = base
        /\ ~ meets => new.addr + new.mlength = base + n
    BY <1>2, <1>5, <1>6, <1>7, <1>8, <1>9
  <2>. QED BY <1>2, <1>9, <2>1, <2>2, <2>3, <2>4, <2>5
<1>16. \A k \in 1 .. m :
         ~ (k <= l \/ k >= r) <=> (joins /\ k = at) \/ (meets /\ k = at + 1)
  BY <1>3, <1>5
<1>17. /\ joins => at \in 1 .. m
       /\ meets => at + 1 \in 1 .. m
  BY <1>3, <1>5, <1>7, <1>8
<1>18. \A a \in Nat : FreeByte(a) <=> \E k \in 1 .. m : Within(a, memlist[k])
  BY <1>4, Listed DEF FreeByte, m
<1>. HIDE DEF l, r
<1>. QED
  BY <1>14, <1>15, <1>16, <1>17, <1>18, Zenon
-----------------------------------------------------------------------------
(* The steps keep the invariant. *)

\* Caller h is given a block that was free.
Gives(h) ==
  /\ h \in HoldingType
  /\ h.ptr = Base(h) + (IF h.stack THEN roundmb(h.nbytes) - sizeofWord ELSE 0)
  /\ Base(h) \in Nat /\ Whole(Taken(h)) /\ InHeap(Taken(h))
  /\ \A a \in Nat : Within(a, Taken(h)) => FreeByte(a)
  /\ Sorted'
  /\ \A a \in Nat : FreeByte(a)' <=> FreeByte(a) /\ ~ Within(a, Taken(h))
  /\ owned' = owned \union {h} /\ answer' = h
  /\ mlength' \in 0 .. WORD - 1 /\ mlength' = (mlength - roundmb(h.nbytes)) % WORD

\* Nobody else holds the block that is given out.
LEMMA GivenApart ==
  ASSUME NoWrap, IInv, NEW h, Gives(h), NEW b \in owned
  PROVE  Apart(Taken(h), Taken(b))
<1>1. Taken(h) \in BlockType /\ Taken(h).mlength > 0
  <2>1. h.nbytes \in Requests /\ Base(h) \in Nat
    BY DEF Gives, HoldingType
  <2>2. roundmb(h.nbytes) \in Nat /\ roundmb(h.nbytes) > 0
    BY <2>1, Sizes
  <2>. QED BY <2>1, <2>2 DEF Taken, Block, BlockType
<1>2. /\ Taken(b) \in BlockType /\ Taken(b).mlength > 0
      /\ MINHEAP <= Taken(b).addr /\ End(Taken(b)) <= MAXHEAP
  BY HeldBlock DEF IInv
<1>3. ASSUME NEW a \in Nat, Within(a, Taken(h)), Within(a, Taken(b))
      PROVE  FALSE
  <2>1. a \in MINHEAP .. MAXHEAP - 1
    <3>1. Taken(b).addr \in Nat /\ Taken(b).mlength \in Nat
      BY <1>2 DEF BlockType
    <3>. QED BY <1>2, <1>3, <3>1, Bounds DEF Within, End
  <2>. QED BY <1>3, <2>1, Zenon DEF Partition, Gives, IInv
<1>. QED
  BY <1>1, <1>2, <1>3, ApartBytes, Zenon

\* A block that is free is given to a caller.
LEMMA Takes ==
  ASSUME NoWrap, IInv, NEW h, Gives(h)
  PROVE  IInv'
<1>. USE DEF IInv, Gives
<1>1. Held'
  BY Zenon DEF Held
<1>3. \A b \in owned : Apart(Taken(h), Taken(b)) /\ Apart(Taken(b), Taken(h))
  <2>1. \A b \in owned : Apart(Taken(h), Taken(b))
    BY GivenApart
  <2>. QED BY <2>1, Zenon DEF Apart
<1>4. Separate'
  BY <1>3, Zenon DEF Separate
<1>5. Partition'
  <2>. SUFFICES ASSUME NEW a \in MINHEAP .. MAXHEAP - 1
       PROVE  FreeByte(a)' <=> \A b \in owned' : ~ Within(a, Taken(b))
    BY Zenon DEF Partition
  <2>1. a \in Nat
    BY Bounds
  <2>. QED BY <2>1, Zenon DEF Partition
<1>6. Counts'
  BY DEF Counts, HoldingType
<1>. QED
  BY <1>1, <1>4, <1>5, <1>6

\* getmem.
LEMMA GetmemGives ==
  ASSUME NoWrap, IInv, NEW nb \in Requests, Getmem(nb)
  PROVE  \E h : Gives(h) /\ h.nbytes = nb
<1>. USE DEF IInv
<1>. DEFINE n == roundmb(nb)
            i == GetmemAt(n)
            h == Holding(memlist[i].addr, nb, FALSE)
<1>1. /\ Fits(n) # {} /\ memlist' = TakeLow(i, n) /\ mlength' = (mlength - n) % WORD
      /\ owned' = owned \union {h} /\ answer' = h
  BY DEF Getmem
<1>2. n \in Nat /\ n > 0 /\ n % 8 = 0
  BY Sizes
<1>. HIDE DEF n
<1>3. i \in Fits(n)
  BY <1>1, <1>2, Scans
<1>. HIDE DEF i
<1>4. /\ i \in DOMAIN memlist /\ memlist[i].mlength >= n
      /\ memlist[i].addr \in Nat /\ memlist[i].mlength \in Nat
      /\ Whole(memlist[i]) /\ MINHEAP <= memlist[i].addr
      /\ memlist[i].addr + memlist[i].mlength <= MAXHEAP
  BY <1>3, Listed DEF Fits
<1>5. /\ h \in HoldingType /\ h.ptr = memlist[i].addr /\ h.stack = FALSE
      /\ h.nbytes = nb /\ Base(h) = memlist[i].addr
      /\ Taken(h) = Block(memlist[i].addr, n)
  BY <1>4 DEF Holding, HoldingType, Base, Taken, n
<1>6. Whole(Taken(h)) /\ InHeap(Taken(h))
  <2>. HIDE DEF h
  <2>. QED BY <1>2, <1>4, <1>5, Bounds DEF Whole, Aligned, InHeap, Block, End
<1>7. \A a \in Nat : Within(a, Taken(h)) => FreeByte(a)
  <2>1. \A a \in Nat : Within(a, Taken(h)) => Within(a, memlist[i])
    <3>. HIDE DEF h
    <3>. QED BY <1>2, <1>4, <1>5 DEF Within, Block, End
  <2>. QED BY <1>4, <2>1, Zenon DEF FreeByte
<1>. HIDE DEF h
<1>8. /\ Sorted'
      /\ \A a \in Nat : FreeByte(a)' <=> FreeByte(a) /\ ~ Within(a, Taken(h))
  BY <1>1, <1>2, <1>3, <1>5, LowTaken
<1>9. mlength' \in 0 .. WORD - 1 /\ mlength' = (mlength - roundmb(h.nbytes)) % WORD
  <2>1. mlength' \in 0 .. WORD - 1
    BY <1>1, <1>2, Bounds DEF Counts
  <2>. QED BY <1>1, <1>5, <2>1 DEF n
<1>10. h.ptr = Base(h) + (IF h.stack THEN roundmb(h.nbytes) - sizeofWord ELSE 0)
  BY <1>4, <1>5
<1>. QED
  BY <1>1, <1>4, <1>5, <1>6, <1>7, <1>8, <1>9, <1>10, Zenon DEF Gives

\* getstk.
LEMMA GetstkGives ==
  ASSUME NoWrap, IInv, NEW nb \in Requests, Getstk(nb)
  PROVE  \E h : Gives(h) /\ h.nbytes = nb
<1>. USE DEF IInv
<1>. DEFINE n == roundmb(nb)
            i == GetstkAt(n)
            s == StackBase(i, n)
            h == Holding(s + n - sizeofWord, nb, TRUE)
<1>1. /\ Fits(n) # {} /\ memlist' = TakeHigh(i, n) /\ mlength' = (mlength - n) % WORD
      /\ owned' = owned \union {h} /\ answer' = h
  BY DEF Getstk
<1>2. n \in Nat /\ n >= 8 /\ n % 8 = 0
  BY Sizes
<1>. HIDE DEF n
<1>3. i \in Fits(n)
  BY <1>1, <1>2, Scans
<1>. HIDE DEF i
<1>4. /\ i \in DOMAIN memlist /\ memlist[i].mlength >= n
      /\ memlist[i].addr \in Nat /\ memlist[i].mlength \in Nat
      /\ Whole(memlist[i]) /\ MINHEAP <= memlist[i].addr
      /\ memlist[i].addr + memlist[i].mlength <= MAXHEAP
  BY <1>3, Listed DEF Fits
<1>5. /\ s \in Nat /\ s % 8 = 0 /\ s + n = memlist[i].addr + memlist[i].mlength
      /\ memlist[i].addr <= s /\ s < WORD
  BY <1>2, <1>4, Bounds DEF StackBase, Whole, Aligned
<1>. HIDE DEF s
<1>6. /\ h \in HoldingType /\ h.ptr = s + n - sizeofWord /\ h.stack = TRUE
      /\ h.nbytes = nb
  BY <1>2, <1>5 DEF Holding, HoldingType, sizeofWord
<1>. HIDE DEF h
<1>7. Base(h) = s
  <2>1. Base(h) = (h.ptr - n + sizeofWord) % WORD
    BY <1>6 DEF Base, n
  <2>2. h.ptr - n + sizeofWord = s
    BY <1>2, <1>5, <1>6 DEF sizeofWord
  <2>. QED BY <1>5, <2>1, <2>2, Bounds
<1>8. Taken(h) = Block(s, n)
  BY <1>6, <1>7 DEF Taken, n
<1>9. Whole(Taken(h)) /\ InHeap(Taken(h))
  BY <1>2, <1>4, <1>5, <1>8, Bounds DEF Whole, Aligned, InHeap, Block, End
<1>10. \A a \in Nat : Within(a, Taken(h)) => FreeByte(a)
  <2>1. \A a \in Nat : Within(a, Taken(h)) => Within(a, memlist[i])
    BY <1>2, <1>4, <1>5, <1>8 DEF Within, Block, End
  <2>. QED BY <1>4, <2>1, Zenon DEF FreeByte
<1>11. /\ Sorted'
       /\ \A a \in Nat : FreeByte(a)' <=> FreeByte(a) /\ ~ Within(a, Taken(h))
  BY <1>1, <1>2, <1>3, <1>8, HighTaken DEF s
<1>12. mlength' \in 0 .. WORD - 1 /\ mlength' = (mlength - roundmb(h.nbytes)) % WORD
  <2>1. mlength' \in 0 .. WORD - 1
    BY <1>1, <1>2, Bounds DEF Counts
  <2>. QED BY <1>1, <1>6, <2>1 DEF n
<1>13. h.ptr = Base(h) + (IF h.stack THEN roundmb(h.nbytes) - sizeofWord ELSE 0)
  BY <1>2, <1>5, <1>6, <1>7 DEF n, sizeofWord
<1>. QED
  BY <1>1, <1>5, <1>6, <1>7, <1>9, <1>10, <1>11, <1>12, <1>13, Zenon DEF Gives

\* freemem and freestk.
LEMMA FreememStep ==
  ASSUME NoWrap, IInv, NEW b \in owned, Freemem(b)
  PROVE  IInv'
<1>. USE DEF IInv
<1>1. /\ memlist' = Give(Base(b), roundmb(Passed(b)))
      /\ mlength' = (mlength + roundmb(Passed(b))) % WORD
      /\ owned' = owned \ {b} /\ UNCHANGED answer
  BY DEF Freemem
<1>2. /\ Sorted'
      /\ \A a \in Nat : FreeByte(a)' <=> FreeByte(a) \/ Within(a, Taken(b))
  BY <1>1, Given
<1>3. Held' /\ Separate'
  BY <1>1, Zenon DEF Held, Separate
<1>4. Partition'
  <2>. SUFFICES ASSUME NEW a \in MINHEAP .. MAXHEAP - 1
       PROVE  FreeByte(a)' <=> \A c \in owned' : ~ Within(a, Taken(c))
    BY Zenon DEF Partition
  <2>1. a \in Nat
    BY Bounds
  <2>2. \A c \in owned : c # b => ~ (Within(a, Taken(b)) /\ Within(a, Taken(c)))
    <3>. SUFFICES ASSUME NEW c \in owned, c # b
         PROVE  ~ (Within(a, Taken(b)) /\ Within(a, Taken(c)))
      OBVIOUS
    <3>1. /\ Taken(b) \in BlockType /\ Taken(b).mlength > 0
          /\ Taken(c) \in BlockType /\ Taken(c).mlength > 0
      BY HeldBlock
    <3>2. Apart(Taken(b), Taken(c))
      BY Zenon DEF Separate
    <3>. QED BY <2>1, <3>1, <3>2, ApartBytes, Zenon
  <2>. QED BY <1>1, <1>2, <2>1, <2>2, Zenon DEF Partition
<1>5. Counts'
  <2>1. mlength' \in 0 .. WORD - 1
    BY <1>1, HeldBlock, Bounds DEF Counts
  <2>. QED BY <1>1, <2>1 DEF Counts
<1>. QED
  BY <1>2, <1>3, <1>4, <1>5

\* getmem or getstk that fails changes the answer only.
LEMMA NoMemoryStep ==
  ASSUME IInv, UNCHANGED <<memlist, mlength, owned>>, answer' = SYSERR \/ UNCHANGED answer
  PROVE  IInv'
  BY DEF IInv, Sorted, ListOrdered, InHeap, End, Whole, Aligned, Held, Separate, Partition,
         FreeByte, Within, Counts

\* meminit.
LEMMA InitHolds ==
  ASSUME Init
  PROVE  IInv
<1>. DEFINE f == Block(MINHEAP, MAXHEAP - MINHEAP)
<1>1. /\ memlist = <<f>> /\ mlength = MAXHEAP - MINHEAP /\ owned = {} /\ answer = SYSERR
  BY DEF Init
<1>2. /\ f \in BlockType /\ Whole(f) /\ f.addr = MINHEAP /\ f.mlength > 0
      /\ f.addr + f.mlength = MAXHEAP /\ f.addr \in Nat /\ f.mlength \in Nat
  <2>1. MAXHEAP - MINHEAP \in Nat /\ MAXHEAP - MINHEAP > 0 /\ MINHEAP \in Nat
    BY Bounds
  <2>2. MINHEAP % 8 = 0 /\ (MAXHEAP - MINHEAP) % 8 = 0
    BY HeapAssumption
  <2>. QED BY <2>1, <2>2, Bounds DEF Block, BlockType, Whole, Aligned
<1>. HIDE DEF f
<1>3. memlist \in Seq(BlockType) /\ Len(memlist) = 1 /\ memlist[1] = f
  BY <1>1, <1>2
<1>4. DOMAIN memlist = {1}
  BY <1>3
<1>5. Sorted
  BY <1>2, <1>3, <1>4, Bounds DEF Sorted, ListOrdered, InHeap, End
<1>6. Partition
  <2>1. \A a \in MINHEAP .. MAXHEAP - 1 : Within(a, f)
    BY <1>2, Bounds DEF Within, End
  <2>. QED BY <1>1, <1>3, <1>4, <2>1 DEF Partition, FreeByte
<1>7. Held /\ Separate
  BY <1>1 DEF Held, Separate
<1>8. Counts
  BY <1>1, Bounds DEF Counts
<1>. QED
  BY <1>5, <1>6, <1>7, <1>8 DEF IInv

\* Every call keeps the invariant.
LEMMA NextStep ==
  ASSUME NoWrap, IInv, [Next]_vars
  PROVE  IInv'
<1>1. CASE UNCHANGED vars
  BY <1>1, NoMemoryStep DEF vars
<1>2. ASSUME NEW n \in Requests, Getmem(n)
      PROVE  IInv'
  BY <1>2, GetmemGives, Takes
<1>3. ASSUME NEW n \in Requests, Getstk(n)
      PROVE  IInv'
  BY <1>3, GetstkGives, Takes
<1>4. ASSUME NEW n \in Requests, NoMemory(n)
      PROVE  IInv'
  BY <1>4, NoMemoryStep DEF NoMemory
<1>5. ASSUME NEW b \in owned, Freemem(b)
      PROVE  IInv'
  BY <1>5, FreememStep
<1>. QED
  BY <1>1, <1>2, <1>3, <1>4, <1>5, Zenon DEF Next

\* The free list and what callers hold together are the heap, in every reachable
\* state.
THEOREM Invariant ==
  ASSUME NoWrap
  PROVE  Spec => []IInv
<1>1. Init => IInv
  BY InitHolds
<1>2. IInv /\ [Next]_vars => IInv'
  BY NextStep
<1>. QED
  BY <1>1, <1>2, PTL DEF Spec
-----------------------------------------------------------------------------
(* What follows for the callers of the memory manager. *)

\* The list, the count of free bytes and what callers hold have their types.
THEOREM MemTypeCorrect ==
  ASSUME NoWrap
  PROVE  Spec => []TypeOK
<1>1. IInv => TypeOK
  <2>. SUFFICES ASSUME IInv
       PROVE  TypeOK
    OBVIOUS
  <2>. USE DEF IInv
  <2>1. memlist \in Seq([addr : Nat, mlength : Nat])
    BY DEF Sorted, BlockType
  <2>2. ASSUME NEW b \in owned
        PROVE  /\ b.ptr \in 0 .. WORD - 1 /\ b.nbytes \in Requests
               /\ b.stack \in BOOLEAN
    <3>1. b \in HoldingType
      BY DEF Held
    <3>2. b.ptr \in Nat /\ b.nbytes \in Requests /\ b.stack \in BOOLEAN
      BY <3>1 DEF HoldingType
    <3>3. b.ptr = Base(b) + (IF b.stack THEN roundmb(b.nbytes) - sizeofWord ELSE 0)
      BY DEF Held
    <3>4. b.ptr <= Base(b) + roundmb(b.nbytes)
      BY <3>2, <3>3, HeldBlock DEF sizeofWord
    <3>. QED BY <3>2, <3>4, HeldBlock, Bounds
  <2>3. \A f \in Free : Aligned(f.addr) /\ Aligned(f.mlength)
    BY Zenon DEF Free, Sorted, Whole
  <2>4. \A b \in owned : Aligned(Base(b))
    BY DEF Held, Whole, Taken, Block
  <2>. QED BY <2>1, <2>2, <2>3, <2>4 DEF TypeOK, Counts
<1>. QED
  BY <1>1, Invariant, PTL

\* getmem, getstk and freemem keep the list of free blocks sorted, and freemem
\* leaves no two blocks that touch.
THEOREM ListStaysOrdered ==
  ASSUME NoWrap
  PROVE  Spec => []ListOrdered
<1>1. IInv => ListOrdered
  BY DEF IInv, Sorted
<1>. QED
  BY <1>1, Invariant, PTL

-----------------------------------------------------------------------------
(* The count of the free bytes. *)

HeapBytes == MINHEAP .. MAXHEAP - 1

\* FreeBytes are the bytes of the heap that the list has.
LEMMA FreeBytesAre ==
  Sorted => FreeBytes = {a \in HeapBytes : FreeByte(a)}
<1>. SUFFICES ASSUME Sorted
     PROVE  FreeBytes = {a \in HeapBytes : FreeByte(a)}
  OBVIOUS
<1>1. ASSUME NEW i \in DOMAIN memlist, NEW a
      PROVE  a \in Bytes(memlist[i]) <=> a \in HeapBytes /\ Within(a, memlist[i])
  <2>1. /\ memlist[i].addr \in Nat /\ memlist[i].mlength \in Nat
        /\ MINHEAP <= memlist[i].addr
        /\ memlist[i].addr + memlist[i].mlength <= MAXHEAP
    BY Listed
  <2>. QED BY <2>1, Bounds DEF Bytes, HeapBytes, Within, End
<1>2. ASSUME NEW a
      PROVE  a \in FreeBytes <=> \E i \in DOMAIN memlist : a \in Bytes(memlist[i])
  BY Zenon DEF FreeBytes, Free
<1>. QED
  BY <1>1, <1>2, Zenon DEF FreeByte

LEMMA FreeBytesWillBe ==
  (Sorted => FreeBytes = {a \in HeapBytes : FreeByte(a)})'
  BY FreeBytesAre, PTL

\* A run of n bytes has n bytes.
LEMMA RunCount ==
  ASSUME NEW b \in BlockType
  PROVE  IsFiniteSet(Bytes(b)) /\ Cardinality(Bytes(b)) = b.mlength
<1>1. b.addr \in Nat /\ b.mlength \in Nat
  BY DEF BlockType
<1>2. b.addr \in Int /\ b.addr + b.mlength - 1 \in Int
  BY <1>1
<1>3. /\ IsFiniteSet(b.addr .. b.addr + b.mlength - 1)
      /\ Cardinality(b.addr .. b.addr + b.mlength - 1) =
           IF b.addr > b.addr + b.mlength - 1 THEN 0
           ELSE (b.addr + b.mlength - 1) - b.addr + 1
  BY <1>2, FS_Interval
<1>4. Cardinality(b.addr .. b.addr + b.mlength - 1) = b.mlength
  BY <1>1, <1>3
<1>5. Bytes(b) = b.addr .. b.addr + b.mlength - 1
  BY <1>1 DEF Bytes, End
<1>. QED
  BY <1>3, <1>4, <1>5

\* The heap is finite, and smaller than a word.
LEMMA HeapCount ==
  ASSUME NEW S, S \subseteq HeapBytes
  PROVE  IsFiniteSet(S) /\ Cardinality(S) \in 0 .. WORD - 1
<1>1. IsFiniteSet(HeapBytes) /\ Cardinality(HeapBytes) = MAXHEAP - MINHEAP
  <2>1. MINHEAP \in Int /\ MAXHEAP - 1 \in Int /\ ~ (MINHEAP > MAXHEAP - 1)
    BY Bounds
  <2>2. /\ IsFiniteSet(MINHEAP .. MAXHEAP - 1)
        /\ Cardinality(MINHEAP .. MAXHEAP - 1) = (MAXHEAP - 1) - MINHEAP + 1
    BY <2>1, FS_Interval
  <2>. QED BY <2>2, Bounds DEF HeapBytes
<1>2. IsFiniteSet(S) /\ Cardinality(S) <= Cardinality(HeapBytes)
  BY <1>1, FS_Subset
<1>3. Cardinality(S) \in Nat
  BY <1>2, FS_CardinalityType
<1>. QED
  BY <1>1, <1>2, <1>3, Bounds

\* What a caller takes is part of the heap.
LEMMA RunBytes ==
  ASSUME NEW b \in BlockType, InHeap(b)
  PROVE  Bytes(b) = {a \in HeapBytes : Within(a, b)}
<1>1. /\ b.addr \in Nat /\ b.mlength \in Nat
      /\ MINHEAP <= b.addr /\ b.addr + b.mlength <= MAXHEAP
  BY DEF BlockType, InHeap, End
<1>. QED
  BY <1>1, Bounds DEF Bytes, HeapBytes, Within, End

\* The count of a part of the heap that is taken out of it, or put into it.
LEMMA CountParts ==
  ASSUME NEW S, S \subseteq HeapBytes, NEW T, T \subseteq HeapBytes, S \intersect T = {}
  PROVE  /\ Cardinality(S \union T) = Cardinality(S) + Cardinality(T)
         /\ Cardinality(S \union T) \in 0 .. WORD - 1
         /\ Cardinality(S) \in 0 .. WORD - 1 /\ Cardinality(T) \in 0 .. WORD - 1
<1>1. /\ IsFiniteSet(S) /\ Cardinality(S) \in 0 .. WORD - 1
      /\ IsFiniteSet(T) /\ Cardinality(T) \in 0 .. WORD - 1
  BY HeapCount
<1>2. S \union T \subseteq HeapBytes
  OBVIOUS
<1>3. Cardinality(S \union T) \in 0 .. WORD - 1
  BY <1>2, HeapCount
<1>4. Cardinality(S \union T) = Cardinality(S) + Cardinality(T) - Cardinality(S \intersect T)
  BY <1>1, FS_Union
<1>5. Cardinality(S \intersect T) = 0
  BY FS_EmptySet
<1>. QED
  BY <1>1, <1>3, <1>4, <1>5

\* The list's count of free bytes is right.
Counted == mlength = Cardinality(FreeBytes)

\* getmem and getstk count what they take.
LEMMA TakenCounted ==
  ASSUME NoWrap, IInv, Counted, NEW h, Gives(h)
  PROVE  Counted'
<1>. DEFINE S == FreeBytes'
            T == Bytes(Taken(h))
            n == roundmb(h.nbytes)
<1>1. Taken(h) \in BlockType /\ InHeap(Taken(h)) /\ Taken(h).mlength = n /\ n \in Nat
  <2>1. h.nbytes \in Requests /\ Base(h) \in Nat /\ InHeap(Taken(h))
    BY DEF Gives, HoldingType
  <2>2. roundmb(h.nbytes) \in Nat
    BY <2>1, Sizes
  <2>. QED BY <2>1, <2>2 DEF Taken, Block, BlockType
<1>2. T = {a \in HeapBytes : Within(a, Taken(h))}
  BY <1>1, RunBytes
<1>3. S = {a \in HeapBytes : FreeByte(a)'}
  <2>1. Sorted'
    BY DEF Gives
  <2>. QED BY <2>1, FreeBytesWillBe DEF HeapBytes
<1>4. FreeBytes = {a \in HeapBytes : FreeByte(a)}
  BY FreeBytesAre DEF IInv
<1>5. \A a \in HeapBytes : a \in Nat
  BY Bounds DEF HeapBytes
<1>6. /\ \A a \in Nat : Within(a, Taken(h)) => FreeByte(a)
      /\ \A a \in Nat : FreeByte(a)' <=> FreeByte(a) /\ ~ Within(a, Taken(h))
  BY DEF Gives
<1>7. /\ S \subseteq HeapBytes /\ T \subseteq HeapBytes /\ S \intersect T = {}
      /\ FreeBytes = S \union T
  <2>. HIDE DEF S, T
  <2>. QED BY <1>2, <1>3, <1>4, <1>5, <1>6, Zenon
<1>8. Cardinality(T) = n
  BY <1>1, RunCount
<1>9. mlength' = (mlength - n) % WORD
  BY DEF Gives
<1>. HIDE DEF S, T, n
<1>10. /\ mlength = Cardinality(S) + n /\ Cardinality(S) \in 0 .. WORD - 1
       /\ mlength \in 0 .. WORD - 1
  BY <1>7, <1>8, CountParts DEF Counted
<1>11. mlength' = Cardinality(S)
  <2>1. n \in Nat /\ Cardinality(S) \in Nat
    BY <1>1, <1>10, Bounds
  <2>2. mlength - n = Cardinality(S)
    BY <1>10, <2>1
  <2>. QED BY <1>9, <1>10, <2>1, <2>2, Bounds
<1>. QED
  BY <1>11 DEF Counted, S

\* freemem and freestk count what they put back.
LEMMA FreedCounted ==
  ASSUME NoWrap, IInv, Counted, NEW b \in owned, Freemem(b)
  PROVE  Counted'
<1>. DEFINE S == FreeBytes
            T == Bytes(Taken(b))
            n == roundmb(b.nbytes)
<1>1. /\ Taken(b) \in BlockType /\ InHeap(Taken(b)) /\ Taken(b).mlength = n /\ n \in Nat
      /\ roundmb(Passed(b)) = n
  BY HeldBlock DEF IInv, Held
<1>2. T = {a \in HeapBytes : Within(a, Taken(b))}
  BY <1>1, RunBytes
<1>3. /\ memlist' = Give(Base(b), roundmb(Passed(b)))
      /\ mlength' = (mlength + n) % WORD
  BY <1>1 DEF Freemem
<1>4. /\ Sorted'
      /\ \A a \in Nat : FreeByte(a)' <=> FreeByte(a) \/ Within(a, Taken(b))
  BY <1>3, Given
<1>5. FreeBytes' = {a \in HeapBytes : FreeByte(a)'}
  BY <1>4, FreeBytesWillBe DEF HeapBytes
<1>6. S = {a \in HeapBytes : FreeByte(a)}
  BY FreeBytesAre DEF IInv
<1>7. \A a \in HeapBytes : a \in Nat
  BY Bounds DEF HeapBytes
<1>8. \A a \in HeapBytes : FreeByte(a) => ~ Within(a, Taken(b))
  BY Zenon DEF IInv, Partition, HeapBytes
<1>9. /\ S \subseteq HeapBytes /\ T \subseteq HeapBytes /\ S \intersect T = {}
      /\ FreeBytes' = S \union T
  <2>. HIDE DEF S, T
  <2>. QED BY <1>2, <1>4, <1>5, <1>6, <1>7, <1>8, Zenon
<1>10. Cardinality(T) = n
  BY <1>1, RunCount
<1>11. mlength = Cardinality(S)
  BY DEF Counted
<1>. HIDE DEF S, T, n
<1>12. /\ Cardinality(FreeBytes') = mlength + n
       /\ mlength + n \in 0 .. WORD - 1
  BY <1>9, <1>10, <1>11, CountParts
<1>13. mlength' = mlength + n
  <2>1. mlength \in Nat
    BY <1>9, <1>11, CountParts, Bounds
  <2>. QED BY <1>1, <1>3, <1>12, <2>1, Bounds
<1>. QED
  BY <1>12, <1>13 DEF Counted

\* meminit counts the whole heap.
LEMMA InitCounted ==
  ASSUME Init
  PROVE  Counted
<1>. DEFINE f == Block(MINHEAP, MAXHEAP - MINHEAP)
<1>1. /\ f \in BlockType /\ f.mlength = MAXHEAP - MINHEAP
  BY Bounds DEF Block, BlockType
<1>2. Cardinality(Bytes(f)) = MAXHEAP - MINHEAP
  BY <1>1, RunCount
<1>. HIDE DEF f
<1>3. memlist = <<f>> /\ mlength = MAXHEAP - MINHEAP
  BY DEF Init, f
<1>4. Free = {f}
  BY <1>3 DEF Free
<1>5. FreeBytes = Bytes(f)
  BY <1>4 DEF FreeBytes
<1>. QED
  BY <1>2, <1>3, <1>5 DEF Counted

\* Every call keeps the count right.
LEMMA NextCounted ==
  ASSUME NoWrap, IInv, Counted, [Next]_vars
  PROVE  Counted'
<1>1. CASE UNCHANGED <<memlist, mlength>>
  BY <1>1 DEF Counted, FreeBytes, Free
<1>2. ASSUME NEW n \in Requests, Getmem(n)
      PROVE  Counted'
  BY <1>2, GetmemGives, TakenCounted
<1>3. ASSUME NEW n \in Requests, Getstk(n)
      PROVE  Counted'
  BY <1>3, GetstkGives, TakenCounted
<1>4. ASSUME NEW n \in Requests, NoMemory(n)
      PROVE  Counted'
  BY <1>1, <1>4 DEF NoMemory
<1>5. ASSUME NEW b \in owned, Freemem(b)
      PROVE  Counted'
  BY <1>5, FreedCounted
<1>6. CASE UNCHANGED vars
  BY <1>1, <1>6 DEF vars
<1>. QED
  BY <1>2, <1>3, <1>4, <1>5, <1>6, Zenon DEF Next

\* The count that getmem, getstk and freemem keep is that of the bytes on the list,
\* and no byte of the heap is ever lost or there twice.
THEOREM BytesConserved ==
  ASSUME NoWrap
  PROVE  Spec => []Conserved
<1>1. Init => Counted
  BY InitCounted
<1>2. IInv /\ Counted /\ [Next]_vars => Counted'
  BY NextCounted
<1>3. IInv /\ Counted => Conserved
  <2>. SUFFICES ASSUME IInv, Counted
       PROVE  Conserved
    OBVIOUS
  <2>1. FreeBytes = {a \in HeapBytes : FreeByte(a)}
    BY FreeBytesAre DEF IInv
  <2>2. \A b \in owned : Bytes(Taken(b)) = {a \in HeapBytes : Within(a, Taken(b))}
    <3>. SUFFICES ASSUME NEW b \in owned
         PROVE  Bytes(Taken(b)) = {a \in HeapBytes : Within(a, Taken(b))}
      OBVIOUS
    <3>1. Taken(b) \in BlockType /\ InHeap(Taken(b))
      BY HeldBlock DEF IInv, Held
    <3>. QED BY <3>1, RunBytes
  <2>3. \A a \in HeapBytes : FreeByte(a) <=> \A b \in owned : ~ Within(a, Taken(b))
    BY Zenon DEF IInv, Partition, HeapBytes
  <2>4. FreeBytes \union UNION {Bytes(Taken(b)) : b \in owned} = HeapBytes
    <3>1. ASSUME NEW a
          PROVE  a \in UNION {Bytes(Taken(b)) : b \in owned}
                   <=> \E b \in owned : a \in HeapBytes /\ Within(a, Taken(b))
      BY <2>2, Zenon
    <3>2. ASSUME NEW a
          PROVE  a \in FreeBytes \union UNION {Bytes(Taken(b)) : b \in owned}
                   <=> a \in HeapBytes
      BY <2>1, <2>3, <3>1, Zenon
    <3>. QED BY <3>2, Zenon
  <2>5. \A b \in owned : FreeBytes \intersect Bytes(Taken(b)) = {}
    BY <2>1, <2>2, <2>3, Zenon
  <2>6. \A b, c \in owned : b = c \/ Bytes(Taken(b)) \intersect Bytes(Taken(c)) = {}
    <3>. SUFFICES ASSUME NEW b \in owned, NEW c \in owned, b # c,
                         NEW a \in HeapBytes, Within(a, Taken(b)), Within(a, Taken(c))
         PROVE  FALSE
      BY <2>2, Zenon
    <3>1. /\ Taken(b) \in BlockType /\ Taken(b).mlength > 0
          /\ Taken(c) \in BlockType /\ Taken(c).mlength > 0
      BY HeldBlock DEF IInv
    <3>2. Apart(Taken(b), Taken(c))
      BY Zenon DEF IInv, Separate
    <3>3. a \in Nat
      BY Bounds DEF HeapBytes
    <3>. QED BY <3>1, <3>2, <3>3, ApartBytes, Zenon
  <2>. QED BY <2>4, <2>5, <2>6 DEF Conserved, Counted, HeapBytes
<1>. QED
  BY <1>1, <1>2, <1>3, Invariant, PTL DEF Spec

\* The bytes that a caller of getmem or getstk asked for are nobody else's, and not
\* on the free list.
THEOREM HoldingsDisjoint ==
  ASSUME NoWrap
  PROVE  Spec => []Disjoint
<1>1. IInv => Disjoint
  <2>. SUFFICES ASSUME IInv
       PROVE  Disjoint
    OBVIOUS
  <2>. USE DEF IInv
  <2>1. ASSUME NEW b \in owned
        PROVE  /\ Taken(b).addr <= Region(b).addr /\ End(Region(b)) <= End(Taken(b))
               /\ Region(b).addr \in Nat /\ Region(b).mlength \in Nat
               /\ Taken(b).addr \in Nat /\ End(Taken(b)) \in Nat
               /\ End(Region(b)) \in Nat
    <3>1. /\ b.ptr \in Nat /\ b.stack \in BOOLEAN
          /\ b.ptr = Base(b) + (IF b.stack THEN roundmb(b.nbytes) - sizeofWord ELSE 0)
      BY DEF Held, HoldingType
    <3>2. b.nbytes \in Requests /\ b.nbytes \in Nat /\ b.nbytes <= roundmb(b.nbytes)
      BY HeldBlock, Sizes
    <3>3. /\ Base(b) \in Nat /\ roundmb(b.nbytes) \in Nat
          /\ Taken(b).addr = Base(b) /\ End(Taken(b)) = Base(b) + roundmb(b.nbytes)
      BY HeldBlock
    <3>4. CASE b.stack
      <4>1. Region(b) = Block(Base(b) + roundmb(b.nbytes) - b.nbytes, b.nbytes)
        BY <3>1, <3>2, <3>3, <3>4 DEF Region, sizeofWord
      <4>. QED BY <3>2, <3>3, <4>1 DEF Block, End
    <3>5. CASE ~ b.stack
      <4>1. Region(b) = Block(Base(b), b.nbytes)
        BY <3>1, <3>2, <3>3, <3>5 DEF Region
      <4>. QED BY <3>2, <3>3, <4>1 DEF Block, End
    <3>. QED BY <3>4, <3>5
  <2>2. \A b \in owned : InHeap(Region(b))
    <3>. SUFFICES ASSUME NEW b \in owned
         PROVE  InHeap(Region(b))
      OBVIOUS
    <3>1. MINHEAP <= Taken(b).addr /\ End(Taken(b)) <= MAXHEAP
      BY HeldBlock
    <3>. QED BY <2>1, <3>1, Bounds DEF InHeap
  <2>3. \A b, c \in owned : b = c \/ Apart(Region(b), Region(c))
    <3>. SUFFICES ASSUME NEW b \in owned, NEW c \in owned, b # c
         PROVE  Apart(Region(b), Region(c))
      OBVIOUS
    <3>1. Apart(Taken(b), Taken(c))
      BY Zenon DEF Separate
    <3>. QED BY <2>1, <3>1 DEF Apart
  <2>4. \A b \in owned : \A f \in Free : Apart(Region(b), f)
    <3>. SUFFICES ASSUME NEW b \in owned, NEW i \in 1 .. Len(memlist)
         PROVE  Apart(Region(b), memlist[i])
      BY Listed DEF Free
    <3>1. Apart(Taken(b), memlist[i])
      BY HeldNotFree
    <3>2. memlist[i].addr \in Nat /\ End(memlist[i]) \in Nat
      BY Listed DEF End
    <3>. QED BY SMT, SMTT(30), <2>1, <3>1, <3>2 DEF Apart
  <2>. QED BY <2>2, <2>3, <2>4 DEF Disjoint
<1>. QED
  BY <1>1, Invariant, PTL

\* freemem and freestk accept what getmem and getstk gave out.
THEOREM OwnBlockAccepted ==
  ASSUME NoWrap
  PROVE  Spec => []FreeAccepted
<1>1. IInv => FreeAccepted
  <2>. SUFFICES ASSUME IInv, NEW b \in owned
       PROVE  ~ Refused(Base(b), Passed(b))
    BY DEF FreeAccepted
  <2>. DEFINE at == Before(Base(b))
              n  == roundmb(b.nbytes)
  <2>1. /\ Base(b) \in Nat /\ n \in Nat /\ n > 0 /\ MINHEAP <= Base(b)
        /\ Base(b) + n <= MAXHEAP /\ roundmb(Passed(b)) = n /\ Passed(b) # 0
    BY HeldBlock DEF IInv
  <2>2. /\ at > 0 => End(memlist[at]) <= Base(b) /\ Top(at) = End(memlist[at])
        /\ at > 0 => End(memlist[at]) \in Nat
        /\ at < Len(memlist) => /\ Base(b) + n <= memlist[at + 1].addr
                                /\ memlist[at + 1].addr \in Nat
    <3>1. /\ at \in 0 .. Len(memlist)
          /\ at > 0 => /\ at \in 1 .. Len(memlist) /\ End(memlist[at]) <= Base(b)
                       /\ Top(at) = End(memlist[at])
          /\ at < Len(memlist) => Base(b) + n <= memlist[at + 1].addr
      BY FreedPlace
    <3>. HIDE DEF at, n
    <3>2. at < Len(memlist) => at + 1 \in 1 .. Len(memlist)
      BY <3>1, Listed DEF IInv
    <3>. QED BY <3>1, <3>2, Listed DEF IInv, End
  <2>3. (Base(b) + n) % WORD = Base(b) + n
    <3>. HIDE DEF n
    <3>. QED BY <2>1, Bounds
  <2>4. /\ ~ (Base(b) < MINHEAP) /\ ~ (Base(b) > MAXHEAP)
        /\ ~ (at > 0 /\ Base(b) < Top(at))
        /\ ~ (at < Len(memlist) /\ (Base(b) + n) % WORD > memlist[at + 1].addr)
    <3>. HIDE DEF at, n
    <3>. QED BY SMT, SMTT(30), <2>1, <2>2, <2>3, Bounds
  <2>. QED BY <2>1, <2>4, Zenon DEF Refused
<1>. QED
  BY <1>1, Invariant, PTL

\* freemem refuses bytes that are on the free list already, whatever size it is
\* told, as long as the end that it computes does not leave the address space.
THEOREM DoubleFree ==
  ASSUME NoWrap
  PROVE  Spec => []DoubleFreeRefused
<1>1. IInv => DoubleFreeRefused
  <2>. SUFFICES ASSUME IInv, NEW i \in 1 .. Len(memlist), NEW n \in 1 .. WORD - 1,
                       NEW a \in memlist[i].addr .. End(memlist[i]) - 1,
                       a + n + 7 < WORD
       PROVE  Refused(a, n)
    BY Listed DEF DoubleFreeRefused, Free, IInv
  <2>. DEFINE at == Before(a)
              m  == Len(memlist)
  <2>1. /\ m \in Nat /\ memlist[i].addr \in Nat /\ memlist[i].mlength \in Nat
        /\ memlist[i].addr + memlist[i].mlength <= MAXHEAP
        /\ \A j \in 1 .. m : memlist[j].addr \in Nat
        /\ \A j \in 1 .. m : i < j => End(memlist[i]) < memlist[j].addr
        /\ \A j, k \in 1 .. m : j < k => memlist[j].addr < memlist[k].addr
    <3>1. /\ m \in Nat
          /\ \A j \in 1 .. m : /\ memlist[j].addr \in Nat /\ memlist[j].mlength \in Nat
                                /\ memlist[j].addr + memlist[j].mlength <= MAXHEAP
          /\ \A j, k \in 1 .. m :
               j < k => memlist[j].addr + memlist[j].mlength < memlist[k].addr
      BY Listed DEF IInv
    <3>. HIDE DEF m
    <3>2. i \in 1 .. m
      BY DEF m
    <3>3. \A j, k \in 1 .. m : j < k => memlist[j].addr < memlist[k].addr
      <4>. SUFFICES ASSUME NEW j \in 1 .. m, NEW k \in 1 .. m, j < k
           PROVE  memlist[j].addr < memlist[k].addr
        OBVIOUS
      <4>1. memlist[j].addr + memlist[j].mlength < memlist[k].addr
        BY <3>1, Zenon
      <4>. QED BY SMT, SMTT(30), <3>1, <4>1
    <3>4. \A j \in 1 .. m : i < j => End(memlist[i]) < memlist[j].addr
      BY <3>1, <3>2, Zenon DEF End
    <3>. QED BY <3>1, <3>2, <3>3, <3>4, Zenon
  <2>2. a \in Nat /\ memlist[i].addr <= a /\ a < End(memlist[i]) /\ a < MAXHEAP
    BY SMT, SMTT(30), <2>1, Bounds DEF End
  <2>3. /\ at \in 0 .. m
        /\ \A j \in 1 .. at : memlist[j].addr < a
        /\ at < m => memlist[at + 1].addr >= a
    BY <2>2, Walks DEF IInv, Sorted
  <2>4. roundmb(n) \in Nat /\ roundmb(n) > 0 /\ roundmb(n) <= n + 7 /\ n \in Nat
    <3>1. n \in Nat /\ n > 0 /\ n + 7 < WORD
      BY <2>2, Bounds
    <3>. QED BY <3>1, Rounds
  <2>. HIDE DEF at, m
  <2>6. i \in 1 .. m
    BY DEF m
  <2>7. CASE a = memlist[i].addr
    <3>1. at < i
      BY <2>1, <2>2, <2>3, <2>6, <2>7
    <3>2. at + 1 = i
      <4>1. ASSUME at + 1 < i
            PROVE  FALSE
        <5>1. at < m /\ at + 1 \in 1 .. m
          BY SMT, SMTT(30), <2>1, <2>3, <2>6, <4>1
        <5>2. memlist[at + 1].addr < memlist[i].addr
          BY <2>1, <2>6, <4>1, <5>1
        <5>. QED BY <2>1, <2>2, <2>3, <2>7, <5>1, <5>2
      <4>. QED BY <2>3, <2>6, <3>1, <4>1
    <3>. DEFINE e == a + roundmb(n)
    <3>3. e \in Nat /\ e < WORD /\ a < e
      BY <2>2, <2>4, Bounds
    <3>. HIDE DEF e
    <3>4. e % WORD = e
      BY <3>3, Bounds
    <3>5. at < Len(memlist) /\ e % WORD > memlist[at + 1].addr
      BY <2>1, <2>3, <2>6, <2>7, <3>1, <3>2, <3>3, <3>4 DEF m
    <3>6. at < Len(memlist) /\ (a + roundmb(n)) % WORD > memlist[at + 1].addr
      BY <3>5, Zenon DEF e
    <3>. QED BY <3>6, Zenon DEF Refused, at
  <2>8. CASE a # memlist[i].addr
    <3>1. at >= i
      <4>1. ASSUME at < i
            PROVE  FALSE
        <5>1. at < m /\ at + 1 \in 1 .. m /\ at + 1 <= i
          BY SMT, SMTT(30), <2>1, <2>3, <2>6, <4>1
        <5>2. memlist[at + 1].addr <= memlist[i].addr
          BY SMT, SMTT(30), <2>1, <2>6, <5>1
        <5>. QED BY <2>1, <2>2, <2>3, <2>8, <5>1, <5>2
      <4>. QED BY <2>3, <2>6, <4>1
    <3>2. at = i
      <4>1. ASSUME i < at
            PROVE  FALSE
        <5>1. at \in 1 .. m /\ memlist[at].addr < a /\ End(memlist[i]) < memlist[at].addr
          BY <2>1, <2>3, <2>6, <4>1
        <5>. QED BY SMT, SMTT(30), <2>1, <2>2, <5>1 DEF End
      <4>. QED BY <2>3, <2>6, <3>1, <4>1
    <3>3. Top(at) = End(memlist[i])
      <4>1. End(memlist[i]) \in Nat /\ End(memlist[i]) < WORD /\ at # 0
        BY SMT, SMTT(30), <2>1, <2>6, <3>2, Bounds DEF End
      <4>2. Top(at) = End(memlist[i]) % WORD
        BY <3>2, <4>1, Zenon DEF Top
      <4>. QED BY SMT, SMTT(30), <4>1, <4>2, Bounds
    <3>4. at > 0 /\ a < Top(at)
      BY <2>2, <2>6, <3>2, <3>3
    <3>. QED BY <3>4, Zenon DEF Refused, at
  <2>. QED BY <2>7, <2>8
<1>. QED
  BY <1>1, Invariant, PTL

-----------------------------------------------------------------------------
(* The free list implements Heap. *)

\* A run of bytes that nobody holds lies within one free block: free blocks that
\* touch have been merged.
LEMMA RunIsOneBlock ==
  ASSUME NoWrap, IInv, NEW n \in Nat, n > 0, NEW a \in Nat, MINHEAP <= a,
         a + n <= MAXHEAP,
         \A b \in owned : Apart(Block(a, n), Taken(b))
  PROVE  Fits(n) # {}
<1>1. ASSUME NEW c \in Nat, a <= c, c < a + n
      PROVE  FreeByte(c)
  <2>1. c \in MINHEAP .. MAXHEAP - 1
    BY <1>1, Bounds
  <2>2. ASSUME NEW b \in owned, Within(c, Taken(b))
        PROVE  FALSE
    <3>1. Apart(Block(a, n), Taken(b))
      OBVIOUS
    <3>2. Taken(b).addr \in Nat /\ Taken(b).mlength \in Nat
      BY HeldBlock DEF IInv, BlockType
    <3>. QED BY <1>1, <2>2, <3>1, <3>2 DEF Apart, Within, End, Block
  <2>. QED BY <2>1, <2>2 DEF IInv, Partition
<1>2. PICK i \in 1 .. Len(memlist) : Within(a, memlist[i])
  BY <1>1, Listed DEF FreeByte, IInv
<1>3. /\ memlist[i].addr \in Nat /\ memlist[i].mlength \in Nat
      /\ memlist[i].addr <= a /\ a < memlist[i].addr + memlist[i].mlength
  BY <1>2, Listed DEF IInv, Within, End
<1>4. a + n <= memlist[i].addr + memlist[i].mlength
  <2>. SUFFICES ASSUME memlist[i].addr + memlist[i].mlength < a + n
       PROVE  FALSE
    BY <1>3
  <2>. DEFINE e == memlist[i].addr + memlist[i].mlength
  <2>1. FreeByte(e)
    BY <1>1, <1>3
  <2>2. PICK j \in 1 .. Len(memlist) : Within(e, memlist[j])
    BY <2>1, Listed DEF FreeByte, IInv
  <2>3. /\ memlist[j].addr \in Nat /\ memlist[j].mlength \in Nat
        /\ memlist[j].addr <= e /\ e < memlist[j].addr + memlist[j].mlength
    BY <2>2, Listed DEF IInv, Within, End
  <2>4. CASE i = j
    BY <2>3, <2>4, <1>3
  <2>5. CASE i < j
    BY <2>3, <2>5, <1>3, Listed DEF IInv
  <2>6. CASE j < i
    BY SMT, SMTT(30), <2>3, <2>6, <1>3, Listed DEF IInv
  <2>. QED BY <2>4, <2>5, <2>6
<1>5. memlist[i].mlength >= n /\ i \in DOMAIN memlist
  BY <1>3, <1>4, Listed DEF IInv
<1>. QED
  BY <1>5, Zenon DEF Fits

\* What the refinement mapping gives Heap for its variables.
HeldBlocks == {Promise(b) : b \in owned}

Answered == IF answer = SYSERR THEN Refused0 ELSE Promise(answer)

\* Two callers never hold the same block.
LEMMA PromiseOfOne ==
  ASSUME NoWrap, IInv, NEW b \in owned, NEW c \in owned, Promise(b) = Promise(c)
  PROVE  b = c
<1>1. Base(b) = Base(c) /\ roundmb(b.nbytes) = roundmb(c.nbytes)
  <2>1. /\ Promise(b).addr = Base(b) /\ Promise(b).size = roundmb(b.nbytes)
        /\ Promise(c).addr = Base(c) /\ Promise(c).size = roundmb(c.nbytes)
    BY DEF Promise
  <2>. QED BY <2>1, Zenon
<1>2. Base(b) \in Nat /\ roundmb(b.nbytes) \in Nat /\ roundmb(b.nbytes) > 0
  BY HeldBlock DEF IInv
<1>3. ~ Apart(Taken(b), Taken(c))
  BY <1>1, <1>2 DEF Apart, Taken, Block, End
<1>. QED
  BY <1>3, Zenon DEF IInv, Separate

\* getmem or getstk that succeeds grants a block.
LEMMA GivesGrants ==
  ASSUME NoWrap, IInv, NEW h, Gives(h)
  PROVE  HeapI!Grant(roundmb(h.nbytes))
<1>. DEFINE n == roundmb(h.nbytes)
            p == [addr |-> Base(h), size |-> n]
<1>1. h \in HoldingType /\ Base(h) \in Nat /\ Whole(Taken(h)) /\ InHeap(Taken(h))
  BY DEF Gives
<1>2. n \in Nat
  BY <1>1, Sizes DEF HoldingType
<1>. HIDE DEF n
<1>3. /\ Base(h) \in MINHEAP .. MAXHEAP /\ Base(h) % 8 = 0
      /\ Base(h) + n <= MAXHEAP
  BY <1>1, <1>2, Bounds DEF Whole, Aligned, InHeap, Taken, Block, End, n
<1>4. Base(h) \in HeapI!Places
  BY <1>3, Zenon DEF HeapI!Places
<1>5. ASSUME NEW b \in owned
      PROVE  HeapI!Apart(p, Promise(b))
  BY GivenApart DEF HeapI!Apart, Apart, Taken, Block, End, Promise, n
<1>6. HeapI!Available(p)
  <2>1. p.addr + p.size <= MAXHEAP
    BY <1>3
  <2>. QED BY <1>5, <2>1, Zenon DEF HeapI!Available
<1>7. Promise(h) = p
  BY DEF Promise, n
<1>8. HeldBlocks' = HeldBlocks \union {p}
  BY <1>7 DEF Gives, HeldBlocks
<1>9. Answered' = p
  <2>1. h # SYSERR
    BY <1>1 DEF HoldingType, SYSERR, Holding
  <2>. QED BY <1>7, <2>1 DEF Gives, Answered
<1>. HIDE DEF p
<1>10. HeldBlocks' = HeldBlocks \union {[addr |-> Base(h), size |-> n]}
       /\ Answered' = [addr |-> Base(h), size |-> n]
       /\ HeapI!Available([addr |-> Base(h), size |-> n])
  BY <1>6, <1>8, <1>9 DEF p
<1>. QED
  BY <1>4, <1>10 DEF HeapI!Grant, HeldBlocks, Answered, n

\* getmem and getstk fail only when no run of free bytes is long enough.
LEMMA NoMemoryRefuses ==
  ASSUME NoWrap, IInv, NEW nb \in Requests, NoMemory(nb)
  PROVE  HeapI!Refuse(roundmb(nb))
<1>. DEFINE n == roundmb(nb)
<1>1. n \in Nat /\ n > 0
  BY Sizes
<1>2. Fits(n) = {} /\ answer' = SYSERR /\ owned' = owned
  BY DEF NoMemory
<1>. HIDE DEF n
<1>3. ASSUME NEW a \in HeapI!Places, HeapI!Available([addr |-> a, size |-> n])
      PROVE  FALSE
  <2>1. a \in Nat /\ MINHEAP <= a
    BY <1>3, Bounds DEF HeapI!Places
  <2>2. a + n <= MAXHEAP
    BY <1>3 DEF HeapI!Available
  <2>3. ASSUME NEW b \in owned
        PROVE  Apart(Block(a, n), Taken(b))
    <3>1. HeapI!Apart([addr |-> a, size |-> n], Promise(b))
      BY <1>3, <2>3 DEF HeapI!Available
    <3>. QED BY <3>1 DEF HeapI!Apart, Apart, Taken, Block, End, Promise
  <2>. QED BY <1>1, <1>2, <2>1, <2>2, <2>3, RunIsOneBlock, Zenon
<1>4. HeldBlocks' = HeldBlocks /\ Answered' = Refused0
  BY <1>2 DEF HeldBlocks, Answered
<1>. QED
  BY <1>3, <1>4 DEF HeapI!Refuse, HeldBlocks, Answered, n

\* freemem and freestk give back the block that the caller held, and no other.
LEMMA FreememReturns ==
  ASSUME NoWrap, IInv, NEW b \in owned, Freemem(b)
  PROVE  HeapI!Return(Promise(b))
<1>1. owned' = owned \ {b} /\ answer' = answer
  BY DEF Freemem
<1>2. \A c \in owned : Promise(b) = Promise(c) => b = c
  BY PromiseOfOne
<1>3. HeldBlocks' = HeldBlocks \ {Promise(b)}
  BY <1>1, <1>2, Zenon DEF HeldBlocks
<1>4. Answered' = Answered
  BY <1>1 DEF Answered
<1>. QED
  BY <1>3, <1>4 DEF HeapI!Return, HeldBlocks, Answered

\* The free list implements Heap: getmem and getstk give out bytes that nobody
\* holds, and refuse a request only when no run of free bytes is long enough.
THEOREM FreeListImplementsHeap ==
  ASSUME NoWrap
  PROVE  Spec => ImplementsHeap
<1>1. Init => HeapI!HeapInit
  BY DEF Init, HeapI!HeapInit
<1>2. IInv /\ [Next]_vars => [HeapI!HeapNext]_<<HeldBlocks, Answered>>
  <2>. SUFFICES ASSUME IInv, [Next]_vars
       PROVE  HeapI!HeapNext \/ UNCHANGED <<HeldBlocks, Answered>>
    OBVIOUS
  <2>. DEFINE S == {roundmb(n) : n \in Requests}
  <2>1. CASE UNCHANGED vars
    BY <2>1 DEF vars, HeldBlocks, Answered
  <2>2. ASSUME NEW n \in Requests, Getmem(n) \/ Getstk(n)
        PROVE  HeapI!HeapNext
    <3>1. PICK h : Gives(h) /\ h.nbytes = n
      BY <2>2, GetmemGives, GetstkGives
    <3>2. HeapI!Grant(roundmb(n))
      BY <3>1, GivesGrants
    <3>. QED BY <3>2 DEF HeapI!HeapNext
  <2>3. ASSUME NEW n \in Requests, NoMemory(n)
        PROVE  HeapI!HeapNext
    BY <2>3, NoMemoryRefuses DEF HeapI!HeapNext
  <2>4. ASSUME NEW b \in owned, Freemem(b)
        PROVE  HeapI!HeapNext
    BY <2>4, FreememReturns DEF HeapI!HeapNext
  <2>. QED BY <2>1, <2>2, <2>3, <2>4, Zenon DEF Next
<1>3. Spec => [][HeapI!HeapNext]_<<HeldBlocks, Answered>>
  BY <1>2, Invariant, PTL DEF Spec
<1>. QED
  BY <1>1, <1>3, PTL DEF Spec, ImplementsHeap, HeapI!HeapSpec, HeldBlocks, Answered
=============================================================================
