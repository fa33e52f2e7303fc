-------------------------- MODULE KernelCallProof ---------------------------
(***************************************************************************)
(* Proofs about the kernel, for every number of processes and semaphores,  *)
(* every quantum and every workload.                                       *)
(*                                                                         *)
(* The inductive invariant is the conjunction of the properties that TLC   *)
(* checks and of the two facts about kill and the loops they need.  The    *)
(* proof of a step has two halves: an action builds process states, lists  *)
(* and queues that agree with each other (Agree), and resched, called with *)
(* such values, leaves a state in which QueueInv holds.                    *)
(***************************************************************************)
EXTENDS Kernel, WellFoundedInduction, TLAPS

-----------------------------------------------------------------------------
(***************************************************************************)
(* The operations on the lists of processes, and what they do to a list.   *)
(***************************************************************************)

\* A nonempty set of naturals has the minimum that Min chooses.
LEMMA MinOfNat ==
  ASSUME NEW S \in SUBSET Nat, S # {}
  PROVE  Min(S) \in S /\ \A y \in S : Min(S) <= y
<1>. DEFINE R == {ss \in Nat \X Nat : ss[1] < ss[2]}
<1>1. R = OpToRel(<, Nat)
  BY DEF OpToRel
<1>2. IsWellFoundedOn(R, Nat)
  BY <1>1, NatLessThanWellFounded, Zenon
<1>3. PICK x \in S : \A y \in S : ~(<<y, x>> \in R)
  BY <1>2, WFMin, Zenon
<1>4. ASSUME NEW y \in S, y < x
      PROVE  FALSE
  <2>1. <<y, x>> \in Nat \X Nat /\ <<y, x>>[1] < <<y, x>>[2]
    BY <1>4
  <2>2. <<y, x>> \in R
    BY <2>1, Zenon
  <2>. QED  BY <1>3, <2>2, Zenon
<1>5. \A y \in S : x <= y
  BY <1>4
<1>. QED  BY <1>5 DEF Min

\* The elements of two lists joined.
LEMMA Joined ==
  ASSUME NEW S, NEW a \in Seq(S), NEW c \in Seq(S)
  PROVE  /\ a \o c \in Seq(S) /\ Len(a \o c) = Len(a) + Len(c)
         /\ \A j \in 1 .. Len(a) + Len(c) :
              (a \o c)[j] = IF j <= Len(a) THEN a[j] ELSE c[j - Len(a)]
<1>1. a \o c \in Seq(S)
  OBVIOUS
<1>2. Len(a \o c) = Len(a) + Len(c)
  OBVIOUS
<1>3. \A j \in 1 .. Len(a) + Len(c) :
        (a \o c)[j] = IF j <= Len(a) THEN a[j] ELSE c[j - Len(a)]
  OBVIOUS
<1>. QED  BY <1>1, <1>2, <1>3

\* The domain and the nodes of a list.
LEMMA ListNodes ==
  ASSUME NEW P, NEW q \in KeyedLists(P)
  PROVE  /\ Len(q) \in Nat /\ DOMAIN q = 1 .. Len(q)
         /\ q = <<>> <=> Len(q) = 0
         /\ \A i \in 1 .. Len(q) : /\ q[i] \in [pid : P, qkey : Int]
                                   /\ q[i].pid \in P /\ q[i].qkey \in Int
<1>. DEFINE N == [pid : P, qkey : Int]
<1>1. q \in Seq(N)
  BY DEF KeyedLists
<1>2. \A x \in N : x.pid \in P /\ x.qkey \in Int
  OBVIOUS
<1>. HIDE DEF N
<1>3. /\ Len(q) \in Nat /\ DOMAIN q = 1 .. Len(q) /\ (q = <<>> <=> Len(q) = 0)
      /\ \A i \in 1 .. Len(q) : q[i] \in N
  BY <1>1
<1>. QED  BY <1>2, <1>3 DEF N

\* InsertAt puts e at place i and moves the nodes from i on by one.
LEMMA InsertAtElements ==
  ASSUME NEW S, NEW q \in Seq(S), NEW i \in 1 .. Len(q) + 1, NEW e \in S
  PROVE  /\ InsertAt(q, i, e) \in Seq(S)
         /\ Len(InsertAt(q, i, e)) = Len(q) + 1
         /\ \A j \in 1 .. Len(q) + 1 :
              InsertAt(q, i, e)[j] = IF j < i THEN q[j]
                                     ELSE IF j = i THEN e ELSE q[j - 1]
<1>. DEFINE a == SubSeq(q, 1, i - 1)
            c == SubSeq(q, i, Len(q))
<1>1. /\ a \in Seq(S) /\ Len(a) = i - 1
      /\ \A j \in 1 .. i - 1 : a[j] = q[j]
  OBVIOUS
<1>2. /\ c \in Seq(S) /\ Len(c) = Len(q) - i + 1
      /\ \A j \in 1 .. Len(q) - i + 1 : c[j] = q[i + j - 1]
  OBVIOUS
<1>3. <<e>> \in Seq(S) /\ Len(<<e>>) = 1 /\ <<e>>[1] = e
  OBVIOUS
<1>. DEFINE b == a \o <<e>>
<1>4. /\ b \in Seq(S) /\ Len(b) = i
      /\ \A j \in 1 .. i : b[j] = IF j < i THEN q[j] ELSE e
  BY <1>1, <1>3
<1>5. /\ b \o c \in Seq(S) /\ Len(b \o c) = Len(q) + 1
      /\ \A j \in 1 .. Len(q) + 1 :
           (b \o c)[j] = IF j < i THEN q[j] ELSE IF j = i THEN e ELSE q[j - 1]
  <2>. HIDE DEF b, c
  <2>1. /\ b \o c \in Seq(S) /\ Len(b \o c) = Len(b) + Len(c)
        /\ \A j \in 1 .. Len(b) + Len(c) :
             (b \o c)[j] = IF j <= Len(b) THEN b[j] ELSE c[j - Len(b)]
    BY <1>2, <1>4, Joined
  <2>. QED  BY <2>1, <1>2, <1>4
<1>. QED  BY <1>5 DEF InsertAt

\* The length and each node of the result.
LEMMA InsertAtLength ==
  ASSUME NEW S, NEW q \in Seq(S), NEW i \in 1 .. Len(q) + 1, NEW e \in S
  PROVE  InsertAt(q, i, e) \in Seq(S) /\ Len(InsertAt(q, i, e)) = Len(q) + 1
BY InsertAtElements

Inserted(q, i, e, j) == IF j < i THEN q[j] ELSE IF j = i THEN e ELSE q[j - 1]

LEMMA InsertAtElement ==
  ASSUME NEW S, NEW q \in Seq(S), NEW i \in 1 .. Len(q) + 1, NEW e \in S,
         NEW j \in 1 .. Len(q) + 1
  PROVE  InsertAt(q, i, e)[j] = Inserted(q, i, e, j)
BY InsertAtElements DEF Inserted

\* RemoveAt takes the node at place i out and moves the later ones by one.
LEMMA RemoveAtElements ==
  ASSUME NEW S, NEW q \in Seq(S), NEW i \in 1 .. Len(q)
  PROVE  /\ RemoveAt(q, i) \in Seq(S)
         /\ Len(RemoveAt(q, i)) = Len(q) - 1
         /\ \A j \in 1 .. Len(q) - 1 :
              RemoveAt(q, i)[j] = IF j < i THEN q[j] ELSE q[j + 1]
<1>. DEFINE a == SubSeq(q, 1, i - 1)
            c == SubSeq(q, i + 1, Len(q))
<1>1. /\ a \in Seq(S) /\ Len(a) = i - 1
      /\ \A j \in 1 .. i - 1 : a[j] = q[j]
  OBVIOUS
<1>2. /\ c \in Seq(S) /\ Len(c) = Len(q) - i
      /\ \A j \in 1 .. Len(q) - i : c[j] = q[i + j]
  OBVIOUS
<1>3. /\ a \o c \in Seq(S) /\ Len(a \o c) = Len(a) + Len(c)
      /\ \A j \in 1 .. Len(a) + Len(c) :
           (a \o c)[j] = IF j <= Len(a) THEN a[j] ELSE c[j - Len(a)]
  <2>. HIDE DEF a, c
  <2>. QED  BY <1>1, <1>2, Joined
<1>4. /\ a \o c \in Seq(S) /\ Len(a \o c) = Len(q) - 1
      /\ \A j \in 1 .. Len(q) - 1 :
           (a \o c)[j] = IF j < i THEN q[j] ELSE q[j + 1]
  <2>. HIDE DEF a, c
  <2>. QED  BY SMT, SMTT(30), <1>1, <1>2, <1>3
<1>. QED  BY <1>4 DEF RemoveAt

-----------------------------------------------------------------------------

\* The processes of a list after a node was inserted at place i.
LEMMA InsertKeyed ==
  ASSUME NEW P, NEW q \in KeyedLists(P), NEW i \in 1 .. Len(q) + 1,
         NEW e \in [pid : P, qkey : Int]
  PROVE  /\ InsertAt(q, i, e) \in KeyedLists(P)
         /\ InsertAt(q, i, e) # <<>>
         /\ Members(InsertAt(q, i, e)) = Members(q) \union {e.pid}
         /\ Once(q) /\ e.pid \notin Members(q) => Once(InsertAt(q, i, e))
<1>. DEFINE r == InsertAt(q, i, e)
            N == [pid : P, qkey : Int]
<1>0. q \in Seq(N) /\ e \in N
  BY DEF KeyedLists
<1>. HIDE DEF N
<1>1. /\ r \in Seq(N) /\ Len(r) = Len(q) + 1
      /\ \A j \in 1 .. Len(q) + 1 :
           r[j] = IF j < i THEN q[j] ELSE IF j = i THEN e ELSE q[j - 1]
  BY <1>0, InsertAtElements
<1>2. Len(q) \in Nat /\ DOMAIN q = 1 .. Len(q) /\ DOMAIN r = 1 .. Len(q) + 1
  BY <1>0, <1>1
<1>. HIDE DEF r
<1>3. r # <<>>
  BY <1>1, <1>2
<1>4. Members(r) = Members(q) \union {e.pid}
  <2>1. ASSUME NEW x \in Members(r)
        PROVE  x \in Members(q) \union {e.pid}
    <3>1. PICK j \in 1 .. Len(q) + 1 : x = r[j].pid
      BY <1>2, <2>1 DEF Members
    <3>2. CASE j < i
      <4>1. r[j] = q[j] /\ j \in DOMAIN q
        BY <1>1, <1>2, <3>2
      <4>. QED  BY <3>1, <4>1 DEF Members
    <3>3. CASE j = i
      BY <1>1, <3>1, <3>3
    <3>4. CASE j > i
      <4>1. r[j] = q[j - 1] /\ j - 1 \in DOMAIN q
        BY <1>1, <1>2, <3>4
      <4>. QED  BY <3>1, <4>1 DEF Members
    <3>. QED  BY <3>2, <3>3, <3>4
  <2>2. ASSUME NEW x \in Members(q)
        PROVE  x \in Members(r)
    <3>1. PICK j \in 1 .. Len(q) : x = q[j].pid
      BY <1>2, <2>2 DEF Members
    <3>2. CASE j < i
      <4>1. r[j] = q[j] /\ j \in DOMAIN r
        BY <1>1, <1>2, <3>2
      <4>. QED  BY <3>1, <4>1 DEF Members
    <3>3. CASE j >= i
      <4>1. r[j + 1] = q[j] /\ j + 1 \in DOMAIN r
        BY <1>1, <1>2, <3>3
      <4>. QED  BY <3>1, <4>1 DEF Members
    <3>. QED  BY <3>2, <3>3
  <2>3. e.pid \in Members(r)
    <3>1. r[i] = e /\ i \in DOMAIN r
      BY <1>1, <1>2
    <3>. QED  BY <3>1 DEF Members
  <2>. QED  BY <2>1, <2>2, <2>3
<1>5. ASSUME Once(q), e.pid \notin Members(q)
      PROVE  Once(r)
  <2>. SUFFICES ASSUME NEW j \in 1 .. Len(q) + 1, NEW k \in 1 .. Len(q) + 1,
                       r[j].pid = r[k].pid
                PROVE  j = k
    BY <1>2 DEF Once
  <2>1. \A l \in 1 .. Len(q) : q[l].pid # e.pid
    BY <1>2, <1>5 DEF Members
  <2>2. \A l, n \in 1 .. Len(q) : q[l].pid = q[n].pid => l = n
    BY SMT, SMTT(30), <1>2, <1>5 DEF Once
  <2>3. \A l \in 1 .. Len(q) + 1 :
          r[l].pid = IF l < i THEN q[l].pid
                     ELSE IF l = i THEN e.pid ELSE q[l - 1].pid
    BY <1>1, <1>2
  <2>. QED  BY SMT, SMTT(30), <1>2, <2>1, <2>2, <2>3
<1>. QED  BY <1>1, <1>3, <1>4, <1>5 DEF r, N, KeyedLists

\* The processes of a list after the node at place i was taken out.
LEMMA RemoveKeyed ==
  ASSUME NEW P, NEW q \in KeyedLists(P), NEW i \in DOMAIN q, Once(q)
  PROVE  /\ RemoveAt(q, i) \in KeyedLists(P)
         /\ Members(RemoveAt(q, i)) = Members(q) \ {q[i].pid}
         /\ Once(RemoveAt(q, i))
<1>. DEFINE r == RemoveAt(q, i)
            N == [pid : P, qkey : Int]
<1>0. q \in Seq(N)
  BY DEF KeyedLists
<1>. HIDE DEF N
<1>1. Len(q) \in Nat /\ DOMAIN q = 1 .. Len(q)
  BY <1>0
<1>2. /\ r \in Seq(N) /\ Len(r) = Len(q) - 1
      /\ \A j \in 1 .. Len(q) - 1 : r[j] = IF j < i THEN q[j] ELSE q[j + 1]
  BY <1>0, <1>1, RemoveAtElements
<1>3. DOMAIN r = 1 .. Len(q) - 1
  BY <1>2
<1>. HIDE DEF r
<1>4. \A l, n \in 1 .. Len(q) : q[l].pid = q[n].pid => l = n
  BY <1>1 DEF Once
<1>5. Members(r) = Members(q) \ {q[i].pid}
  <2>1. ASSUME NEW x \in Members(r)
        PROVE  x \in Members(q) \ {q[i].pid}
    <3>1. PICK j \in 1 .. Len(q) - 1 : x = r[j].pid
      BY <1>3, <2>1 DEF Members
    <3>2. PICK k \in 1 .. Len(q) : k # i /\ x = q[k].pid
      <4>1. CASE j < i
        BY <1>1, <1>2, <3>1, <4>1
      <4>2. CASE j >= i
        <5>1. r[j] = q[j + 1] /\ j + 1 \in 1 .. Len(q) /\ j + 1 # i
          BY <1>1, <1>2, <4>2
        <5>. QED  BY <3>1, <5>1
      <4>. QED  BY <1>1, <4>1, <4>2
    <3>. QED  BY <1>1, <1>4, <3>2 DEF Members
  <2>2. ASSUME NEW x \in Members(q), x # q[i].pid
        PROVE  x \in Members(r)
    <3>1. PICK j \in 1 .. Len(q) : x = q[j].pid
      BY <1>1, <2>2 DEF Members
    <3>2. CASE j < i
      <4>1. r[j] = q[j] /\ j \in DOMAIN r
        BY <1>1, <1>2, <1>3, <3>2
      <4>. QED  BY <3>1, <4>1 DEF Members
    <3>3. CASE j > i
      <4>1. r[j - 1] = q[j] /\ j - 1 \in DOMAIN r
        BY <1>1, <1>2, <1>3, <3>3
      <4>. QED  BY <3>1, <4>1 DEF Members
    <3>. QED  BY <1>1, <2>2, <3>1, <3>2, <3>3
  <2>. QED  BY <2>1, <2>2
<1>6. Once(r)
  <2>. SUFFICES ASSUME NEW j \in 1 .. Len(q) - 1, NEW k \in 1 .. Len(q) - 1,
                       r[j].pid = r[k].pid
                PROVE  j = k
    BY <1>3 DEF Once
  <2>. QED  BY SMT, SMTT(30), <1>1, <1>2, <1>4
<1>. QED  BY <1>2, <1>5, <1>6 DEF r, N, KeyedLists

\* Changing keys moves no process.
LEMMA RekeyKeyed ==
  ASSUME NEW P, NEW q \in KeyedLists(P), NEW r,
         r \in [DOMAIN q -> [pid : P, qkey : Int]],
         \A i \in DOMAIN q : r[i].pid = q[i].pid
  PROVE  /\ r \in KeyedLists(P)
         /\ DOMAIN r = DOMAIN q
         /\ Members(r) = Members(q)
         /\ Once(q) => Once(r)
<1>. DEFINE N == [pid : P, qkey : Int]
<1>1. Len(q) \in Nat /\ DOMAIN q = 1 .. Len(q)
  BY DEF KeyedLists
<1>2. DOMAIN r = DOMAIN q
  OBVIOUS
<1>3. r \in Seq(N)
  <2>1. r \in [1 .. Len(q) -> N]
    BY <1>1
  <2>. HIDE DEF N
  <2>. QED  BY <1>1, <2>1
<1>. QED  BY SMT, SMTT(30), <1>2, <1>3 DEF KeyedLists, Members, Once

\* The first node of a list is taken out.
LEMMA TailKeyed ==
  ASSUME NEW P, NEW q \in KeyedLists(P), q # <<>>, Once(q)
  PROVE  /\ Tail(q) \in KeyedLists(P)
         /\ q[1] \in [pid : P, qkey : Int]
         /\ Members(Tail(q)) = Members(q) \ {q[1].pid}
         /\ q[1].pid \in Members(q)
         /\ Once(Tail(q))
<1>. DEFINE N == [pid : P, qkey : Int]
<1>0. q \in Seq(N)
  BY DEF KeyedLists
<1>. HIDE DEF N
<1>1. Len(q) \in Nat \ {0} /\ DOMAIN q = 1 .. Len(q)
  BY <1>0
<1>2. Tail(q) = RemoveAt(q, 1)
  <2>1. /\ Tail(q) \in Seq(N)
        /\ Len(Tail(q)) = Len(q) - 1
        /\ \A i \in 1 .. Len(Tail(q)) : Tail(q)[i] = q[i + 1]
    BY <1>0
  <2>2. /\ RemoveAt(q, 1) \in Seq(N)
        /\ Len(RemoveAt(q, 1)) = Len(q) - 1
        /\ \A j \in 1 .. Len(q) - 1 :
             RemoveAt(q, 1)[j] = IF j < 1 THEN q[j] ELSE q[j + 1]
    <3>1. 1 \in 1 .. Len(q)
      BY <1>1
    <3>. QED  BY <1>0, <3>1, RemoveAtElements
  <2>3. \A j \in 1 .. Len(Tail(q)) : Tail(q)[j] = RemoveAt(q, 1)[j]
    BY <1>1, <2>1, <2>2
  <2>. QED  BY <2>1, <2>2, <2>3
<1>3. 1 \in DOMAIN q
  BY <1>1
<1>4. q[1] \in N /\ q[1].pid \in Members(q)
  BY <1>0, <1>1, <1>3 DEF Members
<1>5. /\ RemoveAt(q, 1) \in KeyedLists(P)
      /\ Members(RemoveAt(q, 1)) = Members(q) \ {q[1].pid}
      /\ Once(RemoveAt(q, 1))
  BY <1>3, RemoveKeyed
<1>. QED  BY <1>2, <1>4, <1>5 DEF N

-----------------------------------------------------------------------------

\* insert adds the process and no other.
LEMMA InsertFacts ==
  ASSUME NEW P, NEW q \in KeyedLists(P), NEW p \in P, NEW key \in Int
  PROVE  /\ insert(p, q, key) \in KeyedLists(P)
         /\ insert(p, q, key) # <<>>
         /\ Members(insert(p, q, key)) = Members(q) \union {p}
         /\ Once(q) /\ p \notin Members(q) => Once(insert(p, q, key))
<1>. DEFINE I == {i \in 1 .. Len(q) + 1 : i <= Len(q) => q[i].qkey < key}
<1>1. Len(q) \in Nat
  BY DEF KeyedLists
<1>2. I \in SUBSET Nat /\ Len(q) + 1 \in I
  BY <1>1
<1>3. InsertPos(q, key) \in 1 .. Len(q) + 1
  <2>. HIDE DEF I
  <2>1. Min(I) \in I
    BY <1>2, MinOfNat
  <2>. QED  BY <2>1 DEF I, InsertPos
<1>4. Node(p, key) \in [pid : P, qkey : Int] /\ Node(p, key).pid = p
  BY DEF Node
<1>. QED  BY <1>3, <1>4, InsertKeyed DEF insert

\* getitem takes out the process and no other.
LEMMA GetitemFacts ==
  ASSUME NEW P, NEW q \in KeyedLists(P), Once(q), NEW p \in Members(q)
  PROVE  /\ getitem(p, q) \in KeyedLists(P)
         /\ Members(getitem(p, q)) = Members(q) \ {p}
         /\ Once(getitem(p, q))
<1>1. PosOf(p, q) \in DOMAIN q /\ q[PosOf(p, q)].pid = p
  BY DEF PosOf, Members
<1>. QED  BY <1>1, RemoveKeyed DEF getitem

\* unsleep takes out the process and no other.
LEMMA UnsleepFacts ==
  ASSUME NEW P, NEW q \in KeyedLists(P), Once(q), NEW p \in Members(q)
  PROVE  /\ unsleep(p, q) \in KeyedLists(P)
         /\ Members(unsleep(p, q)) = Members(q) \ {p}
         /\ Once(unsleep(p, q))
<1>. DEFINE at == PosOf(p, q)
            r == [i \in DOMAIN q |->
                    IF i = at + 1 THEN Node(q[i].pid, q[i].qkey + q[at].qkey)
                                  ELSE q[i]]
<1>1. at \in DOMAIN q /\ q[at].pid = p
  BY DEF PosOf, Members
<1>2. \A i \in DOMAIN q : q[i] \in [pid : P, qkey : Int]
  BY ListNodes
<1>3. /\ r \in [DOMAIN q -> [pid : P, qkey : Int]]
      /\ \A i \in DOMAIN q : r[i].pid = q[i].pid
  BY <1>1, <1>2 DEF Node
<1>. HIDE DEF at, r
<1>4. /\ r \in KeyedLists(P) /\ DOMAIN r = DOMAIN q
      /\ Members(r) = Members(q) /\ Once(r)
  BY <1>3, RekeyKeyed
<1>5. /\ RemoveAt(r, at) \in KeyedLists(P)
      /\ Members(RemoveAt(r, at)) = Members(r) \ {r[at].pid}
      /\ Once(RemoveAt(r, at))
  BY <1>1, <1>4, RemoveKeyed
<1>6. unsleep(p, q) = RemoveAt(r, at)
  BY DEF unsleep, r, at
<1>. QED  BY <1>1, <1>3, <1>4, <1>5, <1>6

-----------------------------------------------------------------------------

\* The due times of a delta list exist and are the running sums of its keys.
LEMMA DueInSums ==
  ASSUME NEW P, NEW q \in KeyedLists(P)
  PROVE  /\ DueIn(q) \in [0 .. Len(q) -> Int]
         /\ DueIn(q)[0] = 0
         /\ \A i \in 1 .. Len(q) : DueIn(q)[i] = DueIn(q)[i - 1] + q[i].qkey
<1>. DEFINE n == Len(q)
            Sums(m, f) == /\ f \in [0 .. m -> Int]
                          /\ f[0] = 0
                          /\ \A i \in 1 .. m : f[i] = f[i - 1] + q[i].qkey
            Bad == {m \in 0 .. n : ~ \E f : Sums(m, f)}
<1>1. n \in Nat /\ \A i \in 1 .. n : q[i].qkey \in Int
  BY ListNodes
<1>. HIDE DEF n
<1>2. Bad = {}
  <2>. SUFFICES ASSUME Bad # {}
                PROVE  FALSE
    OBVIOUS
  <2>1. PICK m \in Bad : \A k \in Bad : m <= k
    <3>1. Bad \in SUBSET Nat
      BY <1>1
    <3>. HIDE DEF Bad
    <3>. QED  BY <3>1, MinOfNat
  <2>2. m # 0
    <3>1. Sums(0, [i \in 0 .. 0 |-> 0])
      OBVIOUS
    <3>. QED  BY <3>1
  <2>3. m \in 1 .. n /\ m - 1 \in 0 .. n /\ m - 1 \notin Bad
    <3>1. m \in 0 .. n
      <4>. HIDE DEF Sums
      <4>. QED  OBVIOUS
    <3>. HIDE DEF Bad
    <3>. QED  BY <1>1, <2>1, <2>2, <3>1
  <2>4. PICK f : Sums(m - 1, f)
    <3>. HIDE DEF Sums
    <3>. QED  BY <2>3
  <2>. DEFINE g == [i \in 0 .. m |-> IF i < m THEN f[i]
                                     ELSE f[m - 1] + q[m].qkey]
  <2>5. Sums(m, g)
    <3>1. g \in [0 .. m -> Int]
      BY <1>1, <2>3, <2>4
    <3>2. g[0] = 0
      BY <2>3, <2>4
    <3>3. ASSUME NEW i \in 1 .. m
          PROVE  g[i] = g[i - 1] + q[i].qkey
      <4>1. CASE i < m
        BY SMT, SMTT(30), <2>3, <2>4, <4>1
      <4>2. CASE i = m
        BY <2>3, <2>4, <4>2
      <4>. QED  BY <2>3, <4>1, <4>2
    <3>. QED  BY <3>1, <3>2, <3>3
  <2>. QED  BY <2>1, <2>5
<1>3. PICK f : Sums(n, f)
  <2>1. n \in 0 .. n /\ n \notin Bad
    <3>. HIDE DEF Bad
    <3>. QED  BY <1>1, <1>2
  <2>. HIDE DEF Sums
  <2>. QED  BY <2>1
<1>4. f = [i \in 0 .. n |-> IF i = 0 THEN 0 ELSE f[i - 1] + q[i].qkey]
  BY <1>1, <1>3
<1>. DEFINE D == DueIn(q)
<1>5. D = [i \in 0 .. n |-> IF i = 0 THEN 0 ELSE D[i - 1] + q[i].qkey]
  BY <1>4, Zenon DEF DueIn, n
<1>. HIDE DEF D
<1>. DEFINE Odd == {i \in 0 .. n : D[i] \notin Int}
<1>6. Odd = {}
  <2>. SUFFICES ASSUME Odd # {}
                PROVE  FALSE
    OBVIOUS
  <2>1. PICK m \in Odd : \A k \in Odd : m <= k
    <3>1. Odd \in SUBSET Nat
      BY <1>1
    <3>. HIDE DEF Odd
    <3>. QED  BY <3>1, MinOfNat
  <2>2. D[0] = 0
    BY <1>1, <1>5
  <2>3. m \in 1 .. n /\ m - 1 \in 0 .. n /\ m - 1 \notin Odd
    BY <1>1, <2>1, <2>2
  <2>4. D[m] = D[m - 1] + q[m].qkey
    BY <1>5, <2>3
  <2>. QED  BY <1>1, <2>1, <2>3, <2>4
<1>7. /\ D \in [0 .. n -> Int]
      /\ D[0] = 0
      /\ \A i \in 1 .. n : D[i] = D[i - 1] + q[i].qkey
  <2>1. \A i \in 0 .. n : D[i] \in Int
    BY <1>6
  <2>2. DOMAIN D = 0 .. n /\ D = [i \in DOMAIN D |-> D[i]]
    <3>. DEFINE e(i) == IF i = 0 THEN 0 ELSE D[i - 1] + q[i].qkey
    <3>1. D = [i \in 0 .. n |-> e(i)]
      BY <1>5
    <3>. HIDE DEF e
    <3>. QED  BY <3>1
  <2>3. D \in [0 .. n -> Int]
    BY <2>1, <2>2
  <2>4. D[0] = 0
    BY <1>1, <1>5
  <2>5. ASSUME NEW i \in 1 .. n
        PROVE  D[i] = D[i - 1] + q[i].qkey
    BY <1>1, <1>5
  <2>. QED  BY <2>3, <2>4, <2>5
<1>. QED  BY <1>7 DEF D, n

\* insertd adds the process and no other.
LEMMA InsertdFacts ==
  ASSUME NEW P, NEW q \in KeyedLists(P), NEW p \in P, NEW delay \in Int
  PROVE  /\ insertd(p, q, delay) \in KeyedLists(P)
         /\ Members(insertd(p, q, delay)) = Members(q) \union {p}
         /\ Once(q) /\ p \notin Members(q) => Once(insertd(p, q, delay))
<1>. DEFINE I == {i \in 1 .. Len(q) + 1 : i <= Len(q) => DueIn(q)[i] > delay}
            at == DeltaPos(q, delay)
            key == delay - DueIn(q)[at - 1]
            r == [i \in DOMAIN q |->
                    IF i = at THEN Node(q[i].pid, q[i].qkey - key) ELSE q[i]]
<1>1. Len(q) \in Nat /\ DOMAIN q = 1 .. Len(q)
  BY DEF KeyedLists
<1>2. I \in SUBSET Nat /\ Len(q) + 1 \in I
  BY <1>1
<1>3. at \in 1 .. Len(q) + 1
  <2>. HIDE DEF I
  <2>1. Min(I) \in I
    BY <1>2, MinOfNat
  <2>. QED  BY <2>1 DEF I, DeltaPos
<1>. HIDE DEF at
<1>4. key \in Int
  BY SMT, SMTT(30), <1>1, <1>3, DueInSums
<1>. HIDE DEF key
<1>5. \A i \in DOMAIN q : q[i] \in [pid : P, qkey : Int]
  BY ListNodes
<1>6. /\ r \in [DOMAIN q -> [pid : P, qkey : Int]]
      /\ \A i \in DOMAIN q : r[i].pid = q[i].pid
  BY <1>4, <1>5 DEF Node
<1>. HIDE DEF r
<1>7. /\ r \in KeyedLists(P) /\ DOMAIN r = DOMAIN q
      /\ Members(r) = Members(q) /\ (Once(q) => Once(r))
  BY <1>6, RekeyKeyed
<1>8. Len(r) = Len(q)
  BY <1>1, <1>7 DEF KeyedLists
<1>9. Node(p, key) \in [pid : P, qkey : Int] /\ Node(p, key).pid = p
  BY <1>4 DEF Node
<1>10. /\ InsertAt(r, at, Node(p, key)) \in KeyedLists(P)
       /\ Members(InsertAt(r, at, Node(p, key))) = Members(r) \union {p}
       /\ Once(r) /\ p \notin Members(r)
            => Once(InsertAt(r, at, Node(p, key)))
  BY <1>3, <1>7, <1>8, <1>9, InsertKeyed
<1>11. insertd(p, q, delay) = InsertAt(r, at, Node(p, key))
  BY DEF insertd, r, at, key
<1>. QED  BY <1>7, <1>10, <1>11

\* The FIFO queue r holds the processes of q other than v, each once.
Without(r, q, v) ==
  /\ Len(r) = Len(q) - 1
  /\ \A x : (\E j \in DOMAIN r : r[j] = x)
           <=> x # v /\ \E j \in DOMAIN q : q[j] = x
  /\ \A j, k \in DOMAIN r : r[j] = r[k] => j = k

\* One element of a FIFO queue that holds each process once is taken out.
LEMMA RemoveFacts ==
  ASSUME NEW P, NEW q \in Seq(P), NEW i \in DOMAIN q,
         \A j, k \in DOMAIN q : q[j] = q[k] => j = k
  PROVE  RemoveAt(q, i) \in Seq(P) /\ Without(RemoveAt(q, i), q, q[i])
<1>. DEFINE r == RemoveAt(q, i)
<1>3. Len(q) \in Nat /\ DOMAIN q = 1 .. Len(q)
  OBVIOUS
<1>4. /\ r \in Seq(P) /\ Len(r) = Len(q) - 1
      /\ \A j \in 1 .. Len(q) - 1 : r[j] = IF j < i THEN q[j] ELSE q[j + 1]
  <2>1. i \in 1 .. Len(q)
    BY <1>3
  <2>. QED  BY <2>1, RemoveAtElements, Zenon
<1>5. DOMAIN r = 1 .. Len(q) - 1
  BY <1>4
<1>. HIDE DEF r
<1>6. ASSUME NEW x, NEW j \in DOMAIN r, r[j] = x
      PROVE  x # q[i] /\ \E k \in DOMAIN q : q[k] = x
  <2>1. CASE j < i
    <3>1. j \in DOMAIN q /\ r[j] = q[j] /\ j # i
      BY <1>3, <1>4, <1>5, <2>1
    <3>. QED  BY <1>6, <3>1
  <2>2. CASE j >= i
    <3>1. j + 1 \in DOMAIN q /\ r[j] = q[j + 1] /\ j + 1 # i
      BY <1>3, <1>4, <1>5, <2>2
    <3>. QED  BY <1>6, <3>1
  <2>. QED  BY <1>3, <1>5, <2>1, <2>2
<1>7. ASSUME NEW x, x # q[i], NEW j \in DOMAIN q, q[j] = x
      PROVE  \E k \in DOMAIN r : r[k] = x
  <2>1. CASE j < i
    <3>1. j \in DOMAIN r /\ r[j] = q[j]
      BY <1>3, <1>4, <1>5, <2>1
    <3>. QED  BY <1>7, <3>1
  <2>2. CASE j > i
    <3>1. j - 1 \in DOMAIN r /\ r[j - 1] = q[j]
      BY <1>3, <1>4, <1>5, <2>2
    <3>. QED  BY <1>7, <3>1
  <2>. QED  BY <1>3, <1>7, <2>1, <2>2
<1>8. ASSUME NEW j \in DOMAIN r, NEW k \in DOMAIN r, r[j] = r[k]
      PROVE  j = k
  <2>. DEFINE from(l) == IF l < i THEN l ELSE l + 1
  <2>1. \A l \in DOMAIN r : from(l) \in DOMAIN q /\ r[l] = q[from(l)]
    BY SMT, SMTT(30), <1>3, <1>4, <1>5
  <2>2. from(j) = from(k)
    <3>. HIDE DEF from
    <3>. QED  BY <1>8, <2>1
  <2>. QED  BY <1>3, <1>5, <2>2
<1>9. r \in Seq(P) /\ Without(r, q, q[i])
  BY <1>4, <1>6, <1>7, <1>8 DEF Without
<1>. QED  BY <1>9 DEF r

\* Unqueue takes the process out of a FIFO queue that holds it once.
LEMMA UnqueueFacts ==
  ASSUME NEW P, NEW q \in Seq(P), NEW v, \E i \in DOMAIN q : q[i] = v,
         \A j, k \in DOMAIN q : q[j] = q[k] => j = k
  PROVE  Unqueue(v, q) \in Seq(P) /\ Without(Unqueue(v, q), q, v)
<1>. DEFINE i == CHOOSE k \in DOMAIN q : q[k] = v
<1>1. i \in DOMAIN q /\ q[i] = v
  OBVIOUS
<1>2. Unqueue(v, q) = RemoveAt(q, i)
  BY DEF Unqueue
<1>. HIDE DEF i
<1>. QED  BY <1>1, <1>2, RemoveFacts

\* dequeue takes out the first process of a FIFO queue.
LEMMA DequeueFacts ==
  ASSUME NEW P, NEW q \in Seq(P), q # <<>>,
         \A j, k \in DOMAIN q : q[j] = q[k] => j = k
  PROVE  /\ q[1] \in P /\ 1 \in DOMAIN q
         /\ Tail(q) \in Seq(P) /\ Without(Tail(q), q, q[1])
<1>1. Len(q) \in Nat \ {0} /\ DOMAIN q = 1 .. Len(q) /\ q[1] \in P
  OBVIOUS
<1>. DEFINE r == Tail(q)
<1>2. /\ r \in Seq(P) /\ Len(r) = Len(q) - 1
      /\ \A j \in 1 .. Len(q) - 1 : r[j] = q[j + 1]
  BY <1>1
<1>3. DOMAIN r = 1 .. Len(q) - 1
  BY <1>2
<1>. HIDE DEF r
<1>4. ASSUME NEW x, NEW j \in DOMAIN r, r[j] = x
      PROVE  x # q[1] /\ \E k \in DOMAIN q : q[k] = x
  <2>1. j + 1 \in DOMAIN q /\ r[j] = q[j + 1] /\ j + 1 # 1 /\ 1 \in DOMAIN q
    BY <1>1, <1>2, <1>3
  <2>. QED  BY <1>4, <2>1
<1>5. ASSUME NEW x, x # q[1], NEW j \in DOMAIN q, q[j] = x
      PROVE  \E k \in DOMAIN r : r[k] = x
  <2>1. j # 1
    BY <1>5
  <2>2. j - 1 \in DOMAIN r /\ r[j - 1] = q[j]
    BY <1>1, <1>2, <1>3, <2>1
  <2>. QED  BY <1>5, <2>2
<1>6. ASSUME NEW j \in DOMAIN r, NEW k \in DOMAIN r, r[j] = r[k]
      PROVE  j = k
  <2>1. /\ j + 1 \in DOMAIN q /\ r[j] = q[j + 1]
        /\ k + 1 \in DOMAIN q /\ r[k] = q[k + 1] /\ j \in Nat /\ k \in Nat
    BY <1>1, <1>2, <1>3
  <2>2. j + 1 = k + 1
    BY <1>6, <2>1
  <2>. QED  BY <2>1, <2>2
<1>7. r \in Seq(P) /\ Without(r, q, q[1])
  BY <1>2, <1>4, <1>5, <1>6 DEF Without
<1>. QED  BY <1>1, <1>7 DEF r

\* enqueue puts a process behind the others in a FIFO queue.
LEMMA EnqueueFacts ==
  ASSUME NEW P, NEW q \in Seq(P), NEW p \in P, ~ \E i \in DOMAIN q : q[i] = p,
         \A j, k \in DOMAIN q : q[j] = q[k] => j = k
  PROVE  /\ Append(q, p) \in Seq(P)
         /\ Len(Append(q, p)) = Len(q) + 1
         /\ \A x : (\E j \in DOMAIN Append(q, p) : Append(q, p)[j] = x)
                  <=> x = p \/ \E j \in DOMAIN q : q[j] = x
         /\ \A j, k \in DOMAIN Append(q, p) :
              Append(q, p)[j] = Append(q, p)[k] => j = k
<1>. DEFINE r == Append(q, p)
<1>1. Len(q) \in Nat /\ DOMAIN q = 1 .. Len(q)
  OBVIOUS
<1>2. /\ r \in Seq(P) /\ Len(r) = Len(q) + 1
      /\ \A j \in 1 .. Len(q) : r[j] = q[j]
      /\ r[Len(q) + 1] = p
  OBVIOUS
<1>3. DOMAIN r = 1 .. Len(q) + 1
  BY <1>2
<1>. HIDE DEF r
<1>4. \A j \in DOMAIN r : /\ j = Len(q) + 1 => r[j] = p
                          /\ j # Len(q) + 1 => j \in DOMAIN q /\ r[j] = q[j]
  BY <1>1, <1>2, <1>3
<1>5. /\ Len(q) + 1 \in DOMAIN r
      /\ \A j \in DOMAIN q : j \in DOMAIN r /\ r[j] = q[j]
  BY <1>1, <1>2, <1>3
<1>6. \A x : (\E j \in DOMAIN r : r[j] = x)
             <=> x = p \/ \E j \in DOMAIN q : q[j] = x
  BY <1>4, <1>5
<1>7. \A j, k \in DOMAIN r : r[j] = r[k] => j = k
  BY <1>4, <1>5
<1>8. /\ r \in Seq(P) /\ Len(r) = Len(q) + 1
      /\ \A x : (\E j \in DOMAIN r : r[j] = x)
               <=> x = p \/ \E j \in DOMAIN q : q[j] = x
      /\ \A j, k \in DOMAIN r : r[j] = r[k] => j = k
  BY <1>2, <1>6, <1>7
<1>. QED  BY <1>8 DEF r

-----------------------------------------------------------------------------
(***************************************************************************)
(* The order of a list kept by key, and the keys themselves.               *)
(***************************************************************************)

\* Keys do not increase along the list.
Sorted(q) == \A i, j \in DOMAIN q : i < j => q[i].qkey >= q[j].qkey

\* The key of every node is what pr gives its process.
KeysFrom(q, pr) == \A i \in DOMAIN q : q[i].qkey = pr[q[i].pid]

\* No key is above n.
Below(q, n) == \A i \in DOMAIN q : q[i].qkey <= n

\* insert keeps the order: it stops before the first smaller key.
LEMMA InsertSorted ==
  ASSUME NEW P, NEW q \in KeyedLists(P), NEW p \in P, NEW key \in Int, Sorted(q)
  PROVE  /\ Sorted(insert(p, q, key))
         /\ \A pr : KeysFrom(q, pr) /\ pr[p] = key => KeysFrom(insert(p, q, key), pr)
<1>. DEFINE I == {i \in 1 .. Len(q) + 1 : i <= Len(q) => q[i].qkey < key}
            at == InsertPos(q, key)
            e == Node(p, key)
            N == [pid : P, qkey : Int]
            r == InsertAt(q, at, e)
<1>1. q \in Seq(N) /\ Len(q) \in Nat /\ DOMAIN q = 1 .. Len(q)
  BY DEF KeyedLists
<1>2. \A i \in 1 .. Len(q) : q[i] \in N /\ q[i].qkey \in Int
  <2>1. \A i \in 1 .. Len(q) : q[i] \in N
    <3>. HIDE DEF N
    <3>. QED  BY <1>1
  <2>. QED  BY <2>1
<1>3. at \in I /\ \A i \in I : at <= i
  <2>1. I \in SUBSET Nat /\ Len(q) + 1 \in I
    BY <1>1
  <2>. HIDE DEF I
  <2>2. Min(I) \in I /\ \A i \in I : Min(I) <= i
    BY <2>1, MinOfNat
  <2>. QED  BY <2>2 DEF InsertPos, I
<1>. HIDE DEF at
<1>4. /\ at \in 1 .. Len(q) + 1
      /\ \A i \in 1 .. Len(q) : i < at => q[i].qkey >= key
      /\ at <= Len(q) => q[at].qkey < key
  BY <1>1, <1>2, <1>3
<1>5. \A i \in 1 .. Len(q) : at <= i => q[i].qkey < key
  <2>. SUFFICES ASSUME NEW i \in 1 .. Len(q), at <= i
                PROVE  q[i].qkey < key
    OBVIOUS
  <2>1. /\ at \in 1 .. Len(q) /\ q[at].qkey < key
        /\ q[at].qkey \in Int /\ q[i].qkey \in Int
    BY <1>1, <1>2, <1>4
  <2>2. CASE at = i
    BY <2>1, <2>2
  <2>3. CASE at < i
    <3>1. q[at].qkey >= q[i].qkey
      BY <1>1, <2>1, <2>3 DEF Sorted
    <3>. QED  BY <2>1, <3>1
  <2>. QED  BY <1>1, <1>4, <2>2, <2>3
<1>6. e \in N /\ e.qkey = key /\ e.pid = p
  BY DEF Node
<1>7. /\ r \in Seq(N) /\ Len(r) = Len(q) + 1
      /\ \A j \in 1 .. Len(q) + 1 :
           r[j] = IF j < at THEN q[j] ELSE IF j = at THEN e ELSE q[j - 1]
  <2>1. q \in Seq(N) /\ at \in 1 .. Len(q) + 1 /\ e \in N
    BY <1>1, <1>4, <1>6
  <2>. HIDE DEF N, e
  <2>. QED  BY <2>1, InsertAtElements, SMT, SMTT(30)
<1>8. DOMAIN r = 1 .. Len(q) + 1 /\ insert(p, q, key) = r
  BY <1>1, <1>7 DEF insert, at
<1>. HIDE DEF r, e
<1>9. Sorted(r)
  <2>1. ASSUME NEW i \in 1 .. Len(q) + 1, NEW j \in 1 .. Len(q) + 1, i < j
        PROVE  r[i].qkey >= r[j].qkey
    <3>1. CASE j < at
      <4>1. r[i] = q[i] /\ r[j] = q[j] /\ i \in 1 .. Len(q) /\ j \in 1 .. Len(q)
        BY <1>1, <1>4, <1>7, <2>1, <3>1
      <4>. QED  BY <1>1, <2>1, <4>1 DEF Sorted
    <3>2. CASE j = at
      <4>1. r[i] = q[i] /\ r[j] = e /\ i \in 1 .. Len(q)
        BY <1>1, <1>4, <1>7, <2>1, <3>2
      <4>. QED  BY <1>4, <1>6, <2>1, <3>2, <4>1
    <3>3. CASE j > at
      <4>1. r[j] = q[j - 1] /\ j - 1 \in 1 .. Len(q) /\ at <= j - 1
        BY <1>1, <1>4, <1>7, <2>1, <3>3
      <4>2. CASE i < at
        <5>1. r[i] = q[i] /\ i \in 1 .. Len(q) /\ i < j - 1
          BY <1>1, <1>4, <1>7, <2>1, <3>3, <4>2
        <5>. QED  BY SMT, SMTT(30), <1>1, <4>1, <5>1 DEF Sorted
      <4>3. CASE i = at
        <5>1. r[i] = e
          BY <1>7, <4>3
        <5>. QED  BY <1>2, <1>5, <1>6, <4>1, <5>1
      <4>4. CASE i > at
        <5>1. r[i] = q[i - 1] /\ i - 1 \in 1 .. Len(q) /\ i - 1 < j - 1
          BY <1>1, <1>4, <1>7, <2>1, <4>4
        <5>. QED  BY SMT, SMTT(30), <1>1, <4>1, <5>1 DEF Sorted
      <4>. QED  BY <1>4, <4>2, <4>3, <4>4
    <3>. QED  BY <1>4, <3>1, <3>2, <3>3
  <2>. QED  BY <1>8, <2>1 DEF Sorted
<1>10. ASSUME NEW pr, KeysFrom(q, pr), pr[p] = key, NEW j \in 1 .. Len(q) + 1
       PROVE  r[j].qkey = pr[r[j].pid]
  <2>1. CASE j = at
    BY <1>6, <1>7, <1>10, <2>1
  <2>2. CASE j # at
    <3>. DEFINE i == IF j < at THEN j ELSE j - 1
    <3>1. i \in 1 .. Len(q) /\ r[j] = q[i]
      BY SMT, SMTT(30), <1>1, <1>4, <1>7, <2>2
    <3>. HIDE DEF i
    <3>. QED  BY SMT, SMTT(30), <1>1, <1>10, <3>1 DEF KeysFrom
  <2>. QED  BY <2>1, <2>2
<1>. QED  BY <1>8, <1>9, <1>10 DEF KeysFrom

\* A list from which a node was taken keeps its order and its keys.
LEMMA RemoveSorted ==
  ASSUME NEW P, NEW q \in KeyedLists(P), NEW i \in DOMAIN q
  PROVE  /\ Sorted(q) => Sorted(RemoveAt(q, i))
         /\ \A pr : KeysFrom(q, pr) => KeysFrom(RemoveAt(q, i), pr)
         /\ \A n : Below(q, n) => Below(RemoveAt(q, i), n)
<1>. DEFINE r == RemoveAt(q, i)
            N == [pid : P, qkey : Int]
<1>1. q \in Seq(N) /\ Len(q) \in Nat /\ DOMAIN q = 1 .. Len(q)
  BY DEF KeyedLists
<1>. HIDE DEF N
<1>2. /\ r \in Seq(N) /\ Len(r) = Len(q) - 1
      /\ \A j \in 1 .. Len(q) - 1 : r[j] = IF j < i THEN q[j] ELSE q[j + 1]
  BY <1>1, RemoveAtElements
<1>3. DOMAIN r = 1 .. Len(q) - 1
  BY <1>1, <1>2
<1>. HIDE DEF r
<1>. DEFINE from(j) == IF j < i THEN j ELSE j + 1
<1>4. \A j \in DOMAIN r : from(j) \in DOMAIN q /\ r[j] = q[from(j)]
  BY SMT, SMTT(30), <1>1, <1>2, <1>3
<1>5. \A j, k \in DOMAIN r : j < k => from(j) < from(k)
  BY <1>1, <1>3
<1>. HIDE DEF from
<1>6. Sorted(q) => Sorted(r)
  BY <1>4, <1>5 DEF Sorted
<1>7. \A pr : KeysFrom(q, pr) => KeysFrom(r, pr)
  BY <1>4 DEF KeysFrom
<1>8. \A n : Below(q, n) => Below(r, n)
  BY <1>4 DEF Below
<1>. QED  BY <1>6, <1>7, <1>8 DEF r

\* The first node of an ordered list has the highest key.
LEMMA TailSorted ==
  ASSUME NEW P, NEW q \in KeyedLists(P), q # <<>>, Sorted(q)
  PROVE  /\ Sorted(Tail(q)) /\ Below(Tail(q), q[1].qkey)
         /\ \A pr : KeysFrom(q, pr) => KeysFrom(Tail(q), pr) /\ q[1].qkey = pr[q[1].pid]
<1>. DEFINE N == [pid : P, qkey : Int]
<1>1. /\ q \in Seq(N) /\ Len(q) \in Nat \ {0} /\ DOMAIN q = 1 .. Len(q)
  BY DEF KeyedLists
<1>. HIDE DEF N
<1>2. /\ Tail(q) \in Seq(N) /\ Len(Tail(q)) = Len(q) - 1
      /\ \A i \in 1 .. Len(q) - 1 : Tail(q)[i] = q[i + 1]
  BY <1>1
<1>3. DOMAIN Tail(q) = 1 .. Len(q) - 1
  BY <1>1, <1>2
<1>4. Sorted(Tail(q)) /\ Below(Tail(q), q[1].qkey)
  BY SMT, SMTT(30), <1>1, <1>2, <1>3 DEF Sorted, Below
<1>5. \A pr : KeysFrom(q, pr) => KeysFrom(Tail(q), pr) /\ q[1].qkey = pr[q[1].pid]
  BY <1>1, <1>2, <1>3 DEF KeysFrom
<1>. QED  BY <1>4, <1>5

-----------------------------------------------------------------------------
(***************************************************************************)
(* Delta lists: when the processes of the list are due.                    *)
(***************************************************************************)

\* The ticks each process of a delta list has left.
Left(q) == [p \in Members(q) |-> DueIn(q)[PosOf(p, q)]]

\* No process is overdue.
Pending(q) == \A i \in DOMAIN q : q[i].qkey >= 0

\* The first process is not due yet.
FirstLater(q) == q # <<>> => q[1].qkey > 0

\* The first node of a list.
LEMMA FirstNode ==
  ASSUME NEW P, NEW q \in KeyedLists(P), q # <<>>
  PROVE  1 \in DOMAIN q /\ q[1].pid \in P /\ q[1].qkey \in Int
<1>1. /\ Len(q) \in Nat /\ DOMAIN q = 1 .. Len(q) /\ Len(q) # 0
      /\ \A i \in 1 .. Len(q) : q[i].pid \in P /\ q[i].qkey \in Int
  BY ListNodes
<1>2. 1 \in 1 .. Len(q)
  BY <1>1
<1>. QED  BY <1>1, <1>2

\* Only the due times satisfy their equations.
LEMMA DueUnique ==
  ASSUME NEW P, NEW q \in KeyedLists(P), NEW f, f[0] = 0,
         \A i \in 1 .. Len(q) : f[i] = f[i - 1] + q[i].qkey
  PROVE  \A i \in 0 .. Len(q) : DueIn(q)[i] = f[i]
<1>. DEFINE Bad == {i \in 0 .. Len(q) : DueIn(q)[i] # f[i]}
<1>1. /\ Len(q) \in Nat /\ DueIn(q)[0] = 0
      /\ \A i \in 1 .. Len(q) : DueIn(q)[i] = DueIn(q)[i - 1] + q[i].qkey
  BY DueInSums, ListNodes
<1>2. Bad = {}
  <2>. SUFFICES ASSUME Bad # {}
                PROVE  FALSE
    OBVIOUS
  <2>. DEFINE m == Min(Bad)
  <2>1. m \in Bad /\ \A i \in Bad : m <= i
    <3>1. Bad \in SUBSET Nat
      BY <1>1
    <3>. HIDE DEF Bad
    <3>. QED  BY <3>1, MinOfNat
  <2>. HIDE DEF m
  <2>2. m \in 1 .. Len(q) /\ m - 1 \in 0 .. Len(q) /\ ~(m <= m - 1)
    BY <1>1, <2>1
  <2>3. DueIn(q)[m - 1] = f[m - 1]
    BY <2>1, <2>2
  <2>4. DueIn(q)[m] = f[m]
    BY <1>1, <2>2, <2>3
  <2>. QED  BY <2>1, <2>4
<1>. QED  BY <1>2

\* The place of the process of node i is i.
LEMMA PosOfNode ==
  ASSUME NEW q, Once(q), NEW i \in DOMAIN q
  PROVE  PosOf(q[i].pid, q) = i
  BY DEF PosOf, Once

\* The process of node i is due when node i is.
LEMMA LeftOfNode ==
  ASSUME NEW q, Once(q), NEW i \in DOMAIN q
  PROVE  q[i].pid \in Members(q) /\ Left(q)[q[i].pid] = DueIn(q)[i]
<1>1. q[i].pid \in Members(q)
  BY DEF Members
<1>. QED  BY <1>1, PosOfNode DEF Left

\* The nodes of r are due at the times f, and their processes at the times g.
DueAt(r, f, g) ==
  /\ f[0] = 0
  /\ \A i \in 1 .. Len(r) : f[i] = f[i - 1] + r[i].qkey /\ f[i] = g[r[i].pid]

\* What is left to the processes, from the due times of the nodes.
LEMMA LeftFrom ==
  ASSUME NEW P, NEW r \in KeyedLists(P), Once(r), NEW f, NEW g, DueAt(r, f, g)
  PROVE  Left(r) = [p \in Members(r) |-> g[p]]
<1>1. \A i \in 0 .. Len(r) : DueIn(r)[i] = f[i]
  BY DueUnique DEF DueAt
<1>2. ASSUME NEW p \in Members(r)
      PROVE  DueIn(r)[PosOf(p, r)] = g[p]
  <2>1. PICK i \in DOMAIN r : r[i].pid = p
    BY DEF Members
  <2>2. PosOf(p, r) = i /\ i \in 1 .. Len(r) /\ i \in 0 .. Len(r)
    BY <2>1, PosOfNode, ListNodes
  <2>. QED  BY <1>1, <2>1, <2>2 DEF DueAt
<1>. QED  BY <1>2 DEF Left

\* If the first process is not due yet, none is.
LEMMA AllLater ==
  ASSUME NEW P, NEW q \in KeyedLists(P), Pending(q), FirstLater(q)
  PROVE  \A i \in DOMAIN q : DueIn(q)[i] > 0
<1>. DEFINE Bad == {i \in 1 .. Len(q) : ~(DueIn(q)[i] > 0)}
<1>1. /\ Len(q) \in Nat /\ DOMAIN q = 1 .. Len(q) /\ (q = <<>> <=> Len(q) = 0)
      /\ \A i \in 1 .. Len(q) : q[i].qkey \in Int
  BY ListNodes
<1>2. /\ DueIn(q) \in [0 .. Len(q) -> Int] /\ DueIn(q)[0] = 0
      /\ \A i \in 1 .. Len(q) : DueIn(q)[i] = DueIn(q)[i - 1] + q[i].qkey
  BY DueInSums
<1>3. Bad = {}
  <2>. SUFFICES ASSUME Bad # {}
                PROVE  FALSE
    OBVIOUS
  <2>. DEFINE m == Min(Bad)
  <2>1. m \in Bad /\ \A i \in Bad : m <= i
    <3>1. Bad \in SUBSET Nat
      BY <1>1
    <3>. HIDE DEF Bad
    <3>. QED  BY <3>1, MinOfNat
  <2>. HIDE DEF m
  <2>2. m \in 1 .. Len(q) /\ q[m].qkey \in Int /\ q[m].qkey >= 0
    BY <1>1, <2>1 DEF Pending
  <2>3. CASE m = 1
    <3>1. q[1].qkey > 0 /\ DueIn(q)[1] = DueIn(q)[0] + q[1].qkey
      BY <1>1, <1>2, <2>2, <2>3 DEF FirstLater
    <3>. QED  BY <1>2, <2>1, <2>2, <2>3, <3>1
  <2>4. CASE m # 1
    <3>1. m - 1 \in 1 .. Len(q) /\ ~(m <= m - 1)
      BY <1>1, <2>2, <2>4
    <3>2. DueIn(q)[m - 1] > 0 /\ DueIn(q)[m - 1] \in Int
      BY SMT, SMTT(30), <1>1, <1>2, <2>1, <3>1
    <3>3. DueIn(q)[m] = DueIn(q)[m - 1] + q[m].qkey
      BY SMT, SMTT(30), <1>2, <2>2
    <3>. QED  BY <2>1, <2>2, <3>2, <3>3
  <2>. QED  BY <2>3, <2>4
<1>. QED  BY <1>1, <1>3

\* The time left of each process, with p and a delay added, and without p.
LeftWith(q, p, delay) ==
  [r \in Members(q) \union {p} |-> IF r = p THEN delay ELSE Left(q)[r]]

LeftWithout(q, p) == [r \in Members(q) \ {p} |-> Left(q)[r]]

\* insertd gives the new process its delay and leaves the others theirs; a list
\* without overdue processes stays one.
LEMMA InsertdLeft ==
  ASSUME NEW P, NEW q \in KeyedLists(P), Once(q), NEW p \in P, p \notin Members(q),
         NEW delay \in Int
  PROVE  /\ Left(insertd(p, q, delay)) = LeftWith(q, p, delay)
         /\ Pending(q) /\ delay >= 0 => Pending(insertd(p, q, delay))
         /\ FirstLater(q) /\ delay > 0 => FirstLater(insertd(p, q, delay))
<1>. DEFINE n == Len(q)
            due == DueIn(q)
            I == {i \in 1 .. n + 1 : i <= n => due[i] > delay}
            at == DeltaPos(q, delay)
            key == delay - due[at - 1]
            b == [i \in DOMAIN q |->
                    IF i = at THEN Node(q[i].pid, q[i].qkey - key) ELSE q[i]]
            e == Node(p, key)
            N == [pid : P, qkey : Int]
            r == InsertAt(b, at, e)
<1>1. /\ n \in Nat /\ DOMAIN q = 1 .. n /\ (q = <<>> <=> n = 0)
      /\ \A i \in 1 .. n : q[i] \in N /\ q[i].pid \in P /\ q[i].qkey \in Int
  BY ListNodes
<1>2. /\ due \in [0 .. n -> Int] /\ due[0] = 0
      /\ \A i \in 1 .. n : due[i] = due[i - 1] + q[i].qkey
  BY DueInSums
<1>3. at \in I /\ \A i \in I : at <= i
  <2>1. I \in SUBSET Nat /\ n + 1 \in I
    BY <1>1
  <2>. HIDE DEF I
  <2>2. Min(I) \in I /\ \A i \in I : Min(I) <= i
    BY <2>1, MinOfNat
  <2>. QED  BY <2>2 DEF DeltaPos, I
<1>4. insertd(p, q, delay) = r
  BY DEF insertd
<1>5. /\ r \in KeyedLists(P) /\ Members(r) = Members(q) \union {p} /\ Once(r)
  BY <1>4, InsertdFacts
<1>. HIDE DEF at, n, due
<1>6. /\ at \in 1 .. n + 1
      /\ at <= n => due[at] > delay
      /\ at - 1 \in 0 .. n
      /\ at # 1 => due[at - 1] <= delay
  <2>1. at \in 1 .. n + 1 /\ (at <= n => due[at] > delay) /\ at - 1 \in 0 .. n
    BY <1>1, <1>3
  <2>2. at # 1 => at - 1 \in 1 .. n + 1 /\ at - 1 <= n /\ ~(at <= at - 1)
    BY <1>1, <2>1
  <2>3. at # 1 => ~(due[at - 1] > delay)
    BY <1>3, <2>2
  <2>. QED  BY <1>2, <2>1, <2>3
<1>7. key \in Int /\ due[at - 1] \in Int /\ due[at - 1] + key = delay
  BY <1>2, <1>6
<1>. HIDE DEF key
<1>8. e \in N /\ e.pid = p /\ e.qkey = key
  BY <1>7 DEF Node
<1>9. /\ b \in Seq(N) /\ Len(b) = n
      /\ \A i \in 1 .. n : /\ b[i].pid = q[i].pid
                           /\ i # at => b[i] = q[i]
                           /\ i = at => b[i].qkey = q[i].qkey - key
  <2>1. \A i \in 1 .. n : /\ b[i] \in N /\ b[i].pid = q[i].pid
                          /\ i # at => b[i] = q[i]
                          /\ i = at => b[i].qkey = q[i].qkey - key
    BY <1>1, <1>7 DEF Node
  <2>2. b \in [1 .. n -> N]
    <3>1. b = [i \in 1 .. n |-> b[i]]
      BY <1>1
    <3>. HIDE DEF b, N
    <3>. QED  BY <2>1, <3>1
  <2>. HIDE DEF b, N
  <2>3. b \in Seq(N) /\ DOMAIN b = 1 .. n
    BY <1>1, <2>2
  <2>4. Len(b) = n
    BY <1>1, <2>3
  <2>. QED  BY <2>1, <2>3, <2>4
<1>. HIDE DEF b, e
<1>10. /\ r \in Seq(N) /\ Len(r) = n + 1
       /\ \A j \in 1 .. n + 1 :
            r[j] = IF j < at THEN b[j] ELSE IF j = at THEN e ELSE b[j - 1]
  <2>1. b \in Seq(N) /\ at \in 1 .. Len(b) + 1 /\ e \in N
    BY <1>6, <1>8, <1>9
  <2>. HIDE DEF N
  <2>2. r \in Seq(N) /\ Len(r) = Len(b) + 1
    BY <2>1, InsertAtLength, Zenon
  <2>3. \A j \in 1 .. Len(b) + 1 : r[j] = Inserted(b, at, e, j)
    BY <2>1, InsertAtElement, Zenon
  <2>. HIDE DEF r
  <2>. QED  BY <1>9, <2>2, <2>3 DEF Inserted
<1>. HIDE DEF r, N
<1>11. Left(r) = [x \in Members(q) \union {p} |-> IF x = p THEN delay ELSE Left(q)[x]]
  <2>. DEFINE f == [j \in 0 .. n + 1 |-> IF j < at THEN due[j]
                                         ELSE IF j = at THEN delay ELSE due[j - 1]]
              g == [x \in Members(q) \union {p} |-> IF x = p THEN delay ELSE Left(q)[x]]
  <2>1. f[0] = 0
    BY <1>1, <1>2, <1>6
  <2>2. ASSUME NEW j \in 1 .. n + 1
        PROVE  f[j] = f[j - 1] + r[j].qkey /\ f[j] = g[r[j].pid]
    <3>1. \A i \in 1 .. n : /\ q[i].pid \in Members(q) /\ q[i].pid # p
                            /\ g[q[i].pid] = due[i]
      <4>1. \A i \in 1 .. n : q[i].pid \in Members(q) /\ Left(q)[q[i].pid] = due[i]
        BY <1>1, LeftOfNode DEF due
      <4>. QED  BY <4>1
    <3>2. CASE j < at
      <4>1. /\ j \in 1 .. n /\ j - 1 < at /\ j - 1 \in 0 .. n + 1 /\ j \in 0 .. n + 1
            /\ r[j] = q[j]
        BY <1>1, <1>6, <1>9, <1>10, <3>2
      <4>2. f[j] = due[j] /\ f[j - 1] = due[j - 1]
        BY <3>2, <4>1
      <4>. QED  BY <1>2, <3>1, <4>1, <4>2
    <3>3. CASE j = at
      <4>1. j - 1 \in 0 .. n + 1 /\ j \in 0 .. n + 1 /\ r[j] = e /\ j - 1 < at
        BY <1>1, <1>6, <1>10, <3>3
      <4>2. f[j] = delay /\ f[j - 1] = due[at - 1]
        BY <1>1, <1>6, <3>3, <4>1
      <4>. QED  BY <1>7, <1>8, <3>3, <4>1, <4>2
    <3>4. CASE j > at
      <4>. DEFINE i == j - 1
      <4>1. /\ i \in 1 .. n /\ i >= at /\ i \in 0 .. n + 1 /\ j \in 0 .. n + 1
            /\ r[j] = b[i]
        BY <1>1, <1>6, <1>10, <3>4
      <4>2. f[j] = due[i] /\ f[i] = IF i = at THEN delay ELSE due[i - 1]
        BY <1>1, <1>6, <3>4, <4>1
      <4>3. b[i].pid = q[i].pid /\ due[i] = due[i - 1] + q[i].qkey
        BY <1>2, <1>9, <4>1
      <4>4. b[i].qkey = IF i = at THEN q[i].qkey - key ELSE q[i].qkey
        BY <1>9, <4>1
      <4>5. due[i] \in Int /\ due[i - 1] \in Int /\ q[i].qkey \in Int
        BY <1>1, <1>2, <4>1
      <4>. HIDE DEF i, f, g
      <4>6. due[i] = f[i] + b[i].qkey
        BY <1>7, <4>2, <4>3, <4>4, <4>5
      <4>. QED  BY <3>1, <4>1, <4>2, <4>3, <4>6 DEF i
    <3>. QED  BY <1>6, <3>2, <3>3, <3>4
  <2>. HIDE DEF f, g
  <2>3. DueAt(r, f, g)
    BY <1>10, <2>1, <2>2 DEF DueAt
  <2>4. r \in KeyedLists(P) /\ Once(r)
    BY <1>5
  <2>5. Left(r) = [x \in Members(r) |-> g[x]]
    BY ONLY <2>3, <2>4, LeftFrom
  <2>. QED  BY <1>5, <2>5 DEF g
<1>12. ASSUME Pending(q), delay >= 0
       PROVE  Pending(r)
  <2>1. key >= 0
    <3>1. CASE at = 1
      BY <1>2, <1>7, <1>12, <3>1
    <3>2. CASE at # 1
      BY <1>6, <1>7, <3>2
    <3>. QED  BY <3>1, <3>2
  <2>2. ASSUME NEW i \in 1 .. n
        PROVE  b[i].qkey >= 0
    <3>1. CASE i # at
      BY SMT, SMTT(30), <1>1, <1>9, <1>12, <2>2, <3>1 DEF Pending
    <3>2. CASE i = at
      <4>1. due[i] > delay /\ due[i] = due[i - 1] + q[i].qkey /\ q[i].qkey \in Int
        BY <1>1, <1>2, <1>6, <3>2
      <4>2. b[i].qkey = q[i].qkey - key
        BY <1>9, <3>2
      <4>. QED  BY <1>2, <1>7, <3>2, <4>1, <4>2
    <3>. QED  BY <3>1, <3>2
  <2>3. DOMAIN r = 1 .. n + 1
    BY <1>10
  <2>4. ASSUME NEW j \in 1 .. n + 1
        PROVE  r[j].qkey >= 0
    <3>1. CASE j < at
      <4>1. j \in 1 .. n /\ r[j] = b[j]
        BY <1>1, <1>6, <1>10, <3>1
      <4>. QED  BY <2>2, <4>1
    <3>2. CASE j = at
      BY <1>8, <1>10, <2>1, <3>2
    <3>3. CASE j > at
      <4>1. j - 1 \in 1 .. n /\ r[j] = b[j - 1]
        BY <1>1, <1>6, <1>10, <3>3
      <4>. QED  BY <2>2, <4>1
    <3>. QED  BY <1>6, <3>1, <3>2, <3>3
  <2>. QED  BY <2>3, <2>4 DEF Pending
<1>13. ASSUME FirstLater(q), delay > 0
       PROVE  r[1].qkey > 0
  <2>1. CASE at = 1
    <3>1. r[1] = e
      BY <1>1, <1>10, <2>1
    <3>. QED  BY <1>2, <1>7, <1>8, <1>13, <2>1, <3>1
  <2>2. CASE at # 1
    <3>1. r[1] = b[1] /\ 1 \in 1 .. n
      BY <1>1, <1>6, <1>10, <2>2
    <3>2. q # <<>> /\ b[1] = q[1]
      BY <1>1, <1>9, <2>2, <3>1
    <3>. QED  BY <1>13, <3>1, <3>2 DEF FirstLater
  <2>. QED  BY <2>1, <2>2
<1>. QED  BY <1>4, <1>11, <1>12, <1>13 DEF FirstLater, LeftWith

\* unsleep leaves the other processes their time.
LEMMA UnsleepLeft ==
  ASSUME NEW P, NEW q \in KeyedLists(P), Once(q), NEW p \in Members(q)
  PROVE  /\ Left(unsleep(p, q)) = LeftWithout(q, p)
         /\ Pending(q) => Pending(unsleep(p, q))
         /\ Pending(q) /\ FirstLater(q) => FirstLater(unsleep(p, q))
<1>. DEFINE n == Len(q)
            due == DueIn(q)
            at == PosOf(p, q)
            b == [i \in DOMAIN q |->
                    IF i = at + 1 THEN Node(q[i].pid, q[i].qkey + q[at].qkey)
                                  ELSE q[i]]
            N == [pid : P, qkey : Int]
            r == RemoveAt(b, at)
<1>1. /\ n \in Nat /\ DOMAIN q = 1 .. n /\ (q = <<>> <=> n = 0)
      /\ \A i \in 1 .. n : q[i] \in N /\ q[i].pid \in P /\ q[i].qkey \in Int
  BY ListNodes
<1>2. /\ due \in [0 .. n -> Int] /\ due[0] = 0
      /\ \A i \in 1 .. n : due[i] = due[i - 1] + q[i].qkey
  BY DueInSums
<1>3. at \in 1 .. n /\ q[at].pid = p
  BY <1>1 DEF PosOf, Members
<1>4. unsleep(p, q) = r
  BY DEF unsleep
<1>5. r \in KeyedLists(P) /\ Members(r) = Members(q) \ {p} /\ Once(r)
  BY <1>4, UnsleepFacts
<1>. HIDE DEF at, n, due
<1>6. /\ b \in Seq(N) /\ Len(b) = n
      /\ \A i \in 1 .. n : /\ b[i].pid = q[i].pid
                           /\ i # at + 1 => b[i] = q[i]
                           /\ i = at + 1 => b[i].qkey = q[i].qkey + q[at].qkey
  <2>1. \A i \in 1 .. n : /\ b[i] \in N /\ b[i].pid = q[i].pid
                          /\ i # at + 1 => b[i] = q[i]
                          /\ i = at + 1 => b[i].qkey = q[i].qkey + q[at].qkey
    BY <1>1, <1>3 DEF Node
  <2>2. b \in [1 .. n -> N]
    <3>1. b = [i \in 1 .. n |-> b[i]]
      BY <1>1
    <3>. HIDE DEF b, N
    <3>. QED  BY <2>1, <3>1
  <2>. HIDE DEF b, N
  <2>3. b \in Seq(N) /\ DOMAIN b = 1 .. n
    BY <1>1, <2>2
  <2>4. Len(b) = n
    BY <1>1, <2>3
  <2>. QED  BY <2>1, <2>3, <2>4
<1>. HIDE DEF b
<1>7. /\ r \in Seq(N) /\ Len(r) = n - 1
      /\ \A j \in 1 .. n - 1 : r[j] = IF j < at THEN b[j] ELSE b[j + 1]
  <2>1. b \in Seq(N) /\ at \in 1 .. Len(b)
    BY <1>3, <1>6
  <2>. HIDE DEF N
  <2>2. /\ r \in Seq(N) /\ Len(r) = Len(b) - 1
        /\ \A j \in 1 .. Len(b) - 1 : r[j] = IF j < at THEN b[j] ELSE b[j + 1]
    BY <2>1, RemoveAtElements, Zenon
  <2>. QED  BY <1>6, <2>2
<1>. HIDE DEF r, N
<1>8. Left(r) = [x \in Members(q) \ {p} |-> Left(q)[x]]
  <2>. DEFINE f == [j \in 0 .. n - 1 |-> IF j < at THEN due[j] ELSE due[j + 1]]
              g == Left(q)
  <2>1. f[0] = 0
    BY <1>1, <1>2, <1>3
  <2>2. ASSUME NEW j \in 1 .. n - 1
        PROVE  f[j] = f[j - 1] + r[j].qkey /\ f[j] = g[r[j].pid]
    <3>1. \A i \in 1 .. n : g[q[i].pid] = due[i]
      BY <1>1, LeftOfNode DEF due
    <3>2. CASE j < at
      <4>1. /\ j \in 1 .. n /\ j - 1 < at /\ j - 1 \in 0 .. n - 1 /\ j \in 0 .. n - 1
            /\ r[j] = q[j]
        BY <1>1, <1>3, <1>6, <1>7, <3>2
      <4>2. f[j] = due[j] /\ f[j - 1] = due[j - 1]
        BY <3>2, <4>1
      <4>. QED  BY <1>2, <3>1, <4>1, <4>2
    <3>3. CASE j >= at
      <4>. DEFINE i == j + 1
      <4>1. /\ i \in 1 .. n /\ i > at /\ j - 1 \in 0 .. n - 1 /\ j \in 0 .. n - 1
            /\ j \in 1 .. n /\ r[j] = b[i]
        BY <1>1, <1>3, <1>7, <3>3
      <4>2. f[j] = due[i] /\ f[j - 1] = IF j = at THEN due[j - 1] ELSE due[j]
        BY <1>1, <1>3, <3>3, <4>1
      <4>3. /\ b[i].pid = q[i].pid
            /\ due[i] = due[j] + q[i].qkey /\ due[j] = due[j - 1] + q[j].qkey
        BY SMT, SMTT(30), <1>1, <1>2, <1>6, <4>1
      <4>4. b[i].qkey = IF j = at THEN q[i].qkey + q[j].qkey ELSE q[i].qkey
        BY <1>3, <1>6, <4>1
      <4>5. /\ due[i] \in Int /\ due[j] \in Int /\ due[j - 1] \in Int
            /\ q[i].qkey \in Int /\ q[j].qkey \in Int
        BY <1>1, <1>2, <4>1
      <4>. HIDE DEF i, f, g
      <4>6. due[i] = f[j - 1] + b[i].qkey
        BY <4>2, <4>3, <4>4, <4>5
      <4>. QED  BY <3>1, <4>1, <4>2, <4>3, <4>6 DEF i
    <3>. QED  BY <1>3, <3>2, <3>3
  <2>. HIDE DEF f, g
  <2>3. DueAt(r, f, g)
    BY <1>7, <2>1, <2>2 DEF DueAt
  <2>4. r \in KeyedLists(P) /\ Once(r)
    BY <1>5
  <2>5. Left(r) = [x \in Members(r) |-> g[x]]
    BY ONLY <2>3, <2>4, LeftFrom
  <2>. QED  BY <1>5, <2>5 DEF g
<1>9. ASSUME Pending(q)
      PROVE  /\ Pending(r)
             /\ FirstLater(q) => FirstLater(r)
  <2>1. \A i \in 1 .. n : q[i].qkey >= 0
    BY <1>1, <1>9 DEF Pending
  <2>2. \A i \in 1 .. n : b[i].qkey >= q[i].qkey
    BY <1>1, <1>3, <1>6, <2>1
  <2>3. DOMAIN r = 1 .. n - 1
    BY <1>7
  <2>4. ASSUME NEW j \in 1 .. n - 1
        PROVE  \E i \in 1 .. n : r[j] = b[i]
    <3>1. CASE j < at
      BY SMT, SMTT(30), <1>1, <1>3, <1>7, <3>1
    <3>2. CASE ~(j < at)
      <4>1. j + 1 \in 1 .. n /\ r[j] = b[j + 1]
        BY <1>1, <1>3, <1>7, <3>2
      <4>. QED  BY <4>1
    <3>. QED  BY <3>1, <3>2
  <2>5. \A i \in 1 .. n : b[i].qkey >= 0
    <3>1. \A i \in 1 .. n : b[i].qkey \in Int
      BY SMT, SMTT(30), <1>1, <1>3, <1>6
    <3>. QED  BY <1>1, <2>1, <2>2, <3>1
  <2>6. Pending(r)
    BY <2>3, <2>4, <2>5 DEF Pending
  <2>7. ASSUME FirstLater(q), r # <<>>
        PROVE  r[1].qkey > 0
    <3>1. n - 1 >= 1 /\ 1 \in 1 .. n - 1 /\ 1 \in 1 .. n /\ 2 \in 1 .. n
      <4>1. Len(r) # 0
        BY <1>5, <2>7, ListNodes
      <4>. QED  BY <1>1, <1>3, <1>7, <4>1
    <3>2. q[1].qkey > 0 /\ q[1].qkey \in Int
      BY <1>1, <2>7, <3>1 DEF FirstLater
    <3>3. CASE at = 1
      <4>1. r[1] = b[2] /\ b[2].qkey = q[2].qkey + q[1].qkey
        BY <1>6, <1>7, <3>1, <3>3
      <4>. QED  BY <1>1, <2>1, <3>1, <3>2, <4>1
    <3>4. CASE at # 1
      <4>1. r[1] = q[1]
        BY <1>3, <1>6, <1>7, <3>1, <3>4
      <4>. QED  BY <3>2, <4>1
    <3>. QED  BY <3>3, <3>4
  <2>. QED  BY <2>6, <2>7 DEF FirstLater
<1>. QED  BY <1>4, <1>8, <1>9 DEF LeftWithout

\* Taking out a first process that is due leaves the others their time.
LEMMA TailLeft ==
  ASSUME NEW P, NEW q \in KeyedLists(P), Once(q), q # <<>>, q[1].qkey = 0
  PROVE  /\ Left(q)[q[1].pid] = 0
         /\ Left(Tail(q)) = LeftWithout(q, q[1].pid)
<1>. DEFINE n == Len(q)
            due == DueIn(q)
            N == [pid : P, qkey : Int]
            r == Tail(q)
<1>1. /\ n \in Nat /\ DOMAIN q = 1 .. n /\ n # 0
      /\ \A i \in 1 .. n : q[i].qkey \in Int
  BY ListNodes
<1>2. /\ due \in [0 .. n -> Int] /\ due[0] = 0
      /\ \A i \in 1 .. n : due[i] = due[i - 1] + q[i].qkey
  BY DueInSums
<1>3. due[1] = 0
  BY <1>1, <1>2
<1>4. r \in KeyedLists(P) /\ Members(r) = Members(q) \ {q[1].pid} /\ Once(r)
  BY TailKeyed
<1>5. /\ Len(r) = n - 1
      /\ \A i \in 1 .. n - 1 : r[i] = q[i + 1]
  <2>1. q \in Seq(N)
    BY DEF KeyedLists
  <2>. HIDE DEF N
  <2>. QED  BY <1>1, <2>1
<1>. HIDE DEF n, due, r
<1>. DEFINE f == [j \in 0 .. n - 1 |-> due[j + 1]]
            g == Left(q)
<1>6. f[0] = 0
  BY <1>1, <1>3
<1>7. ASSUME NEW j \in 1 .. n - 1
      PROVE  f[j] = f[j - 1] + r[j].qkey /\ f[j] = g[r[j].pid]
  <2>1. /\ j + 1 \in 1 .. n /\ (j + 1) - 1 = j /\ (j - 1) + 1 = j
        /\ j \in 0 .. n - 1 /\ j - 1 \in 0 .. n - 1 /\ r[j] = q[j + 1]
    BY <1>1, <1>5
  <2>2. f[j] = due[j + 1] /\ f[j - 1] = due[j]
    BY <2>1
  <2>3. due[j + 1] = due[j] + q[j + 1].qkey
    BY <1>2, <2>1
  <2>4. g[q[j + 1].pid] = due[j + 1]
    BY <1>1, <2>1, LeftOfNode DEF due
  <2>. QED  BY <2>1, <2>2, <2>3, <2>4
<1>8. g[q[1].pid] = 0
  BY <1>1, <1>3, LeftOfNode DEF due
<1>. HIDE DEF f, g
<1>9. DueAt(r, f, g)
  BY <1>5, <1>6, <1>7 DEF DueAt
<1>10. r \in KeyedLists(P) /\ Once(r)
  BY <1>4
<1>11. Left(r) = [x \in Members(r) |-> g[x]]
  BY ONLY <1>9, <1>10, LeftFrom
<1>. QED  BY <1>4, <1>8, <1>11 DEF g, r, LeftWithout

\* A tick of the first node brings every process one tick closer.
LEMMA TickLeft ==
  ASSUME NEW P, NEW q \in KeyedLists(P), Once(q), q # <<>>, NEW r \in KeyedLists(P),
         Once(r), Members(r) = Members(q), Len(r) = Len(q),
         r[1].pid = q[1].pid, r[1].qkey = q[1].qkey - 1,
         \A i \in 2 .. Len(q) : r[i] = q[i]
  PROVE  Left(r) = [p \in Members(q) |-> Left(q)[p] - 1]
<1>. DEFINE n == Len(q)
            due == DueIn(q)
            f == [j \in 0 .. n |-> IF j = 0 THEN 0 ELSE due[j] - 1]
            g == [p \in Members(q) |-> Left(q)[p] - 1]
<1>1. /\ n \in Nat /\ DOMAIN q = 1 .. n /\ n # 0
      /\ \A i \in 1 .. n : q[i].qkey \in Int
  BY ListNodes
<1>2. /\ due \in [0 .. n -> Int] /\ due[0] = 0
      /\ \A i \in 1 .. n : due[i] = due[i - 1] + q[i].qkey
  BY SMT, SMTT(30), DueInSums
<1>3. f[0] = 0
  BY <1>1
<1>4. \A i \in 1 .. n : g[q[i].pid] = due[i] - 1
  BY <1>1, LeftOfNode
<1>. HIDE DEF n, due, g
<1>5. ASSUME NEW j \in 1 .. n
      PROVE  f[j] = f[j - 1] + r[j].qkey /\ f[j] = g[r[j].pid]
  <2>1. /\ j \in 0 .. n /\ j - 1 \in 0 .. n /\ f[j] = due[j] - 1
        /\ due[j] = due[j - 1] + q[j].qkey
        /\ due[j] \in Int /\ due[j - 1] \in Int /\ q[j].qkey \in Int
    <3>1. j \in 0 .. n /\ j - 1 \in 0 .. n /\ j # 0
      BY <1>1
    <3>2. f[j] = due[j] - 1
      BY <3>1
    <3>. HIDE DEF f
    <3>3. due[j] = due[j - 1] + q[j].qkey /\ q[j].qkey \in Int
      BY <1>1, <1>2
    <3>4. due[j] \in Int /\ due[j - 1] \in Int
      BY <1>2, <3>1
    <3>. QED  BY <3>1, <3>2, <3>3, <3>4
  <2>2. CASE j = 1
    <3>1. f[j - 1] = 0 /\ due[j - 1] = 0 /\ r[j].pid = q[j].pid /\ r[j].qkey = q[j].qkey - 1
      BY <1>1, <1>2, <2>2
    <3>. HIDE DEF f
    <3>. QED  BY <1>4, <2>1, <3>1
  <2>3. CASE j # 1
    <3>1. f[j - 1] = due[j - 1] - 1 /\ r[j] = q[j]
      BY <1>1, <2>1, <2>3 DEF n
    <3>. HIDE DEF f
    <3>. QED  BY SMT, SMTT(30), <1>4, <2>1, <3>1
  <2>. QED  BY <2>2, <2>3
<1>. HIDE DEF f
<1>6. DueAt(r, f, g)
  BY <1>3, <1>5 DEF n, DueAt
<1>7. r \in KeyedLists(P) /\ Once(r)
  OBVIOUS
<1>8. Left(r) = [p \in Members(r) |-> g[p]]
  BY ONLY <1>6, <1>7, LeftFrom
<1>. QED  BY <1>8 DEF g

-----------------------------------------------------------------------------
(***************************************************************************)
(* States that agree with the lists.                                       *)
(***************************************************************************)

USE DEF NULLPROC

\* The states st agree with the ready list rl.
ReadyAgrees(st, rl) ==
  /\ rl \in KeyedLists(Pid) /\ Once(rl)
  /\ \A p \in Pid : st[p] = "PR_READY" <=> p \in Members(rl)

\* The states st agree with the sleep queue q.
SleepAgrees(st, q) ==
  /\ q \in KeyedLists(Pid) /\ Once(q)
  /\ \A p \in Pid : st[p] \in {"PR_SLEEP", "PR_RECTIM"} <=> p \in Members(q)

\* The states st and the semaphores ps that processes wait for agree with the
\* semaphore queues sq.
WaitAgrees(st, ps, sq) ==
  /\ ps \in [Pid -> Sem \union {-1}] /\ sq \in [Sem -> Seq(Pid)]
  /\ \A p \in Pid, s \in Sem :
       st[p] = "PR_WAIT" /\ ps[p] = s <=> \E i \in DOMAIN sq[s] : sq[s][i] = p
  /\ \A p \in Pid : st[p] = "PR_WAIT" => ps[p] \in Sem
  /\ \A s \in Sem : \A i, j \in DOMAIN sq[s] : sq[s][i] = sq[s][j] => i = j

\* What resched needs: only the running process may be in state PR_CURR, and
\* the null process can run.
MayRun(st) ==
  /\ st \in [Pid -> State]
  /\ \A p \in Pid : st[p] = "PR_CURR" => p = currpid
  /\ st[NULLPROC] \in {"PR_READY", "PR_CURR"}

\* What resched leaves: one process is running.
Running ==
  /\ prstate \in [Pid -> State] /\ currpid \in Pid /\ preempt \in 1 .. QUANTUM
  /\ \A p \in Pid : prstate[p] = "PR_CURR" <=> p = currpid
  /\ prstate[NULLPROC] \in {"PR_READY", "PR_CURR"}

\* The states st and st1 differ only in which processes are ready or running.
Switched(st, st1) ==
  \A p \in Pid : st1[p] # st[p] => /\ st[p] \in {"PR_READY", "PR_CURR"}
                                   /\ st1[p] \in {"PR_READY", "PR_CURR"}

\* The null process is an entry of the process table.
LEMMA NullIsPid == NULLPROC \in Pid /\ NPROC \in Nat
  BY TableAssumption DEF Pid

\* States that differ only between ready and running agree with the same sleep
\* queue and the same semaphore queues.
LEMMA SameWaiting ==
  ASSUME NEW st \in [Pid -> State], NEW st1 \in [Pid -> State], Switched(st, st1)
  PROVE  /\ \A q : SleepAgrees(st, q) => SleepAgrees(st1, q)
         /\ \A ps, sq : WaitAgrees(st, ps, sq) => WaitAgrees(st1, ps, sq)
<1>1. \A p \in Pid : /\ st1[p] \in {"PR_SLEEP", "PR_RECTIM"}
                          <=> st[p] \in {"PR_SLEEP", "PR_RECTIM"}
                     /\ st1[p] = "PR_WAIT" <=> st[p] = "PR_WAIT"
  BY DEF Switched
<1>. QED  BY <1>1 DEF SleepAgrees, WaitAgrees

\* A process that waits for semaphore s leaves its queue and the waiting state.
LEMMA LeaveFacts ==
  ASSUME NEW st, NEW st1, NEW ps, NEW sq, WaitAgrees(st, ps, sq),
         NEW s \in Sem, NEW v \in Pid, ps[v] = s,
         st1[v] # "PR_WAIT", \A p \in Pid \ {v} : st1[p] = st[p],
         NEW r \in Seq(Pid), Without(r, sq[s], v)
  PROVE  WaitAgrees(st1, ps, [sq EXCEPT ![s] = r])
<1>. DEFINE sq1 == [sq EXCEPT ![s] = r]
<1>1. /\ sq1 \in [Sem -> Seq(Pid)] /\ sq1[s] = r
      /\ \A t \in Sem \ {s} : sq1[t] = sq[t]
  BY DEF WaitAgrees
<1>. HIDE DEF sq1
<1>2. ASSUME NEW p \in Pid, NEW t \in Sem
      PROVE  st1[p] = "PR_WAIT" /\ ps[p] = t <=> \E j \in DOMAIN sq1[t] : sq1[t][j] = p
  <2>1. st[p] = "PR_WAIT" /\ ps[p] = t <=> \E j \in DOMAIN sq[t] : sq[t][j] = p
    BY DEF WaitAgrees
  <2>2. CASE t = s
    <3>1. (\E j \in DOMAIN r : r[j] = p) <=> p # v /\ \E j \in DOMAIN sq[s] : sq[s][j] = p
      BY Zenon DEF Without
    <3>. QED  BY <1>1, <2>1, <2>2, <3>1
  <2>3. CASE t # s
    BY <1>1, <2>1, <2>3
  <2>. QED  BY <2>2, <2>3
<1>3. ASSUME NEW t \in Sem, NEW j \in DOMAIN sq1[t], NEW k \in DOMAIN sq1[t],
             sq1[t][j] = sq1[t][k]
      PROVE  j = k
  <2>1. CASE t = s
    BY <1>1, <1>3, <2>1 DEF Without
  <2>2. CASE t # s
    BY <1>1, <1>3, <2>2 DEF WaitAgrees
  <2>. QED  BY <2>1, <2>2
<1>4. \A p \in Pid : st1[p] = "PR_WAIT" => ps[p] \in Sem
  BY SMT, SMTT(30) DEF WaitAgrees
<1>5. ps \in [Pid -> Sem \union {-1}]
  BY DEF WaitAgrees
<1>6. WaitAgrees(st1, ps, sq1)
  BY <1>1, <1>2, <1>3, <1>4, <1>5 DEF WaitAgrees
<1>. QED  BY <1>6 DEF sq1

\* A process that does not wait joins the queue of semaphore s.
LEMMA JoinFacts ==
  ASSUME NEW st, NEW st1, NEW ps, NEW sq, WaitAgrees(st, ps, sq),
         NEW s \in Sem, NEW v \in Pid, st[v] # "PR_WAIT",
         st1[v] = "PR_WAIT", \A p \in Pid \ {v} : st1[p] = st[p]
  PROVE  /\ WaitAgrees(st1, [ps EXCEPT ![v] = s], [sq EXCEPT ![s] = Append(sq[s], v)])
         /\ Len(Append(sq[s], v)) = Len(sq[s]) + 1
<1>. DEFINE r == Append(sq[s], v)
            sq1 == [sq EXCEPT ![s] = r]
            ps1 == [ps EXCEPT ![v] = s]
<1>1. /\ r \in Seq(Pid) /\ Len(r) = Len(sq[s]) + 1
      /\ \A x : (\E j \in DOMAIN r : r[j] = x)
               <=> x = v \/ \E j \in DOMAIN sq[s] : sq[s][j] = x
      /\ \A j, k \in DOMAIN r : r[j] = r[k] => j = k
  <2>1. /\ sq[s] \in Seq(Pid) /\ ~ \E i \in DOMAIN sq[s] : sq[s][i] = v
        /\ \A j, k \in DOMAIN sq[s] : sq[s][j] = sq[s][k] => j = k
    BY DEF WaitAgrees
  <2>. DEFINE q == sq[s]
  <2>2. /\ q \in Seq(Pid) /\ ~ \E i \in DOMAIN q : q[i] = v
        /\ \A j, k \in DOMAIN q : q[j] = q[k] => j = k
    BY <2>1
  <2>3. r = Append(q, v)
    OBVIOUS
  <2>. HIDE DEF q, r
  <2>4. /\ Append(q, v) \in Seq(Pid)
        /\ Len(Append(q, v)) = Len(q) + 1
        /\ \A x : (\E j \in DOMAIN Append(q, v) : Append(q, v)[j] = x)
                 <=> x = v \/ \E j \in DOMAIN q : q[j] = x
        /\ \A j, k \in DOMAIN Append(q, v) :
             Append(q, v)[j] = Append(q, v)[k] => j = k
    BY ONLY <2>2, EnqueueFacts, v \in Pid, Zenon
  <2>. QED  BY <2>3, <2>4, Zenon DEF q
<1>. HIDE DEF r
<1>2. /\ sq1 \in [Sem -> Seq(Pid)] /\ sq1[s] = r
      /\ \A t \in Sem \ {s} : sq1[t] = sq[t]
  BY <1>1 DEF WaitAgrees
<1>3. /\ ps1 \in [Pid -> Sem \union {-1}] /\ ps1[v] = s
      /\ \A p \in Pid \ {v} : ps1[p] = ps[p]
  BY DEF WaitAgrees
<1>. HIDE DEF sq1, ps1
<1>4. ASSUME NEW p \in Pid, NEW t \in Sem
      PROVE  st1[p] = "PR_WAIT" /\ ps1[p] = t <=> \E j \in DOMAIN sq1[t] : sq1[t][j] = p
  <2>1. st[p] = "PR_WAIT" /\ ps[p] = t <=> \E j \in DOMAIN sq[t] : sq[t][j] = p
    BY DEF WaitAgrees
  <2>2. CASE t = s
    <3>1. (\E j \in DOMAIN r : r[j] = p) <=> p = v \/ \E j \in DOMAIN sq[s] : sq[s][j] = p
      BY <1>1
    <3>. QED  BY <1>2, <1>3, <2>1, <2>2, <3>1
  <2>3. CASE t # s
    BY <1>2, <1>3, <2>1, <2>3
  <2>. QED  BY <2>2, <2>3
<1>5. ASSUME NEW t \in Sem, NEW j \in DOMAIN sq1[t], NEW k \in DOMAIN sq1[t],
             sq1[t][j] = sq1[t][k]
      PROVE  j = k
  <2>1. CASE t = s
    BY <1>1, <1>2, <1>5, <2>1
  <2>2. CASE t # s
    BY <1>2, <1>5, <2>2 DEF WaitAgrees
  <2>. QED  BY <2>1, <2>2
<1>6. \A p \in Pid : st1[p] = "PR_WAIT" => ps1[p] \in Sem
  BY <1>3 DEF WaitAgrees
<1>7. WaitAgrees(st1, ps1, sq1)
  BY <1>2, <1>3, <1>4, <1>5, <1>6 DEF WaitAgrees
<1>. QED  BY <1>1, <1>7 DEF sq1, ps1, r

\* resched, without deferral, from states and lists that agree.
LEMMA DispatchFacts ==
  ASSUME NEW st, NEW rl, NEW slice \in 1 .. QUANTUM,
         currpid \in Pid, prprio \in [Pid -> Int],
         MayRun(st), ReadyAgrees(st, rl), Dispatch(st, rl, slice)
  PROVE  /\ Running'
         /\ Switched(st, prstate')
         /\ ReadyAgrees(prstate', readylist')
         /\ \A q : SleepAgrees(st, q) => SleepAgrees(prstate', q)
         /\ \A ps, sq : WaitAgrees(st, ps, sq) => WaitAgrees(prstate', ps, sq)
<1>. USE NullIsPid
<1>1. CASE st[currpid] = "PR_CURR" /\ prprio[currpid] > firstkey(rl)
  <2>1. prstate' = st /\ readylist' = rl /\ preempt' = slice /\ currpid' = currpid
    BY <1>1 DEF Dispatch
  <2>. QED  BY <1>1, <2>1 DEF Running, MayRun, Switched
<1>2. CASE ~(st[currpid] = "PR_CURR" /\ prprio[currpid] > firstkey(rl))
  <2>. DEFINE stays == st[currpid] = "PR_CURR"
              st1 == IF stays THEN [st EXCEPT ![currpid] = "PR_READY"] ELSE st
              rl1 == IF stays THEN insert(currpid, rl, prprio[currpid]) ELSE rl
              n == rl1[1].pid
  <2>1. /\ currpid' = n /\ prstate' = [st1 EXCEPT ![n] = "PR_CURR"]
        /\ readylist' = Tail(rl1) /\ preempt' = QUANTUM
    BY SMT, SMTT(30), <1>2 DEF Dispatch
  <2>2. /\ st1 \in [Pid -> State]
        /\ \A p \in Pid : st1[p] # "PR_CURR"
        /\ st1[NULLPROC] = "PR_READY"
        /\ \A p \in Pid : st1[p] # st[p] => st[p] = "PR_CURR" /\ st1[p] = "PR_READY"
    BY DEF MayRun, State
  <2>3. ReadyAgrees(st1, rl1)
    <3>1. CASE stays
      <4>1. currpid \notin Members(rl)
        BY <3>1 DEF ReadyAgrees
      <4>2. /\ rl1 \in KeyedLists(Pid) /\ Once(rl1)
            /\ Members(rl1) = Members(rl) \union {currpid}
        BY <3>1, <4>1, InsertFacts DEF ReadyAgrees
      <4>. HIDE DEF rl1
      <4>. QED  BY <3>1, <4>2 DEF ReadyAgrees, MayRun
    <3>2. CASE ~stays
      BY <3>2
    <3>. QED  BY <3>1, <3>2
  <2>. HIDE DEF st1, rl1
  <2>4. rl1 # <<>>
    <3>1. NULLPROC \in Members(rl1)
      BY <2>2, <2>3 DEF ReadyAgrees
    <3>. QED  BY <3>1 DEF Members
  <2>5. /\ Tail(rl1) \in KeyedLists(Pid) /\ Once(Tail(rl1))
        /\ n \in Pid /\ n \in Members(rl1)
        /\ Members(Tail(rl1)) = Members(rl1) \ {n}
    BY <2>3, <2>4, TailKeyed, Zenon DEF ReadyAgrees
  <2>. HIDE DEF n
  <2>6. st1[n] = "PR_READY"
    BY <2>3, <2>5 DEF ReadyAgrees
  <2>7. Running'
    BY <2>1, <2>2, <2>5, SliceAssumption DEF Running, State
  <2>8. ReadyAgrees(prstate', readylist')
    BY <2>1, <2>2, <2>3, <2>5 DEF ReadyAgrees
  <2>9. prstate' \in [Pid -> State] /\ Switched(st, prstate')
    BY <2>1, <2>2, <2>5, <2>6, <2>7 DEF Running, Switched
  <2>. QED  BY <2>7, <2>8, <2>9, SameWaiting DEF MayRun
<1>. QED  BY <1>1, <1>2

\* resched from states and lists that agree; under deferral nobody is switched.
LEMMA ReschedFacts ==
  ASSUME NEW st, NEW rl, TypeOK,
         MayRun(st), ReadyAgrees(st, rl),
         Defer.ndefers > 0 => st[currpid] = "PR_CURR",
         resched(st, rl)
  PROVE  /\ Running'
         /\ Switched(st, prstate')
         /\ ReadyAgrees(prstate', readylist')
         /\ \A q : SleepAgrees(st, q) => SleepAgrees(prstate', q)
         /\ \A ps, sq : WaitAgrees(st, ps, sq) => WaitAgrees(prstate', ps, sq)
         /\ Defer' \in [ndefers : Nat, attempt : BOOLEAN]
         /\ Defer'.ndefers = Defer.ndefers
         /\ Defer.ndefers > 0 => currpid' = currpid
<1>1. CASE Defer.ndefers > 0
  <2>1. /\ prstate' = st /\ readylist' = rl
        /\ currpid' = currpid /\ preempt' = preempt
        /\ Defer' = [Defer EXCEPT !.attempt = TRUE]
    BY <1>1 DEF resched
  <2>. QED  BY <1>1, <2>1, Zenon DEF TypeOK, Running, MayRun, Switched
<1>2. CASE ~(Defer.ndefers > 0)
  <2>1. Dispatch(st, rl, preempt) /\ Defer' = Defer
    BY <1>2 DEF resched
  <2>. QED  BY <1>2, <2>1, DispatchFacts DEF TypeOK
<1>. QED  BY <1>1, <1>2

-----------------------------------------------------------------------------
(***************************************************************************)
(* The inductive invariant.                                                *)
(***************************************************************************)

\* The running process and the lists.
ListInv ==
  /\ Running
  /\ ReadyAgrees(prstate, readylist)
  /\ SleepAgrees(prstate, sleepq)
  /\ WaitAgrees(prstate, prsem, squeue)

\* The types of the other variables.
DataOK ==
  /\ prprio \in [Pid -> Int]
  /\ prparent \in [Pid -> Pid]
  /\ prmsg \in [Pid -> Message \union {NoMsg}]
  /\ prcount \in Int
  /\ nextpid \in Pid
  /\ sstate \in [Sem -> {"S_FREE", "S_USED"}]
  /\ scount \in [Sem -> Int]
  /\ nextsem \in Sem
  /\ Defer \in [ndefers : Nat, attempt : BOOLEAN]
  /\ pc \in [Pid -> Place]
  /\ victim \in [Pid -> Pid]
  /\ loop \in [sem : Sem, count : 0 .. MaxCount]
  /\ halted \in BOOLEAN

\* A kill that is being executed is not about the null process.
KillInv == \A p \in Pid : pc[p] = "kill" => victim[p] # NULLPROC

IInv == ListInv /\ DataOK /\ DeferInv /\ SemInv /\ KillInv

\* The invariant is the conjunction of the invariants that are checked and of
\* KillInv, without which kill could remove the null process.
LEMMA IInvParts ==
  IInv <=> TypeOK /\ QueueInv /\ NullEligible /\ DeferInv /\ SemInv /\ KillInv
<1>1. ListInv /\ DataOK => TypeOK /\ QueueInv /\ NullEligible
  BY SMT, SMTT(30) DEF ListInv, DataOK, TypeOK, QueueInv, NullEligible, Running, ReadyAgrees,
         SleepAgrees, WaitAgrees
<1>2. TypeOK /\ QueueInv /\ NullEligible => ListInv /\ DataOK
  BY SMT, SMTT(30) DEF ListInv, DataOK, TypeOK, QueueInv, NullEligible, Running, ReadyAgrees,
         SleepAgrees, WaitAgrees
<1>. QED  BY <1>1, <1>2 DEF IInv

\* No process is in a loop that defers rescheduling.
Quiet == Defer.ndefers = 0 /\ \A p \in Pid : pc[p] \notin Deferring

\* The counts and queues of all semaphores correspond.
CountsAgree(ss, sc, sq) ==
  \A s \in Sem : /\ Len(sq[s]) = IF sc[s] < 0 THEN -sc[s] ELSE 0
                 /\ ss[s] = "S_FREE" => sq[s] = <<>>

\* The processes that wait, and their queues, after a step that touches neither.
LEMMA WaitersKept ==
  ASSUME IInv, \A p \in Pid : prstate'[p] = "PR_WAIT" <=> prstate[p] = "PR_WAIT",
         prsem' = prsem, squeue' = squeue
  PROVE  WaitAgrees(prstate', prsem', squeue')
<1>1. WaitAgrees(prstate, prsem, squeue)
  BY DEF IInv, ListInv
<1>2. WaitAgrees(prstate', prsem, squeue)
  BY ONLY <1>1, \A p \in Pid : prstate'[p] = "PR_WAIT" <=> prstate[p] = "PR_WAIT"
     DEF WaitAgrees
<1>. QED  BY <1>2

\* The queue part of the invariant survives a step that leaves all lists alone.
LEMMA QuietFacts ==
  ASSUME IInv, pc[currpid] \notin Deferring
  PROVE  Quiet /\ CountsAgree(sstate, scount, squeue)
<1>1. Quiet
  BY DEF IInv, DeferInv, Quiet
<1>2. currpid \in Pid
  BY DEF IInv, ListInv, Running
<1>. QED  BY <1>1, <1>2 DEF IInv, SemInv, CountsAgree, Quiet, Deferring,
                            Resetting, Deleting

\* A step to a quiet state preserves the invariant if it does so for the lists
\* and the data.
LEMMA QuietStep ==
  ASSUME ListInv', DataOK', Quiet', KillInv', CountsAgree(sstate', scount', squeue')
  PROVE  IInv'
<1>1. currpid' \in Pid
  BY DEF ListInv, Running
<1>2. DeferInv'
  BY <1>1 DEF Quiet, DeferInv, Deferring
<1>3. SemInv'
  BY <1>1 DEF CountsAgree, SemInv, Quiet
<1>. QED  BY <1>2, <1>3 DEF IInv

\* The inductive invariant contains the type invariant.
LEMMA InvTypeOK == ASSUME IInv PROVE TypeOK
  BY IInvParts

\* The running process gives up the processor and enters state x.
LEMMA BlockFacts ==
  ASSUME IInv, Quiet, currpid # NULLPROC,
         NEW x \in State \ {"PR_CURR", "PR_READY"},
         resched([prstate EXCEPT ![currpid] = x], readylist)
  PROVE  /\ Running'
         /\ Switched([prstate EXCEPT ![currpid] = x], prstate')
         /\ ReadyAgrees(prstate', readylist')
         /\ x \notin {"PR_SLEEP", "PR_RECTIM"} => SleepAgrees(prstate', sleepq)
         /\ \A q \in KeyedLists(Pid) :
              /\ x \in {"PR_SLEEP", "PR_RECTIM"}
              /\ Once(q) /\ Members(q) = Members(sleepq) \union {currpid}
              => SleepAgrees(prstate', q)
         /\ x # "PR_WAIT" => WaitAgrees(prstate', prsem, squeue)
         /\ \A ps, sq : WaitAgrees([prstate EXCEPT ![currpid] = x], ps, sq)
                          => WaitAgrees(prstate', ps, sq)
         /\ Defer' \in [ndefers : Nat, attempt : BOOLEAN]
         /\ Defer'.ndefers = 0
<1>. DEFINE st == [prstate EXCEPT ![currpid] = x]
<1>. USE NullIsPid, InvTypeOK
<1>1. /\ st \in [Pid -> State] /\ currpid \in Pid /\ st[currpid] = x
      /\ \A p \in Pid \ {currpid} : st[p] = prstate[p]
      /\ prstate[currpid] = "PR_CURR"
  BY DEF IInv, ListInv, Running
<1>2. MayRun(st)
  BY <1>1 DEF IInv, ListInv, Running, MayRun
<1>3. ReadyAgrees(st, readylist)
  BY <1>1 DEF IInv, ListInv, ReadyAgrees
<1>4. x \notin {"PR_SLEEP", "PR_RECTIM"} => SleepAgrees(st, sleepq)
  BY <1>1 DEF IInv, ListInv, SleepAgrees
<1>5. ASSUME NEW q \in KeyedLists(Pid), x \in {"PR_SLEEP", "PR_RECTIM"},
             Once(q), Members(q) = Members(sleepq) \union {currpid}
      PROVE  SleepAgrees(st, q)
  BY <1>1, <1>5 DEF IInv, ListInv, SleepAgrees
<1>6. x # "PR_WAIT" => WaitAgrees(st, prsem, squeue)
  <2>1. x # "PR_WAIT" => \A p \in Pid : st[p] = "PR_WAIT" <=> prstate[p] = "PR_WAIT"
    BY <1>1
  <2>. HIDE DEF st
  <2>. QED  BY <2>1 DEF IInv, ListInv, WaitAgrees
<1>7. resched(st, readylist) /\ ~(Defer.ndefers > 0)
  BY DEF Quiet
<1>. HIDE DEF st
<1>8. /\ Running'
      /\ Switched(st, prstate')
      /\ ReadyAgrees(prstate', readylist')
      /\ \A q : SleepAgrees(st, q) => SleepAgrees(prstate', q)
      /\ \A ps, sq : WaitAgrees(st, ps, sq) => WaitAgrees(prstate', ps, sq)
      /\ Defer' \in [ndefers : Nat, attempt : BOOLEAN]
      /\ Defer'.ndefers = Defer.ndefers
  BY <1>2, <1>3, <1>7, ReschedFacts
<1>. QED  BY <1>4, <1>5, <1>6, <1>8, Zenon DEF Quiet, st

\* A process that is neither ready nor running becomes ready.
LEMMA ReadyFacts ==
  ASSUME IInv, NEW p \in Pid, prstate[p] \notin {"PR_CURR", "PR_READY"}, ready(p)
  PROVE  /\ Running'
         /\ Switched([prstate EXCEPT ![p] = "PR_READY"], prstate')
         /\ ReadyAgrees(prstate', readylist')
         /\ prstate[p] \notin {"PR_SLEEP", "PR_RECTIM"}
              => SleepAgrees(prstate', sleepq)
         /\ \A q \in KeyedLists(Pid) :
              Once(q) /\ Members(q) = Members(sleepq) \ {p}
              => SleepAgrees(prstate', q)
         /\ prstate[p] # "PR_WAIT" => WaitAgrees(prstate', prsem, squeue)
         /\ \A ps, sq : WaitAgrees([prstate EXCEPT ![p] = "PR_READY"], ps, sq)
                          => WaitAgrees(prstate', ps, sq)
         /\ Defer' \in [ndefers : Nat, attempt : BOOLEAN]
         /\ Defer'.ndefers = Defer.ndefers
         /\ Defer.ndefers > 0 => currpid' = currpid
<1>. DEFINE st == [prstate EXCEPT ![p] = "PR_READY"]
            rl == insert(p, readylist, prprio[p])
<1>. USE NullIsPid, InvTypeOK
<1>1. /\ st \in [Pid -> State] /\ currpid \in Pid /\ p # currpid
      /\ st[p] = "PR_READY" /\ \A r \in Pid \ {p} : st[r] = prstate[r]
      /\ prstate[currpid] = "PR_CURR"
  BY DEF IInv, ListInv, Running, State
<1>2. MayRun(st)
  BY <1>1 DEF IInv, ListInv, Running, MayRun
<1>3. ReadyAgrees(st, rl)
  <2>1. /\ readylist \in KeyedLists(Pid) /\ Once(readylist)
        /\ p \notin Members(readylist) /\ prprio[p] \in Int
    BY DEF IInv, ListInv, ReadyAgrees, DataOK
  <2>2. /\ rl \in KeyedLists(Pid) /\ Once(rl)
        /\ Members(rl) = Members(readylist) \union {p}
    BY <2>1, InsertFacts
  <2>. HIDE DEF rl
  <2>. QED  BY <1>1, <2>2 DEF IInv, ListInv, ReadyAgrees
<1>4. prstate[p] \notin {"PR_SLEEP", "PR_RECTIM"} => SleepAgrees(st, sleepq)
  BY <1>1 DEF IInv, ListInv, SleepAgrees
<1>5. ASSUME NEW q \in KeyedLists(Pid),
             Once(q), Members(q) = Members(sleepq) \ {p}
      PROVE  SleepAgrees(st, q)
  BY <1>1, <1>5 DEF IInv, ListInv, SleepAgrees
<1>6. prstate[p] # "PR_WAIT" => WaitAgrees(st, prsem, squeue)
  BY <1>1 DEF IInv, ListInv, WaitAgrees
<1>7. resched(st, rl) /\ st[currpid] = "PR_CURR"
  BY <1>1 DEF ready
<1>. HIDE DEF st, rl
<1>8. /\ Running'
      /\ Switched(st, prstate')
      /\ ReadyAgrees(prstate', readylist')
      /\ \A q : SleepAgrees(st, q) => SleepAgrees(prstate', q)
      /\ \A ps, sq : WaitAgrees(st, ps, sq) => WaitAgrees(prstate', ps, sq)
      /\ Defer' \in [ndefers : Nat, attempt : BOOLEAN]
      /\ Defer'.ndefers = Defer.ndefers
      /\ Defer.ndefers > 0 => currpid' = currpid
  BY <1>2, <1>3, <1>7, ReschedFacts
<1>. QED  BY <1>4, <1>5, <1>6, <1>8, Zenon DEF st

-----------------------------------------------------------------------------
(***************************************************************************)
(* Calls about processes.                                                  *)
(***************************************************************************)

\* The remainder of a number below the divisor, or below twice the divisor.
LEMMA ModFacts ==
  ASSUME NEW n \in Nat \ {0}
  PROVE  /\ \A a \in Nat : a % n \in 0 .. n - 1
         /\ \A a \in 0 .. n - 1 : a % n = a /\ (a + n) % n = a
  OBVIOUS

\* The scan around a table of n entries from start finds an entry of F.
LEMMA ScanFacts ==
  ASSUME NEW n \in Nat \ {0}, NEW start \in 0 .. n - 1,
         NEW F \in SUBSET (0 .. n - 1), F # {}
  PROVE  (start + Min({k \in 0 .. n - 1 : (start + k) % n \in F})) % n \in F
<1>. DEFINE K == {k \in 0 .. n - 1 : (start + k) % n \in F}
<1>1. K \in SUBSET Nat
  OBVIOUS
<1>2. K # {}
  <2>1. PICK f \in F : f \in 0 .. n - 1
    BY Zenon
  <2>2. CASE f >= start
    <3>1. f - start \in 0 .. n - 1 /\ start + (f - start) = f
      BY <2>1, <2>2
    <3>2. (start + (f - start)) % n = f
      BY <2>1, <3>1, ModFacts, Zenon
    <3>. QED  BY <3>1, <3>2, Zenon
  <2>3. CASE f < start
    <3>1. f - start + n \in 0 .. n - 1 /\ start + (f - start + n) = f + n
      BY <2>1, <2>3
    <3>2. (start + (f - start + n)) % n = f
      BY <2>1, <3>1, ModFacts, Zenon
    <3>. QED  BY <3>1, <3>2, Zenon
  <2>. QED  BY <2>1, <2>2, <2>3
<1>3. Min(K) \in K
  <2>. HIDE DEF K
  <2>. QED  BY <1>1, <1>2, MinOfNat
<1>. QED  BY <1>3

\* newpid returns a free entry of the process table (create.c).
LEMMA NewpidFacts ==
  ASSUME IInv, FreeSlot
  PROVE  newpid \in Pid /\ prstate[newpid] = "PR_FREE"
<1>. DEFINE F == {p \in Pid : prstate[p] = "PR_FREE"}
<1>1. NPROC \in Nat \ {0} /\ nextpid \in 0 .. NPROC - 1 /\ Pid = 0 .. NPROC - 1
  BY TableAssumption DEF IInv, DataOK, Pid
<1>2. F \in SUBSET (0 .. NPROC - 1) /\ F # {}
  BY <1>1 DEF FreeSlot
<1>3. (nextpid + Min({k \in 0 .. NPROC - 1 : (nextpid + k) % NPROC \in F})) % NPROC
        \in F
  <2>. HIDE DEF F
  <2>. QED  BY <1>1, <1>2, ScanFacts
<1>4. {k \in 0 .. NPROC - 1 : (nextpid + k) % NPROC \in F}
        = {k \in Pid : prstate[(nextpid + k) % NPROC] = "PR_FREE"}
  <2>1. \A k \in Pid : (nextpid + k) % NPROC \in Pid
    BY <1>1, ModFacts
  <2>. QED  BY SMT, SMTT(30), <1>1, <2>1
<1>5. newpid \in F
  <2>. HIDE DEF F
  <2>. QED  BY <1>3, <1>4, Zenon DEF newpid
<1>. QED  BY <1>5

\* create fills a free entry, which is then in no list.
LEMMA CreateInv ==
  ASSUME IInv, NEW prio \in Prio, Create(prio)
  PROVE  IInv'
<1>. DEFINE p == newpid
<1>1. Quiet /\ CountsAgree(sstate, scount, squeue)
  BY QuietFacts DEF Create, Calls, UserMode, Deferring
<1>2. p \in Pid /\ prstate[p] = "PR_FREE"
  BY NewpidFacts DEF Create
<1>. HIDE DEF p
<1>3. /\ prstate' = [prstate EXCEPT ![p] = "PR_SUSP"]
      /\ prprio' = [prprio EXCEPT ![p] = prio]
      /\ prsem' = [prsem EXCEPT ![p] = -1]
      /\ prparent' = [prparent EXCEPT ![p] = currpid]
      /\ prmsg' = [prmsg EXCEPT ![p] = NoMsg]
      /\ pc' = [pc EXCEPT ![p] = "user"]
      /\ victim' = [victim EXCEPT ![p] = NULLPROC]
      /\ nextpid' = (p + 1) % NPROC
      /\ prcount' = prcount + 1
      /\ UNCHANGED <<readylist, currpid, preempt, sstate, scount, squeue, nextsem,
                     sleepq, Defer, loop, halted>>
  BY DEF Create, p
<1>4. \A r \in Pid : /\ prstate'[r] = IF r = p THEN "PR_SUSP" ELSE prstate[r]
                     /\ prsem'[r] = IF r = p THEN -1 ELSE prsem[r]
  BY <1>2, <1>3 DEF IInv, ListInv, Running, WaitAgrees
<1>5. ListInv'
  <2>1. Running'
    BY <1>2, <1>3, <1>4 DEF IInv, ListInv, Running, State
  <2>2. ReadyAgrees(prstate', readylist')
    BY <1>2, <1>3, <1>4 DEF IInv, ListInv, ReadyAgrees
  <2>3. SleepAgrees(prstate', sleepq')
    BY <1>2, <1>3, <1>4 DEF IInv, ListInv, SleepAgrees
  <2>4. WaitAgrees(prstate', prsem', squeue')
    <3>1. prsem' \in [Pid -> Sem \union {-1}]
      BY <1>2, <1>3 DEF IInv, ListInv, WaitAgrees
    <3>. QED  BY <1>2, <1>3, <1>4, <3>1 DEF IInv, ListInv, WaitAgrees
  <2>. QED  BY <2>1, <2>2, <2>3, <2>4 DEF ListInv
<1>6. DataOK'
  <2>1. (p + 1) % NPROC \in Pid
    BY <1>2, TableAssumption, ModFacts DEF Pid
  <2>2. prio \in Int /\ currpid \in Pid
    BY PrioAssumption DEF IInv, ListInv, Running
  <2>. QED  BY <1>2, <1>3, <2>1, <2>2, NullIsPid DEF IInv, DataOK, Place
<1>7. Quiet' /\ KillInv'
  BY <1>1, <1>2, <1>3 DEF IInv, DataOK, KillInv, Quiet, Deferring
<1>8. CountsAgree(sstate', scount', squeue')
  BY <1>1, <1>3
<1>. QED  BY <1>5, <1>6, <1>7, <1>8, QuietStep

\* A create that is refused for its priority only moves nextpid.
LEMMA CreateRefusedInv ==
  ASSUME IInv, NEW prio \in Prio, CreateRefused(prio)
  PROVE  IInv'
<1>1. Quiet /\ CountsAgree(sstate, scount, squeue)
  BY QuietFacts DEF CreateRefused, Calls, UserMode, Deferring
<1>2. (newpid + 1) % NPROC \in Pid
  <2>1. newpid \in Pid
    BY NewpidFacts DEF CreateRefused
  <2>. HIDE DEF newpid
  <2>. QED  BY <2>1, TableAssumption, ModFacts DEF Pid
<1>3. ListInv' /\ Quiet' /\ KillInv' /\ CountsAgree(sstate', scount', squeue')
  BY <1>1 DEF CreateRefused, IInv, ListInv, Running, Quiet, KillInv, semvars,
              runvars, ctlvars
<1>4. DataOK'
  BY <1>2 DEF CreateRefused, IInv, DataOK, semvars, runvars, ctlvars
<1>. QED  BY <1>3, <1>4, QuietStep

\* resume moves a suspended process to the ready list.
LEMMA ResumeInv ==
  ASSUME IInv, NEW p \in Pid, Resume(p)
  PROVE  IInv'
<1>1. Quiet /\ CountsAgree(sstate, scount, squeue)
  BY QuietFacts DEF Resume, Calls, UserMode, Deferring
<1>2. ready(p) /\ prstate[p] = "PR_SUSP"
  BY DEF Resume
<1>3. /\ Running' /\ ReadyAgrees(prstate', readylist')
      /\ SleepAgrees(prstate', sleepq) /\ WaitAgrees(prstate', prsem, squeue)
      /\ Defer' \in [ndefers : Nat, attempt : BOOLEAN]
      /\ Defer'.ndefers = Defer.ndefers
  BY <1>2, ReadyFacts, Zenon
<1>4. ListInv'
  BY <1>3 DEF Resume, ListInv, semvars
<1>5. DataOK'
  BY <1>3 DEF Resume, IInv, DataOK, procvars, semvars, ctlvars
<1>6. Quiet' /\ KillInv' /\ CountsAgree(sstate', scount', squeue')
  BY <1>1, <1>3 DEF Resume, IInv, Quiet, KillInv, semvars, ctlvars
<1>. QED  BY <1>4, <1>5, <1>6, QuietStep

\* suspend of a ready process takes it out of the ready list.
LEMMA SuspendReadyInv ==
  ASSUME IInv, NEW p \in Pid, SuspendReady(p)
  PROVE  IInv'
<1>1. Quiet /\ CountsAgree(sstate, scount, squeue)
  BY QuietFacts DEF SuspendReady, Calls, UserMode, Deferring
<1>2. \A r \in Pid : prstate'[r] = IF r = p THEN "PR_SUSP" ELSE prstate[r]
  BY DEF SuspendReady, IInv, ListInv, Running
<1>3. /\ readylist' \in KeyedLists(Pid) /\ Once(readylist')
      /\ Members(readylist') = Members(readylist) \ {p}
  BY GetitemFacts DEF SuspendReady, IInv, ListInv, ReadyAgrees
<1>4. ListInv'
  <2>1. Running'
    BY <1>2, NullIsPid DEF SuspendReady, IInv, ListInv, Running, State
  <2>2. ReadyAgrees(prstate', readylist')
    BY <1>2, <1>3 DEF IInv, ListInv, ReadyAgrees
  <2>3. SleepAgrees(prstate', sleepq')
    BY <1>2 DEF SuspendReady, IInv, ListInv, SleepAgrees
  <2>4. WaitAgrees(prstate', prsem', squeue')
    <3>1. \A r \in Pid : prstate'[r] = "PR_WAIT" <=> prstate[r] = "PR_WAIT"
      BY <1>2 DEF SuspendReady
    <3>. QED  BY <3>1 DEF SuspendReady, IInv, ListInv, WaitAgrees, semvars
  <2>. QED  BY <2>1, <2>2, <2>3, <2>4 DEF ListInv
<1>5. DataOK'
  BY DEF SuspendReady, IInv, DataOK, procvars, semvars, ctlvars
<1>6. Quiet' /\ KillInv' /\ CountsAgree(sstate', scount', squeue')
  BY <1>1 DEF SuspendReady, IInv, Quiet, KillInv, semvars, ctlvars
<1>. QED  BY <1>4, <1>5, <1>6, QuietStep

\* suspend of the caller itself gives up the processor.
LEMMA SuspendSelfInv ==
  ASSUME IInv, SuspendSelf
  PROVE  IInv'
<1>1. Quiet /\ CountsAgree(sstate, scount, squeue)
  BY QuietFacts DEF SuspendSelf, Calls, UserMode, Deferring
<1>2. /\ Running' /\ ReadyAgrees(prstate', readylist')
      /\ SleepAgrees(prstate', sleepq) /\ WaitAgrees(prstate', prsem, squeue)
      /\ Defer' \in [ndefers : Nat, attempt : BOOLEAN] /\ Defer'.ndefers = 0
  BY <1>1, BlockFacts DEF SuspendSelf, Calls, State
<1>3. ListInv'
  BY <1>2 DEF SuspendSelf, ListInv, semvars
<1>4. DataOK'
  BY <1>2 DEF SuspendSelf, IInv, DataOK, procvars, semvars, ctlvars
<1>5. Quiet' /\ KillInv' /\ CountsAgree(sstate', scount', squeue')
  BY <1>1, <1>2 DEF SuspendSelf, IInv, Quiet, KillInv, semvars, ctlvars
<1>. QED  BY <1>3, <1>4, <1>5, QuietStep

\* yield only calls resched.
LEMMA YieldInv ==
  ASSUME IInv, Yield
  PROVE  IInv'
<1>1. Quiet /\ CountsAgree(sstate, scount, squeue)
  BY QuietFacts DEF Yield, Calls, UserMode, Deferring
<1>2. MayRun(prstate) /\ ReadyAgrees(prstate, readylist)
  BY DEF IInv, ListInv, Running, MayRun
<1>3. /\ Running' /\ ReadyAgrees(prstate', readylist')
      /\ SleepAgrees(prstate', sleepq) /\ WaitAgrees(prstate', prsem, squeue)
      /\ Defer' \in [ndefers : Nat, attempt : BOOLEAN] /\ Defer'.ndefers = 0
  BY <1>1, <1>2, InvTypeOK, ReschedFacts DEF Yield, IInv, ListInv, Quiet
<1>4. ListInv'
  BY <1>3 DEF Yield, ListInv, semvars
<1>5. DataOK'
  BY <1>3 DEF Yield, IInv, DataOK, procvars, semvars, ctlvars
<1>6. Quiet' /\ KillInv' /\ CountsAgree(sstate', scount', squeue')
  BY <1>1, <1>3 DEF Yield, IInv, Quiet, KillInv, semvars, ctlvars
<1>. QED  BY <1>4, <1>5, <1>6, QuietStep

\* chprio changes no list and no state.
LEMMA ChprioInv ==
  ASSUME IInv, NEW p \in Pid, NEW prio \in Prio, Chprio(p, prio)
  PROVE  IInv'
<1>1. Quiet /\ CountsAgree(sstate, scount, squeue)
  BY QuietFacts DEF Chprio, Calls, UserMode, Deferring
<1>2. ListInv' /\ Quiet' /\ KillInv' /\ CountsAgree(sstate', scount', squeue')
  BY <1>1 DEF Chprio, IInv, ListInv, Running, Quiet, KillInv, semvars, runvars,
              ctlvars
<1>3. DataOK'
  BY PrioAssumption DEF Chprio, IInv, DataOK, semvars, runvars, ctlvars
<1>. QED  BY <1>2, <1>3, QuietStep

-----------------------------------------------------------------------------
(***************************************************************************)
(* Messages.                                                               *)
(***************************************************************************)

\* What send does to the states and lists, whoever the receiver is.
LEMMA DeliverFacts ==
  ASSUME IInv, NEW p \in Pid, NEW m \in Message, Deliver(p, m)
  PROVE  /\ Running'
         /\ ReadyAgrees(prstate', readylist')
         /\ SleepAgrees(prstate', sleepq')
         /\ WaitAgrees(prstate', prsem, squeue)
         /\ prmsg' \in [Pid -> Message \union {NoMsg}]
         /\ Defer' \in [ndefers : Nat, attempt : BOOLEAN]
         /\ Defer'.ndefers = Defer.ndefers
<1>1. CASE UNCHANGED <<runvars, prmsg, sleepq, Defer>>
  BY <1>1 DEF IInv, ListInv, DataOK, Running, runvars
<1>2. CASE /\ prmsg' = [prmsg EXCEPT ![p] = m]
           /\ UNCHANGED <<runvars, Defer, sleepq>>
  BY <1>2 DEF IInv, ListInv, DataOK, Running, runvars
<1>3. CASE /\ prmsg' = [prmsg EXCEPT ![p] = m]
           /\ prstate[p] = "PR_RECV" /\ ready(p) /\ sleepq' = sleepq
  BY <1>3, ReadyFacts, Zenon DEF IInv, DataOK
<1>4. CASE /\ prmsg' = [prmsg EXCEPT ![p] = m]
           /\ prstate[p] = "PR_RECTIM" /\ ready(p) /\ sleepq' = unsleep(p, sleepq)
  <2>1. /\ sleepq' \in KeyedLists(Pid) /\ Once(sleepq')
        /\ Members(sleepq') = Members(sleepq) \ {p}
    BY <1>4, UnsleepFacts DEF IInv, ListInv, SleepAgrees
  <2>. QED  BY <1>4, <2>1, ReadyFacts, Zenon DEF IInv, DataOK
<1>. QED  BY <1>1, <1>2, <1>3, <1>4, Zenon DEF Deliver

\* send stores the message and readies a receiver that waits for it.
LEMMA SendInv ==
  ASSUME IInv, NEW p \in Pid, NEW m \in Msg, Send(p, m)
  PROVE  IInv'
<1>1. Quiet /\ CountsAgree(sstate, scount, squeue)
  BY QuietFacts DEF Send, Calls, UserMode, Deferring
<1>2. /\ Running' /\ ReadyAgrees(prstate', readylist')
      /\ SleepAgrees(prstate', sleepq') /\ WaitAgrees(prstate', prsem, squeue)
      /\ prmsg' \in [Pid -> Message \union {NoMsg}]
      /\ Defer' \in [ndefers : Nat, attempt : BOOLEAN]
      /\ Defer'.ndefers = Defer.ndefers
  BY DeliverFacts DEF Send, Message
<1>3. ListInv'
  BY <1>2 DEF Send, ListInv, semvars
<1>4. DataOK'
  BY <1>2 DEF Send, IInv, DataOK, procvars, semvars, ctlvars
<1>5. Quiet' /\ KillInv' /\ CountsAgree(sstate', scount', squeue')
  BY <1>1, <1>2, Zenon DEF Send, IInv, Quiet, KillInv, semvars, ctlvars
<1>. QED  BY <1>3, <1>4, <1>5, QuietStep

\* receive without a message gives up the processor outside every list.
LEMMA ReceiveInv ==
  ASSUME IInv, Receive
  PROVE  IInv'
<1>1. Quiet /\ CountsAgree(sstate, scount, squeue)
  BY QuietFacts DEF Receive, Calls, UserMode, Deferring
<1>2. /\ Running' /\ ReadyAgrees(prstate', readylist')
      /\ SleepAgrees(prstate', sleepq) /\ WaitAgrees(prstate', prsem, squeue)
      /\ Defer' \in [ndefers : Nat, attempt : BOOLEAN] /\ Defer'.ndefers = 0
  BY <1>1, BlockFacts DEF Receive, Calls, State
<1>3. ListInv'
  BY <1>2 DEF Receive, ListInv, semvars
<1>4. currpid \in Pid /\ pc' = [pc EXCEPT ![currpid] = "receive"]
  BY DEF Receive, GoTo, IInv, ListInv, Running
<1>5. DataOK'
  BY <1>2, <1>4 DEF Receive, IInv, DataOK, procvars, semvars, Place
<1>6. Quiet' /\ KillInv' /\ CountsAgree(sstate', scount', squeue')
  BY <1>1, <1>2, <1>4 DEF Receive, IInv, DataOK, Quiet, KillInv, Deferring, semvars
<1>. QED  BY <1>3, <1>5, <1>6, QuietStep

\* recvtime without a message enters the sleep queue.
LEMMA RecvtimeInv ==
  ASSUME IInv, NEW d \in Delay, Recvtime(d)
  PROVE  IInv'
<1>1. Quiet /\ CountsAgree(sstate, scount, squeue)
  BY QuietFacts DEF Recvtime, Calls, UserMode, Deferring
<1>2. /\ sleepq' \in KeyedLists(Pid) /\ Once(sleepq')
      /\ Members(sleepq') = Members(sleepq) \union {currpid}
  <2>1. /\ sleepq \in KeyedLists(Pid) /\ Once(sleepq)
        /\ currpid \in Pid /\ currpid \notin Members(sleepq) /\ d \in Int
    BY DataAssumption DEF IInv, ListInv, Running, SleepAgrees
  <2>. QED  BY <2>1, InsertdFacts DEF Recvtime
<1>3. /\ Running' /\ ReadyAgrees(prstate', readylist')
      /\ SleepAgrees(prstate', sleepq') /\ WaitAgrees(prstate', prsem, squeue)
      /\ Defer' \in [ndefers : Nat, attempt : BOOLEAN] /\ Defer'.ndefers = 0
  BY <1>1, <1>2, BlockFacts DEF Recvtime, Calls, State
<1>4. ListInv'
  BY <1>3 DEF Recvtime, ListInv, semvars
<1>5. currpid \in Pid /\ pc' = [pc EXCEPT ![currpid] = "recvtime"]
  BY DEF Recvtime, GoTo, IInv, ListInv, Running
<1>6. DataOK'
  BY <1>3, <1>5 DEF Recvtime, IInv, DataOK, procvars, semvars, Place
<1>7. Quiet' /\ KillInv' /\ CountsAgree(sstate', scount', squeue')
  BY <1>1, <1>3, <1>5 DEF Recvtime, IInv, DataOK, Quiet, KillInv, Deferring, semvars
<1>. QED  BY <1>4, <1>6, <1>7, QuietStep

\* Taking a message changes no state and no list.
LEMMA TakeMessageInv ==
  ASSUME IInv, TakeMessage, pc[currpid] \notin Deferring,
         UNCHANGED pc \/ GoTo("user")
  PROVE  IInv'
<1>1. Quiet /\ CountsAgree(sstate, scount, squeue)
  BY QuietFacts
<1>2. /\ currpid \in Pid /\ pc' \in [Pid -> Place]
      /\ \A p \in Pid : pc'[p] = pc[p] \/ pc'[p] = "user"
  BY DEF GoTo, IInv, ListInv, Running, DataOK, Place
<1>3. ListInv' /\ DataOK'
  BY <1>2, Zenon DEF TakeMessage, IInv, ListInv, Running, DataOK, procvars, semvars, runvars
<1>4. Quiet' /\ KillInv' /\ CountsAgree(sstate', scount', squeue')
  BY <1>1, <1>2 DEF TakeMessage, IInv, Quiet, KillInv, Deferring, semvars
<1>. QED  BY <1>3, <1>4, QuietStep
=============================================================================
