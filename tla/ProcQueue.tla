----------------------------- MODULE ProcQueue -----------------------------
(***************************************************************************)
(* The process lists of queuetab: a list is the sequence of the nodes      *)
(* between its head and its tail.  A node of the ready list or of the      *)
(* sleep queue carries the process and its qkey; a semaphore queue is FIFO *)
(* and its keys are never read, so its nodes are process identifiers.      *)
(***************************************************************************)
EXTENDS Integers, Sequences

(***************************************************************************)
(* Sequences with one node more or less, and the least number of a set, as *)
(* in SequencesExt and FiniteSetsExt.  They are stated here because every  *)
(* obligation of the proofs carries all that this module extends.          *)
(***************************************************************************)
InsertAt(q, i, e) == SubSeq(q, 1, i - 1) \o <<e>> \o SubSeq(q, i, Len(q))

RemoveAt(q, i) == SubSeq(q, 1, i - 1) \o SubSeq(q, i + 1, Len(q))

Min(S) == CHOOSE x \in S : \A y \in S : x <= y

\* The key of a tail node (MINKEY in queue.h, a 32-bit minimum).
MINKEY == -2147483647 - 1

Node(p, k) == [pid |-> p, qkey |-> k]

\* The lists of processes of P with keys.
KeyedLists(P) == Seq([pid : P, qkey : Int])

\* The processes in a list.
Members(q) == {q[i].pid : i \in DOMAIN q}

\* No process is twice in a list.
Once(q) == \A i, j \in DOMAIN q : q[i].pid = q[j].pid => i = j

\* firstkey reads the key of the first node, the tail's when the list is empty.
firstkey(q) == IF q = <<>> THEN MINKEY ELSE q[1].qkey

\* Where the scan of insert stops: before the first node whose key is below
\* key, or at the tail.
InsertPos(q, key) ==
  Min({i \in 1 .. Len(q) + 1 : i <= Len(q) => q[i].qkey < key})

\* insert: descending keys, behind the nodes that have the same key.
insert(p, q, key) == InsertAt(q, InsertPos(q, key), Node(p, key))

\* Ticks from now until the i-th node of a delta list is due.
DueIn(q) ==
  LET due[i \in 0 .. Len(q)] == IF i = 0 THEN 0 ELSE due[i-1] + q[i].qkey
  IN due

\* Where the scan of insertd stops: before the first node due later than delay.
DeltaPos(q, delay) ==
  Min({i \in 1 .. Len(q) + 1 : i <= Len(q) => DueIn(q)[i] > delay})

\* (Mutant: the node behind keeps its delay.)
insertdOnly(p, q, delay) ==
  LET at == DeltaPos(q, delay)
  IN InsertAt(q, at, Node(p, delay - DueIn(q)[at - 1]))

\* insertd: the new node keeps what is left of the delay after the nodes
\* before it, and the node behind it gives up that much.
insertd(p, q, delay) ==
  LET at  == DeltaPos(q, delay)
      key == delay - DueIn(q)[at - 1]
      behind == [i \in DOMAIN q |->
                   IF i = at THEN Node(q[i].pid, q[i].qkey - key) ELSE q[i]]
  IN InsertAt(behind, at, Node(p, key))

\* The place of process p in a list that holds it.
PosOf(p, q) == CHOOSE i \in DOMAIN q : q[i].pid = p

\* getitem: unlink a process from the keyed list that holds it.
getitem(p, q) == RemoveAt(q, PosOf(p, q))

\* unsleep: the node behind inherits the delay of the node that is unlinked.
unsleep(p, q) ==
  LET at == PosOf(p, q)
      behind == [i \in DOMAIN q |->
                   IF i = at + 1 THEN Node(q[i].pid, q[i].qkey + q[at].qkey)
                                 ELSE q[i]]
  IN RemoveAt(behind, at)

\* getitem on a semaphore queue.
Unqueue(p, q) == RemoveAt(q, CHOOSE i \in DOMAIN q : q[i] = p)
=============================================================================
