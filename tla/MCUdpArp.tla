------------------------------ MODULE MCUdpArp ------------------------------
(***************************************************************************)
(* Instances of UDP with address resolution for TLC.                       *)
(***************************************************************************)
EXTENDS UdpArp, TLC

CONSTANTS p1, p2, b1, b2, b3, h1, h2, h3

TwoProcs == {p1, p2}
ThreeBuffers == {b1, b2, b3}

\* A server's endpoint, for any remote, and a client's.
Endpoints == {<<0, 0, 1>>, <<1, 1, 1>>}
ThreeHops == {h1, h2, h3}

Alike == Permutations(Proc) \union Permutations(Buffer) \union Permutations(Hop)

\* The state without what no step and no property reads: the fields of a free
\* slot, the process of a slot where nobody waits, the fields of a free entry, and
\* the message of a process outside the calls, which every call discards first.
Live ==
  <<[s \in Slot |->
       IF udptab[s].udstate = "free" THEN "free"
       ELSE [udptab[s] EXCEPT !.udpid = IF udptab[s].udstate = "recv" THEN @ ELSE Nobody]],
    [s \in A!Slot |->
       IF arpcache[s].arstate = "free" THEN "free" ELSE arpcache[s]],
    [p \in Proc |-> IF call[p].op \in {"recv", "resolve"} THEN proc[p] ELSE Running],
    free, packet, call, owner, resolve>>
=============================================================================
