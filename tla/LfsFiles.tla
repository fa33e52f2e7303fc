------------------------------ MODULE LfsFiles ------------------------------
(***************************************************************************)
(* The local file system implements Files: what the files hold.            *)
(***************************************************************************)
EXTENDS Lfs

\* A data block as the files see it, like an index block (IBlock).
DBlock(n) ==
  LET having == {d \in Dev : Used(d) /\ lfltab[d].lfdnum = n}
  IN IF having = {} THEN disk.db[n].data ELSE lfltab[CHOOSE d \in having : TRUE].lfdblock

\* The bytes of file i.
Content(i) ==
  [k \in 1 .. lf_dir.files[i].ld_size |->
     LET x == (k - 1) \div BLK
         ib == IBlock(Nth(lf_dir.files[i].ld_ilist, INext, x \div IBLEN))
     IN DBlock(ib.ib_dba[x % IBLEN])[(k - 1) % BLK]]

FileOf(n) == {i \in DOMAIN lf_dir.files : lf_dir.files[i].ld_name = n}

Abstract == INSTANCE Files WITH
  content <- [n \in Name |-> IF FileOf(n) = {} THEN <<"absent">>
                             ELSE Content(CHOOSE i \in FileOf(n) : TRUE)],
  opened <- [d \in Dev |-> IF Used(d) THEN [name |-> File(d).ld_name, pos |-> lfltab[d].lfpos]
                           ELSE [name |-> "none", pos |-> 0]]

\* The file system is one of named byte sequences (Files): whatever the calls and the
\* blocks they need, a byte read is the byte last written at its position, a byte is
\* written where the position is, and no call changes another file.
ImplementsFiles == Abstract!Spec
=============================================================================
