-------------------------------- MODULE Lfs --------------------------------
(***************************************************************************)
(* The local file system on a disk whose reads and writes do not block     *)
(* (the configured one is the RAM disk): the calls run with interrupts     *)
(* disabled and find both mutexes free, so each is one step.  A file is a  *)
(* list of index blocks that point to data blocks; a device holds copies   *)
(* of one of each, which lfflush writes back.  The steps inside a call are *)
(* operators on the state s of a device f and the disk.                    *)
(***************************************************************************)
EXTENDS Naturals, Sequences, FileMode

CONSTANTS
  Name, Byte,
  NLFL,      \* Nlfl: devices
  NDIR,      \* LF_NUM_DIR_ENT
  BLK,       \* LF_BLKSIZ: bytes in a data block
  IBLEN,     \* LF_IBLEN: data blocks of an index block
  IBS, DBS,  \* index blocks and data blocks of the disk
  Mode,      \* the mode strings that programs pass
  LongName,  \* stands for a name of LF_NAME_LEN characters or more
  MAXLEN     \* bound: bytes of a file

ASSUME LfsAssumption ==
  /\ {NLFL, NDIR, BLK, IBLEN, IBS, DBS} \subseteq Nat \ {0} /\ MAXLEN \in Nat
  /\ LongName \notin Name

Dev == 0 .. NLFL - 1
INULL == IBS       \* LF_INULL
DNULL == DBS       \* LF_DNULL
IDATA == BLK * IBLEN
DFILL == "fill"

VARIABLES
  lf_dir,                     \* the directory in memory: free lists and files
  lf_dirpresent, lf_dirdirty,
  lfltab,                     \* the devices
  disk,                       \* directory, index blocks and data blocks
  panic, out                  \* did the system halt? what the last device call returned

vars == <<lf_dir, lf_dirpresent, lf_dirdirty, lfltab, disk, panic, out>>

\* lfibclear
lfibclear(offset) ==
  [ib_next |-> INULL, ib_offset |-> offset, ib_dba |-> [j \in 0 .. IBLEN - 1 |-> DNULL]]

\* A data block that is on the free list, and one that holds data.
FreeBlock(next) == [lf_nextdb |-> next, data |-> [j \in 0 .. BLK - 1 |-> DFILL]]
DataBlock(bytes) == [lf_nextdb |-> DNULL, data |-> bytes]
-----------------------------------------------------------------------------
(* Inside the calls. *)

State(d) ==
  [dir |-> lf_dir, dirty |-> lf_dirdirty, disk |-> disk, f |-> lfltab[d], got |-> 0,
   panic |-> FALSE]

WriteDir(s) == [s EXCEPT !.disk.dir = s.dir, !.dirty = FALSE]

\* (Mutant: the directory is not written.)
lfflushBlocks(s) ==
  LET b == IF s.f.lfdbdirty
           THEN [s EXCEPT !.disk.db[s.f.lfdnum] = DataBlock(s.f.lfdblock), !.f.lfdbdirty = FALSE]
           ELSE s
  IN IF b.f.lfibdirty
     THEN [b EXCEPT !.disk.ib[b.f.lfinum] = b.f.lfiblock, !.f.lfibdirty = FALSE]
     ELSE b

lfflush(s) ==
  LET a == IF s.dirty THEN WriteDir(s) ELSE s
      b == IF a.f.lfdbdirty
           THEN [a EXCEPT !.disk.db[a.f.lfdnum] = DataBlock(a.f.lfdblock), !.f.lfdbdirty = FALSE]
           ELSE a
  IN IF b.f.lfibdirty
     THEN [b EXCEPT !.disk.ib[b.f.lfinum] = b.f.lfiblock, !.f.lfibdirty = FALSE]
     ELSE b

\* The number of the block is left in got.
lfiballoc(s) ==
  IF s.dir.lfd_ifree = INULL THEN [s EXCEPT !.panic = TRUE]
  ELSE WriteDir([s EXCEPT !.got = s.dir.lfd_ifree,
                          !.dir.lfd_ifree = s.disk.ib[s.dir.lfd_ifree].ib_next])

lfdballoc(s) ==
  IF s.dir.lfd_dfree = DNULL THEN [s EXCEPT !.panic = TRUE]
  ELSE WriteDir([s EXCEPT !.got = s.dir.lfd_dfree,
                          !.dir.lfd_dfree = s.disk.db[s.dir.lfd_dfree].lf_nextdb,
                          !.f.lfdblock = [j \in 0 .. BLK - 1 |-> DFILL]])

\* (Mutant: the block is not linked to the rest of the free list.)
lfdbfreeLast(s, n) ==
  LET a == [s EXCEPT !.disk.db[n] = FreeBlock(DNULL), !.dir.lfd_dfree = n]
  IN [a EXCEPT !.disk.dir = a.dir]

\* The directory is written, and stays marked as dirty.
lfdbfree(s, n) ==
  LET a == [s EXCEPT !.disk.db[n] = FreeBlock(s.dir.lfd_dfree), !.dir.lfd_dfree = n]
  IN [a EXCEPT !.disk.dir = a.dir]

\* Load index block n.
Load(s, n) == [s EXCEPT !.f.lfiblock = s.disk.ib[n], !.f.lfinum = n]

\* An index block is brought into memory when there is none or when the position
\* lies before the one that is there.
SetupFirst(s) ==
  LET i == s.f.lfdirptr
      ilist == s.dir.files[i].ld_ilist
  IN IF s.f.lfinum = INULL /\ ilist = INULL
     THEN LET a == lfiballoc(s)
          IN IF a.panic THEN a
             ELSE [a EXCEPT !.f.lfiblock = lfibclear(0), !.dir.files[i].ld_ilist = a.got,
                            !.f.lfibdirty = TRUE, !.f.lfinum = a.got]
     ELSE IF s.f.lfinum = INULL \/ s.f.lfpos < s.f.lfiblock.ib_offset
          THEN Load(s, ilist)
          ELSE s

\* An iteration of the loop that follows, or extends, the list until the index block
\* covers the position.
IndexStep(s) ==
  IF s.panic \/ s.f.lfpos - (s.f.lfpos % IDATA) <= s.f.lfiblock.ib_offset THEN s
  ELSE IF s.f.lfiblock.ib_next # INULL
  THEN [Load(s, s.f.lfiblock.ib_next) EXCEPT !.f.lfdnum = DNULL]
  ELSE LET a == lfiballoc(s)
           old == [a.f.lfiblock EXCEPT !.ib_next = a.got]
       IN IF a.panic THEN a
          ELSE [a EXCEPT !.disk.ib[a.f.lfinum] = old,
                         !.f.lfinum = a.got, !.f.lfdnum = DNULL,
                         !.f.lfiblock = lfibclear(old.ib_offset + IDATA),
                         !.f.lfibdirty = TRUE]

\* The loop.  An index block covers IDATA bytes more than the one before it, so this
\* many iterations are enough.
SetupIndex(s) ==
  LET after[k \in 0 .. s.f.lfpos \div IDATA] == IF k = 0 THEN s ELSE IndexStep(after[k - 1])
  IN after[s.f.lfpos \div IDATA]

\* The data block of the position is brought into memory, or allocated.
SetupData(s) ==
  LET x == (s.f.lfpos % IDATA) \div BLK
      n == s.f.lfiblock.ib_dba[x]
      a == IF n = DNULL THEN lfdballoc(s) ELSE [s EXCEPT !.got = n]
      b == IF n = DNULL
           THEN [a EXCEPT !.f.lfiblock.ib_dba[x] = a.got, !.f.lfibdirty = TRUE]
           ELSE IF n # s.f.lfdnum
           THEN [a EXCEPT !.f.lfdblock = a.disk.db[n].data, !.f.lfdbdirty = FALSE]
           ELSE a
  IN IF a.panic THEN a
     ELSE [b EXCEPT !.f.lfdnum = b.got, !.f.lfbyte = s.f.lfpos % BLK]

\* (Mutant: what changed in the data block is not written first.)
lfsetupForgets(s) ==
  LET a == IF s.f.lfibdirty \/ s.f.lfdbdirty
           THEN lfflush([s EXCEPT !.f.lfdbdirty = FALSE]) ELSE s
      b == SetupFirst(a)
      c == SetupIndex(b)
  IN IF c.panic THEN c ELSE SetupData(c)

\* What changed is written; then the blocks of the position are brought into memory.
lfsetup(s) ==
  LET a == IF s.f.lfibdirty \/ s.f.lfdbdirty THEN lfflush(s) ELSE s
      b == SetupFirst(a)
      c == SetupIndex(b)
  IN IF c.panic THEN c ELSE SetupData(c)
-----------------------------------------------------------------------------
(* The calls. *)

\* An entry that is not in use.  No field of it is read before lfsopen sets it, and
\* neither lfiblock nor lfdblock before lfsetup loads it: lflclose resets them here.
Unused ==
  [lfstate |-> "LF_FREE", lfdirptr |-> 0, lfmode |-> {}, lfpos |-> 0, lfinum |-> INULL,
   lfiblock |-> lfibclear(0), lfdnum |-> DNULL, lfdblock |-> [j \in 0 .. BLK - 1 |-> DFILL],
   lfbyte |-> BLK, lfibdirty |-> FALSE, lfdbdirty |-> FALSE]

NoDirectory == [lfd_dfree |-> 0, lfd_ifree |-> 0, files |-> <<>>]

\* raminit, lfsinit and lflinit: the disk holds no file system.
Init ==
  /\ lf_dir = NoDirectory /\ lf_dirpresent = FALSE /\ lf_dirdirty = FALSE
  /\ lfltab = [d \in Dev |-> Unused]
  /\ disk = [formatted |-> FALSE, dir |-> NoDirectory,
             ib |-> [n \in 0 .. IBS - 1 |-> lfibclear(0)],
             db |-> [n \in 0 .. DBS - 1 |-> DataBlock([j \in 0 .. BLK - 1 |-> DFILL])]]
  /\ panic = FALSE /\ out = "OK"

\* The disk is formatted once, before there are files.
lfscreate ==
  /\ ~panic /\ ~disk.formatted
  /\ disk' = [formatted |-> TRUE, dir |-> NoDirectory,
              ib |-> [n \in 0 .. IBS - 1 |-> [lfibclear(0) EXCEPT !.ib_next = n + 1]],
              db |-> [n \in 0 .. DBS - 1 |-> FreeBlock(n + 1)]]
  /\ UNCHANGED <<lf_dir, lf_dirpresent, lf_dirdirty, lfltab, panic, out>>

Fail == out' = "SYSERR" /\ UNCHANGED <<lf_dir, lf_dirpresent, lf_dirdirty, lfltab, disk, panic>>

Used(d) == lfltab[d].lfstate = "LF_USED"
File(d) == lf_dir.files[lfltab[d].lfdirptr]
FreeDevs == {d \in Dev : ~Used(d)}

lfsopen(name, str) ==
  LET mode == getmode(str)
      lfnext == CHOOSE d \in FreeDevs : \A e \in FreeDevs : d <= e
      dir == IF lf_dirpresent THEN lf_dir ELSE disk.dir
      Found == {i \in DOMAIN dir.files : dir.files[i].ld_name = name}
      new == [ld_name |-> name, ld_size |-> 0, ld_ilist |-> INULL]
      i == IF Found # {} THEN CHOOSE k \in Found : TRUE ELSE Len(dir.files) + 1
  IN /\ ~panic
     /\ IF \/ name = LongName \/ mode = SYSERR \/ FreeDevs = {}
           \/ \E d \in Dev : Used(d) /\ File(d).ld_name = name
        THEN Fail
        ELSE IF ~lf_dirpresent /\ ~disk.formatted
        THEN Fail   \* lf_dir is overwritten, and is not read before it is read again
        ELSE /\ lf_dirpresent' = TRUE
             /\ IF \/ Found = {} /\ ("o" \in mode \/ Len(dir.files) >= NDIR)
                   \/ Found # {} /\ "n" \in mode
                THEN out' = "SYSERR" /\ lf_dir' = dir /\ UNCHANGED lfltab
                ELSE /\ lf_dir' = [dir EXCEPT !.files = IF Found = {} THEN Append(@, new) ELSE @]
                     /\ lfltab' = [lfltab EXCEPT ![lfnext] =
                          [Unused EXCEPT !.lfstate = "LF_USED", !.lfdirptr = i,
                                         !.lfmode = mode \intersect {"r", "w"}]]
                     /\ out' = "OK"
             /\ UNCHANGED <<lf_dirdirty, disk, panic>>

\* A call on device d ends in state s and returns r.  Out of blocks it panics: the
\* system halts, and of the steps before it only those on the disk are kept.
Return(d, s, r) ==
  /\ disk' = s.disk /\ panic' = s.panic
  /\ IF s.panic THEN UNCHANGED <<lf_dir, lf_dirdirty, lfltab, out>>
     ELSE /\ lf_dir' = s.dir /\ lf_dirdirty' = s.dirty /\ out' = r
          /\ lfltab' = [lfltab EXCEPT ![d] = s.f]
  /\ UNCHANGED lf_dirpresent

\* The state in which lfbyte points to the byte at lfpos.
AtByte(d) == IF lfltab[d].lfbyte >= BLK THEN lfsetup(State(d)) ELSE State(d)

lflgetc(d) ==
  /\ ~panic
  /\ IF ~Used(d) THEN Fail
     ELSE IF lfltab[d].lfpos >= File(d).ld_size THEN Return(d, State(d), "EOF")
     ELSE LET s == AtByte(d)
          IN IF s.panic THEN Return(d, s, out)
             ELSE Return(d, [s EXCEPT !.f.lfbyte = @ + 1, !.f.lfpos = @ + 1],
                         s.f.lfdblock[s.f.lfbyte])

lflputc(d, ch) ==
  /\ ~panic /\ lfltab[d].lfpos < MAXLEN
  /\ IF ~Used(d) \/ lfltab[d].lfpos > File(d).ld_size THEN Fail
     ELSE LET s == AtByte(d)
              a == IF s.f.lfpos >= s.dir.files[s.f.lfdirptr].ld_size
                   THEN [s EXCEPT !.dir.files[s.f.lfdirptr].ld_size = @ + 1, !.dirty = TRUE]
                   ELSE s
          IN IF s.panic THEN Return(d, s, out)
             ELSE Return(d, [a EXCEPT !.f.lfdblock[a.f.lfbyte] = ch, !.f.lfbyte = @ + 1,
                                      !.f.lfpos = @ + 1, !.f.lfdbdirty = TRUE], "OK")

lflseek(d, offset) ==
  /\ ~panic
  /\ IF ~Used(d) \/ offset > File(d).ld_size THEN Fail
     ELSE Return(d, [State(d) EXCEPT !.f.lfpos = offset, !.f.lfbyte = BLK], "OK")

lflclose(d) ==
  /\ ~panic
  /\ IF ~Used(d) THEN Fail
     ELSE Return(d, [lfflush(State(d)) EXCEPT !.f = Unused], "OK")

\* Put the data blocks of an index block on the free list.
FreeBlocks(s, dba) ==
  LET after[j \in 0 .. IBLEN] ==
        IF j = 0 THEN s
        ELSE IF dba[j - 1] = DNULL THEN after[j - 1] ELSE lfdbfree(after[j - 1], dba[j - 1])
  IN after[IBLEN]

\* An iteration of the loop over the index blocks: block nextib is cleared; the last
\* is linked to the free list.
ClearStep(c, ifree) ==
  LET old == c.s.disk.ib[c.nextib]
      next == IF old.ib_next = INULL THEN ifree ELSE old.ib_next
  IN IF c.nextib = ifree THEN c
     ELSE [s |-> [FreeBlocks(c.s, old.ib_dba) EXCEPT
                    !.disk.ib[c.nextib] = [lfibclear(0) EXCEPT !.ib_next = next]],
           nextib |-> next]

\* The loop, from block n on; there are no more than IBS blocks.
FreeIndex(s, n, ifree) ==
  LET after[k \in 0 .. IBS] ==
        IF k = 0 THEN [s |-> s, nextib |-> n] ELSE ClearStep(after[k - 1], ifree)
  IN after[IBS].s

lftruncate(s) ==
  LET i == s.f.lfdirptr
      a == IF s.f.lfibdirty \/ s.f.lfdbdirty THEN lfflush(s) ELSE s
      firstib == a.dir.files[i].ld_ilist
      b == [a EXCEPT !.f = [@ EXCEPT !.lfpos = 0, !.lfinum = INULL, !.lfdnum = DNULL,
                                     !.lfbyte = BLK],
                     !.dir.files[i] = [@ EXCEPT !.ld_ilist = INULL, !.ld_size = 0],
                     !.dirty = TRUE]
      c == FreeIndex(b, firstib, b.dir.lfd_ifree)
  IN IF s.dir.files[i].ld_size = 0 THEN s ELSE [c EXCEPT !.dir.lfd_ifree = firstib]

\* LF_CTL_TRUNC; any other function is refused.
lflcontrol(d, func) ==
  /\ ~panic
  /\ IF ~Used(d) \/ func # "TRUNC" THEN Fail
     ELSE Return(d, lftruncate(State(d)), "OK")

Next ==
  \/ lfscreate
  \/ \E name \in Name \union {LongName}, str \in Mode : lfsopen(name, str)
  \/ \E d \in Dev :
       \/ lflgetc(d) \/ lflclose(d)
       \/ \E ch \in Byte : lflputc(d, ch)
       \/ \E offset \in 0 .. MAXLEN : lflseek(d, offset)
       \/ \E func \in {"TRUNC", "DEL"} : lflcontrol(d, func)

Spec == Init /\ [][Next]_vars
-----------------------------------------------------------------------------
(* Properties. *)

\* An index block as the files see it: of a block that a device has in memory, its copy,
\* and of any other the one on the disk.
IBlock(n) ==
  LET having == {d \in Dev : Used(d) /\ lfltab[d].lfinum = n}
  IN IF having = {} THEN disk.ib[n] ELSE lfltab[CHOOSE d \in having : TRUE].lfiblock

\* The links between index blocks and between the data blocks of the free list, and
\* the block k links after n.
INext == [n \in 0 .. IBS |-> IF n = INULL THEN INULL ELSE IBlock(n).ib_next]
DNext == [n \in 0 .. DBS |-> IF n = DNULL THEN DNULL ELSE disk.db[n].lf_nextdb]
Nth(n, link, k) ==
  LET at[j \in 0 .. k] == IF j = 0 THEN n ELSE link[at[j - 1]]
  IN at[k]

\* The lists of index blocks: the free list, which has number 0, and those of the files.
Lists == 0 .. Len(lf_dir.files)
First(l) == IF l = 0 THEN lf_dir.lfd_ifree ELSE lf_dir.files[l].ld_ilist

\* Where index block n is: lists and positions in them.
IndexPlaces(n) == {p \in Lists \X (0 .. IBS) : Nth(First(p[1]), INext, p[2]) = n}

\* Where data block n is: positions in the free list, and entries of the index blocks
\* of files.
FreePlaces(n) == {k \in 0 .. DBS : Nth(lf_dir.lfd_dfree, DNext, k) = n}
Entries(n) ==
  {e \in (0 .. IBS - 1) \X (0 .. IBLEN - 1) :
     IBlock(e[1]).ib_dba[e[2]] = n /\ \E p \in IndexPlaces(e[1]) : p[1] # 0}

One(S) == \E x \in S : S = {x}

\* Every index block and every data block of the disk is on its free list or in one
\* file, and there once: no call of lfsetup or lftruncate, with the free lists on the
\* disk and their heads and the files' blocks in memory, loses or shares a block.
BlocksOnce ==
  lf_dirpresent /\ ~panic =>
    /\ \A n \in 0 .. IBS - 1 : One(IndexPlaces(n))
    /\ \A n \in 0 .. DBS - 1 : \/ One(FreePlaces(n)) /\ Entries(n) = {}
                               \/ One(Entries(n)) /\ FreePlaces(n) = {}

\* When all files are closed the directory on the disk is the one in memory, except
\* that files which were created and never written may be missing at its end: lflclose
\* and lfflush leave nothing else in memory only.
ClosedSaved ==
  lf_dirpresent /\ ~panic /\ FreeDevs = Dev =>
    /\ disk.dir.lfd_ifree = lf_dir.lfd_ifree /\ disk.dir.lfd_dfree = lf_dir.lfd_dfree
    /\ \A i \in DOMAIN lf_dir.files :
         IF i \in DOMAIN disk.dir.files THEN disk.dir.files[i] = lf_dir.files[i]
         ELSE lf_dir.files[i].ld_size = 0
=============================================================================
