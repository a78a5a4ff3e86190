------------------------------- MODULE FsOps -------------------------------
(***************************************************************************)
(* The block, inode-content and directory layers of kernel/fs.c as         *)
(* operators on a file system image.  An image f has                       *)
(*   din[i]   the dinode of number i: type, nlink, size, addrs             *)
(*   used     the blocks marked in the free bit map                        *)
(*   blk[b]   the content of block b when it holds data                    *)
(*   ind[b]   the content of block b when it is an indirect block          *)
(*   strays   bookkeeping: inodes entered in a directory after its removal *)
(* The unit of size and offset is one directory entry, and a block holds   *)
(* one: a unit is a pair, <<name, inum>> in a directory, <<char, 0>> in a  *)
(* file.  The in-memory copy of an inode is written back by iupdate before *)
(* its lock is released, so the image stands for both.                     *)
(***************************************************************************)
EXTENDS Integers, Sequences, FiniteSets, FiniteSetsExt, SequencesExt

CONSTANTS NInodes,    \* sb.ninodes - 1: inode numbers are 1 .. NInodes
          NBlocks,    \* data blocks
          NDIRECT, NINDIRECT

ASSUME FsSizes ==
  /\ NInodes \in Nat \ {0} /\ NBlocks \in Nat \ {0}
  /\ NDIRECT \in Nat \ {0} /\ NINDIRECT \in Nat \ {0}

ROOTINO == 1
Inum  == 1 .. NInodes
Block == 1 .. NBlocks
MAXFILE == NDIRECT + NINDIRECT
ZeroUnit == <<"", 0>>
BadUnit  == <<"?", -1>>      \* stands for user memory that copyin cannot read
NoBlocks == [k \in 0 .. NINDIRECT - 1 |-> 0]

FreeInode == [type |-> "none", nlink |-> 0, size |-> 0,
              addrs |-> [k \in 0 .. NDIRECT |-> 0]]
-----------------------------------------------------------------------------
(* Blocks *)

bzero(f, b) == [f EXCEPT !.blk[b] = ZeroUnit, !.ind[b] = NoBlocks]

\* The block balloc would take, 0 when the disk is full.
FreeBlock(f) == IF f.used = Block THEN 0 ELSE Min(Block \ f.used)

balloc(f, b) == bzero([f EXCEPT !.used = @ \cup {b}], b)

\* Slot k of the inode's addrs, filled with block b if it is empty; a = 0: disk
\* full.  Entry does the same for slot k of the indirect block x.
Slot(f, i, k, b) ==
  IF f.din[i].addrs[k] # 0 THEN [f |-> f, a |-> f.din[i].addrs[k]]
  ELSE IF b = 0 THEN [f |-> f, a |-> 0]
  ELSE [f |-> [balloc(f, b) EXCEPT !.din[i].addrs[k] = b], a |-> b]
Entry(f, x, k, b) ==
  IF f.ind[x][k] # 0 THEN [f |-> f, a |-> f.ind[x][k]]
  ELSE IF b = 0 THEN [f |-> f, a |-> 0]
  ELSE [f |-> [balloc(f, b) EXCEPT !.ind[x][k] = b], a |-> b]
Indirect(m, k) == IF m.a = 0 THEN m ELSE Entry(m.f, m.a, k, FreeBlock(m.f))

\* The nth block of inode i, allocated if there is none.
bmap(f, i, bn) == IF bn < NDIRECT THEN Slot(f, i, bn, FreeBlock(f))
                  ELSE Indirect(Slot(f, i, NDIRECT, FreeBlock(f)), bn - NDIRECT)

DirectBlocks(d) == {d.addrs[k] : k \in 0 .. NDIRECT} \ {0}
IndirectBlocks(f, d) ==
  IF d.addrs[NDIRECT] = 0 THEN {}
  ELSE {f.ind[d.addrs[NDIRECT]][k] : k \in 0 .. NINDIRECT - 1} \ {0}
BlocksOf(f, i) == DirectBlocks(f.din[i]) \cup IndirectBlocks(f, f.din[i])

itrunc(f, i) ==
  [f EXCEPT !.used = @ \ BlocksOf(f, i),
            !.din[i].size = 0, !.din[i].addrs = FreeInode.addrs]
-----------------------------------------------------------------------------
(* Inode content *)

Addr(f, i, bn) == IF bn < NDIRECT THEN f.din[i].addrs[bn]
                  ELSE f.ind[f.din[i].addrs[NDIRECT]][bn - NDIRECT]

Content(f, i) == [k \in 1 .. f.din[i].size |-> f.blk[Addr(f, i, k - 1)]]

\* n is unsigned: a negative one is huge, and off + n either wraps round to less
\* than off, or is behind the end of the file.
readi(f, i, off, n) ==
  IF off > f.din[i].size \/ (n < 0 /\ off + n >= 0) THEN <<>>
  ELSE SubSeq(Content(f, i), off + 1,
              IF n < 0 THEN f.din[i].size ELSE Min({off + n, f.din[i].size}))

\* One unit u into the block that bmap found; full once it found none, or
\* copyin failed, after bmap.
WriteUnit(s, m, u) ==
  IF s.full \/ m.a = 0 \/ u[2] = -1 THEN [s EXCEPT !.f = m.f, !.full = TRUE]
  ELSE [f |-> [m.f EXCEPT !.blk[m.a] = u], n |-> s.n + 1, full |-> FALSE]

Written(w, i, off) == [f |-> [w.f EXCEPT !.din[i].size = Max({@, off + w.n})], n |-> w.n]

\* n is the number of units written, or -1.
writei(f, i, off, units) ==
  IF off > f.din[i].size \/ off + Len(units) > MAXFILE THEN [f |-> f, n |-> -1]
  ELSE Written(FoldLeft(LAMBDA s, u : WriteUnit(s, bmap(s.f, i, off + s.n), u),
                        [f |-> f, n |-> 0, full |-> FALSE], units), i, off)
-----------------------------------------------------------------------------
(* Directories *)

Entries(f, dp) == LET c == Content(f, dp) IN {k \in DOMAIN c : c[k][2] # 0}

\* The 1-based position of name's entry in the content c, 0 if there is none.
Found(M) == IF M = {} THEN 0 ELSE Min(M)
Position(c, name) == Found({k \in DOMAIN c : c[k][2] # 0 /\ c[k][1] = name})
dirpos(f, dp, name) == Position(Content(f, dp), name)

InumAt(c, k) == IF k = 0 THEN 0 ELSE c[k][2]
dirlookup(f, dp, name) == InumAt(Content(f, dp), dirpos(f, dp, name))

\* Writes the entry at the first free position; ok is FALSE on failure.
FreePosition(f, dp, free) == IF free = {} THEN f.din[dp].size ELSE Min(free) - 1
Linked(w) == [f |-> w.f, ok |-> w.n = 1]
dirlink(f, dp, name, inum) ==
  IF dirlookup(f, dp, name) # 0 THEN [f |-> f, ok |-> FALSE]
  ELSE Linked(writei(f, dp, FreePosition(f, dp, (1 .. f.din[dp].size) \ Entries(f, dp)),
                     << <<name, inum>> >>))

\* No entry behind "." and "..", the first two.
isdirempty(f, dp) == \A k \in Entries(f, dp) : k <= 2

FreeInum(f) == LET F == {i \in Inum : f.din[i].type = "none"}
               IN IF F = {} THEN 0 ELSE Min(F)

ialloc(f, i, type) == [f EXCEPT !.din[i] = [FreeInode EXCEPT !.type = type]]

\* The image that mkfs makes: a root directory with "." and ".." and nlink 1,
\* and the files it is given, each a pair <<name, content>>.
Mkfs(files) ==
  LET f0 == [din  |-> [i \in Inum |-> FreeInode], used |-> {},
             blk  |-> [b \in Block |-> ZeroUnit],
             ind  |-> [b \in Block |-> NoBlocks], strays |-> {}]
      f1 == [ialloc(f0, ROOTINO, "DIR") EXCEPT !.din[ROOTINO].nlink = 1]
      f2 == writei(f1, ROOTINO, 0, << <<".", ROOTINO>>, <<"..", ROOTINO>> >>).f
      Put(f, x) == LET i == FreeInum(f)
                       g == [ialloc(f, i, "FILE") EXCEPT !.din[i].nlink = 1]
                   IN dirlink(writei(g, i, 0, x[2]).f, ROOTINO, x[1], i).f
  IN FoldLeft(Put, f2, files)
=============================================================================
