----------------------------- MODULE KFsProofs -----------------------------
(***************************************************************************)
(* Proofs about KFs, for any processes, calls, paths and crashes: every    *)
(* reference count of the inode table and of the file table is the number  *)
(* of what refers to the entry.  In the middle of a call the call itself   *)
(* holds inodes; what it holds is a function of its label (Uses), so that  *)
(* each step moves references between a call, the files and the current    *)
(* directories (Legal, FileStep) and the count moves with them.            *)
(***************************************************************************)
EXTENDS KFs, FiniteSetTheorems, SequenceTheorems, WellFoundedInduction, TLAPS

Hit(x, i) == IF x = i THEN 1 ELSE 0
CountIn(S, g, i) == Cardinality({q \in S : g[q] = i})
Cnt(g, i) == CountIn(Proc, g, i)

LEMMA CountMoved ==
  ASSUME NEW S, NEW g, NEW h, NEW i, NEW p \in S,
         IsFiniteSet(S), \A q \in S \ {p} : h[q] = g[q]
  PROVE  /\ CountIn(S, g, i) \in Nat /\ CountIn(S, h, i) \in Nat
         /\ CountIn(S, h, i) = CountIn(S, g, i) - Hit(g[p], i) + Hit(h[p], i)
<1> DEFINE G == {q \in S : g[q] = i}
           H == {q \in S : h[q] = i}
           R == {q \in S : q # p /\ g[q] = i}
<1>1. IsFiniteSet(R) /\ IsFiniteSet(G) /\ IsFiniteSet(H)
  BY FS_Subset
<1>2. p \notin R
  OBVIOUS
<1>3. /\ g[p] = i => G = R \cup {p}
      /\ g[p] # i => G = R
  OBVIOUS
<1>4. /\ h[p] = i => H = R \cup {p}
      /\ h[p] # i => H = R
  OBVIOUS
<1>5. CountIn(S, g, i) = Cardinality(G) /\ CountIn(S, h, i) = Cardinality(H)
  BY DEF CountIn
<1> HIDE DEF G, H, R
<1>6. Cardinality(R) \in Nat /\ Cardinality(G) \in Nat /\ Cardinality(H) \in Nat
  BY <1>1, FS_CardinalityType
<1>7. Cardinality(R \cup {p}) = Cardinality(R) + 1
  BY <1>1, <1>2, FS_AddElement
<1>8. Cardinality(G) = Cardinality(R) + Hit(g[p], i)
  BY <1>3, <1>6, <1>7 DEF Hit
<1>9. Cardinality(H) = Cardinality(R) + Hit(h[p], i)
  BY <1>4, <1>6, <1>7 DEF Hit
<1> QED BY <1>5, <1>6, <1>8, <1>9 DEF Hit

LEMMA CntMoved ==
  ASSUME NEW g, NEW h, NEW p \in Proc, \A q \in Proc \ {p} : h[q] = g[q], NEW i
  PROVE  /\ Cnt(g, i) \in Nat /\ Cnt(h, i) \in Nat
         /\ Cnt(h, i) = Cnt(g, i) - Hit(g[p], i) + Hit(h[p], i)
<1> DEFINE S == Proc
<1>1. IsFiniteSet(S) /\ p \in S /\ \A q \in S \ {p} : h[q] = g[q]
  BY FsConstants
<1> HIDE DEF S
<1>2. /\ CountIn(S, g, i) \in Nat /\ CountIn(S, h, i) \in Nat
      /\ CountIn(S, h, i) = CountIn(S, g, i) - Hit(g[p], i) + Hit(h[p], i)
  BY ONLY <1>1, CountMoved
<1> QED BY <1>2 DEF Cnt, S
-----------------------------------------------------------------------------
(* What a call refers to.  A call that has inodes to put goes on at its     *)
(* label afterwards; what it holds there it holds already.                  *)

CallFields == {"pc", "op", "path", "new", "mode", "type", "par", "k", "ip", "dp",
               "lp", "nm", "puts", "next", "f", "units", "n", "r"}
IsCall(c) == c = [x \in CallFields |-> c[x]]

Putting == {"iput", "ifree", "idrop"}
Label(c) == IF c.pc \in Putting THEN c.next ELSE c.pc

Creators   == {"mkdir", "mknod", "open"}
NameLabels == {"link", "unlink", "create", "open", "chdir", "exec", "link2"}
IpLabels   == NameLabels \cup {"namex", "unlink2", "unlink3", "create2", "opentail", "mktail",
                                "reclaim"}
Labels     == IpLabels \cup {"idle", "begin", "end", "linkbad", "putdp", "read", "write", "fstat"}

\* chdir has found its directory; end_op is to make it the current one.
ChdirDone(l, c) == l = "end" /\ c.op = "chdir" /\ c.r = 0

\* The inodes held as current directory, ip, dp and lp by a call at label l.
CwdAt(l, c, w) == IF (l # "idle" /\ c.op = "exitcwd") \/ ChdirDone(l, c) THEN 0 ELSE w
IpAt(l, c) == IF l \in IpLabels \/ (l = "begin" /\ c.op \in {"close", "exitcwd", "reclaim"})
                 \/ ChdirDone(l, c) THEN c.ip ELSE 0
DpAt(l, c) == IF l \in {"unlink2", "putdp"} THEN c.dp ELSE 0
LpAt(l, c) == IF l \in {"link2", "linkbad"} \/ (l = "namex" /\ c.k = "link2") THEN c.lp ELSE 0
Put1(c) == IF c.pc \in Putting THEN c.puts[1] ELSE 0
Put2(c) == IF c.pc \in Putting /\ Len(c.puts) = 2 THEN c.puts[2] ELSE 0

LabelUses(l, c, w, i) == Hit(CwdAt(l, c, w), i) + Hit(IpAt(l, c), i)
                         + Hit(DpAt(l, c), i) + Hit(LpAt(l, c), i)
Uses(c, w, i) == LabelUses(Label(c), c, w, i) + Hit(Put1(c), i) + Hit(Put2(c), i)

\* Which system calls come to a label, and with what.
Fits(l, c) ==
  /\ l \in Labels
  /\ l = "begin" => /\ c.op \in Creators \cup {"link", "unlink", "chdir", "exec", "write",
                                               "close", "exitcwd", "reclaim"}
                    /\ "CREATE" \in c.mode => c.op = "open"
                    /\ c.op = "chdir" => c.r = 0
  /\ l = "namex" => /\ c.k \in NameLabels
                    /\ c.k \in {"link", "link2"} => c.op = "link"
                    /\ c.k = "create" => c.op \in Creators
                    /\ c.k \notin {"link2", "create"} => c.op = c.k
                    /\ c.op = "chdir" => c.r = 0
  /\ l \in {"link", "link2", "linkbad"} => c.op = "link"
  /\ l \in {"unlink", "unlink2", "unlink3"} => c.op = "unlink"
  /\ l \in {"create", "create2", "opentail", "mktail"} => c.op \in Creators
  /\ l = "putdp" => c.op \in Creators \cup {"unlink"}
  /\ l \in {"open", "exec", "read", "write", "fstat"} => c.op = l
  /\ l = "chdir" => c.op = "chdir" /\ c.r = 0
  /\ l = "reclaim" => c.op = "reclaim"
  /\ c.op = "write" => "CREATE" \notin c.mode

PutsOk(c) == c.pc \in Putting => \/ c.puts = <<c.puts[1]>>
                                 \/ c.puts = <<c.puts[1], c.puts[2]>>
CallOk(c) == Fits(Label(c), c) /\ PutsOk(c)

\* The locks that a call holds between two steps.
Locking(c, i) == \/ Label(c) \in {"unlink2", "putdp"} /\ i = c.dp
                 \/ Label(c) \in {"unlink3", "opentail", "mktail"} /\ i = c.ip
                 \/ c.pc = "ifree" /\ i = c.puts[1]
-----------------------------------------------------------------------------
(* How the steps change a call *)

SameUse(c, d) == /\ d.op = c.op /\ d.r = c.r /\ d.ip = c.ip /\ d.dp = c.dp /\ d.lp = c.lp
                 /\ d.k = c.k /\ d.mode = c.mode

LEMMA ThenNone ==
  ASSUME NEW c, IsCall(c), NEW l \in Labels
  PROVE  LET d == Then(c, <<>>, l)
         IN IsCall(d) /\ SameUse(c, d) /\ Label(d) = l /\ d.pc = l
            /\ Put1(d) = 0 /\ Put2(d) = 0 /\ PutsOk(d)
BY DEF IsCall, CallFields, SameUse, Then, Label, Putting, Labels, IpLabels, NameLabels,
       Put1, Put2, PutsOk

LEMMA ThenOne ==
  ASSUME NEW c, IsCall(c), NEW a, NEW l \in Labels
  PROVE  LET d == Then(c, <<a>>, l)
         IN IsCall(d) /\ SameUse(c, d) /\ Label(d) = l /\ d.pc = "iput"
            /\ Put1(d) = a /\ Put2(d) = 0 /\ PutsOk(d)
<1> DEFINE d == Then(c, <<a>>, l)
<1>1. IsCall(d) /\ SameUse(c, d) /\ d.next = l /\ d.pc = "iput" /\ d.puts = <<a>>
  BY DEF IsCall, CallFields, SameUse, Then
<1>2. Len(<<a>>) = 1 /\ <<a>>[1] = a
  OBVIOUS
<1> HIDE DEF d
<1>3. Label(d) = l /\ Put1(d) = a /\ Put2(d) = 0 /\ PutsOk(d)
  BY <1>1, <1>2 DEF Label, Putting, Put1, Put2, PutsOk
<1> QED BY <1>1, <1>3 DEF d

LEMMA ThenTwo ==
  ASSUME NEW c, IsCall(c), NEW a, NEW b, NEW l \in Labels
  PROVE  LET d == Then(c, <<a, b>>, l)
         IN IsCall(d) /\ SameUse(c, d) /\ Label(d) = l /\ d.pc = "iput"
            /\ Put1(d) = a /\ Put2(d) = b /\ PutsOk(d)
BY DEF IsCall, CallFields, SameUse, Then, Label, Putting, Labels, IpLabels, NameLabels,
       Put1, Put2, PutsOk

LEMMA Goes ==
  ASSUME NEW c, IsCall(c), NEW l \in Labels
  PROVE  LET d == [c EXCEPT !.pc = l]
         IN IsCall(d) /\ SameUse(c, d) /\ Label(d) = l /\ d.pc = l
            /\ Put1(d) = 0 /\ Put2(d) = 0 /\ PutsOk(d)
BY DEF IsCall, CallFields, SameUse, Label, Putting, Labels, IpLabels, NameLabels,
       Put1, Put2, PutsOk

LEMMA Failed ==
  ASSUME NEW c, IsCall(c)
  PROVE  LET d == Fails(c)
         IN IsCall(d) /\ d.r = -1 /\ d.op = c.op /\ d.ip = c.ip /\ d.dp = c.dp /\ d.lp = c.lp
            /\ d.k = c.k /\ d.mode = c.mode /\ d.pc = c.pc /\ d.puts = c.puts /\ d.next = c.next
BY DEF IsCall, CallFields, Fails
-----------------------------------------------------------------------------
(* The inode table *)

Entry1 == [ref : Int, valid : BOOLEAN, holder : Proc \cup {None}]
TableOk(t) == t \in [Inum -> Entry1]

LEMMA RefTable ==
  ASSUME NEW t, TableOk(t), NEW j, NEW n \in Int
  PROVE  LET u == Ref(t, j, n)
         IN TableOk(u) /\ \A i \in Inum : /\ u[i].ref = t[i].ref + (IF i = j THEN n ELSE 0)
                                          /\ u[i].holder = t[i].holder
<1> DEFINE u == Ref(t, j, n)
<1>1. ASSUME NEW i \in Inum
      PROVE  /\ u[i] \in Entry1 /\ u[i].holder = t[i].holder
             /\ u[i].ref = t[i].ref + (IF i = j THEN n ELSE 0)
  <2>1. CASE i = j
    BY <2>1 DEF TableOk, Entry1, Ref
  <2>2. CASE i # j
    <3>1. u[i] = t[i] /\ t[i] \in Entry1
      BY <2>2 DEF TableOk, Ref
    <3> QED BY <2>2, <3>1 DEF Entry1
  <2> QED BY <2>1, <2>2
<1>2. u = [i \in Inum |-> u[i]]
  BY DEF TableOk, Ref
<1> QED BY <1>1, <1>2 DEF TableOk

LEMMA VisitTable ==
  ASSUME NEW t, TableOk(t), NEW j
  PROVE  LET u == Visit(t, j)
         IN TableOk(u) /\ \A i \in Inum : u[i].ref = t[i].ref /\ u[i].holder = t[i].holder
BY DEF TableOk, Entry1, Visit

LEMMA HeldTable ==
  ASSUME NEW t, TableOk(t), NEW j, NEW p \in Proc
  PROVE  LET u == Held(t, j, p)
         IN TableOk(u) /\ \A i \in Inum : /\ u[i].ref = t[i].ref
                                          /\ u[i].holder = IF i = j THEN p ELSE t[i].holder
BY DEF TableOk, Entry1, Held

LEMMA UnlockTable ==
  ASSUME NEW t, TableOk(t), NEW j
  PROVE  LET u == iunlock(t, j)
         IN TableOk(u) /\ \A i \in Inum : /\ u[i].ref = t[i].ref
                                          /\ u[i].holder = IF i = j THEN None ELSE t[i].holder
BY DEF TableOk, Entry1, iunlock

Invalid(t, j) == [t EXCEPT ![j].valid = FALSE]
LEMMA InvalidTable ==
  ASSUME NEW t, TableOk(t), NEW j
  PROVE  LET u == Invalid(t, j)
         IN TableOk(u) /\ \A i \in Inum : u[i].ref = t[i].ref /\ u[i].holder = t[i].holder
BY DEF TableOk, Entry1, Invalid
-----------------------------------------------------------------------------
(* What a step of one process has to keep *)

\* The files of the file table t that refer to inode i.
FilesOf(t, i) == {f \in File : t[f].type \in {"INODE", "DEVICE"} /\ t[f].ip = i}
RefCount(i) ==
  Cardinality(FilesOf(file, i))
  + Cnt([q \in Proc |-> CwdAt(Label(call[q]), call[q], cwd[q])], i)
  + Cnt([q \in Proc |-> IpAt(Label(call[q]), call[q])], i)
  + Cnt([q \in Proc |-> DpAt(Label(call[q]), call[q])], i)
  + Cnt([q \in Proc |-> LpAt(Label(call[q]), call[q])], i)
  + Cnt([q \in Proc |-> Put1(call[q])], i)
  + Cnt([q \in Proc |-> Put2(call[q])], i)

RefInv  == \A i \in Inum : itable[i].ref = RefCount(i)
CallInv == \A p \in Proc : IsCall(call[p]) /\ CallOk(call[p])
LockInv == \A i \in Inum : itable[i].holder # None =>
             itable[i].holder \in Proc /\ Locking(call[itable[i].holder], i)

\* The holder of i's lock after a step of p to the call d.
HolderOk(p, d, i) == itable'[i].holder # None =>
  \/ itable'[i].holder = p /\ Locking(d, i)
  \/ itable'[i].holder = itable[i].holder /\ itable[i].holder # p

\* A step of p in which the files give up a reference to y and get one to z.
Legal(p, y, z) ==
  /\ call' = [call EXCEPT ![p] = call'[p]] /\ cwd' = [cwd EXCEPT ![p] = cwd'[p]]
  /\ IsCall(call'[p]) /\ CallOk(call'[p]) /\ TableOk(itable')
  /\ \A i \in Inum : itable'[i].ref = itable[i].ref + Hit(z, i) - Hit(y, i)
                       + Uses(call'[p], cwd'[p], i) - Uses(call[p], cwd[p], i)
  /\ \A i \in Inum : HolderOk(p, call'[p], i)

\* The files give up a reference to y and get one to z.
FilesMore(y, z) ==
  \A i \in Inum : Cardinality(FilesOf(file', i)) = Cardinality(FilesOf(file, i)) + Hit(z, i) - Hit(y, i)

FsShape == /\ TableOk(itable)
           /\ call = [p \in Proc |-> call[p]] /\ cwd = [p \in Proc |-> cwd[p]]

LEMMA RefStep ==
  ASSUME FsShape, RefInv, NEW p \in Proc, NEW y, NEW z, Legal(p, y, z),
         FilesMore(y, z), \A i \in Inum : Cardinality(FilesOf(file, i)) \in Nat
  PROVE  RefInv'
<1> SUFFICES ASSUME NEW i \in Inum PROVE (itable[i].ref = RefCount(i))'
  BY DEF RefInv
<1>1. \A q \in Proc \ {p} : call'[q] = call[q] /\ cwd'[q] = cwd[q]
  BY DEF FsShape, Legal
<1> DEFINE g1 == [q \in Proc |-> CwdAt(Label(call[q]), call[q], cwd[q])]
           g2 == [q \in Proc |-> IpAt(Label(call[q]), call[q])]
           g3 == [q \in Proc |-> DpAt(Label(call[q]), call[q])]
           g4 == [q \in Proc |-> LpAt(Label(call[q]), call[q])]
           g5 == [q \in Proc |-> Put1(call[q])]
           g6 == [q \in Proc |-> Put2(call[q])]
<1>2. Cnt(g1, i) \in Nat /\ Cnt(g1', i) = Cnt(g1, i) - Hit(g1[p], i) + Hit(g1'[p], i)
  BY <1>1, CntMoved
<1>3. Cnt(g2, i) \in Nat /\ Cnt(g2', i) = Cnt(g2, i) - Hit(g2[p], i) + Hit(g2'[p], i)
  BY <1>1, CntMoved
<1>4. Cnt(g3, i) \in Nat /\ Cnt(g3', i) = Cnt(g3, i) - Hit(g3[p], i) + Hit(g3'[p], i)
  BY <1>1, CntMoved
<1>5. Cnt(g4, i) \in Nat /\ Cnt(g4', i) = Cnt(g4, i) - Hit(g4[p], i) + Hit(g4'[p], i)
  BY <1>1, CntMoved
<1>6. Cnt(g5, i) \in Nat /\ Cnt(g5', i) = Cnt(g5, i) - Hit(g5[p], i) + Hit(g5'[p], i)
  BY <1>1, CntMoved
<1>7. Cnt(g6, i) \in Nat /\ Cnt(g6', i) = Cnt(g6, i) - Hit(g6[p], i) + Hit(g6'[p], i)
  BY <1>1, CntMoved
<1>8. Uses(call[p], cwd[p], i) = Hit(g1[p], i) + Hit(g2[p], i) + Hit(g3[p], i) + Hit(g4[p], i)
                                 + Hit(g5[p], i) + Hit(g6[p], i)
  BY DEF Uses, LabelUses
<1>9. Uses(call'[p], cwd'[p], i) = Hit(g1'[p], i) + Hit(g2'[p], i) + Hit(g3'[p], i)
                                   + Hit(g4'[p], i) + Hit(g5'[p], i) + Hit(g6'[p], i)
  BY DEF Uses, LabelUses
<1>10. RefCount(i) = Cardinality(FilesOf(file, i)) + Cnt(g1, i) + Cnt(g2, i) + Cnt(g3, i)
                     + Cnt(g4, i) + Cnt(g5, i) + Cnt(g6, i)
  BY DEF RefCount
<1>11. RefCount(i)' = Cardinality(FilesOf(file', i)) + Cnt(g1', i) + Cnt(g2', i) + Cnt(g3', i)
                      + Cnt(g4', i) + Cnt(g5', i) + Cnt(g6', i)
  BY DEF RefCount
<1>12. itable'[i].ref = itable[i].ref + Hit(z, i) - Hit(y, i)
                       + Uses(call'[p], cwd'[p], i) - Uses(call[p], cwd[p], i)
  BY DEF Legal
<1>13. itable[i].ref = RefCount(i)
  BY DEF RefInv
<1>14. Cardinality(FilesOf(file', i)) = Cardinality(FilesOf(file, i)) + Hit(z, i) - Hit(y, i)
       /\ Cardinality(FilesOf(file, i)) \in Nat
  BY DEF FilesMore
<1>15. \A x : Hit(x, i) \in {0, 1}
  BY DEF Hit
<1> HIDE DEF g1, g2, g3, g4, g5, g6
<1> QED BY ONLY SMTT(30), <1>2, <1>3, <1>4, <1>5, <1>6, <1>7, <1>8, <1>9, <1>10, <1>11, <1>12, <1>13,
                <1>14, <1>15

LEMMA CallStep ==
  ASSUME FsShape, CallInv, NEW p \in Proc, NEW y, NEW z, Legal(p, y, z)
  PROVE  CallInv'
BY DEF FsShape, CallInv, Legal

LEMMA LockStep ==
  ASSUME FsShape, LockInv, NEW p \in Proc, NEW y, NEW z, Legal(p, y, z)
  PROVE  LockInv'
BY DEF FsShape, LockInv, Legal, HolderOk
-----------------------------------------------------------------------------
(* The steps, one by one *)

LEMMA InumZero == 0 \notin Inum /\ ROOTINO \in Inum /\ \A i \in Inum : Hit(0, i) = 0
BY FsSizes DEF Inum, Hit, ROOTINO

LEMMA StepTo ==
  ASSUME FsShape, NEW p \in Proc, NEW d, Go(p, d), cwd' = cwd,
         IsCall(d), CallOk(d), TableOk(itable'),
         \A i \in Inum : itable'[i].ref = itable[i].ref + Uses(d, cwd[p], i)
                                          - Uses(call[p], cwd[p], i),
         \A i \in Inum : HolderOk(p, d, i)
  PROVE  Legal(p, 0, 0)
<1>1. call' = [call EXCEPT ![p] = d] /\ call'[p] = d
  BY DEF Go, FsShape
<1>2. cwd' = [cwd EXCEPT ![p] = cwd'[p]]
  BY DEF FsShape
<1>3. \A i \in Inum : Hit(0, i) = 0
  BY InumZero
<1>4. \A i \in Inum : Uses(d, cwd[p], i) \in Int /\ Uses(call[p], cwd[p], i) \in Int
  BY DEF Uses, LabelUses, Hit
<1>5. \A i \in Inum : itable[i].ref \in Int
  BY DEF FsShape, TableOk, Entry1
<1>6. \A i \in Inum : itable'[i].ref = itable[i].ref + Hit(0, i) - Hit(0, i)
                       + Uses(call'[p], cwd'[p], i) - Uses(call[p], cwd[p], i)
  BY <1>1, <1>3, <1>4, <1>5
<1> QED BY <1>1, <1>2, <1>6 DEF Legal

\* The same when a reference passes from a file to the call or back.
LEMMA StepToFile ==
  ASSUME FsShape, NEW p \in Proc, NEW d, Go(p, d), cwd' = cwd, NEW y, NEW z,
         IsCall(d), CallOk(d), TableOk(itable'),
         \A i \in Inum : itable'[i].ref = itable[i].ref + Hit(z, i) - Hit(y, i)
                                          + Uses(d, cwd[p], i) - Uses(call[p], cwd[p], i),
         \A i \in Inum : HolderOk(p, d, i)
  PROVE  Legal(p, y, z)
<1>1. call' = [call EXCEPT ![p] = d] /\ call'[p] = d
  BY DEF Go, FsShape
<1>2. cwd' = [cwd EXCEPT ![p] = cwd'[p]]
  BY DEF FsShape
<1> QED BY <1>1, <1>2 DEF Legal

LEMMA SameUses ==
  ASSUME NEW c, NEW d, SameUse(c, d), NEW l
  PROVE  /\ \A w, i : LabelUses(l, d, w, i) = LabelUses(l, c, w, i)
         /\ Fits(l, d) <=> Fits(l, c)
<1>1. \A w, i : LabelUses(l, d, w, i) = LabelUses(l, c, w, i)
  BY DEF SameUse, LabelUses, CwdAt, IpAt, DpAt, LpAt, ChdirDone
<1>2. Fits(l, d) <=> Fits(l, c)
  BY DEF SameUse, Fits
<1> QED BY <1>1, <1>2

LEMMA Tails ==
  /\ \A a : Tail(<<a>>) = <<>> /\ Len(<<a>>) = 1
  /\ \A a, b : Tail(<<a, b>>) = <<b>> /\ Len(<<a, b>>) = 2
<1>1. \A a : Tail(<<a>>) = <<>> /\ Len(<<a>>) = 1
  OBVIOUS
<1>2. \A a, b : Tail(<<a, b>>) = <<b>> /\ Len(<<a, b>>) = 2
  OBVIOUS
<1> QED BY <1>1, <1>2

\* iput and idrop drop the first reference of those to put.
Dropped(c) == LET e == [c EXCEPT !.puts = Tail(@)] IN Then(e, e.puts, c.next)
LEMMA DropOne ==
  ASSUME NEW c, IsCall(c), CallOk(c), c.pc \in Putting, NEW w
  PROVE  LET d == Dropped(c)
         IN /\ IsCall(d) /\ CallOk(d) /\ d.pc # "ifree"
            /\ \A i \in Inum : Uses(d, w, i) = Uses(c, w, i) - Hit(c.puts[1], i)
            /\ \A i : Locking(c, i) => Locking(d, i) \/ (c.pc = "ifree" /\ i = c.puts[1])
<1> DEFINE e == [c EXCEPT !.puts = Tail(@)]
           d == Then(e, e.puts, c.next)
<1>1. IsCall(e) /\ SameUse(c, e) /\ e.next = c.next /\ e.pc = c.pc /\ e.puts = Tail(c.puts)
  BY DEF IsCall, CallFields, SameUse
<1>2. Label(c) = c.next /\ c.next \in Labels /\ Fits(c.next, c)
  BY DEF CallOk, Label, Fits
<1> HIDE DEF e
<1>4. /\ IsCall(d) /\ SameUse(e, d) /\ Label(d) = c.next /\ PutsOk(d) /\ d.pc # "ifree"
      /\ Put1(c) = c.puts[1] /\ Put1(d) = Put2(c) /\ Put2(d) = 0
  <2>1. CASE c.puts = <<c.puts[1]>>
    <3>1. e.puts = <<>> /\ Len(c.puts) = 1
      BY <1>1, <2>1, Tails, Zenon
    <3>2. IsCall(d) /\ SameUse(e, d) /\ Label(d) = c.next /\ d.pc = c.next
              /\ Put1(d) = 0 /\ Put2(d) = 0 /\ PutsOk(d)
      BY <1>1, <1>2, <3>1, ThenNone
    <3>3. Put1(c) = c.puts[1] /\ Put2(c) = 0
      BY <3>1 DEF Put1, Put2
    <3> QED BY <3>2, <3>3, <1>2 DEF Labels, IpLabels, NameLabels
  <2>2. CASE c.puts = <<c.puts[1], c.puts[2]>>
    <3>1. e.puts = <<c.puts[2]>> /\ Len(c.puts) = 2
      BY <1>1, <2>2, Tails, ZenonT(60)
    <3>2. IsCall(d) /\ SameUse(e, d) /\ Label(d) = c.next /\ d.pc = "iput"
              /\ Put1(d) = c.puts[2] /\ Put2(d) = 0 /\ PutsOk(d)
      BY <1>1, <1>2, <3>1, ThenOne
    <3>3. Put1(c) = c.puts[1] /\ Put2(c) = c.puts[2]
      BY <3>1 DEF Put1, Put2
    <3> QED BY <3>2, <3>3
  <2> QED BY <2>1, <2>2 DEF CallOk, PutsOk
<1> HIDE DEF d
<1>5. SameUse(c, d)
  BY <1>1, <1>4 DEF SameUse
<1>6. CallOk(d)
  BY <1>2, <1>4, <1>5, SameUses DEF CallOk
<1>7. \A i \in Inum : Uses(d, w, i) = Uses(c, w, i) - Hit(c.puts[1], i)
  <2>1. ASSUME NEW i \in Inum PROVE Uses(d, w, i) = Uses(c, w, i) - Hit(c.puts[1], i)
    <3>1. LabelUses(c.next, d, w, i) = LabelUses(c.next, c, w, i) /\ Hit(0, i) = 0
      BY <1>5, SameUses, InumZero
    <3>2. LabelUses(c.next, c, w, i) \in Int /\ Hit(c.puts[1], i) \in Int /\ Hit(Put2(c), i) \in Int
      BY DEF LabelUses, Hit
    <3> QED BY <1>2, <1>4, <3>1, <3>2 DEF Uses
  <2> QED BY <2>1
<1>8. \A i : Locking(c, i) => Locking(d, i) \/ (c.pc = "ifree" /\ i = c.puts[1])
  BY <1>2, <1>4, <1>5 DEF Locking, SameUse
<1> QED BY <1>4, <1>6, <1>7, <1>8 DEF d, e, Dropped

LEMMA HolderKept ==
  ASSUME LockInv, NEW p \in Proc, NEW d, NEW i \in Inum,
         itable'[i].holder = itable[i].holder, Locking(call[p], i) => Locking(d, i)
  PROVE  HolderOk(p, d, i)
BY DEF LockInv, HolderOk

LEMMA iputLegal ==
  ASSUME FsShape, CallInv, LockInv, NEW p \in Proc, iput(p)
  PROVE  Legal(p, 0, 0)
<1> DEFINE c == call[p]
           j == Head(c.puts)
<1>1. IsCall(c) /\ CallOk(c) /\ c.pc = "iput" /\ cwd' = cwd /\ TableOk(itable)
  BY DEF CallInv, iput, At, Pc, FsShape
<1>2. j = c.puts[1]
  BY <1>1 DEF CallOk, PutsOk, Putting
<1>3. CASE LastUse(j)
  <2> DEFINE d == [c EXCEPT !.pc = "ifree"]
  <2>1. Go(p, d) /\ itable' = Held(itable, j, p) /\ itable[j].holder = None
    BY <1>3 DEF iput
  <2>2. IsCall(d) /\ SameUse(c, d) /\ Label(d) = Label(c) /\ d.pc = "ifree" /\ d.puts = c.puts
        /\ d.next = c.next
    BY <1>1 DEF IsCall, CallFields, SameUse, Label, Putting
  <2> HIDE DEF d
  <2>3. CallOk(d)
    BY <1>1, <2>2, SameUses DEF CallOk, PutsOk, Putting
  <2>4. TableOk(itable') /\ \A i \in Inum : /\ itable'[i].ref = itable[i].ref
                              /\ itable'[i].holder = IF i = j THEN p ELSE itable[i].holder
    BY <1>1, <2>1, HeldTable
  <2>5. ASSUME NEW i \in Inum
        PROVE  itable'[i].ref = itable[i].ref + Uses(d, cwd[p], i) - Uses(c, cwd[p], i)
    <3>1. Uses(d, cwd[p], i) = Uses(c, cwd[p], i) /\ Uses(c, cwd[p], i) \in Int
      <4>1. Put1(d) = Put1(c) /\ Put2(d) = Put2(c)
        BY <1>1, <2>2 DEF Put1, Put2, Putting
      <4> QED BY <2>2, <4>1, SameUses DEF Uses, LabelUses, Hit
    <3> QED BY <3>1, <2>4, <1>1 DEF TableOk, Entry1
  <2>6. ASSUME NEW i \in Inum PROVE HolderOk(p, d, i)
    <3>1. CASE i = j
      BY <1>2, <2>2, <2>4, <3>1 DEF HolderOk, Locking
    <3>2. CASE i # j
      <4>1. Locking(c, i) => Locking(d, i)
        BY <1>1, <2>2 DEF Locking, SameUse
      <4> QED BY <2>4, <3>2, <4>1, HolderKept
    <3> QED BY <3>1, <3>2
  <2> QED BY <1>1, <2>1, <2>2, <2>3, <2>4, <2>5, <2>6, StepTo
<1>4. CASE ~LastUse(j)
  <2> DEFINE d == Dropped(c)
  <2>1. Go(p, d) /\ itable' = Ref(itable, j, -1)
    BY <1>4 DEF iput, Dropped
  <2>2. /\ IsCall(d) /\ CallOk(d)
        /\ \A i \in Inum : Uses(d, cwd[p], i) = Uses(c, cwd[p], i) - Hit(j, i)
        /\ \A i : Locking(c, i) => Locking(d, i)
    BY <1>1, <1>2, DropOne DEF Putting
  <2> HIDE DEF d
  <2>3. TableOk(itable') /\ \A i \in Inum : /\ itable'[i].ref = itable[i].ref + (IF i = j THEN -1 ELSE 0)
                              /\ itable'[i].holder = itable[i].holder
    BY <1>1, <2>1, RefTable
  <2>4. ASSUME NEW i \in Inum
        PROVE  itable'[i].ref = itable[i].ref + Uses(d, cwd[p], i) - Uses(c, cwd[p], i)
    <3>1. Uses(c, cwd[p], i) \in Int
      BY DEF Uses, LabelUses, Hit
    <3> QED BY <2>2, <2>3, <3>1, <1>1 DEF Hit, TableOk, Entry1
  <2>5. ASSUME NEW i \in Inum PROVE HolderOk(p, d, i)
    BY <2>2, <2>3, HolderKept
  <2> QED BY <1>1, <2>1, <2>2, <2>3, <2>4, <2>5, StepTo
<1> QED BY <1>3, <1>4

LEMMA ifreeLegal ==
  ASSUME FsShape, CallInv, LockInv, NEW p \in Proc, ifree(p)
  PROVE  Legal(p, 0, 0)
<1> DEFINE c == call[p]
           j == Head(c.puts)
           d == [c EXCEPT !.pc = "idrop"]
           t == Invalid(itable, j)
<1>1. /\ IsCall(c) /\ CallOk(c) /\ c.pc = "ifree" /\ cwd' = cwd /\ TableOk(itable)
      /\ itable' = iunlock(t, j) /\ Go(p, d)
  BY DEF CallInv, ifree, At, Pc, FsShape, Invalid
<1>2. j = c.puts[1]
  BY <1>1 DEF CallOk, PutsOk, Putting
<1>3. IsCall(d) /\ SameUse(c, d) /\ Label(d) = Label(c) /\ d.pc = "idrop" /\ d.puts = c.puts
      /\ d.next = c.next
  BY <1>1 DEF IsCall, CallFields, SameUse, Label, Putting
<1>4. TableOk(t) /\ \A i \in Inum : t[i].ref = itable[i].ref /\ t[i].holder = itable[i].holder
  BY <1>1, InvalidTable
<1> HIDE DEF d, t
<1>5. TableOk(itable') /\ \A i \in Inum : /\ itable'[i].ref = t[i].ref
                            /\ itable'[i].holder = IF i = j THEN None ELSE t[i].holder
  BY <1>1, <1>4, UnlockTable
<1>6. CallOk(d)
  BY <1>1, <1>3, SameUses DEF CallOk, PutsOk, Putting
<1>7. ASSUME NEW i \in Inum
      PROVE  itable'[i].ref = itable[i].ref + Uses(d, cwd[p], i) - Uses(c, cwd[p], i)
  <2>1. Uses(d, cwd[p], i) = Uses(c, cwd[p], i) /\ Uses(c, cwd[p], i) \in Int
    <3>1. Put1(d) = Put1(c) /\ Put2(d) = Put2(c)
      BY <1>1, <1>3 DEF Put1, Put2, Putting
    <3> QED BY <1>3, <3>1, SameUses DEF Uses, LabelUses, Hit
  <2> QED BY <2>1, <1>4, <1>5, <1>1 DEF TableOk, Entry1
<1>8. ASSUME NEW i \in Inum PROVE HolderOk(p, d, i)
  <2>1. CASE i = j
    BY <1>5, <2>1 DEF HolderOk
  <2>2. CASE i # j
    <3>1. Locking(c, i) => Locking(d, i)
      BY <1>1, <1>2, <1>3, <2>2 DEF Locking, SameUse
    <3> QED BY <1>4, <1>5, <2>2, <3>1, HolderKept
  <2> QED BY <2>1, <2>2
<1> QED BY <1>1, <1>3, <1>5, <1>6, <1>7, <1>8, StepTo

LEMMA idropLegal ==
  ASSUME FsShape, CallInv, LockInv, NEW p \in Proc, idrop(p)
  PROVE  Legal(p, 0, 0)
<1> DEFINE c == call[p]
           j == Head(c.puts)
           d == Dropped(c)
<1>1. /\ IsCall(c) /\ CallOk(c) /\ c.pc = "idrop" /\ cwd' = cwd /\ TableOk(itable)
      /\ itable' = Ref(itable, j, -1) /\ Go(p, d)
  BY DEF CallInv, idrop, At, Pc, FsShape, Dropped
<1>2. j = c.puts[1]
  BY <1>1 DEF CallOk, PutsOk, Putting
<1>3. /\ IsCall(d) /\ CallOk(d)
      /\ \A i \in Inum : Uses(d, cwd[p], i) = Uses(c, cwd[p], i) - Hit(j, i)
      /\ \A i : Locking(c, i) => Locking(d, i)
  BY <1>1, <1>2, DropOne DEF Putting
<1> HIDE DEF d
<1>4. TableOk(itable') /\ \A i \in Inum : /\ itable'[i].ref = itable[i].ref + (IF i = j THEN -1 ELSE 0)
                            /\ itable'[i].holder = itable[i].holder
  BY <1>1, RefTable
<1>5. ASSUME NEW i \in Inum
      PROVE  itable'[i].ref = itable[i].ref + Uses(d, cwd[p], i) - Uses(c, cwd[p], i)
  <2>1. Uses(c, cwd[p], i) \in Int
    BY DEF Uses, LabelUses, Hit
  <2> QED BY <1>3, <1>4, <2>1, <1>1 DEF Hit, TableOk, Entry1
<1>6. ASSUME NEW i \in Inum PROVE HolderOk(p, d, i)
  BY <1>3, <1>4, HolderKept
<1> QED BY <1>1, <1>3, <1>4, <1>5, <1>6, StepTo

\* A call that does nothing but hold what its label says.
LEMMA UsesNow ==
  ASSUME NEW c, c.pc \notin Putting, NEW w, NEW i \in Inum
  PROVE  Label(c) = c.pc /\ Uses(c, w, i) = LabelUses(c.pc, c, w, i)
<1>1. Label(c) = c.pc /\ Put1(c) = 0 /\ Put2(c) = 0 /\ LabelUses(c.pc, c, w, i) \in Int
  BY DEF Label, Put1, Put2, LabelUses, Hit
<1> QED BY <1>1, InumZero DEF Uses

LEMMA NamexLegal ==
  ASSUME FsShape, CallInv, LockInv, NEW p \in Proc, Pc(p) = "begin", cwd' = cwd,
         NEW path, NEW par, NEW k \in {"link", "open", "chdir", "exec", "unlink", "create"},
         IF k = "create" THEN call[p].op \in Creators ELSE call[p].op = k,
         Namex(p, call[p], path, par, k)
  PROVE  Legal(p, 0, 0)
<1> DEFINE c == call[p]
           j == StartAt(p, path)
           e == [c EXCEPT !.path = Elements(path), !.par = par, !.k = k, !.ip = j]
           g == [e EXCEPT !.ip = 0]
<1>1. IsCall(c) /\ CallOk(c) /\ c.pc = "begin" /\ TableOk(itable) /\ itable' = Ref(itable, j, 1)
  BY DEF CallInv, Pc, FsShape, Namex
<1>2. IsCall(e) /\ e.op = c.op /\ e.r = c.r /\ e.ip = j /\ e.k = k /\ e.mode = c.mode
  BY <1>1 DEF IsCall, CallFields
<1>3. IsCall(g) /\ g.op = c.op /\ g.r = c.r /\ g.ip = 0 /\ g.k = k /\ g.mode = c.mode
  BY ZenonT(60), <1>2 DEF IsCall, CallFields
<1>4. Go(p, [e EXCEPT !.pc = "namex"]) \/ Go(p, [e EXCEPT !.pc = k]) \/ Go(p, Then(g, <<j>>, k))
  BY DEF Namex
<1> HIDE DEF e, g, j
<1>5. TableOk(itable') /\ \A i \in Inum : /\ itable'[i].ref = itable[i].ref + (IF i = j THEN 1 ELSE 0)
                            /\ itable'[i].holder = itable[i].holder
  BY <1>1, RefTable
<1>6. /\ Label(c) = "begin" /\ \A i \in Inum : Uses(c, cwd[p], i) = Hit(cwd[p], i)
      /\ c.op \notin {"close", "exitcwd", "reclaim"} /\ k \in Labels
      /\ c.op = "chdir" => c.r = 0
  <2>1. Label(c) = "begin" /\ Fits("begin", c) /\ c.op \notin {"close", "exitcwd", "reclaim"} /\ k \in Labels
    BY <1>1 DEF CallOk, Label, Putting, Creators, Labels, IpLabels, NameLabels
  <2>2. ASSUME NEW i \in Inum PROVE Uses(c, cwd[p], i) = Hit(cwd[p], i)
    <3>1. CwdAt("begin", c, cwd[p]) = cwd[p] /\ IpAt("begin", c) = 0 /\ DpAt("begin", c) = 0
          /\ LpAt("begin", c) = 0
      BY <2>1 DEF CwdAt, IpAt, DpAt, LpAt, ChdirDone, IpLabels, NameLabels
    <3> QED BY <1>1, <3>1, UsesNow, InumZero DEF LabelUses, Putting, Hit
  <2> QED BY <2>1, <2>2 DEF Fits
<1>7. ASSUME NEW d, Go(p, d), IsCall(d), CallOk(d),
             \A i \in Inum : Uses(d, cwd[p], i) = Hit(cwd[p], i) + Hit(j, i)
      PROVE  Legal(p, 0, 0)
  <2>1. ASSUME NEW i \in Inum PROVE HolderOk(p, d, i)
    <3>1. ~Locking(c, i)
      BY <1>1, <1>6 DEF Locking
    <3> QED BY <1>5, <3>1, HolderKept
  <2>2. ASSUME NEW i \in Inum
        PROVE  itable'[i].ref = itable[i].ref + Uses(d, cwd[p], i) - Uses(c, cwd[p], i)
    BY <1>1, <1>5, <1>6, <1>7 DEF Hit, TableOk, Entry1
  <2> QED BY <1>5, <1>7, <2>1, <2>2, StepTo
<1>8. CASE Go(p, [e EXCEPT !.pc = "namex"])
  <2> DEFINE d == [e EXCEPT !.pc = "namex"]
  <2>1. IsCall(d) /\ SameUse(e, d) /\ Label(d) = "namex" /\ d.pc = "namex" /\ PutsOk(d)
    BY <1>2, Goes DEF Labels, IpLabels
  <2> HIDE DEF d
  <2>2. CallOk(d)
    BY <1>2, <1>6, <2>1 DEF CallOk, Fits, SameUse, Labels, IpLabels, NameLabels, Creators
  <2>3. ASSUME NEW i \in Inum PROVE Uses(d, cwd[p], i) = Hit(cwd[p], i) + Hit(j, i)
    <3>1. CwdAt("namex", d, cwd[p]) = cwd[p] /\ IpAt("namex", d) = j /\ DpAt("namex", d) = 0
          /\ LpAt("namex", d) = 0
      BY <1>2, <1>6, <2>1 DEF SameUse, CwdAt, IpAt, DpAt, LpAt, ChdirDone, IpLabels, NameLabels
    <3> QED BY <2>1, <3>1, UsesNow, InumZero DEF LabelUses, Putting, Hit
  <2> QED BY <1>7, <1>8, <2>1, <2>2, <2>3 DEF d
<1>9. CASE Go(p, [e EXCEPT !.pc = k])
  <2> DEFINE d == [e EXCEPT !.pc = k]
  <2>1. IsCall(d) /\ SameUse(e, d) /\ Label(d) = k /\ d.pc = k /\ PutsOk(d)
    BY <1>2, <1>6, Goes
  <2> HIDE DEF d
  <2>2. CallOk(d)
    BY <1>2, <1>6, <2>1 DEF CallOk, Fits, SameUse, Labels, IpLabels, NameLabels, Creators
  <2>3. ASSUME NEW i \in Inum PROVE Uses(d, cwd[p], i) = Hit(cwd[p], i) + Hit(j, i)
    <3>1. CwdAt(k, d, cwd[p]) = cwd[p] /\ IpAt(k, d) = j /\ DpAt(k, d) = 0
          /\ LpAt(k, d) = 0
      BY <1>2, <1>6, <2>1 DEF SameUse, CwdAt, IpAt, DpAt, LpAt, ChdirDone, IpLabels, NameLabels
    <3> QED BY <2>1, <3>1, UsesNow, InumZero DEF LabelUses, Putting, Hit
  <2> QED BY <1>7, <1>9, <2>1, <2>2, <2>3 DEF d
<1>10. CASE Go(p, Then(g, <<j>>, k))
  <2> DEFINE d == Then(g, <<j>>, k)
  <2>1. IsCall(d) /\ SameUse(g, d) /\ Label(d) = k /\ Put1(d) = j /\ Put2(d) = 0 /\ PutsOk(d)
    BY <1>3, <1>6, ThenOne
  <2> HIDE DEF d
  <2>2. CallOk(d)
    BY <1>3, <1>6, <2>1 DEF CallOk, Fits, SameUse, Labels, IpLabels, NameLabels, Creators
  <2>3. ASSUME NEW i \in Inum PROVE Uses(d, cwd[p], i) = Hit(cwd[p], i) + Hit(j, i)
    <3>1. CwdAt(k, d, cwd[p]) = cwd[p] /\ IpAt(k, d) = 0 /\ DpAt(k, d) = 0
          /\ LpAt(k, d) = 0
      BY <1>3, <1>6, <2>1 DEF SameUse, CwdAt, IpAt, DpAt, LpAt, ChdirDone, IpLabels, NameLabels
    <3> QED BY <2>1, <3>1, InumZero DEF Uses, LabelUses, Hit
  <2> QED BY <1>7, <1>10, <2>1, <2>2, <2>3 DEF d
<1> QED BY <1>4, <1>8, <1>9, <1>10

LEMMA namexLegal ==
  ASSUME FsShape, CallInv, LockInv, NEW p \in Proc, namex(p)
  PROVE  Legal(p, 0, 0)
<1> DEFINE c == call[p]
           nm == Cut(Head(c.path))
           rest == Tail(c.path)
           nx == IF fs.din[c.ip].type # "DIR" THEN 0 ELSE dirlookup(fs, c.ip, nm)
<1>1. /\ IsCall(c) /\ CallOk(c) /\ c.pc = "namex" /\ Label(c) = "namex" /\ TableOk(itable)
      /\ Fits("namex", c)
  BY DEF CallInv, namex, At, Pc, FsShape, CallOk, Label, Putting
<1>2. \A i \in Inum : Uses(c, cwd[p], i) = Hit(cwd[p], i) + Hit(c.ip, i) + Hit(LpAt("namex", c), i)
  <2>1. /\ CwdAt("namex", c, cwd[p]) = cwd[p] /\ IpAt("namex", c) = c.ip
        /\ DpAt("namex", c) = 0 /\ LpAt("namex", c) = LpAt("namex", c)
    BY <1>1 DEF Fits, Creators, CwdAt, IpAt, DpAt, LpAt, ChdirDone, IpLabels, NameLabels
  <2> QED BY <1>1, <2>1, UsesNow, InumZero DEF LabelUses, Putting, Hit
<1>3. \A i \in Inum : itable[i].holder = p => FALSE
  BY <1>1, FsConstants DEF LockInv, Locking, None
<1>4. CASE (fs.din[c.ip].type = "DIR" /\ c.par /\ rest = <<>>)
  <2> DEFINE e == [c EXCEPT !.pc = c.k, !.nm = nm]
             d == e
             t1 == Visit(itable, c.ip)
  <2>1. Go(p, d) /\ itable' = t1 /\ cwd' = cwd
    BY <1>4 DEF namex, Same, UNCH
  <2>2. IsCall(e) /\ e.op = c.op /\ e.r = c.r /\ e.k = c.k /\ e.mode = c.mode /\ e.dp = c.dp /\ e.lp = c.lp /\ e.ip = c.ip /\ e.pc = c.k
    BY <1>1 DEF IsCall, CallFields
  <2>3. IsCall(d) /\ SameUse(e, d) /\ Label(d) = c.k /\ Put1(d) = 0 /\ Put2(d) = 0 /\ PutsOk(d)
        /\ d.pc = c.k
    BY <1>1, <1>2, <1>4, <2>2 DEF SameUse, Label, Putting, Put1, Put2, PutsOk, Fits, NameLabels
  <2> HIDE DEF e, d
  <2>4. CallOk(d)
    BY <1>1, <1>4, <2>2, <2>3 DEF CallOk, Fits, SameUse, Labels, IpLabels, NameLabels, Creators
  <2>5. ASSUME NEW i \in Inum PROVE Uses(d, cwd[p], i) = Hit(cwd[p], i) + Hit(c.ip, i) + Hit(LpAt("namex", c), i)
    <3>1. /\ CwdAt(c.k, d, cwd[p]) = cwd[p] /\ IpAt(c.k, d) = c.ip
          /\ DpAt(c.k, d) = 0 /\ LpAt(c.k, d) = LpAt("namex", c)
      BY <1>1, <1>4, <2>2, <2>3 DEF SameUse, Fits, Creators, CwdAt, IpAt, DpAt, LpAt, ChdirDone, IpLabels, NameLabels
    <3> QED BY <2>3, <3>1, InumZero DEF Uses, LabelUses, Hit
  <2>6. TableOk(t1) /\ \A i \in Inum : t1[i].ref = itable[i].ref /\ t1[i].holder = itable[i].holder
    BY <1>1, VisitTable
  <2> HIDE DEF t1
  <2>7. TableOk(itable') /\ \A i \in Inum : itable'[i].ref \in Int /\ itable[i].ref \in Int
    BY <1>1, <2>1, <2>6 DEF TableOk, Entry1
  <2>8. ASSUME NEW i \in Inum
        PROVE  itable'[i].ref = itable[i].ref + Uses(d, cwd[p], i) - Uses(call[p], cwd[p], i)
    BY <1>2, <1>4, <2>1, <2>5, <2>7, <2>6, InumZero DEF Hit
  <2>9. ASSUME NEW i \in Inum PROVE HolderOk(p, d, i)
    BY <1>1, <1>2, <1>3, <1>4, <2>1, <2>2, <2>3, <2>6 DEF HolderOk, Locking, SameUse
  <2> QED BY <1>1, <2>1, <2>3, <2>4, <2>7, <2>8, <2>9, StepTo
<1>5. CASE ~(fs.din[c.ip].type = "DIR" /\ c.par /\ rest = <<>>) /\ nx = 0
  <2> DEFINE e == [c EXCEPT !.ip = 0]
             d == Then(e, <<c.ip>>, c.k)
             t1 == Visit(itable, c.ip)
  <2>1. Go(p, d) /\ itable' = t1 /\ cwd' = cwd
    BY <1>5 DEF namex, Same, UNCH
  <2>2. IsCall(e) /\ e.op = c.op /\ e.r = c.r /\ e.k = c.k /\ e.mode = c.mode /\ e.dp = c.dp /\ e.lp = c.lp /\ e.ip = 0
    BY <1>1 DEF IsCall, CallFields
  <2> HIDE DEF e
  <2>3. IsCall(d) /\ SameUse(e, d) /\ Label(d) = c.k /\ Put1(d) = c.ip /\ Put2(d) = 0 /\ PutsOk(d)
        /\ d.pc = "iput"
    <3>1. c.k \in Labels
      BY <1>1 DEF Fits, Labels, IpLabels, NameLabels
    <3>2. IsCall(e)
      BY <2>2
    <3> QED BY ONLY <3>1, <3>2, ThenOne
  <2> HIDE DEF e, d
  <2>4. CallOk(d)
    BY <1>1, <1>5, <2>2, <2>3 DEF CallOk, Fits, SameUse, Labels, IpLabels, NameLabels, Creators
  <2>5. ASSUME NEW i \in Inum PROVE Uses(d, cwd[p], i) = Hit(cwd[p], i) + Hit(LpAt("namex", c), i) + Hit(c.ip, i)
    <3>1. /\ CwdAt(c.k, d, cwd[p]) = cwd[p] /\ IpAt(c.k, d) = 0
          /\ DpAt(c.k, d) = 0 /\ LpAt(c.k, d) = LpAt("namex", c)
      BY <1>1, <1>5, <2>2, <2>3 DEF SameUse, Fits, Creators, CwdAt, IpAt, DpAt, LpAt, ChdirDone, IpLabels, NameLabels
    <3> QED BY <2>3, <3>1, InumZero DEF Uses, LabelUses, Hit
  <2>6. TableOk(t1) /\ \A i \in Inum : t1[i].ref = itable[i].ref /\ t1[i].holder = itable[i].holder
    BY <1>1, VisitTable
  <2> HIDE DEF t1
  <2>7. TableOk(itable') /\ \A i \in Inum : itable'[i].ref \in Int /\ itable[i].ref \in Int
    BY <1>1, <2>1, <2>6 DEF TableOk, Entry1
  <2>8. ASSUME NEW i \in Inum
        PROVE  itable'[i].ref = itable[i].ref + Uses(d, cwd[p], i) - Uses(call[p], cwd[p], i)
    BY <1>2, <1>5, <2>1, <2>5, <2>7, <2>6, InumZero DEF Hit
  <2>9. ASSUME NEW i \in Inum PROVE HolderOk(p, d, i)
    BY <1>1, <1>2, <1>3, <1>5, <2>1, <2>2, <2>3, <2>6 DEF HolderOk, Locking, SameUse
  <2> QED BY <1>1, <2>1, <2>3, <2>4, <2>7, <2>8, <2>9, StepTo
<1>6. CASE ~(fs.din[c.ip].type = "DIR" /\ c.par /\ rest = <<>>) /\ nx # 0 /\ rest = <<>>
  <2> DEFINE e == [c EXCEPT !.ip = nx, !.path = rest]
             d == Then(e, <<c.ip>>, c.k)
             t1 == Visit(itable, c.ip)
             t2 == Ref(t1, nx, 1)
  <2>1. Go(p, d) /\ itable' = t2 /\ cwd' = cwd
    BY <1>6 DEF namex, Same, UNCH, NextRef
  <2>2. IsCall(e) /\ e.op = c.op /\ e.r = c.r /\ e.k = c.k /\ e.mode = c.mode /\ e.dp = c.dp /\ e.lp = c.lp /\ e.ip = nx
    BY <1>1 DEF IsCall, CallFields
  <2> HIDE DEF e
  <2>3. IsCall(d) /\ SameUse(e, d) /\ Label(d) = c.k /\ Put1(d) = c.ip /\ Put2(d) = 0 /\ PutsOk(d)
        /\ d.pc = "iput"
    <3>1. c.k \in Labels
      BY <1>1 DEF Fits, Labels, IpLabels, NameLabels
    <3>2. IsCall(e)
      BY <2>2
    <3> QED BY ONLY <3>1, <3>2, ThenOne
  <2> HIDE DEF e, d
  <2>4. CallOk(d)
    BY <1>1, <1>6, <2>2, <2>3 DEF CallOk, Fits, SameUse, Labels, IpLabels, NameLabels, Creators
  <2>5. ASSUME NEW i \in Inum PROVE Uses(d, cwd[p], i) = Hit(cwd[p], i) + Hit(nx, i) + Hit(LpAt("namex", c), i) + Hit(c.ip, i)
    <3>1. /\ CwdAt(c.k, d, cwd[p]) = cwd[p] /\ IpAt(c.k, d) = nx
          /\ DpAt(c.k, d) = 0 /\ LpAt(c.k, d) = LpAt("namex", c)
      BY <1>1, <1>6, <2>2, <2>3 DEF SameUse, Fits, Creators, CwdAt, IpAt, DpAt, LpAt, ChdirDone, IpLabels, NameLabels
    <3> QED BY <2>3, <3>1, InumZero DEF Uses, LabelUses, Hit
  <2>6. TableOk(t1) /\ \A i \in Inum : t1[i].ref = itable[i].ref /\ t1[i].holder = itable[i].holder
    BY <1>1, VisitTable
  <2> HIDE DEF t1
  <2>7. TableOk(t2) /\ \A i \in Inum : /\ t2[i].ref = t1[i].ref + (IF i = nx THEN 1 ELSE 0) /\ t2[i].holder = t1[i].holder
    BY <1>1, <2>6, RefTable
  <2> HIDE DEF t2
  <2>8. TableOk(itable') /\ \A i \in Inum : itable'[i].ref \in Int /\ itable[i].ref \in Int
    BY <1>1, <2>1, <2>6, <2>7 DEF TableOk, Entry1
  <2>9. ASSUME NEW i \in Inum
        PROVE  itable'[i].ref = itable[i].ref + Uses(d, cwd[p], i) - Uses(call[p], cwd[p], i)
    BY <1>2, <1>6, <2>1, <2>5, <2>8, <2>6, <2>7, InumZero DEF Hit
  <2>10. ASSUME NEW i \in Inum PROVE HolderOk(p, d, i)
    BY <1>1, <1>2, <1>3, <1>6, <2>1, <2>2, <2>3, <2>6, <2>7 DEF HolderOk, Locking, SameUse
  <2> QED BY <1>1, <2>1, <2>3, <2>4, <2>8, <2>9, <2>10, StepTo
<1>7. CASE ~(fs.din[c.ip].type = "DIR" /\ c.par /\ rest = <<>>) /\ nx # 0 /\ rest # <<>>
  <2> DEFINE e == [c EXCEPT !.ip = nx, !.path = rest]
             d == Then(e, <<c.ip>>, "namex")
             t1 == Visit(itable, c.ip)
             t2 == Ref(t1, nx, 1)
  <2>1. Go(p, d) /\ itable' = t2 /\ cwd' = cwd
    BY <1>7 DEF namex, Same, UNCH, NextRef
  <2>2. IsCall(e) /\ e.op = c.op /\ e.r = c.r /\ e.k = c.k /\ e.mode = c.mode /\ e.dp = c.dp /\ e.lp = c.lp /\ e.ip = nx
    BY <1>1 DEF IsCall, CallFields
  <2> HIDE DEF e
  <2>3. IsCall(d) /\ SameUse(e, d) /\ Label(d) = "namex" /\ Put1(d) = c.ip /\ Put2(d) = 0 /\ PutsOk(d)
        /\ d.pc = "iput"
    <3>1. "namex" \in Labels
      BY <1>1 DEF Fits, Labels, IpLabels, NameLabels
    <3>2. IsCall(e)
      BY <2>2
    <3> QED BY ONLY <3>1, <3>2, ThenOne
  <2> HIDE DEF e, d
  <2>4. CallOk(d)
    BY <1>1, <1>7, <2>2, <2>3 DEF CallOk, Fits, SameUse, Labels, IpLabels, NameLabels, Creators
  <2>5. ASSUME NEW i \in Inum PROVE Uses(d, cwd[p], i) = Hit(cwd[p], i) + Hit(nx, i) + Hit(LpAt("namex", c), i) + Hit(c.ip, i)
    <3>1. /\ CwdAt("namex", d, cwd[p]) = cwd[p] /\ IpAt("namex", d) = nx
          /\ DpAt("namex", d) = 0 /\ LpAt("namex", d) = LpAt("namex", c)
      BY <1>1, <1>7, <2>2, <2>3 DEF SameUse, Fits, Creators, CwdAt, IpAt, DpAt, LpAt, ChdirDone, IpLabels, NameLabels
    <3> QED BY <2>3, <3>1, InumZero DEF Uses, LabelUses, Hit
  <2>6. TableOk(t1) /\ \A i \in Inum : t1[i].ref = itable[i].ref /\ t1[i].holder = itable[i].holder
    BY <1>1, VisitTable
  <2> HIDE DEF t1
  <2>7. TableOk(t2) /\ \A i \in Inum : /\ t2[i].ref = t1[i].ref + (IF i = nx THEN 1 ELSE 0) /\ t2[i].holder = t1[i].holder
    BY <1>1, <2>6, RefTable
  <2> HIDE DEF t2
  <2>8. TableOk(itable') /\ \A i \in Inum : itable'[i].ref \in Int /\ itable[i].ref \in Int
    BY <1>1, <2>1, <2>6, <2>7 DEF TableOk, Entry1
  <2>9. ASSUME NEW i \in Inum
        PROVE  itable'[i].ref = itable[i].ref + Uses(d, cwd[p], i) - Uses(call[p], cwd[p], i)
    BY <1>2, <1>7, <2>1, <2>5, <2>8, <2>6, <2>7, InumZero DEF Hit
  <2>10. ASSUME NEW i \in Inum PROVE HolderOk(p, d, i)
    BY <1>1, <1>2, <1>3, <1>7, <2>1, <2>2, <2>3, <2>6, <2>7 DEF HolderOk, Locking, SameUse
  <2> QED BY <1>1, <2>1, <2>3, <2>4, <2>8, <2>9, <2>10, StepTo
<1> QED BY <1>4, <1>5, <1>6, <1>7

LEMMA linkLegal ==
  ASSUME FsShape, CallInv, LockInv, NEW p \in Proc, link(p)
  PROVE  Legal(p, 0, 0)
<1> DEFINE c == call[p]
           j == StartAt(p, c.new)
<1>1. /\ IsCall(c) /\ CallOk(c) /\ c.pc = "link" /\ Label(c) = "link" /\ TableOk(itable)
      /\ Fits("link", c)
  BY DEF CallInv, link, At, Pc, FsShape, CallOk, Label, Putting
<1>2. \A i \in Inum : Uses(c, cwd[p], i) = Hit(cwd[p], i) + Hit(c.ip, i)
  <2>1. /\ CwdAt("link", c, cwd[p]) = cwd[p] /\ IpAt("link", c) = c.ip
        /\ DpAt("link", c) = 0 /\ LpAt("link", c) = 0
    BY <1>1 DEF Fits, Creators, CwdAt, IpAt, DpAt, LpAt, ChdirDone, IpLabels, NameLabels
  <2> QED BY <1>1, <2>1, UsesNow, InumZero DEF LabelUses, Putting, Hit
<1>3. \A i \in Inum : itable[i].holder = p => FALSE
  BY <1>1, FsConstants DEF LockInv, Locking, None
<1>4. CASE fs.din[c.ip].type = "DIR"
  <2> DEFINE e == Fails(c)
             d == Then(e, <<c.ip>>, "end")
             t1 == Visit(itable, c.ip)
  <2>1. Go(p, d) /\ itable' = t1 /\ cwd' = cwd
    BY <1>4 DEF link, Same, UNCH
  <2>2. IsCall(e) /\ e.op = c.op /\ e.r = -1 /\ e.k = c.k /\ e.mode = c.mode /\ e.dp = c.dp /\ e.lp = c.lp /\ e.ip = c.ip
    BY <1>1 DEF IsCall, CallFields, Fails
  <2> HIDE DEF e
  <2>3. IsCall(d) /\ SameUse(e, d) /\ Label(d) = "end" /\ Put1(d) = c.ip /\ Put2(d) = 0 /\ PutsOk(d)
        /\ d.pc = "iput"
    <3>1. "end" \in Labels
      BY <1>1 DEF Fits, Labels, IpLabels, NameLabels
    <3>2. IsCall(e)
      BY <2>2
    <3> QED BY ONLY <3>1, <3>2, ThenOne
  <2> HIDE DEF e, d
  <2>4. CallOk(d)
    BY <1>1, <1>4, <2>2, <2>3 DEF CallOk, Fits, SameUse, Labels, IpLabels, NameLabels, Creators
  <2>5. ASSUME NEW i \in Inum PROVE Uses(d, cwd[p], i) = Hit(cwd[p], i) + Hit(c.ip, i)
    <3>1. /\ CwdAt("end", d, cwd[p]) = cwd[p] /\ IpAt("end", d) = 0
          /\ DpAt("end", d) = 0 /\ LpAt("end", d) = 0
      BY <1>1, <1>4, <2>2, <2>3 DEF SameUse, Fits, Creators, CwdAt, IpAt, DpAt, LpAt, ChdirDone, IpLabels, NameLabels
    <3> QED BY <2>3, <3>1, InumZero DEF Uses, LabelUses, Hit
  <2>6. TableOk(t1) /\ \A i \in Inum : t1[i].ref = itable[i].ref /\ t1[i].holder = itable[i].holder
    BY <1>1, VisitTable
  <2> HIDE DEF t1
  <2>7. TableOk(itable') /\ \A i \in Inum : itable'[i].ref \in Int /\ itable[i].ref \in Int
    BY <1>1, <2>1, <2>6 DEF TableOk, Entry1
  <2>8. ASSUME NEW i \in Inum
        PROVE  itable'[i].ref = itable[i].ref + Uses(d, cwd[p], i) - Uses(call[p], cwd[p], i)
    BY <1>2, <1>4, <2>1, <2>5, <2>7, <2>6, InumZero DEF Hit
  <2>9. ASSUME NEW i \in Inum PROVE HolderOk(p, d, i)
    BY <1>1, <1>2, <1>3, <1>4, <2>1, <2>2, <2>3, <2>6 DEF HolderOk, Locking, SameUse
  <2> QED BY <1>1, <2>1, <2>3, <2>4, <2>7, <2>8, <2>9, StepTo
<1>5. CASE ~(fs.din[c.ip].type = "DIR") /\ Elements(c.new) # <<>>
  <2> DEFINE e == [c EXCEPT !.lp = c.ip, !.path = Elements(c.new), !.par = TRUE, !.k = "link2", !.ip = j]
             d == [e EXCEPT !.pc = "namex"]
             t1 == Visit(itable, c.ip)
             t2 == Ref(t1, j, 1)
  <2>1. Go(p, d) /\ itable' = t2 /\ cwd' = cwd
    BY <1>5 DEF link, Same, UNCH, Updated
  <2>2. IsCall(e) /\ e.op = c.op /\ e.r = c.r /\ e.mode = c.mode /\ e.dp = c.dp /\ e.lp = c.ip /\ e.k = "link2" /\ e.ip = j
    BY <1>1 DEF IsCall, CallFields
  <2> HIDE DEF e
  <2>3. IsCall(d) /\ SameUse(e, d) /\ Label(d) = "namex" /\ Put1(d) = 0 /\ Put2(d) = 0 /\ PutsOk(d)
        /\ d.pc = "namex"
    <3>1. "namex" \in Labels
      BY <1>1 DEF Fits, Labels, IpLabels, NameLabels
    <3>2. IsCall(e)
      BY <2>2
    <3> QED BY ONLY <3>1, <3>2, Goes
  <2> HIDE DEF e, d
  <2>4. CallOk(d)
    BY <1>1, <1>5, <2>2, <2>3 DEF CallOk, Fits, SameUse, Labels, IpLabels, NameLabels, Creators
  <2>5. ASSUME NEW i \in Inum PROVE Uses(d, cwd[p], i) = Hit(cwd[p], i) + Hit(j, i) + Hit(c.ip, i)
    <3>1. /\ CwdAt("namex", d, cwd[p]) = cwd[p] /\ IpAt("namex", d) = j
          /\ DpAt("namex", d) = 0 /\ LpAt("namex", d) = c.ip
      BY <1>1, <1>5, <2>2, <2>3 DEF SameUse, Fits, Creators, CwdAt, IpAt, DpAt, LpAt, ChdirDone, IpLabels, NameLabels
    <3> QED BY <2>3, <3>1, InumZero DEF Uses, LabelUses, Hit
  <2>6. TableOk(t1) /\ \A i \in Inum : t1[i].ref = itable[i].ref /\ t1[i].holder = itable[i].holder
    BY <1>1, VisitTable
  <2> HIDE DEF t1
  <2>7. TableOk(t2) /\ \A i \in Inum : /\ t2[i].ref = t1[i].ref + (IF i = j THEN 1 ELSE 0) /\ t2[i].holder = t1[i].holder
    BY <1>1, <2>6, RefTable
  <2> HIDE DEF t2
  <2>8. TableOk(itable') /\ \A i \in Inum : itable'[i].ref \in Int /\ itable[i].ref \in Int
    BY <1>1, <2>1, <2>6, <2>7 DEF TableOk, Entry1
  <2>9. ASSUME NEW i \in Inum
        PROVE  itable'[i].ref = itable[i].ref + Uses(d, cwd[p], i) - Uses(call[p], cwd[p], i)
    BY <1>2, <1>5, <2>1, <2>5, <2>8, <2>6, <2>7, InumZero DEF Hit
  <2>10. ASSUME NEW i \in Inum PROVE HolderOk(p, d, i)
    BY <1>1, <1>2, <1>3, <1>5, <2>1, <2>2, <2>3, <2>6, <2>7 DEF HolderOk, Locking, SameUse
  <2> QED BY <1>1, <2>1, <2>3, <2>4, <2>8, <2>9, <2>10, StepTo
<1>6. CASE ~(fs.din[c.ip].type = "DIR") /\ Elements(c.new) = <<>>
  <2> DEFINE e == [[c EXCEPT !.lp = c.ip, !.path = Elements(c.new), !.par = TRUE, !.k = "link2", !.ip = j] EXCEPT !.ip = 0]
             d == Then(e, <<j>>, "link2")
             t1 == Visit(itable, c.ip)
             t2 == Ref(t1, j, 1)
  <2>1. Go(p, d) /\ itable' = t2 /\ cwd' = cwd
    BY <1>6 DEF link, Same, UNCH, Updated
  <2>2. IsCall(e) /\ e.op = c.op /\ e.r = c.r /\ e.mode = c.mode /\ e.dp = c.dp /\ e.lp = c.ip /\ e.k = "link2" /\ e.ip = 0
    BY <1>1 DEF IsCall, CallFields
  <2> HIDE DEF e
  <2>3. IsCall(d) /\ SameUse(e, d) /\ Label(d) = "link2" /\ Put1(d) = j /\ Put2(d) = 0 /\ PutsOk(d)
        /\ d.pc = "iput"
    <3>1. "link2" \in Labels
      BY <1>1 DEF Fits, Labels, IpLabels, NameLabels
    <3>2. IsCall(e)
      BY <2>2
    <3> QED BY ONLY <3>1, <3>2, ThenOne
  <2> HIDE DEF e, d
  <2>4. CallOk(d)
    BY <1>1, <1>6, <2>2, <2>3 DEF CallOk, Fits, SameUse, Labels, IpLabels, NameLabels, Creators
  <2>5. ASSUME NEW i \in Inum PROVE Uses(d, cwd[p], i) = Hit(cwd[p], i) + Hit(c.ip, i) + Hit(j, i)
    <3>1. /\ CwdAt("link2", d, cwd[p]) = cwd[p] /\ IpAt("link2", d) = 0
          /\ DpAt("link2", d) = 0 /\ LpAt("link2", d) = c.ip
      BY <1>1, <1>6, <2>2, <2>3 DEF SameUse, Fits, Creators, CwdAt, IpAt, DpAt, LpAt, ChdirDone, IpLabels, NameLabels
    <3> QED BY <2>3, <3>1, InumZero DEF Uses, LabelUses, Hit
  <2>6. TableOk(t1) /\ \A i \in Inum : t1[i].ref = itable[i].ref /\ t1[i].holder = itable[i].holder
    BY <1>1, VisitTable
  <2> HIDE DEF t1
  <2>7. TableOk(t2) /\ \A i \in Inum : /\ t2[i].ref = t1[i].ref + (IF i = j THEN 1 ELSE 0) /\ t2[i].holder = t1[i].holder
    BY <1>1, <2>6, RefTable
  <2> HIDE DEF t2
  <2>8. TableOk(itable') /\ \A i \in Inum : itable'[i].ref \in Int /\ itable[i].ref \in Int
    BY <1>1, <2>1, <2>6, <2>7 DEF TableOk, Entry1
  <2>9. ASSUME NEW i \in Inum
        PROVE  itable'[i].ref = itable[i].ref + Uses(d, cwd[p], i) - Uses(call[p], cwd[p], i)
    BY <1>2, <1>6, <2>1, <2>5, <2>8, <2>6, <2>7, InumZero DEF Hit
  <2>10. ASSUME NEW i \in Inum PROVE HolderOk(p, d, i)
    BY <1>1, <1>2, <1>3, <1>6, <2>1, <2>2, <2>3, <2>6, <2>7 DEF HolderOk, Locking, SameUse
  <2> QED BY <1>1, <2>1, <2>3, <2>4, <2>8, <2>9, <2>10, StepTo
<1> QED BY <1>4, <1>5, <1>6

LEMMA link2Legal ==
  ASSUME FsShape, CallInv, LockInv, NEW p \in Proc, link2(p)
  PROVE  Legal(p, 0, 0)
<1> DEFINE c == call[p]
<1>1. /\ IsCall(c) /\ CallOk(c) /\ c.pc = "link2" /\ Label(c) = "link2" /\ TableOk(itable)
      /\ Fits("link2", c)
  BY DEF CallInv, link2, At, Pc, FsShape, CallOk, Label, Putting
<1>2. \A i \in Inum : Uses(c, cwd[p], i) = Hit(cwd[p], i) + Hit(c.ip, i) + Hit(c.lp, i)
  <2>1. /\ CwdAt("link2", c, cwd[p]) = cwd[p] /\ IpAt("link2", c) = c.ip
        /\ DpAt("link2", c) = 0 /\ LpAt("link2", c) = c.lp
    BY <1>1 DEF Fits, Creators, CwdAt, IpAt, DpAt, LpAt, ChdirDone, IpLabels, NameLabels
  <2> QED BY <1>1, <2>1, UsesNow, InumZero DEF LabelUses, Putting, Hit
<1>3. \A i \in Inum : itable[i].holder = p => FALSE
  BY <1>1, FsConstants DEF LockInv, Locking, None
<1>4. CASE c.ip = 0
  <2> DEFINE e == c
             d == [e EXCEPT !.pc = "linkbad"]
  <2>1. Go(p, d) /\ itable' = itable /\ cwd' = cwd
    BY <1>4 DEF link2, Same, UNCH
  <2>2. IsCall(e) /\ e.op = c.op /\ e.r = c.r /\ e.k = c.k /\ e.mode = c.mode /\ e.dp = c.dp /\ e.lp = c.lp /\ e.ip = c.ip
    BY <1>1 DEF IsCall, CallFields
  <2> HIDE DEF e
  <2>3. IsCall(d) /\ SameUse(e, d) /\ Label(d) = "linkbad" /\ Put1(d) = 0 /\ Put2(d) = 0 /\ PutsOk(d)
        /\ d.pc = "linkbad"
    <3>1. "linkbad" \in Labels
      BY <1>1 DEF Fits, Labels, IpLabels, NameLabels
    <3>2. IsCall(e)
      BY <2>2
    <3> QED BY ONLY <3>1, <3>2, Goes
  <2> HIDE DEF e, d
  <2>4. CallOk(d)
    BY <1>1, <1>4, <2>2, <2>3 DEF CallOk, Fits, SameUse, Labels, IpLabels, NameLabels, Creators
  <2>5. ASSUME NEW i \in Inum PROVE Uses(d, cwd[p], i) = Hit(cwd[p], i) + Hit(c.lp, i)
    <3>1. /\ CwdAt("linkbad", d, cwd[p]) = cwd[p] /\ IpAt("linkbad", d) = 0
          /\ DpAt("linkbad", d) = 0 /\ LpAt("linkbad", d) = c.lp
      BY <1>1, <1>4, <2>2, <2>3 DEF SameUse, Fits, Creators, CwdAt, IpAt, DpAt, LpAt, ChdirDone, IpLabels, NameLabels
    <3> QED BY <2>3, <3>1, InumZero DEF Uses, LabelUses, Hit
  <2>6. TableOk(itable') /\ \A i \in Inum : itable'[i].ref \in Int /\ itable[i].ref \in Int
    BY <1>1, <2>1 DEF TableOk, Entry1
  <2>7. ASSUME NEW i \in Inum
        PROVE  itable'[i].ref = itable[i].ref + Uses(d, cwd[p], i) - Uses(call[p], cwd[p], i)
    BY <1>2, <1>4, <2>1, <2>5, <2>6, InumZero DEF Hit
  <2>8. ASSUME NEW i \in Inum PROVE HolderOk(p, d, i)
    BY <1>1, <1>2, <1>3, <1>4, <2>1, <2>2, <2>3 DEF HolderOk, Locking, SameUse
  <2> QED BY <1>1, <2>1, <2>3, <2>4, <2>6, <2>7, <2>8, StepTo
<1>5. CASE c.ip # 0 /\ dirlink(fs, c.ip, c.nm, c.lp).ok
  <2> DEFINE e == c
             d == Then(e, <<c.ip, c.lp>>, "end")
             t1 == Visit(itable, c.ip)
  <2>1. Go(p, d) /\ itable' = t1 /\ cwd' = cwd
    BY <1>5 DEF link2, Same, UNCH
  <2>2. IsCall(e) /\ e.op = c.op /\ e.r = c.r /\ e.k = c.k /\ e.mode = c.mode /\ e.dp = c.dp /\ e.lp = c.lp /\ e.ip = c.ip
    BY <1>1 DEF IsCall, CallFields
  <2> HIDE DEF e
  <2>3. IsCall(d) /\ SameUse(e, d) /\ Label(d) = "end" /\ Put1(d) = c.ip /\ Put2(d) = c.lp /\ PutsOk(d)
        /\ d.pc = "iput"
    <3>1. "end" \in Labels
      BY <1>1 DEF Fits, Labels, IpLabels, NameLabels
    <3>2. IsCall(e)
      BY <2>2
    <3> QED BY ONLY <3>1, <3>2, ThenTwo
  <2> HIDE DEF e, d
  <2>4. CallOk(d)
    BY <1>1, <1>5, <2>2, <2>3 DEF CallOk, Fits, SameUse, Labels, IpLabels, NameLabels, Creators
  <2>5. ASSUME NEW i \in Inum PROVE Uses(d, cwd[p], i) = Hit(cwd[p], i) + Hit(c.ip, i) + Hit(c.lp, i)
    <3>1. /\ CwdAt("end", d, cwd[p]) = cwd[p] /\ IpAt("end", d) = 0
          /\ DpAt("end", d) = 0 /\ LpAt("end", d) = 0
      BY <1>1, <1>5, <2>2, <2>3 DEF SameUse, Fits, Creators, CwdAt, IpAt, DpAt, LpAt, ChdirDone, IpLabels, NameLabels
    <3> QED BY <2>3, <3>1, InumZero DEF Uses, LabelUses, Hit
  <2>6. TableOk(t1) /\ \A i \in Inum : t1[i].ref = itable[i].ref /\ t1[i].holder = itable[i].holder
    BY <1>1, VisitTable
  <2> HIDE DEF t1
  <2>7. TableOk(itable') /\ \A i \in Inum : itable'[i].ref \in Int /\ itable[i].ref \in Int
    BY <1>1, <2>1, <2>6 DEF TableOk, Entry1
  <2>8. ASSUME NEW i \in Inum
        PROVE  itable'[i].ref = itable[i].ref + Uses(d, cwd[p], i) - Uses(call[p], cwd[p], i)
    BY <1>2, <1>5, <2>1, <2>5, <2>7, <2>6, InumZero DEF Hit
  <2>9. ASSUME NEW i \in Inum PROVE HolderOk(p, d, i)
    BY <1>1, <1>2, <1>3, <1>5, <2>1, <2>2, <2>3, <2>6 DEF HolderOk, Locking, SameUse
  <2> QED BY <1>1, <2>1, <2>3, <2>4, <2>7, <2>8, <2>9, StepTo
<1>6. CASE c.ip # 0 /\ ~dirlink(fs, c.ip, c.nm, c.lp).ok
  <2> DEFINE e == c
             d == Then(e, <<c.ip>>, "linkbad")
             t1 == Visit(itable, c.ip)
  <2>1. Go(p, d) /\ itable' = t1 /\ cwd' = cwd
    BY <1>6 DEF link2, Same, UNCH
  <2>2. IsCall(e) /\ e.op = c.op /\ e.r = c.r /\ e.k = c.k /\ e.mode = c.mode /\ e.dp = c.dp /\ e.lp = c.lp /\ e.ip = c.ip
    BY <1>1 DEF IsCall, CallFields
  <2> HIDE DEF e
  <2>3. IsCall(d) /\ SameUse(e, d) /\ Label(d) = "linkbad" /\ Put1(d) = c.ip /\ Put2(d) = 0 /\ PutsOk(d)
        /\ d.pc = "iput"
    <3>1. "linkbad" \in Labels
      BY <1>1 DEF Fits, Labels, IpLabels, NameLabels
    <3>2. IsCall(e)
      BY <2>2
    <3> QED BY ONLY <3>1, <3>2, ThenOne
  <2> HIDE DEF e, d
  <2>4. CallOk(d)
    BY <1>1, <1>6, <2>2, <2>3 DEF CallOk, Fits, SameUse, Labels, IpLabels, NameLabels, Creators
  <2>5. ASSUME NEW i \in Inum PROVE Uses(d, cwd[p], i) = Hit(cwd[p], i) + Hit(c.lp, i) + Hit(c.ip, i)
    <3>1. /\ CwdAt("linkbad", d, cwd[p]) = cwd[p] /\ IpAt("linkbad", d) = 0
          /\ DpAt("linkbad", d) = 0 /\ LpAt("linkbad", d) = c.lp
      BY <1>1, <1>6, <2>2, <2>3 DEF SameUse, Fits, Creators, CwdAt, IpAt, DpAt, LpAt, ChdirDone, IpLabels, NameLabels
    <3> QED BY <2>3, <3>1, InumZero DEF Uses, LabelUses, Hit
  <2>6. TableOk(t1) /\ \A i \in Inum : t1[i].ref = itable[i].ref /\ t1[i].holder = itable[i].holder
    BY <1>1, VisitTable
  <2> HIDE DEF t1
  <2>7. TableOk(itable') /\ \A i \in Inum : itable'[i].ref \in Int /\ itable[i].ref \in Int
    BY <1>1, <2>1, <2>6 DEF TableOk, Entry1
  <2>8. ASSUME NEW i \in Inum
        PROVE  itable'[i].ref = itable[i].ref + Uses(d, cwd[p], i) - Uses(call[p], cwd[p], i)
    BY <1>2, <1>6, <2>1, <2>5, <2>7, <2>6, InumZero DEF Hit
  <2>9. ASSUME NEW i \in Inum PROVE HolderOk(p, d, i)
    BY <1>1, <1>2, <1>3, <1>6, <2>1, <2>2, <2>3, <2>6 DEF HolderOk, Locking, SameUse
  <2> QED BY <1>1, <2>1, <2>3, <2>4, <2>7, <2>8, <2>9, StepTo
<1> QED BY <1>4, <1>5, <1>6

LEMMA linkbadLegal ==
  ASSUME FsShape, CallInv, LockInv, NEW p \in Proc, linkbad(p)
  PROVE  Legal(p, 0, 0)
<1> DEFINE c == call[p]
<1>1. /\ IsCall(c) /\ CallOk(c) /\ c.pc = "linkbad" /\ Label(c) = "linkbad" /\ TableOk(itable)
      /\ Fits("linkbad", c)
  BY DEF CallInv, linkbad, At, Pc, FsShape, CallOk, Label, Putting
<1>2. \A i \in Inum : Uses(c, cwd[p], i) = Hit(cwd[p], i) + Hit(c.lp, i)
  <2>1. /\ CwdAt("linkbad", c, cwd[p]) = cwd[p] /\ IpAt("linkbad", c) = 0
        /\ DpAt("linkbad", c) = 0 /\ LpAt("linkbad", c) = c.lp
    BY <1>1 DEF Fits, Creators, CwdAt, IpAt, DpAt, LpAt, ChdirDone, IpLabels, NameLabels
  <2> QED BY <1>1, <2>1, UsesNow, InumZero DEF LabelUses, Putting, Hit
<1>3. \A i \in Inum : itable[i].holder = p => FALSE
  BY <1>1, FsConstants DEF LockInv, Locking, None
<1>4. CASE TRUE
  <2> DEFINE e == Fails(c)
             d == Then(e, <<c.lp>>, "end")
             t1 == Visit(itable, c.lp)
  <2>1. Go(p, d) /\ itable' = t1 /\ cwd' = cwd
    BY DEF linkbad, Same, UNCH
  <2>2. IsCall(e) /\ e.op = c.op /\ e.r = -1 /\ e.k = c.k /\ e.mode = c.mode /\ e.dp = c.dp /\ e.lp = c.lp /\ e.ip = c.ip
    BY <1>1 DEF IsCall, CallFields, Fails
  <2> HIDE DEF e
  <2>3. IsCall(d) /\ SameUse(e, d) /\ Label(d) = "end" /\ Put1(d) = c.lp /\ Put2(d) = 0 /\ PutsOk(d)
        /\ d.pc = "iput"
    <3>1. "end" \in Labels
      BY <1>1 DEF Fits, Labels, IpLabels, NameLabels
    <3>2. IsCall(e)
      BY <2>2
    <3> QED BY ONLY <3>1, <3>2, ThenOne
  <2> HIDE DEF e, d
  <2>4. CallOk(d)
    BY <1>1, <1>4, <2>2, <2>3 DEF CallOk, Fits, SameUse, Labels, IpLabels, NameLabels, Creators
  <2>5. ASSUME NEW i \in Inum PROVE Uses(d, cwd[p], i) = Hit(cwd[p], i) + Hit(c.lp, i)
    <3>1. /\ CwdAt("end", d, cwd[p]) = cwd[p] /\ IpAt("end", d) = 0
          /\ DpAt("end", d) = 0 /\ LpAt("end", d) = 0
      BY <1>1, <1>4, <2>2, <2>3 DEF SameUse, Fits, Creators, CwdAt, IpAt, DpAt, LpAt, ChdirDone, IpLabels, NameLabels
    <3> QED BY <2>3, <3>1, InumZero DEF Uses, LabelUses, Hit
  <2>6. TableOk(t1) /\ \A i \in Inum : t1[i].ref = itable[i].ref /\ t1[i].holder = itable[i].holder
    BY <1>1, VisitTable
  <2> HIDE DEF t1
  <2>7. TableOk(itable') /\ \A i \in Inum : itable'[i].ref \in Int /\ itable[i].ref \in Int
    BY <1>1, <2>1, <2>6 DEF TableOk, Entry1
  <2>8. ASSUME NEW i \in Inum
        PROVE  itable'[i].ref = itable[i].ref + Uses(d, cwd[p], i) - Uses(call[p], cwd[p], i)
    BY <1>2, <1>4, <2>1, <2>5, <2>7, <2>6, InumZero DEF Hit
  <2>9. ASSUME NEW i \in Inum PROVE HolderOk(p, d, i)
    BY <1>1, <1>2, <1>3, <1>4, <2>1, <2>2, <2>3, <2>6 DEF HolderOk, Locking, SameUse
  <2> QED BY <1>1, <2>1, <2>3, <2>4, <2>7, <2>8, <2>9, StepTo
<1> QED BY <1>4

LEMMA unlinkLegal ==
  ASSUME FsShape, CallInv, LockInv, NEW p \in Proc, unlink(p)
  PROVE  Legal(p, 0, 0)
<1> DEFINE c == call[p]
           ip == dirlookup(fs, c.ip, c.nm)
<1>1. /\ IsCall(c) /\ CallOk(c) /\ c.pc = "unlink" /\ Label(c) = "unlink" /\ TableOk(itable)
      /\ Fits("unlink", c)
  BY DEF CallInv, unlink, At, Pc, FsShape, CallOk, Label, Putting
<1>2. \A i \in Inum : Uses(c, cwd[p], i) = Hit(cwd[p], i) + Hit(c.ip, i)
  <2>1. /\ CwdAt("unlink", c, cwd[p]) = cwd[p] /\ IpAt("unlink", c) = c.ip
        /\ DpAt("unlink", c) = 0 /\ LpAt("unlink", c) = 0
    BY <1>1 DEF Fits, Creators, CwdAt, IpAt, DpAt, LpAt, ChdirDone, IpLabels, NameLabels
  <2> QED BY <1>1, <2>1, UsesNow, InumZero DEF LabelUses, Putting, Hit
<1>3. \A i \in Inum : itable[i].holder = p => FALSE
  BY <1>1, FsConstants DEF LockInv, Locking, None
<1>4. CASE c.nm \in {".", ".."} \/ ip = 0
  <2> DEFINE e == Fails(c)
             d == Then(e, <<c.ip>>, "end")
             t1 == Visit(itable, c.ip)
  <2>1. Go(p, d) /\ itable' = t1 /\ cwd' = cwd
    BY <1>4 DEF unlink, Same, UNCH
  <2>2. IsCall(e) /\ e.op = c.op /\ e.r = -1 /\ e.k = c.k /\ e.mode = c.mode /\ e.dp = c.dp /\ e.lp = c.lp /\ e.ip = c.ip
    BY <1>1 DEF IsCall, CallFields, Fails
  <2> HIDE DEF e
  <2>3. IsCall(d) /\ SameUse(e, d) /\ Label(d) = "end" /\ Put1(d) = c.ip /\ Put2(d) = 0 /\ PutsOk(d)
        /\ d.pc = "iput"
    <3>1. "end" \in Labels
      BY <1>1 DEF Fits, Labels, IpLabels, NameLabels
    <3>2. IsCall(e)
      BY <2>2
    <3> QED BY ONLY <3>1, <3>2, ThenOne
  <2> HIDE DEF e, d
  <2>4. CallOk(d)
    BY <1>1, <1>4, <2>2, <2>3 DEF CallOk, Fits, SameUse, Labels, IpLabels, NameLabels, Creators
  <2>5. ASSUME NEW i \in Inum PROVE Uses(d, cwd[p], i) = Hit(cwd[p], i) + Hit(c.ip, i)
    <3>1. /\ CwdAt("end", d, cwd[p]) = cwd[p] /\ IpAt("end", d) = 0
          /\ DpAt("end", d) = 0 /\ LpAt("end", d) = 0
      BY <1>1, <1>4, <2>2, <2>3 DEF SameUse, Fits, Creators, CwdAt, IpAt, DpAt, LpAt, ChdirDone, IpLabels, NameLabels
    <3> QED BY <2>3, <3>1, InumZero DEF Uses, LabelUses, Hit
  <2>6. TableOk(t1) /\ \A i \in Inum : t1[i].ref = itable[i].ref /\ t1[i].holder = itable[i].holder
    BY <1>1, VisitTable
  <2> HIDE DEF t1
  <2>7. TableOk(itable') /\ \A i \in Inum : itable'[i].ref \in Int /\ itable[i].ref \in Int
    BY <1>1, <2>1, <2>6 DEF TableOk, Entry1
  <2>8. ASSUME NEW i \in Inum
        PROVE  itable'[i].ref = itable[i].ref + Uses(d, cwd[p], i) - Uses(call[p], cwd[p], i)
    BY <1>2, <1>4, <2>1, <2>5, <2>7, <2>6, InumZero DEF Hit
  <2>9. ASSUME NEW i \in Inum PROVE HolderOk(p, d, i)
    BY <1>1, <1>2, <1>3, <1>4, <2>1, <2>2, <2>3, <2>6 DEF HolderOk, Locking, SameUse
  <2> QED BY <1>1, <2>1, <2>3, <2>4, <2>7, <2>8, <2>9, StepTo
<1>5. CASE ~(c.nm \in {".", ".."} \/ ip = 0)
  <2> DEFINE e == [c EXCEPT !.pc = "unlink2", !.dp = c.ip, !.ip = ip]
             d == e
             t1 == Visit(itable, c.ip)
             t2 == Held(t1, c.ip, p)
             t3 == Ref(t2, ip, 1)
  <2>1. Go(p, d) /\ itable' = t3 /\ cwd' = cwd
    BY <1>5 DEF unlink, Same, UNCH
  <2>2. IsCall(e) /\ e.op = c.op /\ e.r = c.r /\ e.k = c.k /\ e.mode = c.mode /\ e.dp = c.ip /\ e.lp = c.lp /\ e.ip = ip /\ e.pc = "unlink2"
    BY <1>1 DEF IsCall, CallFields
  <2>3. IsCall(d) /\ SameUse(e, d) /\ Label(d) = "unlink2" /\ Put1(d) = 0 /\ Put2(d) = 0 /\ PutsOk(d)
        /\ d.pc = "unlink2"
    BY <1>1, <1>2, <1>5, <2>2 DEF SameUse, Label, Putting, Put1, Put2, PutsOk, Fits, NameLabels
  <2> HIDE DEF e, d
  <2>4. CallOk(d)
    BY <1>1, <1>5, <2>2, <2>3 DEF CallOk, Fits, SameUse, Labels, IpLabels, NameLabels, Creators
  <2>5. ASSUME NEW i \in Inum PROVE Uses(d, cwd[p], i) = Hit(cwd[p], i) + Hit(ip, i) + Hit(c.ip, i)
    <3>1. /\ CwdAt("unlink2", d, cwd[p]) = cwd[p] /\ IpAt("unlink2", d) = ip
          /\ DpAt("unlink2", d) = c.ip /\ LpAt("unlink2", d) = 0
      BY <1>1, <1>5, <2>2, <2>3 DEF SameUse, Fits, Creators, CwdAt, IpAt, DpAt, LpAt, ChdirDone, IpLabels, NameLabels
    <3> QED BY <2>3, <3>1, InumZero DEF Uses, LabelUses, Hit
  <2>6. TableOk(t1) /\ \A i \in Inum : t1[i].ref = itable[i].ref /\ t1[i].holder = itable[i].holder
    BY <1>1, VisitTable
  <2> HIDE DEF t1
  <2>7. TableOk(t2) /\ \A i \in Inum : t2[i].ref = t1[i].ref /\ t2[i].holder = IF i = c.ip THEN p ELSE t1[i].holder
    BY <1>1, <2>6, HeldTable
  <2> HIDE DEF t2
  <2>8. TableOk(t3) /\ \A i \in Inum : /\ t3[i].ref = t2[i].ref + (IF i = ip THEN 1 ELSE 0) /\ t3[i].holder = t2[i].holder
    BY <1>1, <2>7, RefTable
  <2> HIDE DEF t3
  <2>9. TableOk(itable') /\ \A i \in Inum : itable'[i].ref \in Int /\ itable[i].ref \in Int
    BY <1>1, <2>1, <2>6, <2>7, <2>8 DEF TableOk, Entry1
  <2>10. ASSUME NEW i \in Inum
        PROVE  itable'[i].ref = itable[i].ref + Uses(d, cwd[p], i) - Uses(call[p], cwd[p], i)
    BY <1>2, <1>5, <2>1, <2>5, <2>9, <2>6, <2>7, <2>8, InumZero DEF Hit
  <2>11. ASSUME NEW i \in Inum PROVE HolderOk(p, d, i)
    BY <1>1, <1>2, <1>3, <1>5, <2>1, <2>2, <2>3, <2>6, <2>7, <2>8 DEF HolderOk, Locking, SameUse
  <2> QED BY <1>1, <2>1, <2>3, <2>4, <2>9, <2>10, <2>11, StepTo
<1> QED BY <1>4, <1>5

LEMMA unlink2Legal ==
  ASSUME FsShape, CallInv, LockInv, NEW p \in Proc, unlink2(p)
  PROVE  Legal(p, 0, 0)
<1> DEFINE c == call[p]
<1>1. /\ IsCall(c) /\ CallOk(c) /\ c.pc = "unlink2" /\ Label(c) = "unlink2" /\ TableOk(itable)
      /\ Fits("unlink2", c)
  BY DEF CallInv, unlink2, At, Pc, FsShape, CallOk, Label, Putting
<1>2. \A i \in Inum : Uses(c, cwd[p], i) = Hit(cwd[p], i) + Hit(c.ip, i) + Hit(c.dp, i)
  <2>1. /\ CwdAt("unlink2", c, cwd[p]) = cwd[p] /\ IpAt("unlink2", c) = c.ip
        /\ DpAt("unlink2", c) = c.dp /\ LpAt("unlink2", c) = 0
    BY <1>1 DEF Fits, Creators, CwdAt, IpAt, DpAt, LpAt, ChdirDone, IpLabels, NameLabels
  <2> QED BY <1>1, <2>1, UsesNow, InumZero DEF LabelUses, Putting, Hit
<1>3. \A i \in Inum : itable[i].holder = p => i = c.dp
  BY <1>1, FsConstants DEF LockInv, Locking, None
<1>4. CASE fs.din[c.ip].type = "DIR" /\ ~isdirempty(fs, c.ip)
  <2> DEFINE e == Fails(c)
             d == Then(e, <<c.ip>>, "putdp")
             t1 == Visit(itable, c.ip)
  <2>1. Go(p, d) /\ itable' = t1 /\ cwd' = cwd
    BY <1>4 DEF unlink2, Same, UNCH
  <2>2. IsCall(e) /\ e.op = c.op /\ e.r = -1 /\ e.k = c.k /\ e.mode = c.mode /\ e.dp = c.dp /\ e.lp = c.lp /\ e.ip = c.ip
    BY <1>1 DEF IsCall, CallFields, Fails
  <2> HIDE DEF e
  <2>3. IsCall(d) /\ SameUse(e, d) /\ Label(d) = "putdp" /\ Put1(d) = c.ip /\ Put2(d) = 0 /\ PutsOk(d)
        /\ d.pc = "iput"
    <3>1. "putdp" \in Labels
      BY <1>1 DEF Fits, Labels, IpLabels, NameLabels
    <3>2. IsCall(e)
      BY <2>2
    <3> QED BY ONLY <3>1, <3>2, ThenOne
  <2> HIDE DEF e, d
  <2>4. CallOk(d)
    BY <1>1, <1>4, <2>2, <2>3 DEF CallOk, Fits, SameUse, Labels, IpLabels, NameLabels, Creators
  <2>5. ASSUME NEW i \in Inum PROVE Uses(d, cwd[p], i) = Hit(cwd[p], i) + Hit(c.dp, i) + Hit(c.ip, i)
    <3>1. /\ CwdAt("putdp", d, cwd[p]) = cwd[p] /\ IpAt("putdp", d) = 0
          /\ DpAt("putdp", d) = c.dp /\ LpAt("putdp", d) = 0
      BY <1>1, <1>4, <2>2, <2>3 DEF SameUse, Fits, Creators, CwdAt, IpAt, DpAt, LpAt, ChdirDone, IpLabels, NameLabels
    <3> QED BY <2>3, <3>1, InumZero DEF Uses, LabelUses, Hit
  <2>6. TableOk(t1) /\ \A i \in Inum : t1[i].ref = itable[i].ref /\ t1[i].holder = itable[i].holder
    BY <1>1, VisitTable
  <2> HIDE DEF t1
  <2>7. TableOk(itable') /\ \A i \in Inum : itable'[i].ref \in Int /\ itable[i].ref \in Int
    BY <1>1, <2>1, <2>6 DEF TableOk, Entry1
  <2>8. ASSUME NEW i \in Inum
        PROVE  itable'[i].ref = itable[i].ref + Uses(d, cwd[p], i) - Uses(call[p], cwd[p], i)
    BY <1>2, <1>4, <2>1, <2>5, <2>7, <2>6, InumZero DEF Hit
  <2>9. ASSUME NEW i \in Inum PROVE HolderOk(p, d, i)
    BY <1>1, <1>2, <1>3, <1>4, <2>1, <2>2, <2>3, <2>6 DEF HolderOk, Locking, SameUse
  <2> QED BY <1>1, <2>1, <2>3, <2>4, <2>7, <2>8, <2>9, StepTo
<1>5. CASE ~(fs.din[c.ip].type = "DIR" /\ ~isdirempty(fs, c.ip))
  <2> DEFINE e == c
             d == Then(e, <<c.dp>>, "unlink3")
             t1 == Held(itable, c.ip, p)
             t2 == iunlock(t1, c.dp)
  <2>1. Go(p, d) /\ itable' = t2 /\ cwd' = cwd
    BY <1>5 DEF unlink2, Same, UNCH
  <2>2. IsCall(e) /\ e.op = c.op /\ e.r = c.r /\ e.k = c.k /\ e.mode = c.mode /\ e.dp = c.dp /\ e.lp = c.lp /\ e.ip = c.ip
    BY <1>1 DEF IsCall, CallFields
  <2> HIDE DEF e
  <2>3. IsCall(d) /\ SameUse(e, d) /\ Label(d) = "unlink3" /\ Put1(d) = c.dp /\ Put2(d) = 0 /\ PutsOk(d)
        /\ d.pc = "iput"
    <3>1. "unlink3" \in Labels
      BY <1>1 DEF Fits, Labels, IpLabels, NameLabels
    <3>2. IsCall(e)
      BY <2>2
    <3> QED BY ONLY <3>1, <3>2, ThenOne
  <2> HIDE DEF e, d
  <2>4. CallOk(d)
    BY <1>1, <1>5, <2>2, <2>3 DEF CallOk, Fits, SameUse, Labels, IpLabels, NameLabels, Creators
  <2>5. ASSUME NEW i \in Inum PROVE Uses(d, cwd[p], i) = Hit(cwd[p], i) + Hit(c.ip, i) + Hit(c.dp, i)
    <3>1. /\ CwdAt("unlink3", d, cwd[p]) = cwd[p] /\ IpAt("unlink3", d) = c.ip
          /\ DpAt("unlink3", d) = 0 /\ LpAt("unlink3", d) = 0
      BY <1>1, <1>5, <2>2, <2>3 DEF SameUse, Fits, Creators, CwdAt, IpAt, DpAt, LpAt, ChdirDone, IpLabels, NameLabels
    <3> QED BY <2>3, <3>1, InumZero DEF Uses, LabelUses, Hit
  <2>6. TableOk(t1) /\ \A i \in Inum : t1[i].ref = itable[i].ref /\ t1[i].holder = IF i = c.ip THEN p ELSE itable[i].holder
    BY <1>1, HeldTable
  <2> HIDE DEF t1
  <2>7. TableOk(t2) /\ \A i \in Inum : t2[i].ref = t1[i].ref /\ t2[i].holder = IF i = c.dp THEN None ELSE t1[i].holder
    BY <1>1, <2>6, UnlockTable
  <2> HIDE DEF t2
  <2>8. TableOk(itable') /\ \A i \in Inum : itable'[i].ref \in Int /\ itable[i].ref \in Int
    BY <1>1, <2>1, <2>6, <2>7 DEF TableOk, Entry1
  <2>9. ASSUME NEW i \in Inum
        PROVE  itable'[i].ref = itable[i].ref + Uses(d, cwd[p], i) - Uses(call[p], cwd[p], i)
    BY <1>2, <1>5, <2>1, <2>5, <2>8, <2>6, <2>7, InumZero DEF Hit
  <2>10. ASSUME NEW i \in Inum PROVE HolderOk(p, d, i)
    BY <1>1, <1>2, <1>3, <1>5, <2>1, <2>2, <2>3, <2>6, <2>7 DEF HolderOk, Locking, SameUse
  <2> QED BY <1>1, <2>1, <2>3, <2>4, <2>8, <2>9, <2>10, StepTo
<1> QED BY <1>4, <1>5

LEMMA putdpLegal ==
  ASSUME FsShape, CallInv, LockInv, NEW p \in Proc, putdp(p)
  PROVE  Legal(p, 0, 0)
<1> DEFINE c == call[p]
<1>1. /\ IsCall(c) /\ CallOk(c) /\ c.pc = "putdp" /\ Label(c) = "putdp" /\ TableOk(itable)
      /\ Fits("putdp", c)
  BY DEF CallInv, putdp, At, Pc, FsShape, CallOk, Label, Putting
<1>2. \A i \in Inum : Uses(c, cwd[p], i) = Hit(cwd[p], i) + Hit(c.dp, i)
  <2>1. /\ CwdAt("putdp", c, cwd[p]) = cwd[p] /\ IpAt("putdp", c) = 0
        /\ DpAt("putdp", c) = c.dp /\ LpAt("putdp", c) = 0
    BY <1>1 DEF Fits, Creators, CwdAt, IpAt, DpAt, LpAt, ChdirDone, IpLabels, NameLabels
  <2> QED BY <1>1, <2>1, UsesNow, InumZero DEF LabelUses, Putting, Hit
<1>3. \A i \in Inum : itable[i].holder = p => i = c.dp
  BY <1>1, FsConstants DEF LockInv, Locking, None
<1>4. CASE TRUE
  <2> DEFINE e == c
             d == Then(e, <<c.dp>>, "end")
             t1 == iunlock(itable, c.dp)
  <2>1. Go(p, d) /\ itable' = t1 /\ cwd' = cwd
    BY DEF putdp, Same, UNCH
  <2>2. IsCall(e) /\ e.op = c.op /\ e.r = c.r /\ e.k = c.k /\ e.mode = c.mode /\ e.dp = c.dp /\ e.lp = c.lp /\ e.ip = c.ip
    BY <1>1 DEF IsCall, CallFields
  <2> HIDE DEF e
  <2>3. IsCall(d) /\ SameUse(e, d) /\ Label(d) = "end" /\ Put1(d) = c.dp /\ Put2(d) = 0 /\ PutsOk(d)
        /\ d.pc = "iput"
    <3>1. "end" \in Labels
      BY <1>1 DEF Fits, Labels, IpLabels, NameLabels
    <3>2. IsCall(e)
      BY <2>2
    <3> QED BY ONLY <3>1, <3>2, ThenOne
  <2> HIDE DEF e, d
  <2>4. CallOk(d)
    BY <1>1, <1>4, <2>2, <2>3 DEF CallOk, Fits, SameUse, Labels, IpLabels, NameLabels, Creators
  <2>5. ASSUME NEW i \in Inum PROVE Uses(d, cwd[p], i) = Hit(cwd[p], i) + Hit(c.dp, i)
    <3>1. /\ CwdAt("end", d, cwd[p]) = cwd[p] /\ IpAt("end", d) = 0
          /\ DpAt("end", d) = 0 /\ LpAt("end", d) = 0
      BY <1>1, <1>4, <2>2, <2>3 DEF SameUse, Fits, Creators, CwdAt, IpAt, DpAt, LpAt, ChdirDone, IpLabels, NameLabels
    <3> QED BY <2>3, <3>1, InumZero DEF Uses, LabelUses, Hit
  <2>6. TableOk(t1) /\ \A i \in Inum : t1[i].ref = itable[i].ref /\ t1[i].holder = IF i = c.dp THEN None ELSE itable[i].holder
    BY <1>1, UnlockTable
  <2> HIDE DEF t1
  <2>7. TableOk(itable') /\ \A i \in Inum : itable'[i].ref \in Int /\ itable[i].ref \in Int
    BY <1>1, <2>1, <2>6 DEF TableOk, Entry1
  <2>8. ASSUME NEW i \in Inum
        PROVE  itable'[i].ref = itable[i].ref + Uses(d, cwd[p], i) - Uses(call[p], cwd[p], i)
    BY <1>2, <1>4, <2>1, <2>5, <2>7, <2>6, InumZero DEF Hit
  <2>9. ASSUME NEW i \in Inum PROVE HolderOk(p, d, i)
    BY <1>1, <1>2, <1>3, <1>4, <2>1, <2>2, <2>3, <2>6 DEF HolderOk, Locking, SameUse
  <2> QED BY <1>1, <2>1, <2>3, <2>4, <2>7, <2>8, <2>9, StepTo
<1> QED BY <1>4

LEMMA unlink3Legal ==
  ASSUME FsShape, CallInv, LockInv, NEW p \in Proc, unlink3(p)
  PROVE  Legal(p, 0, 0)
<1> DEFINE c == call[p]
<1>1. /\ IsCall(c) /\ CallOk(c) /\ c.pc = "unlink3" /\ Label(c) = "unlink3" /\ TableOk(itable)
      /\ Fits("unlink3", c)
  BY DEF CallInv, unlink3, At, Pc, FsShape, CallOk, Label, Putting
<1>2. \A i \in Inum : Uses(c, cwd[p], i) = Hit(cwd[p], i) + Hit(c.ip, i)
  <2>1. /\ CwdAt("unlink3", c, cwd[p]) = cwd[p] /\ IpAt("unlink3", c) = c.ip
        /\ DpAt("unlink3", c) = 0 /\ LpAt("unlink3", c) = 0
    BY <1>1 DEF Fits, Creators, CwdAt, IpAt, DpAt, LpAt, ChdirDone, IpLabels, NameLabels
  <2> QED BY <1>1, <2>1, UsesNow, InumZero DEF LabelUses, Putting, Hit
<1>3. \A i \in Inum : itable[i].holder = p => i = c.ip
  BY <1>1, FsConstants DEF LockInv, Locking, None
<1>4. CASE TRUE
  <2> DEFINE e == c
             d == Then(e, <<c.ip>>, "end")
             t1 == iunlock(itable, c.ip)
  <2>1. Go(p, d) /\ itable' = t1 /\ cwd' = cwd
    BY DEF unlink3, Same, UNCH
  <2>2. IsCall(e) /\ e.op = c.op /\ e.r = c.r /\ e.k = c.k /\ e.mode = c.mode /\ e.dp = c.dp /\ e.lp = c.lp /\ e.ip = c.ip
    BY <1>1 DEF IsCall, CallFields
  <2> HIDE DEF e
  <2>3. IsCall(d) /\ SameUse(e, d) /\ Label(d) = "end" /\ Put1(d) = c.ip /\ Put2(d) = 0 /\ PutsOk(d)
        /\ d.pc = "iput"
    <3>1. "end" \in Labels
      BY <1>1 DEF Fits, Labels, IpLabels, NameLabels
    <3>2. IsCall(e)
      BY <2>2
    <3> QED BY ONLY <3>1, <3>2, ThenOne
  <2> HIDE DEF e, d
  <2>4. CallOk(d)
    BY <1>1, <1>4, <2>2, <2>3 DEF CallOk, Fits, SameUse, Labels, IpLabels, NameLabels, Creators
  <2>5. ASSUME NEW i \in Inum PROVE Uses(d, cwd[p], i) = Hit(cwd[p], i) + Hit(c.ip, i)
    <3>1. /\ CwdAt("end", d, cwd[p]) = cwd[p] /\ IpAt("end", d) = 0
          /\ DpAt("end", d) = 0 /\ LpAt("end", d) = 0
      BY <1>1, <1>4, <2>2, <2>3 DEF SameUse, Fits, Creators, CwdAt, IpAt, DpAt, LpAt, ChdirDone, IpLabels, NameLabels
    <3> QED BY <2>3, <3>1, InumZero DEF Uses, LabelUses, Hit
  <2>6. TableOk(t1) /\ \A i \in Inum : t1[i].ref = itable[i].ref /\ t1[i].holder = IF i = c.ip THEN None ELSE itable[i].holder
    BY <1>1, UnlockTable
  <2> HIDE DEF t1
  <2>7. TableOk(itable') /\ \A i \in Inum : itable'[i].ref \in Int /\ itable[i].ref \in Int
    BY <1>1, <2>1, <2>6 DEF TableOk, Entry1
  <2>8. ASSUME NEW i \in Inum
        PROVE  itable'[i].ref = itable[i].ref + Uses(d, cwd[p], i) - Uses(call[p], cwd[p], i)
    BY <1>2, <1>4, <2>1, <2>5, <2>7, <2>6, InumZero DEF Hit
  <2>9. ASSUME NEW i \in Inum PROVE HolderOk(p, d, i)
    BY <1>1, <1>2, <1>3, <1>4, <2>1, <2>2, <2>3, <2>6 DEF HolderOk, Locking, SameUse
  <2> QED BY <1>1, <2>1, <2>3, <2>4, <2>7, <2>8, <2>9, StepTo
<1> QED BY <1>4

LEMMA mktailLegal ==
  ASSUME FsShape, CallInv, LockInv, NEW p \in Proc, mktail(p)
  PROVE  Legal(p, 0, 0)
<1> DEFINE c == call[p]
<1>1. /\ IsCall(c) /\ CallOk(c) /\ c.pc = "mktail" /\ Label(c) = "mktail" /\ TableOk(itable)
      /\ Fits("mktail", c)
  BY DEF CallInv, mktail, At, Pc, FsShape, CallOk, Label, Putting
<1>2. \A i \in Inum : Uses(c, cwd[p], i) = Hit(cwd[p], i) + Hit(c.ip, i)
  <2>1. /\ CwdAt("mktail", c, cwd[p]) = cwd[p] /\ IpAt("mktail", c) = c.ip
        /\ DpAt("mktail", c) = 0 /\ LpAt("mktail", c) = 0
    BY <1>1 DEF Fits, Creators, CwdAt, IpAt, DpAt, LpAt, ChdirDone, IpLabels, NameLabels
  <2> QED BY <1>1, <2>1, UsesNow, InumZero DEF LabelUses, Putting, Hit
<1>3. \A i \in Inum : itable[i].holder = p => i = c.ip
  BY <1>1, FsConstants DEF LockInv, Locking, None
<1>4. CASE TRUE
  <2> DEFINE e == c
             d == Then(e, <<c.ip>>, "end")
             t1 == iunlock(itable, c.ip)
  <2>1. Go(p, d) /\ itable' = t1 /\ cwd' = cwd
    BY DEF mktail, Same, UNCH
  <2>2. IsCall(e) /\ e.op = c.op /\ e.r = c.r /\ e.k = c.k /\ e.mode = c.mode /\ e.dp = c.dp /\ e.lp = c.lp /\ e.ip = c.ip
    BY <1>1 DEF IsCall, CallFields
  <2> HIDE DEF e
  <2>3. IsCall(d) /\ SameUse(e, d) /\ Label(d) = "end" /\ Put1(d) = c.ip /\ Put2(d) = 0 /\ PutsOk(d)
        /\ d.pc = "iput"
    <3>1. "end" \in Labels
      BY <1>1 DEF Fits, Labels, IpLabels, NameLabels
    <3>2. IsCall(e)
      BY <2>2
    <3> QED BY ONLY <3>1, <3>2, ThenOne
  <2> HIDE DEF e, d
  <2>4. CallOk(d)
    BY <1>1, <1>4, <2>2, <2>3 DEF CallOk, Fits, SameUse, Labels, IpLabels, NameLabels, Creators
  <2>5. ASSUME NEW i \in Inum PROVE Uses(d, cwd[p], i) = Hit(cwd[p], i) + Hit(c.ip, i)
    <3>1. /\ CwdAt("end", d, cwd[p]) = cwd[p] /\ IpAt("end", d) = 0
          /\ DpAt("end", d) = 0 /\ LpAt("end", d) = 0
      BY <1>1, <1>4, <2>2, <2>3 DEF SameUse, Fits, Creators, CwdAt, IpAt, DpAt, LpAt, ChdirDone, IpLabels, NameLabels
    <3> QED BY <2>3, <3>1, InumZero DEF Uses, LabelUses, Hit
  <2>6. TableOk(t1) /\ \A i \in Inum : t1[i].ref = itable[i].ref /\ t1[i].holder = IF i = c.ip THEN None ELSE itable[i].holder
    BY <1>1, UnlockTable
  <2> HIDE DEF t1
  <2>7. TableOk(itable') /\ \A i \in Inum : itable'[i].ref \in Int /\ itable[i].ref \in Int
    BY <1>1, <2>1, <2>6 DEF TableOk, Entry1
  <2>8. ASSUME NEW i \in Inum
        PROVE  itable'[i].ref = itable[i].ref + Uses(d, cwd[p], i) - Uses(call[p], cwd[p], i)
    BY <1>2, <1>4, <2>1, <2>5, <2>7, <2>6, InumZero DEF Hit
  <2>9. ASSUME NEW i \in Inum PROVE HolderOk(p, d, i)
    BY <1>1, <1>2, <1>3, <1>4, <2>1, <2>2, <2>3, <2>6 DEF HolderOk, Locking, SameUse
  <2> QED BY <1>1, <2>1, <2>3, <2>4, <2>7, <2>8, <2>9, StepTo
<1> QED BY <1>4

LEMMA NotFoundLegal ==
  ASSUME FsShape, CallInv, LockInv, NEW p \in Proc, NotFound(p)
  PROVE  Legal(p, 0, 0)
<1> DEFINE c == call[p]
<1>1. /\ IsCall(c) /\ CallOk(c) /\ c.ip = 0 /\ c.pc \in {"link", "unlink", "create", "open", "chdir", "exec"}
      /\ Label(c) = c.pc /\ TableOk(itable)
      /\ Fits(c.pc, c)
  BY DEF CallInv, NotFound, At, Pc, FsShape, CallOk, Label, Putting
<1>2. \A i \in Inum : Uses(c, cwd[p], i) = Hit(cwd[p], i)
  <2>1. /\ CwdAt(c.pc, c, cwd[p]) = cwd[p] /\ IpAt(c.pc, c) = 0
        /\ DpAt(c.pc, c) = 0 /\ LpAt(c.pc, c) = 0
    BY <1>1 DEF Fits, Creators, CwdAt, IpAt, DpAt, LpAt, ChdirDone, IpLabels, NameLabels
  <2> QED BY <1>1, <2>1, UsesNow, InumZero DEF LabelUses, Putting, Hit
<1>3. \A i \in Inum : itable[i].holder = p => FALSE
  BY <1>1, FsConstants DEF LockInv, Locking, None
<1>4. CASE TRUE
  <2> DEFINE e == [Fails(c) EXCEPT !.pc = "end"]
             d == e
  <2>1. Go(p, d) /\ itable' = itable /\ cwd' = cwd
    BY DEF NotFound, Same, UNCH
  <2>2. IsCall(e) /\ e.op = c.op /\ e.r = -1 /\ e.k = c.k /\ e.mode = c.mode /\ e.dp = c.dp /\ e.lp = c.lp /\ e.ip = c.ip /\ e.pc = "end"
    BY <1>1 DEF IsCall, CallFields, Fails
  <2>3. IsCall(d) /\ SameUse(e, d) /\ Label(d) = "end" /\ Put1(d) = 0 /\ Put2(d) = 0 /\ PutsOk(d)
        /\ d.pc = "end"
    BY <1>1, <1>2, <1>4, <2>2 DEF SameUse, Label, Putting, Put1, Put2, PutsOk, Fits, NameLabels
  <2> HIDE DEF e, d
  <2>4. CallOk(d)
    BY <1>1, <1>4, <2>2, <2>3 DEF CallOk, Fits, SameUse, Labels, IpLabels, NameLabels, Creators
  <2>5. ASSUME NEW i \in Inum PROVE Uses(d, cwd[p], i) = Hit(cwd[p], i)
    <3>1. /\ CwdAt("end", d, cwd[p]) = cwd[p] /\ IpAt("end", d) = 0
          /\ DpAt("end", d) = 0 /\ LpAt("end", d) = 0
      BY <1>1, <1>4, <2>2, <2>3 DEF SameUse, Fits, Creators, CwdAt, IpAt, DpAt, LpAt, ChdirDone, IpLabels, NameLabels
    <3> QED BY <2>3, <3>1, InumZero DEF Uses, LabelUses, Hit
  <2>6. TableOk(itable') /\ \A i \in Inum : itable'[i].ref \in Int /\ itable[i].ref \in Int
    BY <1>1, <2>1 DEF TableOk, Entry1
  <2>7. ASSUME NEW i \in Inum
        PROVE  itable'[i].ref = itable[i].ref + Uses(d, cwd[p], i) - Uses(call[p], cwd[p], i)
    BY <1>2, <1>4, <2>1, <2>5, <2>6, InumZero DEF Hit
  <2>8. ASSUME NEW i \in Inum PROVE HolderOk(p, d, i)
    BY <1>1, <1>2, <1>3, <1>4, <2>1, <2>2, <2>3 DEF HolderOk, Locking, SameUse
  <2> QED BY <1>1, <2>1, <2>3, <2>4, <2>6, <2>7, <2>8, StepTo
<1> QED BY <1>4

LEMMA createLegal ==
  ASSUME FsShape, CallInv, LockInv, NEW p \in Proc, create(p)
  PROVE  Legal(p, 0, 0)
<1> DEFINE c == call[p]
           ip == dirlookup(fs, c.ip, c.nm)
           n == FreeInum(fs)
           nw == NewInode(fs, c.ip, n, c.type, c.nm)
<1>1. /\ IsCall(c) /\ CallOk(c) /\ c.pc = "create" /\ Label(c) = "create" /\ TableOk(itable)
      /\ Fits("create", c)
  BY DEF CallInv, create, At, Pc, FsShape, CallOk, Label, Putting
<1>2. \A i \in Inum : Uses(c, cwd[p], i) = Hit(cwd[p], i) + Hit(c.ip, i)
  <2>1. /\ CwdAt("create", c, cwd[p]) = cwd[p] /\ IpAt("create", c) = c.ip
        /\ DpAt("create", c) = 0 /\ LpAt("create", c) = 0
    BY <1>1 DEF Fits, Creators, CwdAt, IpAt, DpAt, LpAt, ChdirDone, IpLabels, NameLabels
  <2> QED BY <1>1, <2>1, UsesNow, InumZero DEF LabelUses, Putting, Hit
<1>3. \A i \in Inum : itable[i].holder = p => FALSE
  BY <1>1, FsConstants DEF LockInv, Locking, None
<1>4. CASE ip # 0
  <2> DEFINE e == [c EXCEPT !.dp = c.ip, !.ip = ip]
             d == Then(e, <<c.ip>>, "create2")
             t1 == Visit(itable, c.ip)
             t2 == Ref(t1, ip, 1)
  <2>1. Go(p, d) /\ itable' = t2 /\ cwd' = cwd
    BY <1>4 DEF create, Same, UNCH
  <2>2. IsCall(e) /\ e.op = c.op /\ e.r = c.r /\ e.k = c.k /\ e.mode = c.mode /\ e.dp = c.ip /\ e.lp = c.lp /\ e.ip = ip
    BY <1>1 DEF IsCall, CallFields
  <2> HIDE DEF e
  <2>3. IsCall(d) /\ SameUse(e, d) /\ Label(d) = "create2" /\ Put1(d) = c.ip /\ Put2(d) = 0 /\ PutsOk(d)
        /\ d.pc = "iput"
    <3>1. "create2" \in Labels
      BY <1>1 DEF Fits, Labels, IpLabels, NameLabels
    <3>2. IsCall(e)
      BY <2>2
    <3> QED BY ONLY <3>1, <3>2, ThenOne
  <2> HIDE DEF e, d
  <2>4. CallOk(d)
    BY <1>1, <1>4, <2>2, <2>3 DEF CallOk, Fits, SameUse, Labels, IpLabels, NameLabels, Creators
  <2>5. ASSUME NEW i \in Inum PROVE Uses(d, cwd[p], i) = Hit(cwd[p], i) + Hit(ip, i) + Hit(c.ip, i)
    <3>1. /\ CwdAt("create2", d, cwd[p]) = cwd[p] /\ IpAt("create2", d) = ip
          /\ DpAt("create2", d) = 0 /\ LpAt("create2", d) = 0
      BY <1>1, <1>4, <2>2, <2>3 DEF SameUse, Fits, Creators, CwdAt, IpAt, DpAt, LpAt, ChdirDone, IpLabels, NameLabels
    <3> QED BY <2>3, <3>1, InumZero DEF Uses, LabelUses, Hit
  <2>6. TableOk(t1) /\ \A i \in Inum : t1[i].ref = itable[i].ref /\ t1[i].holder = itable[i].holder
    BY <1>1, VisitTable
  <2> HIDE DEF t1
  <2>7. TableOk(t2) /\ \A i \in Inum : /\ t2[i].ref = t1[i].ref + (IF i = ip THEN 1 ELSE 0) /\ t2[i].holder = t1[i].holder
    BY <1>1, <2>6, RefTable
  <2> HIDE DEF t2
  <2>8. TableOk(itable') /\ \A i \in Inum : itable'[i].ref \in Int /\ itable[i].ref \in Int
    BY <1>1, <2>1, <2>6, <2>7 DEF TableOk, Entry1
  <2>9. ASSUME NEW i \in Inum
        PROVE  itable'[i].ref = itable[i].ref + Uses(d, cwd[p], i) - Uses(call[p], cwd[p], i)
    BY <1>2, <1>4, <2>1, <2>5, <2>8, <2>6, <2>7, InumZero DEF Hit
  <2>10. ASSUME NEW i \in Inum PROVE HolderOk(p, d, i)
    BY <1>1, <1>2, <1>3, <1>4, <2>1, <2>2, <2>3, <2>6, <2>7 DEF HolderOk, Locking, SameUse
  <2> QED BY <1>1, <2>1, <2>3, <2>4, <2>8, <2>9, <2>10, StepTo
<1>5. CASE ip = 0 /\ n = 0
  <2> DEFINE e == Fails(c)
             d == Then(e, <<c.ip>>, "end")
             t1 == Visit(itable, c.ip)
  <2>1. Go(p, d) /\ itable' = t1 /\ cwd' = cwd
    BY <1>5 DEF create, Same, UNCH
  <2>2. IsCall(e) /\ e.op = c.op /\ e.r = -1 /\ e.k = c.k /\ e.mode = c.mode /\ e.dp = c.dp /\ e.lp = c.lp /\ e.ip = c.ip
    BY <1>1 DEF IsCall, CallFields, Fails
  <2> HIDE DEF e
  <2>3. IsCall(d) /\ SameUse(e, d) /\ Label(d) = "end" /\ Put1(d) = c.ip /\ Put2(d) = 0 /\ PutsOk(d)
        /\ d.pc = "iput"
    <3>1. "end" \in Labels
      BY <1>1 DEF Fits, Labels, IpLabels, NameLabels
    <3>2. IsCall(e)
      BY <2>2
    <3> QED BY ONLY <3>1, <3>2, ThenOne
  <2> HIDE DEF e, d
  <2>4. CallOk(d)
    BY <1>1, <1>5, <2>2, <2>3 DEF CallOk, Fits, SameUse, Labels, IpLabels, NameLabels, Creators
  <2>5. ASSUME NEW i \in Inum PROVE Uses(d, cwd[p], i) = Hit(cwd[p], i) + Hit(c.ip, i)
    <3>1. /\ CwdAt("end", d, cwd[p]) = cwd[p] /\ IpAt("end", d) = 0
          /\ DpAt("end", d) = 0 /\ LpAt("end", d) = 0
      BY <1>1, <1>5, <2>2, <2>3 DEF SameUse, Fits, Creators, CwdAt, IpAt, DpAt, LpAt, ChdirDone, IpLabels, NameLabels
    <3> QED BY <2>3, <3>1, InumZero DEF Uses, LabelUses, Hit
  <2>6. TableOk(t1) /\ \A i \in Inum : t1[i].ref = itable[i].ref /\ t1[i].holder = itable[i].holder
    BY <1>1, VisitTable
  <2> HIDE DEF t1
  <2>7. TableOk(itable') /\ \A i \in Inum : itable'[i].ref \in Int /\ itable[i].ref \in Int
    BY <1>1, <2>1, <2>6 DEF TableOk, Entry1
  <2>8. ASSUME NEW i \in Inum
        PROVE  itable'[i].ref = itable[i].ref + Uses(d, cwd[p], i) - Uses(call[p], cwd[p], i)
    BY <1>2, <1>5, <2>1, <2>5, <2>7, <2>6, InumZero DEF Hit
  <2>9. ASSUME NEW i \in Inum PROVE HolderOk(p, d, i)
    BY <1>1, <1>2, <1>3, <1>5, <2>1, <2>2, <2>3, <2>6 DEF HolderOk, Locking, SameUse
  <2> QED BY <1>1, <2>1, <2>3, <2>4, <2>7, <2>8, <2>9, StepTo
<1>6. CASE ip = 0 /\ n # 0 /\ nw.ok
  <2> DEFINE e == [c EXCEPT !.dp = c.ip, !.ip = n]
             d == Then(e, <<c.ip>>, Created(c))
             t1 == Ref(itable, n, 1)
             t2 == Visit(t1, c.ip)
             t3 == Held(t2, n, p)
  <2>1. Go(p, d) /\ itable' = t3 /\ cwd' = cwd
    BY <1>6 DEF create, Same, UNCH, CreateNew
  <2>2. IsCall(e) /\ e.op = c.op /\ e.r = c.r /\ e.k = c.k /\ e.mode = c.mode /\ e.dp = c.ip /\ e.lp = c.lp /\ e.ip = n
    BY <1>1 DEF IsCall, CallFields
  <2> HIDE DEF e
  <2>3. IsCall(d) /\ SameUse(e, d) /\ Label(d) = Created(c) /\ Put1(d) = c.ip /\ Put2(d) = 0 /\ PutsOk(d)
        /\ d.pc = "iput"
    <3>1. Created(c) \in Labels
      BY <1>1 DEF Fits, Labels, IpLabels, NameLabels, Created
    <3>2. IsCall(e)
      BY <2>2
    <3> QED BY ONLY <3>1, <3>2, ThenOne
  <2> HIDE DEF e, d
  <2>4. CallOk(d)
    BY <1>1, <1>6, <2>2, <2>3 DEF CallOk, Fits, SameUse, Labels, IpLabels, NameLabels, Creators, Created
  <2>5. ASSUME NEW i \in Inum PROVE Uses(d, cwd[p], i) = Hit(cwd[p], i) + Hit(n, i) + Hit(c.ip, i)
    <3>1. /\ CwdAt(Created(c), d, cwd[p]) = cwd[p] /\ IpAt(Created(c), d) = n
          /\ DpAt(Created(c), d) = 0 /\ LpAt(Created(c), d) = 0
      BY <1>1, <1>6, <2>2, <2>3 DEF SameUse, Fits, Creators, CwdAt, IpAt, DpAt, LpAt, ChdirDone, IpLabels, NameLabels, Created
    <3> QED BY <2>3, <3>1, InumZero DEF Uses, LabelUses, Hit
  <2>6. TableOk(t1) /\ \A i \in Inum : /\ t1[i].ref = itable[i].ref + (IF i = n THEN 1 ELSE 0) /\ t1[i].holder = itable[i].holder
    BY <1>1, RefTable
  <2> HIDE DEF t1
  <2>7. TableOk(t2) /\ \A i \in Inum : t2[i].ref = t1[i].ref /\ t2[i].holder = t1[i].holder
    BY <1>1, <2>6, VisitTable
  <2> HIDE DEF t2
  <2>8. TableOk(t3) /\ \A i \in Inum : t3[i].ref = t2[i].ref /\ t3[i].holder = IF i = n THEN p ELSE t2[i].holder
    BY <1>1, <2>7, HeldTable
  <2> HIDE DEF t3
  <2>9. TableOk(itable') /\ \A i \in Inum : itable'[i].ref \in Int /\ itable[i].ref \in Int
    BY <1>1, <2>1, <2>6, <2>7, <2>8 DEF TableOk, Entry1
  <2>10. ASSUME NEW i \in Inum
        PROVE  itable'[i].ref = itable[i].ref + Uses(d, cwd[p], i) - Uses(call[p], cwd[p], i)
    BY <1>2, <1>6, <2>1, <2>5, <2>9, <2>6, <2>7, <2>8, InumZero DEF Hit
  <2>11. ASSUME NEW i \in Inum PROVE HolderOk(p, d, i)
    BY <1>1, <1>2, <1>3, <1>6, <2>1, <2>2, <2>3, <2>6, <2>7, <2>8 DEF HolderOk, Locking, SameUse, Created
  <2> QED BY <1>1, <2>1, <2>3, <2>4, <2>9, <2>10, <2>11, StepTo
<1>7. CASE ip = 0 /\ n # 0 /\ ~nw.ok
  <2> DEFINE e == [Fails(c) EXCEPT !.dp = c.ip]
             d == Then(e, <<n>>, "putdp")
             t1 == Ref(itable, n, 1)
             t2 == Visit(t1, n)
             t3 == Held(t2, c.ip, p)
  <2>1. Go(p, d) /\ itable' = t3 /\ cwd' = cwd
    BY <1>7 DEF create, Same, UNCH, CreateNew
  <2>2. IsCall(e) /\ e.op = c.op /\ e.r = -1 /\ e.k = c.k /\ e.mode = c.mode /\ e.dp = c.ip /\ e.lp = c.lp /\ e.ip = c.ip
    BY <1>1 DEF IsCall, CallFields, Fails
  <2> HIDE DEF e
  <2>3. IsCall(d) /\ SameUse(e, d) /\ Label(d) = "putdp" /\ Put1(d) = n /\ Put2(d) = 0 /\ PutsOk(d)
        /\ d.pc = "iput"
    <3>1. "putdp" \in Labels
      BY <1>1 DEF Fits, Labels, IpLabels, NameLabels
    <3>2. IsCall(e)
      BY <2>2
    <3> QED BY ONLY <3>1, <3>2, ThenOne
  <2> HIDE DEF e, d
  <2>4. CallOk(d)
    BY <1>1, <1>7, <2>2, <2>3 DEF CallOk, Fits, SameUse, Labels, IpLabels, NameLabels, Creators
  <2>5. ASSUME NEW i \in Inum PROVE Uses(d, cwd[p], i) = Hit(cwd[p], i) + Hit(c.ip, i) + Hit(n, i)
    <3>1. /\ CwdAt("putdp", d, cwd[p]) = cwd[p] /\ IpAt("putdp", d) = 0
          /\ DpAt("putdp", d) = c.ip /\ LpAt("putdp", d) = 0
      BY <1>1, <1>7, <2>2, <2>3 DEF SameUse, Fits, Creators, CwdAt, IpAt, DpAt, LpAt, ChdirDone, IpLabels, NameLabels
    <3> QED BY <2>3, <3>1, InumZero DEF Uses, LabelUses, Hit
  <2>6. TableOk(t1) /\ \A i \in Inum : /\ t1[i].ref = itable[i].ref + (IF i = n THEN 1 ELSE 0) /\ t1[i].holder = itable[i].holder
    BY <1>1, RefTable
  <2> HIDE DEF t1
  <2>7. TableOk(t2) /\ \A i \in Inum : t2[i].ref = t1[i].ref /\ t2[i].holder = t1[i].holder
    BY <1>1, <2>6, VisitTable
  <2> HIDE DEF t2
  <2>8. TableOk(t3) /\ \A i \in Inum : t3[i].ref = t2[i].ref /\ t3[i].holder = IF i = c.ip THEN p ELSE t2[i].holder
    BY <1>1, <2>7, HeldTable
  <2> HIDE DEF t3
  <2>9. TableOk(itable') /\ \A i \in Inum : itable'[i].ref \in Int /\ itable[i].ref \in Int
    BY <1>1, <2>1, <2>6, <2>7, <2>8 DEF TableOk, Entry1
  <2>10. ASSUME NEW i \in Inum
        PROVE  itable'[i].ref = itable[i].ref + Uses(d, cwd[p], i) - Uses(call[p], cwd[p], i)
    BY <1>2, <1>7, <2>1, <2>5, <2>9, <2>6, <2>7, <2>8, InumZero DEF Hit
  <2>11. ASSUME NEW i \in Inum PROVE HolderOk(p, d, i)
    BY <1>1, <1>2, <1>3, <1>7, <2>1, <2>2, <2>3, <2>6, <2>7, <2>8 DEF HolderOk, Locking, SameUse
  <2> QED BY <1>1, <2>1, <2>3, <2>4, <2>9, <2>10, <2>11, StepTo
<1> QED BY <1>4, <1>5, <1>6, <1>7

LEMMA PutAndFailLegal ==
  ASSUME FsShape, CallInv, LockInv, NEW p \in Proc, PutAndFail(p),
         Pc(p) \in {"create2", "open", "chdir"}
  PROVE  Legal(p, 0, 0)
<1> DEFINE c == call[p]
<1>1. /\ IsCall(c) /\ CallOk(c) /\ c.pc \in {"create2", "open", "chdir"} /\ Label(c) = c.pc /\ TableOk(itable)
      /\ Fits(c.pc, c)
  BY DEF CallInv, PutAndFail, At, Pc, FsShape, CallOk, Label, Putting
<1>2. \A i \in Inum : Uses(c, cwd[p], i) = Hit(cwd[p], i) + Hit(c.ip, i)
  <2>1. /\ CwdAt(c.pc, c, cwd[p]) = cwd[p] /\ IpAt(c.pc, c) = c.ip
        /\ DpAt(c.pc, c) = 0 /\ LpAt(c.pc, c) = 0
    BY <1>1 DEF Fits, Creators, CwdAt, IpAt, DpAt, LpAt, ChdirDone, IpLabels, NameLabels
  <2> QED BY <1>1, <2>1, UsesNow, InumZero DEF LabelUses, Putting, Hit
<1>3. \A i \in Inum : itable[i].holder = p => FALSE
  BY <1>1, FsConstants DEF LockInv, Locking, None
<1>4. CASE TRUE
  <2> DEFINE e == Fails(c)
             d == Then(e, <<c.ip>>, "end")
             t1 == Visit(itable, c.ip)
  <2>1. Go(p, d) /\ itable' = t1 /\ cwd' = cwd
    BY DEF PutAndFail, Same, UNCH
  <2>2. IsCall(e) /\ e.op = c.op /\ e.r = -1 /\ e.k = c.k /\ e.mode = c.mode /\ e.dp = c.dp /\ e.lp = c.lp /\ e.ip = c.ip
    BY <1>1 DEF IsCall, CallFields, Fails
  <2> HIDE DEF e
  <2>3. IsCall(d) /\ SameUse(e, d) /\ Label(d) = "end" /\ Put1(d) = c.ip /\ Put2(d) = 0 /\ PutsOk(d)
        /\ d.pc = "iput"
    <3>1. "end" \in Labels
      BY <1>1 DEF Fits, Labels, IpLabels, NameLabels
    <3>2. IsCall(e)
      BY <2>2
    <3> QED BY ONLY <3>1, <3>2, ThenOne
  <2> HIDE DEF e, d
  <2>4. CallOk(d)
    BY <1>1, <1>4, <2>2, <2>3 DEF CallOk, Fits, SameUse, Labels, IpLabels, NameLabels, Creators
  <2>5. ASSUME NEW i \in Inum PROVE Uses(d, cwd[p], i) = Hit(cwd[p], i) + Hit(c.ip, i)
    <3>1. /\ CwdAt("end", d, cwd[p]) = cwd[p] /\ IpAt("end", d) = 0
          /\ DpAt("end", d) = 0 /\ LpAt("end", d) = 0
      BY <1>1, <1>4, <2>2, <2>3 DEF SameUse, Fits, Creators, CwdAt, IpAt, DpAt, LpAt, ChdirDone, IpLabels, NameLabels
    <3> QED BY <2>3, <3>1, InumZero DEF Uses, LabelUses, Hit
  <2>6. TableOk(t1) /\ \A i \in Inum : t1[i].ref = itable[i].ref /\ t1[i].holder = itable[i].holder
    BY <1>1, VisitTable
  <2> HIDE DEF t1
  <2>7. TableOk(itable') /\ \A i \in Inum : itable'[i].ref \in Int /\ itable[i].ref \in Int
    BY <1>1, <2>1, <2>6 DEF TableOk, Entry1
  <2>8. ASSUME NEW i \in Inum
        PROVE  itable'[i].ref = itable[i].ref + Uses(d, cwd[p], i) - Uses(call[p], cwd[p], i)
    BY <1>2, <1>4, <2>1, <2>5, <2>7, <2>6, InumZero DEF Hit
  <2>9. ASSUME NEW i \in Inum PROVE HolderOk(p, d, i)
    BY <1>1, <1>2, <1>3, <1>4, <2>1, <2>2, <2>3, <2>6 DEF HolderOk, Locking, SameUse
  <2> QED BY <1>1, <2>1, <2>3, <2>4, <2>7, <2>8, <2>9, StepTo
<1> QED BY <1>4

\* open has put the inode of its call in a free file and a free descriptor.
Opened(p) ==
  LET ff == {f \in File : file[f].ref = 0}
      fd == {d \in Fd : ofile[p][d] = 0}
  IN /\ ff # {} /\ fd # {}
     /\ file' = [file EXCEPT ![Min(ff)] =
           [ref |-> 1, type |-> IF fs.din[call[p].ip].type = "DEV" THEN "DEVICE" ELSE "INODE",
            readable |-> "WRONLY" \notin call[p].mode,
            writable |-> call[p].mode \cap {"WRONLY", "RDWR"} # {},
            ip |-> call[p].ip, off |-> 0]]
     /\ ofile' = [ofile EXCEPT ![p][Min(fd)] = Min(ff)]

LEMMA OpenTailLegal ==
  ASSUME FsShape, CallInv, LockInv, NEW p \in Proc, OpenTail(p, itable),
         Pc(p) \in {"opentail", "create2", "open"}, call[p].op # "chdir"
  PROVE  \/ Legal(p, 0, 0) /\ file' = file /\ ofile' = ofile
         \/ Legal(p, 0, call[p].ip) /\ Opened(p)
<1> DEFINE c == call[p]
           ff == {f \in File : file[f].ref = 0}
           fd == {d \in Fd : ofile[p][d] = 0}
           typ == fs.din[c.ip].type
<1>1. /\ IsCall(c) /\ CallOk(c) /\ c.pc \in {"opentail", "create2", "open"} /\ Label(c) = c.pc /\ TableOk(itable)
      /\ Fits(c.pc, c)
  BY DEF CallInv, OpenTail, At, Pc, FsShape, CallOk, Label, Putting
<1>2. \A i \in Inum : Uses(c, cwd[p], i) = Hit(cwd[p], i) + Hit(c.ip, i)
  <2>1. /\ CwdAt(c.pc, c, cwd[p]) = cwd[p] /\ IpAt(c.pc, c) = c.ip
        /\ DpAt(c.pc, c) = 0 /\ LpAt(c.pc, c) = 0
    BY <1>1 DEF Fits, Creators, CwdAt, IpAt, DpAt, LpAt, ChdirDone, IpLabels, NameLabels
  <2> QED BY <1>1, <2>1, UsesNow, InumZero DEF LabelUses, Putting, Hit
<1>3. \A i \in Inum : itable[i].holder = p => i = c.ip
  BY <1>1, FsConstants DEF LockInv, Locking, None
<1>4. ASSUME typ = "BADDEV" \/ ff = {} \/ fd = {}
      PROVE  Legal(p, 0, 0)
  <2> DEFINE e == Fails(c)
             d == Then(e, <<c.ip>>, "end")
             t1 == Visit(itable, c.ip)
             t2 == iunlock(t1, c.ip)
  <2>1. Go(p, d) /\ itable' = t2 /\ cwd' = cwd
    BY <1>4 DEF OpenTail, UNCH
  <2>2. IsCall(e) /\ e.op = c.op /\ e.r = -1 /\ e.k = c.k /\ e.mode = c.mode /\ e.dp = c.dp /\ e.lp = c.lp /\ e.ip = c.ip
    BY <1>1 DEF IsCall, CallFields, Fails
  <2> HIDE DEF e
  <2>3. IsCall(d) /\ SameUse(e, d) /\ Label(d) = "end" /\ Put1(d) = c.ip /\ Put2(d) = 0 /\ PutsOk(d)
        /\ d.pc = "iput"
    <3>1. "end" \in Labels
      BY <1>1 DEF Fits, Labels, IpLabels, NameLabels
    <3>2. IsCall(e)
      BY <2>2
    <3> QED BY ONLY <3>1, <3>2, ThenOne
  <2> HIDE DEF e, d
  <2>4. CallOk(d)
    BY <1>1, <1>4, <2>2, <2>3 DEF CallOk, Fits, SameUse, Labels, IpLabels, NameLabels, Creators
  <2>5. ASSUME NEW i \in Inum PROVE Uses(d, cwd[p], i) = Hit(cwd[p], i) + Hit(c.ip, i)
    <3>1. /\ CwdAt("end", d, cwd[p]) = cwd[p] /\ IpAt("end", d) = 0
          /\ DpAt("end", d) = 0 /\ LpAt("end", d) = 0
      BY <1>1, <1>4, <2>2, <2>3 DEF SameUse, Fits, Creators, CwdAt, IpAt, DpAt, LpAt, ChdirDone, IpLabels, NameLabels
    <3> QED BY <2>3, <3>1, InumZero DEF Uses, LabelUses, Hit
  <2>6. TableOk(t1) /\ \A i \in Inum : t1[i].ref = itable[i].ref /\ t1[i].holder = itable[i].holder
    BY <1>1, VisitTable
  <2> HIDE DEF t1
  <2>7. TableOk(t2) /\ \A i \in Inum : t2[i].ref = t1[i].ref /\ t2[i].holder = IF i = c.ip THEN None ELSE t1[i].holder
    BY <1>1, <2>6, UnlockTable
  <2> HIDE DEF t2
  <2>8. TableOk(itable') /\ \A i \in Inum : itable'[i].ref \in Int /\ itable[i].ref \in Int
    BY <1>1, <2>1, <2>6, <2>7 DEF TableOk, Entry1
  <2>9. ASSUME NEW i \in Inum
        PROVE  itable'[i].ref = itable[i].ref + Uses(d, cwd[p], i) - Uses(call[p], cwd[p], i)
    BY <1>2, <1>4, <2>1, <2>5, <2>8, <2>6, <2>7, InumZero DEF Hit
  <2>10. ASSUME NEW i \in Inum PROVE HolderOk(p, d, i)
    BY <1>3, <2>1, <2>6, <2>7 DEF HolderOk
  <2> QED BY <1>1, <2>1, <2>3, <2>4, <2>8, <2>9, <2>10, StepTo
<1>5. ASSUME ~(typ = "BADDEV" \/ ff = {} \/ fd = {})
      PROVE  Legal(p, 0, c.ip)
  <2> DEFINE e == [c EXCEPT !.pc = "end", !.r = Min(fd)]
             d == e
             t1 == Visit(itable, c.ip)
             t2 == iunlock(t1, c.ip)
  <2>1. Go(p, d) /\ itable' = t2 /\ cwd' = cwd
    BY <1>5 DEF OpenTail, UNCH
  <2>2. IsCall(e) /\ e.op = c.op /\ e.k = c.k /\ e.mode = c.mode /\ e.pc = "end"
    BY <1>1 DEF IsCall, CallFields
  <2>3. IsCall(d) /\ SameUse(e, d) /\ Label(d) = "end" /\ Put1(d) = 0 /\ Put2(d) = 0 /\ PutsOk(d)
        /\ d.pc = "end"
    BY <1>1, <1>2, <1>5, <2>2 DEF SameUse, Label, Putting, Put1, Put2, PutsOk, Fits, NameLabels
  <2> HIDE DEF e, d
  <2>4. CallOk(d)
    BY <1>1, <1>5, <2>2, <2>3 DEF CallOk, Fits, SameUse, Labels, IpLabels, NameLabels, Creators
  <2>5. ASSUME NEW i \in Inum PROVE Uses(d, cwd[p], i) = Hit(cwd[p], i)
    <3>1. /\ CwdAt("end", d, cwd[p]) = cwd[p] /\ IpAt("end", d) = 0
          /\ DpAt("end", d) = 0 /\ LpAt("end", d) = 0
      BY <1>1, <1>5, <2>2, <2>3 DEF SameUse, Fits, Creators, CwdAt, IpAt, DpAt, LpAt, ChdirDone, IpLabels, NameLabels
    <3> QED BY <2>3, <3>1, InumZero DEF Uses, LabelUses, Hit
  <2>6. TableOk(t1) /\ \A i \in Inum : t1[i].ref = itable[i].ref /\ t1[i].holder = itable[i].holder
    BY <1>1, VisitTable
  <2> HIDE DEF t1
  <2>7. TableOk(t2) /\ \A i \in Inum : t2[i].ref = t1[i].ref /\ t2[i].holder = IF i = c.ip THEN None ELSE t1[i].holder
    BY <1>1, <2>6, UnlockTable
  <2> HIDE DEF t2
  <2>8. TableOk(itable') /\ \A i \in Inum : itable'[i].ref \in Int /\ itable[i].ref \in Int
    BY <1>1, <2>1, <2>6, <2>7 DEF TableOk, Entry1
  <2>9. ASSUME NEW i \in Inum
        PROVE  itable'[i].ref = itable[i].ref + Hit(c.ip, i) - Hit(0, i) + Uses(d, cwd[p], i) - Uses(call[p], cwd[p], i)
    BY <1>2, <1>5, <2>1, <2>5, <2>8, <2>6, <2>7, InumZero DEF Hit
  <2>10. ASSUME NEW i \in Inum PROVE HolderOk(p, d, i)
    BY <1>3, <2>1, <2>6, <2>7 DEF HolderOk
  <2> QED BY <1>1, <2>1, <2>3, <2>4, <2>8, <2>9, <2>10, StepToFile
<1>6. CASE typ = "BADDEV" \/ ff = {} \/ fd = {}
  BY <1>4, <1>6 DEF OpenTail
<1>7. CASE ~(typ = "BADDEV" \/ ff = {} \/ fd = {})
  BY <1>5, <1>7 DEF OpenTail, Opened
<1> QED BY <1>6, <1>7

LEMMA chdirLegal ==
  ASSUME FsShape, CallInv, LockInv, NEW p \in Proc, chdir(p)
  PROVE  Legal(p, 0, 0)
<1> DEFINE c == call[p]
<1>1. /\ IsCall(c) /\ CallOk(c) /\ c.pc = "chdir" /\ Label(c) = "chdir" /\ TableOk(itable)
      /\ Fits("chdir", c)
  BY DEF CallInv, chdir, At, Pc, FsShape, CallOk, Label, Putting
<1>2. \A i \in Inum : Uses(c, cwd[p], i) = Hit(cwd[p], i) + Hit(c.ip, i)
  <2>1. /\ CwdAt("chdir", c, cwd[p]) = cwd[p] /\ IpAt("chdir", c) = c.ip
        /\ DpAt("chdir", c) = 0 /\ LpAt("chdir", c) = 0
    BY <1>1 DEF Fits, Creators, CwdAt, IpAt, DpAt, LpAt, ChdirDone, IpLabels, NameLabels
  <2> QED BY <1>1, <2>1, UsesNow, InumZero DEF LabelUses, Putting, Hit
<1>3. \A i \in Inum : itable[i].holder = p => FALSE
  BY <1>1, FsConstants DEF LockInv, Locking, None
<1>4. CASE fs.din[c.ip].type = "DIR"
  <2> DEFINE e == c
             d == Then(e, <<cwd[p]>>, "end")
             t1 == Visit(itable, c.ip)
  <2>1. Go(p, d) /\ itable' = t1 /\ cwd' = cwd
    BY <1>4 DEF chdir, Same, UNCH
  <2>2. IsCall(e) /\ e.op = c.op /\ e.r = c.r /\ e.k = c.k /\ e.mode = c.mode /\ e.dp = c.dp /\ e.lp = c.lp /\ e.ip = c.ip
    BY <1>1 DEF IsCall, CallFields
  <2> HIDE DEF e
  <2>3. IsCall(d) /\ SameUse(e, d) /\ Label(d) = "end" /\ Put1(d) = cwd[p] /\ Put2(d) = 0 /\ PutsOk(d)
        /\ d.pc = "iput"
    <3>1. "end" \in Labels
      BY <1>1 DEF Fits, Labels, IpLabels, NameLabels
    <3>2. IsCall(e)
      BY <2>2
    <3> QED BY ONLY <3>1, <3>2, ThenOne
  <2> HIDE DEF e, d
  <2>4. CallOk(d)
    BY <1>1, <1>4, <2>2, <2>3 DEF CallOk, Fits, SameUse, Labels, IpLabels, NameLabels, Creators
  <2>5. ASSUME NEW i \in Inum PROVE Uses(d, cwd[p], i) = Hit(c.ip, i) + Hit(cwd[p], i)
    <3>1. /\ CwdAt("end", d, cwd[p]) = 0 /\ IpAt("end", d) = c.ip
          /\ DpAt("end", d) = 0 /\ LpAt("end", d) = 0
      BY <1>1, <1>4, <2>2, <2>3 DEF SameUse, Fits, Creators, CwdAt, IpAt, DpAt, LpAt, ChdirDone, IpLabels, NameLabels
    <3> QED BY <2>3, <3>1, InumZero DEF Uses, LabelUses, Hit
  <2>6. TableOk(t1) /\ \A i \in Inum : t1[i].ref = itable[i].ref /\ t1[i].holder = itable[i].holder
    BY <1>1, VisitTable
  <2> HIDE DEF t1
  <2>7. TableOk(itable') /\ \A i \in Inum : itable'[i].ref \in Int /\ itable[i].ref \in Int
    BY <1>1, <2>1, <2>6 DEF TableOk, Entry1
  <2>8. ASSUME NEW i \in Inum
        PROVE  itable'[i].ref = itable[i].ref + Uses(d, cwd[p], i) - Uses(call[p], cwd[p], i)
    BY <1>2, <1>4, <2>1, <2>5, <2>7, <2>6, InumZero DEF Hit
  <2>9. ASSUME NEW i \in Inum PROVE HolderOk(p, d, i)
    BY <1>1, <1>2, <1>3, <1>4, <2>1, <2>2, <2>3, <2>6 DEF HolderOk, Locking, SameUse
  <2> QED BY <1>1, <2>1, <2>3, <2>4, <2>7, <2>8, <2>9, StepTo
<1>5. CASE fs.din[c.ip].type # "DIR"
  <2>1. PutAndFail(p)
    BY <1>5 DEF chdir
  <2> QED BY <1>1, <2>1, PutAndFailLegal DEF Pc
<1> QED BY <1>4, <1>5

LEMMA execLegal ==
  ASSUME FsShape, CallInv, LockInv, NEW p \in Proc, exec(p)
  PROVE  Legal(p, 0, 0)
<1> DEFINE c == call[p]
<1>1. /\ IsCall(c) /\ CallOk(c) /\ c.pc = "exec" /\ Label(c) = "exec" /\ TableOk(itable)
      /\ Fits("exec", c)
  BY DEF CallInv, exec, At, Pc, FsShape, CallOk, Label, Putting
<1>2. \A i \in Inum : Uses(c, cwd[p], i) = Hit(cwd[p], i) + Hit(c.ip, i)
  <2>1. /\ CwdAt("exec", c, cwd[p]) = cwd[p] /\ IpAt("exec", c) = c.ip
        /\ DpAt("exec", c) = 0 /\ LpAt("exec", c) = 0
    BY <1>1 DEF Fits, Creators, CwdAt, IpAt, DpAt, LpAt, ChdirDone, IpLabels, NameLabels
  <2> QED BY <1>1, <2>1, UsesNow, InumZero DEF LabelUses, Putting, Hit
<1>3. \A i \in Inum : itable[i].holder = p => FALSE
  BY <1>1, FsConstants DEF LockInv, Locking, None
<1>4. CASE TRUE
  <2> DEFINE e == [c EXCEPT !.units = Content(fs, c.ip)]
             d == Then(e, <<c.ip>>, "end")
             t1 == Visit(itable, c.ip)
  <2>1. Go(p, d) /\ itable' = t1 /\ cwd' = cwd
    BY DEF exec, Same, UNCH
  <2>2. IsCall(e) /\ e.op = c.op /\ e.r = c.r /\ e.k = c.k /\ e.mode = c.mode /\ e.dp = c.dp /\ e.lp = c.lp /\ e.ip = c.ip
    BY <1>1 DEF IsCall, CallFields
  <2> HIDE DEF e
  <2>3. IsCall(d) /\ SameUse(e, d) /\ Label(d) = "end" /\ Put1(d) = c.ip /\ Put2(d) = 0 /\ PutsOk(d)
        /\ d.pc = "iput"
    <3>1. "end" \in Labels
      BY <1>1 DEF Fits, Labels, IpLabels, NameLabels
    <3>2. IsCall(e)
      BY <2>2
    <3> QED BY ONLY <3>1, <3>2, ThenOne
  <2> HIDE DEF e, d
  <2>4. CallOk(d)
    BY <1>1, <1>4, <2>2, <2>3 DEF CallOk, Fits, SameUse, Labels, IpLabels, NameLabels, Creators
  <2>5. ASSUME NEW i \in Inum PROVE Uses(d, cwd[p], i) = Hit(cwd[p], i) + Hit(c.ip, i)
    <3>1. /\ CwdAt("end", d, cwd[p]) = cwd[p] /\ IpAt("end", d) = 0
          /\ DpAt("end", d) = 0 /\ LpAt("end", d) = 0
      BY <1>1, <1>4, <2>2, <2>3 DEF SameUse, Fits, Creators, CwdAt, IpAt, DpAt, LpAt, ChdirDone, IpLabels, NameLabels
    <3> QED BY <2>3, <3>1, InumZero DEF Uses, LabelUses, Hit
  <2>6. TableOk(t1) /\ \A i \in Inum : t1[i].ref = itable[i].ref /\ t1[i].holder = itable[i].holder
    BY <1>1, VisitTable
  <2> HIDE DEF t1
  <2>7. TableOk(itable') /\ \A i \in Inum : itable'[i].ref \in Int /\ itable[i].ref \in Int
    BY <1>1, <2>1, <2>6 DEF TableOk, Entry1
  <2>8. ASSUME NEW i \in Inum
        PROVE  itable'[i].ref = itable[i].ref + Uses(d, cwd[p], i) - Uses(call[p], cwd[p], i)
    BY <1>2, <1>4, <2>1, <2>5, <2>7, <2>6, InumZero DEF Hit
  <2>9. ASSUME NEW i \in Inum PROVE HolderOk(p, d, i)
    BY <1>1, <1>2, <1>3, <1>4, <2>1, <2>2, <2>3, <2>6 DEF HolderOk, Locking, SameUse
  <2> QED BY <1>1, <2>1, <2>3, <2>4, <2>7, <2>8, <2>9, StepTo
<1> QED BY <1>4

LEMMA reclaimLegal ==
  ASSUME FsShape, CallInv, LockInv, NEW p \in Proc, reclaim(p)
  PROVE  Legal(p, 0, 0)
<1> DEFINE c == call[p]
<1>1. /\ IsCall(c) /\ CallOk(c) /\ c.pc = "reclaim" /\ Label(c) = "reclaim" /\ TableOk(itable)
      /\ Fits("reclaim", c)
  BY DEF CallInv, reclaim, At, Pc, FsShape, CallOk, Label, Putting
<1>2. \A i \in Inum : Uses(c, cwd[p], i) = Hit(cwd[p], i) + Hit(c.ip, i)
  <2>1. /\ CwdAt("reclaim", c, cwd[p]) = cwd[p] /\ IpAt("reclaim", c) = c.ip
        /\ DpAt("reclaim", c) = 0 /\ LpAt("reclaim", c) = 0
    BY <1>1 DEF Fits, Creators, CwdAt, IpAt, DpAt, LpAt, ChdirDone, IpLabels, NameLabels
  <2> QED BY <1>1, <2>1, UsesNow, InumZero DEF LabelUses, Putting, Hit
<1>3. \A i \in Inum : itable[i].holder = p => FALSE
  BY <1>1, FsConstants DEF LockInv, Locking, None
<1>4. CASE TRUE
  <2> DEFINE e == c
             d == Then(e, <<c.ip>>, "end")
             t1 == Visit(itable, c.ip)
  <2>1. Go(p, d) /\ itable' = t1 /\ cwd' = cwd
    BY DEF reclaim, Same, UNCH
  <2>2. IsCall(e) /\ e.op = c.op /\ e.r = c.r /\ e.k = c.k /\ e.mode = c.mode /\ e.dp = c.dp /\ e.lp = c.lp /\ e.ip = c.ip
    BY <1>1 DEF IsCall, CallFields
  <2> HIDE DEF e
  <2>3. IsCall(d) /\ SameUse(e, d) /\ Label(d) = "end" /\ Put1(d) = c.ip /\ Put2(d) = 0 /\ PutsOk(d)
        /\ d.pc = "iput"
    <3>1. "end" \in Labels
      BY <1>1 DEF Fits, Labels, IpLabels, NameLabels
    <3>2. IsCall(e)
      BY <2>2
    <3> QED BY ONLY <3>1, <3>2, ThenOne
  <2> HIDE DEF e, d
  <2>4. CallOk(d)
    BY <1>1, <1>4, <2>2, <2>3 DEF CallOk, Fits, SameUse, Labels, IpLabels, NameLabels, Creators
  <2>5. ASSUME NEW i \in Inum PROVE Uses(d, cwd[p], i) = Hit(cwd[p], i) + Hit(c.ip, i)
    <3>1. /\ CwdAt("end", d, cwd[p]) = cwd[p] /\ IpAt("end", d) = 0
          /\ DpAt("end", d) = 0 /\ LpAt("end", d) = 0
      BY <1>1, <1>4, <2>2, <2>3 DEF SameUse, Fits, Creators, CwdAt, IpAt, DpAt, LpAt, ChdirDone, IpLabels, NameLabels
    <3> QED BY <2>3, <3>1, InumZero DEF Uses, LabelUses, Hit
  <2>6. TableOk(t1) /\ \A i \in Inum : t1[i].ref = itable[i].ref /\ t1[i].holder = itable[i].holder
    BY <1>1, VisitTable
  <2> HIDE DEF t1
  <2>7. TableOk(itable') /\ \A i \in Inum : itable'[i].ref \in Int /\ itable[i].ref \in Int
    BY <1>1, <2>1, <2>6 DEF TableOk, Entry1
  <2>8. ASSUME NEW i \in Inum
        PROVE  itable'[i].ref = itable[i].ref + Uses(d, cwd[p], i) - Uses(call[p], cwd[p], i)
    BY <1>2, <1>4, <2>1, <2>5, <2>7, <2>6, InumZero DEF Hit
  <2>9. ASSUME NEW i \in Inum PROVE HolderOk(p, d, i)
    BY <1>1, <1>2, <1>3, <1>4, <2>1, <2>2, <2>3, <2>6 DEF HolderOk, Locking, SameUse
  <2> QED BY <1>1, <2>1, <2>3, <2>4, <2>7, <2>8, <2>9, StepTo
<1> QED BY <1>4

LEMMA readLegal ==
  ASSUME FsShape, CallInv, LockInv, NEW p \in Proc, read(p)
  PROVE  Legal(p, 0, 0)
<1> DEFINE c == call[p]
           j == file[c.f].ip
           u == readi(fs, j, file[c.f].off, c.n)
           bad == "badbuf" \in c.mode /\ u # <<>>
<1>1. /\ IsCall(c) /\ CallOk(c) /\ c.pc = "read" /\ Label(c) = "read" /\ TableOk(itable)
      /\ Fits("read", c)
  BY DEF CallInv, read, At, Pc, FsShape, CallOk, Label, Putting
<1>2. \A i \in Inum : Uses(c, cwd[p], i) = Hit(cwd[p], i)
  <2>1. /\ CwdAt("read", c, cwd[p]) = cwd[p] /\ IpAt("read", c) = 0
        /\ DpAt("read", c) = 0 /\ LpAt("read", c) = 0
    BY <1>1 DEF Fits, Creators, CwdAt, IpAt, DpAt, LpAt, ChdirDone, IpLabels, NameLabels
  <2> QED BY <1>1, <2>1, UsesNow, InumZero DEF LabelUses, Putting, Hit
<1>3. \A i \in Inum : itable[i].holder = p => FALSE
  BY <1>1, FsConstants DEF LockInv, Locking, None
<1>4. CASE TRUE
  <2> DEFINE e == [c EXCEPT !.pc = "idle", !.r = IF bad THEN -1 ELSE Len(u), !.units = u]
             d == e
             t1 == Visit(itable, j)
  <2>1. Go(p, d) /\ itable' = t1 /\ cwd' = cwd
    BY DEF read, Same, UNCH
  <2>2. IsCall(e) /\ e.op = c.op /\ e.k = c.k /\ e.mode = c.mode /\ e.pc = "idle"
    BY <1>1 DEF IsCall, CallFields
  <2>3. IsCall(d) /\ SameUse(e, d) /\ Label(d) = "idle" /\ Put1(d) = 0 /\ Put2(d) = 0 /\ PutsOk(d)
        /\ d.pc = "idle"
    BY <1>1, <1>2, <1>4, <2>2 DEF SameUse, Label, Putting, Put1, Put2, PutsOk, Fits, NameLabels
  <2> HIDE DEF e, d
  <2>4. CallOk(d)
    BY <1>1, <1>4, <2>2, <2>3 DEF CallOk, Fits, SameUse, Labels, IpLabels, NameLabels, Creators
  <2>5. ASSUME NEW i \in Inum PROVE Uses(d, cwd[p], i) = Hit(cwd[p], i)
    <3>1. /\ CwdAt("idle", d, cwd[p]) = cwd[p] /\ IpAt("idle", d) = 0
          /\ DpAt("idle", d) = 0 /\ LpAt("idle", d) = 0
      BY <1>1, <1>4, <2>2, <2>3 DEF SameUse, Fits, Creators, CwdAt, IpAt, DpAt, LpAt, ChdirDone, IpLabels, NameLabels
    <3> QED BY <2>3, <3>1, InumZero DEF Uses, LabelUses, Hit
  <2>6. TableOk(t1) /\ \A i \in Inum : t1[i].ref = itable[i].ref /\ t1[i].holder = itable[i].holder
    BY <1>1, VisitTable
  <2> HIDE DEF t1
  <2>7. TableOk(itable') /\ \A i \in Inum : itable'[i].ref \in Int /\ itable[i].ref \in Int
    BY <1>1, <2>1, <2>6 DEF TableOk, Entry1
  <2>8. ASSUME NEW i \in Inum
        PROVE  itable'[i].ref = itable[i].ref + Uses(d, cwd[p], i) - Uses(call[p], cwd[p], i)
    BY <1>2, <1>4, <2>1, <2>5, <2>7, <2>6, InumZero DEF Hit
  <2>9. ASSUME NEW i \in Inum PROVE HolderOk(p, d, i)
    BY <1>1, <1>2, <1>3, <1>4, <2>1, <2>2, <2>3, <2>6 DEF HolderOk, Locking, SameUse
  <2> QED BY <1>1, <2>1, <2>3, <2>4, <2>7, <2>8, <2>9, StepTo
<1> QED BY <1>4

LEMMA writeLegal ==
  ASSUME FsShape, CallInv, LockInv, NEW p \in Proc, write(p)
  PROVE  Legal(p, 0, 0)
<1> DEFINE c == call[p]
           j == file[c.f].ip
           n1 == Min({Len(c.units) - c.n, MaxWrite})
           w  == writei(fs, j, file[c.f].off, SubSeq(c.units, c.n + 1, c.n + n1))
           ok == w.n = n1
<1>1. /\ IsCall(c) /\ CallOk(c) /\ c.pc = "write" /\ Label(c) = "write" /\ TableOk(itable)
      /\ Fits("write", c)
  BY DEF CallInv, write, At, Pc, FsShape, CallOk, Label, Putting
<1>2. \A i \in Inum : Uses(c, cwd[p], i) = Hit(cwd[p], i)
  <2>1. /\ CwdAt("write", c, cwd[p]) = cwd[p] /\ IpAt("write", c) = 0
        /\ DpAt("write", c) = 0 /\ LpAt("write", c) = 0
    BY <1>1 DEF Fits, Creators, CwdAt, IpAt, DpAt, LpAt, ChdirDone, IpLabels, NameLabels
  <2> QED BY <1>1, <2>1, UsesNow, InumZero DEF LabelUses, Putting, Hit
<1>3. \A i \in Inum : itable[i].holder = p => FALSE
  BY <1>1, FsConstants DEF LockInv, Locking, None
<1>4. CASE TRUE
  <2> DEFINE e == [c EXCEPT !.pc = "end", !.n = IF ok THEN @ + n1 ELSE @, !.r = IF ok THEN c.n + n1 ELSE -1]
             d == e
             t1 == Visit(itable, j)
  <2>1. Go(p, d) /\ itable' = t1 /\ cwd' = cwd
    BY DEF write, Same, UNCH
  <2>2. IsCall(e) /\ e.op = c.op /\ e.k = c.k /\ e.mode = c.mode /\ e.pc = "end"
    BY <1>1 DEF IsCall, CallFields
  <2>3. IsCall(d) /\ SameUse(e, d) /\ Label(d) = "end" /\ Put1(d) = 0 /\ Put2(d) = 0 /\ PutsOk(d)
        /\ d.pc = "end"
    BY <1>1, <1>2, <1>4, <2>2 DEF SameUse, Label, Putting, Put1, Put2, PutsOk, Fits, NameLabels
  <2> HIDE DEF e, d
  <2>4. CallOk(d)
    BY <1>1, <1>4, <2>2, <2>3 DEF CallOk, Fits, SameUse, Labels, IpLabels, NameLabels, Creators
  <2>5. ASSUME NEW i \in Inum PROVE Uses(d, cwd[p], i) = Hit(cwd[p], i)
    <3>1. /\ CwdAt("end", d, cwd[p]) = cwd[p] /\ IpAt("end", d) = 0
          /\ DpAt("end", d) = 0 /\ LpAt("end", d) = 0
      BY <1>1, <1>4, <2>2, <2>3 DEF SameUse, Fits, Creators, CwdAt, IpAt, DpAt, LpAt, ChdirDone, IpLabels, NameLabels
    <3> QED BY <2>3, <3>1, InumZero DEF Uses, LabelUses, Hit
  <2>6. TableOk(t1) /\ \A i \in Inum : t1[i].ref = itable[i].ref /\ t1[i].holder = itable[i].holder
    BY <1>1, VisitTable
  <2> HIDE DEF t1
  <2>7. TableOk(itable') /\ \A i \in Inum : itable'[i].ref \in Int /\ itable[i].ref \in Int
    BY <1>1, <2>1, <2>6 DEF TableOk, Entry1
  <2>8. ASSUME NEW i \in Inum
        PROVE  itable'[i].ref = itable[i].ref + Uses(d, cwd[p], i) - Uses(call[p], cwd[p], i)
    BY <1>2, <1>4, <2>1, <2>5, <2>7, <2>6, InumZero DEF Hit
  <2>9. ASSUME NEW i \in Inum PROVE HolderOk(p, d, i)
    BY <1>1, <1>2, <1>3, <1>4, <2>1, <2>2, <2>3, <2>6 DEF HolderOk, Locking, SameUse
  <2> QED BY <1>1, <2>1, <2>3, <2>4, <2>7, <2>8, <2>9, StepTo
<1> QED BY <1>4

LEMMA fstatLegal ==
  ASSUME FsShape, CallInv, LockInv, NEW p \in Proc, fstat(p)
  PROVE  Legal(p, 0, 0)
<1> DEFINE c == call[p]
           j == file[c.f].ip
           dd == fs.din[j]
<1>1. /\ IsCall(c) /\ CallOk(c) /\ c.pc = "fstat" /\ Label(c) = "fstat" /\ TableOk(itable)
      /\ Fits("fstat", c)
  BY DEF CallInv, fstat, At, Pc, FsShape, CallOk, Label, Putting
<1>2. \A i \in Inum : Uses(c, cwd[p], i) = Hit(cwd[p], i)
  <2>1. /\ CwdAt("fstat", c, cwd[p]) = cwd[p] /\ IpAt("fstat", c) = 0
        /\ DpAt("fstat", c) = 0 /\ LpAt("fstat", c) = 0
    BY <1>1 DEF Fits, Creators, CwdAt, IpAt, DpAt, LpAt, ChdirDone, IpLabels, NameLabels
  <2> QED BY <1>1, <2>1, UsesNow, InumZero DEF LabelUses, Putting, Hit
<1>3. \A i \in Inum : itable[i].holder = p => FALSE
  BY <1>1, FsConstants DEF LockInv, Locking, None
<1>4. CASE TRUE
  <2> DEFINE e == [c EXCEPT !.pc = "idle", !.r = IF "badbuf" \in c.mode THEN -1 ELSE 0, !.units = << <<dd.type, dd.nlink>>, <<dd.size, j>> >>]
             d == e
             t1 == Visit(itable, j)
  <2>1. Go(p, d) /\ itable' = t1 /\ cwd' = cwd
    BY DEF fstat, Same, UNCH
  <2>2. IsCall(e) /\ e.op = c.op /\ e.k = c.k /\ e.mode = c.mode /\ e.pc = "idle"
    BY <1>1 DEF IsCall, CallFields
  <2>3. IsCall(d) /\ SameUse(e, d) /\ Label(d) = "idle" /\ Put1(d) = 0 /\ Put2(d) = 0 /\ PutsOk(d)
        /\ d.pc = "idle"
    BY <1>1, <1>2, <1>4, <2>2 DEF SameUse, Label, Putting, Put1, Put2, PutsOk, Fits, NameLabels
  <2> HIDE DEF e, d
  <2>4. CallOk(d)
    BY <1>1, <1>4, <2>2, <2>3 DEF CallOk, Fits, SameUse, Labels, IpLabels, NameLabels, Creators
  <2>5. ASSUME NEW i \in Inum PROVE Uses(d, cwd[p], i) = Hit(cwd[p], i)
    <3>1. /\ CwdAt("idle", d, cwd[p]) = cwd[p] /\ IpAt("idle", d) = 0
          /\ DpAt("idle", d) = 0 /\ LpAt("idle", d) = 0
      BY <1>1, <1>4, <2>2, <2>3 DEF SameUse, Fits, Creators, CwdAt, IpAt, DpAt, LpAt, ChdirDone, IpLabels, NameLabels
    <3> QED BY <2>3, <3>1, InumZero DEF Uses, LabelUses, Hit
  <2>6. TableOk(t1) /\ \A i \in Inum : t1[i].ref = itable[i].ref /\ t1[i].holder = itable[i].holder
    BY <1>1, VisitTable
  <2> HIDE DEF t1
  <2>7. TableOk(itable') /\ \A i \in Inum : itable'[i].ref \in Int /\ itable[i].ref \in Int
    BY <1>1, <2>1, <2>6 DEF TableOk, Entry1
  <2>8. ASSUME NEW i \in Inum
        PROVE  itable'[i].ref = itable[i].ref + Uses(d, cwd[p], i) - Uses(call[p], cwd[p], i)
    BY <1>2, <1>4, <2>1, <2>5, <2>7, <2>6, InumZero DEF Hit
  <2>9. ASSUME NEW i \in Inum PROVE HolderOk(p, d, i)
    BY <1>1, <1>2, <1>3, <1>4, <2>1, <2>2, <2>3, <2>6 DEF HolderOk, Locking, SameUse
  <2> QED BY <1>1, <2>1, <2>3, <2>4, <2>7, <2>8, <2>9, StepTo
<1> QED BY <1>4

-----------------------------------------------------------------------------
(* begin_op, end_op and the calls that begin *)

LEMMA begin_opLegal ==
  ASSUME FsShape, CallInv, LockInv, NEW p \in Proc, begin_op(p)
  PROVE  Legal(p, 0, 0)
<1> DEFINE c == call[p]
<1>1. /\ IsCall(c) /\ CallOk(c) /\ c.pc = "begin" /\ Label(c) = "begin" /\ TableOk(itable)
      /\ Fits("begin", c)
  BY DEF CallInv, begin_op, At, Pc, FsShape, CallOk, Label, Putting
<1>2. \A i \in Inum : Uses(c, cwd[p], i) = Hit(CwdAt("begin", c, cwd[p]), i) + Hit(IpAt("begin", c), i)
  <2>1. /\ CwdAt("begin", c, cwd[p]) = CwdAt("begin", c, cwd[p]) /\ IpAt("begin", c) = IpAt("begin", c)
        /\ DpAt("begin", c) = 0 /\ LpAt("begin", c) = 0
    BY <1>1 DEF Fits, Creators, CwdAt, IpAt, DpAt, LpAt, ChdirDone, IpLabels, NameLabels
  <2> QED BY <1>1, <2>1, UsesNow, InumZero DEF LabelUses, Putting, Hit
<1>3. \A i \in Inum : itable[i].holder = p => FALSE
  BY <1>1, FsConstants DEF LockInv, Locking, None
<1>4. CASE c.op = "write" /\ IpAt("begin", c) = 0
  <2> DEFINE e == c
             d == [e EXCEPT !.pc = "write"]
  <2>1. Go(p, d) /\ itable' = itable /\ cwd' = cwd
    BY <1>1, <1>4 DEF begin_op
  <2>2. IsCall(e) /\ e.op = c.op /\ e.r = c.r /\ e.k = c.k /\ e.mode = c.mode /\ e.dp = c.dp /\ e.lp = c.lp /\ e.ip = c.ip
    BY <1>1 DEF IsCall, CallFields
  <2> HIDE DEF e
  <2>3. IsCall(d) /\ SameUse(e, d) /\ Label(d) = "write" /\ Put1(d) = 0 /\ Put2(d) = 0 /\ PutsOk(d)
        /\ d.pc = "write"
    <3>1. "write" \in Labels
      BY <1>1 DEF Fits, Labels, IpLabels, NameLabels
    <3>2. IsCall(e)
      BY <2>2
    <3> QED BY ONLY <3>1, <3>2, Goes
  <2> HIDE DEF e, d
  <2>4. CallOk(d)
    BY <1>1, <1>4, <2>2, <2>3 DEF CallOk, Fits, SameUse, Labels, IpLabels, NameLabels, Creators
  <2>5. ASSUME NEW i \in Inum PROVE Uses(d, cwd[p], i) = Hit(CwdAt("begin", c, cwd[p]), i)
    <3>1. /\ CwdAt("write", d, cwd[p]) = CwdAt("begin", c, cwd[p]) /\ IpAt("write", d) = 0
          /\ DpAt("write", d) = 0 /\ LpAt("write", d) = 0
      BY <1>1, <1>4, <2>2, <2>3 DEF SameUse, Fits, Creators, CwdAt, IpAt, DpAt, LpAt, ChdirDone, IpLabels, NameLabels
    <3> QED BY <2>3, <3>1, InumZero DEF Uses, LabelUses, Hit
  <2>6. TableOk(itable') /\ \A i \in Inum : itable'[i].ref \in Int /\ itable[i].ref \in Int
    BY <1>1, <2>1 DEF TableOk, Entry1
  <2>7. ASSUME NEW i \in Inum
        PROVE  itable'[i].ref = itable[i].ref + Uses(d, cwd[p], i) - Uses(call[p], cwd[p], i)
    BY <1>2, <1>4, <2>1, <2>5, <2>6, InumZero DEF Hit
  <2>8. ASSUME NEW i \in Inum PROVE HolderOk(p, d, i)
    BY <1>1, <1>2, <1>3, <1>4, <2>1, <2>2, <2>3 DEF HolderOk, Locking, SameUse
  <2> QED BY <1>1, <2>1, <2>3, <2>4, <2>6, <2>7, <2>8, StepTo
<1>5. CASE c.op \in {"close", "exitcwd"} /\ IpAt("begin", c) = c.ip
  <2> DEFINE e == c
             d == Then(e, <<c.ip>>, "end")
  <2>1. Go(p, d) /\ itable' = itable /\ cwd' = cwd
    BY <1>1, <1>5 DEF begin_op, Fits
  <2>2. IsCall(e) /\ e.op = c.op /\ e.r = c.r /\ e.k = c.k /\ e.mode = c.mode /\ e.dp = c.dp /\ e.lp = c.lp /\ e.ip = c.ip
    BY <1>1 DEF IsCall, CallFields
  <2> HIDE DEF e
  <2>3. IsCall(d) /\ SameUse(e, d) /\ Label(d) = "end" /\ Put1(d) = c.ip /\ Put2(d) = 0 /\ PutsOk(d)
        /\ d.pc = "iput"
    <3>1. "end" \in Labels
      BY <1>1 DEF Fits, Labels, IpLabels, NameLabels
    <3>2. IsCall(e)
      BY <2>2
    <3> QED BY ONLY <3>1, <3>2, ThenOne
  <2> HIDE DEF e, d
  <2>4. CallOk(d)
    BY <1>1, <1>5, <2>2, <2>3 DEF CallOk, Fits, SameUse, Labels, IpLabels, NameLabels, Creators
  <2>5. ASSUME NEW i \in Inum PROVE Uses(d, cwd[p], i) = Hit(CwdAt("begin", c, cwd[p]), i) + Hit(c.ip, i)
    <3>1. /\ CwdAt("end", d, cwd[p]) = CwdAt("begin", c, cwd[p]) /\ IpAt("end", d) = 0
          /\ DpAt("end", d) = 0 /\ LpAt("end", d) = 0
      BY <1>1, <1>5, <2>2, <2>3 DEF SameUse, Fits, Creators, CwdAt, IpAt, DpAt, LpAt, ChdirDone, IpLabels, NameLabels
    <3> QED BY <2>3, <3>1, InumZero DEF Uses, LabelUses, Hit
  <2>6. TableOk(itable') /\ \A i \in Inum : itable'[i].ref \in Int /\ itable[i].ref \in Int
    BY <1>1, <2>1 DEF TableOk, Entry1
  <2>7. ASSUME NEW i \in Inum
        PROVE  itable'[i].ref = itable[i].ref + Uses(d, cwd[p], i) - Uses(call[p], cwd[p], i)
    BY <1>2, <1>5, <2>1, <2>5, <2>6, InumZero DEF Hit
  <2>8. ASSUME NEW i \in Inum PROVE HolderOk(p, d, i)
    BY <1>1, <1>2, <1>3, <1>5, <2>1, <2>2, <2>3 DEF HolderOk, Locking, SameUse
  <2> QED BY <1>1, <2>1, <2>3, <2>4, <2>6, <2>7, <2>8, StepTo
<1>6. CASE c.op \in {"link", "open", "chdir", "exec"} /\ "CREATE" \notin c.mode
  <2>1. Namex(p, call[p], c.path, FALSE, c.op) /\ cwd' = cwd
    BY <1>6 DEF begin_op
  <2>2. c.op \in {"link", "open", "chdir", "exec", "unlink", "create"} /\ c.op # "create"
    BY <1>6
  <2> QED BY <1>1, <2>1, <2>2, NamexLegal DEF Pc
<1>7. CASE c.op = "unlink"
  <2>1. Namex(p, call[p], c.path, TRUE, "unlink") /\ cwd' = cwd
    BY <1>1, <1>7 DEF begin_op, Fits
  <2> QED BY <1>1, <1>7, <2>1, NamexLegal DEF Pc
<1>8. CASE c.op \in {"mkdir", "mknod"} \/ "CREATE" \in c.mode
  <2>1. c.op \in Creators
    BY <1>1, <1>8 DEF Fits, Creators
  <2>2. Namex(p, call[p], c.path, TRUE, "create") /\ cwd' = cwd
    BY <1>1, <1>8, <2>1 DEF begin_op, Creators
  <2> QED BY <1>1, <2>1, <2>2, NamexLegal DEF Pc
<1>9. CASE c.op = "write"
  BY <1>4, <1>9 DEF IpAt, IpLabels, NameLabels, ChdirDone
<1>10. CASE c.op \in {"close", "exitcwd"}
  BY <1>5, <1>10 DEF IpAt
<1>11. CASE c.op = "reclaim" /\ IpAt("begin", c) = c.ip
  <2> DEFINE e == c
             d == [e EXCEPT !.pc = "reclaim"]
  <2>1. Go(p, d) /\ itable' = itable /\ cwd' = cwd
    BY <1>1, <1>11 DEF begin_op
  <2>2. IsCall(e) /\ e.op = c.op /\ e.r = c.r /\ e.k = c.k /\ e.mode = c.mode /\ e.dp = c.dp /\ e.lp = c.lp /\ e.ip = c.ip
    BY <1>1 DEF IsCall, CallFields
  <2> HIDE DEF e
  <2>3. IsCall(d) /\ SameUse(e, d) /\ Label(d) = "reclaim" /\ Put1(d) = 0 /\ Put2(d) = 0 /\ PutsOk(d)
        /\ d.pc = "reclaim"
    <3>1. "reclaim" \in Labels
      BY <1>1 DEF Fits, Labels, IpLabels, NameLabels
    <3>2. IsCall(e)
      BY <2>2
    <3> QED BY ONLY <3>1, <3>2, Goes
  <2> HIDE DEF e, d
  <2>4. CallOk(d)
    BY <1>1, <1>11, <2>2, <2>3 DEF CallOk, Fits, SameUse, Labels, IpLabels, NameLabels, Creators
  <2>5. ASSUME NEW i \in Inum PROVE Uses(d, cwd[p], i) = Hit(CwdAt("begin", c, cwd[p]), i) + Hit(c.ip, i)
    <3>1. /\ CwdAt("reclaim", d, cwd[p]) = CwdAt("begin", c, cwd[p]) /\ IpAt("reclaim", d) = c.ip
          /\ DpAt("reclaim", d) = 0 /\ LpAt("reclaim", d) = 0
      BY <1>1, <1>11, <2>2, <2>3 DEF SameUse, Fits, Creators, CwdAt, IpAt, DpAt, LpAt, ChdirDone, IpLabels, NameLabels
    <3> QED BY <2>3, <3>1, InumZero DEF Uses, LabelUses, Hit
  <2>6. TableOk(itable') /\ \A i \in Inum : itable'[i].ref \in Int /\ itable[i].ref \in Int
    BY <1>1, <2>1 DEF TableOk, Entry1
  <2>7. ASSUME NEW i \in Inum
        PROVE  itable'[i].ref = itable[i].ref + Uses(d, cwd[p], i) - Uses(call[p], cwd[p], i)
    BY <1>2, <1>11, <2>1, <2>5, <2>6, InumZero DEF Hit
  <2>8. ASSUME NEW i \in Inum PROVE HolderOk(p, d, i)
    BY <1>1, <1>2, <1>3, <1>11, <2>1, <2>2, <2>3 DEF HolderOk, Locking, SameUse
  <2> QED BY <1>1, <2>1, <2>3, <2>4, <2>6, <2>7, <2>8, StepTo
<1>12. CASE c.op = "reclaim"
  BY <1>11, <1>12 DEF IpAt
<1> QED BY <1>1, <1>6, <1>7, <1>8, <1>9, <1>10, <1>12 DEF Fits, Creators

LEMMA end_opLegal ==
  ASSUME FsShape, CallInv, LockInv, NEW p \in Proc, end_op(p)
  PROVE  Legal(p, 0, 0)
<1> DEFINE c == call[p]
           more == c.op = "write" /\ c.r # -1 /\ c.n < Len(c.units)
           l == IF more THEN "begin" ELSE "idle"
           d == [c EXCEPT !.pc = l]
<1>1. /\ IsCall(c) /\ CallOk(c) /\ c.pc = "end" /\ Label(c) = "end" /\ TableOk(itable)
      /\ Fits("end", c)
  BY DEF CallInv, end_op, At, Pc, FsShape, CallOk, Label, Putting
<1>2. /\ Go(p, d) /\ itable' = itable
      /\ cwd' = IF c.op = "chdir" /\ c.r = 0 THEN [cwd EXCEPT ![p] = c.ip]
                ELSE IF c.op = "exitcwd" THEN [cwd EXCEPT ![p] = 0] ELSE cwd
  BY DEF end_op
<1>3. l \in {"begin", "idle"} /\ (l = "begin" => c.op = "write")
  OBVIOUS
<1> HIDE DEF l, d
<1>4. IsCall(d) /\ SameUse(c, d) /\ Label(d) = l /\ d.pc = l /\ PutsOk(d) /\ Put1(d) = 0 /\ Put2(d) = 0
  <2>1. l \in Labels
    BY <1>3 DEF Labels
  <2>2. IsCall(c)
    BY <1>1
  <2> QED BY ONLY <2>1, <2>2, Goes DEF d
<1>5. CallOk(d)
  BY <1>1, <1>3, <1>4 DEF CallOk, Fits, SameUse, Labels, IpLabels, NameLabels, Creators
<1>6. /\ call' = [call EXCEPT ![p] = call'[p]] /\ cwd' = [cwd EXCEPT ![p] = cwd'[p]]
      /\ call'[p] = d
      /\ cwd'[p] = IF c.op = "chdir" /\ c.r = 0 THEN c.ip
                   ELSE IF c.op = "exitcwd" THEN 0 ELSE cwd[p]
  BY <1>2 DEF Go, FsShape
<1>7. ASSUME NEW i \in Inum PROVE Uses(d, cwd'[p], i) = Uses(c, cwd[p], i)
  <2> DEFINE w == cwd'[p]
  <2>1. /\ DpAt("end", c) = 0 /\ LpAt("end", c) = 0 /\ DpAt(l, d) = 0 /\ LpAt(l, d) = 0
    BY <1>3, <1>4 DEF DpAt, LpAt
  <2>2. CASE c.op = "chdir" /\ c.r = 0
    <3>1. CwdAt("end", c, cwd[p]) = 0 /\ IpAt("end", c) = c.ip
      BY <2>2 DEF CwdAt, IpAt, ChdirDone
    <3>2. CwdAt(l, d, w) = c.ip /\ IpAt(l, d) = 0
      BY <1>3, <1>4, <1>6, <2>2 DEF CwdAt, IpAt, ChdirDone, SameUse, IpLabels, NameLabels
    <3> QED BY <1>1, <1>4, <2>1, <3>1, <3>2, UsesNow, InumZero DEF LabelUses, Uses, Putting, Hit
  <2>3. CASE ~(c.op = "chdir" /\ c.r = 0) /\ c.op = "exitcwd"
    <3>1. CwdAt("end", c, cwd[p]) = 0 /\ IpAt("end", c) = 0
      BY <2>3 DEF CwdAt, IpAt, ChdirDone, IpLabels, NameLabels
    <3>2. CwdAt(l, d, w) = 0 /\ IpAt(l, d) = 0
      BY <1>3, <1>4, <1>6, <2>3 DEF CwdAt, IpAt, ChdirDone, SameUse, IpLabels, NameLabels
    <3> QED BY <1>1, <1>4, <2>1, <3>1, <3>2, UsesNow, InumZero DEF LabelUses, Uses, Putting, Hit
  <2>4. CASE ~(c.op = "chdir" /\ c.r = 0) /\ c.op # "exitcwd"
    <3>1. CwdAt("end", c, cwd[p]) = cwd[p] /\ IpAt("end", c) = 0
      BY <2>4 DEF CwdAt, IpAt, ChdirDone, IpLabels, NameLabels
    <3>2. CwdAt(l, d, w) = cwd[p] /\ IpAt(l, d) = 0
      BY <1>3, <1>4, <1>6, <2>4 DEF CwdAt, IpAt, ChdirDone, SameUse, IpLabels, NameLabels
    <3> QED BY <1>1, <1>4, <2>1, <3>1, <3>2, UsesNow, InumZero DEF LabelUses, Uses, Putting, Hit
  <2> QED BY <2>2, <2>3, <2>4
<1>8. ASSUME NEW i \in Inum
      PROVE  itable'[i].ref = itable[i].ref + Hit(0, i) - Hit(0, i)
                               + Uses(call'[p], cwd'[p], i) - Uses(call[p], cwd[p], i)
  <2>1. Uses(c, cwd[p], i) \in Int /\ itable[i].ref \in Int
    BY <1>1 DEF Uses, LabelUses, Hit, TableOk, Entry1
  <2> QED BY <1>2, <1>6, <1>7, <2>1, InumZero
<1>9. ASSUME NEW i \in Inum PROVE HolderOk(p, call'[p], i)
  <2>1. ~Locking(c, i)
    BY <1>1 DEF Locking
  <2> QED BY <1>2, <2>1, HolderKept
<1> QED BY <1>1, <1>2, <1>4, <1>5, <1>6, <1>8, <1>9 DEF Legal

-----------------------------------------------------------------------------
(* The files and the descriptors *)

FileFields == {"ref", "type", "readable", "writable", "ip", "off"}
IsFile(x) == x = [y \in FileFields |-> x[y]]
Use(x) == IF x.type \in {"INODE", "DEVICE"} THEN x.ip ELSE 0
FdsOf(o, f) == {x \in Proc \X Fd : o[x[1]][x[2]] = f}

GoodFile(x) == /\ IsFile(x) /\ x.type \in {"NONE", "INODE", "DEVICE", "PIPE"}
               /\ x.ref = 0 <=> x.type = "NONE"
FileShape == /\ file = [f \in File |-> file[f]]
             /\ ofile \in [Proc -> [Fd -> File \cup {0}]]
             /\ \A f \in File : GoodFile(file[f])
FileInv == FileShape /\ \A f \in File : file[f].ref = Cardinality(FdsOf(ofile, f))

FileStep(y, z) == FileInv' /\ FilesMore(y, z)

LEMMA Tables ==
  /\ IsFiniteSet(File) /\ IsFiniteSet(Fd) /\ IsFiniteSet(Proc \X Fd)
  /\ File \subseteq Nat /\ Fd \subseteq Nat /\ 0 \notin File
<1>1. IsFiniteSet(File) /\ IsFiniteSet(Fd) /\ IsFiniteSet(Proc)
  BY FsConstants, FS_Interval DEF File, Fd
<1>2. IsFiniteSet(Proc \X Fd)
  BY <1>1, FS_Product
<1>3. File \subseteq Nat /\ Fd \subseteq Nat /\ 0 \notin File
  BY FsConstants DEF File, Fd
<1> QED BY <1>1, <1>2, <1>3

LEMMA FilesFinite == \A t : \A i \in Inum : Cardinality(FilesOf(t, i)) \in Nat
<1> SUFFICES ASSUME NEW t, NEW i \in Inum PROVE Cardinality(FilesOf(t, i)) \in Nat
  OBVIOUS
<1>1. FilesOf(t, i) \in SUBSET File
  BY DEF FilesOf
<1> HIDE DEF FilesOf
<1> QED BY <1>1, Tables, FS_Subset, FS_CardinalityType

LEMMA FilesMoved ==
  ASSUME NEW f \in File, \A g \in File \ {f} : Use(file'[g]) = Use(file[g])
  PROVE  FilesMore(Use(file[f]), Use(file'[f]))
<1> DEFINE u == [g \in File |-> Use(file[g])]
           v == [g \in File |-> Use(file'[g])]
<1> SUFFICES ASSUME NEW i \in Inum
             PROVE  Cardinality(FilesOf(file', i)) = Cardinality(FilesOf(file, i)) + Hit(Use(file'[f]), i) - Hit(Use(file[f]), i)
  BY DEF FilesMore
<1>1. FilesOf(file, i) = {g \in File : u[g] = i} /\ FilesOf(file', i) = {g \in File : v[g] = i}
  BY InumZero DEF FilesOf, Use
<1>2. IsFiniteSet(File) /\ \A g \in File \ {f} : v[g] = u[g]
  BY Tables
<1>3. u[f] = Use(file[f]) /\ v[f] = Use(file'[f])
  OBVIOUS
<1> HIDE DEF u, v
<1>4. /\ CountIn(File, u, i) \in Nat /\ CountIn(File, v, i) \in Nat
      /\ CountIn(File, v, i) = CountIn(File, u, i) - Hit(u[f], i) + Hit(v[f], i)
  BY <1>2, CountMoved
<1>5. CountIn(File, u, i) = Cardinality(FilesOf(file, i)) /\ CountIn(File, v, i) = Cardinality(FilesOf(file', i))
  BY <1>1 DEF CountIn
<1>6. Hit(u[f], i) \in Int /\ Hit(v[f], i) \in Int
  BY DEF Hit
<1> QED BY <1>3, <1>4, <1>5, <1>6

LEMMA FilesSame ==
  ASSUME \A g \in File : Use(file'[g]) = Use(file[g])
  PROVE  FilesMore(0, 0)
<1> SUFFICES ASSUME NEW i \in Inum
             PROVE  Cardinality(FilesOf(file', i)) = Cardinality(FilesOf(file, i)) + Hit(0, i) - Hit(0, i)
  BY DEF FilesMore
<1>1. FilesOf(file', i) = FilesOf(file, i)
  BY InumZero DEF FilesOf, Use
<1> QED BY <1>1, FilesFinite, InumZero

LEMMA FdsFinite == \A o, f : Cardinality(FdsOf(o, f)) \in Nat
<1> SUFFICES ASSUME NEW o, NEW f PROVE Cardinality(FdsOf(o, f)) \in Nat
  OBVIOUS
<1>1. FdsOf(o, f) \in SUBSET (Proc \X Fd)
  BY DEF FdsOf
<1> HIDE DEF FdsOf
<1> QED BY <1>1, Tables, FS_Subset, FS_CardinalityType

\* One file changes, and one descriptor.
FileTo(g, x)  == file' = [file EXCEPT ![g] = x]
FdTo(p, d, h) == ofile' = [ofile EXCEPT ![p][d] = h]
LEMMA FdMoved ==
  ASSUME NEW p \in Proc, NEW d \in Fd, NEW g \in File \cup {0},
         ofile \in [Proc -> [Fd -> File \cup {0}]], ofile' = [ofile EXCEPT ![p][d] = g]
  PROVE  /\ ofile' \in [Proc -> [Fd -> File \cup {0}]]
         /\ \A f : Cardinality(FdsOf(ofile', f)) = Cardinality(FdsOf(ofile, f)) - Hit(ofile[p][d], f) + Hit(g, f)
<1> DEFINE S == Proc \X Fd
           u == [x \in S |-> ofile[x[1]][x[2]]]
           v == [x \in S |-> ofile'[x[1]][x[2]]]
           x0 == <<p, d>>
<1>1. ofile' \in [Proc -> [Fd -> File \cup {0}]]
  OBVIOUS
<1>2. x0 \in S /\ u[x0] = ofile[p][d] /\ v[x0] = g
  OBVIOUS
<1>3. \A x \in S \ {x0} : v[x] = u[x]
  <2> SUFFICES ASSUME NEW x \in S, x # x0 PROVE v[x] = u[x]
    OBVIOUS
  <2>1. x = <<x[1], x[2]>> /\ x[1] \in Proc /\ x[2] \in Fd
    OBVIOUS
  <2>2. x[1] # p \/ x[2] # d
    BY <2>1
  <2> QED BY <2>1, <2>2
<1>4. IsFiniteSet(S)
  BY Tables
<1>5. ASSUME NEW f
      PROVE  Cardinality(FdsOf(ofile', f)) = Cardinality(FdsOf(ofile, f)) - Hit(ofile[p][d], f) + Hit(g, f)
  <2>1. FdsOf(ofile, f) = {x \in S : u[x] = f} /\ FdsOf(ofile', f) = {x \in S : v[x] = f}
    BY DEF FdsOf
  <2> HIDE DEF S, u, v, x0
  <2>2. CountIn(S, v, f) = CountIn(S, u, f) - Hit(u[x0], f) + Hit(v[x0], f)
    BY ONLY <1>2, <1>3, <1>4, CountMoved
  <2>3. CountIn(S, u, f) = Cardinality(FdsOf(ofile, f)) /\ CountIn(S, v, f) = Cardinality(FdsOf(ofile', f))
    BY <2>1 DEF CountIn
  <2> QED BY <1>2, <2>2, <2>3
<1> QED BY <1>1, <1>5

LEMMA FileSame ==
  ASSUME FileInv, file' = file, ofile' = ofile
  PROVE  FileStep(0, 0)
<1>1. FileInv'
  BY DEF FileInv, FileShape, FdsOf
<1>2. \A g \in File : Use(file'[g]) = Use(file[g])
  BY DEF Use
<1> QED BY <1>1, <1>2, FilesSame DEF FileStep

\* read and write move the offset of a file.
LEMMA FileOff ==
  ASSUME FileInv, NEW k, NEW v, file' = [file EXCEPT ![k].off = v], ofile' = ofile
  PROVE  FileStep(0, 0)
<1>1. \A f \in File : /\ file'[f].ref = file[f].ref /\ file'[f].type = file[f].type
                      /\ file'[f].ip = file[f].ip /\ IsFile(file'[f])
  <2> SUFFICES ASSUME NEW f \in File
               PROVE  /\ file'[f].ref = file[f].ref /\ file'[f].type = file[f].type
                      /\ file'[f].ip = file[f].ip /\ IsFile(file'[f])
    OBVIOUS
  <2>1. IsFile(file[f]) /\ file = [g \in File |-> file[g]]
    BY DEF FileInv, FileShape, GoodFile
  <2>2. CASE f = k
    <3>1. file'[f] = [file[f] EXCEPT !.off = v]
      BY <2>1, <2>2
    <3> QED BY <2>1, <3>1 DEF IsFile, FileFields
  <2>3. CASE f # k
    BY <2>1, <2>3
  <2> QED BY <2>2, <2>3
<1>2. file' = [f \in File |-> file'[f]]
  BY DEF FileInv, FileShape
<1>3. FileInv'
  <2>1. \A f : FdsOf(ofile', f) = FdsOf(ofile, f)
    OBVIOUS
  <2>2. \A f \in File : GoodFile(file'[f])
    BY <1>1 DEF FileInv, FileShape, GoodFile
  <2> QED BY <1>1, <1>2, <2>1, <2>2 DEF FileInv, FileShape
<1>4. \A g \in File : Use(file'[g]) = Use(file[g])
  BY <1>1 DEF Use
<1> QED BY <1>3, <1>4, FilesSame DEF FileStep

LEMMA LeastNatural ==
  ASSUME NEW S, S \subseteq Nat, S # {}
  PROVE  \E x \in S : \A y \in S : x <= y
<1> DEFINE Less == {s \in Nat \X Nat : s[1] < s[2]}
<1>1. IsWellFoundedOn(Less, Nat)
  BY NatLessThanWellFounded DEF OpToRel
<1> HIDE DEF Less
<1>2. PICK x \in S : \A y \in S : ~(<<y, x>> \in Less)
  BY <1>1, WFMin
<1>3. \A y \in S : ~(y < x)
  BY <1>2 DEF Less
<1> QED BY <1>3

LEMMA MinIn ==
  ASSUME NEW S, S \subseteq Nat, S # {}
  PROVE  Min(S) \in S
<1>1. \E x \in S : \A y \in S : x <= y
  BY LeastNatural
<1> QED BY <1>1 DEF Min

\* A descriptor comes to refer to file g, or no longer does.
LEMMA FileMoved ==
  ASSUME FileInv, NEW p \in Proc, NEW d \in Fd, NEW g \in File, NEW h, NEW x,
         h \in {0, g}, ofile[p][d] \in {0, g}, GoodFile(x), x.ref = file[g].ref - Hit(ofile[p][d], g) + Hit(h, g),
         FileTo(g, x), FdTo(p, d, h)
  PROVE  FileStep(Use(file[g]), Use(x))
<1>1. /\ ofile' \in [Proc -> [Fd -> File \cup {0}]]
      /\ \A f : Cardinality(FdsOf(ofile', f)) = Cardinality(FdsOf(ofile, f)) - Hit(ofile[p][d], f) + Hit(h, f)
  <2>1. h \in File \cup {0} /\ ofile \in [Proc -> [Fd -> File \cup {0}]]
    BY DEF FileInv, FileShape
  <2> QED BY <2>1, FdMoved DEF FdTo
<1>2. /\ file' = [f \in File |-> file'[f]] /\ file'[g] = x
      /\ \A f \in File \ {g} : file'[f] = file[f]
  BY DEF FileInv, FileShape, FileTo
<1>3. ASSUME NEW f \in File PROVE file'[f].ref = Cardinality(FdsOf(ofile', f))
  <2>1. file[f].ref = Cardinality(FdsOf(ofile, f)) /\ Cardinality(FdsOf(ofile, f)) \in Nat
    BY FdsFinite DEF FileInv
  <2>2. CASE f = g
    BY <1>1, <1>2, <2>1, <2>2
  <2>3. CASE f # g
    <3>1. Hit(h, f) = 0 /\ Hit(ofile[p][d], f) = 0 /\ file'[f] = file[f]
      <4>1. f # 0
        BY Tables
      <4> QED BY <1>2, <2>3, <4>1 DEF Hit
    <3>2. Cardinality(FdsOf(ofile', f)) = Cardinality(FdsOf(ofile, f)) - Hit(ofile[p][d], f) + Hit(h, f)
      BY <1>1
    <3> QED BY ONLY <2>1, <3>1, <3>2
  <2> QED BY <2>2, <2>3
<1>4. FileInv'
  <2>1. \A f \in File : GoodFile(file'[f])
    BY <1>2 DEF FileInv, FileShape
  <2> QED BY <1>1, <1>2, <1>3, <2>1 DEF FileInv, FileShape
<1>5. FilesMore(Use(file[g]), Use(file'[g]))
  <2>1. \A f \in File \ {g} : Use(file'[f]) = Use(file[f])
    BY <1>2 DEF Use
  <2> QED BY <2>1, FilesMoved
<1> QED BY <1>2, <1>4, <1>5 DEF FileStep

LEMMA FileStepBack ==
  ASSUME NEW y, FileStep(y, y)
  PROVE  FileStep(0, 0)
<1> SUFFICES ASSUME NEW i \in Inum
             PROVE  Cardinality(FilesOf(file', i)) = Cardinality(FilesOf(file, i)) + Hit(0, i) - Hit(0, i)
  BY DEF FileStep, FilesMore
<1>1. Cardinality(FilesOf(file', i)) = Cardinality(FilesOf(file, i)) + Hit(y, i) - Hit(y, i)
  BY DEF FileStep, FilesMore
<1>2. Hit(y, i) \in Int
  BY DEF Hit
<1> QED BY <1>1, <1>2, FilesFinite, InumZero

LEMMA OpenedFile ==
  ASSUME FileInv, NEW p \in Proc, Opened(p)
  PROVE  FileStep(0, call[p].ip)
<1> DEFINE ff == {f \in File : file[f].ref = 0}
           fd == {d \in Fd : ofile[p][d] = 0}
           g == Min(ff)
           d == Min(fd)
           new == [ref |-> 1, type |-> IF fs.din[call[p].ip].type = "DEV" THEN "DEVICE" ELSE "INODE",
                   readable |-> "WRONLY" \notin call[p].mode,
                   writable |-> call[p].mode \cap {"WRONLY", "RDWR"} # {},
                   ip |-> call[p].ip, off |-> 0]
<1>1. /\ file' = [file EXCEPT ![g] = new] /\ ofile' = [ofile EXCEPT ![p][d] = g]
      /\ ff # {} /\ fd # {}
  BY DEF Opened
<1>2. g \in File /\ file[g].ref = 0
  <2>1. g \in ff
    BY <1>1, MinIn, Tables
  <2> QED BY <2>1
<1>3. d \in Fd /\ ofile[p][d] = 0
  <2>1. d \in fd
    BY <1>1, MinIn, Tables
  <2> QED BY <2>1
<1>4. GoodFile(new) /\ new.ref = 1 /\ Use(new) = call[p].ip
  BY DEF GoodFile, IsFile, FileFields, Use
<1> HIDE DEF g, d, new
<1>5. new.ref = file[g].ref - Hit(ofile[p][d], g) + Hit(g, g)
  BY <1>2, <1>3, <1>4, Tables DEF Hit
<1>6. FileStep(Use(file[g]), Use(new))
  <2>1. g \in {0, g} /\ ofile[p][d] \in {0, g}
    BY <1>3
  <2>2. g \in File /\ d \in Fd /\ p \in Proc /\ FileInv /\ GoodFile(new)
        /\ FileTo(g, new) /\ FdTo(p, d, g)
    BY <1>1, <1>2, <1>3, <1>4 DEF FileTo, FdTo
  <2> QED BY ONLY <1>5, <2>1, <2>2, FileMoved
<1>7. Use(file[g]) = 0
  BY <1>2 DEF FileInv, FileShape, GoodFile, Use
<1> QED BY <1>4, <1>6, <1>7

-----------------------------------------------------------------------------
(* What every call keeps *)

\* The step of p is legal for some inodes that files give up and take.
Kept(p) == \E y, z : Legal(p, y, z) /\ FileStep(y, z)

LEMMA EnterLegal ==
  ASSUME FsShape, CallInv, LockInv, NEW p \in Proc, NEW d, NEW y, Go(p, d), itable' = itable,
         cwd' = cwd, Pc(p) = "idle", IsCall(d), d.pc \notin Putting, Fits(d.pc, d),
         \A i \in Inum : LabelUses(d.pc, d, cwd[p], i) = Hit(cwd[p], i) + Hit(y, i)
  PROVE  Legal(p, y, 0)
<1> DEFINE c == call[p]
<1>1. /\ c.pc = "idle" /\ c.pc \notin Putting /\ Label(c) = "idle" /\ TableOk(itable) /\ TableOk(itable')
      /\ CallOk(d)
  BY DEF Pc, Label, Putting, FsShape, CallOk, PutsOk
<1>2. ASSUME NEW i \in Inum
      PROVE  itable'[i].ref = itable[i].ref + Hit(0, i) - Hit(y, i) + Uses(d, cwd[p], i) - Uses(c, cwd[p], i)
  <2>1. CwdAt("idle", c, cwd[p]) = cwd[p] /\ IpAt("idle", c) = 0 /\ DpAt("idle", c) = 0
        /\ LpAt("idle", c) = 0
    BY DEF CwdAt, IpAt, DpAt, LpAt, ChdirDone, IpLabels, NameLabels
  <2>2. Uses(c, cwd[p], i) = Hit(cwd[p], i)
    BY <1>1, <2>1, UsesNow, InumZero DEF LabelUses, Hit
  <2>3. Uses(d, cwd[p], i) = Hit(cwd[p], i) + Hit(y, i)
    BY UsesNow
  <2>4. itable[i].ref \in Int /\ Hit(cwd[p], i) \in Int /\ Hit(y, i) \in Int
    BY <1>1 DEF TableOk, Entry1, Hit
  <2> QED BY <2>2, <2>3, <2>4, InumZero
<1>3. ASSUME NEW i \in Inum PROVE HolderOk(p, d, i)
  <2>1. ~Locking(c, i)
    BY <1>1 DEF Locking, Putting
  <2> QED BY <2>1, HolderKept
<1> QED BY <1>1, <1>2, <1>3, StepToFile

LEMMA EnterKept ==
  ASSUME FsShape, CallInv, LockInv, FileInv, NEW p \in Proc, NEW d, Go(p, d), Pc(p) = "idle",
         UNCHANGED <<itable, cwd, file, ofile>>, IsCall(d), d.pc \notin Putting, Fits(d.pc, d),
         \A i \in Inum : LabelUses(d.pc, d, cwd[p], i) = Hit(cwd[p], i)
  PROVE  Kept(p)
<1>1. \A i \in Inum : LabelUses(d.pc, d, cwd[p], i) = Hit(cwd[p], i) + Hit(0, i)
  BY InumZero DEF Hit
<1>2. Legal(p, 0, 0)
  BY <1>1, EnterLegal
<1>3. FileStep(0, 0)
  BY FileSame
<1> QED BY <1>2, <1>3 DEF Kept

\* The calls that start a transaction.
LEMMA BeginKept ==
  ASSUME FsShape, CallInv, LockInv, FileInv, NEW p \in Proc, NEW d, Go(p, d), Pc(p) = "idle",
         UNCHANGED <<itable, cwd, file, ofile>>, IsCall(d), d.pc = "begin",
         d.op \in Creators \cup {"link", "unlink", "chdir", "exec", "write"},
         "CREATE" \in d.mode => d.op = "open", d.op = "chdir" => d.r = 0
  PROVE  Kept(p)
<1>1. Fits("begin", d) /\ d.pc \notin Putting
  BY DEF Fits, Labels, Creators, Putting
<1>2. ASSUME NEW i \in Inum
      PROVE  LabelUses("begin", d, cwd[p], i) = Hit(cwd[p], i)
  <2>1. CwdAt("begin", d, cwd[p]) = cwd[p] /\ IpAt("begin", d) = 0 /\ DpAt("begin", d) = 0
        /\ LpAt("begin", d) = 0
    BY DEF CwdAt, IpAt, DpAt, LpAt, ChdirDone, IpLabels, NameLabels, Creators
  <2> QED BY <2>1, InumZero DEF LabelUses, Hit
<1> QED BY <1>1, <1>2, EnterKept

\* The calls that need none.
LEMMA FileCallKept ==
  ASSUME FsShape, CallInv, LockInv, FileInv, NEW p \in Proc, NEW d, Go(p, d), Pc(p) = "idle",
         UNCHANGED <<itable, cwd, file, ofile>>, IsCall(d), d.pc \in {"idle", "read", "fstat"},
         d.pc # "idle" => d.op = d.pc, d.op = "write" => "CREATE" \notin d.mode, d.op # "exitcwd"
  PROVE  Kept(p)
<1> DEFINE l == d.pc
<1>1. Fits(l, d) /\ l \notin Putting
  BY DEF Fits, Labels, Creators, Putting
<1>2. ASSUME NEW i \in Inum
      PROVE  LabelUses(l, d, cwd[p], i) = Hit(cwd[p], i)
  <2>1. CwdAt(l, d, cwd[p]) = cwd[p] /\ IpAt(l, d) = 0 /\ DpAt(l, d) = 0 /\ LpAt(l, d) = 0
    BY DEF CwdAt, IpAt, DpAt, LpAt, ChdirDone, IpLabels, NameLabels, Creators
  <2> QED BY <2>1, InumZero DEF LabelUses, Hit
<1> QED BY <1>1, <1>2, EnterKept

\* A call that has ended is forgotten.
LEMMA ReturnKept ==
  ASSUME FsShape, CallInv, LockInv, FileInv, NEW p \in Proc, Go(p, Idle), Pc(p) = "idle",
         UNCHANGED <<itable, cwd, file, ofile>>
  PROVE  Kept(p)
<1>1. IsCall(Idle) /\ Idle.pc = "idle" /\ Idle.op = ""
  BY DEF IsCall, CallFields, Idle
<1> QED BY <1>1, FileCallKept

LEMMA OpenKept ==
  ASSUME FsShape, CallInv, LockInv, FileInv, NEW p \in Proc, NEW x, NEW m, sys_open(p, x, m)
  PROVE  Kept(p)
<1> DEFINE d == [Idle EXCEPT !.pc = "begin", !.op = "open", !.path = x, !.mode = m]
<1>1. Go(p, d) /\ Pc(p) = "idle" /\ UNCHANGED <<itable, cwd, file, ofile>>
  BY DEF sys_open, Enter, At, Same, UNCH
<1>2. IsCall(d) /\ d.pc = "begin" /\ d.op = "open"
  BY ZenonT(60) DEF IsCall, CallFields, Idle
<1> HIDE DEF d
<1> QED BY <1>1, <1>2, BeginKept DEF Creators

LEMMA NameCallKept ==
  ASSUME FsShape, CallInv, LockInv, FileInv, NEW p \in Proc, NEW x, NEW y, NEW t,
         \/ sys_mkdir(p, x) \/ sys_mknod(p, x, t) \/ sys_link(p, x, y)
         \/ sys_unlink(p, x) \/ sys_chdir(p, x) \/ sys_exec(p, x)
  PROVE  Kept(p)
<1>1. ASSUME NEW d, Enter(p, d), IsCall(d), d.pc = "begin", d.mode = {}, d.r = 0,
             d.op \in {"mkdir", "mknod", "link", "unlink", "chdir", "exec"}
      PROVE  Kept(p)
  <2>1. Go(p, d) /\ Pc(p) = "idle" /\ UNCHANGED <<itable, cwd, file, ofile>>
    BY <1>1 DEF Enter, At, Same, UNCH
  <2>2. d.op \in Creators \cup {"link", "unlink", "chdir", "exec", "write"} /\ "CREATE" \notin d.mode
    BY <1>1 DEF Creators
  <2> QED BY <1>1, <2>1, <2>2, BeginKept
<1>2. CASE sys_mkdir(p, x)
  <2> DEFINE d == [Idle EXCEPT !.pc = "begin", !.op = "mkdir", !.path = x, !.type = "DIR"]
  <2>1. IsCall(d) /\ d.pc = "begin" /\ d.mode = {} /\ d.r = 0 /\ d.op = "mkdir"
    BY DEF IsCall, CallFields, Idle
  <2>2. Enter(p, d)
    BY <1>2 DEF sys_mkdir
  <2> HIDE DEF d
  <2> QED BY <1>1, <2>1, <2>2
<1>3. CASE sys_mknod(p, x, t)
  <2> DEFINE d == [Idle EXCEPT !.pc = "begin", !.op = "mknod", !.path = x, !.type = t]
  <2>1. IsCall(d) /\ d.pc = "begin" /\ d.mode = {} /\ d.r = 0 /\ d.op = "mknod"
    BY DEF IsCall, CallFields, Idle
  <2>2. Enter(p, d)
    BY <1>3 DEF sys_mknod
  <2> HIDE DEF d
  <2> QED BY <1>1, <2>1, <2>2
<1>4. CASE sys_link(p, x, y)
  <2> DEFINE d == [Idle EXCEPT !.pc = "begin", !.op = "link", !.path = x, !.new = y]
  <2>1. IsCall(d) /\ d.pc = "begin" /\ d.mode = {} /\ d.r = 0 /\ d.op = "link"
    BY DEF IsCall, CallFields, Idle
  <2>2. Enter(p, d)
    BY <1>4 DEF sys_link
  <2> HIDE DEF d
  <2> QED BY <1>1, <2>1, <2>2
<1>5. CASE sys_unlink(p, x)
  <2> DEFINE d == [Idle EXCEPT !.pc = "begin", !.op = "unlink", !.path = x]
  <2>1. IsCall(d) /\ d.pc = "begin" /\ d.mode = {} /\ d.r = 0 /\ d.op = "unlink"
    BY DEF IsCall, CallFields, Idle
  <2>2. Enter(p, d)
    BY <1>5 DEF sys_unlink
  <2> HIDE DEF d
  <2> QED BY <1>1, <2>1, <2>2
<1>6. CASE sys_chdir(p, x)
  <2> DEFINE d == [Idle EXCEPT !.pc = "begin", !.op = "chdir", !.path = x]
  <2>1. IsCall(d) /\ d.pc = "begin" /\ d.mode = {} /\ d.r = 0 /\ d.op = "chdir"
    BY DEF IsCall, CallFields, Idle
  <2>2. Enter(p, d)
    BY <1>6 DEF sys_chdir
  <2> HIDE DEF d
  <2> QED BY <1>1, <2>1, <2>2
<1>7. CASE sys_exec(p, x)
  <2> DEFINE d == [Idle EXCEPT !.pc = "begin", !.op = "exec", !.path = x]
  <2>1. IsCall(d) /\ d.pc = "begin" /\ d.mode = {} /\ d.r = 0 /\ d.op = "exec"
    BY DEF IsCall, CallFields, Idle
  <2>2. Enter(p, d)
    BY <1>7 DEF sys_exec
  <2> HIDE DEF d
  <2> QED BY <1>1, <2>1, <2>2
<1> QED BY <1>2, <1>3, <1>4, <1>5, <1>6, <1>7

LEMMA ReadKept ==
  ASSUME FsShape, CallInv, LockInv, FileInv, NEW p \in Proc, NEW fd, NEW n, NEW m, sys_read(p, fd, n, m)
  PROVE  Kept(p)
<1> DEFINE d == [Idle EXCEPT !.pc = "read", !.op = "read", !.f = ofile[p][fd], !.n = n, !.mode = m]
<1>1. Go(p, d) /\ Pc(p) = "idle" /\ UNCHANGED <<itable, cwd, file, ofile>>
  BY DEF sys_read, Enter, At, Same, UNCH
<1>2. IsCall(d) /\ d.pc = "read" /\ d.op = "read"
  BY ZenonT(60) DEF IsCall, CallFields, Idle
<1> HIDE DEF d
<1> QED BY <1>1, <1>2, FileCallKept

LEMMA FstatKept ==
  ASSUME FsShape, CallInv, LockInv, FileInv, NEW p \in Proc, NEW fd, NEW m, sys_fstat(p, fd, m)
  PROVE  Kept(p)
<1> DEFINE d == [Idle EXCEPT !.pc = "fstat", !.op = "fstat", !.f = ofile[p][fd], !.mode = m]
<1>1. Go(p, d) /\ Pc(p) = "idle" /\ UNCHANGED <<itable, cwd, file, ofile>>
  BY DEF sys_fstat, Enter, At, Same, UNCH
<1>2. IsCall(d) /\ d.pc = "fstat" /\ d.op = "fstat"
  BY DEF IsCall, CallFields, Idle
<1> HIDE DEF d
<1> QED BY <1>1, <1>2, FileCallKept

LEMMA WriteKept ==
  ASSUME FsShape, CallInv, LockInv, FileInv, NEW p \in Proc, NEW fd, NEW u, sys_write(p, fd, u)
  PROVE  Kept(p)
<1> DEFINE l == IF u = <<>> THEN "idle" ELSE "begin"
           d == [Idle EXCEPT !.pc = l, !.op = "write", !.f = ofile[p][fd], !.units = u]
<1>1. Go(p, d) /\ Pc(p) = "idle" /\ UNCHANGED <<itable, cwd, file, ofile>>
  BY DEF sys_write, Enter, At, Same, UNCH
<1>2. l \in {"idle", "begin"}
  OBVIOUS
<1> HIDE DEF l
<1>3. IsCall(d) /\ d.pc = l /\ d.op = "write" /\ d.mode = {} /\ d.r = 0
  BY DEF IsCall, CallFields, Idle
<1> HIDE DEF d
<1>4. CASE l = "idle"
  BY <1>1, <1>3, <1>4, FileCallKept
<1>5. CASE l = "begin"
  BY <1>1, <1>3, <1>5, BeginKept
<1> QED BY <1>2, <1>4, <1>5

LEMMA ExitCwdKept ==
  ASSUME FsShape, CallInv, LockInv, FileInv, NEW p \in Proc, exit_cwd(p)
  PROVE  Kept(p)
<1> DEFINE d == [Idle EXCEPT !.pc = "begin", !.op = "exitcwd", !.ip = cwd[p]]
<1>1. Go(p, d) /\ Pc(p) = "idle" /\ UNCHANGED <<itable, cwd, file, ofile>>
  BY DEF exit_cwd, Enter, At, Same, UNCH
<1>2. IsCall(d) /\ d.pc = "begin" /\ d.op = "exitcwd" /\ d.mode = {} /\ d.ip = cwd[p]
  BY DEF IsCall, CallFields, Idle
<1> HIDE DEF d
<1>3. Fits("begin", d) /\ d.pc \notin Putting
  BY <1>2 DEF Fits, Labels, Creators, Putting
<1>4. ASSUME NEW i \in Inum
      PROVE  LabelUses("begin", d, cwd[p], i) = Hit(cwd[p], i)
  <2>1. CwdAt("begin", d, cwd[p]) = 0 /\ IpAt("begin", d) = cwd[p] /\ DpAt("begin", d) = 0
        /\ LpAt("begin", d) = 0
    BY <1>2 DEF CwdAt, IpAt, DpAt, LpAt, ChdirDone, IpLabels, NameLabels, Creators
  <2> QED BY <2>1, InumZero DEF LabelUses, Hit
<1> QED BY <1>1, <1>2, <1>3, <1>4, EnterKept


\* dup and close come back to "idle" in one step.
LEMMA ReturnsLegal ==
  ASSUME FsShape, CallInv, LockInv, NEW p \in Proc, NEW d, Go(p, d), itable' = itable,
         cwd' = cwd, Pc(p) = "idle", IsCall(d), d.pc = "idle", d.op \in {"dup", "close"}
  PROVE  Legal(p, 0, 0)
<1>1. Fits("idle", d) /\ d.pc \notin Putting
  BY DEF Fits, Labels, Creators, Putting
<1>2. ASSUME NEW i \in Inum
      PROVE  LabelUses("idle", d, cwd[p], i) = Hit(cwd[p], i) + Hit(0, i)
  <2>1. CwdAt("idle", d, cwd[p]) = cwd[p] /\ IpAt("idle", d) = 0 /\ DpAt("idle", d) = 0
        /\ LpAt("idle", d) = 0
    BY DEF CwdAt, IpAt, DpAt, LpAt, ChdirDone, IpLabels, NameLabels
  <2> QED BY <2>1, InumZero DEF LabelUses, Hit
<1> QED BY <1>1, <1>2, EnterLegal

LEMMA DupKept ==
  ASSUME FsShape, CallInv, LockInv, FileInv, NEW p \in Proc, NEW fd \in Fd, sys_dup(p, fd)
  PROVE  Kept(p)
<1> DEFINE free == {d \in Fd : ofile[p][d] = 0}
           g == ofile[p][fd]
           m == Min(free)
           x == [file[g] EXCEPT !.ref = @ + 1]
<1>1. Pc(p) = "idle" /\ g # 0 /\ UNCHANGED <<itable, cwd>>
  BY DEF sys_dup, At, UNCH
<1>2. CASE free = {}
  <2> DEFINE d == [Fails(Idle) EXCEPT !.op = "dup"]
  <2>1. Go(p, d) /\ UNCHANGED <<file, ofile>>
    BY <1>2 DEF sys_dup
  <2>2. IsCall(d) /\ d.pc = "idle" /\ d.op = "dup"
    BY DEF IsCall, CallFields, Fails, Idle
  <2> HIDE DEF d
  <2> QED BY <1>1, <2>1, <2>2, ReturnsLegal, FileSame DEF Kept
<1>3. CASE free # {}
  <2> DEFINE d == [Idle EXCEPT !.op = "dup", !.r = m]
  <2>1. /\ file' = [file EXCEPT ![g].ref = @ + 1] /\ ofile' = [ofile EXCEPT ![p][m] = g]
        /\ Go(p, d)
    BY <1>3 DEF sys_dup
  <2>2. IsCall(d) /\ d.pc = "idle" /\ d.op = "dup"
    BY DEF IsCall, CallFields, Idle
  <2>3. Legal(p, 0, 0)
    <3> HIDE DEF d
    <3> QED BY <1>1, <2>1, <2>2, ReturnsLegal
  <2>4. g \in File /\ GoodFile(file[g]) /\ file[g].ref = Cardinality(FdsOf(ofile, g))
    BY <1>1 DEF FileInv, FileShape
  <2>5. m \in Fd /\ ofile[p][m] = 0
    <3>1. m \in free
      BY <1>3, MinIn, Tables
    <3> QED BY <3>1
  <2>6. file[g].ref \in Nat /\ file[g].ref # 0
    <3>1. <<p, fd>> \in FdsOf(ofile, g)
      BY DEF FdsOf
    <3>2. FdsOf(ofile, g) \in SUBSET (Proc \X Fd)
      BY DEF FdsOf
    <3>3. Cardinality(FdsOf(ofile, g)) # 0
      BY <3>1, <3>2, Tables, FS_Subset, FS_EmptySet
    <3> QED BY <2>4, <3>3, FdsFinite
  <2>7. GoodFile(x) /\ x.ref = file[g].ref + 1 /\ Use(x) = Use(file[g])
    BY SMTT(30), <2>4, <2>6 DEF GoodFile, IsFile, FileFields, Use
  <2>8. FileTo(g, x) /\ FdTo(p, m, g)
    BY <2>1 DEF FileTo, FdTo
  <2> HIDE DEF g, m, x
  <2>9. x.ref = file[g].ref - Hit(ofile[p][m], g) + Hit(g, g)
    BY <2>4, <2>5, <2>6, <2>7, Tables DEF Hit
  <2>10. FileStep(Use(file[g]), Use(x))
    <3>1. g \in {0, g} /\ ofile[p][m] \in {0, g} /\ g \in File /\ m \in Fd /\ p \in Proc
          /\ FileInv /\ GoodFile(x)
      BY <2>4, <2>5, <2>7
    <3> QED BY ONLY <2>8, <2>9, <3>1, FileMoved
  <2>11. FileStep(0, 0)
    <3>1. FileStep(Use(x), Use(x))
      BY <2>7, <2>10
    <3> QED BY <3>1, FileStepBack
  <2> QED BY <2>3, <2>11 DEF Kept
<1> QED BY <1>2, <1>3

LEMMA CloseKept ==
  ASSUME FsShape, CallInv, LockInv, FileInv, NEW p \in Proc, NEW fd \in Fd, sys_close(p, fd)
  PROVE  Kept(p)
<1> DEFINE g == ofile[p][fd]
           x == IF file[g].ref > 1 THEN [file[g] EXCEPT !.ref = @ - 1] ELSE FreeFile
<1>1. /\ Pc(p) = "idle" /\ g # 0 /\ file[g].type # "PIPE" /\ UNCHANGED <<itable, cwd>>
      /\ file' = [file EXCEPT ![g] = IF file[g].ref > 1 THEN [file[g] EXCEPT !.ref = @ - 1] ELSE FreeFile]
      /\ ofile' = [ofile EXCEPT ![p][fd] = 0]
      /\ Go(p, IF file[g].ref > 1 THEN [Idle EXCEPT !.op = "close"] ELSE LastClose(g))
  BY DEF sys_close, At, UNCH
<1>2. g \in File /\ GoodFile(file[g]) /\ file[g].ref = Cardinality(FdsOf(ofile, g))
  BY <1>1 DEF FileInv, FileShape
<1>3. file[g].ref \in Nat /\ file[g].ref # 0
  <2>1. <<p, fd>> \in FdsOf(ofile, g)
    BY DEF FdsOf
  <2>2. FdsOf(ofile, g) \in SUBSET (Proc \X Fd)
    BY DEF FdsOf
  <2>3. Cardinality(FdsOf(ofile, g)) # 0
    BY <2>1, <2>2, Tables, FS_Subset, FS_EmptySet
  <2> QED BY <1>2, <2>3, FdsFinite
<1>4. GoodFile(x) /\ x.ref = file[g].ref - 1 /\ (file[g].ref > 1 => Use(x) = Use(file[g]))
      /\ (file[g].ref = 1 => Use(x) = 0)
  <2>1. CASE file[g].ref > 1
    <3>1. x = [file[g] EXCEPT !.ref = @ - 1]
      BY <2>1
    <3> HIDE DEF x, g
    <3>2. x.ref = file[g].ref - 1 /\ x.type = file[g].type /\ x.ip = file[g].ip /\ IsFile(x)
      BY <1>2, <3>1 DEF GoodFile, IsFile, FileFields
    <3> QED BY <1>2, <1>3, <2>1, <3>2 DEF GoodFile, Use
  <2>2. CASE file[g].ref = 1
    <3>1. x = FreeFile
      BY <2>2
    <3> HIDE DEF x
    <3> QED BY <2>2, <3>1 DEF GoodFile, IsFile, FileFields, Use, FreeFile
  <2> QED BY <1>3, <2>1, <2>2
<1>5. FileTo(g, x) /\ FdTo(p, fd, 0)
  BY <1>1 DEF FileTo, FdTo
<1>6. Use(file[g]) = file[g].ip
  BY <1>1, <1>2, <1>3 DEF GoodFile, Use
<1>7. FileStep(Use(file[g]), Use(x))
  <2>1. ofile[p][fd] \in {0, g} /\ 0 \in {0, g}
    OBVIOUS
  <2>2. Hit(ofile[p][fd], g) = 1 /\ Hit(0, g) = 0
    BY <1>1 DEF Hit
  <2> HIDE DEF g, x
  <2>3. x.ref = file[g].ref - Hit(ofile[p][fd], g) + Hit(0, g)
    BY <1>3, <1>4, <2>2
  <2> QED BY ONLY FileInv, p \in Proc, fd \in Fd, <1>2, <1>4, <1>5, <2>1, <2>3, FileMoved
<1>8. CASE file[g].ref > 1
  <2> DEFINE d == [Idle EXCEPT !.op = "close"]
  <2>1. Go(p, d)
    BY <1>1, <1>8
  <2>2. IsCall(d) /\ d.pc = "idle" /\ d.op = "close"
    BY DEF IsCall, CallFields, Idle
  <2>3. Legal(p, 0, 0)
    <3> HIDE DEF d
    <3> QED BY <1>1, <2>1, <2>2, ReturnsLegal
  <2>4. FileStep(0, 0)
    <3> HIDE DEF x, g
    <3>1. FileStep(Use(x), Use(x))
      BY <1>4, <1>7, <1>8
    <3> QED BY <3>1, FileStepBack
  <2> QED BY <2>3, <2>4 DEF Kept
<1>9. CASE file[g].ref = 1
  <2> DEFINE d == LastClose(g)
  <2>1. Go(p, d)
    BY <1>1, <1>9
  <2>2. IsCall(d) /\ d.pc = "begin" /\ d.op = "close" /\ d.ip = file[g].ip /\ d.mode = {}
    BY DEF LastClose, IsCall, CallFields, Idle
  <2>3. FileStep(file[g].ip, 0)
    <3> HIDE DEF x, g
    <3> QED BY <1>4, <1>6, <1>7, <1>9
  <2> HIDE DEF d
  <2>4. Fits("begin", d) /\ d.pc \notin Putting
    BY <2>2 DEF Fits, Labels, Creators, Putting
  <2>5. ASSUME NEW i \in Inum
        PROVE  LabelUses("begin", d, cwd[p], i) = Hit(cwd[p], i) + Hit(file[g].ip, i)
    <3>1. CwdAt("begin", d, cwd[p]) = cwd[p] /\ IpAt("begin", d) = file[g].ip
          /\ DpAt("begin", d) = 0 /\ LpAt("begin", d) = 0
      BY <2>2 DEF CwdAt, IpAt, DpAt, LpAt, ChdirDone, IpLabels, NameLabels, Creators
    <3> QED BY <3>1, InumZero DEF LabelUses, Hit
  <2>6. Legal(p, file[g].ip, 0)
    <3> HIDE DEF g
    <3> QED BY <1>1, <2>1, <2>2, <2>4, <2>5, EnterLegal
  <2> QED BY <2>3, <2>6 DEF Kept
<1> QED BY <1>3, <1>8, <1>9


LEMMA StandsKept ==
  ASSUME FsShape, CallInv, LockInv, FileInv, NEW p \in Proc,
         UNCHANGED <<itable, cwd, call, file, ofile>>
  PROVE  Kept(p)
<1>1. /\ call' = [call EXCEPT ![p] = call'[p]] /\ cwd' = [cwd EXCEPT ![p] = cwd'[p]]
      /\ IsCall(call'[p]) /\ CallOk(call'[p]) /\ TableOk(itable')
  BY DEF FsShape, CallInv
<1>2. ASSUME NEW i \in Inum
      PROVE  itable'[i].ref = itable[i].ref + Hit(0, i) - Hit(0, i)
               + Uses(call'[p], cwd'[p], i) - Uses(call[p], cwd[p], i)
  <2>1. itable[i].ref \in Int /\ Hit(0, i) = 0 /\ Uses(call[p], cwd[p], i) \in Int
    BY InumZero DEF FsShape, TableOk, Entry1, Uses, LabelUses, Hit
  <2> QED BY <2>1
<1>3. \A i \in Inum : HolderOk(p, call'[p], i)
  BY HolderKept
<1>4. Legal(p, 0, 0)
  BY <1>1, <1>2, <1>3 DEF Legal
<1> QED BY <1>4, FileSame DEF Kept

LEMMA OpenTailKept ==
  ASSUME FsShape, CallInv, LockInv, FileInv, NEW p \in Proc, OpenTail(p, itable),
         Pc(p) \in {"opentail", "create2", "open"}, call[p].op # "chdir"
  PROVE  Kept(p)
<1>1. \/ Legal(p, 0, 0) /\ file' = file /\ ofile' = ofile
      \/ Legal(p, 0, call[p].ip) /\ Opened(p)
  BY OpenTailLegal
<1> QED BY <1>1, FileSame, OpenedFile DEF Kept

LEMMA SameKept ==
  ASSUME FsShape, CallInv, LockInv, FileInv, NEW p \in Proc, Legal(p, 0, 0), file' = file, ofile' = ofile
  PROVE  Kept(p)
BY FileSame DEF Kept

LEMMA FsStepKept ==
  ASSUME FsShape, CallInv, LockInv, FileInv, NEW p \in Proc, FsStep(p)
  PROVE  Kept(p) /\ boot' = boot
<1>1. ASSUME begin_op(p) \/ end_op(p) \/ iput(p) \/ ifree(p) \/ idrop(p)
      PROVE  Kept(p) /\ boot' = boot
  <2>1. file' = file /\ ofile' = ofile /\ boot' = boot
    BY <1>1 DEF begin_op, end_op, iput, ifree, idrop, At
  <2>2. Legal(p, 0, 0)
    BY <1>1, begin_opLegal, end_opLegal, iputLegal, ifreeLegal, idropLegal
  <2> QED BY <2>1, <2>2, SameKept
<1>2. ASSUME namex(p) \/ NotFound(p) \/ link(p) \/ link2(p) \/ linkbad(p)
      PROVE  Kept(p) /\ boot' = boot
  <2>1. Same
    BY <1>2 DEF namex, NotFound, link, link2, linkbad, At
  <2>2. Legal(p, 0, 0)
    BY <1>2, namexLegal, NotFoundLegal, linkLegal, link2Legal, linkbadLegal
  <2> QED BY <2>1, <2>2, SameKept DEF Same, UNCH
<1>3. ASSUME unlink(p) \/ unlink2(p) \/ putdp(p) \/ unlink3(p)
      PROVE  Kept(p) /\ boot' = boot
  <2>1. Same
    BY <1>3 DEF unlink, unlink2, putdp, unlink3, At
  <2>2. Legal(p, 0, 0)
    BY <1>3, unlinkLegal, unlink2Legal, putdpLegal, unlink3Legal
  <2> QED BY <2>1, <2>2, SameKept DEF Same, UNCH
<1>4. ASSUME create(p) \/ mktail(p) \/ exec(p) \/ fstat(p) \/ reclaim(p)
      PROVE  Kept(p) /\ boot' = boot
  <2>1. Same
    BY <1>4 DEF create, mktail, exec, fstat, reclaim, At
  <2>2. Legal(p, 0, 0)
    BY <1>4, createLegal, mktailLegal, execLegal, fstatLegal, reclaimLegal
  <2> QED BY <2>1, <2>2, SameKept DEF Same, UNCH
<1>5. ASSUME chdir(p)
      PROVE  Kept(p) /\ boot' = boot
  <2>1. Same
    BY <1>5 DEF chdir, At, PutAndFail
  <2> QED BY <1>5, <2>1, chdirLegal, SameKept DEF Same, UNCH
<1>6. ASSUME opentail(p) \/ create2(p) \/ open(p)
      PROVE  Kept(p) /\ boot' = boot
  <2>1. Pc(p) \in {"opentail", "create2", "open"}
    BY <1>6 DEF opentail, create2, open, At
  <2>2. call[p].op # "chdir"
    <3>1. Label(call[p]) = call[p].pc /\ CallOk(call[p])
      BY <2>1 DEF Pc, Label, Putting, CallInv
    <3> QED BY <2>1, <3>1 DEF CallOk, Fits, Pc, Creators
  <2>3. CASE OpenTail(p, itable)
    BY <2>1, <2>2, <2>3, OpenTailKept DEF OpenTail, UNCH
  <2>4. CASE PutAndFail(p) /\ Pc(p) \in {"create2", "open"}
    <3>1. Legal(p, 0, 0)
      BY <2>4, PutAndFailLegal
    <3> QED BY <2>1, <2>4, <3>1, SameKept DEF PutAndFail, Same, UNCH
  <2> QED BY <1>6, <2>3, <2>4 DEF opentail, create2, open, At
<1>7. ASSUME read(p)
      PROVE  Kept(p) /\ boot' = boot
  <2>1. /\ \E v : file' = [file EXCEPT ![call[p].f].off = v]
        /\ ofile' = ofile /\ boot' = boot
    BY <1>7 DEF read, At, UNCH
  <2> QED BY <1>7, <2>1, readLegal, FileOff DEF Kept
<1>8. ASSUME write(p)
      PROVE  Kept(p) /\ boot' = boot
  <2>1. /\ \E v : file' = [file EXCEPT ![call[p].f].off = v]
        /\ ofile' = ofile /\ boot' = boot
    BY <1>8 DEF write, At, UNCH
  <2> QED BY <1>8, <2>1, writeLegal, FileOff DEF Kept
<1>9. ASSUME ilockNoType(p) \/ bfreePanics(p) \/ unlinkPanics(p)
      PROVE  Kept(p) /\ boot' = boot
  BY <1>9, StandsKept DEF ilockNoType, bfreePanics, unlinkPanics, Panics
<1> QED BY <1>1, <1>2, <1>3, <1>4, <1>5, <1>6, <1>7, <1>8, <1>9 DEF FsStep

\* While fsinit runs nothing is open, and only ireclaim makes calls.
Quiet ==
  /\ cwd = [p \in Proc |-> 0]
  /\ file = [f \in File |-> FreeFile] /\ ofile = [p \in Proc |-> [d \in Fd |-> 0]]
  /\ \A p \in Proc : Pc(p) = "idle" \/ call[p].op = "reclaim"

\* Its calls go through begin, reclaim and end only.
LEMMA QuietStep ==
  ASSUME FsShape, CallInv, Quiet, NEW p \in Proc, FsStep(p)
  PROVE  Quiet'
<1> DEFINE c == call[p]
           Only(d) == call' = [call EXCEPT ![p] = d] /\ d.op = "reclaim"
<1>1. IsCall(c) /\ CallOk(c) /\ call = [q \in Proc |-> call[q]]
  BY DEF CallInv, FsShape
<1>2. c.pc # "idle"
  <2>1. ASSUME begin_op(p) \/ end_op(p) \/ iput(p) \/ ifree(p) \/ idrop(p)
               \/ namex(p) \/ NotFound(p) \/ link(p) \/ link2(p) \/ linkbad(p)
        PROVE  c.pc # "idle"
    BY <2>1 DEF begin_op, end_op, iput, ifree, idrop, namex, NotFound, link, link2, linkbad, At, Pc
  <2>2. ASSUME unlink(p) \/ unlink2(p) \/ putdp(p) \/ unlink3(p) \/ create(p) \/ mktail(p)
               \/ create2(p) \/ opentail(p) \/ open(p) \/ chdir(p)
        PROVE  c.pc # "idle"
    BY <2>2 DEF unlink, unlink2, putdp, unlink3, create, mktail, create2, opentail, open, chdir, At, Pc
  <2>3. ASSUME exec(p) \/ read(p) \/ write(p) \/ fstat(p) \/ reclaim(p)
        PROVE  c.pc # "idle"
    BY <2>3 DEF exec, read, write, fstat, reclaim, At, Pc
  <2>4. ASSUME ilockNoType(p) \/ bfreePanics(p) \/ unlinkPanics(p)
        PROVE  c.pc # "idle"
    <3>1. Wants(p) # 0 /\ file[c.f].ip = file[c.f].ip => c.pc # "idle"
      BY DEF Wants
    <3> QED BY <2>4, <3>1 DEF ilockNoType, bfreePanics, unlinkPanics, ilock, Pc
  <2> QED BY <2>1, <2>2, <2>3, <2>4 DEF FsStep
<1>3. c.op = "reclaim" /\ Label(c) \in {"begin", "reclaim", "end", "idle"}
  <2>1. c.op = "reclaim"
    BY <1>2 DEF Quiet, Pc
  <2> QED BY <1>1, <2>1 DEF CallOk, Fits, Labels, IpLabels, NameLabels, Creators
<1>4. c.pc \in {"begin", "reclaim", "end"} \cup Putting
  BY <1>2, <1>3 DEF Label
<1>5. UNCHANGED <<cwd, file, ofile>> /\ (UNCHANGED call \/ \E d : Only(d))
  <2>1. CASE begin_op(p)
    <3>1. Go(p, [c EXCEPT !.pc = "reclaim"]) /\ UNCHANGED <<cwd, file, ofile>>
      BY <1>1, <1>3, <2>1 DEF begin_op, At, Pc, CallOk, Label, Putting, Fits
    <3>2. [c EXCEPT !.pc = "reclaim"].op = "reclaim"
      BY <1>1, <1>3 DEF IsCall, CallFields
    <3> QED BY <3>1, <3>2 DEF Go
  <2>2. CASE end_op(p)
    <3>1. (\E l : Go(p, [c EXCEPT !.pc = l])) /\ UNCHANGED <<cwd, file, ofile>>
      BY <1>3, <2>2 DEF end_op
    <3>2. \A l : [c EXCEPT !.pc = l].op = "reclaim"
      BY <1>1, <1>3 DEF IsCall, CallFields
    <3> QED BY <3>1, <3>2 DEF Go
  <2>3. CASE iput(p) \/ ifree(p) \/ idrop(p)
    <3> DEFINE d == [c EXCEPT !.puts = Tail(@)]
    <3>1. /\ UNCHANGED <<cwd, file, ofile>>
          /\ \/ Go(p, [c EXCEPT !.pc = "ifree"]) \/ Go(p, [c EXCEPT !.pc = "idrop"])
             \/ Go(p, Then(d, d.puts, c.next))
      BY <2>3 DEF iput, ifree, idrop
    <3>2. IsCall(d) /\ d.op = "reclaim"
      BY <1>1, <1>3 DEF IsCall, CallFields
    <3> HIDE DEF d
    <3>3. Then(d, d.puts, c.next).op = "reclaim"
      BY <3>2 DEF Then, IsCall, CallFields
    <3>4. [c EXCEPT !.pc = "ifree"].op = "reclaim" /\ [c EXCEPT !.pc = "idrop"].op = "reclaim"
      BY <1>1, <1>3 DEF IsCall, CallFields
    <3> QED BY <3>1, <3>3, <3>4 DEF Go
  <2>4. CASE reclaim(p)
    <3>1. Go(p, Then(c, <<c.ip>>, "end")) /\ UNCHANGED <<cwd, file, ofile>>
      BY <2>4 DEF reclaim, Same, UNCH
    <3>2. "end" \in Labels
      BY DEF Labels
    <3>3. Then(c, <<c.ip>>, "end").op = "reclaim"
      BY <1>1, <1>3, <3>2, ThenOne DEF SameUse
    <3> QED BY <3>1, <3>3 DEF Go
  <2>5. CASE ilockNoType(p) \/ bfreePanics(p) \/ unlinkPanics(p)
    BY <2>5 DEF ilockNoType, bfreePanics, unlinkPanics, Panics
  <2>6. ~(namex(p) \/ link(p) \/ link2(p) \/ linkbad(p) \/ unlink(p) \/ unlink2(p) \/ putdp(p)
          \/ unlink3(p) \/ create(p) \/ mktail(p))
    BY <1>4 DEF namex, link, link2, linkbad, unlink, unlink2, putdp, unlink3, create, mktail,
                At, Pc, Putting
  <2>7. ~(NotFound(p) \/ create2(p) \/ opentail(p) \/ open(p) \/ chdir(p) \/ exec(p) \/ read(p)
          \/ write(p) \/ fstat(p))
    BY <1>4 DEF NotFound, create2, opentail, open, chdir, exec, read, write, fstat, At, Pc, Putting
  <2> QED BY <2>1, <2>2, <2>3, <2>4, <2>5, <2>6, <2>7 DEF FsStep
<1>6. \A q \in Proc : Pc(q)' = "idle" \/ call'[q].op = "reclaim"
  <2>1. CASE UNCHANGED call
    BY <2>1 DEF Quiet, Pc
  <2>2. ASSUME NEW d, Only(d) PROVE \A q \in Proc : Pc(q)' = "idle" \/ call'[q].op = "reclaim"
    BY <1>1, <2>2 DEF Quiet, Pc
  <2> QED BY <1>5, <2>1, <2>2
<1> QED BY <1>5, <1>6 DEF Quiet

LEMMA EnterBoot ==
  ASSUME NEW p, NEW d, Enter(p, d)
  PROVE  booted /\ boot' = boot
BY DEF Enter, At, Same, UNCH

\* One of the calls, whatever its arguments.
SomeCall(p) ==
  \/ \E x, m : sys_open(p, x, m)
  \/ \E x, y, t : \/ sys_mkdir(p, x) \/ sys_mknod(p, x, t) \/ sys_link(p, x, y)
                  \/ sys_unlink(p, x) \/ sys_chdir(p, x) \/ sys_exec(p, x)
  \/ \E fd, n, m : sys_read(p, fd, n, m)
  \/ \E fd, u : sys_write(p, fd, u)
  \/ \E fd, m : sys_fstat(p, fd, m)
  \/ \E fd \in Fd : sys_dup(p, fd) \/ sys_close(p, fd)
  \/ exit_cwd(p)

LEMMA CallKept ==
  ASSUME FsShape, CallInv, LockInv, FileInv, NEW p \in Proc, SomeCall(p)
  PROVE  Kept(p) /\ booted /\ boot' = boot
<1>1. ASSUME NEW x, NEW m, sys_open(p, x, m)
      PROVE  Kept(p) /\ booted /\ boot' = boot
  <2>1. Kept(p)
    BY <1>1, OpenKept
  <2> QED BY <1>1, <2>1, EnterBoot DEF sys_open
<1>2. ASSUME NEW x, NEW y, NEW t,
             \/ sys_mkdir(p, x) \/ sys_mknod(p, x, t) \/ sys_link(p, x, y)
             \/ sys_unlink(p, x) \/ sys_chdir(p, x) \/ sys_exec(p, x)
      PROVE  Kept(p) /\ booted /\ boot' = boot
  <2>1. Kept(p)
    BY <1>2, NameCallKept
  <2> QED BY <1>2, <2>1, EnterBoot
          DEF sys_mkdir, sys_mknod, sys_link, sys_unlink, sys_chdir, sys_exec
<1>3. ASSUME NEW fd, NEW n, NEW m, sys_read(p, fd, n, m)
      PROVE  Kept(p) /\ booted /\ boot' = boot
  <2>1. Kept(p)
    BY <1>3, ReadKept
  <2> QED BY <1>3, <2>1, EnterBoot DEF sys_read
<1>4. ASSUME NEW fd, NEW u, sys_write(p, fd, u)
      PROVE  Kept(p) /\ booted /\ boot' = boot
  <2>1. Kept(p)
    BY <1>4, WriteKept
  <2> QED BY <1>4, <2>1, EnterBoot DEF sys_write
<1>5. ASSUME NEW fd, NEW m, sys_fstat(p, fd, m)
      PROVE  Kept(p) /\ booted /\ boot' = boot
  <2>1. Kept(p)
    BY <1>5, FstatKept
  <2> QED BY <1>5, <2>1, EnterBoot DEF sys_fstat
<1>6. ASSUME NEW fd \in Fd, sys_dup(p, fd) \/ sys_close(p, fd)
      PROVE  Kept(p) /\ booted /\ boot' = boot
  <2>1. Kept(p)
    BY <1>6, DupKept, CloseKept
  <2> QED BY <1>6, <2>1 DEF sys_dup, sys_close, At, UNCH
<1>7. ASSUME exit_cwd(p)
      PROVE  Kept(p) /\ booted /\ boot' = boot
  <2>1. Kept(p)
    BY <1>7, ExitCwdKept
  <2> QED BY <1>7, <2>1, EnterBoot DEF exit_cwd
<1> QED BY <1>1, <1>2, <1>3, <1>4, <1>5, <1>6, <1>7 DEF SomeCall

LEMMA AnyCallKept ==
  ASSUME FsShape, CallInv, LockInv, FileInv, NEW p \in Proc, AnyCall(p)
  PROVE  Kept(p) /\ booted /\ boot' = boot
<1>1. SomeCall(p)
  BY DEF AnyCall, SomeCall
<1> QED BY <1>1, CallKept

-----------------------------------------------------------------------------
(* The inductive invariant *)

\* Nobody is in a call and nothing is open: the crash, and the processes in live
\* that have just started.
Resting(live) ==
  /\ call = [p \in Proc |-> Idle] /\ cwd = [p \in Proc |-> IF p \in live THEN ROOTINO ELSE 0]
  /\ file = [f \in File |-> FreeFile] /\ ofile = [p \in Proc |-> [d \in Fd |-> 0]]
  /\ TableOk(itable)
  /\ \A i \in Inum : /\ itable[i].ref = IF i = ROOTINO THEN Cardinality(live) ELSE 0
                     /\ itable[i].holder = None

BootInv == boot \in 1 .. NInodes + 2 /\ (~booted => Quiet)

FsIInv == FsShape /\ RefInv /\ CallInv /\ LockInv /\ FileInv /\ BootInv

LEMMA CntNone ==
  ASSUME NEW g, NEW i, \A q \in Proc : g[q] # i
  PROVE  Cnt(g, i) = 0
<1>1. {q \in Proc : g[q] = i} = {}
  OBVIOUS
<1> QED BY <1>1, FS_EmptySet DEF Cnt, CountIn

\* Without calls only files and current directories refer to inodes.
LEMMA IdleCount ==
  \A i \in Inum : (\A q \in Proc : Pc(q) = "idle") =>
    RefCount(i) = Cardinality(FilesOf(file, i)) + Cardinality({q \in Proc : cwd[q] = i})
<1> SUFFICES ASSUME NEW i \in Inum, \A q \in Proc : Pc(q) = "idle"
             PROVE  RefCount(i) = Cardinality(FilesOf(file, i)) + Cardinality({q \in Proc : cwd[q] = i})
  OBVIOUS
<1> DEFINE g1 == [q \in Proc |-> CwdAt(Label(call[q]), call[q], cwd[q])]
           g2 == [q \in Proc |-> IpAt(Label(call[q]), call[q])]
           g3 == [q \in Proc |-> DpAt(Label(call[q]), call[q])]
           g4 == [q \in Proc |-> LpAt(Label(call[q]), call[q])]
           g5 == [q \in Proc |-> Put1(call[q])]
           g6 == [q \in Proc |-> Put2(call[q])]
           W == {q \in Proc : cwd[q] = i}
<1>1. ASSUME NEW q \in Proc
      PROVE  g1[q] = cwd[q] /\ g2[q] = 0 /\ g3[q] = 0 /\ g4[q] = 0 /\ g5[q] = 0 /\ g6[q] = 0
  <2>1. Label(call[q]) = "idle" /\ call[q].pc = "idle"
    BY DEF Label, Pc, Putting
  <2> QED BY <2>1 DEF CwdAt, IpAt, DpAt, LpAt, ChdirDone, IpLabels, NameLabels, Put1, Put2, Putting
<1>2. Cnt(g1, i) = Cardinality(W)
  BY <1>1 DEF Cnt, CountIn
<1>3. Cnt(g2, i) = 0 /\ Cnt(g3, i) = 0 /\ Cnt(g4, i) = 0 /\ Cnt(g5, i) = 0 /\ Cnt(g6, i) = 0
  BY <1>1, CntNone, InumZero
<1>4. Cardinality(FilesOf(file, i)) \in Nat /\ Cardinality(W) \in Nat
  BY FilesFinite, FsConstants, FS_Subset, FS_CardinalityType
<1>5. RefCount(i) = Cardinality(FilesOf(file, i)) + Cnt(g1, i) + Cnt(g2, i) + Cnt(g3, i)
                     + Cnt(g4, i) + Cnt(g5, i) + Cnt(g6, i)
  BY DEF RefCount
<1> HIDE DEF g1, g2, g3, g4, g5, g6, W
<1>6. RefCount(i) = Cardinality(FilesOf(file, i)) + Cardinality(W)
  BY ONLY <1>2, <1>3, <1>4, <1>5
<1> QED BY <1>6 DEF W

LEMMA RestingInv ==
  \A live \in SUBSET Proc : Resting(live) => FsShape /\ RefInv /\ CallInv /\ LockInv /\ FileInv
<1> SUFFICES ASSUME NEW live \in SUBSET Proc, Resting(live)
             PROVE  FsShape /\ RefInv /\ CallInv /\ LockInv /\ FileInv
  OBVIOUS
<1>1. FsShape
  BY DEF Resting, FsShape
<1>2. \A q \in Proc : call[q] = Idle
  BY DEF Resting
<1>3. CallInv
  <2>1. IsCall(Idle) /\ Idle.pc = "idle" /\ Idle.op = ""
    BY DEF IsCall, CallFields, Idle
  <2> SUFFICES IsCall(Idle) /\ CallOk(Idle)
    BY <1>2 DEF CallInv
  <2> QED BY <2>1 DEF CallOk, PutsOk, Label, Putting, Fits, Labels, Creators
<1>4. LockInv
  BY DEF Resting, LockInv
<1>5. ASSUME NEW i \in Inum PROVE itable[i].ref = RefCount(i)
  <2> DEFINE W == {q \in Proc : cwd[q] = i}
  <2>1. \A q \in Proc : Pc(q) = "idle"
    <3>1. Idle.pc = "idle"
      BY DEF Idle
    <3> QED BY <1>2, <3>1 DEF Pc
  <2>2. RefCount(i) = Cardinality(FilesOf(file, i)) + Cardinality(W)
    BY <2>1, IdleCount
  <2>3. FilesOf(file, i) = {}
    BY DEF Resting, FilesOf, FreeFile
  <2>4. Cardinality(W) = IF i = ROOTINO THEN Cardinality(live) ELSE 0
    <3>1. CASE i = ROOTINO
      <4>1. W = live
        BY <3>1, InumZero DEF Resting
      <4> QED BY <3>1, <4>1
    <3>2. CASE i # ROOTINO
      <4>1. W = {}
        BY <3>2, InumZero DEF Resting
      <4> QED BY <3>2, <4>1, FS_EmptySet
    <3> QED BY <3>1, <3>2
  <2>5. Cardinality(W) \in Nat
    BY FsConstants, FS_Subset, FS_CardinalityType
  <2>6. itable[i].ref = IF i = ROOTINO THEN Cardinality(live) ELSE 0
    BY DEF Resting
  <2> HIDE DEF W
  <2>7. Cardinality(FilesOf(file, i)) = 0
    BY <2>3, FS_EmptySet
  <2> QED BY <2>2, <2>4, <2>5, <2>6, <2>7
<1>6. FileInv
  <2>1. FileShape
    <3>1. \A f \in File : file[f] = FreeFile
      BY DEF Resting
    <3>2. GoodFile(FreeFile)
      BY DEF GoodFile, FreeFile, IsFile, FileFields
    <3>3. ofile \in [Proc -> [Fd -> File \cup {0}]]
      BY DEF Resting
    <3>4. file = [f \in File |-> file[f]]
      BY DEF Resting
    <3> QED BY <3>1, <3>2, <3>3, <3>4 DEF FileShape
  <2>2. ASSUME NEW f \in File PROVE file[f].ref = Cardinality(FdsOf(ofile, f))
    <3>1. FdsOf(ofile, f) = {}
      <4> SUFFICES ASSUME NEW x \in Proc \X Fd PROVE ofile[x[1]][x[2]] # f
        BY DEF FdsOf
      <4>1. x[1] \in Proc /\ x[2] \in Fd
        OBVIOUS
      <4> QED BY <4>1, Tables DEF Resting
    <3>2. file[f].ref = 0
      BY DEF Resting, FreeFile
    <3> QED BY <3>1, <3>2, FS_EmptySet
  <2> QED BY <2>1, <2>2 DEF FileInv
<1> QED BY <1>1, <1>3, <1>4, <1>5, <1>6 DEF RefInv

LEMMA FsInitInv ==
  ASSUME NEW live \in SUBSET Proc, FsInit(live)
  PROVE  FsIInv
<1>1. Cardinality(live) \in Nat
  BY FsConstants, FS_Subset, FS_CardinalityType
<1>2. TableOk(itable)
  <2>1. itable = [i \in Inum |-> IF i # ROOTINO THEN FreeEntry
                   ELSE [ref |-> Cardinality(live), valid |-> TRUE, holder |-> None]]
    BY DEF FsInit
  <2> QED BY <1>1, <2>1 DEF TableOk, Entry1, FreeEntry, None
<1>3. Resting(live)
  <2>1. \A i \in Inum : /\ itable[i].ref = IF i = ROOTINO THEN Cardinality(live) ELSE 0
                        /\ itable[i].holder = None
    BY DEF FsInit, FreeEntry
  <2> QED BY <1>2, <2>1 DEF Resting, FsInit
<1>4. BootInv
  <2>1. boot = NInodes + 2
    BY DEF FsInit
  <2> QED BY <2>1, FsSizes DEF BootInv, booted
<1> QED BY <1>3, <1>4, RestingInv DEF FsIInv

LEMMA ShapeStep ==
  ASSUME NEW p, NEW y, NEW z, FsShape, Legal(p, y, z)
  PROVE  FsShape'
<1>1. call' = [q \in Proc |-> call'[q]]
  <2>1. call' = [call EXCEPT ![p] = call'[p]] /\ call = [q \in Proc |-> call[q]]
    BY DEF FsShape, Legal
  <2> QED BY <2>1
<1>2. cwd' = [q \in Proc |-> cwd'[q]]
  <2>1. cwd' = [cwd EXCEPT ![p] = cwd'[p]] /\ cwd = [q \in Proc |-> cwd[q]]
    BY DEF FsShape, Legal
  <2> QED BY <2>1
<1> QED BY <1>1, <1>2 DEF FsShape, Legal

LEMMA KeptStep ==
  ASSUME FsIInv, NEW p \in Proc, Kept(p), boot' = boot, booted \/ Quiet'
  PROVE  FsIInv'
<1>1. PICK y, z : Legal(p, y, z) /\ FileStep(y, z)
  BY DEF Kept
<1>2. FsShape' /\ CallInv' /\ LockInv'
  BY <1>1, ShapeStep, CallStep, LockStep DEF FsIInv
<1>3. FileInv' /\ FilesMore(y, z)
  BY <1>1 DEF FileStep
<1>4. RefInv'
  BY <1>1, <1>3, FilesFinite, RefStep DEF FsIInv
<1>5. BootInv'
  BY DEF FsIInv, BootInv, booted
<1> QED BY <1>2, <1>3, <1>4, <1>5 DEF FsIInv

\* The same in a turn of ireclaim's loop.
LEMMA BootOn ==
  ASSUME FsIInv, NEW p \in Proc, Kept(p), boot \in Inum, boot' = boot + 1, Quiet'
  PROVE  FsIInv'
<1>1. PICK y, z : Legal(p, y, z) /\ FileStep(y, z)
  BY DEF Kept
<1>2. FsShape' /\ CallInv' /\ LockInv'
  BY <1>1, ShapeStep, CallStep, LockStep DEF FsIInv
<1>3. FileInv' /\ FilesMore(y, z)
  BY <1>1 DEF FileStep
<1>4. RefInv'
  BY <1>1, <1>3, FilesFinite, RefStep DEF FsIInv
<1>5. BootInv'
  BY FsSizes DEF BootInv, Inum
<1> QED BY <1>2, <1>3, <1>4, <1>5 DEF FsIInv

LEMMA CrashInv ==
  ASSUME FsIInv, Crash
  PROVE  FsIInv'
<1>1. Cardinality({}) = 0 /\ {} \in SUBSET Proc
  BY FS_EmptySet
<1>2. Resting({})'
  <2>1. TableOk(itable')
    BY DEF Crash, TableOk, Entry1, FreeEntry, None
  <2>2. \A i \in Inum : itable'[i].ref = 0 /\ itable'[i].holder = None
    BY DEF Crash, FreeEntry
  <2>3. cwd' = [p \in Proc |-> IF p \in {} THEN ROOTINO ELSE 0]
    BY DEF Crash
  <2> QED BY <1>1, <2>1, <2>2, <2>3 DEF Resting, Crash
<1>3. (\A live \in SUBSET Proc : Resting(live) => FsShape /\ RefInv /\ CallInv /\ LockInv /\ FileInv)'
  BY RestingInv, PTL
<1>4. (FsShape /\ RefInv /\ CallInv /\ LockInv /\ FileInv)'
  BY <1>1, <1>2, <1>3
<1>5. BootInv'
  <2>1. Idle.pc = "idle"
    BY DEF Idle
  <2>2. Quiet'
    BY <2>1 DEF Quiet, Crash, Pc
  <2> QED BY <2>2, FsSizes DEF BootInv, Crash
<1> QED BY <1>4, <1>5 DEF FsIInv

\* An orphan's iget: the reference is the call's.
LEMMA ireclaimInv ==
  ASSUME FsIInv, NEW p \in Proc, ireclaim(p)
  PROVE  FsIInv'
<1> DEFINE d == [Idle EXCEPT !.pc = "begin", !.op = "reclaim", !.ip = boot]
           c == call[p]
<1>1. /\ ~booted /\ Quiet /\ boot \in Inum /\ boot' = boot + 1 /\ NInodes \in Nat
      /\ UNCHANGED <<cwd, file, ofile>> /\ c.pc = "idle" /\ TableOk(itable)
  BY FsSizes DEF FsIInv, FsShape, BootInv, booted, ireclaim, Inum, Pc
<1>2. IsCall(d) /\ d.pc = "begin" /\ d.op = "reclaim" /\ d.mode = {} /\ d.ip = boot
  BY DEF IsCall, CallFields, Idle
<1>3. (itable' = Ref(itable, boot, 1) /\ Go(p, d)) \/ UNCHANGED <<itable, call>>
  BY DEF ireclaim
<1> HIDE DEF d
<1>4. CASE UNCHANGED <<itable, call>>
  <2>1. Kept(p)
    BY <1>1, <1>4, StandsKept DEF FsIInv
  <2>2. Quiet'
    BY <1>1, <1>4 DEF Quiet, Pc
  <2> QED BY <1>1, <2>1, <2>2, BootOn
<1>5. CASE itable' = Ref(itable, boot, 1) /\ Go(p, d)
  <2>1. Label(d) = "begin" /\ Put1(d) = 0 /\ Put2(d) = 0 /\ PutsOk(d)
    BY <1>2 DEF Label, Putting, Put1, Put2, PutsOk
  <2>2. CallOk(d)
    BY <1>2, <2>1 DEF CallOk, Fits, Labels, Creators
  <2>3. Label(c) = "idle" /\ c.pc \notin Putting
    BY <1>1 DEF Label, Putting
  <2>4. ASSUME NEW i \in Inum
        PROVE  Uses(d, cwd[p], i) = Hit(cwd[p], i) + Hit(boot, i) /\ Uses(c, cwd[p], i) = Hit(cwd[p], i)
    <3>1. /\ CwdAt("begin", d, cwd[p]) = cwd[p] /\ IpAt("begin", d) = boot
          /\ DpAt("begin", d) = 0 /\ LpAt("begin", d) = 0
      BY <1>2 DEF CwdAt, IpAt, DpAt, LpAt, ChdirDone, IpLabels, NameLabels
    <3>2. CwdAt("idle", c, cwd[p]) = cwd[p] /\ IpAt("idle", c) = 0 /\ DpAt("idle", c) = 0
          /\ LpAt("idle", c) = 0
      BY DEF CwdAt, IpAt, DpAt, LpAt, ChdirDone, IpLabels, NameLabels
    <3> QED BY <2>1, <2>3, <1>1, <3>1, <3>2, UsesNow, InumZero DEF Uses, LabelUses, Hit
  <2>5. TableOk(itable') /\ \A i \in Inum : /\ itable'[i].ref = itable[i].ref + (IF i = boot THEN 1 ELSE 0)
                                            /\ itable'[i].holder = itable[i].holder
    BY <1>1, <1>5, RefTable
  <2>6. ASSUME NEW i \in Inum
        PROVE  itable'[i].ref = itable[i].ref + Uses(d, cwd[p], i) - Uses(c, cwd[p], i)
    <3>1. itable[i].ref \in Int
      BY <1>1 DEF TableOk, Entry1
    <3> QED BY <2>4, <2>5, <3>1 DEF Hit
  <2>7. ASSUME NEW i \in Inum PROVE HolderOk(p, d, i)
    <3>1. ~Locking(c, i)
      BY <2>3 DEF Locking, Putting
    <3> QED BY <2>5, <3>1, HolderKept DEF FsIInv
  <2>8. Legal(p, 0, 0)
    BY <1>1, <1>2, <1>5, <2>2, <2>5, <2>6, <2>7, StepTo DEF FsIInv
  <2>9. Kept(p)
    BY <1>1, <2>8, SameKept DEF FsIInv
  <2>10. Quiet'
    <3>1. call = [q \in Proc |-> call[q]]
      BY DEF FsIInv, FsShape
    <3> QED BY <1>1, <1>2, <1>5, <3>1 DEF Quiet, Go, Pc
  <2> QED BY <1>1, <2>9, <2>10, BootOn
<1> QED BY <1>3, <1>4, <1>5

\* The last of ireclaim's calls is over: nothing refers to an inode.
LEMMA forkretInv ==
  ASSUME FsIInv, forkret
  PROVE  FsIInv'
<1>1. /\ Quiet /\ boot' = NInodes + 2 /\ NInodes \in Nat /\ UNCHANGED <<file, ofile>>
      /\ TableOk(itable) /\ \A q \in Proc : Pc(q) = "idle"
      /\ call' = [q \in Proc |-> Idle] /\ cwd' = [q \in Proc |-> ROOTINO]
      /\ itable' = [itable EXCEPT ![ROOTINO].ref = Cardinality(Proc)]
  BY FsSizes DEF FsIInv, FsShape, BootInv, booted, forkret
<1>2. Cardinality(Proc) \in Nat
  BY FsConstants, FS_CardinalityType
<1>3. ASSUME NEW i \in Inum PROVE itable[i].ref = 0 /\ itable[i].holder = None /\ itable[i] \in Entry1
  <2>1. FilesOf(file, i) = {} /\ {q \in Proc : cwd[q] = i} = {}
    BY <1>1, InumZero DEF Quiet, FilesOf, FreeFile
  <2>2. RefCount(i) = Cardinality({}) + Cardinality({})
    BY <1>1, <2>1, IdleCount
  <2>3. itable[i].holder # None => itable[i].holder \in Proc /\ Locking(call[itable[i].holder], i)
    BY DEF FsIInv, LockInv
  <2>4. \A q \in Proc : ~Locking(call[q], i)
    BY <1>1 DEF Locking, Label, Putting, Pc
  <2> QED BY <1>1, <2>2, <2>3, <2>4, FS_EmptySet DEF FsIInv, RefInv, TableOk
<1>4. Resting(Proc)'
  <2>1. itable = [j \in Inum |-> itable[j]]
    BY <1>1 DEF TableOk
  <2>2. ASSUME NEW i \in Inum
        PROVE  /\ itable'[i].ref = IF i = ROOTINO THEN Cardinality(Proc) ELSE 0
               /\ itable'[i].holder = None /\ itable'[i] \in Entry1
    <3>1. CASE i = ROOTINO
      <4>1. itable'[i] = [itable[i] EXCEPT !.ref = Cardinality(Proc)]
        BY <1>1, <2>1, <3>1
      <4> QED BY <1>2, <1>3, <3>1, <4>1 DEF Entry1
    <3>2. CASE i # ROOTINO
      BY <1>1, <1>3, <2>1, <3>2
    <3> QED BY <3>1, <3>2
  <2>3. itable' = [i \in Inum |-> itable'[i]]
    BY <1>1, <2>1
  <2>4. TableOk(itable')
    BY <2>2, <2>3 DEF TableOk
  <2>5. cwd' = [q \in Proc |-> IF q \in Proc THEN ROOTINO ELSE 0]
    BY <1>1
  <2> QED BY <1>1, <2>2, <2>4, <2>5 DEF Resting, Quiet
<1>5. (\A live \in SUBSET Proc : Resting(live) => FsShape /\ RefInv /\ CallInv /\ LockInv /\ FileInv)'
  BY RestingInv, PTL
<1>6. BootInv'
  BY <1>1 DEF BootInv, booted
<1> QED BY <1>4, <1>5, <1>6 DEF FsIInv

LEMMA StutterInv ==
  ASSUME FsIInv, UNCHANGED fsvars
  PROVE  FsIInv'
<1>1. (FsShape /\ CallInv /\ LockInv /\ BootInv)'
  BY DEF fsvars, FsIInv, FsShape, CallInv, LockInv, BootInv, Quiet, Pc, booted
<1>2. RefInv'
  BY DEF fsvars, FsIInv, RefInv, RefCount
<1>3. FileInv'
  BY DEF fsvars, FsIInv, FileInv, FileShape
<1> QED BY <1>1, <1>2, <1>3 DEF FsIInv

\* FsIInv is inductive: iget, idup, ialloc, iput, filealloc, filedup and fileclose
\* change the counts by what each step of a call takes or gives up.
THEOREM FsInvariant == FsSpec => []FsIInv
<1>1. FsInit(Proc) => FsIInv
  BY FsInitInv
<1>2. FsIInv /\ [FsNext]_fsvars => FsIInv'
  <2> SUFFICES ASSUME FsIInv, [FsNext]_fsvars PROVE FsIInv'
    OBVIOUS
  <2>1. ASSUME NEW p \in Proc, AnyCall(p) PROVE FsIInv'
    BY <2>1, AnyCallKept, KeptStep DEF FsIInv
  <2>2. ASSUME NEW p \in Proc, FsStep(p) PROVE FsIInv'
    <3>1. Kept(p) /\ boot' = boot
      BY <2>2, FsStepKept DEF FsIInv
    <3>2. booted \/ Quiet'
      BY <2>2, QuietStep DEF FsIInv, BootInv
    <3> QED BY <3>1, <3>2, KeptStep
  <2> QED BY <2>1, <2>2, CrashInv, ireclaimInv, forkretInv, StutterInv DEF FsNext
<1> QED BY <1>1, <1>2, PTL DEF FsSpec

LEMMA FsRefsExact == FsIInv => RefsExact
<1> SUFFICES ASSUME FsIInv, \A q \in Proc : Pc(q) = "idle"
             PROVE  /\ \A i \in Inum :
                         itable[i].ref = Cardinality({f \in File : file[f].type \in {"INODE", "DEVICE"} /\ file[f].ip = i})
                                         + Cardinality({p \in Proc : cwd[p] = i})
                    /\ \A f \in File :
                         file[f].ref = Cardinality({x \in Proc \X Fd : ofile[x[1]][x[2]] = f})
  BY DEF RefsExact
<1>1. ASSUME NEW i \in Inum
      PROVE  itable[i].ref = Cardinality(FilesOf(file, i)) + Cardinality({p \in Proc : cwd[p] = i})
  BY IdleCount DEF FsIInv, RefInv
<1>2. ASSUME NEW f \in File PROVE file[f].ref = Cardinality(FdsOf(ofile, f))
  BY DEF FsIInv, FileInv
<1> QED BY <1>1, <1>2 DEF FilesOf, FdsOf

\* While no call runs, the ref of an inode is the number of files and current
\* directories that are it, and the ref of a file the number of descriptors: no
\* path through sysfile.c, with its error returns, loses a reference or keeps one.
THEOREM RefsExactHolds == FsSpec => []RefsExact
BY FsInvariant, FsRefsExact, PTL
=============================================================================
