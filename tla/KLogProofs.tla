----------------------------- MODULE KLogProofs -----------------------------
(***************************************************************************)
(* Proofs about KLog, for every number of processes, blocks and buffers    *)
(* and every size of the log: the buffer cache and the counts of the log   *)
(* first, then that KLog implements AtomicLog.                             *)
(***************************************************************************)
EXTENDS KLog, FiniteSetTheorems, SequenceTheorems,
        WellFoundedInduction, TLAPS

(* The cache as a set of buffers *)

LEMMA BlockKinds ==
  /\ NoBlock \notin Block
  /\ Head0 \in Block /\ Data \subseteq Block /\ \A k \in 1 .. LOGBLOCKS : LogBlock(k) \in Block
  /\ \A k \in 1 .. LOGBLOCKS : LogBlock(k) \notin Data /\ LogBlock(k) # Head0
  /\ Head0 \notin Data
  /\ \A j, k \in Int : LogBlock(j) = LogBlock(k) => j = k
BY LogSizes DEF NoBlock, Block, Head0, LogBlock

LEMMA UpdatedBuffer ==
  ASSUME NEW u, IsBuffer(u)
  PROVE  /\ \A n \in Nat : LET w == [u EXCEPT !.refcnt = n]
                           IN IsBuffer(w) /\ w.blockno = u.blockno /\ w.valid = u.valid
                              /\ w.data = u.data /\ w.refcnt = n /\ w.holder = u.holder
         /\ \A h : LET w == [u EXCEPT !.holder = h]
                  IN IsBuffer(w) /\ w.blockno = u.blockno /\ w.valid = u.valid
                     /\ w.data = u.data /\ w.refcnt = u.refcnt /\ w.holder = h
         /\ \A x \in BOOLEAN : LET w == [u EXCEPT !.valid = x]
                             IN IsBuffer(w) /\ w.blockno = u.blockno /\ w.valid = x
                                /\ w.data = u.data /\ w.refcnt = u.refcnt /\ w.holder = u.holder
         /\ \A v : LET w == [u EXCEPT !.data = v]
                  IN IsBuffer(w) /\ w.blockno = u.blockno /\ w.valid = u.valid
                     /\ w.data = v /\ w.refcnt = u.refcnt /\ w.holder = u.holder
<1>1. ASSUME NEW n \in Nat, NEW w, w = [u EXCEPT !.refcnt = n]
      PROVE  IsBuffer(w) /\ w.blockno = u.blockno /\ w.valid = u.valid
             /\ w.data = u.data /\ w.refcnt = n /\ w.holder = u.holder
  BY <1>1 DEF IsBuffer
<1>2. ASSUME NEW h, NEW w, w = [u EXCEPT !.holder = h]
      PROVE  IsBuffer(w) /\ w.blockno = u.blockno /\ w.valid = u.valid
             /\ w.data = u.data /\ w.refcnt = u.refcnt /\ w.holder = h
  BY <1>2 DEF IsBuffer
<1>3. ASSUME NEW x \in BOOLEAN, NEW w, w = [u EXCEPT !.valid = x]
      PROVE  IsBuffer(w) /\ w.blockno = u.blockno /\ w.valid = x
             /\ w.data = u.data /\ w.refcnt = u.refcnt /\ w.holder = u.holder
  BY <1>3 DEF IsBuffer
<1>4. ASSUME NEW v, NEW w, w = [u EXCEPT !.data = v]
      PROVE  IsBuffer(w) /\ w.blockno = u.blockno /\ w.valid = u.valid
             /\ w.data = v /\ w.refcnt = u.refcnt /\ w.holder = u.holder
  BY <1>4 DEF IsBuffer
<1> QED BY <1>1, <1>2, <1>3, <1>4

\* A buffer found is the buffer of its block.
LEMMA FindBuffer ==
  ASSUME NEW c, CacheOK(c), NEW b \in Block, NEW k \in 1 .. NBUF, c[k].blockno = b
  PROVE  Has(c, b) /\ Pos(c, b) = k /\ Buf(c, b) = c[k]
<1>1. DOMAIN c = 1 .. NBUF
  BY DEF CacheOK
<1>2. Has(c, b)
  BY <1>1 DEF Has
<1>3. Pos(c, b) \in 1 .. NBUF /\ c[Pos(c, b)].blockno = b
  BY <1>1, <1>2 DEF Has, Pos
<1>4. Pos(c, b) = k
  BY <1>3, BlockKinds DEF CacheOK
<1> QED BY <1>2, <1>4 DEF Buf

LEMMA Found ==
  ASSUME NEW c, CacheOK(c), NEW b \in Block, Has(c, b)
  PROVE  /\ Pos(c, b) \in 1 .. NBUF /\ Buf(c, b) = c[Pos(c, b)]
         /\ IsBuffer(Buf(c, b)) /\ Buf(c, b).blockno = b
<1>1. DOMAIN c = 1 .. NBUF
  BY DEF CacheOK
<1>2. Pos(c, b) \in 1 .. NBUF /\ c[Pos(c, b)].blockno = b
  BY <1>1 DEF Has, Pos
<1> QED BY <1>2 DEF Buf, CacheOK

\* What one operation on the buffer of b does to the cache: the buffer of b is
\* then u, and those of the other blocks are as they were.
Becomes(c, d, b, u) ==
  /\ CacheOK(d) /\ Has(d, b) /\ Buf(d, b) = u
  /\ \A a \in Block \ {b} : /\ (Has(d, a) <=> Has(c, a))
                            /\ Has(c, a) => Buf(d, a) = Buf(c, a)

LEMMA SetBuffer ==
  ASSUME NEW c, CacheOK(c), NEW b \in Block, Has(c, b), NEW u, IsBuffer(u), u.blockno = b
  PROVE  Becomes(c, [c EXCEPT ![Pos(c, b)] = u], b, u)
<1> DEFINE q == Pos(c, b)
           d == [c EXCEPT ![q] = u]
<1>1. q \in 1 .. NBUF /\ c[q].blockno = b
  BY Found DEF Buf
<1>2. d = [k \in 1 .. NBUF |-> IF k = q THEN u ELSE c[k]]
  BY <1>1 DEF CacheOK
<1> HIDE DEF d
<1>3. CacheOK(d)
  BY <1>1, <1>2, BlockKinds DEF CacheOK
<1>4. Has(d, b) /\ Buf(d, b) = u
  <2>1. d[q] = u /\ q \in 1 .. NBUF
    BY <1>1, <1>2
  <2> HIDE DEF q
  <2> QED BY <2>1, <1>3, FindBuffer
<1>5. ASSUME NEW a \in Block \ {b}
      PROVE  (Has(d, a) <=> Has(c, a)) /\ (Has(c, a) => Buf(d, a) = Buf(c, a))
  <2>1. CASE Has(c, a)
    <3>1. Pos(c, a) \in 1 .. NBUF /\ c[Pos(c, a)].blockno = a /\ Buf(c, a) = c[Pos(c, a)]
      BY <2>1, Found
    <3>2. d[Pos(c, a)] = c[Pos(c, a)]
      BY <3>1, <1>1, <1>2
    <3> QED BY <3>1, <3>2, <1>3, <2>1, FindBuffer
  <2>2. CASE Has(d, a)
    <3>1. Pos(d, a) \in 1 .. NBUF /\ d[Pos(d, a)].blockno = a /\ Buf(d, a) = d[Pos(d, a)]
      BY <2>2, <1>3, Found
    <3>2. d[Pos(d, a)] = c[Pos(d, a)]
      BY <3>1, <1>1, <1>2
    <3> QED BY <3>1, <3>2, <2>1, FindBuffer
  <2> QED BY <2>1, <2>2 DEF Has
<1> QED BY <1>3, <1>4, <1>5 DEF d, Becomes

\* The code moves a buffer that nobody uses to the front of the list.
Fronted(c, q, u) ==
  [k \in 1 .. NBUF |-> IF k = 1 THEN u ELSE IF k <= q THEN c[k - 1] ELSE c[k]]

LEMMA MovedToFront ==
  ASSUME NEW c, CacheOK(c), NEW q \in 1 .. NBUF, NEW u
  PROVE  <<u>> \o RemoveAt(c, q) = Fronted(c, q, u)
<1> DEFINE S == {u} \cup {c[k] : k \in 1 .. NBUF}
           l == SubSeq(c, 1, q - 1)
           r == SubSeq(c, q + 1, Len(c))
           d == Fronted(c, q, u)
<1>1. NBUF \in Nat /\ q \in Nat /\ q > 0 /\ q <= NBUF
  BY LogSizes
<1>2. c \in [1 .. NBUF -> S]
  BY DEF CacheOK
<1>3. c \in Seq(S) /\ Len(c) = NBUF
  BY <1>1, <1>2
<1> HIDE DEF S
<1>4. l \in Seq(S) /\ Len(l) = q - 1 /\ \A k \in 1 .. q - 1 : l[k] = c[k]
  BY <1>1, <1>3
<1>5. r \in Seq(S) /\ Len(r) = NBUF - q /\ \A k \in 1 .. NBUF - q : r[k] = c[q + k]
  BY <1>1, <1>3
<1>6. <<u>> \in Seq(S)
  BY DEF S
<1> HIDE DEF l, r
<1>7. l \o r \in Seq(S) /\ Len(l \o r) = NBUF - 1
      /\ \A k \in 1 .. NBUF - 1 : (l \o r)[k] = IF k <= q - 1 THEN c[k] ELSE c[k + 1]
  <2>0. Len(l) + Len(r) = NBUF - 1
    BY <1>1, <1>4, <1>5
  <2>1. l \o r \in Seq(S) /\ Len(l \o r) = NBUF - 1
    BY <2>0, <1>4, <1>5, ConcatProperties
  <2>2. ASSUME NEW k \in 1 .. NBUF - 1
        PROVE  (l \o r)[k] = IF k <= q - 1 THEN c[k] ELSE c[k + 1]
    <3>1. (l \o r)[k] = IF k <= Len(l) THEN l[k] ELSE r[k - Len(l)]
      BY <1>1, <1>4, <1>5, ConcatProperties
    <3>2. CASE k <= q - 1
      BY <3>1, <3>2, <1>1, <1>4
    <3>3. CASE ~(k <= q - 1)
      <4>1. k - (q - 1) \in 1 .. NBUF - q /\ q + (k - (q - 1)) = k + 1
        BY <3>3, <1>1
      <4>2. r[k - (q - 1)] = c[k + 1]
        BY <4>1, <1>5
      <4> QED BY <4>2, <3>1, <3>3, <1>1, <1>4
    <3> QED BY <3>2, <3>3
  <2> QED BY <2>1, <2>2
<1> DEFINE m == l \o r
<1> HIDE DEF m
<1>8. m \in Seq(S) /\ Len(m) = NBUF - 1
      /\ \A k \in 1 .. NBUF - 1 : m[k] = IF k <= q - 1 THEN c[k] ELSE c[k + 1]
  BY <1>7 DEF m
<1>9. /\ <<u>> \o m \in Seq(S) /\ Len(<<u>> \o m) = NBUF
      /\ \A k \in 1 .. NBUF : (<<u>> \o m)[k] = IF k = 1 THEN u ELSE m[k - 1]
  BY <1>1, <1>6, <1>8
<1> DEFINE e == <<u>> \o m
<1> HIDE DEF e
<1>10. e \in [1 .. NBUF -> S] /\ \A k \in 1 .. NBUF : e[k] = IF k = 1 THEN u ELSE m[k - 1]
  BY <1>1, <1>9, LenProperties DEF e
<1>11. ASSUME NEW k \in 1 .. NBUF
       PROVE  e[k] = d[k]
  <2>1. CASE k = 1
    BY <2>1, <1>10 DEF Fronted
  <2>2. CASE k # 1
    <3>1. k - 1 \in 1 .. NBUF - 1 /\ (k - 1) + 1 = k /\ (k - 1 <= q - 1 <=> k <= q)
      BY <2>2, <1>1
    <3>2. m[k - 1] = IF k <= q THEN c[k - 1] ELSE c[k]
      BY <3>1, <1>8
    <3> QED BY <2>2, <3>2, <1>10 DEF Fronted
  <2> QED BY <2>1, <2>2
<1>12. e = d
  BY <1>10, <1>11 DEF Fronted
<1> QED BY <1>12 DEF e, m, l, r, RemoveAt

LEMMA MoveBuffer ==
  ASSUME NEW c, CacheOK(c), NEW b \in Block, Has(c, b), NEW u, IsBuffer(u), u.blockno = b
  PROVE  Becomes(c, <<u>> \o RemoveAt(c, Pos(c, b)), b, u)
<1> DEFINE q == Pos(c, b)
           d == <<u>> \o RemoveAt(c, q)
<1>0. NBUF \in Nat /\ NBUF > 0
  BY LogSizes
<1>1. q \in 1 .. NBUF /\ c[q].blockno = b
  BY Found DEF Buf
<1>2. d = Fronted(c, q, u)
  BY <1>1, MovedToFront
<1> HIDE DEF d, q
<1> USE DEF Fronted
<1>3. CacheOK(d)
  <2>1. \A k \in 1 .. NBUF : IsBuffer(d[k]) /\ (d[k].blockno = NoBlock => d[k].refcnt = 0)
    BY <1>0, <1>1, <1>2, BlockKinds DEF CacheOK
  <2>2. ASSUME NEW j \in 1 .. NBUF, NEW k \in 1 .. NBUF, d[j].blockno = d[k].blockno, j < k
        PROVE  d[j].blockno = NoBlock
    <3>1. CASE j = 1 /\ k <= q
      BY <3>1, <2>2, <1>0, <1>1, <1>2 DEF CacheOK
    <3>2. CASE j = 1 /\ k > q
      BY <3>2, <2>2, <1>0, <1>1, <1>2 DEF CacheOK
    <3>3. CASE j > 1 /\ k <= q
      BY <3>3, <2>2, <1>0, <1>1, <1>2 DEF CacheOK
    <3>4. CASE j > 1 /\ k > q
      BY <3>4, <2>2, <1>0, <1>1, <1>2 DEF CacheOK
    <3> QED BY <3>1, <3>2, <3>3, <3>4, <1>1, <1>0
  <2>3. \A j, k \in 1 .. NBUF : d[j].blockno = d[k].blockno /\ j # k => d[j].blockno = NoBlock
    BY <2>2
  <2> QED BY <1>2, <2>1, <2>3 DEF CacheOK
<1>4. Has(d, b) /\ Buf(d, b) = u
  <2>1. d[1] = u /\ 1 \in 1 .. NBUF
    BY <1>0, <1>2
  <2> QED BY <2>1, <1>3, FindBuffer
<1>5. ASSUME NEW a \in Block \ {b}
      PROVE  (Has(d, a) <=> Has(c, a)) /\ (Has(c, a) => Buf(d, a) = Buf(c, a))
  <2>1. CASE Has(c, a)
    <3> DEFINE i == Pos(c, a)
               n == IF i < q THEN i + 1 ELSE i
    <3>1. i \in 1 .. NBUF /\ c[i].blockno = a /\ Buf(c, a) = c[i]
      BY <2>1, Found
    <3> HIDE DEF i
    <3>2. i # q
      BY <3>1, <1>1
    <3>3. n \in 1 .. NBUF /\ d[n] = c[i]
      BY <3>1, <3>2, <1>0, <1>1, <1>2
    <3> HIDE DEF n
    <3> QED BY <3>1, <3>3, <1>3, <2>1, FindBuffer
  <2>2. CASE Has(d, a)
    <3> DEFINE i == Pos(d, a)
               n == IF i <= q THEN i - 1 ELSE i
    <3>1. i \in 1 .. NBUF /\ d[i].blockno = a /\ Buf(d, a) = d[i]
      BY <2>2, <1>3, Found
    <3> HIDE DEF i
    <3>2. i # 1
      BY <3>1, <1>0, <1>2
    <3>3. n \in 1 .. NBUF /\ c[n] = d[i]
      BY <3>1, <3>2, <1>0, <1>1, <1>2
    <3> HIDE DEF n
    <3> QED BY <3>1, <3>3, <2>1, FindBuffer
  <2> QED BY <2>1, <2>2
<1> QED BY <1>3, <1>4, <1>5 DEF d, q, Becomes

\* The buffer bget recycles exists and is unused.
LEMMA VictimUnused ==
  ASSUME NEW c, CacheOK(c), Unused(c) # {}
  PROVE  Victim(c) \in 1 .. NBUF /\ c[Victim(c)].refcnt = 0
<1> DEFINE Less == {e \in Nat \X Nat : e[1] < e[2]}
           T == {NBUF - k : k \in Unused(c)}
<1>1. IsWellFoundedOn(Less, Nat)
  BY NatLessThanWellFounded DEF OpToRel
<1>2. Unused(c) \subseteq 1 .. NBUF /\ NBUF \in Nat
  BY LogSizes DEF Unused, CacheOK
<1>3. T \subseteq Nat /\ T # {}
  BY <1>2
<1> HIDE DEF Less
<1>4. PICK x \in T : \A y \in T : ~(<<y, x>> \in Less)
  BY <1>1, <1>3, WFMin
<1>5. PICK k \in Unused(c) : x = NBUF - k
  BY <1>4
<1>6. \A j \in Unused(c) : j <= k
  <2> SUFFICES ASSUME NEW j \in Unused(c), j > k
               PROVE  FALSE
    BY <1>2, <1>5
  <2>1. NBUF - j \in T /\ NBUF - j \in Nat /\ x \in Nat /\ NBUF - j < x
    BY <1>2, <1>5
  <2> QED BY <2>1, <1>4 DEF Less
<1>7. Victim(c) \in Unused(c)
  BY <1>6 DEF Victim
<1> QED BY <1>2, <1>7 DEF Unused

\* What an operation that may recycle an unused buffer does to the cache.
Evicts(c, d, b, u) ==
  /\ CacheOK(d) /\ Has(d, b) /\ Buf(d, b) = u
  /\ \A a \in Block \ {b} :
       /\ Has(d, a) => Has(c, a) /\ Buf(d, a) = Buf(c, a)
       /\ Has(c, a) /\ ~Has(d, a) => Buf(c, a).refcnt = 0

Got(c, b) == IF Has(c, b) THEN [Buf(c, b) EXCEPT !.refcnt = @ + 1]
             ELSE [blockno |-> b, valid |-> FALSE, refcnt |-> 1, data |-> 0, holder |-> Nobody]

LEMMA BgetOK ==
  ASSUME NEW c, CacheOK(c), NEW b \in Block, ~NoBuffer(c, b)
  PROVE  Evicts(c, bget(c, b), b, Got(c, b)) /\ IsBuffer(Got(c, b))
<1>1. CASE Has(c, b)
  <2> DEFINE u == [Buf(c, b) EXCEPT !.refcnt = @ + 1]
  <2>1. Pos(c, b) \in 1 .. NBUF /\ IsBuffer(Buf(c, b)) /\ Buf(c, b).blockno = b
        /\ Buf(c, b) = c[Pos(c, b)]
    BY <1>1, Found
  <2>2. IsBuffer(u) /\ u.blockno = b
    BY <2>1 DEF IsBuffer
  <2>3. bget(c, b) = [c EXCEPT ![Pos(c, b)] = u]
    BY <1>1, <2>1 DEF bget, CacheOK
  <2> HIDE DEF u
  <2>4. Becomes(c, bget(c, b), b, u)
    <3>1. Becomes(c, [c EXCEPT ![Pos(c, b)] = u], b, u)
      BY <1>1, <2>2, SetBuffer
    <3> QED BY <3>1, <2>3
  <2> QED BY <1>1, <2>2, <2>4 DEF Becomes, Evicts, Got, u
<1>2. CASE ~Has(c, b)
  <2> DEFINE u == [blockno |-> b, valid |-> FALSE, refcnt |-> 1, data |-> 0, holder |-> Nobody]
             q == Victim(c)
             d == bget(c, b)
  <2>1. q \in 1 .. NBUF /\ c[q].refcnt = 0
    BY <1>2, VictimUnused DEF NoBuffer
  <2>2. IsBuffer(u) /\ u.blockno = b
    BY DEF IsBuffer
  <2>3. d = [k \in 1 .. NBUF |-> IF k = q THEN u ELSE c[k]]
    BY <1>2, <2>1 DEF bget, CacheOK
  <2>4. \A k \in 1 .. NBUF : c[k].blockno # b
    BY <1>2 DEF Has, CacheOK
  <2> HIDE DEF u, q, d
  <2>5. CacheOK(d)
    BY <2>1, <2>2, <2>3, <2>4, BlockKinds DEF CacheOK
  <2>6. d[q] = u
    BY <2>1, <2>3
  <2>7. Has(d, b) /\ Buf(d, b) = u
    BY <2>1, <2>2, <2>5, <2>6, FindBuffer
  <2>8. ASSUME NEW a \in Block \ {b}, Has(d, a)
        PROVE  Has(c, a) /\ Buf(d, a) = Buf(c, a)
    <3>1. Pos(d, a) \in 1 .. NBUF /\ d[Pos(d, a)].blockno = a /\ Buf(d, a) = d[Pos(d, a)]
      BY <2>5, <2>8, Found
    <3>2. c[Pos(d, a)] = d[Pos(d, a)]
      BY <3>1, <2>2, <2>3
    <3> QED BY <3>1, <3>2, FindBuffer
  <2>9. ASSUME NEW a \in Block \ {b}, Has(c, a), ~Has(d, a)
        PROVE  Buf(c, a).refcnt = 0
    <3>1. Pos(c, a) \in 1 .. NBUF /\ c[Pos(c, a)].blockno = a /\ Buf(c, a) = c[Pos(c, a)]
      BY <2>9, Found
    <3>2. CASE Pos(c, a) = q
      BY <3>1, <3>2, <2>1
    <3>3. CASE Pos(c, a) # q
      <4>1. d[Pos(c, a)] = c[Pos(c, a)]
        BY <3>1, <3>3, <2>3
      <4> QED BY <4>1, <3>1, <2>5, <2>9, FindBuffer
    <3> QED BY <3>2, <3>3
  <2> QED BY <1>2, <2>2, <2>5, <2>7, <2>8, <2>9 DEF Evicts, Got, u, d
<1> QED BY <1>1, <1>2

LEMMA BrelseOK ==
  ASSUME NEW c, CacheOK(c), NEW b \in Block, Has(c, b), Buf(c, b).refcnt > 0
  PROVE  Becomes(c, brelse(c, b), b, [Buf(c, b) EXCEPT !.holder = Nobody, !.refcnt = @ - 1])
<1> DEFINE u == [Buf(c, b) EXCEPT !.holder = Nobody, !.refcnt = @ - 1]
<1>1. IsBuffer(Buf(c, b)) /\ Buf(c, b).blockno = b
  BY Found
<1>2. IsBuffer(u) /\ u.blockno = b
  <2> DEFINE B == Buf(c, b)
             w == [B EXCEPT !.holder = Nobody]
  <2>1. IsBuffer(w) /\ w.blockno = b /\ w.refcnt = B.refcnt /\ w.refcnt - 1 \in Nat
    BY <1>1, UpdatedBuffer DEF IsBuffer
  <2>2. u = [w EXCEPT !.refcnt = w.refcnt - 1]
    BY <1>1, <2>1 DEF IsBuffer
  <2> HIDE DEF w, u
  <2> QED BY <2>1, <2>2, UpdatedBuffer
<1> HIDE DEF u
<1>3. Becomes(c, [c EXCEPT ![Pos(c, b)] = u], b, u)
  BY <1>2, SetBuffer
<1>4. Becomes(c, <<u>> \o RemoveAt(c, Pos(c, b)), b, u)
  BY <1>2, MoveBuffer
<1>5. brelse(c, b) = [c EXCEPT ![Pos(c, b)] = u] \/ brelse(c, b) = <<u>> \o RemoveAt(c, Pos(c, b))
  BY DEF brelse, u
<1> QED BY <1>3, <1>4, <1>5 DEF u

\* bread of a block that is then given the content v and released: only the
\* content of its buffer changes.
LEMMA UsedOK ==
  ASSUME NEW c, CacheOK(c), NEW b \in Block, ~NoBuffer(c, b), NEW v
  PROVE  /\ Evicts(c, Used(c, b, v), b, Buf(Used(c, b, v), b))
         /\ Buf(Used(c, b, v), b).refcnt = Ref(c, b)
         /\ Buf(Used(c, b, v), b).valid /\ Buf(Used(c, b, v), b).data = v
<1> DEFINE c1 == bget(c, b)
           u == [Got(c, b) EXCEPT !.valid = TRUE, !.data = v]
           c2 == [c1 EXCEPT ![Pos(c1, b)].valid = TRUE, ![Pos(c1, b)].data = v]
           w == [u EXCEPT !.holder = Nobody, !.refcnt = @ - 1]
<1>1. Evicts(c, c1, b, Got(c, b)) /\ IsBuffer(Got(c, b))
  BY BgetOK
<1> HIDE DEF c1
<1>2. CacheOK(c1) /\ Has(c1, b) /\ Buf(c1, b) = Got(c, b)
  BY <1>1 DEF Evicts
<1>3. Pos(c1, b) \in 1 .. NBUF /\ Got(c, b) = c1[Pos(c1, b)] /\ Got(c, b).blockno = b
  BY <1>2, Found
<1>4. c2 = [c1 EXCEPT ![Pos(c1, b)] = u]
  BY <1>2, <1>3 DEF CacheOK
<1>5. IsBuffer(u) /\ u.blockno = b
  <2> DEFINE x == [Got(c, b) EXCEPT !.valid = TRUE]
  <2>1. IsBuffer(x) /\ x.blockno = b
    BY <1>1, <1>3, UpdatedBuffer
  <2>2. u = [x EXCEPT !.data = v]
    BY <1>1 DEF IsBuffer
  <2> HIDE DEF x, u
  <2> QED BY <2>1, <2>2, UpdatedBuffer
<1>6. Got(c, b).refcnt = Ref(c, b) + 1 /\ Ref(c, b) \in Nat
  BY Found DEF Got, Ref, IsBuffer
<1>7. u.refcnt = Ref(c, b) + 1 /\ u.valid /\ u.data = v
  BY <1>1, <1>6 DEF IsBuffer
<1> HIDE DEF c2, u
<1>8. Becomes(c1, c2, b, u)
  BY <1>2, <1>4, <1>5, SetBuffer
<1>9. CacheOK(c2) /\ Has(c2, b) /\ Buf(c2, b) = u
  BY <1>8 DEF Becomes
<1>10. Becomes(c2, brelse(c2, b), b, w)
  <2>1. Buf(c2, b).refcnt > 0
    BY <1>6, <1>7, <1>9
  <2>2. Becomes(c2, brelse(c2, b), b, [Buf(c2, b) EXCEPT !.holder = Nobody, !.refcnt = @ - 1])
    BY <1>9, <2>1, BrelseOK
  <2> QED BY <1>9, <2>2
<1>11. w.refcnt = Ref(c, b) /\ w.valid /\ w.data = v
  BY <1>5, <1>6, <1>7 DEF IsBuffer
<1> HIDE DEF w
<1>12. Used(c, b, v) = brelse(c2, b)
  BY DEF Used, c1, c2
<1>13. Evicts(c, brelse(c2, b), b, w)
  BY <1>1, <1>8, <1>10 DEF Evicts, Becomes
<1> QED BY <1>11, <1>12, <1>13 DEF Evicts

-----------------------------------------------------------------------------
(* Processes, the log's counters and the reservation *)

LEMMA Constants ==
  /\ LOGBLOCKS \in Nat /\ MAXOPBLOCKS \in Nat /\ MAXOPBLOCKS > 0 /\ MAXOPBLOCKS <= LOGBLOCKS
  /\ OpBlocks \in Nat /\ OpBlocks <= MAXOPBLOCKS /\ NBUF \in Nat /\ NBUF > 0
  /\ MaxOps \in Nat /\ Head0 \notin Data /\ Data \subseteq Nat
  /\ \A h : IsHeader(h) => h \in Seq(Data) /\ Len(h) \in Nat
BY LogSizes DEF Head0, IsHeader

LEMMA Counting ==
  ASSUME NEW S \in SUBSET Process
  PROVE  /\ IsFiniteSet(S) /\ Cardinality(S) \in Nat /\ (Cardinality(S) = 0 <=> S = {})
         /\ \A p \in Process \ S : Cardinality(S \cup {p}) = Cardinality(S) + 1
         /\ \A p \in S : Cardinality(S \ {p}) = Cardinality(S) - 1
<1>1. IsFiniteSet(S)
  BY Processes, FS_Subset
<1> QED BY <1>1, FS_CardinalityType, FS_EmptySet, FS_AddElement, FS_RemoveElement

LEMMA ActiveCount ==
  /\ Active \in SUBSET Process /\ IsFiniteSet(Active) /\ Cardinality(Active) \in Nat
  /\ Cardinality(Active) = 0 <=> Active = {}
<1>1. Active \in SUBSET Process
  BY DEF Active
<1> QED BY <1>1, Counting

LEMMA TicketCount ==
  IsFiniteSet(Tickets) /\ Cardinality(Tickets) \in Nat
<1>1. IsFiniteSet(1 .. MAXOPBLOCKS)
  BY Constants, FS_Interval
<1>2. IsFiniteSet(Process \X (1 .. MAXOPBLOCKS))
  BY <1>1, Processes, FS_Product
<1>3. Tickets \subseteq Process \X (1 .. MAXOPBLOCKS)
  BY DEF Tickets
<1> QED BY <1>2, <1>3, FS_Subset, FS_CardinalityType

LEMMA ToWriteType ==
  ASSUME Types, Places, NEW p \in Process
  PROVE  ToWrite(p) \in Nat /\ ToWrite(p) <= MAXOPBLOCKS
BY Constants DEF Types, Places, ToWrite, Active

\* A step after which nobody may write more keeps the reservation.
LEMMA TicketsKept ==
  ASSUME Types, Places, Types', Places', \A q \in Process : ToWrite(q)' <= ToWrite(q)
  PROVE  Cardinality(Tickets') <= Cardinality(Tickets)
<1>1. Tickets' \subseteq Tickets
  <2> SUFFICES ASSUME NEW t \in Process \X (1 .. MAXOPBLOCKS), t[2] <= ToWrite(t[1])'
               PROVE  t[2] <= ToWrite(t[1])
    BY DEF Tickets
  <2>1. t[1] \in Process /\ t[2] \in Nat
    BY Constants
  <2>2. ToWrite(t[1]) \in Nat
    BY <2>1, ToWriteType
  <2>3. ToWrite(t[1])' \in Nat
    BY <2>1, Constants DEF Types, Places, ToWrite, Active
  <2> QED BY <2>1, <2>2, <2>3
<1> QED BY <1>1, TicketCount, FS_Subset

LEMMA TicketCountNext ==
  (IsFiniteSet(Tickets) /\ Cardinality(Tickets) \in Nat)'
BY TicketCount, PTL

LEMMA ReservedKept ==
  ASSUME ControlInv, Types', Places', ~IsDown, lh' = lh,
         \A q \in Process : ToWrite(q)' <= ToWrite(q)
  PROVE  Reserved'
<1>1. Cardinality(Tickets') <= Cardinality(Tickets)
  BY TicketsKept DEF ControlInv
<1>2. Cardinality(Tickets') \in Nat
  BY TicketCountNext
<1>3. Len(lh) \in Nat /\ Len(lh) + Cardinality(Tickets) <= LOGBLOCKS
  BY Constants DEF ControlInv, LogShape, Reserved
<1> QED BY <1>1, <1>2, <1>3, TicketCount, Constants DEF Reserved

\* log_write uses one ticket.
LEMMA TicketSpent ==
  ASSUME Types, Places, Types', Places', NEW p \in Process, ToWrite(p)' = ToWrite(p) - 1, ToWrite(p) > 0,
         \A q \in Process \ {p} : ToWrite(q)' = ToWrite(q)
  PROVE  Cardinality(Tickets') = Cardinality(Tickets) - 1 /\ Cardinality(Tickets) > 0
<1> DEFINE x == <<p, ToWrite(p)>>
<1>1. ToWrite(p) \in Nat /\ ToWrite(p) <= MAXOPBLOCKS
  BY ToWriteType
<1>2. x \in Tickets
  BY <1>1, Constants DEF Tickets
<1>3. ASSUME NEW t \in Process \X (1 .. MAXOPBLOCKS)
      PROVE  t \in Tickets' <=> t \in Tickets \ {x}
  <2>1. t[1] \in Process /\ t[2] \in Nat /\ t = <<t[1], t[2]>>
    BY Constants
  <2>2. (t \in Tickets <=> t[2] <= ToWrite(t[1])) /\ (t \in Tickets' <=> t[2] <= ToWrite(t[1])')
    BY DEF Tickets
  <2>3. CASE t[1] = p
    BY <2>1, <2>2, <2>3, <1>1
  <2>4. CASE t[1] # p
    BY <2>1, <2>2, <2>4
  <2> QED BY <2>3, <2>4
<1>4. Tickets' = Tickets \ {x}
  BY <1>3 DEF Tickets
<1>5. Cardinality(Tickets) # 0
  BY <1>2, TicketCount, FS_EmptySet
<1> QED BY <1>2, <1>4, <1>5, TicketCount, FS_RemoveElement

\* The tickets of the running operations are no more than what they reserved.
LEMMA TicketsOfActive ==
  Types /\ Places => Cardinality(Tickets) <= Cardinality(Active) * MAXOPBLOCKS
<1> SUFFICES ASSUME Types, Places
             PROVE  Cardinality(Tickets) <= Cardinality(Active) * MAXOPBLOCKS
  OBVIOUS
<1>1. IsFiniteSet(1 .. MAXOPBLOCKS) /\ Cardinality(1 .. MAXOPBLOCKS) = MAXOPBLOCKS
  BY Constants, FS_Interval
<1>2. IsFiniteSet(Active \X (1 .. MAXOPBLOCKS))
      /\ Cardinality(Active \X (1 .. MAXOPBLOCKS)) = Cardinality(Active) * MAXOPBLOCKS
  BY <1>1, ActiveCount, FS_Product
<1>3. Tickets \subseteq Active \X (1 .. MAXOPBLOCKS)
  BY Constants DEF Tickets, ToWrite
<1> QED BY <1>2, <1>3, FS_Subset

\* A process that is running is not in a machine that is down.
LEMMA Moves ==
  ASSUME Types, Places, NEW p \in Process, pc[p] # "down"
  PROVE  ~IsDown /\ \A q \in Process : pc[q] # "down"
BY DEF Places, IsDown

LEMMA start_opControl ==
  ASSUME ControlInv, NEW p \in Process, start_op(p)
  PROVE  ControlInv'
<1> USE DEF ControlInv
<1>0. ~IsDown /\ \A q \in Process : pc[q] # "down"
  BY Moves DEF start_op, At
<1>1. Types'
  BY Constants DEF Types, start_op, At, Goto, bounds, Value, logvars
<1>2. Places' /\ ~IsDown'
  BY <1>0 DEF Types, Places, start_op, At, Goto, Value, IsDown, CommitPc, UsePc
<1>3. Active' = Active
  BY DEF Types, Places, start_op, At, Goto, Active, CommitPc
<1>4. \A l \in CommitPc : Committing(l)' <=> Committing(l)
  BY DEF Types, Committing, start_op, At, Goto, CommitPc
<1>5. OneCommitter'
  BY <1>3 DEF Types, OneCommitter, start_op, At, Goto, CommitPc, logvars
<1>6. Awaited'
  BY DEF Types, Awaited, start_op, At, Goto, logvars
<1>7. LogShape'
  BY <1>0, <1>2, <1>4 DEF LogShape, start_op, logvars, CommitPc
<1>8. Reserved'
  <2>1. \A q \in Process : ToWrite(q)' <= ToWrite(q)
    BY <1>3, Constants DEF Types, ToWrite, start_op, At, Goto, Active
  <2> QED BY <1>0, <1>1, <1>2, <2>1, ReservedKept DEF start_op, logvars
<1> QED BY <1>1, <1>2, <1>5, <1>6, <1>7, <1>8

LEMMA begin_opControl ==
  ASSUME ControlInv, NEW p \in Process, begin_op(p)
  PROVE  ControlInv'
<1> USE DEF ControlInv
<1>0. ~IsDown /\ \A q \in Process : pc[q] # "down"
  BY Moves DEF begin_op, At
<1>1. Types'
  <2>1. outstanding' \in Nat /\ OpBlocks \in 0 .. OpBlocks
    BY Constants DEF Types, begin_op
  <2>2. left' \in [Process -> 0 .. OpBlocks]
    BY <2>1 DEF Types, begin_op
  <2> QED BY <2>1, <2>2 DEF Types, begin_op, At, Goto, bounds, Value, OpPc
<1>2. Places' /\ ~IsDown'
  BY <1>0 DEF Types, Places, begin_op, At, Goto, Value, IsDown, CommitPc, UsePc
<1>4. \A l \in CommitPc : Committing(l)' <=> Committing(l)
  BY DEF Types, Committing, begin_op, At, Goto, CommitPc
<1>a. CASE committing \/ LogFull
  <2>1. Active' = Active
    BY <1>a DEF Types, Places, begin_op, At, Goto, Active, CommitPc
  <2>2. OneCommitter'
    BY <1>a, <2>1 DEF Types, OneCommitter, begin_op, At, Goto, CommitPc
  <2>3. committing \/ outstanding > 0
    <3> SUFFICES ASSUME ~committing, outstanding = 0, LogFull
                 PROVE  FALSE
      BY <1>a DEF Types
    <3>1. lh = <<>>
      BY <1>0 DEF LogShape
    <3>2. Len(lh) = 0
      BY <3>1
    <3> QED BY <3>2, Constants DEF LogFull
  <2>4. Awaited'
    BY <1>a, <2>3 DEF Types, Awaited, begin_op, At, Goto
  <2>5. LogShape'
    BY <1>a, <1>0, <1>2, <1>4 DEF LogShape, begin_op, CommitPc
  <2>6. \A q \in Process : ToWrite(q)' <= ToWrite(q)
    BY <1>a, <2>1, Constants DEF Types, ToWrite, begin_op, At, Goto, Active
  <2>7. Reserved'
    BY <1>0, <1>1, <1>2, <2>6, ReservedKept DEF begin_op
  <2> QED BY <1>1, <1>2, <2>2, <2>4, <2>5, <2>7
<1>b. CASE ~(committing \/ LogFull)
  <2>0. p \notin Active /\ outstanding \in Nat
    BY DEF Active, begin_op, At, Types
  <2>1. Active' = Active \cup {p}
    BY <1>b DEF Types, Places, begin_op, At, Goto, Active, CommitPc
  <2>2. Cardinality(Active') = outstanding + 1
    BY <2>0, <2>1, ActiveCount, Counting DEF OneCommitter
  <2>3. OneCommitter'
    BY <1>b, <2>0, <2>2 DEF Types, OneCommitter, begin_op, At, Goto, CommitPc
  <2>4. Awaited'
    BY <1>b, <2>0 DEF Types, Awaited, begin_op, At, Goto
  <2>5. LogShape'
    BY <1>b, <1>0, <1>2, <1>4, <2>0 DEF LogShape, begin_op, CommitPc
  <2>6. Cardinality(Tickets') <= (outstanding + 1) * MAXOPBLOCKS
    <3>1. (Types /\ Places => Cardinality(Tickets) <= Cardinality(Active) * MAXOPBLOCKS)'
      BY TicketsOfActive, PTL
    <3> QED BY <1>1, <1>2, <3>1, <2>2
  <2>7. Reserved'
    <3>1. Len(lh) + (outstanding + 1) * MAXOPBLOCKS <= LOGBLOCKS /\ lh' = lh /\ Len(lh) \in Nat
      BY <1>b, <1>0, <2>0, Constants DEF LogFull, begin_op, LogShape
    <3>2. Cardinality(Tickets') \in Nat
      BY TicketCountNext
    <3>3. (outstanding + 1) * MAXOPBLOCKS \in Nat
      BY <2>0, Constants
    <3> QED BY <3>1, <3>2, <3>3, <2>6, Constants DEF Reserved
  <2> QED BY <1>1, <1>2, <2>3, <2>4, <2>5, <2>7
<1> QED BY <1>a, <1>b

\* A step that begins and ends no operation and no commit.
LEMMA PlainStep ==
  ASSUME ControlInv, NEW p \in Process, NEW l, pc' = [pc EXCEPT ![p] = l],
         UNCHANGED <<op, outstanding, committing>>,
         \/ pc[p] \in CommitPc /\ l \in CommitPc
         \/ pc[p] \in {"idle"} \cup OpPc /\ l \in {"idle"} \cup OpPc
  PROVE  /\ ~IsDown /\ ~IsDown' /\ \A q \in Process : pc'[q] # "down"
         /\ Active' = Active /\ OneCommitter' /\ Awaited'
<1> USE DEF ControlInv
<1>0. ~IsDown /\ \A q \in Process : pc[q] # "down"
  BY Moves DEF CommitPc, OpPc
<1>1. ~IsDown' /\ \A q \in Process : pc'[q] # "down"
  BY <1>0 DEF IsDown, CommitPc, OpPc, Types
<1>2. Active' = Active
  BY DEF Active, Types, CommitPc, OpPc, Places
<1>3. \A q \in Process : pc'[q] \in CommitPc <=> pc[q] \in CommitPc
  BY DEF Types, CommitPc, OpPc
<1>4. OneCommitter'
  BY <1>2, <1>3 DEF OneCommitter
<1>5. Awaited'
  BY DEF Awaited, Types, CommitPc, OpPc
<1> QED BY <1>0, <1>1, <1>2, <1>4, <1>5

\* Such a step outside the commit.
LEMMA OutsideCommit ==
  ASSUME ControlInv, NEW p \in Process, NEW l, pc' = [pc EXCEPT ![p] = l],
         pc[p] \in {"idle"} \cup OpPc /\ l \in {"idle"} \cup OpPc
  PROVE  \A k \in CommitPc : Committing(k)' <=> Committing(k)
BY DEF ControlInv, Types, Committing, OpPc, CommitPc

LEMMA BreadControl ==
  ASSUME ControlInv, NEW p \in Process, NEW b \in Data,
         bread_op(p, b) \/ bread_outside(p, b)
  PROVE  ControlInv'
<1> USE DEF ControlInv
<1>1. \E l \in {pc[p], "want"} : pc' = [pc EXCEPT ![p] = l]
  BY DEF bread_op, bread_outside, Bread, Goto, Types
<1>2. PICK l \in {pc[p], "want"} : pc' = [pc EXCEPT ![p] = l]
  BY <1>1
<1>3. UNCHANGED <<op, outstanding, committing, tail, lh, nops>> /\ pc[p] \in {"idle", "op"}
      /\ blk' = [blk EXCEPT ![p] = b] /\ panicked' \in BOOLEAN
  BY DEF bread_op, bread_outside, Bread, logvars, At, NoBuffer, Has
<1>4. pc[p] \in {"idle"} \cup OpPc /\ l \in {"idle"} \cup OpPc
  BY <1>2, <1>3 DEF OpPc
<1>5. /\ ~IsDown /\ ~IsDown' /\ \A q \in Process : pc'[q] # "down"
      /\ Active' = Active /\ OneCommitter' /\ Awaited'
  BY <1>2, <1>3, <1>4, PlainStep
<1>6. \/ left' = left /\ op[p] = 0
      \/ left' = [left EXCEPT ![p] = left[p] - 1] /\ left[p] > 0 /\ op[p] # 0
  BY DEF bread_op, bread_outside, Types, Places, At
<1>7. left' \in [Process -> 0 .. OpBlocks] /\ left'[p] <= left[p]
      /\ \A q \in Process \ {p} : left'[q] = left[q]
  BY <1>6, Constants DEF Types
<1>8. Types'
  BY <1>2, <1>3, <1>4, <1>7 DEF Types
<1>9. Places'
  BY <1>2, <1>3, <1>4, <1>5, <1>6, Constants DEF Types, Places, OpPc, UsePc, CommitPc, IsDown
<1>10. LogShape'
  BY <1>2, <1>3, <1>4, <1>5, OutsideCommit DEF LogShape, CommitPc
<1>11. \A q \in Process : ToWrite(q)' <= ToWrite(q)
  BY <1>2, <1>3, <1>5, <1>6, Constants DEF ToWrite, Types, Active
<1>12. Reserved'
  BY <1>3, <1>5, <1>8, <1>9, <1>11, ReservedKept
<1> QED BY <1>5, <1>8, <1>9, <1>10, <1>12

LEMMA acquiresleepControl ==
  ASSUME ControlInv, NEW p \in Process, acquiresleep(p)
  PROVE  ControlInv'
<1> USE DEF ControlInv
<1>3. UNCHANGED <<op, outstanding, committing, tail, lh, blk, left, nops, panicked>>
      /\ pc[p] = "want" /\ pc' = [pc EXCEPT ![p] = "have"]
  BY DEF acquiresleep, logvars, At, Goto, bounds
<1>5. /\ ~IsDown /\ ~IsDown' /\ \A q \in Process : pc'[q] # "down"
      /\ Active' = Active /\ OneCommitter' /\ Awaited'
  BY <1>3, PlainStep DEF OpPc
<1>8. Types'
  BY <1>3 DEF Types, OpPc
<1>9. Places'
  BY <1>3, <1>5 DEF Types, Places, UsePc, CommitPc, IsDown
<1>10. LogShape'
  BY <1>3, <1>5, OutsideCommit DEF LogShape, CommitPc, OpPc
<1>11. \A q \in Process : ToWrite(q)' <= ToWrite(q)
  BY <1>3, <1>5, Constants DEF ToWrite, Types
<1>12. Reserved'
  BY <1>3, <1>5, <1>8, <1>9, <1>11, ReservedKept
<1> QED BY <1>5, <1>8, <1>9, <1>10, <1>12

LEMMA releaseControl ==
  ASSUME ControlInv, NEW p \in Process, release(p)
  PROVE  ControlInv'
<1> USE DEF ControlInv
<1> DEFINE l == IF op[p] = 0 THEN "idle" ELSE "op"
<1>3. UNCHANGED <<op, outstanding, committing, tail, lh, blk, left, nops, panicked>>
      /\ (pc[p] = "done" \/ (pc[p] = "have" /\ op[p] = 0)) /\ pc' = [pc EXCEPT ![p] = l]
  BY DEF release, logvars, At, Goto, bounds
<1>5. /\ ~IsDown /\ ~IsDown' /\ \A q \in Process : pc'[q] # "down"
      /\ Active' = Active /\ OneCommitter' /\ Awaited'
  BY <1>3, PlainStep DEF OpPc
<1>8. Types'
  BY <1>3 DEF Types, OpPc
<1>9. Places'
  BY <1>3, <1>5 DEF Types, Places, UsePc, CommitPc, IsDown
<1>10. LogShape'
  BY <1>3, <1>5, OutsideCommit DEF LogShape, CommitPc, OpPc
<1>11. \A q \in Process : ToWrite(q)' <= ToWrite(q)
  BY <1>3, <1>5, Constants DEF ToWrite, Types, Active
<1>12. Reserved'
  BY <1>3, <1>5, <1>8, <1>9, <1>11, ReservedKept
<1> QED BY <1>5, <1>8, <1>9, <1>10, <1>12

\* log_write panics neither for a full log nor outside an operation.
LEMMA log_writeFits ==
  ASSUME ControlInv, NEW p \in Process, log_write(p)
  PROVE  /\ Len(lh) \in Nat /\ Len(lh) < LOGBLOCKS /\ outstanding >= 1 /\ ~committing
         /\ p \in Active /\ ToWrite(p) > 0 /\ ~panicked'
<1> USE DEF ControlInv
<1>1. ~IsDown
  BY Moves DEF log_write, At
<1>2. p \in Active /\ ToWrite(p) > 0
  BY Constants DEF log_write, At, Active, ToWrite, Types
<1>3. outstanding >= 1
  <2>1. Cardinality(Active) # 0
    BY <1>2, ActiveCount
  <2> QED BY <2>1 DEF OneCommitter, Types
<1>4. <<p, 1>> \in Tickets
  BY <1>2, Constants, ToWriteType DEF Tickets
<1>5. Cardinality(Tickets) # 0
  BY <1>4, TicketCount, FS_EmptySet
<1>6. Len(lh) \in Nat /\ Len(lh) < LOGBLOCKS
  BY <1>1, <1>5, TicketCount, Constants DEF Reserved, LogShape
<1> QED BY <1>2, <1>3, <1>6, Constants DEF log_write, OneCommitter, Types

LEMMA log_writeControl ==
  ASSUME ControlInv, NEW p \in Process, log_write(p)
  PROVE  ControlInv'
<1> USE DEF ControlInv
<1>1. /\ Len(lh) \in Nat /\ Len(lh) < LOGBLOCKS /\ outstanding >= 1 /\ ~committing
      /\ p \in Active /\ ToWrite(p) > 0 /\ ~panicked'
  BY log_writeFits
<1>2. /\ UNCHANGED <<op, outstanding, committing, tail, blk, left, nops>>
      /\ pc[p] = "have" /\ op[p] # 0 /\ pc' = [pc EXCEPT ![p] = "done"] /\ blk[p] \in Data
      /\ panicked' \in BOOLEAN
  BY DEF log_write, At, Goto, bounds, Places, UsePc
<1>3. \/ lh' = lh
      \/ lh' = Append(lh, blk[p]) /\ \A k \in 1 .. Len(lh) : lh[k] # blk[p]
  BY <1>1 DEF log_write
<1>4. /\ ~IsDown /\ ~IsDown' /\ \A q \in Process : pc'[q] # "down"
      /\ Active' = Active /\ OneCommitter' /\ Awaited'
  BY <1>2, PlainStep DEF OpPc
<1>5. IsHeader(lh) /\ IsHeader(lh') /\ Len(lh') <= Len(lh) + 1
  <2>1. IsHeader(lh) /\ lh \in Seq(Data)
    BY <1>4 DEF LogShape, IsHeader
  <2>2. CASE lh' = lh
    BY <2>1, <2>2, <1>1
  <2>3. CASE lh' = Append(lh, blk[p]) /\ \A k \in 1 .. Len(lh) : lh[k] # blk[p]
    <3>1. /\ lh' \in Seq(Data) /\ Len(lh') = Len(lh) + 1 /\ lh'[Len(lh) + 1] = blk[p]
          /\ \A k \in 1 .. Len(lh) : lh'[k] = lh[k]
      BY <2>1, <2>3, <1>2, AppendProperties
    <3>2. ASSUME NEW j \in 1 .. Len(lh'), NEW k \in 1 .. Len(lh'), lh'[j] = lh'[k]
          PROVE  j = k
      BY <3>1, <3>2, <2>1, <2>3, <1>1 DEF IsHeader
    <3> QED BY <3>1, <3>2, <2>1, <1>1, Constants DEF IsHeader
  <2> QED BY <1>3, <2>2, <2>3
<1>6. Types'
  BY <1>2 DEF Types, OpPc
<1>7. Places'
  BY <1>2, <1>4 DEF Types, Places, UsePc, CommitPc, IsDown
<1>8. LogShape'
  <2>1. \A q \in Process : pc[q] \notin CommitPc /\ pc'[q] \notin CommitPc
    BY <1>1, <1>2, <1>4 DEF OneCommitter
  <2> QED BY <1>1, <1>2, <1>4, <1>5, <2>1 DEF LogShape, Committing, CommitPc
<1>9. Reserved'
  <2>1. ToWrite(p)' = ToWrite(p) - 1 /\ \A q \in Process \ {p} : ToWrite(q)' = ToWrite(q)
    BY <1>1, <1>2, <1>4, Constants DEF ToWrite, Types
  <2>2. Cardinality(Tickets') = Cardinality(Tickets) - 1
    BY <1>1, <1>6, <1>7, <2>1, TicketSpent
  <2>3. Len(lh) + Cardinality(Tickets) <= LOGBLOCKS
    BY <1>4 DEF Reserved
  <2>4. Len(lh') \in Nat /\ Cardinality(Tickets) \in Nat
    BY <1>5, TicketCount, Constants
  <2> QED BY <2>2, <2>3, <2>4, <1>1, <1>5, Constants DEF Reserved
<1> QED BY <1>4, <1>6, <1>7, <1>8, <1>9

\* end_op never finds a commit under way.
LEMMA end_opFits ==
  ASSUME ControlInv, NEW p \in Process, end_op(p)
  PROVE  /\ p \in Active /\ ~committing /\ outstanding >= 1 /\ ~panicked'
         /\ Active' = Active \ {p} /\ Cardinality(Active') = outstanding - 1
<1> USE DEF ControlInv
<1>1. p \in Active
  BY DEF end_op, At, Active, Places
<1>2. outstanding >= 1
  <2>1. Cardinality(Active) # 0
    BY <1>1, ActiveCount
  <2> QED BY <2>1 DEF OneCommitter, Types
<1>3. ~committing
  BY <1>2 DEF OneCommitter
<1>4. \A q \in Process \ {p} :
        op'[q] = op[q] /\ (pc'[q] \in {"begin", "asleep"} <=> pc[q] \in {"begin", "asleep"})
  BY DEF end_op, At, Goto, Woken, Types
<1>5. Active' = Active \ {p}
  BY <1>4 DEF Active, Types, end_op
<1> QED BY <1>1, <1>2, <1>3, <1>5, ActiveCount, Counting DEF OneCommitter, end_op

LEMMA end_opControl ==
  ASSUME ControlInv, NEW p \in Process, end_op(p)
  PROVE  ControlInv'
<1> USE DEF ControlInv
<1>0. /\ p \in Active /\ ~committing /\ outstanding >= 1 /\ ~panicked'
      /\ Active' = Active \ {p} /\ Cardinality(Active') = outstanding - 1
  BY end_opFits
<1>1. /\ UNCHANGED <<lh, blk, left, nops>> /\ pc[p] = "op" /\ panicked' \in BOOLEAN
      /\ op' = [op EXCEPT ![p] = 0] /\ outstanding' = outstanding - 1 /\ outstanding' \in Nat
  BY <1>0 DEF end_op, At, bounds, Types
<1>2. ~IsDown /\ (\A q \in Process : pc[q] # "down" /\ pc[q] \notin CommitPc) /\ IsHeader(lh)
  BY <1>0, <1>1, Moves DEF OneCommitter, LogShape
<1>a. CASE outstanding = 1
  <2> DEFINE l == IF lh = <<>> THEN "committed" ELSE "write_log"
  <2>1. committing' = TRUE /\ tail' = 0 /\ pc' = [pc EXCEPT ![p] = l]
    BY <1>a DEF end_op, Goto
  <2>2. Types'
    BY <1>1, <2>1, Constants DEF Types, Value, CommitPc
  <2>3. Places' /\ ~IsDown'
    BY <1>1, <1>2, <2>1 DEF Types, Places, UsePc, CommitPc, IsDown
  <2>4. OneCommitter'
    BY <1>0, <1>1, <1>2, <1>a, <2>1 DEF Types, OneCommitter, CommitPc
  <2>5. Awaited'
    BY <2>1 DEF Awaited
  <2>6. LogShape'
    <3>1. lh # <<>> => 0 < Len(lh)
      BY <1>2, EmptySeq, Constants
    <3> QED BY <1>1, <1>2, <2>1, <2>3, <3>1 DEF LogShape, Committing, CommitPc, Types
  <2>7. \A q \in Process : ToWrite(q)' <= ToWrite(q)
    BY <1>0, <1>1, <2>1, Constants DEF ToWrite, Types
  <2> QED BY <1>1, <1>2, <2>2, <2>3, <2>4, <2>5, <2>6, <2>7, ReservedKept
<1>b. CASE outstanding # 1
  <2>1. committing' = committing /\ tail' = tail /\ outstanding' > 0
    BY <1>0, <1>1, <1>b DEF end_op, Types
  <2>2. /\ pc' = [q \in Process |-> IF q = p THEN "idle" ELSE IF pc[q] = "asleep" THEN "begin" ELSE pc[q]]
    BY <1>b DEF end_op, Woken, Types
  <2>3. Types'
    BY <1>1, <2>1, <2>2, Constants DEF Types, Value, CommitPc, OpPc
  <2>4. Places' /\ ~IsDown'
    BY <1>1, <1>2, <2>2 DEF Types, Places, UsePc, CommitPc, IsDown
  <2>5. OneCommitter'
    BY <1>0, <1>1, <1>2, <2>1, <2>2 DEF Types, OneCommitter, CommitPc
  <2>6. Awaited'
    BY <2>2 DEF Awaited
  <2>7. LogShape'
    BY <1>1, <1>2, <2>1, <2>2, <2>4 DEF LogShape, Committing, CommitPc
  <2>8. \A q \in Process : ToWrite(q)' <= ToWrite(q)
    BY <1>0, <1>1, <2>2, Constants DEF ToWrite, Types, Active
  <2> QED BY <1>1, <1>2, <2>3, <2>4, <2>5, <2>6, <2>7, <2>8, ReservedKept
<1> QED BY <1>a, <1>b

\* A step within the commit of p, to l.
LEMMA CommitStep ==
  ASSUME ControlInv, NEW p \in Process, NEW l, pc' = [pc EXCEPT ![p] = l],
         pc[p] \in CommitPc, l \in CommitPc
  PROVE  /\ \A k : Committing(k) /\ k \in CommitPc => k = pc[p]
         /\ \A k : Committing(k)' /\ k \in CommitPc => k = l
         /\ Committing(pc[p]) /\ Committing(l)'
BY DEF ControlInv, OneCommitter, Committing, Types

LEMMA CommitControl ==
  ASSUME ControlInv, NEW p \in Process, NEW l, pc' = [pc EXCEPT ![p] = l],
         pc[p] \in CommitPc \ {"committed"}, l \in CommitPc,
         UNCHANGED <<op, outstanding, committing, blk, left, nops>>, panicked' \in BOOLEAN,
         tail' \in Nat, lh' = lh \/ lh' = <<>>, l = "committed" => lh' = <<>>,
         l \in {"write_log", "write_head", "install_trans"} => lh' = lh /\ tail' < Len(lh),
         l = "write_head" => tail' = 0
  PROVE  ControlInv'
<1> USE DEF ControlInv
<1>1. /\ ~IsDown /\ ~IsDown' /\ \A q \in Process : pc'[q] # "down"
      /\ Active' = Active /\ OneCommitter' /\ Awaited'
  BY PlainStep
<1>2. Types'
  BY DEF Types
<1>3. Places'
  BY <1>1 DEF Types, Places, CommitPc, UsePc, IsDown
<1>4. IsHeader(lh) /\ IsHeader(<<>>)
  BY <1>1, Constants DEF LogShape, IsHeader
<1>5. LogShape'
  <2>1. committing
    BY DEF OneCommitter
  <2>2. \A k \in CommitPc : Committing(k)' => k = l
    BY CommitStep DEF CommitPc
  <2> QED BY <1>1, <1>4, <2>1, <2>2 DEF LogShape, CommitPc
<1>6. Reserved'
  <2>1. \A q \in Process : ToWrite(q)' <= ToWrite(q)
    BY <1>1, Constants DEF ToWrite, Types, CommitPc
  <2>2. Cardinality(Tickets') <= Cardinality(Tickets)
    BY <1>2, <1>3, <2>1, TicketsKept
  <2>3. Cardinality(Tickets') \in Nat
    BY TicketCountNext
  <2>4. Len(lh') \in Nat /\ Len(lh') <= Len(lh) /\ Len(lh) \in Nat
    BY <1>4, Constants
  <2>5. Len(lh) + Cardinality(Tickets) <= LOGBLOCKS
    BY <1>1 DEF Reserved
  <2> QED BY <2>2, <2>3, <2>4, <2>5, TicketCount, Constants DEF Reserved
<1> QED BY <1>1, <1>2, <1>3, <1>5, <1>6

\* Where the commit of p is, and what there is of the log then.
LEMMA CommitAt ==
  ASSUME ControlInv, NEW p \in Process, pc[p] \in CommitPc
  PROVE  /\ IsHeader(lh) /\ Len(lh) \in Nat /\ tail \in Nat /\ ~IsDown /\ Active = {}
         /\ pc[p] = "write_head" => tail = 0
         /\ pc[p] \in {"write_log", "write_head", "install_trans"} =>
              tail < Len(lh) /\ tail + 1 \in 1 .. Len(lh) /\ tail + 1 \in 1 .. LOGBLOCKS
              /\ lh[tail + 1] \in Data
<1> USE DEF ControlInv
<1>1. ~IsDown
  BY Moves DEF CommitPc
<1>2. IsHeader(lh) /\ Len(lh) \in Nat /\ tail \in Nat
  BY <1>1, Constants DEF LogShape, Types
<1>3. Active = {}
  BY ActiveCount DEF OneCommitter
<1>4. ASSUME pc[p] \in {"write_log", "write_head", "install_trans"}
      PROVE  tail < Len(lh) /\ tail + 1 \in 1 .. Len(lh) /\ tail + 1 \in 1 .. LOGBLOCKS
             /\ lh[tail + 1] \in Data
  <2>1. tail < Len(lh)
    BY <1>4 DEF LogShape, Committing
  <2>2. tail + 1 \in 1 .. Len(lh) /\ tail + 1 \in 1 .. LOGBLOCKS
    BY <2>1, <1>2, Constants DEF IsHeader
  <2> QED BY <2>1, <2>2, <1>2 DEF IsHeader
<1>5. pc[p] = "write_head" => tail = 0
  BY DEF LogShape, Committing
<1> QED BY <1>1, <1>2, <1>3, <1>4, <1>5

LEMMA write_logControl ==
  ASSUME ControlInv, NEW p \in Process, write_log(p)
  PROVE  ControlInv'
<1> USE DEF ControlInv
<1> DEFINE l == IF pc' = pc THEN "write_log" ELSE "write_head"
<1>0. pc[p] = "write_log"
  BY DEF write_log, At
<1>1. tail < Len(lh) /\ Len(lh) \in Nat /\ tail \in Nat
  BY <1>0, CommitAt DEF CommitPc
<1>2. UNCHANGED <<lh, op, outstanding, committing, blk, left, nops>> /\ panicked' \in BOOLEAN
  BY DEF write_log, Copy, bounds
<1>3. /\ pc' = [pc EXCEPT ![p] = "write_log"] \/ pc' = [pc EXCEPT ![p] = "write_head"]
      /\ tail' \in Nat /\ tail' < Len(lh) /\ (pc' # pc => tail' = 0)
  BY <1>0, <1>1 DEF write_log, Copy, Goto, Types
<1>4. pc' = [pc EXCEPT ![p] = l]
  BY <1>0, <1>3 DEF Types
<1> QED BY <1>0, <1>2, <1>3, <1>4, CommitControl DEF CommitPc

LEMMA install_transControl ==
  ASSUME ControlInv, NEW p \in Process, install_trans(p)
  PROVE  ControlInv'
<1> USE DEF ControlInv
<1> DEFINE l == IF pc' = pc THEN "install_trans" ELSE "erase"
<1>0. pc[p] = "install_trans"
  BY DEF install_trans, At
<1>1. tail < Len(lh) /\ Len(lh) \in Nat /\ tail \in Nat
  BY <1>0, CommitAt DEF CommitPc
<1>2. UNCHANGED <<lh, op, outstanding, committing, blk, left, nops>> /\ panicked' \in BOOLEAN
  BY DEF install_trans, bounds
<1>3. /\ pc' = [pc EXCEPT ![p] = "install_trans"] \/ pc' = [pc EXCEPT ![p] = "erase"]
      /\ tail' \in Nat /\ (pc' = pc => tail' < Len(lh))
  BY <1>0, <1>1 DEF install_trans, Goto, Types
<1>4. pc' = [pc EXCEPT ![p] = l]
  BY <1>0, <1>3 DEF Types
<1> QED BY <1>0, <1>2, <1>3, <1>4, CommitControl DEF CommitPc

LEMMA write_headControl ==
  ASSUME ControlInv, NEW p \in Process, write_head(p)
  PROVE  ControlInv'
<1> USE DEF ControlInv
<1> DEFINE l == IF pc' = pc THEN "write_head" ELSE "install_trans"
<1>0. pc[p] = "write_head"
  BY DEF write_head, At
<1>1. tail < Len(lh) /\ tail = 0
  BY <1>0, CommitAt DEF CommitPc
<1>2. UNCHANGED <<lh, op, outstanding, committing, tail, blk, left, nops>>
      /\ panicked' \in BOOLEAN
  BY DEF write_head, WriteHead, bounds, logvars
<1>3. pc' = [pc EXCEPT ![p] = "write_head"] \/ pc' = [pc EXCEPT ![p] = "install_trans"]
  BY <1>0 DEF write_head, WriteHead, Goto, Types
<1>4. pc' = [pc EXCEPT ![p] = l]
  BY <1>0, <1>3 DEF Types
<1> QED BY <1>0, <1>1, <1>2, <1>4, CommitControl DEF CommitPc

LEMMA eraseControl ==
  ASSUME ControlInv, NEW p \in Process, erase(p)
  PROVE  ControlInv'
<1> USE DEF ControlInv
<1> DEFINE l == IF pc' = pc THEN "erase" ELSE "committed"
<1>0. pc[p] = "erase"
  BY DEF erase, At
<1>2. UNCHANGED <<op, outstanding, committing, tail, blk, left, nops>>
      /\ lh' = <<>> /\ panicked' \in BOOLEAN /\ tail' \in Nat
  BY DEF erase, WriteHead, bounds, Types
<1>3. pc' = [pc EXCEPT ![p] = "erase"] \/ pc' = [pc EXCEPT ![p] = "committed"]
  BY <1>0 DEF erase, WriteHead, Goto, Types
<1>4. pc' = [pc EXCEPT ![p] = l]
  BY <1>0, <1>3 DEF Types
<1> QED BY <1>0, <1>2, <1>4, CommitControl DEF CommitPc

LEMMA committedControl ==
  ASSUME ControlInv, NEW p \in Process, committed(p)
  PROVE  ControlInv'
<1> USE DEF ControlInv
<1>0. pc[p] = "committed" /\ committing /\ outstanding = 0
  BY DEF committed, At, OneCommitter, CommitPc
<1>1. /\ UNCHANGED <<op, lh, outstanding, tail, blk, left, nops, panicked>> /\ committing' = FALSE
      /\ pc' = [q \in Process |-> IF q = p THEN "idle" ELSE IF pc[q] = "asleep" THEN "begin" ELSE pc[q]]
  BY DEF committed, Woken, bounds, Types
<1>2. ~IsDown /\ (\A q \in Process : pc[q] # "down") /\ IsHeader(lh) /\ lh = <<>>
  BY <1>0, Moves DEF LogShape, Committing
<1>3. Types'
  BY <1>1 DEF Types, OpPc, CommitPc
<1>4. Places' /\ ~IsDown'
  BY <1>0, <1>1, <1>2 DEF Types, Places, UsePc, CommitPc, IsDown
<1>5. Active' = Active
  BY <1>0, <1>1 DEF Active, Types, Places, CommitPc
<1>6. OneCommitter'
  BY <1>0, <1>1, <1>5 DEF Types, OneCommitter, CommitPc
<1>7. Awaited'
  BY <1>1 DEF Awaited
<1>8. LogShape'
  <2>1. \A q \in Process : pc'[q] \notin CommitPc
    BY <1>6, <1>1 DEF OneCommitter
  <2> QED BY <1>1, <1>2, <2>1 DEF LogShape, Committing, CommitPc
<1>9. \A q \in Process : ToWrite(q)' <= ToWrite(q)
  BY <1>0, <1>1, <1>5, Constants DEF ToWrite, Types, Active
<1> QED BY <1>1, <1>2, <1>3, <1>4, <1>6, <1>7, <1>8, <1>9, ReservedKept

LEMMA NothingReserved ==
  ASSUME Active = {}
  PROVE  Cardinality(Active) = 0 /\ Cardinality(Tickets) = 0
<1>1. Tickets = {}
  BY Constants DEF Tickets, ToWrite
<1> QED BY <1>1, FS_EmptySet

\* The machine is down, or has just come up.
LEMMA QuietControl ==
  ASSUME NEW l \in {"down", "idle"}, Types, l = "down" => ~panicked, l = "idle" => lh = <<>>,
         \A p \in Process : pc[p] = l /\ op[p] = 0, outstanding = 0, ~committing
  PROVE  ControlInv
<1>1. Active = {}
  BY DEF Active
<1>2. Places /\ (IsDown <=> l = "down")
  BY Processes DEF Places, IsDown, UsePc, CommitPc
<1>3. Cardinality(Active) = 0 /\ Cardinality(Tickets) = 0
  BY <1>1, NothingReserved
<1>4. OneCommitter
  BY <1>3 DEF OneCommitter, CommitPc
<1>5. Awaited
  BY DEF Awaited
<1>6. LogShape
  <2>1. IsHeader(<<>>)
    BY Constants DEF IsHeader
  <2>2. \A k : Committing(k) => k = l
    BY DEF Committing
  <2> QED BY <1>2, <2>1, <2>2 DEF LogShape
<1>7. Reserved
  BY <1>2, <1>3, Constants DEF Reserved
<1> QED BY <1>2, <1>4, <1>5, <1>6, <1>7 DEF ControlInv

LEMMA QuietControlNext ==
  ASSUME NEW l \in {"down", "idle"}, Types', l = "down" => ~panicked', l = "idle" => lh' = <<>>,
         \A p \in Process : pc'[p] = l /\ op'[p] = 0, outstanding' = 0, ~committing'
  PROVE  ControlInv'
<1>1. Active' = {}
  BY DEF Active
<1>2. Places' /\ (IsDown' <=> l = "down")
  BY Processes DEF Places, IsDown, UsePc, CommitPc
<1>3. Cardinality(Active') = 0 /\ Cardinality(Tickets') = 0
  <2>1. Tickets' = {}
    BY <1>1, Constants DEF Tickets, ToWrite
  <2> QED BY <1>1, <2>1, FS_EmptySet
<1>4. OneCommitter'
  BY <1>3 DEF OneCommitter, CommitPc
<1>5. Awaited'
  BY DEF Awaited
<1>6. LogShape'
  <2>1. IsHeader(<<>>)
    BY Constants DEF IsHeader
  <2>2. \A k : Committing(k)' => k = l
    BY DEF Committing
  <2> QED BY <1>2, <2>1, <2>2 DEF LogShape
<1>7. Reserved'
  BY <1>2, <1>3, Constants DEF Reserved
<1> QED BY <1>2, <1>4, <1>5, <1>6, <1>7 DEF ControlInv

LEMMA InitControl == Init => ControlInv
<1> SUFFICES ASSUME Init PROVE ControlInv
  OBVIOUS
<1>0. 0 \in 0 .. OpBlocks /\ 0 \in 0 .. MaxOps
  BY Constants
<1>1. Types
  BY <1>0 DEF Init, Types, Value
<1>2. lh = <<>> /\ outstanding = 0 /\ ~committing /\ \A p \in Process : pc[p] = "idle" /\ op[p] = 0
  BY DEF Init
<1> QED BY <1>1, <1>2, QuietControl

LEMMA crashControl ==
  ASSUME ControlInv, crash
  PROVE  ControlInv'
<1>0. 0 \in 0 .. OpBlocks /\ 0 \in 0 .. MaxOps
  BY Constants
<1>1. Types'
  BY <1>0 DEF ControlInv, crash, Types, Value
<1>2. ~panicked' /\ outstanding' = 0 /\ ~committing'
      /\ \A p \in Process : pc'[p] = "down" /\ op'[p] = 0
  BY DEF crash
<1> QED BY <1>1, <1>2, QuietControlNext

LEMMA DownFacts ==
  ASSUME ControlInv, Down
  PROVE  /\ IsDown /\ ~panicked /\ outstanding = 0 /\ ~committing /\ Active = {}
         /\ \A p \in Process : pc[p] = "down" /\ op[p] = 0
<1>1. IsDown /\ ~panicked /\ \A p \in Process : pc[p] = "down" /\ op[p] = 0
  BY Processes DEF Down, IsDown, ControlInv, Places
<1>2. Active = {}
  BY <1>1 DEF Active
<1>3. outstanding = 0
  BY <1>2, ActiveCount DEF ControlInv, OneCommitter
<1> QED BY <1>1, <1>2, <1>3 DEF ControlInv, OneCommitter, CommitPc

LEMMA RecoveryControl ==
  ASSUME ControlInv, Recovery
  PROVE  ControlInv'
<1>0. Down
  BY DEF Recovery, read_head, install_recovering, recovered
<1>1. /\ IsDown /\ ~panicked /\ outstanding = 0 /\ ~committing
      /\ \A p \in Process : pc[p] = "down" /\ op[p] = 0
  BY <1>0, DownFacts
<1>2. CASE read_head \/ install_recovering
  <2>1. UNCHANGED <<outstanding, committing, pc, blk, op, left, nops, panicked>> /\ tail' \in Nat
    BY <1>2 DEF read_head, install_recovering, procvars, bounds, ControlInv, Types
  <2>2. Types'
    BY <2>1 DEF ControlInv, Types
  <2> QED BY <1>1, <2>1, <2>2, QuietControlNext
<1>3. CASE recovered
  <2>1. /\ UNCHANGED <<outstanding, committing, blk, op, left, nops, panicked>> /\ tail' = 0
        /\ lh' = <<>> /\ pc' = [p \in Process |-> "idle"]
    BY <1>3 DEF recovered, bounds
  <2>2. Types'
    BY <2>1 DEF ControlInv, Types
  <2> QED BY <1>1, <2>1, <2>2, QuietControlNext
<1> QED BY <1>2, <1>3 DEF Recovery

LEMMA NextControl == ControlInv /\ [Next]_vars => ControlInv'
<1> SUFFICES ASSUME ControlInv, [Next]_vars
             PROVE  ControlInv'
  OBVIOUS
<1>1. CASE crash
  BY <1>1, crashControl
<1>2. CASE Recovery
  BY <1>2, RecoveryControl
<1>3. ASSUME NEW p \in Process, Operation(p)
      PROVE  ControlInv'
  BY <1>3, start_opControl, begin_opControl, acquiresleepControl, log_writeControl,
     releaseControl, end_opControl, BreadControl, write_logControl, write_headControl,
     install_transControl, eraseControl, committedControl DEF Operation
<1>4. CASE UNCHANGED vars
  BY <1>4 DEF vars, logvars, procvars, bounds, ControlInv, Types, Places, OneCommitter, Awaited,
              LogShape, Reserved, IsDown, Committing, Active, Tickets, ToWrite
<1> QED BY <1>1, <1>2, <1>3, <1>4 DEF Next

LEMMA ControlInvariant == Spec => []ControlInv
BY InitControl, NextControl, PTL DEF Spec

\* A process sleeps in begin_op only while somebody is in an operation or in a
\* commit, who will wake it when it ends.
THEOREM NobodySleepsForNothing == Spec => []SleepersAwaited
<1>1. ControlInv => SleepersAwaited
  <2> SUFFICES ASSUME ControlInv, NEW p \in Process, pc[p] = "asleep"
               PROVE  committing \/ Active # {}
    BY DEF SleepersAwaited
  <2>1. committing \/ outstanding > 0
    BY DEF ControlInv, Awaited
  <2>2. Active = {} => outstanding = 0
    BY ActiveCount DEF ControlInv, OneCommitter
  <2> QED BY <2>1, <2>2
<1> QED BY <1>1, ControlInvariant, PTL

-----------------------------------------------------------------------------
(* Reference counts *)

LEMMA BecomesEvicts ==
  ASSUME NEW c, NEW d, NEW b \in Block, NEW u, Becomes(c, d, b, u)
  PROVE  Evicts(c, d, b, u)
BY DEF Becomes, Evicts

LEMMA EvictsRefs ==
  ASSUME NEW c, NEW d, NEW b \in Block, NEW u, Evicts(c, d, b, u)
  PROVE  Ref(d, b) = u.refcnt /\ \A a \in Block \ {b} : Ref(d, a) = Ref(c, a)
BY DEF Evicts, Ref

LEMMA RefType ==
  ASSUME NEW c, CacheOK(c), NEW b \in Block
  PROVE  Ref(c, b) \in Nat /\ (Ref(c, b) > 0 => Has(c, b) /\ Buf(c, b).refcnt = Ref(c, b))
BY Found DEF Ref, IsBuffer

LEMMA BgetRefs ==
  ASSUME NEW c, CacheOK(c), NEW b \in Block, ~NoBuffer(c, b)
  PROVE  /\ CacheOK(bget(c, b)) /\ Has(bget(c, b), b)
         /\ Ref(bget(c, b), b) = Ref(c, b) + 1
         /\ \A a \in Block \ {b} : Ref(bget(c, b), a) = Ref(c, a)
<1>1. Evicts(c, bget(c, b), b, Got(c, b)) /\ IsBuffer(Got(c, b))
  BY BgetOK
<1>2. Got(c, b).refcnt = Ref(c, b) + 1
  BY Found DEF Got, Ref, IsBuffer
<1> QED BY <1>1, <1>2, EvictsRefs DEF Evicts

LEMMA BrelseRefs ==
  ASSUME NEW c, CacheOK(c), NEW b \in Block, Ref(c, b) > 0
  PROVE  /\ CacheOK(brelse(c, b)) /\ Ref(brelse(c, b), b) = Ref(c, b) - 1
         /\ \A a \in Block \ {b} : Ref(brelse(c, b), a) = Ref(c, a)
<1> DEFINE u == [Buf(c, b) EXCEPT !.holder = Nobody, !.refcnt = @ - 1]
<1>1. Has(c, b) /\ Buf(c, b).refcnt = Ref(c, b) /\ IsBuffer(Buf(c, b))
  BY RefType, Found
<1>2. Becomes(c, brelse(c, b), b, u)
  BY <1>1, BrelseOK
<1>3. u.refcnt = Ref(c, b) - 1
  BY <1>1 DEF IsBuffer
<1> HIDE DEF u
<1> QED BY <1>2, <1>3, BecomesEvicts, EvictsRefs DEF Becomes

LEMMA UsedRefs ==
  ASSUME NEW c, CacheOK(c), NEW b \in Block, ~NoBuffer(c, b), NEW v
  PROVE  CacheOK(Used(c, b, v)) /\ \A a \in Block : Ref(Used(c, b, v), a) = Ref(c, a)
<1>1. /\ Evicts(c, Used(c, b, v), b, Buf(Used(c, b, v), b))
      /\ Buf(Used(c, b, v), b).refcnt = Ref(c, b)
  BY UsedOK
<1> QED BY <1>1, EvictsRefs DEF Evicts

LEMMA BecomesRefs ==
  ASSUME NEW c, NEW d, NEW b \in Block, NEW u, Becomes(c, d, b, u)
  PROVE  /\ CacheOK(d) /\ Has(d, b) /\ Buf(d, b) = u /\ Ref(d, b) = u.refcnt
         /\ \A a \in Block \ {b} : Ref(d, a) = Ref(c, a)
<1>1. Evicts(c, d, b, u)
  BY BecomesEvicts
<1>2. Ref(d, b) = u.refcnt /\ \A a \in Block \ {b} : Ref(d, a) = Ref(c, a)
  BY <1>1, EvictsRefs
<1> QED BY <1>2 DEF Becomes

LEMMA PinRefs ==
  ASSUME NEW c, CacheOK(c), NEW b \in Block, Has(c, b)
  PROVE  /\ CacheOK(bpin(c, b)) /\ Ref(bpin(c, b), b) = Ref(c, b) + 1
         /\ \A a \in Block \ {b} : Ref(bpin(c, b), a) = Ref(c, a)
<1> DEFINE u == [Buf(c, b) EXCEPT !.refcnt = Buf(c, b).refcnt + 1]
<1>1. /\ Pos(c, b) \in 1 .. NBUF /\ IsBuffer(Buf(c, b)) /\ Buf(c, b).blockno = b
      /\ Buf(c, b) = c[Pos(c, b)] /\ Buf(c, b).refcnt = Ref(c, b) /\ Ref(c, b) \in Nat
  BY Found DEF Ref, IsBuffer
<1>2. IsBuffer(u) /\ u.blockno = b /\ u.refcnt = Ref(c, b) + 1
  BY <1>1, UpdatedBuffer
<1>3. bpin(c, b) = [c EXCEPT ![Pos(c, b)] = u]
  BY <1>1 DEF bpin, CacheOK
<1> HIDE DEF u
<1>4. Becomes(c, [c EXCEPT ![Pos(c, b)] = u], b, u)
  BY <1>2, SetBuffer
<1>5. Becomes(c, bpin(c, b), b, u)
  BY <1>3, <1>4
<1> QED BY <1>2, <1>5, BecomesRefs

LEMMA UnpinRefs ==
  ASSUME NEW c, CacheOK(c), NEW b \in Block, Ref(c, b) > 0
  PROVE  /\ CacheOK(bunpin(c, b)) /\ Ref(bunpin(c, b), b) = Ref(c, b) - 1
         /\ \A a \in Block \ {b} : Ref(bunpin(c, b), a) = Ref(c, a)
<1> DEFINE u == [Buf(c, b) EXCEPT !.refcnt = Buf(c, b).refcnt - 1]
<1>0. Has(c, b)
  BY RefType
<1>1. /\ Pos(c, b) \in 1 .. NBUF /\ IsBuffer(Buf(c, b)) /\ Buf(c, b).blockno = b
      /\ Buf(c, b) = c[Pos(c, b)] /\ Buf(c, b).refcnt = Ref(c, b) /\ Ref(c, b) - 1 \in Nat
  BY <1>0, Found, RefType
<1>2. IsBuffer(u) /\ u.blockno = b /\ u.refcnt = Ref(c, b) - 1
  BY <1>1, UpdatedBuffer
<1>3. bunpin(c, b) = [c EXCEPT ![Pos(c, b)] = u]
  BY <1>1 DEF bunpin, CacheOK
<1> HIDE DEF u
<1>4. Becomes(c, [c EXCEPT ![Pos(c, b)] = u], b, u)
  BY <1>0, <1>2, SetBuffer
<1>5. Becomes(c, bunpin(c, b), b, u)
  BY <1>3, <1>4
<1> QED BY <1>2, <1>5, BecomesRefs

\* A step that changes neither the users of a block nor the pins.
LEMMA RefsKept ==
  ASSUME RefCounts, \A b \in Block : Ref(cache', b) = Ref(cache, b) /\ Users(b)' = Users(b),
         Pinned' = Pinned
  PROVE  RefCounts'
BY DEF RefCounts, Ref, Has, Buf, Pos

LEMMA UserCount ==
  ASSUME NEW b
  PROVE  /\ IsFiniteSet(Users(b)) /\ Cardinality(Users(b)) \in Nat
         /\ Users(b) # {} => Cardinality(Users(b)) > 0
<1>1. Users(b) \in SUBSET Process
  BY DEF Users
<1> QED BY <1>1, Counting

\* Blocks in use and pinned blocks have a buffer.
LEMMA Referenced ==
  ASSUME BufferInv, ~panicked
  PROVE  /\ \A p \in Process : pc[p] \in UsePc /\ blk[p] \in Block =>
                               Ref(cache, blk[p]) > 0 /\ Has(cache, blk[p])
         /\ \A b \in Pinned : b \in Block /\ Ref(cache, b) > 0 /\ Has(cache, b)
<1>1. RefCounts /\ CacheOK(cache)
  BY DEF BufferInv
<1>2. ASSUME NEW p \in Process, pc[p] \in UsePc, blk[p] \in Block
      PROVE  Ref(cache, blk[p]) > 0 /\ Has(cache, blk[p])
  <2>1. Cardinality(Users(blk[p])) \in Nat /\ Cardinality(Users(blk[p])) > 0
    BY <1>2, UserCount DEF Users
  <2>2. Ref(cache, blk[p]) > 0
    BY <1>1, <1>2, <2>1 DEF RefCounts
  <2> QED BY <2>2, <1>1, <1>2, RefType
<1>3. ASSUME NEW b \in Pinned
      PROVE  b \in Block /\ Ref(cache, b) > 0 /\ Has(cache, b)
  <2>1. b \in Block
    BY BlockKinds DEF Pinned
  <2>2. Ref(cache, b) > 0
    BY <1>1, <1>3, <2>1, UserCount DEF RefCounts
  <2> QED BY <2>1, <2>2, <1>1, RefType
<1> QED BY <1>2, <1>3

-----------------------------------------------------------------------------
(* What the cache shows of a disk D *)

CachedIn(D, c, a) == IF Has(c, a) /\ Buf(c, a).valid THEN Buf(c, a).data ELSE D[a]

\* A buffer that bget may recycle holds what the disk holds.
Faithful(D, c) == \A a \in Block : Ref(c, a) = 0 => CachedIn(D, c, a) = D[a]

LEMMA EvictContent ==
  ASSUME NEW c, CacheOK(c), NEW d, NEW b \in Block, NEW u, Evicts(c, d, b, u),
         NEW D, Faithful(D, c)
  PROVE  /\ \A a \in Block \ {b} : CachedIn(D, d, a) = CachedIn(D, c, a)
         /\ CachedIn(D, d, b) = IF u.valid THEN u.data ELSE D[b]
         /\ u.refcnt # 0 => Faithful(D, d)
<1>1. CachedIn(D, d, b) = IF u.valid THEN u.data ELSE D[b]
  BY DEF CachedIn, Evicts
<1>2. ASSUME NEW a \in Block \ {b}
      PROVE  CachedIn(D, d, a) = CachedIn(D, c, a)
  <2>1. CASE Has(d, a)
    BY <2>1 DEF CachedIn, Evicts
  <2>2. CASE ~Has(d, a)
    <3>1. Ref(c, a) = 0
      BY <2>2 DEF Ref, Evicts
    <3> QED BY <2>2, <3>1 DEF CachedIn, Faithful
  <2> QED BY <2>1, <2>2
<1>3. Ref(d, b) = u.refcnt /\ \A a \in Block \ {b} : Ref(d, a) = Ref(c, a)
  BY EvictsRefs
<1> QED BY <1>1, <1>2, <1>3 DEF Faithful

LEMMA EvictFaithful ==
  ASSUME NEW c, CacheOK(c), NEW d, NEW b \in Block, NEW u, Evicts(c, d, b, u),
         NEW D, Faithful(D, c), u.refcnt # 0
  PROVE  Faithful(D, d)
BY EvictContent

LEMMA UsedContent ==
  ASSUME NEW c, CacheOK(c), NEW b \in Block, ~NoBuffer(c, b), NEW v,
         NEW D, Faithful(D, c)
  PROVE  /\ \A a \in Block \ {b} : CachedIn(D, Used(c, b, v), a) = CachedIn(D, c, a)
         /\ CachedIn(D, Used(c, b, v), b) = v
         /\ Ref(c, b) # 0 \/ v = D[b] => Faithful(D, Used(c, b, v))
<1> DEFINE d == Used(c, b, v)
<1>1. /\ Evicts(c, d, b, Buf(d, b)) /\ Buf(d, b).refcnt = Ref(c, b)
      /\ Buf(d, b).valid /\ Buf(d, b).data = v
  BY UsedOK
<1> HIDE DEF d
<1>2. /\ \A a \in Block \ {b} : CachedIn(D, d, a) = CachedIn(D, c, a)
      /\ CachedIn(D, d, b) = v
  BY <1>1, EvictContent
<1>3. Ref(d, b) = Ref(c, b) /\ \A a \in Block \ {b} : Ref(d, a) = Ref(c, a)
  BY <1>1, EvictsRefs
<1>4. Ref(c, b) # 0 \/ v = D[b] => Faithful(D, d)
  BY <1>2, <1>3 DEF Faithful
<1> QED BY <1>2, <1>4 DEF d

\* A buffer in use stays valid.
ValidKept(c, d) == \A a \in Block : Ref(c, a) > 0 /\ Buf(c, a).valid => Buf(d, a).valid

LEMMA EvictsValid ==
  ASSUME NEW c, CacheOK(c), NEW d, NEW b \in Block, NEW u, Evicts(c, d, b, u),
         Ref(c, b) > 0 /\ Buf(c, b).valid => u.valid
  PROVE  ValidKept(c, d)
<1> SUFFICES ASSUME NEW a \in Block, Ref(c, a) > 0, Buf(c, a).valid
             PROVE  Buf(d, a).valid
  BY DEF ValidKept
<1>1. CASE a = b
  BY <1>1 DEF Evicts
<1>2. CASE a # b
  <2>1. Has(c, a) /\ Buf(c, a).refcnt # 0
    BY RefType
  <2> QED BY <1>2, <2>1 DEF Evicts
<1> QED BY <1>1, <1>2

\* A block with references needs no free buffer.
LEMMA HasBuffer ==
  ASSUME NEW c, CacheOK(c), NEW b \in Block, Ref(c, b) > 0
  PROVE  ~NoBuffer(c, b)
BY RefType DEF NoBuffer

LEMMA CopyChain ==
  ASSUME NEW c, CacheOK(c), NEW to \in Block, NEW from \in Block, to # from, NEW v,
         NEW c1, NEW c2, NEW c3, NEW d, NEW g, NEW f, NEW u, NEW x,
         Evicts(c, c1, to, g), g.refcnt = Ref(c, to) + 1,
         Evicts(c1, c2, from, f), f.refcnt = Ref(c1, from), f.valid, f.data = v,
         Evicts(c2, c3, to, u), u.refcnt = Ref(c, to) + 1, u.valid, u.data = v,
         Evicts(c3, d, to, x), x.refcnt = Ref(c, to), x.valid, x.data = v,
         Ref(c, from) > 0
  PROVE  /\ CacheOK(d) /\ (\A a \in Block : Ref(d, a) = Ref(c, a)) /\ ValidKept(c, d)
         /\ \A D : Faithful(D, c) => /\ CachedIn(D, d, from) = v /\ CachedIn(D, d, to) = v
                                     /\ \A a \in Block \ {from, to} :
                                          CachedIn(D, d, a) = CachedIn(D, c, a)
<1>0. /\ CacheOK(c1) /\ CacheOK(c2) /\ CacheOK(c3) /\ CacheOK(d)
      /\ Ref(c, to) \in Nat /\ Ref(c, from) \in Nat
  BY RefType DEF Evicts
<1>1. Ref(c1, to) = Ref(c, to) + 1 /\ \A a \in Block \ {to} : Ref(c1, a) = Ref(c, a)
  BY EvictsRefs
<1>2. \A a \in Block : Ref(c2, a) = Ref(c1, a)
  BY EvictsRefs
<1>3. Ref(c3, to) = Ref(c, to) + 1 /\ \A a \in Block \ {to} : Ref(c3, a) = Ref(c2, a)
  BY EvictsRefs
<1>4. Ref(d, to) = Ref(c, to) /\ \A a \in Block \ {to} : Ref(d, a) = Ref(c3, a)
  BY EvictsRefs
<1>5. \A a \in Block : Ref(d, a) = Ref(c, a)
  BY <1>1, <1>2, <1>3, <1>4
<1>6. ASSUME NEW D, Faithful(D, c)
      PROVE  /\ CachedIn(D, d, from) = v /\ CachedIn(D, d, to) = v
             /\ \A a \in Block \ {from, to} : CachedIn(D, d, a) = CachedIn(D, c, a)
  <2>1. Faithful(D, c1) /\ \A a \in Block \ {to} : CachedIn(D, c1, a) = CachedIn(D, c, a)
    <3>1. g.refcnt # 0
      BY <1>0
    <3>2. Faithful(D, c) /\ Evicts(c, c1, to, g) /\ CacheOK(c)
      BY <1>6
    <3>3. g.refcnt # 0 => Faithful(D, c1)
      BY <3>2, EvictFaithful
    <3>4. \A a \in Block \ {to} : CachedIn(D, c1, a) = CachedIn(D, c, a)
      BY <3>2, EvictContent
    <3> QED BY <3>1, <3>3, <3>4
  <2>2. f.refcnt # 0
    BY <1>1
  <2>3. /\ CachedIn(D, c2, from) = v /\ Faithful(D, c2)
        /\ \A a \in Block \ {from} : CachedIn(D, c2, a) = CachedIn(D, c1, a)
    BY <1>0, <2>1, <2>2, EvictContent
  <2>4. /\ Faithful(D, c3) /\ CachedIn(D, c3, to) = v
        /\ \A a \in Block \ {to} : CachedIn(D, c3, a) = CachedIn(D, c2, a)
    BY <1>0, <2>3, EvictContent
  <2>5. CachedIn(D, d, to) = v /\ \A a \in Block \ {to} : CachedIn(D, d, a) = CachedIn(D, c3, a)
    BY <1>0, <2>4, EvictContent
  <2> QED BY <2>1, <2>3, <2>4, <2>5
<1>7. ValidKept(c, d)
  <2> SUFFICES ASSUME NEW a \in Block, Ref(c, a) > 0, Buf(c, a).valid
               PROVE  Buf(d, a).valid
    BY DEF ValidKept
  <2>1. CASE a = to
    BY <2>1 DEF Evicts
  <2>2. CASE a # to
    <3>1. Ref(c1, a) > 0 /\ Ref(c2, a) > 0 /\ Ref(c3, a) > 0
      BY <1>1, <1>2, <1>3, <2>2
    <3>2. Has(c, a) /\ Buf(c, a).refcnt # 0
      BY RefType
    <3>3. Has(c1, a) /\ Has(c2, a) /\ Has(c3, a) /\ Has(d, a)
      <4>1. Ref(d, a) > 0
        BY <1>5
      <4> QED BY <1>0, <3>1, <4>1, RefType
    <3>4. Buf(c1, a) = Buf(c, a)
      BY <2>2, <3>3 DEF Evicts
    <3>5. Buf(c2, a).valid
      BY <3>3, <3>4 DEF Evicts
    <3>6. Buf(c3, a) = Buf(c2, a) /\ Buf(d, a) = Buf(c3, a)
      BY <2>2, <3>3 DEF Evicts
    <3> QED BY <3>5, <3>6
  <2> QED BY <2>1, <2>2
<1> QED BY <1>0, <1>5, <1>6, <1>7

\* One turn of write_log, in the cache.
Copied(c2, to, v) == brelse([c2 EXCEPT ![Pos(c2, to)].valid = TRUE, ![Pos(c2, to)].data = v], to)

LEMMA CopiedOK ==
  ASSUME NEW c, CacheOK(c), NEW b \in Block, Ref(c, b) > 0, NEW v
  PROVE  \E d, u, x : /\ Evicts(c, d, b, u) /\ u.refcnt = Ref(c, b) /\ u.valid /\ u.data = v
                      /\ Evicts(d, Copied(c, b, v), b, x) /\ x.refcnt = Ref(c, b) - 1
                      /\ x.valid /\ x.data = v
<1> DEFINE w == [Buf(c, b) EXCEPT !.valid = TRUE]
           u == [w EXCEPT !.data = v]
           d == [c EXCEPT ![Pos(c, b)].valid = TRUE, ![Pos(c, b)].data = v]
           x == [u EXCEPT !.holder = Nobody, !.refcnt = @ - 1]
<1>1. Has(c, b) /\ Buf(c, b).refcnt = Ref(c, b) /\ Ref(c, b) \in Nat
  BY RefType
<1>2. /\ Pos(c, b) \in 1 .. NBUF /\ Buf(c, b) = c[Pos(c, b)]
      /\ IsBuffer(Buf(c, b)) /\ Buf(c, b).blockno = b
  BY <1>1, Found
<1>3. IsBuffer(w) /\ w.blockno = b /\ w.valid /\ w.refcnt = Ref(c, b)
  BY <1>1, <1>2, UpdatedBuffer
<1>4. d = [c EXCEPT ![Pos(c, b)] = u]
  BY <1>2 DEF CacheOK, IsBuffer
<1> HIDE DEF w
<1>5. IsBuffer(u) /\ u.blockno = b /\ u.valid /\ u.data = v /\ u.refcnt = Ref(c, b)
  BY <1>3, UpdatedBuffer
<1> HIDE DEF u, d
<1>6. Becomes(c, [c EXCEPT ![Pos(c, b)] = u], b, u)
  BY <1>1, <1>5, SetBuffer
<1>7. Becomes(c, d, b, u)
  BY <1>4, <1>6
<1>8. CacheOK(d) /\ Has(d, b) /\ Buf(d, b) = u /\ u.refcnt > 0
  BY <1>5, <1>7 DEF Becomes
<1>9. Becomes(d, brelse(d, b), b, [Buf(d, b) EXCEPT !.holder = Nobody, !.refcnt = @ - 1])
  BY <1>8, BrelseOK
<1>10. Becomes(d, Copied(c, b, v), b, x)
  BY <1>8, <1>9 DEF Copied, d
<1>11. x.refcnt = Ref(c, b) - 1 /\ x.valid /\ x.data = v
  BY <1>5 DEF IsBuffer
<1> HIDE DEF x
<1>12. Evicts(c, d, b, u) /\ Evicts(d, Copied(c, b, v), b, x)
  BY <1>7, <1>10, BecomesEvicts
<1> QED BY <1>5, <1>11, <1>12

LEMMA CopyCache ==
  ASSUME NEW c, CacheOK(c), NEW to \in Block, NEW from \in Block, to # from, NEW v,
         ~NoBuffer(c, to), Ref(c, from) > 0, NEW d, d = Copied(Used(bget(c, to), from, v), to, v)
  PROVE  /\ CacheOK(d) /\ (\A a \in Block : Ref(d, a) = Ref(c, a)) /\ ValidKept(c, d)
         /\ \A D : Faithful(D, c) => /\ CachedIn(D, d, from) = v /\ CachedIn(D, d, to) = v
                                     /\ \A a \in Block \ {from, to} :
                                          CachedIn(D, d, a) = CachedIn(D, c, a)
<1> DEFINE c1 == bget(c, to)
           c2 == Used(c1, from, v)
           g == Got(c, to)
           f == Buf(c2, from)
<1>0. Ref(c, to) \in Nat
  BY RefType
<1>1. Evicts(c, c1, to, g)
  BY BgetOK
<1>2. /\ CacheOK(c1) /\ Ref(c1, to) = Ref(c, to) + 1
      /\ \A a \in Block \ {to} : Ref(c1, a) = Ref(c, a)
  BY BgetRefs
<1> HIDE DEF c1, g
<1>3. g.refcnt = Ref(c, to) + 1
  BY <1>1, <1>2, EvictsRefs
<1>4. Ref(c1, from) > 0
  BY <1>2
<1>5. ~NoBuffer(c1, from)
  BY <1>2, <1>4, HasBuffer
<1>6. Evicts(c1, c2, from, f) /\ f.refcnt = Ref(c1, from) /\ f.valid /\ f.data = v
  BY <1>2, <1>5, UsedOK
<1> HIDE DEF c2, f
<1>7. CacheOK(c2) /\ Ref(c2, to) = Ref(c, to) + 1
  BY <1>2, <1>6, EvictsRefs DEF Evicts
<1>8. PICK c3, u, x : /\ Evicts(c2, c3, to, u) /\ u.refcnt = Ref(c2, to) /\ u.valid
                      /\ u.data = v
                      /\ Evicts(c3, Copied(c2, to, v), to, x) /\ x.refcnt = Ref(c2, to) - 1
                      /\ x.valid /\ x.data = v
  BY <1>0, <1>7, CopiedOK
<1>9. d = Copied(c2, to, v)
  BY DEF c1, c2
<1>10. u.refcnt = Ref(c, to) + 1 /\ x.refcnt = Ref(c, to)
  BY <1>0, <1>7, <1>8
<1>11. Evicts(c3, d, to, x)
  BY <1>8, <1>9
<1> QED BY <1>1, <1>3, <1>6, <1>8, <1>10, <1>11, CopyChain

\* One turn of install_trans, in the cache.
LEMMA InstallCache ==
  ASSUME NEW c, CacheOK(c), NEW a \in Block, NEW b \in Block, a # b, NEW v,
         ~NoBuffer(c, a), Ref(c, b) > 0, NEW d, d = bunpin(Used(Used(c, a, v), b, v), b)
  PROVE  /\ CacheOK(d) /\ Ref(d, b) = Ref(c, b) - 1
         /\ (\A e \in Block \ {b} : Ref(d, e) = Ref(c, e)) /\ ValidKept(c, d)
         /\ \A D : Faithful(D, c) /\ v = D[a] =>
              /\ CachedIn(D, d, b) = v
              /\ \A e \in Block \ {b} : CachedIn(D, d, e) = IF e = a THEN v ELSE CachedIn(D, c, e)
<1> DEFINE c1 == Used(c, a, v)
           c2 == Used(c1, b, v)
           u == [Buf(c2, b) EXCEPT !.refcnt = Buf(c2, b).refcnt - 1]
<1>1. CacheOK(c1) /\ \A e \in Block : Ref(c1, e) = Ref(c, e)
  BY UsedRefs
<1> HIDE DEF c1
<1>2. ~NoBuffer(c1, b)
  BY <1>1, HasBuffer
<1>3. CacheOK(c2) /\ \A e \in Block : Ref(c2, e) = Ref(c, e)
  BY <1>1, <1>2, UsedRefs
<1> HIDE DEF c2
<1>4. /\ CacheOK(bunpin(c2, b)) /\ Ref(bunpin(c2, b), b) = Ref(c2, b) - 1
      /\ \A e \in Block \ {b} : Ref(bunpin(c2, b), e) = Ref(c2, e)
  BY <1>3, UnpinRefs
<1>5. d = bunpin(c2, b)
  BY DEF c1, c2
<1>6. ASSUME NEW D, Faithful(D, c), v = D[a]
      PROVE  /\ CachedIn(D, d, b) = v
             /\ \A e \in Block \ {b} : CachedIn(D, d, e) = IF e = a THEN v ELSE CachedIn(D, c, e)
  <2>1. /\ Faithful(D, c1) /\ CachedIn(D, c1, a) = v
        /\ \A e \in Block \ {a} : CachedIn(D, c1, e) = CachedIn(D, c, e)
    BY <1>6, UsedContent DEF c1
  <2>2. /\ Faithful(D, c2) /\ CachedIn(D, c2, b) = v
        /\ \A e \in Block \ {b} : CachedIn(D, c2, e) = CachedIn(D, c1, e)
    <3>1. Ref(c1, b) # 0
      BY <1>1
    <3>2. /\ \A e \in Block \ {b} : CachedIn(D, Used(c1, b, v), e) = CachedIn(D, c1, e)
          /\ CachedIn(D, Used(c1, b, v), b) = v
          /\ Ref(c1, b) # 0 \/ v = D[b] => Faithful(D, Used(c1, b, v))
      <4>1. CacheOK(c1) /\ Faithful(D, c1)
        BY <1>1, <2>1
      <4> QED BY <4>1, <1>2, UsedContent, SMTT(60)
    <3> QED BY <3>1, <3>2 DEF c2
  <2>3. /\ Has(c2, b) /\ Pos(c2, b) \in 1 .. NBUF /\ IsBuffer(Buf(c2, b)) /\ Buf(c2, b).blockno = b
        /\ Buf(c2, b) = c2[Pos(c2, b)] /\ Buf(c2, b).refcnt - 1 \in Nat
    BY <1>3, Found, RefType
  <2>4. IsBuffer(u) /\ u.blockno = b /\ u.valid = Buf(c2, b).valid /\ u.data = Buf(c2, b).data
    BY <2>3, UpdatedBuffer
  <2>5. d = [c2 EXCEPT ![Pos(c2, b)] = u]
    BY <1>3, <1>5, <2>3 DEF bunpin, CacheOK
  <2> HIDE DEF u
  <2>6. Becomes(c2, [c2 EXCEPT ![Pos(c2, b)] = u], b, u)
    BY <1>3, <2>3, <2>4, SetBuffer
  <2>7. Evicts(c2, d, b, u)
    BY <2>5, <2>6, BecomesEvicts
  <2>8. CachedIn(D, c2, b) = IF u.valid THEN u.data ELSE D[b]
    BY <2>3, <2>4 DEF CachedIn
  <2>9. CachedIn(D, d, b) = v /\ \A e \in Block \ {b} : CachedIn(D, d, e) = CachedIn(D, c2, e)
    BY <1>3, <2>2, <2>7, <2>8, EvictContent
  <2> QED BY <2>1, <2>2, <2>9
<1>7. ValidKept(c, d)
  <2> SUFFICES ASSUME NEW e \in Block, Ref(c, e) > 0, Buf(c, e).valid
               PROVE  Buf(d, e).valid
    BY DEF ValidKept
  <2>1. Buf(c1, e).valid
    <3>1. ValidKept(c, c1)
      <4>1. Evicts(c, c1, a, Buf(c1, a)) /\ Buf(c1, a).valid
        BY UsedOK DEF c1
      <4> QED BY <4>1, EvictsValid
    <3> QED BY <3>1 DEF ValidKept
  <2>2. Buf(c2, e).valid
    <3>1. ValidKept(c1, c2)
      <4>1. Evicts(c1, c2, b, Buf(c2, b)) /\ Buf(c2, b).valid
        BY <1>1, <1>2, UsedOK DEF c2
      <4> QED BY <1>1, <4>1, EvictsValid
    <3> QED BY <1>1, <2>1, <3>1 DEF ValidKept
  <2>3. /\ Has(c2, b) /\ Pos(c2, b) \in 1 .. NBUF /\ IsBuffer(Buf(c2, b)) /\ Buf(c2, b).blockno = b
        /\ Buf(c2, b) = c2[Pos(c2, b)] /\ Buf(c2, b).refcnt - 1 \in Nat
    BY <1>3, Found, RefType
  <2>4. IsBuffer(u) /\ u.blockno = b /\ (u.valid <=> Buf(c2, b).valid)
    BY <2>3, UpdatedBuffer
  <2>5. d = [c2 EXCEPT ![Pos(c2, b)] = u]
    BY <1>3, <1>5, <2>3 DEF bunpin, CacheOK
  <2> HIDE DEF u
  <2>6. Becomes(c2, [c2 EXCEPT ![Pos(c2, b)] = u], b, u)
    BY <1>3, <2>3, <2>4, SetBuffer
  <2>7. Evicts(c2, d, b, u)
    BY <2>5, <2>6, BecomesEvicts
  <2>8. ValidKept(c2, d)
    BY <1>3, <2>4, <2>7, EvictsValid
  <2> QED BY <1>3, <2>2, <2>8 DEF ValidKept
<1> QED BY <1>3, <1>4, <1>5, <1>6, <1>7

-----------------------------------------------------------------------------
(* The buffers are referenced by whom they should be *)

\* Which logged blocks are pinned.
LEMMA PinnedRunning ==
  ASSUME ~IsDown, ~Committing("install_trans"), ~Committing("erase")
  PROVE  Pinned = {b \in Data : \E k \in 1 .. Len(lh) : lh[k] = b}
BY DEF Pinned, Unpinned

LEMMA PinnedDown ==
  IsDown => Pinned = {}
BY DEF Pinned, Unpinned

\* A step that touches neither disk nor buffers.
LEMMA BuffersKept ==
  ASSUME ControlInv, BufferInv, UNCHANGED <<disk, cache, lh>>, ~panicked, ~IsDown, ~IsDown',
         \A p \in Process : (pc'[p] \in UsePc <=> pc[p] \in UsePc) /\ blk'[p] = blk[p],
         \A l \in {"install_trans", "erase"} : Committing(l)' <=> Committing(l),
         Committing("install_trans") => tail' = tail, ~panicked'
  PROVE  BufferInv' /\ OnlyBgetPanics'
<1>1. CacheOK(cache') /\ DiskOK'
  BY DEF BufferInv, DiskOK
<1>2. \A b \in Block : Users(b)' = Users(b)
  BY DEF Users
<1>3. Pinned' = Pinned
  BY DEF Pinned, Unpinned
<1>4. RefCounts'
  BY <1>2, <1>3, RefsKept DEF BufferInv
<1> QED BY <1>1, <1>4 DEF BufferInv, OnlyBgetPanics

LEMMA start_opBuffers ==
  ASSUME ControlInv, BufferInv, NEW p \in Process, start_op(p)
  PROVE  BufferInv' /\ OnlyBgetPanics'
<1>1. /\ UNCHANGED <<disk, cache, lh, tail, blk, panicked>> /\ ~panicked /\ pc[p] = "idle"
      /\ pc' = [pc EXCEPT ![p] = "begin"]
  BY DEF start_op, At, Goto, logvars
<1>2. ~IsDown /\ ~IsDown'
  BY <1>1, Moves DEF ControlInv, IsDown, Types
<1>3. \A l \in CommitPc : Committing(l)' <=> Committing(l)
  BY <1>1 DEF Committing, CommitPc, ControlInv, Types
<1>4. \A q \in Process : pc'[q] \in UsePc <=> pc[q] \in UsePc
  BY <1>1 DEF UsePc, ControlInv, Types
<1> QED BY <1>1, <1>2, <1>3, <1>4, BuffersKept DEF CommitPc

LEMMA begin_opBuffers ==
  ASSUME ControlInv, BufferInv, NEW p \in Process, begin_op(p)
  PROVE  BufferInv' /\ OnlyBgetPanics'
<1>1. /\ UNCHANGED <<disk, cache, lh, tail, blk, panicked>> /\ ~panicked /\ pc[p] = "begin"
      /\ pc' = [pc EXCEPT ![p] = "asleep"] \/ pc' = [pc EXCEPT ![p] = "op"]
  BY DEF begin_op, At, Goto
<1>2. ~IsDown /\ ~IsDown'
  BY <1>1, Moves DEF ControlInv, IsDown, Types
<1>3. \A l \in CommitPc : Committing(l)' <=> Committing(l)
  BY <1>1 DEF Committing, CommitPc, ControlInv, Types
<1>4. \A q \in Process : pc'[q] \in UsePc <=> pc[q] \in UsePc
  BY <1>1 DEF UsePc, ControlInv, Types
<1> QED BY <1>1, <1>2, <1>3, <1>4, BuffersKept DEF CommitPc

LEMMA end_opBuffers ==
  ASSUME ControlInv, BufferInv, NEW p \in Process, end_op(p)
  PROVE  BufferInv' /\ OnlyBgetPanics'
<1>1. UNCHANGED <<disk, cache, lh, blk>> /\ ~panicked /\ ~panicked' /\ pc[p] = "op" /\ ~committing
  BY end_opFits DEF end_op, At
<1>2. /\ pc'[p] \in {"idle", "committed", "write_log"}
      /\ \A q \in Process \ {p} : pc'[q] = pc[q] \/ (pc[q] = "asleep" /\ pc'[q] = "begin")
  BY DEF end_op, Goto, Woken, ControlInv, Types
<1>3. ~IsDown /\ ~IsDown'
  BY <1>1, <1>2, Moves DEF ControlInv, IsDown
<1>4. \A l \in {"install_trans", "erase"} : ~Committing(l)' /\ ~Committing(l)
  BY <1>1, <1>2 DEF Committing, CommitPc, ControlInv, OneCommitter
<1>5. \A q \in Process : pc'[q] \in UsePc <=> pc[q] \in UsePc
  BY <1>1, <1>2 DEF UsePc
<1> QED BY <1>1, <1>3, <1>4, <1>5, BuffersKept

LEMMA committedBuffers ==
  ASSUME ControlInv, BufferInv, NEW p \in Process, committed(p)
  PROVE  BufferInv' /\ OnlyBgetPanics'
<1>1. /\ UNCHANGED <<disk, cache, lh, blk, panicked>> /\ ~panicked /\ pc[p] = "committed"
  BY DEF committed, At
<1>2. /\ pc'[p] = "idle"
      /\ \A q \in Process \ {p} : pc'[q] = pc[q] \/ (pc[q] = "asleep" /\ pc'[q] = "begin")
  BY DEF committed, Woken, ControlInv, Types
<1>3. ~IsDown /\ ~IsDown'
  BY <1>1, <1>2, Moves DEF ControlInv, IsDown
<1>4. \A l \in {"install_trans", "erase"} : ~Committing(l)' /\ ~Committing(l)
  BY <1>1, <1>2 DEF Committing, CommitPc, ControlInv, OneCommitter
<1>5. \A q \in Process : pc'[q] \in UsePc <=> pc[q] \in UsePc
  BY <1>1, <1>2 DEF UsePc
<1> QED BY <1>1, <1>3, <1>4, <1>5, BuffersKept

\* A step of p outside the commit that leaves disk and log alone.
LEMMA DiskKept ==
  ASSUME ControlInv, BufferInv, UNCHANGED <<disk, lh>>, ~IsDown', CacheOK(cache'),
         ~panicked' => RefCounts'
  PROVE  BufferInv'
BY DEF BufferInv, DiskOK

LEMMA BreadBuffers ==
  ASSUME ControlInv, BufferInv, NEW p \in Process, NEW b \in Data,
         bread_op(p, b) \/ bread_outside(p, b)
  PROVE  BufferInv' /\ OnlyBgetPanics'
<1>1. /\ ~panicked /\ pc[p] \in {"idle", "op"} /\ Bread(p, b)
      /\ UNCHANGED <<disk, lh, tail>> /\ b \in Block /\ panicked' = NoBuffer(cache, b)
  BY BlockKinds DEF bread_op, bread_outside, Bread, At, logvars
<1>2. CacheOK(cache) /\ RefCounts
  BY <1>1 DEF BufferInv
<1>3. ~IsDown
  BY <1>1, Moves DEF ControlInv
<1>a. CASE NoBuffer(cache, b)
  <2>1. UNCHANGED <<cache, pc>> /\ panicked'
    BY <1>1, <1>a DEF Bread
  <2>2. ~IsDown' /\ Unused(cache') = {}
    BY <1>3, <1>a, <2>1 DEF IsDown, NoBuffer
  <2> QED BY <1>1, <1>2, <2>1, <2>2, DiskKept DEF OnlyBgetPanics
<1>b. CASE ~NoBuffer(cache, b)
  <2>1. /\ cache' = bget(cache, b) /\ pc' = [pc EXCEPT ![p] = "want"]
        /\ blk' = [blk EXCEPT ![p] = b] /\ ~panicked'
    BY <1>1, <1>b DEF Bread, Goto
  <2>2. /\ CacheOK(cache') /\ Ref(cache', b) = Ref(cache, b) + 1
        /\ \A a \in Block \ {b} : Ref(cache', a) = Ref(cache, a)
    BY <1>1, <1>2, <1>b, <2>1, BgetRefs
  <2>3. ~IsDown'
    BY <1>1, <1>3, <2>1 DEF IsDown, ControlInv, Types
  <2>4. \A l \in CommitPc : Committing(l)' <=> Committing(l)
    BY <1>1, <2>1 DEF Committing, CommitPc, ControlInv, Types
  <2>5. Pinned' = Pinned
    BY <1>1, <1>3, <2>3, <2>4 DEF Pinned, Unpinned, CommitPc
  <2>6. p \notin Users(b) /\ p \in Process /\ Users(b) \in SUBSET Process
        /\ Users(b)' = Users(b) \cup {p}
        /\ \A a \in Block \ {b} : Users(a)' = Users(a)
    BY <1>1, <2>1 DEF Users, UsePc, ControlInv, Types
  <2>7. Cardinality(Users(b)') = Cardinality(Users(b)) + 1 /\ Cardinality(Users(b)) \in Nat
    BY <2>6, Counting
  <2>8. RefCounts'
    <3> SUFFICES ASSUME NEW a \in Block
                 PROVE  Ref(cache', a) = Cardinality(Users(a)') + (IF a \in Pinned THEN 1 ELSE 0)
      BY <2>5 DEF RefCounts, Ref, Has, Buf, Pos
    <3>1. Ref(cache, a) = Cardinality(Users(a)) + (IF a \in Pinned THEN 1 ELSE 0)
      BY <1>2 DEF RefCounts
    <3> QED BY <2>2, <2>6, <2>7, <3>1
  <2> QED BY <1>1, <2>1, <2>2, <2>3, <2>8, DiskKept DEF OnlyBgetPanics
<1> QED BY <1>a, <1>b

LEMMA LockedOK ==
  ASSUME NEW c, CacheOK(c), NEW b \in Block, Has(c, b), NEW p
  PROVE  \E u : /\ Becomes(c, Locked(c, b, p), b, u) /\ u.refcnt = Ref(c, b) /\ u.valid
                /\ u.data = CachedIn(disk, c, b)
<1> DEFINE B == Buf(c, b)
           w == [B EXCEPT !.holder = p]
           x == [w EXCEPT !.valid = TRUE]
           u == [x EXCEPT !.data = IF B.valid THEN B.data ELSE disk[b]]
<1>1. /\ Pos(c, b) \in 1 .. NBUF /\ B = c[Pos(c, b)] /\ IsBuffer(B) /\ B.blockno = b
      /\ B.refcnt = Ref(c, b)
  BY Found DEF Ref
<1>2. Locked(c, b, p) = [c EXCEPT ![Pos(c, b)] = u]
  BY <1>1 DEF Locked, IsBuffer
<1>3. CachedIn(disk, c, b) = IF B.valid THEN B.data ELSE disk[b]
  BY DEF CachedIn
<1> HIDE DEF B
<1>4. IsBuffer(w) /\ w.blockno = b /\ w.refcnt = Ref(c, b)
  BY <1>1, UpdatedBuffer
<1> HIDE DEF w
<1>5. IsBuffer(x) /\ x.blockno = b /\ x.refcnt = Ref(c, b) /\ x.valid
  BY <1>4, UpdatedBuffer
<1> HIDE DEF x
<1>6. IsBuffer(u) /\ u.blockno = b /\ u.refcnt = Ref(c, b) /\ u.valid /\ u.data = CachedIn(disk, c, b)
  BY <1>3, <1>5, UpdatedBuffer
<1> HIDE DEF u
<1>7. Becomes(c, [c EXCEPT ![Pos(c, b)] = u], b, u)
  BY <1>6, SetBuffer
<1> QED BY <1>2, <1>6, <1>7

\* The caller's change of a buffer, and log_write's bpin.
Changed(c, b, v) == [c EXCEPT ![Pos(c, b)].data = v]

LEMMA WrittenOK ==
  ASSUME NEW c, CacheOK(c), NEW b \in Block, Has(c, b), NEW v, NEW c1, c1 = Changed(c, b, v)
  PROVE  /\ \E u : /\ Becomes(c, c1, b, u) /\ u.refcnt = Ref(c, b)
                   /\ (u.valid <=> Buf(c, b).valid) /\ u.data = v
         /\ \E u : /\ Becomes(c, bpin(c1, b), b, u) /\ u.refcnt = Ref(c, b) + 1
                   /\ (u.valid <=> Buf(c, b).valid) /\ u.data = v
<1> DEFINE B == Buf(c, b)
           u == [B EXCEPT !.data = v]
           x == [u EXCEPT !.refcnt = Ref(c, b) + 1]
<1>1. /\ Pos(c, b) \in 1 .. NBUF /\ B = c[Pos(c, b)] /\ IsBuffer(B) /\ B.blockno = b
      /\ B.refcnt = Ref(c, b) /\ Ref(c, b) \in Nat
  BY Found DEF Ref, IsBuffer
<1>2. c1 = [c EXCEPT ![Pos(c, b)] = u]
  BY <1>1 DEF IsBuffer, Changed
<1> HIDE DEF B
<1>3. IsBuffer(u) /\ u.blockno = b /\ u.refcnt = Ref(c, b) /\ (u.valid <=> B.valid) /\ u.data = v
  BY <1>1, UpdatedBuffer
<1> HIDE DEF u
<1>4. Becomes(c, [c EXCEPT ![Pos(c, b)] = u], b, u)
  BY <1>3, SetBuffer
<1>5. Becomes(c, c1, b, u)
  BY <1>2, <1>4
<1>6. CacheOK(c1) /\ Has(c1, b) /\ Buf(c1, b) = u
  BY <1>5 DEF Becomes
<1>7. Pos(c1, b) \in 1 .. NBUF /\ u = c1[Pos(c1, b)]
  BY <1>6, Found
<1>8. bpin(c1, b) = [c1 EXCEPT ![Pos(c1, b)] = x]
  BY <1>3, <1>7 DEF bpin
<1>9. IsBuffer(x) /\ x.blockno = b /\ x.refcnt = Ref(c, b) + 1 /\ (x.valid <=> B.valid) /\ x.data = v
  BY <1>1, <1>3, UpdatedBuffer
<1> HIDE DEF x
<1>10. Becomes(c1, [c1 EXCEPT ![Pos(c1, b)] = x], b, x)
  BY <1>6, <1>9, SetBuffer
<1>11. Becomes(c1, bpin(c1, b), b, x)
  BY <1>8, <1>10
<1>12. Becomes(c, bpin(c1, b), b, x)
  BY <1>5, <1>11 DEF Becomes
<1> QED BY <1>3, <1>5, <1>9, <1>12 DEF B

\* Where p is when it uses a block.
LEMMA UsesBuffer ==
  ASSUME ControlInv, BufferInv, ~panicked, NEW p \in Process, pc[p] \in UsePc
  PROVE  /\ blk[p] \in Data /\ blk[p] \in Block /\ Ref(cache, blk[p]) > 0 /\ Has(cache, blk[p])
         /\ CacheOK(cache) /\ RefCounts /\ ~IsDown
<1>1. blk[p] \in Data /\ blk[p] \in Block
  BY BlockKinds DEF ControlInv, Places
<1>2. ~IsDown
  BY Moves DEF ControlInv, UsePc
<1> QED BY <1>1, <1>2, Referenced DEF BufferInv

LEMMA acquiresleepBuffers ==
  ASSUME ControlInv, BufferInv, NEW p \in Process, acquiresleep(p)
  PROVE  BufferInv' /\ OnlyBgetPanics'
<1>1. /\ UNCHANGED <<disk, lh, tail, blk>> /\ ~panicked /\ ~panicked' /\ pc[p] = "want"
      /\ pc' = [pc EXCEPT ![p] = "have"] /\ cache' = Locked(cache, blk[p], p)
  BY DEF acquiresleep, At, Goto, logvars
<1>2. blk[p] \in Block /\ Has(cache, blk[p]) /\ CacheOK(cache) /\ RefCounts /\ ~IsDown
  BY <1>1, UsesBuffer DEF UsePc
<1>3. PICK u : Becomes(cache, cache', blk[p], u) /\ u.refcnt = Ref(cache, blk[p])
  BY <1>1, <1>2, LockedOK
<1>4. CacheOK(cache') /\ \A a \in Block : Ref(cache', a) = Ref(cache, a)
  BY <1>2, <1>3, BecomesRefs
<1>5. ~IsDown'
  BY <1>1, <1>2 DEF IsDown, ControlInv, Types
<1>6. \A l \in CommitPc : Committing(l)' <=> Committing(l)
  BY <1>1 DEF Committing, CommitPc, ControlInv, Types
<1>7. Pinned' = Pinned
  BY <1>1, <1>2, <1>5, <1>6 DEF Pinned, Unpinned, CommitPc
<1>8. \A a \in Block : Users(a)' = Users(a)
  BY <1>1 DEF Users, UsePc, ControlInv, Types
<1>9. RefCounts'
  BY <1>2, <1>4, <1>7, <1>8, RefsKept
<1> QED BY <1>1, <1>4, <1>5, <1>9, DiskKept DEF OnlyBgetPanics

LEMMA releaseBuffers ==
  ASSUME ControlInv, BufferInv, NEW p \in Process, release(p)
  PROVE  BufferInv' /\ OnlyBgetPanics'
<1> PICK b : b = blk[p]
  OBVIOUS
<1>1. /\ UNCHANGED <<disk, lh, tail, blk>> /\ ~panicked /\ ~panicked' /\ pc[p] \in {"done", "have"}
      /\ pc' = [pc EXCEPT ![p] = pc'[p]] /\ pc'[p] \in {"idle", "op"}
      /\ cache' = brelse(cache, b)
  BY DEF release, At, Goto, logvars, ControlInv, Types
<1>2. b \in Block /\ Ref(cache, b) > 0 /\ CacheOK(cache) /\ RefCounts /\ ~IsDown
  BY <1>1, UsesBuffer DEF UsePc
<1>3. /\ CacheOK(cache') /\ Ref(cache', b) = Ref(cache, b) - 1
      /\ \A a \in Block \ {b} : Ref(cache', a) = Ref(cache, a)
  BY <1>1, <1>2, BrelseRefs
<1>4. ~IsDown' /\ \A q \in Process \ {p} : pc'[q] = pc[q]
  BY <1>1, <1>2 DEF IsDown, ControlInv, Types
<1>5. \A l \in CommitPc : Committing(l)' <=> Committing(l)
  BY <1>1, <1>4 DEF Committing, CommitPc, ControlInv, Types
<1>6. Pinned' = Pinned
  BY <1>1, <1>2, <1>4, <1>5 DEF Pinned, Unpinned, CommitPc
<1>7. p \in Users(b) /\ Users(b) \in SUBSET Process /\ Users(b)' = Users(b) \ {p}
      /\ \A a \in Block \ {b} : Users(a)' = Users(a)
  BY <1>1, <1>4 DEF Users, UsePc
<1>8. Cardinality(Users(b)') = Cardinality(Users(b)) - 1 /\ Cardinality(Users(b)) \in Nat
  BY <1>7, Counting
<1>9. RefCounts'
  <2> SUFFICES ASSUME NEW a \in Block
               PROVE  Ref(cache', a) = Cardinality(Users(a)') + (IF a \in Pinned THEN 1 ELSE 0)
    BY <1>6 DEF RefCounts, Ref, Has, Buf, Pos
  <2>1. Ref(cache, a) = Cardinality(Users(a)) + (IF a \in Pinned THEN 1 ELSE 0)
    BY <1>2 DEF RefCounts
  <2>2. CASE a = b
    BY <1>3, <1>8, <2>1, <2>2
  <2>3. CASE a # b
    BY <1>3, <1>7, <2>1, <2>3
  <2> QED BY <2>2, <2>3
<1> QED BY <1>1, <1>3, <1>4, <1>9, DiskKept DEF OnlyBgetPanics

LEMMA log_writeBuffers ==
  ASSUME ControlInv, BufferInv, NEW p \in Process, log_write(p)
  PROVE  BufferInv' /\ OnlyBgetPanics'
<1> PICK b : b = blk[p]
  OBVIOUS
<1> PICK v : v = op[p]
  OBVIOUS
<1> PICK c1 : c1 = Changed(cache, b, v)
  OBVIOUS
<1> DEFINE old == \E k \in 1 .. Len(lh) : lh[k] = b
<1>1. /\ UNCHANGED <<disk, tail, blk>> /\ ~panicked /\ ~panicked' /\ pc[p] = "have"
      /\ pc' = [pc EXCEPT ![p] = "done"] /\ ~committing
      /\ Len(lh) \in Nat /\ Len(lh) < LOGBLOCKS /\ outstanding >= 1
  BY log_writeFits DEF log_write, At, Goto
<1>2. /\ b \in Block /\ b \in Data /\ Has(cache, b) /\ CacheOK(cache) /\ RefCounts /\ ~IsDown
      /\ Ref(cache, b) \in Nat
  BY <1>1, UsesBuffer, RefType DEF UsePc
<1>3. IsHeader(lh) /\ lh \in Seq(Data) /\ DOMAIN lh = 1 .. Len(lh)
  BY <1>2 DEF ControlInv, LogShape, IsHeader
<1>4. /\ lh' = IF old THEN lh ELSE Append(lh, b)
      /\ cache' = IF old THEN c1 ELSE bpin(c1, b)
  BY <1>1, <1>3 DEF log_write, Changed
<1>5. PICK u : Becomes(cache, cache', b, u) /\ u.refcnt = IF old THEN Ref(cache, b) ELSE Ref(cache, b) + 1
  <2> DEFINE c2 == bpin(c1, b)
  <2>0. /\ \E u : /\ Becomes(cache, c1, b, u) /\ u.refcnt = Ref(cache, b)
                  /\ (u.valid <=> Buf(cache, b).valid) /\ u.data = v
        /\ \E u : /\ Becomes(cache, c2, b, u) /\ u.refcnt = Ref(cache, b) + 1
                  /\ (u.valid <=> Buf(cache, b).valid) /\ u.data = v
    BY <1>2, WrittenOK
  <2>1. /\ \E u : Becomes(cache, c1, b, u) /\ u.refcnt = Ref(cache, b)
        /\ \E u : Becomes(cache, c2, b, u) /\ u.refcnt = Ref(cache, b) + 1
    BY <2>0
  <2> HIDE DEF c2
  <2>2. CASE old
    BY <2>1, <2>2, <1>4
  <2>3. CASE ~old
    <3>1. cache' = c2
      BY <2>3, <1>4 DEF c2
    <3> QED BY <2>1, <2>3, <3>1
  <2> QED BY <2>2, <2>3
<1>6. /\ CacheOK(cache') /\ Ref(cache', b) = IF old THEN Ref(cache, b) ELSE Ref(cache, b) + 1
      /\ \A a \in Block \ {b} : Ref(cache', a) = Ref(cache, a)
  <2> HIDE DEF old
  <2> QED BY <1>2, <1>5, BecomesRefs
<1>7. ~IsDown'
  BY <1>1, <1>2 DEF IsDown, ControlInv, Types
<1>8. \A l \in CommitPc : ~Committing(l)' /\ ~Committing(l)
  BY <1>1 DEF Committing, CommitPc, ControlInv, Types, OneCommitter
<1>9. /\ Pinned = {a \in Data : \E k \in 1 .. Len(lh) : lh[k] = a}
      /\ Pinned' = {a \in Data : \E k \in 1 .. Len(lh') : lh'[k] = a}
  BY <1>2, <1>7, <1>8 DEF Pinned, Unpinned, CommitPc
<1>10. /\ Pinned' = Pinned \cup {b} /\ (old <=> b \in Pinned)
  <2>1. CASE old
    BY <2>1, <1>2, <1>4, <1>9
  <2>2. CASE ~old
    <3>1. /\ Len(lh') = Len(lh) + 1 /\ lh'[Len(lh) + 1] = b
          /\ \A k \in 1 .. Len(lh) : lh'[k] = lh[k]
      BY <1>2, <1>3, <1>4, <2>2, AppendProperties
    <3>2. \A a \in Data : (\E k \in 1 .. Len(lh') : lh'[k] = a) <=>
                          (a = b \/ \E k \in 1 .. Len(lh) : lh[k] = a)
      BY <1>1, <3>1
    <3> QED BY <1>2, <1>9, <2>2, <3>2
  <2> QED BY <2>1, <2>2
<1>11. \A a \in Block : Users(a)' = Users(a)
  BY <1>1 DEF Users, UsePc, ControlInv, Types
<1>12. RefCounts'
  <2> SUFFICES ASSUME NEW a \in Block
               PROVE  Ref(cache', a) = Cardinality(Users(a)) + (IF a \in Pinned' THEN 1 ELSE 0)
    BY <1>11 DEF RefCounts, Ref, Has, Buf, Pos
  <2>1. Ref(cache, a) = Cardinality(Users(a)) + (IF a \in Pinned THEN 1 ELSE 0)
        /\ Cardinality(Users(a)) \in Nat
    BY <1>2, UserCount DEF RefCounts
  <2> HIDE DEF old
  <2> QED BY <1>6, <1>10, <2>1
<1>13. DiskOK'
  BY <1>1, <1>7 DEF BufferInv, DiskOK
<1> QED BY <1>1, <1>6, <1>12, <1>13 DEF OnlyBgetPanics, BufferInv

\* A step of the commit changes no user, and its place in the commit says what
\* is pinned.
LEMMA CommitUsers ==
  ASSUME ControlInv, NEW p \in Process, NEW l \in CommitPc, pc' = [pc EXCEPT ![p] = l],
         pc[p] \in CommitPc, blk' = blk
  PROVE  ~IsDown /\ ~IsDown' /\ \A b \in Block : Users(b)' = Users(b)
<1>1. ~IsDown
  BY Moves DEF ControlInv, CommitPc
<1>2. ~IsDown'
  BY <1>1 DEF IsDown, CommitPc, ControlInv, Types
<1> QED BY <1>1, <1>2 DEF Users, UsePc, CommitPc, ControlInv, Types

LEMMA PinnedCommit ==
  ASSUME ControlInv, NEW p \in Process, pc[p] \in CommitPc
  PROVE  /\ pc[p] \in {"write_log", "write_head", "committed"} =>
              Pinned = {b \in Data : \E k \in 1 .. Len(lh) : lh[k] = b}
         /\ pc[p] = "install_trans" =>
              Pinned = {b \in Data : \E k \in 1 .. Len(lh) : lh[k] = b /\ k > tail}
         /\ pc[p] = "erase" => Pinned = {}
<1>1. ~IsDown /\ Len(lh) \in Nat /\ tail \in Nat
  BY CommitAt
<1>2. \A k \in CommitPc : Committing(k) <=> k = pc[p]
  BY DEF ControlInv, OneCommitter, Committing
<1>3. pc[p] = "install_trans" =>
        Pinned = {b \in Data : \E k \in 1 .. Len(lh) : lh[k] = b /\ k > tail}
  BY <1>1, <1>2 DEF Pinned, Unpinned, CommitPc
<1>4. pc[p] = "erase" => Pinned = {}
  BY <1>1, <1>2 DEF Pinned, Unpinned, CommitPc
<1>5. pc[p] \in {"write_log", "write_head", "committed"} =>
        Pinned = {b \in Data : \E k \in 1 .. Len(lh) : lh[k] = b}
  BY <1>1, <1>2, PinnedRunning DEF CommitPc
<1> QED BY <1>3, <1>4, <1>5

\* A turn of write_log that finds its buffers.
LEMMA write_logTurn ==
  ASSUME ControlInv, BufferInv, NEW p \in Process, write_log(p)
  PROVE  LET from == lh[tail + 1]
             to   == LogBlock(tail + 1)
             v    == Cached(cache, from)
         IN /\ from \in Data /\ from \in Block /\ to \in Block /\ to # from /\ to \notin Data
            /\ from \in Pinned /\ Ref(cache, from) > 0 /\ CacheOK(cache) /\ RefCounts
            /\ \/ /\ panicked' /\ UNCHANGED <<disk, cache, pc, tail, lh, blk>>
                  /\ Unused(cache) = {}
               \/ /\ ~panicked' /\ ~NoBuffer(cache, to) /\ disk' = [disk EXCEPT ![to] = v]
                  /\ cache' = Copied(Used(bget(cache, to), from, v), to, v)
<1> DEFINE from == lh[tail + 1]
           to   == LogBlock(tail + 1)
<1>1. pc[p] = "write_log" /\ ~panicked
  BY DEF write_log, At
<1>2. /\ tail + 1 \in 1 .. Len(lh) /\ from \in Data
      /\ tail + 1 \in 1 .. LOGBLOCKS
  BY <1>1, CommitAt DEF CommitPc
<1>3. from \in Block /\ to \in Block /\ to # from /\ to \notin Data
  BY <1>2, BlockKinds
<1>4. Pinned = {b \in Data : \E k \in 1 .. Len(lh) : lh[k] = b}
  BY <1>1, PinnedCommit DEF CommitPc
<1>5. from \in Pinned
  BY <1>2, <1>4
<1>6. Ref(cache, from) > 0 /\ CacheOK(cache) /\ RefCounts
  BY <1>1, <1>5, Referenced DEF BufferInv
<1>7. NoBuffer(cache, to) => Unused(cache) = {}
  BY DEF NoBuffer
<1>8. ~NoBuffer(cache, to) => ~NoBuffer(bget(cache, to), from)
  <2> HIDE DEF from, to
  <2> SUFFICES ASSUME ~NoBuffer(cache, to) PROVE ~NoBuffer(bget(cache, to), from)
    OBVIOUS
  <2>1. CacheOK(bget(cache, to)) /\ Ref(bget(cache, to), from) = Ref(cache, from)
    BY <1>3, <1>6, BgetRefs
  <2> QED BY <1>3, <1>6, <2>1, HasBuffer
<1>9. Turn(from, to) <=> ~NoBuffer(cache, to)
  BY <1>8 DEF Turn
<1>10. CASE NoBuffer(cache, to)
  BY <1>2, <1>3, <1>5, <1>6, <1>7, <1>9, <1>10 DEF write_log, Copy
<1>11. CASE ~NoBuffer(cache, to)
  <2>1. /\ ~panicked' /\ disk' = [disk EXCEPT ![to] = Cached(cache, from)]
        /\ cache' = Copied(Used(bget(cache, to), from, Cached(cache, from)), to, Cached(cache, from))
    BY <1>9, <1>11 DEF write_log, Copy, Copied
  <2> QED BY <1>2, <1>3, <1>5, <1>6, <1>11, <2>1
<1> QED BY <1>10, <1>11

\* A write of a block other than the header leaves the disk well formed.
LEMMA DiskWritten ==
  ASSUME BufferInv, NEW a \in Block, a # Head0, NEW v, disk' = [disk EXCEPT ![a] = v],
         ~IsDown'
  PROVE  DiskOK'
<1>1. disk = [b \in Block |-> disk[b]] /\ IsHeader(disk[Head0])
  BY DEF BufferInv, DiskOK
<1>2. disk' = [b \in Block |-> disk'[b]] /\ disk'[Head0] = disk[Head0]
  BY <1>1, BlockKinds
<1> QED BY <1>1, <1>2 DEF DiskOK

LEMMA write_logBuffers ==
  ASSUME ControlInv, BufferInv, NEW p \in Process, write_log(p)
  PROVE  BufferInv' /\ OnlyBgetPanics'
<1> PICK from : from = lh[tail + 1]
  OBVIOUS
<1> PICK to : to = LogBlock(tail + 1)
  OBVIOUS
<1> PICK v : v = Cached(cache, from)
  OBVIOUS
<1> DEFINE l == IF pc' = pc THEN "write_log" ELSE "write_head"
<1>1. /\ from \in Data /\ from \in Block /\ to \in Block /\ to # from /\ to \notin Data
      /\ Ref(cache, from) > 0 /\ CacheOK(cache) /\ RefCounts
      /\ \/ panicked' /\ UNCHANGED <<disk, cache>> /\ Unused(cache) = {}
         \/ /\ ~panicked' /\ ~NoBuffer(cache, to) /\ disk' = [disk EXCEPT ![to] = v]
            /\ cache' = Copied(Used(bget(cache, to), from, v), to, v)
  BY write_logTurn
<1>2. pc[p] = "write_log" /\ UNCHANGED <<lh, blk>> /\ tail + 1 \in 1 .. LOGBLOCKS
  BY CommitAt DEF write_log, At, Copy, CommitPc
<1>3. pc' = [pc EXCEPT ![p] = l] /\ l \in CommitPc
  BY <1>2 DEF write_log, Copy, Goto, ControlInv, Types, CommitPc
<1> HIDE DEF l
<1>4. ~IsDown /\ ~IsDown' /\ \A b \in Block : Users(b)' = Users(b)
  BY <1>2, <1>3, CommitUsers DEF CommitPc
<1>5. CASE panicked'
  <2>1. UNCHANGED <<disk, cache>> /\ Unused(cache) = {}
    BY <1>1, <1>5
  <2>2. Unused(cache') = {} /\ CacheOK(cache')
    BY <1>1, <2>1
  <2> QED BY <1>2, <1>4, <1>5, <2>1, <2>2, DiskKept DEF OnlyBgetPanics
<1>6. CASE ~panicked'
  <2>1. CacheOK(cache') /\ \A a \in Block : Ref(cache', a) = Ref(cache, a)
    BY <1>1, <1>6, CopyCache
  <2>2. DiskOK'
    <3>1. to # Head0
      BY <1>2, BlockKinds
    <3> QED BY <1>1, <1>4, <1>6, <3>1, DiskWritten
  <2>3. Pinned' = Pinned
    <3>1. \A k \in CommitPc : Committing(k) => k = "write_log"
      BY <1>2, <1>3, CommitStep DEF CommitPc
    <3>2. \A k \in CommitPc : Committing(k)' => k = l
      BY <1>2, <1>3, CommitStep DEF CommitPc
    <3>3. l \in {"write_log", "write_head"}
      BY DEF l
    <3> QED BY <1>2, <1>4, <3>1, <3>2, <3>3 DEF Pinned, Unpinned, CommitPc
  <2>4. RefCounts'
    BY <1>1, <1>4, <2>1, <2>3, RefsKept
  <2> QED BY <1>6, <2>1, <2>2, <2>4 DEF BufferInv, OnlyBgetPanics
<1> QED BY <1>5, <1>6

\* The header is written, or there is no buffer to write it from.
LEMMA WriteHeadOK ==
  ASSUME CacheOK(cache), DiskOK, NEW p, NEW h, NEW next, WriteHead(p, h, next), IsHeader(h),
         ~IsDown'
  PROVE  /\ CacheOK(cache') /\ DiskOK'
         /\ \/ panicked' /\ UNCHANGED <<disk, cache, pc>> /\ Unused(cache') = {}
            \/ /\ ~panicked' /\ ~NoBuffer(cache, Head0) /\ disk' = [disk EXCEPT ![Head0] = h]
               /\ cache' = Used(cache, Head0, h) /\ pc' = [pc EXCEPT ![p] = next]
               /\ \A b \in Block : Ref(cache', b) = Ref(cache, b)
<1>1. Head0 \in Block
  BY BlockKinds
<1>2. CASE NoBuffer(cache, Head0)
  BY <1>2 DEF WriteHead, NoBuffer, DiskOK
<1>3. CASE ~NoBuffer(cache, Head0)
  <2>1. /\ ~panicked' /\ disk' = [disk EXCEPT ![Head0] = h] /\ cache' = Used(cache, Head0, h)
        /\ pc' = [pc EXCEPT ![p] = next]
    BY <1>3 DEF WriteHead, Goto
  <2>2. CacheOK(cache') /\ \A b \in Block : Ref(cache', b) = Ref(cache, b)
    BY <1>1, <1>3, <2>1, UsedRefs
  <2>3. DiskOK'
    <3>1. disk' = [b \in Block |-> disk'[b]] /\ disk'[Head0] = h
      BY <1>1, <2>1 DEF DiskOK
    <3> QED BY <3>1 DEF DiskOK
  <2> QED BY <1>3, <2>1, <2>2, <2>3
<1> QED BY <1>2, <1>3

LEMMA write_headBuffers ==
  ASSUME ControlInv, BufferInv, NEW p \in Process, write_head(p)
  PROVE  BufferInv' /\ OnlyBgetPanics'
<1>1. /\ pc[p] = "write_head" /\ ~panicked /\ WriteHead(p, lh, "install_trans")
      /\ UNCHANGED <<lh, tail, blk>>
  BY DEF write_head, At, logvars
<1>2. IsHeader(lh) /\ tail = 0 /\ Len(lh) \in Nat
  BY <1>1, CommitAt DEF CommitPc
<1>3. /\ pc' = [pc EXCEPT ![p] = "write_head"] \/ pc' = [pc EXCEPT ![p] = "install_trans"]
      /\ ~panicked' => pc' = [pc EXCEPT ![p] = "install_trans"]
  BY <1>1 DEF WriteHead, Goto, ControlInv, Types
<1>4. ~IsDown /\ ~IsDown' /\ \A b \in Block : Users(b)' = Users(b)
  BY <1>1, <1>3, CommitUsers DEF CommitPc
<1>5. CacheOK(cache) /\ DiskOK /\ RefCounts
  BY <1>1 DEF BufferInv
<1>6. /\ CacheOK(cache') /\ DiskOK'
      /\ panicked' => Unused(cache') = {}
      /\ ~panicked' => \A b \in Block : Ref(cache', b) = Ref(cache, b)
  BY <1>1, <1>2, <1>4, <1>5, WriteHeadOK
<1>7. ASSUME ~panicked'
      PROVE  Pinned' = Pinned
  <2>1. \A k \in CommitPc : Committing(k) => k = "write_head"
    BY <1>1, <1>3, CommitStep DEF CommitPc
  <2>2. \A k \in CommitPc : Committing(k)' => k = "install_trans"
    BY <1>1, <1>3, <1>7, CommitStep DEF CommitPc
  <2> QED BY <1>1, <1>2, <1>4, <2>1, <2>2 DEF Pinned, Unpinned, CommitPc
<1>8. ~panicked' => RefCounts'
  BY <1>4, <1>5, <1>6, <1>7, RefsKept
<1> QED BY <1>6, <1>8 DEF BufferInv, OnlyBgetPanics

LEMMA eraseBuffers ==
  ASSUME ControlInv, BufferInv, NEW p \in Process, erase(p)
  PROVE  BufferInv' /\ OnlyBgetPanics'
<1>1. /\ pc[p] = "erase" /\ ~panicked /\ WriteHead(p, <<>>, "committed")
      /\ UNCHANGED <<tail, blk>> /\ lh' = <<>>
  BY DEF erase, At, logvars
<1>2. IsHeader(<<>>)
  BY Constants DEF IsHeader
<1>3. pc' = [pc EXCEPT ![p] = "erase"] \/ pc' = [pc EXCEPT ![p] = "committed"]
  BY <1>1 DEF WriteHead, Goto, ControlInv, Types
<1>4. ~IsDown /\ ~IsDown' /\ \A b \in Block : Users(b)' = Users(b)
  BY <1>1, <1>3, CommitUsers DEF CommitPc
<1>5. CacheOK(cache) /\ DiskOK /\ RefCounts
  BY <1>1 DEF BufferInv
<1>6. /\ CacheOK(cache') /\ DiskOK'
      /\ panicked' => Unused(cache') = {}
      /\ ~panicked' => \A b \in Block : Ref(cache', b) = Ref(cache, b)
  BY <1>1, <1>2, <1>4, <1>5, WriteHeadOK
<1>7. Pinned' = Pinned
  <2>1. Pinned = {}
    BY <1>1, PinnedCommit DEF CommitPc
  <2>2. Pinned' = {}
    BY <1>1 DEF Pinned
  <2> QED BY <2>1, <2>2
<1>8. ~panicked' => RefCounts'
  BY <1>4, <1>5, <1>6, <1>7, RefsKept
<1> QED BY <1>6, <1>8 DEF BufferInv, OnlyBgetPanics

\* install_trans unpins the block it copies.
LEMMA install_transPins ==
  ASSUME ControlInv, BufferInv, NEW p \in Process, install_trans(p), ~panicked'
  PROVE  /\ lh[tail + 1] \in Pinned /\ Pinned' = Pinned \ {lh[tail + 1]}
         /\ pc'[p] \in {"install_trans", "erase"} /\ pc' = [pc EXCEPT ![p] = pc'[p]]
<1> PICK b : b = lh[tail + 1]
  OBVIOUS
<1> PICK l : l = IF tail + 1 < Len(lh) THEN "install_trans" ELSE "erase"
  OBVIOUS
<1>1. pc[p] = "install_trans" /\ ~panicked /\ UNCHANGED <<lh, blk>>
  BY DEF install_trans, At
<1>2. /\ tail < Len(lh) /\ tail + 1 \in 1 .. Len(lh)
      /\ b \in Data /\ IsHeader(lh) /\ Len(lh) \in Nat /\ tail \in Nat
  BY <1>1, CommitAt DEF CommitPc
<1>3. ~NoBuffer(cache, LogBlock(tail + 1))
  BY DEF install_trans
<1>4. pc' = [pc EXCEPT ![p] = l] /\ l \in CommitPc /\ pc'[p] = l
  BY <1>1, <1>3 DEF install_trans, Goto, ControlInv, Types, CommitPc
<1>5. ~IsDown /\ ~IsDown'
  BY <1>1, <1>4, CommitUsers DEF CommitPc
<1>6. Pinned = {c \in Data : \E k \in 1 .. Len(lh) : lh[k] = c /\ k > tail}
  BY <1>1, PinnedCommit DEF CommitPc
<1>7. (\A k \in CommitPc : Committing(k)' => k = l) /\ Committing(l)'
  BY <1>1, <1>4, CommitStep DEF CommitPc
<1>8. \A j \in 1 .. Len(lh) : lh[j] = b => j = tail + 1
  BY <1>2 DEF IsHeader
<1>9. CASE tail + 1 < Len(lh)
  <2>1. tail' = tail + 1 /\ l = "install_trans"
    BY <1>3, <1>9 DEF install_trans
  <2>2. Pinned' = {c \in Data : \E k \in 1 .. Len(lh) : lh[k] = c /\ k > tail + 1}
    BY <1>1, <1>2, <1>5, <1>7, <2>1 DEF Pinned, Unpinned, CommitPc
  <2>3. Pinned' = Pinned \ {b}
    BY <1>2, <1>6, <1>8, <2>2
  <2>4. b \in Pinned
    BY <1>2, <1>6
  <2>5. pc' = [pc EXCEPT ![p] = pc'[p]] /\ pc'[p] \in {"install_trans", "erase"}
    BY <1>4, <2>1
  <2> QED BY <2>3, <2>4, <2>5
<1>10. CASE ~(tail + 1 < Len(lh))
  <2>1. l = "erase"
    BY <1>10
  <2>2. Pinned' = {}
    BY <1>7, <2>1 DEF Pinned, Unpinned
  <2>3. \A j \in 1 .. Len(lh) : j > tail => j = tail + 1
    BY <1>2, <1>10
  <2>4. Pinned \subseteq {b} /\ b \in Pinned
    BY <1>2, <1>6, <2>3
  <2> QED BY <1>4, <2>1, <2>2, <2>4
<1> QED BY <1>9, <1>10

LEMMA install_transBuffers ==
  ASSUME ControlInv, BufferInv, NEW p \in Process, install_trans(p)
  PROVE  BufferInv' /\ OnlyBgetPanics'
<1> PICK b : b = lh[tail + 1]
  OBVIOUS
<1> PICK a : a = LogBlock(tail + 1)
  OBVIOUS
<1> PICK v : v = Cached(cache, a)
  OBVIOUS
<1>1. pc[p] = "install_trans" /\ ~panicked /\ UNCHANGED <<lh, blk>>
  BY DEF install_trans, At
<1>2. tail + 1 \in 1 .. Len(lh) /\ tail + 1 \in 1 .. LOGBLOCKS /\ b \in Data
  BY <1>1, CommitAt DEF CommitPc
<1>3. b \in Block /\ a \in Block /\ a # b /\ a \notin Data /\ b # Head0
  BY <1>2, BlockKinds
<1>4. CacheOK(cache) /\ RefCounts /\ b \in Pinned
  <2>1. Pinned = {c \in Data : \E k \in 1 .. Len(lh) : lh[k] = c /\ k > tail}
    BY <1>1, PinnedCommit DEF CommitPc
  <2>2. tail + 1 > tail
    BY <1>1, CommitAt DEF CommitPc
  <2> QED BY <1>1, <1>2, <2>1, <2>2 DEF BufferInv
<1>5. Ref(cache, b) > 0
  BY <1>1, <1>4, Referenced
<1>6. CASE NoBuffer(cache, a)
  <2>1. panicked' /\ UNCHANGED <<disk, cache, pc>>
    BY <1>6 DEF install_trans
  <2>2. Unused(cache') = {} /\ CacheOK(cache') /\ ~IsDown'
    BY <1>1, <1>4, <1>6, <2>1, CommitAt DEF NoBuffer, CommitPc, IsDown
  <2> QED BY <1>1, <2>1, <2>2, DiskKept DEF OnlyBgetPanics
<1>7. CASE ~NoBuffer(cache, a)
  <2>1. /\ ~panicked' /\ disk' = [disk EXCEPT ![b] = v]
        /\ cache' = bunpin(Used(Used(cache, a, v), b, v), b)
    BY <1>7 DEF install_trans
  <2>2. /\ CacheOK(cache') /\ Ref(cache', b) = Ref(cache, b) - 1
        /\ \A c \in Block \ {b} : Ref(cache', c) = Ref(cache, c)
    <3>1. /\ CacheOK(cache') /\ Ref(cache', b) = Ref(cache, b) - 1
          /\ (\A c \in Block \ {b} : Ref(cache', c) = Ref(cache, c)) /\ ValidKept(cache, cache')
      BY <1>3, <1>4, <1>5, <1>7, <2>1, InstallCache
    <3> QED BY <3>1
  <2>3. /\ Pinned' = Pinned \ {b} /\ pc' = [pc EXCEPT ![p] = pc'[p]]
        /\ pc'[p] \in {"install_trans", "erase"}
    BY <2>1, install_transPins
  <2>4. ~IsDown' /\ \A c \in Block : Users(c)' = Users(c)
    BY <1>1, <2>3, CommitUsers DEF CommitPc
  <2>5. DiskOK'
    BY <1>3, <2>1, <2>4, DiskWritten
  <2>6. RefCounts'
    <3> SUFFICES ASSUME NEW c \in Block
                 PROVE  Ref(cache', c) = Cardinality(Users(c)) + (IF c \in Pinned' THEN 1 ELSE 0)
      BY <2>4 DEF RefCounts, Ref, Has, Buf, Pos
    <3>1. Ref(cache, c) = Cardinality(Users(c)) + (IF c \in Pinned THEN 1 ELSE 0)
          /\ Cardinality(Users(c)) \in Nat
      BY <1>4, UserCount DEF RefCounts
    <3>2. CASE c = b
      BY <1>4, <2>2, <2>3, <3>1, <3>2
    <3>3. CASE c # b
      BY <2>2, <2>3, <3>1, <3>3
    <3> QED BY <3>2, <3>3
  <2> QED BY <2>1, <2>2, <2>5, <2>6 DEF BufferInv, OnlyBgetPanics
<1> QED BY <1>6, <1>7

\* No buffer of an empty cache holds a block.
LEMMA EmptyCache ==
  ASSUME NEW c, c = [k \in 1 .. NBUF |-> Empty]
  PROVE  CacheOK(c) /\ \A b \in Block : ~Has(c, b) /\ Ref(c, b) = 0
<1>1. IsBuffer(Empty) /\ Empty.blockno = NoBlock /\ Empty.refcnt = 0
  BY DEF Empty, IsBuffer
<1>2. \A b \in Block : ~Has(c, b)
  BY <1>1, BlockKinds DEF Has
<1>3. CacheOK(c)
  BY <1>1 DEF CacheOK
<1> QED BY <1>2, <1>3 DEF Ref

LEMMA InitBuffers == Init => BufferInv /\ OnlyBgetPanics
<1> SUFFICES ASSUME Init PROVE BufferInv /\ OnlyBgetPanics
  OBVIOUS
<1>1. CacheOK(cache) /\ \A b \in Block : Ref(cache, b) = 0
  BY EmptyCache DEF Init
<1>2. ~IsDown /\ ~panicked /\ lh = <<>>
  BY DEF Init, IsDown
<1>3. DiskOK
  <2>1. disk = [b \in Block |-> disk[b]] /\ disk[Head0] = <<>>
    BY BlockKinds DEF Init
  <2>2. IsHeader(<<>>)
    BY Constants DEF IsHeader
  <2> QED BY <1>2, <2>1, <2>2 DEF DiskOK
<1>4. \A b \in Block : Users(b) = {}
  BY DEF Init, Users, UsePc
<1>5. Pinned = {}
  BY <1>2 DEF Pinned
<1>6. RefCounts
  BY <1>1, <1>4, <1>5, FS_EmptySet DEF RefCounts
<1> QED BY <1>1, <1>2, <1>3, <1>6 DEF BufferInv, OnlyBgetPanics

LEMMA crashBuffers ==
  ASSUME ControlInv, BufferInv, crash
  PROVE  BufferInv' /\ OnlyBgetPanics'
<1>1. CacheOK(cache') /\ \A b \in Block : Ref(cache', b) = 0
  BY EmptyCache DEF crash
<1>2. /\ IsDown' /\ ~panicked' /\ lh' = <<>> /\ tail' = 0 /\ UNCHANGED disk
      /\ \A p \in Process : pc'[p] = "down"
  BY Processes DEF crash, IsDown
<1>3. DiskOK'
  BY <1>2 DEF BufferInv, DiskOK
<1>4. \A b \in Block : Users(b)' = {}
  BY <1>2 DEF Users, UsePc
<1>5. Pinned' = {}
  BY <1>2 DEF Pinned
<1>6. RefCounts'
  BY <1>1, <1>4, <1>5, FS_EmptySet DEF RefCounts, Ref, Has, Buf, Pos
<1> QED BY <1>1, <1>2, <1>3, <1>6 DEF BufferInv, OnlyBgetPanics

\* In recovery nothing is referenced: every buffer may be recycled.
LEMMA Recovering ==
  ASSUME ControlInv, BufferInv, Down
  PROVE  /\ CacheOK(cache) /\ IsDown /\ ~panicked /\ RefCounts
         /\ \A b \in Block : Ref(cache, b) = 0 /\ ~NoBuffer(cache, b) /\ Users(b) = {}
         /\ Pinned = {}
<1>1. IsDown /\ ~panicked /\ \A p \in Process : pc[p] = "down"
  BY DownFacts
<1>2. CacheOK(cache) /\ RefCounts
  BY <1>1 DEF BufferInv
<1>3. \A b \in Block : Users(b) = {}
  BY <1>1 DEF Users, UsePc
<1>4. Pinned = {}
  BY <1>1, PinnedDown
<1>5. \A b \in Block : Ref(cache, b) = 0
  BY <1>2, <1>3, <1>4, FS_EmptySet DEF RefCounts
<1>6. Unused(cache) # {}
  <2>1. 1 \in 1 .. NBUF /\ DOMAIN cache = 1 .. NBUF
    BY <1>2, LogSizes DEF CacheOK
  <2>2. CASE cache[1].blockno = NoBlock
    BY <1>2, <2>1, <2>2 DEF CacheOK, Unused
  <2>3. CASE cache[1].blockno \in Block
    <3>1. Has(cache, cache[1].blockno) /\ Buf(cache, cache[1].blockno) = cache[1]
      BY <1>2, <2>1, <2>3, FindBuffer
    <3>2. cache[1].refcnt = 0
      BY <1>5, <2>3, <3>1 DEF Ref
    <3> QED BY <2>1, <3>2 DEF Unused
  <2>4. cache[1].blockno \in Block \cup {NoBlock}
    BY <1>2, <2>1 DEF CacheOK, IsBuffer
  <2> QED BY <2>2, <2>3, <2>4
<1> QED BY <1>1, <1>2, <1>3, <1>4, <1>5, <1>6 DEF NoBuffer

\* Nothing is referenced after the step either.
LEMMA StillUnreferenced ==
  ASSUME \A b \in Block : Ref(cache', b) = 0,
         \A p \in Process : pc'[p] \in {"down", "idle"}, Pinned' = {}
  PROVE  RefCounts'
<1>1. \A b \in Block : Users(b)' = {}
  BY DEF Users, UsePc
<1> QED BY <1>1, FS_EmptySet DEF RefCounts, Ref, Has, Buf, Pos

LEMMA read_headBuffers ==
  ASSUME ControlInv, BufferInv, read_head
  PROVE  BufferInv' /\ OnlyBgetPanics'
<1>1. /\ Down /\ lh = <<>> /\ disk[Head0] # <<>> /\ lh' = disk[Head0]
      /\ cache' = Used(cache, Head0, disk[Head0]) /\ UNCHANGED <<disk, tail, pc, panicked>>
  BY DEF read_head, procvars
<1>2. /\ CacheOK(cache) /\ IsDown /\ ~panicked
      /\ \A b \in Block : Ref(cache, b) = 0 /\ ~NoBuffer(cache, b)
  BY <1>1, Recovering
<1>3. CacheOK(cache') /\ \A b \in Block : Ref(cache', b) = 0
  BY <1>1, <1>2, BlockKinds, UsedRefs
<1>4. IsDown' /\ \A p \in Process : pc'[p] = "down"
  BY <1>1, <1>2, DownFacts DEF IsDown
<1>5. DiskOK'
  <2>1. tail = 0 /\ IsHeader(disk[Head0]) /\ disk = [b \in Block |-> disk[b]]
    BY <1>1, <1>2 DEF BufferInv, DiskOK
  <2>2. 0 <= Len(disk[Head0])
    BY <2>1, Constants DEF IsHeader
  <2> QED BY <1>1, <2>1, <2>2 DEF DiskOK
<1>6. Pinned' = {}
  BY <1>4 DEF Pinned, Unpinned
<1>7. RefCounts'
  BY <1>3, <1>4, <1>6, StillUnreferenced
<1> QED BY <1>1, <1>2, <1>3, <1>5, <1>7 DEF BufferInv, OnlyBgetPanics

\* A buffer taken and given back in recovery can be taken again.
LEMMA RecoveryRoom ==
  ASSUME ControlInv, BufferInv, Down, NEW a \in Block, NEW b, NEW v
  PROVE  ~NoBuffer(Used(cache, a, v), b)
<1> PICK c1 : c1 = Used(cache, a, v)
  OBVIOUS
<1>1. CacheOK(cache) /\ Ref(cache, a) = 0 /\ ~NoBuffer(cache, a)
  BY Recovering
<1>2. CacheOK(c1)
  BY <1>1, UsedRefs
<1>3. Has(c1, a) /\ Buf(c1, a).refcnt = 0
  <2>1. Evicts(cache, c1, a, Buf(c1, a)) /\ Buf(c1, a).refcnt = Ref(cache, a)
    BY <1>1, UsedOK
  <2> QED BY <1>1, <2>1 DEF Evicts
<1>4. Pos(c1, a) \in DOMAIN c1 /\ Buf(c1, a) = c1[Pos(c1, a)]
  BY <1>2, <1>3, Found DEF CacheOK
<1>5. Pos(c1, a) \in Unused(c1)
  BY <1>3, <1>4 DEF Unused
<1> QED BY <1>5 DEF NoBuffer

LEMMA install_recoveringBuffers ==
  ASSUME ControlInv, BufferInv, install_recovering
  PROVE  BufferInv' /\ OnlyBgetPanics'
<1> PICK a : a = LogBlock(tail + 1)
  OBVIOUS
<1> PICK b : b = lh[tail + 1]
  OBVIOUS
<1> PICK v : v = disk[a]
  OBVIOUS
<1>1. /\ Down /\ tail + 1 <= Len(lh) /\ disk' = [disk EXCEPT ![b] = v]
      /\ cache' = Used(Used(cache, a, v), b, v) /\ tail' = tail + 1
      /\ UNCHANGED <<lh, pc, panicked>>
  BY DEF install_recovering, procvars
<1>2. /\ CacheOK(cache) /\ IsDown /\ ~panicked
      /\ \A c \in Block : Ref(cache, c) = 0 /\ ~NoBuffer(cache, c)
  BY <1>1, Recovering
<1>3. lh = disk[Head0] /\ IsHeader(lh) /\ tail \in Nat
  BY <1>1, <1>2 DEF BufferInv, DiskOK, ControlInv, Types
<1>4. tail + 1 \in 1 .. Len(lh) /\ tail + 1 \in 1 .. LOGBLOCKS /\ b \in Data /\ Len(lh) \in Nat
  BY <1>1, <1>3, Constants DEF IsHeader
<1>5. a \in Block /\ b \in Block /\ b # Head0
  BY <1>4, BlockKinds
<1> DEFINE c1 == Used(cache, a, v)
<1>6. CacheOK(c1) /\ \A c \in Block : Ref(c1, c) = 0
  BY <1>2, <1>5, UsedRefs
<1>7. ~NoBuffer(c1, b)
  BY <1>1, <1>5, RecoveryRoom
<1>8. CacheOK(cache') /\ \A c \in Block : Ref(cache', c) = 0
  <2> HIDE DEF c1
  <2>1. cache' = Used(c1, b, v)
    BY <1>1 DEF c1
  <2>2. CacheOK(Used(c1, b, v)) /\ \A c \in Block : Ref(Used(c1, b, v), c) = Ref(c1, c)
    BY <1>5, <1>6, <1>7, UsedRefs
  <2> QED BY <1>6, <2>1, <2>2
<1>9. IsDown' /\ \A p \in Process : pc'[p] = "down"
  BY <1>1, <1>2, DownFacts DEF IsDown
<1>10. DiskOK'
  <2>1. disk' = [c \in Block |-> disk'[c]] /\ disk'[Head0] = disk[Head0]
    BY <1>1, <1>5, BlockKinds DEF BufferInv, DiskOK
  <2> QED BY <1>1, <1>3, <1>4, <2>1 DEF DiskOK
<1>11. Pinned' = {}
  BY <1>9 DEF Pinned, Unpinned
<1>12. RefCounts'
  BY <1>8, <1>9, <1>11, StillUnreferenced
<1> QED BY <1>1, <1>2, <1>8, <1>10, <1>12 DEF BufferInv, OnlyBgetPanics

LEMMA recoveredBuffers ==
  ASSUME ControlInv, BufferInv, recovered
  PROVE  BufferInv' /\ OnlyBgetPanics'
<1>1. /\ Down /\ disk' = [disk EXCEPT ![Head0] = <<>>] /\ cache' = Used(cache, Head0, <<>>)
      /\ lh' = <<>> /\ tail' = 0 /\ pc' = [p \in Process |-> "idle"] /\ UNCHANGED panicked
  BY DEF recovered
<1>2. /\ CacheOK(cache) /\ IsDown /\ ~panicked
      /\ \A b \in Block : Ref(cache, b) = 0 /\ ~NoBuffer(cache, b)
  BY <1>1, Recovering
<1>3. CacheOK(cache') /\ \A b \in Block : Ref(cache', b) = 0
  BY <1>1, <1>2, BlockKinds, UsedRefs
<1>4. \A p \in Process : pc'[p] = "idle"
  BY <1>1
<1>5. DiskOK'
  <2>1. disk' = [b \in Block |-> disk'[b]] /\ disk'[Head0] = <<>>
    BY <1>1, BlockKinds DEF BufferInv, DiskOK
  <2>2. IsHeader(<<>>)
    BY Constants DEF IsHeader
  <2> QED BY <1>1, <2>1, <2>2 DEF DiskOK
<1>6. Pinned' = {}
  BY <1>1 DEF Pinned
<1>7. RefCounts'
  BY <1>3, <1>4, <1>6, StillUnreferenced
<1> QED BY <1>1, <1>2, <1>3, <1>5, <1>7 DEF BufferInv, OnlyBgetPanics

\* Every step keeps the reference counts right, and only bget panics.
LEMMA NextBuffers ==
  ControlInv /\ BufferInv /\ OnlyBgetPanics /\ [Next]_vars => BufferInv' /\ OnlyBgetPanics'
<1> SUFFICES ASSUME ControlInv, BufferInv, OnlyBgetPanics, [Next]_vars
             PROVE  BufferInv' /\ OnlyBgetPanics'
  OBVIOUS
<1>1. CASE crash
  BY <1>1, crashBuffers
<1>2. CASE Recovery
  BY <1>2, read_headBuffers, install_recoveringBuffers, recoveredBuffers DEF Recovery
<1>3. ASSUME NEW p \in Process, Operation(p)
      PROVE  BufferInv' /\ OnlyBgetPanics'
  <2>1. CASE start_op(p) \/ begin_op(p) \/ end_op(p) \/ committed(p)
    BY <2>1, start_opBuffers, begin_opBuffers, end_opBuffers, committedBuffers
  <2>2. CASE acquiresleep(p) \/ log_write(p) \/ release(p)
    BY <2>2, acquiresleepBuffers, log_writeBuffers, releaseBuffers
  <2>3. CASE \E b \in Data : bread_op(p, b) \/ bread_outside(p, b)
    BY <2>3, BreadBuffers
  <2>4. CASE write_log(p) \/ write_head(p) \/ install_trans(p) \/ erase(p)
    BY <2>4, write_logBuffers, write_headBuffers, install_transBuffers, eraseBuffers
  <2> QED BY <1>3, <2>1, <2>2, <2>3, <2>4 DEF Operation
<1>4. CASE UNCHANGED vars
  <2>1. UNCHANGED <<disk, cache, lh, tail, pc, blk, panicked>>
    BY <1>4 DEF vars, logvars, procvars
  <2>2. /\ Pinned' = Pinned /\ (IsDown' <=> IsDown) /\ \A b \in Block : Users(b)' = Users(b)
    BY <2>1 DEF Pinned, Unpinned, Committing, IsDown, Users
  <2>3. DiskOK' /\ CacheOK(cache')
    BY <2>1, <2>2 DEF BufferInv, DiskOK
  <2>4. ~panicked => RefCounts'
    BY <2>1, <2>2, RefsKept DEF BufferInv
  <2> QED BY <2>1, <2>3, <2>4 DEF BufferInv, OnlyBgetPanics
<1> QED BY <1>1, <1>2, <1>3, <1>4 DEF Next

LEMMA BufferInvariant == Spec => [](ControlInv /\ BufferInv /\ OnlyBgetPanics)
<1>1. Init => ControlInv /\ BufferInv /\ OnlyBgetPanics
  BY InitControl, InitBuffers
<1>2. ControlInv /\ BufferInv /\ OnlyBgetPanics /\ [Next]_vars
        => (ControlInv /\ BufferInv /\ OnlyBgetPanics)'
  BY NextControl, NextBuffers
<1> QED BY <1>1, <1>2, PTL DEF Spec

\* The log's own panics (a transaction too big, log_write outside a
\* transaction, end_op in a commit) never come: the kernel panics only in bget,
\* and only when every buffer is in use.
THEOREM LogNeverFull == Spec => []OnlyBgetPanics
BY BufferInvariant, PTL

-----------------------------------------------------------------------------
(* Every buffer in use is accounted for *)

\* A panic changes no buffer, and the log only when none of its blocks is pinned.
LEMMA WhoPanics ==
  ASSUME ControlInv, BufferInv, ~panicked, [Next]_vars, panicked'
  PROVE  UNCHANGED <<disk, cache, pc, op>> /\ ~IsDown /\ (lh' = lh \/ Pinned = {})
<1>1. ~crash /\ ~Recovery /\ ~UNCHANGED vars
  BY DEF crash, Recovery, read_head, install_recovering, recovered, vars
<1>2. PICK p \in Process : Operation(p)
  BY <1>1 DEF Next
<1>3. ~log_write(p) /\ ~end_op(p)
  BY log_writeFits, end_opFits
<1>4. /\ UNCHANGED <<disk, cache, pc, op>> /\ pc[p] \in {"idle", "op"} \cup CommitPc
      /\ lh' = lh \/ pc[p] = "erase"
  <2>1. CASE start_op(p) \/ begin_op(p) \/ acquiresleep(p) \/ release(p) \/ committed(p)
    BY <2>1 DEF start_op, begin_op, acquiresleep, release, committed, At, bounds
  <2>2. CASE \E b \in Data : bread_op(p, b) \/ bread_outside(p, b)
    BY <2>2 DEF bread_op, bread_outside, Bread, At, logvars
  <2>3. CASE write_log(p)
    BY <2>3, write_logTurn DEF write_log, Copy, At, CommitPc
  <2>4. CASE write_head(p) \/ erase(p)
    BY <2>4 DEF write_head, erase, WriteHead, At, CommitPc, logvars
  <2>5. CASE install_trans(p)
    BY <2>5 DEF install_trans, At, CommitPc
  <2> QED BY <1>2, <1>3, <2>1, <2>2, <2>3, <2>4, <2>5 DEF Operation
<1>5. ~IsDown
  BY <1>4, Moves DEF ControlInv, CommitPc
<1>6. pc[p] = "erase" => Pinned = {}
  BY DEF Pinned, Unpinned, Committing
<1> QED BY <1>4, <1>5, <1>6

\* After a panic nothing moves.
LEMMA StoppedStays ==
  ASSUME panicked, [Next]_vars
  PROVE  UNCHANGED <<pc, lh>>
<1>1. CASE UNCHANGED vars
  BY <1>1 DEF vars, logvars, procvars
<1>2. ASSUME Next PROVE FALSE
  <2>1. ~crash /\ ~Recovery
    BY DEF crash, Recovery, read_head, install_recovering, recovered, Down
  <2>2. ASSUME NEW p \in Process PROVE ~Operation(p)
    BY DEF Operation, At, start_op, begin_op, acquiresleep, log_write, release, end_op,
           bread_op, bread_outside, write_log, write_head, install_trans, erase, committed
  <2> QED BY <1>2, <2>1, <2>2 DEF Next
<1> QED BY <1>1, <1>2

\* The processes that hold a buffer, and the blocks that are pinned or held.
Holders == {q \in Process : pc[q] \in UsePc}
InUse == Pinned \cup {blk[q] : q \in Holders}

LEMMA PinnedCount ==
  ASSUME ControlInv, ~IsDown
  PROVE  /\ IsFiniteSet(Pinned) /\ Cardinality(Pinned) \in Nat
         /\ Len(lh) \in Nat /\ Cardinality(Pinned) <= Len(lh)
<1> DEFINE S == 1 .. Len(lh)
           T == {lh[k] : k \in S}
           f == [k \in S |-> lh[k]]
<1>1. Len(lh) \in Nat
  BY Constants DEF ControlInv, LogShape, IsHeader
<1>2. IsFiniteSet(S) /\ Cardinality(S) = Len(lh)
  <2>1. \A n \in Nat : IsFiniteSet(1 .. n) /\ Cardinality(1 .. n) = n
    BY FS_Interval
  <2> QED BY <1>1, <2>1
<1>3. f \in Surjection(S, T)
  BY DEF Surjection
<1>4. Pinned \subseteq T
  BY DEF Pinned
<1> HIDE DEF f, S, T
<1>5. IsFiniteSet(T) /\ Cardinality(T) <= Cardinality(S) /\ Cardinality(T) \in Nat
  BY <1>2, <1>3, FS_Surjection, FS_CardinalityType
<1>6. IsFiniteSet(Pinned) /\ Cardinality(Pinned) <= Cardinality(T)
  BY <1>4, <1>5, FS_Subset
<1> QED BY <1>1, <1>2, <1>5, <1>6, FS_CardinalityType

LEMMA InUseCount ==
  ASSUME ControlInv, ~IsDown
  PROVE  /\ IsFiniteSet(InUse) /\ Cardinality(InUse) \in Nat /\ Cardinality(Holders) \in Nat
         /\ Cardinality(InUse) <= Cardinality(Pinned) + Cardinality(Holders)
<1> DEFINE U == {blk[q] : q \in Holders}
           f == [q \in Holders |-> blk[q]]
<1>1. IsFiniteSet(Pinned) /\ Cardinality(Pinned) \in Nat
  BY PinnedCount
<1>2. Holders \subseteq Process
  BY DEF Holders
<1>3. IsFiniteSet(Holders) /\ Cardinality(Holders) \in Nat
  BY <1>2, Processes, FS_Subset, FS_CardinalityType
<1>4. f \in Surjection(Holders, U)
  BY DEF Surjection
<1>5. InUse = Pinned \cup U
  BY DEF InUse
<1> HIDE DEF f, U
<1>6. IsFiniteSet(U) /\ Cardinality(U) <= Cardinality(Holders) /\ Cardinality(U) \in Nat
  BY <1>3, <1>4, FS_Surjection, FS_CardinalityType
<1>7. /\ IsFiniteSet(Pinned \cup U) /\ Cardinality(Pinned \cup U) \in Nat
      /\ Cardinality(Pinned \cup U) = Cardinality(Pinned) + Cardinality(U) - Cardinality(Pinned \cap U)
  BY <1>1, <1>6, FS_Union, FS_CardinalityType
<1>8. Cardinality(Pinned \cap U) \in Nat
  BY <1>1, FS_Intersection, FS_CardinalityType
<1> QED BY <1>1, <1>3, <1>5, <1>6, <1>7, <1>8

\* A full cache holds blocks that are pinned or held, each one once.
LEMMA FullCache ==
  ASSUME ControlInv, BufferInv, ~panicked, ~IsDown, Unused(cache) = {}
  PROVE  NBUF <= Cardinality(Pinned) + Cardinality(Holders)
<1> DEFINE f == [k \in 1 .. NBUF |-> cache[k].blockno]
<1>1. CacheOK(cache) /\ RefCounts /\ NBUF \in Nat
  BY LogSizes DEF BufferInv
<1>2. ASSUME NEW k \in 1 .. NBUF
      PROVE  cache[k].blockno \in InUse /\ cache[k].blockno # NoBlock
  <2> DEFINE b == cache[k].blockno
  <2>1. cache[k].refcnt # 0 /\ IsBuffer(cache[k])
    BY <1>1 DEF Unused, CacheOK
  <2>2. b \in Block
    BY <1>1, <2>1 DEF CacheOK, IsBuffer
  <2>3. Ref(cache, b) # 0
    BY <1>1, <2>1, <2>2, FindBuffer DEF Ref
  <2> HIDE DEF b
  <2>4. b \in Pinned \/ Users(b) # {}
    BY <1>1, <2>2, <2>3, FS_EmptySet DEF RefCounts
  <2>5. b \in InUse
    BY <2>4 DEF Users, InUse, Holders
  <2> QED BY <2>2, <2>5, BlockKinds DEF b
<1>3. f \in Injection(1 .. NBUF, InUse)
  <2>1. \A j, k \in 1 .. NBUF : cache[j].blockno = cache[k].blockno => j = k
    BY <1>1, <1>2 DEF CacheOK
  <2>2. f \in [1 .. NBUF -> InUse] /\ \A j, k \in 1 .. NBUF : f[j] = f[k] => j = k
    BY <1>2, <2>1
  <2> HIDE DEF f
  <2> QED BY <2>2 DEF Injection, IsInjective
<1>4. Cardinality(1 .. NBUF) = NBUF
  BY <1>1, FS_Interval
<1>5. /\ IsFiniteSet(InUse) /\ Cardinality(InUse) \in Nat /\ Cardinality(Holders) \in Nat
      /\ Cardinality(InUse) <= Cardinality(Pinned) + Cardinality(Holders)
  BY InUseCount
<1> HIDE DEF f
<1>6. NBUF <= Cardinality(InUse)
  BY <1>3, <1>4, <1>5, FS_Injection
<1> QED BY <1>1, <1>5, <1>6, PinnedCount

\* bget, bpin, bunpin and brelse leave no buffer behind that nobody uses: the
\* kernel stops for want of one only when the logged blocks and the processes
\* between bget and brelse are as many as the buffers, whatever NBUF is.
THEOREM BuffersAccounted == Spec => []PanicOnlyWhenFull
<1> DEFINE Inv == ControlInv /\ BufferInv /\ OnlyBgetPanics
<1>1. Init => PanicOnlyWhenFull
  BY DEF Init, PanicOnlyWhenFull
<1>2. Inv /\ Inv' /\ PanicOnlyWhenFull /\ [Next]_vars => PanicOnlyWhenFull'
  <2> SUFFICES ASSUME Inv, Inv', PanicOnlyWhenFull, [Next]_vars, panicked'
               PROVE  PanicOnlyWhenFull'
    BY DEF PanicOnlyWhenFull
  <2>1. CASE panicked
    <3>1. UNCHANGED <<pc, lh>>
      BY <2>1, StoppedStays
    <3> QED BY <2>1, <3>1 DEF PanicOnlyWhenFull
  <2>2. CASE ~panicked
    <3>1. UNCHANGED <<cache, pc>> /\ ~IsDown /\ (lh' = lh \/ Pinned = {})
      BY <2>2, WhoPanics
    <3>2. NBUF <= Cardinality(Pinned) + Cardinality(Holders)
      <4>1. Unused(cache) = {}
        BY <3>1 DEF OnlyBgetPanics, Unused
      <4> QED BY <2>2, <3>1, <4>1, FullCache
    <3>3. Holders' = Holders /\ Cardinality(Holders) \in Nat
      BY <3>1, InUseCount DEF Holders
    <3>4. Cardinality(Pinned) <= Len(lh') /\ Cardinality(Pinned) \in Nat /\ Len(lh') \in Nat
      <4>1. CASE lh' = lh
        BY <3>1, <4>1, PinnedCount
      <4>2. CASE Pinned = {}
        <5>1. ~IsDown'
          BY <3>1 DEF IsDown
        <5>2. Len(lh') \in Nat
          BY <5>1, Constants DEF ControlInv, LogShape, IsHeader
        <5> QED BY <4>2, <5>2, FS_EmptySet
      <4> QED BY <3>1, <4>1, <4>2
    <3>5. NBUF <= Len(lh') + Cardinality(Holders')
      BY <3>2, <3>3, <3>4, LogSizes
    <3> QED BY <3>5 DEF PanicOnlyWhenFull, Holders
  <2> QED BY <2>1, <2>2
<1> HIDE DEF Inv
<1>3. Spec => []Inv
  BY BufferInvariant DEF Inv
<1> QED BY <1>1, <1>2, <1>3, PTL DEF Spec
-----------------------------------------------------------------------------
(* The write-ahead log implements AtomicLog: what a crash leaves on the      *)
(* disk changes only between operations, to the whole of what they did.      *)

(* What each operation on a buffer shows of a disk D *)

LEMMA BgetContent ==
  ASSUME NEW c, CacheOK(c), NEW b \in Block, ~NoBuffer(c, b), NEW D, Faithful(D, c)
  PROVE  ValidKept(c, bget(c, b))
         /\ \A a \in Block : CachedIn(D, bget(c, b), a) = CachedIn(D, c, a)
<1> DEFINE u == Got(c, b)
           d == bget(c, b)
<1>1. Evicts(c, d, b, u) /\ IsBuffer(u)
  BY BgetOK
<1>2. CASE Has(c, b)
  <2>1. IsBuffer(Buf(c, b))
    BY <1>2, Found
  <2>2. (u.valid <=> Buf(c, b).valid) /\ u.data = Buf(c, b).data
    BY <1>2, <2>1 DEF Got, IsBuffer
  <2> HIDE DEF u, d
  <2>3. ValidKept(c, d)
    BY <1>1, <2>2, EvictsValid
  <2>4. CachedIn(D, d, b) = CachedIn(D, c, b)
    BY <1>1, <1>2, <2>2 DEF CachedIn, Evicts
  <2>5. \A a \in Block \ {b} : CachedIn(D, d, a) = CachedIn(D, c, a)
    BY <1>1, EvictContent
  <2> QED BY <2>3, <2>4, <2>5 DEF d
<1>3. CASE ~Has(c, b)
  <2>1. ~u.valid /\ Ref(c, b) = 0
    BY <1>3 DEF Got, Ref
  <2> HIDE DEF u, d
  <2>2. ValidKept(c, d)
    BY <1>1, <2>1, EvictsValid
  <2>3. CachedIn(D, d, b) = CachedIn(D, c, b)
    BY <1>1, <1>3, <2>1 DEF CachedIn, Evicts
  <2>4. \A a \in Block \ {b} : CachedIn(D, d, a) = CachedIn(D, c, a)
    BY <1>1, EvictContent
  <2> QED BY <2>2, <2>3, <2>4 DEF d
<1> QED BY <1>2, <1>3

LEMMA BrelseContent ==
  ASSUME NEW c, CacheOK(c), NEW b \in Block, Ref(c, b) > 0, NEW D, Faithful(D, c)
  PROVE  ValidKept(c, brelse(c, b))
         /\ \A a \in Block : CachedIn(D, brelse(c, b), a) = CachedIn(D, c, a)
<1> DEFINE u == [Buf(c, b) EXCEPT !.holder = Nobody, !.refcnt = @ - 1]
           d == brelse(c, b)
<1>1. Has(c, b) /\ Buf(c, b).refcnt > 0 /\ IsBuffer(Buf(c, b))
  BY RefType, Found
<1>2. Becomes(c, d, b, u)
  BY <1>1, BrelseOK
<1>3. (u.valid <=> Buf(c, b).valid) /\ u.data = Buf(c, b).data
  BY <1>1 DEF IsBuffer
<1> HIDE DEF u, d
<1>4. Evicts(c, d, b, u)
  BY <1>2, BecomesEvicts
<1>5. ValidKept(c, d)
  BY <1>3, <1>4, EvictsValid
<1>6. CachedIn(D, d, b) = CachedIn(D, c, b)
  BY <1>1, <1>2, <1>3 DEF CachedIn, Becomes
<1>7. \A a \in Block \ {b} : CachedIn(D, d, a) = CachedIn(D, c, a)
  BY <1>4, EvictContent
<1> QED BY <1>5, <1>6, <1>7 DEF d

LEMMA UsedValid ==
  ASSUME NEW c, CacheOK(c), NEW b \in Block, ~NoBuffer(c, b), NEW v
  PROVE  ValidKept(c, Used(c, b, v))
<1>1. Evicts(c, Used(c, b, v), b, Buf(Used(c, b, v), b)) /\ Buf(Used(c, b, v), b).valid
  BY UsedOK
<1> QED BY <1>1, EvictsValid

-----------------------------------------------------------------------------
(* The images of the disk *)

\* The image that recovery makes of a disk D.
Image(D) ==
  [b \in Data |->
     LET L == {k \in DOMAIN D[Head0] : D[Head0][k] = b}
     IN IF L = {} THEN D[b] ELSE D[LogBlock(CHOOSE k \in L : TRUE)]]

LEMMA DurableImage == Durable = Image(disk)
BY DEF Durable, Image

\* A logged block comes from the log, another one from its home.
LEMMA ImageOf ==
  ASSUME NEW D, IsHeader(D[Head0])
  PROVE  /\ \A k \in 1 .. Len(D[Head0]) : Image(D)[D[Head0][k]] = D[LogBlock(k)]
         /\ \A b \in Data : (\A k \in 1 .. Len(D[Head0]) : D[Head0][k] # b) => Image(D)[b] = D[b]
         /\ Image(D) = [b \in Data |-> Image(D)[b]]
<1> DEFINE h == D[Head0]
           L(b) == {k \in DOMAIN h : h[k] = b}
<1>1. DOMAIN h = 1 .. Len(h) /\ \A k \in 1 .. Len(h) : h[k] \in Data
  BY DEF IsHeader
<1>2. ASSUME NEW k \in 1 .. Len(h)
      PROVE  Image(D)[h[k]] = D[LogBlock(k)]
  <2>1. k \in L(h[k]) /\ \A j \in L(h[k]) : j = k
    BY <1>1, <1>2 DEF IsHeader
  <2>2. (CHOOSE j \in L(h[k]) : TRUE) = k /\ L(h[k]) # {}
    BY <2>1
  <2>3. h[k] \in Data
    BY <1>1, <1>2
  <2> QED BY <2>2, <2>3 DEF Image
<1>3. ASSUME NEW b \in Data, \A k \in 1 .. Len(h) : h[k] # b
      PROVE  Image(D)[b] = D[b]
  <2>1. L(b) = {}
    BY <1>1, <1>3
  <2> QED BY <2>1 DEF Image
<1>4. Image(D) = [b \in Data |-> Image(D)[b]]
  BY DEF Image
<1> QED BY <1>2, <1>3, <1>4

\* With an empty header the image is what the disk holds.
LEMMA ImageClean ==
  ASSUME NEW D, D[Head0] = <<>>
  PROVE  Image(D) = [b \in Data |-> D[b]]
BY DEF Image

\* Disks with the same header, and the same blocks where it points.
LEMMA SameImage ==
  ASSUME NEW D, NEW E, IsHeader(D[Head0]), E[Head0] = D[Head0],
         \A k \in 1 .. Len(D[Head0]) : E[LogBlock(k)] = D[LogBlock(k)],
         \A b \in Data : (\A k \in 1 .. Len(D[Head0]) : D[Head0][k] # b) => E[b] = D[b]
  PROVE  Image(E) = Image(D)
<1>1. ASSUME NEW b \in Data
      PROVE  Image(E)[b] = Image(D)[b]
  <2>1. CASE \E k \in 1 .. Len(D[Head0]) : D[Head0][k] = b
    BY <2>1, ImageOf
  <2>2. CASE \A k \in 1 .. Len(D[Head0]) : D[Head0][k] # b
    BY <2>2, ImageOf
  <2> QED BY <2>1, <2>2
<1> QED BY <1>1 DEF Image

-----------------------------------------------------------------------------
(* What the cache shows, and the invariant of the contents *)

Shown(b) == CachedIn(disk, cache, b)

View == IF Down THEN Durable ELSE [b \in Data |-> Shown(b)]

LEMMA CachedShown == \A b : Cached(cache, b) = Shown(b)
BY DEF Cached, CachedIn, Shown

LEMMA ContentFacts ==
  ASSUME BufferInv, ContentInv, ~panicked
  PROVE  /\ Faithful(disk, cache)
         /\ \A p \in Process : pc[p] \in {"have", "done"} => Buf(cache, blk[p]).valid
         /\ \A b \in Block : b \notin Pinned => Shown(b) = disk[b]
         /\ Committing("write_log") =>
              \A k \in 1 .. Len(lh) : k <= tail => disk[LogBlock(k)] = Shown(lh[k])
         /\ Committing("write_head") \/ Committing("install_trans") \/ Committing("erase") =>
              \A k \in 1 .. Len(lh) : k <= Len(lh) => disk[LogBlock(k)] = Shown(lh[k])
         /\ Committing("install_trans") \/ Committing("erase") => disk[Head0] = lh
         /\ ~(Committing("install_trans") \/ Committing("erase") \/ IsDown) => disk[Head0] = <<>>
         /\ IsDown => \A k \in 1 .. Len(lh) : k <= tail => disk[lh[k]] = disk[LogBlock(k)]
<1>1. \A b \in Block : b \notin Pinned => Shown(b) = disk[b]
  BY CachedShown DEF ContentInv, Clean
<1>2. Faithful(disk, cache)
  <2> SUFFICES ASSUME NEW b \in Block, Ref(cache, b) = 0
               PROVE  Shown(b) = disk[b]
    BY DEF Faithful, Shown
  <2>1. b \notin Pinned
    <3>1. Ref(cache, b) = Cardinality(Users(b)) + (IF b \in Pinned THEN 1 ELSE 0)
          /\ Cardinality(Users(b)) \in Nat
      BY UserCount DEF BufferInv, RefCounts
    <3> QED BY <3>1
  <2> QED BY <2>1, <1>1
<1> QED BY <1>1, <1>2, CachedShown DEF ContentInv, LogCopied

LEMMA ContentNext ==
  ASSUME \A p \in Process : pc'[p] \in {"have", "done"} => Buf(cache', blk'[p]).valid,
         \A b \in Block : b \notin Pinned' => Shown(b)' = disk'[b],
         Committing("write_log")' =>
           \A k \in 1 .. Len(lh') : k <= tail' => disk'[LogBlock(k)] = CachedIn(disk', cache', lh'[k]),
         (Committing("write_head") \/ Committing("install_trans") \/ Committing("erase"))' =>
           \A k \in 1 .. Len(lh') : disk'[LogBlock(k)] = CachedIn(disk', cache', lh'[k]),
         (Committing("install_trans") \/ Committing("erase"))' => disk'[Head0] = lh',
         ~(Committing("install_trans") \/ Committing("erase") \/ IsDown)' => disk'[Head0] = <<>>,
         IsDown' => \A k \in 1 .. Len(lh') : k <= tail' => disk'[lh'[k]] = disk'[LogBlock(k)]
  PROVE  ContentInv'
BY DEF ContentInv, Clean, LogCopied, Shown, Cached, CachedIn, Has, Buf, Pos

\* Nobody is down, and nothing shown of the disk or the cache changes.
LEMMA SameView ==
  ASSUME ~IsDown, ~IsDown', \A b \in Data : Shown(b)' = Shown(b)
  PROVE  View' = View
<1>1. ~Down /\ ~Down'
  BY Processes DEF Down, IsDown
<1> QED BY <1>1 DEF View

\* A step that changes neither the disk nor what the cache shows of it.
LEMMA ContentKept ==
  ASSUME ControlInv, BufferInv, ContentInv, ~panicked, ~IsDown, ~IsDown',
         UNCHANGED <<disk, lh>>, Pinned' = Pinned, \A b \in Block : Shown(b)' = Shown(b),
         \A p \in Process : pc'[p] \in {"have", "done"} => Buf(cache', blk'[p]).valid,
         Committing("write_log")' => tail' = 0 \/ (Committing("write_log") /\ tail' = tail),
         \A l \in {"write_head", "install_trans", "erase"} : Committing(l)' <=> Committing(l)
  PROVE  ContentInv' /\ View' = View /\ Durable' = Durable
<1>1. /\ \A b \in Block : b \notin Pinned => Shown(b) = disk[b]
      /\ Committing("write_log") =>
           \A k \in 1 .. Len(lh) : k <= tail => disk[LogBlock(k)] = Shown(lh[k])
      /\ Committing("write_head") \/ Committing("install_trans") \/ Committing("erase") =>
           \A k \in 1 .. Len(lh) : k <= Len(lh) => disk[LogBlock(k)] = Shown(lh[k])
      /\ Committing("install_trans") \/ Committing("erase") => disk[Head0] = lh
      /\ ~(Committing("install_trans") \/ Committing("erase") \/ IsDown) => disk[Head0] = <<>>
  BY ContentFacts
<1>2. IsHeader(lh) /\ Len(lh) \in Nat /\ \A k \in 1 .. Len(lh) : lh[k] \in Block
  <2>1. IsHeader(lh)
    BY DEF ControlInv, LogShape
  <2>2. Len(lh) \in Nat /\ \A k \in 1 .. Len(lh) : lh[k] \in Data
    BY <2>1 DEF IsHeader
  <2> QED BY <2>1, <2>2, BlockKinds
<1>3. \A k \in 1 .. Len(lh) : CachedIn(disk', cache', lh'[k]) = Shown(lh[k])
  BY <1>2 DEF Shown
<1>4. Committing("write_log")' =>
        \A k \in 1 .. Len(lh') : k <= tail' => disk'[LogBlock(k)] = CachedIn(disk', cache', lh'[k])
  BY <1>1, <1>2, <1>3
<1>5. (Committing("write_head") \/ Committing("install_trans") \/ Committing("erase"))' =>
        \A k \in 1 .. Len(lh') : disk'[LogBlock(k)] = CachedIn(disk', cache', lh'[k])
  BY <1>1, <1>2, <1>3
<1>6. ContentInv'
  BY <1>1, <1>4, <1>5, ContentNext
<1>7. View' = View
  BY SameView, BlockKinds
<1>8. Durable' = Durable
  BY DEF Durable
<1> QED BY <1>6, <1>7, <1>8

LEMMA start_opContent ==
  ASSUME ControlInv, BufferInv, ContentInv, NEW p \in Process, start_op(p)
  PROVE  ContentInv' /\ View' = View /\ Durable' = Durable
<1>1. /\ UNCHANGED <<disk, cache, lh, tail, blk, panicked>> /\ ~panicked /\ pc[p] = "idle"
      /\ pc' = [pc EXCEPT ![p] = "begin"]
  BY DEF start_op, At, Goto, logvars
<1>2. ~IsDown /\ ~IsDown'
  BY <1>1, Moves DEF ControlInv, IsDown, Types
<1>3. \A l \in CommitPc : Committing(l)' <=> Committing(l)
  BY <1>1 DEF Committing, CommitPc, ControlInv, Types
<1>4. /\ Pinned' = Pinned /\ \A b \in Block : Shown(b)' = Shown(b)
  BY <1>1, <1>2, <1>3 DEF Pinned, Unpinned, CommitPc, Shown
<1>5. \A q \in Process : pc'[q] \in {"have", "done"} => Buf(cache', blk'[q]).valid
  BY <1>1, ContentFacts DEF ControlInv, Types
<1> QED BY <1>1, <1>2, <1>3, <1>4, <1>5, ContentKept DEF CommitPc

LEMMA begin_opContent ==
  ASSUME ControlInv, BufferInv, ContentInv, NEW p \in Process, begin_op(p)
  PROVE  ContentInv' /\ View' = View /\ Durable' = Durable
<1>1. /\ UNCHANGED <<disk, cache, lh, tail, blk, panicked>> /\ ~panicked /\ pc[p] = "begin"
      /\ pc' = [pc EXCEPT ![p] = "asleep"] \/ pc' = [pc EXCEPT ![p] = "op"]
  BY DEF begin_op, At, Goto
<1>2. ~IsDown /\ ~IsDown'
  BY <1>1, Moves DEF ControlInv, IsDown, Types
<1>3. \A l \in CommitPc : Committing(l)' <=> Committing(l)
  BY <1>1 DEF Committing, CommitPc, ControlInv, Types
<1>4. /\ Pinned' = Pinned /\ \A b \in Block : Shown(b)' = Shown(b)
  BY <1>1, <1>2, <1>3 DEF Pinned, Unpinned, CommitPc, Shown
<1>5. \A q \in Process : pc'[q] \in {"have", "done"} => Buf(cache', blk'[q]).valid
  BY <1>1, ContentFacts DEF ControlInv, Types
<1> QED BY <1>1, <1>2, <1>3, <1>4, <1>5, ContentKept DEF CommitPc

LEMMA end_opContent ==
  ASSUME ControlInv, BufferInv, ContentInv, NEW p \in Process, end_op(p)
  PROVE  ContentInv' /\ View' = View /\ Durable' = Durable
<1>1. /\ UNCHANGED <<disk, cache, lh, blk>> /\ ~panicked /\ pc[p] = "op" /\ ~committing
      /\ tail' = 0 \/ tail' = tail
  BY end_opFits DEF end_op, At
<1>2. /\ pc'[p] \in {"idle", "committed", "write_log"}
      /\ \A q \in Process \ {p} : pc'[q] = pc[q] \/ (pc[q] = "asleep" /\ pc'[q] = "begin")
      /\ pc'[p] = "write_log" => tail' = 0
  BY DEF end_op, Goto, Woken, ControlInv, Types
<1>3. ~IsDown /\ ~IsDown'
  BY <1>1, <1>2, Moves DEF ControlInv, IsDown
<1>4. \A l \in {"write_head", "install_trans", "erase"} : ~Committing(l)' /\ ~Committing(l)
  BY <1>1, <1>2 DEF Committing, CommitPc, ControlInv, OneCommitter
<1>5. Committing("write_log")' => tail' = 0
  BY <1>1, <1>2 DEF Committing, CommitPc, ControlInv, OneCommitter
<1>6. Pinned' = Pinned /\ \A b \in Block : Shown(b)' = Shown(b)
  BY <1>1, <1>3, <1>4 DEF Pinned, Unpinned, Shown
<1>7. \A q \in Process : pc'[q] \in {"have", "done"} => Buf(cache', blk'[q]).valid
  BY <1>1, <1>2, ContentFacts
<1> QED BY <1>1, <1>3, <1>4, <1>5, <1>6, <1>7, ContentKept

LEMMA committedContent ==
  ASSUME ControlInv, BufferInv, ContentInv, NEW p \in Process, committed(p)
  PROVE  ContentInv' /\ View' = View /\ Durable' = Durable
<1>1. /\ UNCHANGED <<disk, cache, lh, blk, panicked>> /\ ~panicked /\ pc[p] = "committed"
  BY DEF committed, At
<1>2. /\ pc'[p] = "idle"
      /\ \A q \in Process \ {p} : pc'[q] = pc[q] \/ (pc[q] = "asleep" /\ pc'[q] = "begin")
  BY DEF committed, Woken, ControlInv, Types
<1>3. ~IsDown /\ ~IsDown'
  BY <1>1, <1>2, Moves DEF ControlInv, IsDown
<1>4. \A l \in {"write_log", "write_head", "install_trans", "erase"} :
        ~Committing(l)' /\ ~Committing(l)
  BY <1>1, <1>2 DEF Committing, CommitPc, ControlInv, OneCommitter
<1>5. Pinned' = Pinned /\ \A b \in Block : Shown(b)' = Shown(b)
  BY <1>1, <1>3, <1>4 DEF Pinned, Unpinned, Shown
<1>6. \A q \in Process : pc'[q] \in {"have", "done"} => Buf(cache', blk'[q]).valid
  BY <1>1, <1>2, ContentFacts
<1> QED BY <1>1, <1>3, <1>4, <1>5, <1>6, ContentKept

\* Those who hold a buffer still hold a valid one.
LEMMA StillValid ==
  ASSUME ControlInv, BufferInv, ContentInv, ~panicked, ValidKept(cache, cache'),
         NEW q \in Process, pc[q] \in {"have", "done"}
  PROVE  Buf(cache', blk[q]).valid
<1>1. blk[q] \in Block /\ Ref(cache, blk[q]) > 0
  BY UsesBuffer DEF UsePc
<1>2. Buf(cache, blk[q]).valid
  BY ContentFacts
<1> QED BY <1>1, <1>2 DEF ValidKept

LEMMA BreadContent ==
  ASSUME ControlInv, BufferInv, ContentInv, NEW p \in Process, NEW b \in Data,
         bread_op(p, b) \/ bread_outside(p, b), ~panicked'
  PROVE  ContentInv' /\ View' = View /\ Durable' = Durable
<1>1. /\ ~panicked /\ pc[p] \in {"idle", "op"} /\ ~NoBuffer(cache, b)
      /\ UNCHANGED <<disk, lh, tail>> /\ b \in Block
      /\ cache' = bget(cache, b) /\ pc' = [pc EXCEPT ![p] = "want"] /\ blk' = [blk EXCEPT ![p] = b]
  BY BlockKinds DEF bread_op, bread_outside, Bread, At, logvars, Goto
<1>2. ~IsDown /\ ~IsDown'
  BY <1>1, Moves DEF ControlInv, IsDown, Types
<1>3. \A l \in CommitPc : Committing(l)' <=> Committing(l)
  BY <1>1 DEF Committing, CommitPc, ControlInv, Types
<1>4. Pinned' = Pinned
  BY <1>1, <1>2, <1>3 DEF Pinned, Unpinned, CommitPc
<1>5. Faithful(disk, cache) /\ CacheOK(cache)
  BY <1>1, ContentFacts DEF BufferInv
<1>6. ValidKept(cache, cache') /\ \A a \in Block : Shown(a)' = Shown(a)
  <2>1. ValidKept(cache, cache')
        /\ \A a \in Block : CachedIn(disk, cache', a) = CachedIn(disk, cache, a)
    BY <1>1, <1>5, BgetContent
  <2> QED BY <1>1, <2>1 DEF Shown
<1>7. \A q \in Process : pc'[q] \in {"have", "done"} => Buf(cache', blk'[q]).valid
  <2> SUFFICES ASSUME NEW q \in Process, pc'[q] \in {"have", "done"}
               PROVE  Buf(cache', blk'[q]).valid
    OBVIOUS
  <2>1. q # p /\ pc'[q] = pc[q] /\ blk'[q] = blk[q]
    BY <1>1 DEF ControlInv, Types
  <2> QED BY <1>1, <1>6, <2>1, StillValid
<1> QED BY <1>1, <1>2, <1>3, <1>4, <1>6, <1>7, ContentKept DEF CommitPc

LEMMA acquiresleepContent ==
  ASSUME ControlInv, BufferInv, ContentInv, NEW p \in Process, acquiresleep(p)
  PROVE  ContentInv' /\ View' = View /\ Durable' = Durable
<1> PICK b : b = blk[p]
  OBVIOUS
<1>1. /\ UNCHANGED <<disk, lh, tail, blk>> /\ ~panicked /\ pc[p] = "want"
      /\ pc' = [pc EXCEPT ![p] = "have"] /\ cache' = Locked(cache, b, p)
  BY DEF acquiresleep, At, Goto, logvars
<1>2. b \in Block /\ Has(cache, b) /\ CacheOK(cache) /\ ~IsDown
  BY <1>1, UsesBuffer DEF UsePc
<1>3. ~IsDown'
  BY <1>1, <1>2 DEF IsDown, ControlInv, Types
<1>4. \A l \in CommitPc : Committing(l)' <=> Committing(l)
  BY <1>1 DEF Committing, CommitPc, ControlInv, Types
<1>5. Pinned' = Pinned
  BY <1>1, <1>2, <1>3, <1>4 DEF Pinned, Unpinned, CommitPc
<1>6. Faithful(disk, cache)
  BY <1>1, ContentFacts
<1>7. PICK u : Becomes(cache, cache', b, u) /\ u.valid /\ u.data = CachedIn(disk, cache, b)
  BY <1>1, <1>2, LockedOK
<1>8. Evicts(cache, cache', b, u)
  BY <1>2, <1>7, BecomesEvicts
<1>9. ValidKept(cache, cache') /\ Buf(cache', b).valid
  BY <1>2, <1>7, <1>8, EvictsValid DEF Becomes
<1>10. \A a \in Block : Shown(a)' = Shown(a)
  <2>1. \A a \in Block : CachedIn(disk, cache', a) = CachedIn(disk, cache, a)
    BY <1>2, <1>6, <1>7, <1>8, EvictContent
  <2> QED BY <1>1, <2>1 DEF Shown
<1>11. \A q \in Process : pc'[q] \in {"have", "done"} => Buf(cache', blk'[q]).valid
  <2> SUFFICES ASSUME NEW q \in Process, pc'[q] \in {"have", "done"}
               PROVE  Buf(cache', blk'[q]).valid
    OBVIOUS
  <2>1. CASE q = p
    BY <1>1, <1>9, <2>1
  <2>2. CASE q # p
    <3>1. pc'[q] = pc[q] /\ blk'[q] = blk[q]
      BY <1>1, <2>2 DEF ControlInv, Types
    <3> QED BY <1>1, <1>9, <3>1, StillValid
  <2> QED BY <2>1, <2>2
<1> QED BY <1>1, <1>2, <1>3, <1>4, <1>5, <1>10, <1>11, ContentKept DEF CommitPc

LEMMA releaseContent ==
  ASSUME ControlInv, BufferInv, ContentInv, NEW p \in Process, release(p)
  PROVE  ContentInv' /\ View' = View /\ Durable' = Durable
<1> PICK b : b = blk[p]
  OBVIOUS
<1>1. /\ UNCHANGED <<disk, lh, tail, blk>> /\ ~panicked /\ pc[p] \in {"done", "have"}
      /\ pc' = [pc EXCEPT ![p] = pc'[p]] /\ pc'[p] \in {"idle", "op"}
      /\ cache' = brelse(cache, b)
  BY DEF release, At, Goto, logvars, ControlInv, Types
<1>2. b \in Block /\ Ref(cache, b) > 0 /\ CacheOK(cache) /\ ~IsDown
  BY <1>1, UsesBuffer DEF UsePc
<1>3. ~IsDown' /\ \A q \in Process \ {p} : pc'[q] = pc[q]
  BY <1>1, <1>2 DEF IsDown, ControlInv, Types
<1>4. \A l \in CommitPc : Committing(l)' <=> Committing(l)
  BY <1>1, <1>3 DEF Committing, CommitPc, ControlInv, Types
<1>5. Pinned' = Pinned
  BY <1>1, <1>2, <1>3, <1>4 DEF Pinned, Unpinned, CommitPc
<1>6. Faithful(disk, cache)
  BY <1>1, ContentFacts
<1>7. ValidKept(cache, cache') /\ \A a \in Block : Shown(a)' = Shown(a)
  <2>1. ValidKept(cache, cache')
        /\ \A a \in Block : CachedIn(disk, cache', a) = CachedIn(disk, cache, a)
    BY <1>1, <1>2, <1>6, BrelseContent
  <2> QED BY <1>1, <2>1 DEF Shown
<1>8. \A q \in Process : pc'[q] \in {"have", "done"} => Buf(cache', blk'[q]).valid
  BY <1>1, <1>3, <1>7, StillValid
<1> QED BY <1>1, <1>2, <1>3, <1>4, <1>5, <1>7, <1>8, ContentKept DEF CommitPc

LEMMA log_writeContent ==
  ASSUME ControlInv, BufferInv, ContentInv, NEW p \in Process, log_write(p)
  PROVE  /\ ContentInv' /\ Durable' = Durable
         /\ blk[p] \in Data /\ View' = [View EXCEPT ![blk[p]] = op[p]]
<1> PICK b : b = blk[p]
  OBVIOUS
<1> PICK v : v = op[p]
  OBVIOUS
<1> PICK c1 : c1 = Changed(cache, b, v)
  OBVIOUS
<1> DEFINE old == \E k \in 1 .. Len(lh) : lh[k] = b
<1>1. /\ UNCHANGED <<disk, tail, blk>> /\ ~panicked /\ ~panicked' /\ pc[p] = "have"
      /\ pc' = [pc EXCEPT ![p] = "done"] /\ ~committing
      /\ Len(lh) \in Nat /\ Len(lh) < LOGBLOCKS /\ outstanding >= 1
  BY log_writeFits DEF log_write, At, Goto
<1>2. /\ b \in Block /\ b \in Data /\ Has(cache, b) /\ CacheOK(cache) /\ ~IsDown
      /\ Buf(cache, b).valid
  BY <1>1, UsesBuffer, ContentFacts DEF UsePc
<1>3. IsHeader(lh) /\ lh \in Seq(Data) /\ DOMAIN lh = 1 .. Len(lh)
  BY <1>2 DEF ControlInv, LogShape, IsHeader
<1>4. /\ lh' = IF old THEN lh ELSE Append(lh, b)
      /\ cache' = IF old THEN c1 ELSE bpin(c1, b)
  BY <1>1, <1>3 DEF log_write, Changed
<1>5. PICK u : Becomes(cache, cache', b, u) /\ u.valid /\ u.data = v
  <2> DEFINE c2 == bpin(c1, b)
  <2>0. /\ \E u : /\ Becomes(cache, c1, b, u) /\ u.refcnt = Ref(cache, b)
                  /\ (u.valid <=> Buf(cache, b).valid) /\ u.data = v
        /\ \E u : /\ Becomes(cache, c2, b, u) /\ u.refcnt = Ref(cache, b) + 1
                  /\ (u.valid <=> Buf(cache, b).valid) /\ u.data = v
    BY <1>2, WrittenOK
  <2>1. /\ \E u : Becomes(cache, c1, b, u) /\ u.valid /\ u.data = v
        /\ \E u : Becomes(cache, c2, b, u) /\ u.valid /\ u.data = v
    BY <1>2, <2>0
  <2> HIDE DEF c2
  <2>2. CASE old
    BY <2>1, <2>2, <1>4
  <2>3. CASE ~old
    <3>1. cache' = c2
      BY <2>3, <1>4 DEF c2
    <3> QED BY <2>1, <2>3, <3>1
  <2> QED BY <2>2, <2>3
<1>6. Evicts(cache, cache', b, u) /\ ValidKept(cache, cache')
  <2>1. Evicts(cache, cache', b, u)
    BY <1>2, <1>5, BecomesEvicts
  <2> QED BY <1>2, <1>5, <2>1, EvictsValid
<1>7. ~IsDown'
  BY <1>1, <1>2 DEF IsDown, ControlInv, Types
<1>8. \A l \in CommitPc : ~Committing(l)' /\ ~Committing(l)
  BY <1>1 DEF Committing, CommitPc, ControlInv, Types, OneCommitter
<1>9. Pinned \cup {b} \subseteq Pinned'
  <2>1. /\ Pinned = {a \in Data : \E k \in 1 .. Len(lh) : lh[k] = a}
        /\ Pinned' = {a \in Data : \E k \in 1 .. Len(lh') : lh'[k] = a}
    BY <1>2, <1>7, <1>8 DEF Pinned, Unpinned, CommitPc
  <2>2. CASE old
    BY <2>1, <2>2, <1>2, <1>4
  <2>3. CASE ~old
    <3>1. /\ Len(lh') = Len(lh) + 1 /\ lh'[Len(lh) + 1] = b
          /\ \A k \in 1 .. Len(lh) : lh'[k] = lh[k]
      BY <1>2, <1>3, <1>4, <2>3, AppendProperties
    <3>2. \A a \in Data : (\E k \in 1 .. Len(lh') : lh'[k] = a) <=>
                          (a = b \/ \E k \in 1 .. Len(lh) : lh[k] = a)
      BY <1>1, <3>1
    <3> QED BY <1>2, <2>1, <3>2
  <2> QED BY <2>2, <2>3
<1>10. Shown(b)' = v /\ \A a \in Block \ {b} : Shown(a)' = Shown(a)
  <2>1. Faithful(disk, cache)
    BY <1>1, ContentFacts
  <2>2. /\ \A a \in Block \ {b} : CachedIn(disk, cache', a) = CachedIn(disk, cache, a)
        /\ CachedIn(disk, cache', b) = v
    BY <1>2, <1>5, <1>6, <2>1, EvictContent
  <2> QED BY <1>1, <2>2 DEF Shown
<1>11. disk[Head0] = <<>>
  BY <1>1, <1>2, <1>8, ContentFacts DEF CommitPc
<1>12. ContentInv'
  <2>1. \A q \in Process : pc'[q] \in {"have", "done"} => Buf(cache', blk'[q]).valid
    <3> SUFFICES ASSUME NEW q \in Process, pc'[q] \in {"have", "done"}
                 PROVE  Buf(cache', blk'[q]).valid
      OBVIOUS
    <3>1. pc[q] \in {"have", "done"} /\ blk'[q] = blk[q]
      BY <1>1 DEF ControlInv, Types
    <3> QED BY <1>1, <1>6, <3>1, StillValid
  <2>2. \A a \in Block : a \notin Pinned' => Shown(a)' = disk'[a]
    <3>1. \A a \in Block : a \notin Pinned => Shown(a) = disk[a]
      BY <1>1, ContentFacts
    <3> QED BY <1>1, <1>9, <1>10, <3>1
  <2> QED BY <1>1, <1>7, <1>8, <1>11, <2>1, <2>2, ContentNext DEF CommitPc
<1>13. View' = [View EXCEPT ![b] = v]
  <2>1. ~Down /\ ~Down'
    BY <1>2, <1>7, Processes DEF Down, IsDown
  <2>2. View = [a \in Data |-> Shown(a)] /\ View' = [a \in Data |-> Shown(a)']
    BY <2>1 DEF View
  <2> QED BY <1>2, <1>10, <2>2, BlockKinds
<1>14. Durable' = Durable
  BY <1>1 DEF Durable
<1> QED BY <1>2, <1>12, <1>13, <1>14

-----------------------------------------------------------------------------
(* The steps of the commit *)

\* The header names blocks with places in the log.
LEMMA HeaderBlocks ==
  ASSUME NEW h, IsHeader(h)
  PROVE  /\ Len(h) \in Nat /\ Len(h) <= LOGBLOCKS
         /\ \A k \in 1 .. Len(h) : /\ h[k] \in Data /\ h[k] \in Block /\ h[k] # Head0
                                   /\ k \in 1 .. LOGBLOCKS /\ LogBlock(k) \in Block
                                   /\ LogBlock(k) \notin Data /\ LogBlock(k) # Head0
         /\ \A j, k \in 1 .. Len(h) : (LogBlock(j) = LogBlock(k) => j = k) /\ (h[j] = h[k] => j = k)
<1>1. /\ Len(h) \in Nat /\ Len(h) <= LOGBLOCKS /\ \A k \in 1 .. Len(h) : h[k] \in Data
      /\ \A j, k \in 1 .. Len(h) : h[j] = h[k] => j = k
  BY DEF IsHeader
<1>2. \A k \in 1 .. Len(h) : k \in 1 .. LOGBLOCKS
  BY <1>1, Constants
<1> QED BY <1>1, <1>2, BlockKinds

LEMMA write_logContent ==
  ASSUME ControlInv, BufferInv, ContentInv, NEW p \in Process, write_log(p), ~panicked'
  PROVE  ContentInv' /\ View' = View /\ Durable' = Durable
<1> PICK from : from = lh[tail + 1]
  OBVIOUS
<1> PICK to : to = LogBlock(tail + 1)
  OBVIOUS
<1> PICK v : v = Cached(cache, from)
  OBVIOUS
<1> PICK l : l = IF pc' = pc THEN "write_log" ELSE "write_head"
  OBVIOUS
<1>1. /\ from \in Data /\ from \in Block /\ to \in Block /\ to # from /\ to \notin Data
      /\ from \in Pinned /\ Ref(cache, from) > 0 /\ CacheOK(cache)
      /\ ~NoBuffer(cache, to) /\ disk' = [disk EXCEPT ![to] = v]
      /\ cache' = Copied(Used(bget(cache, to), from, v), to, v)
  BY write_logTurn
<1>2. /\ pc[p] = "write_log" /\ ~panicked /\ UNCHANGED <<lh, blk>> /\ IsHeader(lh) /\ tail \in Nat
      /\ tail + 1 \in 1 .. Len(lh)
  BY CommitAt DEF write_log, At, Copy, CommitPc
<1>3. pc' = [pc EXCEPT ![p] = l] /\ l \in {"write_log", "write_head"}
      /\ (l = "write_log" => tail' = tail + 1) /\ (l = "write_head" => tail + 1 = Len(lh))
  <2>1. Turn(from, to)
    BY <1>2 DEF write_log, Copy
  <2>2. IF tail + 1 < Len(lh) THEN tail' = tail + 1 /\ UNCHANGED pc
        ELSE pc' = [pc EXCEPT ![p] = "write_head"]
    BY <2>1 DEF write_log, Copy, Goto
  <2> QED BY <1>2, <2>2 DEF ControlInv, Types
<1>4. ~IsDown /\ ~IsDown'
  BY <1>2, <1>3, CommitUsers DEF CommitPc
<1>5. /\ \A k \in CommitPc : Committing(k) => k = "write_log"
      /\ \A k \in CommitPc : Committing(k)' => k = l
      /\ Committing("write_log")
  BY <1>2, <1>3, CommitStep DEF CommitPc
<1>6. /\ Faithful(disk, cache) /\ disk[Head0] = <<>>
      /\ \A b \in Block : b \notin Pinned => Shown(b) = disk[b]
      /\ \A k \in 1 .. Len(lh) : k <= tail => disk[LogBlock(k)] = Shown(lh[k])
  BY <1>2, <1>4, <1>5, ContentFacts DEF CommitPc
<1>7. /\ ValidKept(cache, cache')
      /\ CachedIn(disk, cache', from) = v /\ CachedIn(disk, cache', to) = v
      /\ \A a \in Block \ {from, to} : CachedIn(disk, cache', a) = CachedIn(disk, cache, a)
  BY <1>1, <1>6, CopyCache
<1>8. /\ disk' = [b \in Block |-> IF b = to THEN v ELSE disk[b]]
      /\ to # Head0
  <2>1. disk = [b \in Block |-> disk[b]]
    BY <1>2 DEF BufferInv, DiskOK
  <2> QED BY <1>1, <1>2, <2>1, HeaderBlocks
<1>9. v = Shown(from)
  BY CachedShown
<1>10. /\ Shown(to)' = v /\ disk'[to] = v
       /\ \A a \in Block \ {to} : Shown(a)' = Shown(a) /\ disk'[a] = disk[a]
  <2>1. Has(cache', to) /\ Buf(cache', to).valid => Buf(cache', to).data = v
    BY <1>7 DEF CachedIn
  <2>2. disk'[to] = v /\ \A a \in Block \ {to} : disk'[a] = disk[a]
    BY <1>1, <1>8
  <2>3. CachedIn(disk', cache', to) = v
    BY <2>1, <2>2 DEF CachedIn
  <2>4. \A a \in Block \ {to} : CachedIn(disk', cache', a) = CachedIn(disk, cache', a)
    BY <2>2 DEF CachedIn
  <2>5. \A a \in Block \ {to} : CachedIn(disk, cache', a) = CachedIn(disk, cache, a)
    BY <1>1, <1>7, <1>9 DEF Shown
  <2> QED BY <2>2, <2>3, <2>4, <2>5 DEF Shown
<1>11. Pinned' = Pinned
  BY <1>2, <1>3, <1>4, <1>5 DEF Pinned, Unpinned, CommitPc
<1>12. \A q \in Process : pc'[q] \in {"have", "done"} => Buf(cache', blk'[q]).valid
  <2> SUFFICES ASSUME NEW q \in Process, pc'[q] \in {"have", "done"}
               PROVE  Buf(cache', blk'[q]).valid
    OBVIOUS
  <2>1. pc[q] \in {"have", "done"} /\ blk'[q] = blk[q]
    BY <1>2, <1>3 DEF ControlInv, Types
  <2> QED BY <1>2, <1>7, <2>1, StillValid
<1>13. \A b \in Block : b \notin Pinned' => Shown(b)' = disk'[b]
  BY <1>6, <1>10, <1>11
<1>14. \A k \in 1 .. Len(lh) : k <= tail + 1 => disk'[LogBlock(k)] = CachedIn(disk', cache', lh[k])
  <2> SUFFICES ASSUME NEW k \in 1 .. Len(lh), k <= tail + 1
               PROVE  disk'[LogBlock(k)] = CachedIn(disk', cache', lh[k])
    OBVIOUS
  <2>1. lh[k] \in Block /\ lh[k] # to /\ LogBlock(k) \in Block
    BY <1>1, <1>2, HeaderBlocks
  <2>2. CachedIn(disk', cache', lh[k]) = Shown(lh[k])
    BY <2>1, <1>10 DEF Shown
  <2>3. CASE k = tail + 1
    BY <2>2, <2>3, <1>9, <1>10
  <2>4. CASE k # tail + 1
    <3>1. LogBlock(k) # to /\ k <= tail
      BY <1>2, <2>4, HeaderBlocks
    <3> QED BY <1>6, <1>10, <2>1, <2>2, <3>1
  <2> QED BY <2>3, <2>4
<1>15. ContentInv'
  <2>1. disk'[Head0] = <<>>
    BY <1>6, <1>8, <1>10, BlockKinds
  <2>2. Committing("write_log")' =>
          \A k \in 1 .. Len(lh') : k <= tail' => disk'[LogBlock(k)] = CachedIn(disk', cache', lh'[k])
    BY <1>2, <1>3, <1>5, <1>14 DEF CommitPc
  <2>3. (Committing("write_head") \/ Committing("install_trans") \/ Committing("erase"))' =>
          \A k \in 1 .. Len(lh') : disk'[LogBlock(k)] = CachedIn(disk', cache', lh'[k])
    <3>1. SUFFICES ASSUME l = "write_head"
                   PROVE  \A k \in 1 .. Len(lh) : disk'[LogBlock(k)] = CachedIn(disk', cache', lh[k])
      BY <1>2, <1>3, <1>5 DEF CommitPc
    <3>2. \A k \in 1 .. Len(lh) : k <= tail + 1
      BY <3>1, <1>2, <1>3
    <3> QED BY <1>14, <3>2
  <2>4. ~Committing("install_trans")' /\ ~Committing("erase")'
    BY <1>3, <1>5 DEF CommitPc
  <2> QED BY <1>4, <1>12, <1>13, <2>1, <2>2, <2>3, <2>4, ContentNext
<1>16. View' = View
  <2>1. \A a \in Data : Shown(a)' = Shown(a)
    BY <1>1, <1>10, BlockKinds
  <2> QED BY <1>4, <2>1, SameView
<1>17. Durable' = Durable
  <2>1. disk'[Head0] = disk[Head0] /\ \A b \in Data : disk'[b] = disk[b]
    BY <1>1, <1>8, <1>10, BlockKinds
  <2>2. Durable = [b \in Data |-> disk[b]] /\ Image(disk') = [b \in Data |-> disk'[b]]
    BY <1>6, <2>1, ImageClean, DurableImage
  <2>3. Durable' = Image(disk')
    BY DEF Durable, Image
  <2> QED BY <2>1, <2>2, <2>3
<1> QED BY <1>15, <1>16, <1>17

\* The header block written, in the cache and on the disk.
LEMMA HeadContent ==
  ASSUME BufferInv, ContentInv, ~panicked, NEW h, ~NoBuffer(cache, Head0),
         disk' = [disk EXCEPT ![Head0] = h], cache' = Used(cache, Head0, h)
  PROVE  /\ disk'[Head0] = h /\ \A a \in Block \ {Head0} : disk'[a] = disk[a]
         /\ Shown(Head0)' = h /\ \A a \in Block \ {Head0} : Shown(a)' = Shown(a)
         /\ ValidKept(cache, cache')
<1>1. Head0 \in Block /\ CacheOK(cache) /\ Faithful(disk, cache)
  BY BlockKinds, ContentFacts DEF BufferInv
<1>2. disk'[Head0] = h /\ \A a \in Block \ {Head0} : disk'[a] = disk[a]
  BY <1>1 DEF BufferInv, DiskOK
<1>3. /\ \A a \in Block \ {Head0} : CachedIn(disk, cache', a) = CachedIn(disk, cache, a)
      /\ CachedIn(disk, cache', Head0) = h
  BY <1>1, UsedContent
<1>4. ValidKept(cache, cache')
  BY <1>1, UsedValid
<1>5. CachedIn(disk', cache', Head0) = h
  BY <1>2, <1>3 DEF CachedIn
<1>6. \A a \in Block \ {Head0} : CachedIn(disk', cache', a) = CachedIn(disk, cache', a)
  BY <1>2 DEF CachedIn
<1> QED BY <1>2, <1>3, <1>4, <1>5, <1>6 DEF Shown

\* Writing the header is the commit: what a crash leaves becomes what is seen.
LEMMA write_headContent ==
  ASSUME ControlInv, BufferInv, ContentInv, NEW p \in Process, write_head(p), ~panicked'
  PROVE  ContentInv' /\ View' = View /\ Durable' = View /\ Active = {}
<1>1. /\ pc[p] = "write_head" /\ ~panicked /\ UNCHANGED <<lh, tail, blk>>
      /\ ~NoBuffer(cache, Head0) /\ disk' = [disk EXCEPT ![Head0] = lh]
      /\ cache' = Used(cache, Head0, lh) /\ pc' = [pc EXCEPT ![p] = "install_trans"]
  BY DEF write_head, WriteHead, At, Goto, logvars
<1>2. IsHeader(lh) /\ tail = 0 /\ Len(lh) \in Nat /\ Active = {}
  BY <1>1, CommitAt DEF CommitPc
<1>3. ~IsDown /\ ~IsDown'
  BY <1>1, CommitUsers DEF CommitPc
<1>4. /\ \A k \in CommitPc : Committing(k) => k = "write_head"
      /\ \A k \in CommitPc : Committing(k)' => k = "install_trans"
      /\ Committing("write_head")
  BY <1>1, CommitStep DEF CommitPc
<1>5. /\ \A b \in Block : b \notin Pinned => Shown(b) = disk[b]
      /\ \A k \in 1 .. Len(lh) : disk[LogBlock(k)] = Shown(lh[k])
  BY <1>1, <1>2, <1>4, ContentFacts
<1>6. /\ disk'[Head0] = lh /\ \A a \in Block \ {Head0} : disk'[a] = disk[a]
      /\ Shown(Head0)' = lh /\ \A a \in Block \ {Head0} : Shown(a)' = Shown(a)
      /\ ValidKept(cache, cache')
  BY <1>1, HeadContent
<1>7. Pinned' = Pinned /\ Pinned = {b \in Data : \E k \in 1 .. Len(lh) : lh[k] = b}
  BY <1>1, <1>2, <1>3, <1>4 DEF Pinned, Unpinned, CommitPc
<1>8. \A q \in Process : pc'[q] \in {"have", "done"} => Buf(cache', blk'[q]).valid
  <2> SUFFICES ASSUME NEW q \in Process, pc'[q] \in {"have", "done"}
               PROVE  Buf(cache', blk'[q]).valid
    OBVIOUS
  <2>1. pc[q] \in {"have", "done"} /\ blk'[q] = blk[q]
    BY <1>1 DEF ControlInv, Types
  <2> QED BY <1>1, <1>6, <2>1, StillValid
<1>9. \A b \in Block : b \notin Pinned' => Shown(b)' = disk'[b]
  BY <1>5, <1>6, <1>7
<1>10. \A k \in 1 .. Len(lh) : disk'[LogBlock(k)] = CachedIn(disk', cache', lh[k])
  <2> SUFFICES ASSUME NEW k \in 1 .. Len(lh)
               PROVE  disk'[LogBlock(k)] = CachedIn(disk', cache', lh[k])
    OBVIOUS
  <2>1. /\ lh[k] \in Block \ {Head0} /\ LogBlock(k) \in Block \ {Head0}
    BY <1>2, HeaderBlocks
  <2>2. CachedIn(disk', cache', lh[k]) = Shown(lh[k])
    BY <2>1, <1>6 DEF Shown
  <2> QED BY <1>5, <1>6, <2>1, <2>2
<1>11. ContentInv'
  <2>1. ~Committing("write_log")'
    BY <1>4 DEF CommitPc
  <2>2. Committing("install_trans")'
    BY <1>1, CommitStep DEF CommitPc
  <2>3. \A k \in 1 .. Len(lh') : disk'[LogBlock(k)] = CachedIn(disk', cache', lh'[k])
    BY <1>1, <1>10
  <2> QED BY <1>1, <1>3, <1>6, <1>8, <1>9, <2>1, <2>2, <2>3, ContentNext
<1>12. View' = View
  <2>1. \A a \in Data : Shown(a)' = Shown(a)
    BY <1>6, BlockKinds
  <2> QED BY <1>3, <2>1, SameView
<1>13. Durable' = View
  <2>1. View = [b \in Data |-> Shown(b)]
    BY <1>3, Processes DEF View, Down, IsDown
  <2>2. Durable' = Image(disk')
    BY DEF Durable, Image
  <2>3. ASSUME NEW b \in Data
        PROVE  Image(disk')[b] = Shown(b)
    <3>1. CASE \E k \in 1 .. Len(lh) : lh[k] = b
      <4>1. PICK k \in 1 .. Len(lh) : lh[k] = b
        BY <3>1
      <4>2. Image(disk')[lh[k]] = disk'[LogBlock(k)]
        BY <1>2, <1>6, ImageOf
      <4>3. LogBlock(k) \in Block \ {Head0}
        BY <1>2, HeaderBlocks
      <4> QED BY <1>5, <1>6, <4>1, <4>2, <4>3
    <3>2. CASE \A k \in 1 .. Len(lh) : lh[k] # b
      <4>1. Image(disk')[b] = disk'[b]
        BY <1>2, <1>6, <3>2, ImageOf
      <4>2. b \in Block \ {Head0} /\ b \notin Pinned
        BY <1>7, <3>2, BlockKinds
      <4> QED BY <1>5, <1>6, <4>1, <4>2
    <3> QED BY <3>1, <3>2
  <2>4. Image(disk') = [b \in Data |-> Image(disk')[b]]
    BY DEF Image
  <2> QED BY <2>1, <2>2, <2>3, <2>4
<1> QED BY <1>2, <1>11, <1>12, <1>13

\* Between the write of the header and its erasure, a crash leaves what is seen.
LEMMA CommittedImage ==
  ASSUME ControlInv, BufferInv, ContentInv, NEW p \in Process, ~panicked,
         pc[p] \in {"install_trans", "erase"}
  PROVE  Durable = [b \in Data |-> Shown(b)] /\ Durable = View
<1>1. Committing(pc[p]) /\ ~IsDown /\ IsHeader(lh)
  BY CommitAt DEF Committing, CommitPc
<1>2. /\ disk[Head0] = lh
      /\ \A b \in Block : b \notin Pinned => Shown(b) = disk[b]
      /\ \A k \in 1 .. Len(lh) : k <= Len(lh) => disk[LogBlock(k)] = Shown(lh[k])
  BY <1>1, ContentFacts
<1>3. ASSUME NEW b \in Data
      PROVE  Image(disk)[b] = Shown(b)
  <2>1. CASE \E k \in 1 .. Len(lh) : lh[k] = b
    <3>1. PICK k \in 1 .. Len(lh) : lh[k] = b
      BY <2>1
    <3>2. Image(disk)[lh[k]] = disk[LogBlock(k)]
      BY <1>1, <1>2, ImageOf
    <3>3. k <= Len(lh)
      BY <1>1, HeaderBlocks
    <3> QED BY <1>2, <3>1, <3>2, <3>3
  <2>2. CASE \A k \in 1 .. Len(lh) : lh[k] # b
    <3>1. Image(disk)[b] = disk[b]
      BY <1>1, <1>2, <2>2, ImageOf
    <3>2. b \in Block /\ b \notin Pinned
      BY <2>2, BlockKinds DEF Pinned
    <3> QED BY <1>2, <3>1, <3>2
  <2> QED BY <2>1, <2>2
<1>4. Durable = [b \in Data |-> Shown(b)]
  BY <1>1, <1>2, <1>3, ImageOf, DurableImage
<1>5. View = [b \in Data |-> Shown(b)]
  BY <1>1, Processes DEF View, Down, IsDown
<1> QED BY <1>4, <1>5

LEMMA install_transContent ==
  ASSUME ControlInv, BufferInv, ContentInv, NEW p \in Process, install_trans(p), ~panicked'
  PROVE  ContentInv' /\ View' = View /\ Durable' = Durable
<1> PICK b : b = lh[tail + 1]
  OBVIOUS
<1> PICK a : a = LogBlock(tail + 1)
  OBVIOUS
<1> PICK v : v = Cached(cache, a)
  OBVIOUS
<1>1. pc[p] = "install_trans" /\ ~panicked /\ UNCHANGED <<lh, blk>>
  BY DEF install_trans, At
<1>2. /\ tail + 1 \in 1 .. Len(lh) /\ IsHeader(lh) /\ Len(lh) \in Nat /\ ~IsDown
      /\ CacheOK(cache)
  BY <1>1, CommitAt DEF CommitPc, BufferInv
<1>3. b \in Data /\ b \in Block /\ a \in Block /\ a # b /\ a \notin Data /\ b # Head0
  BY <1>2, HeaderBlocks
<1>4. /\ b \in Pinned /\ Pinned' = Pinned \ {b}
      /\ pc'[p] \in {"install_trans", "erase"} /\ pc' = [pc EXCEPT ![p] = pc'[p]]
  BY install_transPins
<1>5. /\ ~NoBuffer(cache, a) /\ disk' = [disk EXCEPT ![b] = v]
      /\ cache' = bunpin(Used(Used(cache, a, v), b, v), b)
  BY DEF install_trans
<1>6. ~IsDown'
  BY <1>1, <1>4, CommitUsers DEF CommitPc
<1>7. Committing("install_trans") /\ ~Committing("write_log")'
      /\ (Committing("install_trans") \/ Committing("erase"))'
  <2> PICK l : l = pc'[p]
    OBVIOUS
  <2>1. pc' = [pc EXCEPT ![p] = l] /\ l \in CommitPc /\ l \in {"install_trans", "erase"}
    BY <1>4 DEF CommitPc
  <2>2. /\ \A k : Committing(k)' /\ k \in CommitPc => k = l
        /\ Committing(pc[p]) /\ Committing(l)'
    BY <1>1, <2>1, CommitStep DEF CommitPc
  <2> QED BY <1>1, <2>1, <2>2 DEF CommitPc
<1>8. /\ Faithful(disk, cache) /\ disk[Head0] = lh
      /\ \A c \in Block : c \notin Pinned => Shown(c) = disk[c]
      /\ \A k \in 1 .. Len(lh) : k <= Len(lh) => disk[LogBlock(k)] = Shown(lh[k])
  BY <1>1, <1>7, ContentFacts
<1>9. v = Shown(b) /\ v = disk[a] /\ v = Shown(a)
  <2>1. v = Shown(a)
    BY CachedShown
  <2>2. a \notin Pinned
    BY <1>3 DEF Pinned
  <2>3. disk[a] = Shown(b)
    BY <1>2, <1>8
  <2> QED BY <1>3, <1>8, <2>1, <2>2, <2>3
<1>10. Ref(cache, b) > 0
  BY <1>1, <1>4, Referenced
<1>11. /\ ValidKept(cache, cache') /\ CachedIn(disk, cache', b) = v
       /\ \A e \in Block \ {b} :
            CachedIn(disk, cache', e) = IF e = a THEN v ELSE CachedIn(disk, cache, e)
  <2>1. /\ CacheOK(cache') /\ Ref(cache', b) = Ref(cache, b) - 1
        /\ (\A e \in Block \ {b} : Ref(cache', e) = Ref(cache, e)) /\ ValidKept(cache, cache')
        /\ \A D : Faithful(D, cache) /\ v = D[a] =>
             /\ CachedIn(D, cache', b) = v
             /\ \A e \in Block \ {b} :
                  CachedIn(D, cache', e) = IF e = a THEN v ELSE CachedIn(D, cache, e)
    BY <1>2, <1>3, <1>5, <1>10, InstallCache
  <2>2. Faithful(disk, cache) /\ v = disk[a]
    BY <1>8, <1>9
  <2> QED BY <2>1, <2>2
<1>12. disk'[b] = v /\ \A c \in Block \ {b} : disk'[c] = disk[c]
  BY <1>1, <1>3, <1>5 DEF BufferInv, DiskOK
<1>13. \A c \in Block : Shown(c)' = Shown(c)
  <2>1. CachedIn(disk', cache', b) = v
    BY <1>11, <1>12 DEF CachedIn
  <2>2. \A c \in Block \ {b} : CachedIn(disk', cache', c) = CachedIn(disk, cache', c)
    BY <1>12 DEF CachedIn
  <2>3. \A c \in Block \ {b} : CachedIn(disk, cache', c) = Shown(c)
    BY <1>9, <1>11 DEF Shown
  <2> QED BY <1>9, <2>1, <2>2, <2>3 DEF Shown
<1>14. ContentInv'
  <2>1. \A q \in Process : pc'[q] \in {"have", "done"} => Buf(cache', blk'[q]).valid
    <3> SUFFICES ASSUME NEW q \in Process, pc'[q] \in {"have", "done"}
                 PROVE  Buf(cache', blk'[q]).valid
      OBVIOUS
    <3>1. pc[q] \in {"have", "done"} /\ blk'[q] = blk[q]
      BY <1>1, <1>4 DEF ControlInv, Types
    <3> QED BY <1>1, <1>11, <3>1, StillValid
  <2>2. \A c \in Block : c \notin Pinned' => Shown(c)' = disk'[c]
    BY <1>4, <1>8, <1>9, <1>12, <1>13
  <2>3. \A k \in 1 .. Len(lh') : disk'[LogBlock(k)] = CachedIn(disk', cache', lh'[k])
    <3> SUFFICES ASSUME NEW k \in 1 .. Len(lh)
                 PROVE  disk'[LogBlock(k)] = CachedIn(disk', cache', lh[k])
      BY <1>1
    <3>1. lh[k] \in Block /\ LogBlock(k) \in Block \ {b} /\ k <= Len(lh)
      BY <1>2, <1>3, HeaderBlocks
    <3>2. CachedIn(disk', cache', lh[k]) = Shown(lh[k])
      BY <3>1, <1>13 DEF Shown
    <3> QED BY <1>8, <1>12, <3>1, <3>2
  <2>4. disk'[Head0] = lh'
    BY <1>1, <1>3, <1>8, <1>12, BlockKinds
  <2> QED BY <1>6, <1>7, <2>1, <2>2, <2>3, <2>4, ContentNext
<1>15. View' = View
  BY <1>2, <1>6, <1>13, SameView, BlockKinds
<1>16. Durable' = Durable
  <2>1. Image(disk') = Image(disk)
    <3>1. disk'[Head0] = disk[Head0]
      BY <1>3, <1>12, BlockKinds
    <3>2. \A k \in 1 .. Len(disk[Head0]) : disk'[LogBlock(k)] = disk[LogBlock(k)]
      BY <1>2, <1>3, <1>8, <1>12, HeaderBlocks
    <3>3. \A c \in Data : (\A k \in 1 .. Len(disk[Head0]) : disk[Head0][k] # c) => disk'[c] = disk[c]
      BY <1>2, <1>8, <1>12, BlockKinds
    <3> QED BY <1>2, <1>8, <3>1, <3>2, <3>3, SameImage
  <2>2. Durable' = Image(disk')
    BY DEF Durable, Image
  <2> QED BY <2>1, <2>2, DurableImage
<1> QED BY <1>14, <1>15, <1>16

LEMMA eraseContent ==
  ASSUME ControlInv, BufferInv, ContentInv, NEW p \in Process, erase(p), ~panicked'
  PROVE  ContentInv' /\ View' = View /\ Durable' = Durable
<1>1. /\ pc[p] = "erase" /\ ~panicked /\ UNCHANGED <<tail, blk>> /\ lh' = <<>>
      /\ ~NoBuffer(cache, Head0) /\ disk' = [disk EXCEPT ![Head0] = <<>>]
      /\ cache' = Used(cache, Head0, <<>>) /\ pc' = [pc EXCEPT ![p] = "committed"]
  BY DEF erase, WriteHead, At, Goto
<1>2. ~IsDown /\ ~IsDown'
  BY <1>1, CommitUsers DEF CommitPc
<1>3. Pinned = {} /\ Pinned' = {}
  <2>1. Pinned = {}
    BY <1>1, PinnedCommit DEF CommitPc
  <2>2. Pinned' = {}
    BY <1>1 DEF Pinned
  <2> QED BY <2>1, <2>2
<1>4. \A k \in CommitPc : Committing(k)' => k = "committed"
  BY <1>1, CommitStep DEF CommitPc
<1>5. \A b \in Block : Shown(b) = disk[b]
  BY <1>1, <1>3, ContentFacts
<1>6. /\ disk'[Head0] = <<>> /\ \A a \in Block \ {Head0} : disk'[a] = disk[a]
      /\ Shown(Head0)' = <<>> /\ \A a \in Block \ {Head0} : Shown(a)' = Shown(a)
      /\ ValidKept(cache, cache')
  BY <1>1, HeadContent
<1>7. ContentInv'
  <2>1. \A q \in Process : pc'[q] \in {"have", "done"} => Buf(cache', blk'[q]).valid
    <3> SUFFICES ASSUME NEW q \in Process, pc'[q] \in {"have", "done"}
                 PROVE  Buf(cache', blk'[q]).valid
      OBVIOUS
    <3>1. pc[q] \in {"have", "done"} /\ blk'[q] = blk[q]
      BY <1>1 DEF ControlInv, Types
    <3> QED BY <1>1, <1>6, <3>1, StillValid
  <2>2. \A c \in Block : Shown(c)' = disk'[c]
    BY <1>5, <1>6
  <2>3. /\ ~Committing("write_log")' /\ ~Committing("write_head")'
        /\ ~Committing("install_trans")' /\ ~Committing("erase")'
    BY <1>4 DEF CommitPc
  <2> QED BY <1>2, <1>6, <2>1, <2>2, <2>3, ContentNext
<1>8. View' = View
  <2>1. \A a \in Data : Shown(a)' = Shown(a)
    BY <1>6, BlockKinds
  <2> QED BY <1>2, <2>1, SameView
<1>9. Durable' = Durable
  <2>1. Durable = [b \in Data |-> Shown(b)]
    BY <1>1, CommittedImage
  <2>2. Durable' = Image(disk')
    BY DEF Durable, Image
  <2>3. Image(disk') = [b \in Data |-> disk'[b]]
    BY <1>6, ImageClean
  <2>4. \A b \in Data : disk'[b] = Shown(b)
    BY <1>5, <1>6, BlockKinds
  <2> QED BY <2>1, <2>2, <2>3, <2>4
<1> QED BY <1>7, <1>8, <1>9

-----------------------------------------------------------------------------
(* Crash and recovery *)

LEMMA crashContent ==
  ASSUME ControlInv, BufferInv, ContentInv, crash
  PROVE  ContentInv' /\ View' = Durable /\ Durable' = Durable /\ Active' = {}
<1>1. /\ UNCHANGED disk /\ cache' = [k \in 1 .. NBUF |-> Empty] /\ lh' = <<>> /\ ~panicked'
      /\ \A p \in Process : pc'[p] = "down" /\ op'[p] = 0
  BY DEF crash
<1>2. Durable' = Durable
  BY <1>1 DEF Durable
<1>3. Down' /\ IsDown'
  BY <1>1, Processes DEF Down, IsDown
<1>4. Active' = {}
  BY <1>1 DEF Active
<1>5. \A b \in Block : Shown(b)' = disk'[b]
  <2>1. \A b \in Block : ~Has(cache', b)
    BY <1>1, EmptyCache
  <2> QED BY <2>1 DEF Shown, CachedIn
<1>6. \A l \in CommitPc : ~Committing(l)'
  BY <1>1 DEF Committing, CommitPc
<1>7. ContentInv'
  <2>1. \A k : k \in 1 .. Len(lh') => FALSE
    BY <1>1
  <2> QED BY <1>1, <1>3, <1>5, <1>6, <2>1, ContentNext DEF CommitPc
<1> QED BY <1>2, <1>3, <1>4, <1>7 DEF View

\* While the machine is down the cache shows what the disk holds.
LEMMA DownContent ==
  ASSUME ControlInv, BufferInv, ContentInv, Down
  PROVE  /\ CacheOK(cache) /\ IsDown /\ ~panicked /\ Faithful(disk, cache) /\ IsHeader(disk[Head0])
         /\ disk = [b \in Block |-> disk[b]] /\ Active = {} /\ View = Durable
         /\ \A b \in Block : ~NoBuffer(cache, b) /\ Shown(b) = disk[b]
         /\ \A k \in 1 .. Len(lh) : k <= tail => disk[lh[k]] = disk[LogBlock(k)]
         /\ (lh = <<>> /\ tail = 0) \/ (lh = disk[Head0] /\ tail <= Len(lh))
         /\ \A p \in Process : pc[p] = "down" /\ op[p] = 0
<1>1. /\ CacheOK(cache) /\ IsDown /\ ~panicked /\ Pinned = {}
      /\ \A b \in Block : ~NoBuffer(cache, b)
  BY Recovering
<1>2. Active = {} /\ \A p \in Process : pc[p] = "down" /\ op[p] = 0
  BY DownFacts
<1>3. /\ Faithful(disk, cache) /\ \A b \in Block : Shown(b) = disk[b]
      /\ \A k \in 1 .. Len(lh) : k <= tail => disk[lh[k]] = disk[LogBlock(k)]
  BY <1>1, ContentFacts
<1>4. /\ IsHeader(disk[Head0]) /\ disk = [b \in Block |-> disk[b]]
      /\ (lh = <<>> /\ tail = 0) \/ (lh = disk[Head0] /\ tail <= Len(lh))
  BY <1>1 DEF BufferInv, DiskOK
<1> QED BY <1>1, <1>2, <1>3, <1>4 DEF View

\* A step of the recovery before its end.
LEMMA StillDown ==
  ASSUME ControlInv, Down, UNCHANGED <<pc, op, panicked>>,
         \A b \in Block : Shown(b)' = disk'[b],
         \A k \in 1 .. Len(lh') : k <= tail' => disk'[lh'[k]] = disk'[LogBlock(k)],
         Durable' = Durable
  PROVE  ContentInv' /\ View' = View /\ Active' = Active
<1>1. \A p \in Process : pc[p] = "down"
  BY DownFacts
<1>2. Down' /\ IsDown' /\ \A l \in CommitPc : ~Committing(l)'
  BY <1>1, Processes DEF Down, IsDown, Committing, CommitPc
<1>3. Active' = Active
  BY DEF Active
<1>4. ContentInv'
  <2>1. \A p \in Process : pc'[p] \notin {"have", "done"}
    BY <1>1
  <2> QED BY <1>2, <2>1, ContentNext DEF CommitPc
<1> QED BY <1>2, <1>3, <1>4 DEF View

LEMMA read_headContent ==
  ASSUME ControlInv, BufferInv, ContentInv, read_head
  PROVE  ContentInv' /\ View' = View /\ Durable' = Durable /\ Active' = Active
<1> PICK h : h = disk[Head0]
  OBVIOUS
<1>1. /\ Down /\ lh = <<>> /\ h # <<>> /\ lh' = h
      /\ cache' = Used(cache, Head0, h) /\ UNCHANGED <<disk, tail, pc, op, panicked>>
  BY DEF read_head, procvars
<1>2. /\ CacheOK(cache) /\ Faithful(disk, cache) /\ IsHeader(h) /\ ~NoBuffer(cache, Head0)
      /\ \A b \in Block : Shown(b) = disk[b]
      /\ tail = 0
  BY <1>1, DownContent, BlockKinds
<1>3. \A b \in Block : Shown(b)' = disk'[b]
  <2>1. /\ \A a \in Block \ {Head0} : CachedIn(disk, cache', a) = CachedIn(disk, cache, a)
        /\ CachedIn(disk, cache', Head0) = h
    BY <1>1, <1>2, BlockKinds, UsedContent
  <2> QED BY <1>1, <1>2, <2>1 DEF Shown
<1>4. Durable' = Durable
  BY <1>1 DEF Durable
<1>5. \A k \in 1 .. Len(lh') : ~(k <= tail')
  BY <1>1, <1>2, HeaderBlocks
<1> QED BY <1>1, <1>3, <1>4, <1>5, StillDown

LEMMA install_recoveringContent ==
  ASSUME ControlInv, BufferInv, ContentInv, install_recovering
  PROVE  ContentInv' /\ View' = View /\ Durable' = Durable /\ Active' = Active
<1> PICK a : a = LogBlock(tail + 1)
  OBVIOUS
<1> PICK b : b = lh[tail + 1]
  OBVIOUS
<1> PICK v : v = disk[a]
  OBVIOUS
<1> PICK c1 : c1 = Used(cache, a, v)
  OBVIOUS
<1>1. /\ Down /\ tail + 1 <= Len(lh) /\ disk' = [disk EXCEPT ![b] = v]
      /\ cache' = Used(c1, b, v) /\ tail' = tail + 1
      /\ UNCHANGED <<lh, pc, op, panicked>>
  BY DEF install_recovering, procvars
<1>2. /\ CacheOK(cache) /\ Faithful(disk, cache) /\ IsHeader(disk[Head0]) /\ IsDown
      /\ disk = [c \in Block |-> disk[c]] /\ tail \in Nat
      /\ \A c \in Block : ~NoBuffer(cache, c) /\ Shown(c) = disk[c]
      /\ \A k \in 1 .. Len(lh) : k <= tail => disk[lh[k]] = disk[LogBlock(k)]
      /\ (lh = <<>> /\ tail = 0) \/ (lh = disk[Head0] /\ tail <= Len(lh))
  BY <1>1, DownContent DEF ControlInv, Types
<1>3. lh = disk[Head0] /\ IsHeader(lh) /\ tail + 1 \in 1 .. Len(lh) /\ Len(lh) \in Nat
  <2>1. lh # <<>>
    BY <1>1, <1>2
  <2>2. lh = disk[Head0] /\ Len(lh) \in Nat
    BY <1>2, <2>1, HeaderBlocks
  <2> QED BY <1>1, <1>2, <2>2
<1>4. a \in Block /\ a \notin Data /\ b \in Data /\ b \in Block /\ b # Head0 /\ a # b
  BY <1>3, HeaderBlocks
<1>5. CacheOK(c1) /\ Faithful(disk, c1) /\ \A c \in Block : CachedIn(disk, c1, c) = disk[c]
  <2>1. CacheOK(c1)
    BY <1>2, <1>4, UsedRefs
  <2>2. /\ \A c \in Block \ {a} : CachedIn(disk, c1, c) = CachedIn(disk, cache, c)
        /\ CachedIn(disk, c1, a) = v
        /\ Ref(cache, a) # 0 \/ v = disk[a] => Faithful(disk, c1)
    BY <1>2, <1>4, UsedContent
  <2> QED BY <1>2, <1>4, <2>1, <2>2 DEF Shown
<1>6. ~NoBuffer(c1, b)
  BY <1>1, <1>2, <1>4, RecoveryRoom
<1>7. CacheOK(cache') /\ Has(cache', b) /\ Buf(cache', b).valid /\ Buf(cache', b).data = v
      /\ Evicts(c1, cache', b, Buf(cache', b))
  BY <1>1, <1>4, <1>5, <1>6, UsedOK DEF Evicts
<1>8. disk'[b] = v /\ \A c \in Block \ {b} : disk'[c] = disk[c]
  BY <1>1, <1>2, <1>4
<1>9. \A c \in Block : Shown(c)' = disk'[c]
  <2>1. CachedIn(disk', cache', b) = v
    BY <1>7 DEF CachedIn
  <2>2. \A c \in Block \ {b} : CachedIn(disk', cache', c) = CachedIn(disk, cache', c)
    BY <1>8 DEF CachedIn
  <2>3. \A c \in Block \ {b} : CachedIn(disk, cache', c) = CachedIn(disk, c1, c)
    <3> PICK u : u = Buf(cache', b)
      OBVIOUS
    <3>1. Evicts(c1, cache', b, u)
      BY <1>7
    <3> QED BY <1>4, <1>5, <3>1, EvictContent
  <2> QED BY <1>5, <1>8, <2>1, <2>2, <2>3 DEF Shown
<1>10. \A k \in 1 .. Len(lh') : k <= tail' => disk'[lh'[k]] = disk'[LogBlock(k)]
  <2> SUFFICES ASSUME NEW k \in 1 .. Len(lh), k <= tail + 1
               PROVE  disk'[lh[k]] = disk'[LogBlock(k)]
    BY <1>1
  <2>1. lh[k] \in Block /\ LogBlock(k) \in Block /\ LogBlock(k) # b
    BY <1>3, <1>4, HeaderBlocks
  <2>2. CASE k = tail + 1
    BY <1>4, <1>8, <2>1, <2>2
  <2>3. CASE k # tail + 1
    <3>1. lh[k] # b /\ k <= tail
      BY <1>2, <1>3, <2>3, HeaderBlocks
    <3> QED BY <1>2, <1>8, <2>1, <3>1
  <2> QED BY <2>2, <2>3
<1>11. Durable' = Durable
  <2>1. Image(disk') = Image(disk)
    <3>1. disk'[Head0] = disk[Head0]
      BY <1>4, <1>8, BlockKinds
    <3>2. \A k \in 1 .. Len(disk[Head0]) : disk'[LogBlock(k)] = disk[LogBlock(k)]
      BY <1>3, <1>4, <1>8, HeaderBlocks
    <3>3. \A c \in Data : (\A k \in 1 .. Len(disk[Head0]) : disk[Head0][k] # c) => disk'[c] = disk[c]
      BY <1>3, <1>8, BlockKinds
    <3> QED BY <1>2, <3>1, <3>2, <3>3, SameImage
  <2>2. Durable' = Image(disk')
    BY DEF Durable, Image
  <2> QED BY <2>1, <2>2, DurableImage
<1> QED BY <1>1, <1>9, <1>10, <1>11, StillDown

LEMMA recoveredContent ==
  ASSUME ControlInv, BufferInv, ContentInv, recovered
  PROVE  ContentInv' /\ View' = View /\ Durable' = Durable /\ Active' = Active
<1>1. /\ Down /\ disk' = [disk EXCEPT ![Head0] = <<>>] /\ cache' = Used(cache, Head0, <<>>)
      /\ lh' = <<>> /\ pc' = [p \in Process |-> "idle"] /\ UNCHANGED <<op, panicked>>
      /\ IF disk[Head0] = <<>> THEN lh = <<>> ELSE lh # <<>> /\ tail = Len(lh)
  BY DEF recovered
<1>2. /\ ~panicked /\ IsHeader(disk[Head0]) /\ Active = {} /\ View = Durable
      /\ \A b \in Block : ~NoBuffer(cache, b) /\ Shown(b) = disk[b]
      /\ \A k \in 1 .. Len(lh) : k <= tail => disk[lh[k]] = disk[LogBlock(k)]
      /\ (lh = <<>> /\ tail = 0) \/ (lh = disk[Head0] /\ tail <= Len(lh))
      /\ \A p \in Process : op[p] = 0
  BY <1>1, DownContent
<1>3. Head0 \in Block
  BY BlockKinds
<1>4. /\ disk'[Head0] = <<>> /\ \A a \in Block \ {Head0} : disk'[a] = disk[a]
      /\ Shown(Head0)' = <<>> /\ \A a \in Block \ {Head0} : Shown(a)' = Shown(a)
  BY <1>1, <1>2, <1>3, HeadContent
<1>5. ~Down' /\ ~IsDown' /\ \A l \in CommitPc : ~Committing(l)'
  BY <1>1, Processes DEF Down, IsDown, Committing, CommitPc
<1>6. Active' = {}
  BY <1>1, <1>2 DEF Active
<1>7. ContentInv'
  <2>1. \A p \in Process : pc'[p] \notin {"have", "done"}
    BY <1>1
  <2>2. \A b \in Block : Shown(b)' = disk'[b]
    BY <1>2, <1>4
  <2> QED BY <1>1, <1>4, <1>5, <2>1, <2>2, ContentNext DEF CommitPc
<1>8. ASSUME NEW b \in Data
      PROVE  Image(disk)[b] = disk[b]
  <2>1. CASE \A k \in 1 .. Len(disk[Head0]) : disk[Head0][k] # b
    BY <1>2, <2>1, ImageOf
  <2>2. CASE \E k \in 1 .. Len(disk[Head0]) : disk[Head0][k] = b
    <3>1. PICK k \in 1 .. Len(disk[Head0]) : disk[Head0][k] = b
      BY <2>2
    <3>2. lh = disk[Head0] /\ tail = Len(lh) /\ Len(lh) \in Nat /\ k <= Len(lh)
      BY <1>1, <1>2, <3>1, HeaderBlocks
    <3>3. Image(disk)[b] = disk[LogBlock(k)]
      BY <1>2, <3>1, ImageOf
    <3> QED BY <1>2, <3>1, <3>2, <3>3
  <2> QED BY <2>1, <2>2
<1>9. Durable' = Durable
  <2>1. Durable' = Image(disk')
    BY DEF Durable, Image
  <2>2. Image(disk') = [b \in Data |-> disk'[b]]
    BY <1>4, ImageClean
  <2>3. Image(disk) = [b \in Data |-> Image(disk)[b]]
    BY <1>2, ImageOf
  <2>4. \A b \in Data : disk'[b] = Image(disk)[b]
    BY <1>4, <1>8, BlockKinds
  <2> QED BY <2>1, <2>2, <2>3, <2>4, DurableImage
<1>10. View' = View
  <2>1. View' = [b \in Data |-> Shown(b)']
    BY <1>5 DEF View
  <2>2. \A b \in Data : Shown(b)' = Image(disk)[b]
    BY <1>2, <1>4, <1>8, BlockKinds
  <2>3. Image(disk) = [b \in Data |-> Image(disk)[b]]
    BY <1>2, ImageOf
  <2> QED BY <1>2, <2>1, <2>2, <2>3, DurableImage
<1> QED BY <1>2, <1>6, <1>7, <1>9, <1>10

-----------------------------------------------------------------------------
(* The refinement *)

\* A process that is in an operation before and after a step, or in none.
LEMMA SameActive ==
  ASSUME \A q \in Process : (op'[q] # 0 /\ pc'[q] \notin {"begin", "asleep"}) <=>
                            (op[q] # 0 /\ pc[q] \notin {"begin", "asleep"})
  PROVE  Active' = Active
BY DEF Active

LEMMA begin_opActive ==
  ASSUME ControlInv, NEW p \in Process, begin_op(p)
  PROVE  Active' = Active \/ (p \notin Active /\ Active' = Active \cup {p})
<1>1. /\ pc[p] = "begin" /\ UNCHANGED op /\ op[p] # 0
      /\ pc' = [pc EXCEPT ![p] = "asleep"] \/ pc' = [pc EXCEPT ![p] = "op"]
  BY DEF begin_op, At, Goto, ControlInv, Places
<1>2. CASE pc' = [pc EXCEPT ![p] = "asleep"]
  BY <1>1, <1>2 DEF Active, ControlInv, Types
<1>3. CASE pc' = [pc EXCEPT ![p] = "op"]
  BY <1>1, <1>3 DEF Active, ControlInv, Types
<1> QED BY <1>1, <1>2, <1>3

LEMMA end_opActive ==
  ASSUME ControlInv, NEW p \in Process, end_op(p)
  PROVE  p \in Active /\ Active' = Active \ {p}
<1>1. pc[p] = "op" /\ op' = [op EXCEPT ![p] = 0] /\ op[p] # 0
  BY DEF end_op, At, ControlInv, Places
<1>2. \A q \in Process \ {p} : pc'[q] = pc[q] \/ (pc[q] = "asleep" /\ pc'[q] = "begin")
  BY DEF end_op, Goto, Woken, ControlInv, Types
<1> QED BY <1>1, <1>2 DEF Active, ControlInv, Types

\* The other steps of a process start and end no operation.
LEMMA OtherActive ==
  ASSUME ControlInv, NEW p \in Process, Operation(p), ~begin_op(p), ~end_op(p)
  PROVE  Active' = Active
<1> USE DEF ControlInv, Types
<1>1. CASE start_op(p)
  BY <1>1 DEF start_op, At, Goto, Active, Places
<1>2. CASE acquiresleep(p) \/ log_write(p) \/ release(p)
  BY <1>2 DEF acquiresleep, log_write, release, At, Goto, Active, Places
<1>3. CASE \E b \in Data : bread_op(p, b) \/ bread_outside(p, b)
  BY <1>3 DEF bread_op, bread_outside, Bread, At, Goto, Active, Places
<1>4. CASE write_log(p)
  BY <1>4 DEF write_log, Copy, At, Goto, Active, Places
<1>5. CASE install_trans(p)
  BY <1>5 DEF install_trans, At, Goto, Active, Places
<1>6. CASE write_head(p) \/ erase(p)
  BY <1>6 DEF write_head, erase, WriteHead, At, Goto, Active, Places
<1>7. CASE committed(p)
  BY <1>7 DEF committed, Woken, At, Active, Places
<1> QED BY <1>1, <1>2, <1>3, <1>4, <1>5, <1>6, <1>7 DEF Operation

\* Only log_write changes what is seen, and only write_head what a crash leaves.
LEMMA OperationStep ==
  ASSUME ControlInv, BufferInv, ContentInv, NEW p \in Process, Operation(p), ~panicked'
  PROVE  /\ ContentInv'
         /\ \/ View' = View /\ Durable' = Durable /\ Active' = Active
            \/ /\ p \notin Active /\ Active' = Active \cup {p} /\ View' = View
               /\ Durable' = Durable
            \/ p \in Active /\ Active' = Active \ {p} /\ View' = View /\ Durable' = Durable
            \/ /\ p \in Active /\ Active' = Active /\ Durable' = Durable
               /\ \E b \in Data, v \in Value : View' = [View EXCEPT ![b] = v]
            \/ Active = {} /\ Active' = Active /\ View' = View /\ Durable' = View
<1>1. CASE begin_op(p)
  BY <1>1, begin_opContent, begin_opActive
<1>2. CASE end_op(p)
  BY <1>2, end_opContent, end_opActive
<1>3. CASE ~begin_op(p) /\ ~end_op(p)
  <2>0. Active' = Active
    BY <1>3, OtherActive
  <2>1. CASE start_op(p) \/ acquiresleep(p) \/ release(p) \/ committed(p)
    BY <2>0, <2>1, start_opContent, acquiresleepContent, releaseContent, committedContent
  <2>2. CASE \E b \in Data : bread_op(p, b) \/ bread_outside(p, b)
    BY <2>0, <2>2, BreadContent
  <2>3. CASE log_write(p)
    <3>1. /\ ContentInv' /\ Durable' = Durable /\ blk[p] \in Data
          /\ View' = [View EXCEPT ![blk[p]] = op[p]]
      BY <2>3, log_writeContent
    <3>2. op[p] \in Value /\ p \in Active
      BY <2>3 DEF log_write, At, Active, ControlInv, Types
    <3> QED BY <2>0, <3>1, <3>2
  <2>4. CASE write_log(p) \/ install_trans(p) \/ erase(p)
    BY <2>0, <2>4, write_logContent, install_transContent, eraseContent
  <2>5. CASE write_head(p)
    BY <2>0, <2>5, write_headContent
  <2> QED BY <1>3, <2>1, <2>2, <2>3, <2>4, <2>5 DEF Operation
<1> QED BY <1>1, <1>2, <1>3

\* After a panic nothing changes, and it changes nothing itself.
LEMMA PanicStep ==
  ASSUME ControlInv, BufferInv, [Next]_vars, panicked'
  PROVE  View' = View /\ Durable' = Durable /\ Active' = Active
<1>1. UNCHANGED <<disk, cache, pc, op>> /\ ~Down /\ ~Down'
  <2>1. CASE panicked
    <3>1. \A p \in Process : ~Operation(p)
      BY <2>1 DEF Operation, start_op, begin_op, acquiresleep, log_write, release, end_op,
                  bread_op, bread_outside, write_log, write_head, install_trans, erase,
                  committed, At
    <3>2. ~crash /\ ~Recovery
      BY <2>1 DEF crash, Recovery, read_head, install_recovering, recovered, Down
    <3>3. UNCHANGED vars
      BY <3>1, <3>2 DEF Next
    <3> QED BY <2>1, <3>3 DEF vars, procvars, Down
  <2>2. CASE ~panicked
    <3>1. UNCHANGED <<disk, cache, pc, op>> /\ ~IsDown
      BY <2>2, WhoPanics
    <3> QED BY <3>1, Processes DEF Down, IsDown
  <2> QED BY <2>1, <2>2
<1> QED BY <1>1 DEF View, Durable, Active, Shown

LEMMA StutterContent ==
  ASSUME UNCHANGED vars
  PROVE  /\ (ContentInv => ContentInv') /\ View' = View /\ Durable' = Durable
         /\ Active' = Active
<1>1. UNCHANGED <<disk, cache, lh, tail, pc, blk, op, panicked>>
  BY DEF vars, logvars, procvars
<1>2. Pinned' = Pinned /\ (IsDown' <=> IsDown) /\ \A l : Committing(l)' <=> Committing(l)
  BY <1>1 DEF Pinned, Unpinned, Committing, IsDown
<1>3. Durable' = Durable /\ Active' = Active /\ (Down' <=> Down)
  BY <1>1 DEF Durable, Active, Down
<1>4. View' = View
  BY <1>1, <1>3 DEF View, Shown
<1>5. ContentInv => ContentInv'
  BY <1>1, <1>2 DEF ContentInv, Clean, LogCopied, Cached, Has, Buf, Pos
<1> QED BY <1>3, <1>4, <1>5

LEMMA NextContent ==
  ASSUME LogInv, [Next]_vars
  PROVE  /\ ~panicked' => ContentInv'
         /\ [A!Next]_<<View, Durable, Active>>
<1> USE DEF LogInv
<1>1. CASE panicked'
  BY <1>1, PanicStep
<1>2. CASE ~panicked'
  <2>1. ~panicked \/ UNCHANGED vars
    BY <1>2 DEF Next, Operation, crash, Recovery, read_head, install_recovering, recovered, Down,
                start_op, begin_op, acquiresleep, log_write, release, end_op, bread_op,
                bread_outside, write_log, write_head, install_trans, erase, committed, At
  <2>2. CASE UNCHANGED vars
    <3>1. ContentInv
      BY <1>2, <2>2 DEF vars
    <3> QED BY <2>2, <3>1, StutterContent
  <2>3. CASE ~panicked /\ crash
    <3>1. ContentInv' /\ View' = Durable /\ Durable' = Durable /\ Active' = {}
      BY <2>3, crashContent
    <3> QED BY <3>1 DEF A!Next, A!Crash, View, Shown, CachedIn, Cached
  <2>4. CASE ~panicked /\ Recovery
    BY <2>4, read_headContent, install_recoveringContent, recoveredContent DEF Recovery
  <2>5. ASSUME ~panicked, NEW p \in Process, Operation(p)
        PROVE  /\ ContentInv'
               /\ [A!Next]_<<View, Durable, Active>>
    BY <1>2, <2>5, OperationStep DEF A!Next, A!Begin, A!End, A!Write, A!Commit, View, Shown,
                                     CachedIn, Cached
  <2> QED BY <2>1, <2>2, <2>3, <2>4, <2>5 DEF Next
<1> QED BY <1>1, <1>2

LEMMA InitContent ==
  ASSUME Init
  PROVE  ContentInv /\ A!Init
<1>1. /\ \A b \in Block : ~Has(cache, b)
      /\ \A b \in Block \ {Head0} : disk[b] = 0
      /\ disk[Head0] = <<>> /\ lh = <<>> /\ ~panicked
      /\ \A p \in Process : pc[p] = "idle" /\ op[p] = 0
  BY EmptyCache, BlockKinds DEF Init
<1>2. ~Down /\ ~IsDown /\ \A l \in CommitPc : ~Committing(l)
  BY <1>1, Processes DEF Down, IsDown, Committing, CommitPc
<1>3. \A b \in Block : Cached(cache, b) = disk[b]
  BY <1>1 DEF Cached
<1>4. ContentInv
  <2>1. \A k : k \in 1 .. Len(lh) => FALSE
    BY <1>1
  <2> QED BY <1>1, <1>2, <1>3, <2>1 DEF ContentInv, Clean, CommitPc
<1>5. Durable = [b \in Data |-> 0]
  <2>1. Durable = [b \in Data |-> disk[b]]
    BY <1>1, ImageClean, DurableImage
  <2> QED BY <1>1, <2>1, BlockKinds
<1>6. [b \in Data |-> Cached(cache, b)] = [b \in Data |-> 0]
  BY <1>1, <1>3, BlockKinds
<1>7. 0 \in Value
  BY LogSizes DEF Value
<1>8. Active = {}
  BY <1>1 DEF Active
<1> QED BY <1>2, <1>4, <1>5, <1>6, <1>7, <1>8 DEF A!Init

LEMMA LogInvariant == Spec => []LogInv
<1>1. Init => LogInv
  BY InitControl, InitBuffers, InitContent DEF LogInv
<1>2. LogInv /\ [Next]_vars => LogInv'
  <2> SUFFICES ASSUME LogInv, [Next]_vars PROVE LogInv'
    OBVIOUS
  <2>1. ControlInv'
    BY NextControl DEF LogInv
  <2>2. BufferInv' /\ OnlyBgetPanics'
    BY NextBuffers DEF LogInv
  <2>3. ~panicked' => ContentInv'
    BY NextContent
  <2> QED BY <2>1, <2>2, <2>3 DEF LogInv
<1> QED BY <1>1, <1>2, PTL DEF Spec

\* The log makes groups of operations atomic: at every point of an operation, of
\* a commit and of a recovery, the disk recovers to exactly what the operations
\* had done when the header was last written, and running operations see each
\* other's writes and nothing else.
THEOREM LogIsAtomic == Spec => ImplementsAtomicLog
<1>1. Init => A!Init
  BY InitContent
<1>2. LogInv /\ [Next]_vars => [A!Next]_<<View, Durable, Active>>
  BY NextContent
<1>3. [A!Next]_<<View, Durable, Active>>
        => [A!Next]_<<IF Down THEN Durable ELSE [b \in Data |-> Cached(cache, b)],
                      Durable, Active>>
  BY DEF View, Shown, CachedIn, Cached
<1> QED BY <1>1, <1>2, <1>3, LogInvariant, PTL DEF Spec, ImplementsAtomicLog, A!Spec
=============================================================================
