--------------------------- MODULE DevicesProofs ----------------------------
(***************************************************************************)
(* Proofs about the disk driver and the console: for any number of         *)
(* processes, descriptors and keys, and indices that wrap anywhere.        *)
(***************************************************************************)
EXTENDS Devices, FiniteSetTheorems, WellFoundedInduction, TLAPS

(* Indices that wrap at w, into a ring of n entries *)

LEMMA Division ==
  ASSUME NEW n \in Nat \ {0}, NEW x \in Int
  PROVE  \E q \in Int, r \in 0 .. n - 1 : x = n * q + r /\ x % n = r
<1>1. x % n = x - n * (x \div n)
  OBVIOUS
<1>2. x % n \in 0 .. n - 1 /\ x \div n \in Int
  OBVIOUS
<1> QED BY <1>1, <1>2

LEMMA Remainder ==
  ASSUME NEW n \in Nat \ {0}, NEW q \in Int, NEW r \in 0 .. n - 1
  PROVE  (n * q + r) % n = r
OBVIOUS

LEMMA NearbyDiffer ==
  ASSUME NEW n \in Nat \ {0}, NEW x \in Int, NEW y \in Int, 0 < x - y, x - y < n
  PROVE  x % n # y % n
<1> SUFFICES ASSUME x % n = y % n PROVE FALSE
  OBVIOUS
<1>1. PICK p \in Int, r \in 0 .. n - 1 : x = n * p + r /\ x % n = r
  BY Division
<1>2. PICK q \in Int, s \in 0 .. n - 1 : y = n * q + s /\ y % n = s
  BY Division
<1>3. x - y = n * (p - q)
  BY <1>1, <1>2
<1>4. CASE p - q >= 1
  <2>1. n * (p - q) >= n
    BY <1>4
  <2> QED BY <2>1, <1>3
<1>5. CASE p - q <= 0
  <2>1. n * (p - q) <= 0
    BY <1>5
  <2> QED BY <2>1, <1>3
<1> QED BY <1>4, <1>5

\* The wrap does not disturb the ring.
LEMMA SameEntry ==
  ASSUME NEW n \in Nat \ {0}, NEW w \in Nat \ {0}, w % n = 0, NEW x \in Int, 0 <= x, x < 2 * w
  PROVE  (x % w) % n = x % n
<1>1. CASE x < w
  BY <1>1
<1>2. CASE x >= w
  <2>1. PICK p \in Int, r \in 0 .. n - 1 : x - w = n * p + r /\ (x - w) % n = r
    BY Division
  <2>2. PICK q \in Int, s \in 0 .. n - 1 : w = n * q + s /\ w % n = s
    BY Division
  <2>3. x = n * (p + q) + r /\ p + q \in Int
    BY <2>1, <2>2
  <2>4. x % n = r
    BY <2>3, Remainder
  <2>5. x % w = x - w
    BY <1>2
  <2> QED BY <2>1, <2>4, <2>5
<1> QED BY <1>1, <1>2

\* A window of at most n entries that starts at a has each entry once.
LEMMA WindowEntries ==
  ASSUME NEW n \in Nat \ {0}, NEW w \in Nat \ {0}, w % n = 0, NEW a \in 0 .. w - 1,
         NEW s \in 0 .. w, NEW t \in 0 .. w, s < t, t - s < n
  PROVE  ((a + s) % w) % n # ((a + t) % w) % n
<1>1. ((a + s) % w) % n = (a + s) % n /\ ((a + t) % w) % n = (a + t) % n
  <2>1. a + s \in Int /\ 0 <= a + s /\ a + s < 2 * w
    OBVIOUS
  <2>2. a + t \in Int /\ 0 <= a + t /\ a + t < 2 * w
    OBVIOUS
  <2> QED BY <2>1, <2>2, SameEntry
<1>2. (a + t) % n # (a + s) % n
  <2>1. 0 < (a + t) - (a + s) /\ (a + t) - (a + s) < n
    OBVIOUS
  <2>2. PICK x \in Int, y \in Int : x = a + t /\ y = a + s
    OBVIOUS
  <2>3. x % n # y % n
    BY <2>1, <2>2, NearbyDiffer
  <2> QED BY <2>2, <2>3
<1> QED BY <1>1, <1>2

\* A window from a to b grows by one when b moves on.
LEMMA Growing ==
  ASSUME NEW w \in Nat \ {0}, NEW a \in 0 .. w - 1, NEW b \in 0 .. w - 1, (b - a) % w # w - 1
  PROVE  (((b + 1) % w) - a) % w = ((b - a) % w) + 1
<1>1. (b - a) % w = IF a <= b THEN b - a ELSE b - a + w
  OBVIOUS
<1>2. (b + 1) % w = IF b = w - 1 THEN 0 ELSE b + 1
  OBVIOUS
<1>3. PICK c \in 0 .. w - 1 : c = (b + 1) % w
  BY <1>2
<1>4. (c - a) % w = IF a <= c THEN c - a ELSE c - a + w
  OBVIOUS
<1> QED BY <1>1, <1>2, <1>3, <1>4

\* The indices of a window from a to b, when either moves on.
LEMMA Moving ==
  ASSUME NEW w \in Nat \ {0}, NEW a \in 0 .. w - 1, NEW b \in 0 .. w - 1
  PROVE  /\ (b - a) % w \in 0 .. w - 1 /\ (a + 1) % w \in 0 .. w - 1
         /\ ((b - a) % w = 0 <=> a = b)
         /\ (a + ((b - a) % w)) % w = b
         /\ (b - a) % w # 0 => (b - ((a + 1) % w)) % w = ((b - a) % w) - 1
         /\ (b - a) % w # w - 1 => (((b + 1) % w) - a) % w = ((b - a) % w) + 1
         /\ \A t \in 0 .. w - 1 : (((a + 1) % w) + t) % w = (a + (t + 1)) % w
<1>1. (b - a) % w = IF a <= b THEN b - a ELSE b - a + w
  OBVIOUS
<1>2. (a + 1) % w = (IF a = w - 1 THEN 0 ELSE a + 1) /\ (b + 1) % w = (IF b = w - 1 THEN 0 ELSE b + 1)
  OBVIOUS
<1>3. (b - a) % w # 0 => (b - ((a + 1) % w)) % w = ((b - a) % w) - 1
  <2>1. PICK c \in 0 .. w - 1 : c = (a + 1) % w
    BY <1>2
  <2>2. (b - c) % w = IF c <= b THEN b - c ELSE b - c + w
    OBVIOUS
  <2> QED BY <1>1, <1>2, <2>1, <2>2
<1>4. (b - a) % w # w - 1 => (((b + 1) % w) - a) % w = ((b - a) % w) + 1
  BY Growing
<1>5. ASSUME NEW t \in 0 .. w - 1 PROVE (((a + 1) % w) + t) % w = (a + (t + 1)) % w
  <2>1. PICK c \in 0 .. w - 1 : c = (a + 1) % w
    BY <1>2
  <2>2. (c + t) % w = IF c + t < w THEN c + t ELSE c + t - w
    OBVIOUS
  <2>3. (a + (t + 1)) % w = IF a + (t + 1) < w THEN a + (t + 1) ELSE a + (t + 1) - w
    OBVIOUS
  <2> QED BY <1>2, <2>1, <2>2, <2>3
<1>6. (a + ((b - a) % w)) % w = b
  <2>1. PICK c \in 0 .. w - 1 : c = (b - a) % w
    BY <1>1
  <2>2. (a + c) % w = IF a + c < w THEN a + c ELSE a + c - w
    OBVIOUS
  <2> QED BY <1>1, <2>1, <2>2
<1> QED BY <1>1, <1>2, <1>3, <1>4, <1>5, <1>6

-----------------------------------------------------------------------------
(* The rings *)

LEMMA Sizes ==
  /\ NUM \in Nat \ {0, 1, 2} /\ WRAP \in Nat \ {0} /\ WRAP % NUM = 0 /\ NUM <= WRAP
  /\ \A p \in Disker : p \in Nat /\ p # 0 /\ p # Nobody /\ p # Handler
  /\ Nobody # Handler
<1>1. NUM \in Nat \ {0, 1, 2} /\ WRAP \in Nat \ {0} /\ WRAP % NUM = 0
  BY VirtioSizes
<1>2. WRAP < NUM => WRAP % NUM = WRAP
  BY <1>1
<1> QED BY <1>1, <1>2, DiskUsers DEF Nobody, Handler

LEMMA WindowMoves ==
  ASSUME NEW a \in Index, NEW b \in Index
  PROVE  /\ (b - a) % WRAP # 0 => (b - ((a + 1) % WRAP)) % WRAP = ((b - a) % WRAP) - 1
         /\ (b - a) % WRAP # WRAP - 1 => (((b + 1) % WRAP) - a) % WRAP = ((b - a) % WRAP) + 1
<1>1. WRAP \in Nat \ {0} /\ a \in 0 .. WRAP - 1 /\ b \in 0 .. WRAP - 1
  BY Sizes DEF Index
<1>2. PICK w \in Nat \ {0} : w = WRAP
  BY <1>1
<1>3. a \in 0 .. w - 1 /\ b \in 0 .. w - 1
  BY <1>1, <1>2
<1>4. (b - a) % w # 0 => (b - ((a + 1) % w)) % w = ((b - a) % w) - 1
  BY <1>3, Moving
<1>5. (b - a) % w # w - 1 => (((b + 1) % w) - a) % w = ((b - a) % w) + 1
  BY <1>3, Growing
<1> QED BY <1>2, <1>4, <1>5

LEMMA EntryType ==
  ASSUME NEW r, NEW a \in Index, NEW t \in Nat
  PROVE  ((a + t) % WRAP) % NUM \in Desc /\ a % NUM \in Desc /\ Entry(r, a, 0) = r[a % NUM]
<1>1. a \in Int /\ (a + t) % WRAP \in Int /\ (a + 0) % WRAP = a
  BY Sizes DEF Index
<1>2. \A x \in Int : x % NUM \in Desc
  BY Sizes DEF Desc
<1> QED BY <1>1, <1>2 DEF Entry

\* The reader of a ring takes the first entry.
LEMMA EntryTaken ==
  ASSUME NEW r, NEW a \in Index, NEW n \in 1 .. WRAP - 1, Once(r, a, n)
  PROVE  LET c == (a + 1) % WRAP
         IN /\ r[a % NUM] \in Entries(r, a, n) /\ Once(r, c, n - 1)
            /\ Entries(r, c, n - 1) = Entries(r, a, n) \ {r[a % NUM]}
<1> DEFINE c == (a + 1) % WRAP
<1>0. WRAP \in Nat \ {0}
  BY Sizes
<1>1. \A t \in 0 .. WRAP - 1 : Entry(r, c, t) = Entry(r, a, t + 1)
  <2>1. \A t \in 0 .. WRAP - 1 : (((a + 1) % WRAP) + t) % WRAP = (a + (t + 1)) % WRAP
    <3>1. WRAP \in Nat \ {0} /\ a \in 0 .. WRAP - 1
      BY Sizes DEF Index
    <3> QED BY <3>1, Moving
  <2> QED BY <2>1 DEF Entry
<1>2. r[a % NUM] = Entry(r, a, 0)
  BY EntryType
<1> HIDE DEF c
<1>3. Once(r, c, n - 1)
  <2> SUFFICES ASSUME NEW s \in 0 .. n - 2, NEW t \in 0 .. n - 2, Entry(r, c, s) = Entry(r, c, t)
               PROVE  s = t
    BY DEF Once
  <2>1. Entry(r, a, s + 1) = Entry(r, a, t + 1)
    BY <1>0, <1>1
  <2>2. s + 1 = t + 1
    BY <2>1 DEF Once
  <2> QED BY <2>2
<1>4. Entries(r, c, n - 1) = Entries(r, a, n) \ {Entry(r, a, 0)}
  <2>1. ASSUME NEW h \in Entries(r, c, n - 1) PROVE h \in Entries(r, a, n) /\ h # Entry(r, a, 0)
    <3>1. PICK t \in 0 .. n - 2 : h = Entry(r, c, t)
      BY DEF Entries
    <3>2. h = Entry(r, a, t + 1) /\ t + 1 \in 0 .. n - 1 /\ t + 1 # 0
      BY <1>0, <1>1, <3>1
    <3>3. h # Entry(r, a, 0)
      BY <3>2 DEF Once
    <3> QED BY <3>2, <3>3 DEF Entries
  <2>2. ASSUME NEW h \in Entries(r, a, n), h # Entry(r, a, 0) PROVE h \in Entries(r, c, n - 1)
    <3>1. PICK t \in 0 .. n - 1 : h = Entry(r, a, t)
      BY DEF Entries
    <3>2. t - 1 \in 0 .. n - 2 /\ (t - 1) + 1 = t
      BY <2>2, <3>1
    <3>3. Entry(r, c, t - 1) = Entry(r, a, t)
      BY <1>0, <1>1, <3>2
    <3> QED BY <3>1, <3>2, <3>3 DEF Entries
  <2> QED BY <2>1, <2>2
<1>5. Entry(r, a, 0) \in Entries(r, a, n)
  BY DEF Entries
<1> QED BY <1>2, <1>3, <1>4, <1>5 DEF c

Put(r, x, h) == [r EXCEPT ![x] = h]

\* Its writer fills the entry behind the last one, if there is one.
LEMMA EntryFilled ==
  ASSUME NEW r \in [Desc -> Desc], NEW a \in Index, NEW n \in 0 .. NUM - 1, NEW h,
         NEW b \in Index, (a + n) % WRAP = b, NEW s, s = Put(r, b % NUM, h)
  PROVE  Entries(s, a, n) = Entries(r, a, n) /\ (Once(r, a, n) => Once(s, a, n)) /\ s[b % NUM] = h
<1>1. ASSUME NEW t \in 0 .. n - 1 PROVE Entry(s, a, t) = Entry(r, a, t)
  <2>1. ((a + t) % WRAP) % NUM # ((a + n) % WRAP) % NUM
    <3>1. t \in 0 .. WRAP /\ n \in 0 .. WRAP /\ t < n /\ n - t < NUM
      BY Sizes
    <3>2. NUM \in Nat \ {0} /\ WRAP \in Nat \ {0} /\ WRAP % NUM = 0 /\ a \in 0 .. WRAP - 1
      BY Sizes DEF Index
    <3> QED BY <3>1, <3>2, WindowEntries, Zenon
  <2> QED BY <2>1, EntryType DEF Entry, Put
<1>2. s[b % NUM] = h
  BY EntryType DEF Put
<1>3. Entries(s, a, n) = Entries(r, a, n) /\ (Once(r, a, n) => Once(s, a, n))
  BY <1>1 DEF Entries, Once
<1> QED BY <1>2, <1>3

LEMMA EntryAdded ==
  ASSUME NEW r, NEW a \in Index, NEW n \in Nat, Once(r, a, n),
         NEW b \in Index, (a + n) % WRAP = b, r[b % NUM] \notin Entries(r, a, n)
  PROVE  Entries(r, a, n + 1) = Entries(r, a, n) \cup {r[b % NUM]} /\ Once(r, a, n + 1)
<1>1. Entry(r, a, n) = r[b % NUM]
  BY DEF Entry
<1>2. 0 .. (n + 1) - 1 = (0 .. n - 1) \cup {n}
  OBVIOUS
<1>3. \A t \in 0 .. n - 1 : Entry(r, a, t) # Entry(r, a, n)
  BY <1>1 DEF Entries
<1> QED BY <1>1, <1>2, <1>3 DEF Entries, Once

\* The requests that are anywhere are fewer than the descriptors.
LEMMA RoomInRing ==
  ASSUME NEW r, NEW a, NEW n \in Nat, Once(r, a, n),
         NEW j \in Desc, Entries(r, a, n) \subseteq Desc \ {j}
  PROVE  n < NUM
<1> DEFINE f == [t \in 0 .. n - 1 |-> Entry(r, a, t)]
           T == Desc \ {j}
<1>1. IsFiniteSet(Desc) /\ Cardinality(Desc) = NUM
  BY FS_Interval, Sizes DEF Desc
<1>2. IsFiniteSet(T) /\ Cardinality(T) = NUM - 1
  BY <1>1, FS_RemoveElement
<1>3. f \in Injection(0 .. n - 1, T)
  <2>1. f \in [0 .. n - 1 -> T]
    BY DEF Entries
  <2>2. \A s, t \in 0 .. n - 1 : f[s] = f[t] => s = t
    BY DEF Once
  <2> HIDE DEF f, T
  <2> QED BY <2>1, <2>2 DEF Injection, IsInjective
<1>4. Cardinality(0 .. n - 1) = n
  BY FS_Interval
<1> HIDE DEF f, T
<1>5. n <= NUM - 1
  BY <1>2, <1>3, <1>4, FS_Injection
<1> QED BY <1>5, Sizes

-----------------------------------------------------------------------------
(* The disk driver *)

\* An index of the driver moves on.
LEMMA DriverIs ==
  ASSUME vd \in Driver, NEW a \in Index, NEW b \in Index,
         vd' = [free |-> vd.free, desc |-> vd.desc, ops |-> vd.ops, info |-> vd.info,
                ring |-> vd.ring, idx |-> a, used_idx |-> b]
  PROVE  /\ vd' \in Driver /\ vd'.idx = a /\ vd'.used_idx = b /\ vd'.free = vd.free /\ vd'.desc = vd.desc
         /\ vd'.ops = vd.ops /\ vd'.info = vd.info /\ vd'.ring = vd.ring
<1>1. PICK f, d, o, i, r : f = vd.free /\ d = vd.desc /\ o = vd.ops /\ i = vd.info /\ r = vd.ring
  OBVIOUS
<1>2. [free |-> f, desc |-> d, ops |-> o, info |-> i, ring |-> r, idx |-> a, used_idx |-> b] \in Driver
  BY <1>1 DEF Driver
<1> QED BY <1>1, <1>2

LEMMA LeastNatural ==
  ASSUME NEW S, S \subseteq Nat, S # {}
  PROVE  \E x \in S : \A y \in S : x <= y
<1> DEFINE Less == {s \in Nat \X Nat : s[1] < s[2]}
<1>1. IsWellFoundedOn(Less, Nat)
  BY NatLessThanWellFounded DEF OpToRel
<1> HIDE DEF Less
<1>2. PICK x \in S : \A y \in S : ~(<<y, x>> \in Less)
  BY <1>1, WFMin
<1>3. \A y \in S : ~(y < x)
  BY <1>2 DEF Less
<1> QED BY <1>3

\* alloc3_desc takes three different descriptors of those that are free.
LEMMA ThreeFree ==
  ASSUME NEW S, S \subseteq Desc, ~(Cardinality(S) < 3)
  PROVE  /\ Third(S, 1) \in S /\ Third(S, 2) \in S /\ Third(S, 3) \in S
         /\ Third(S, 1) # Third(S, 2) /\ Third(S, 1) # Third(S, 3) /\ Third(S, 2) # Third(S, 3)
<1> DEFINE Below(i) == {j \in S : j < i}
<1>1. S \subseteq Nat /\ IsFiniteSet(S) /\ Cardinality(S) \in Nat
  <2>1. IsFiniteSet(Desc) /\ Desc \subseteq Nat
    BY FS_Interval, Sizes DEF Desc
  <2> QED BY <2>1, FS_Subset, FS_CardinalityType
<1>2. PICK a \in S : \A y \in S : a <= y
  <2>1. S # {}
    BY FS_EmptySet
  <2> QED BY <1>1, <2>1, LeastNatural
<1>3. IsFiniteSet(S \ {a}) /\ Cardinality(S \ {a}) = Cardinality(S) - 1
  BY <1>1, FS_RemoveElement
<1>4. PICK b \in S \ {a} : \A y \in S \ {a} : b <= y
  <2>1. S \ {a} # {} /\ S \ {a} \subseteq Nat
    BY <1>1, <1>3, FS_EmptySet
  <2> QED BY <2>1, LeastNatural
<1>5. Cardinality((S \ {a}) \ {b}) = Cardinality(S) - 2
  <2>1. Cardinality((S \ {a}) \ {b}) = Cardinality(S \ {a}) - 1
    BY <1>3, <1>4, FS_RemoveElement
  <2> QED BY <1>1, <1>3, <2>1
<1>6. PICK c \in (S \ {a}) \ {b} : \A y \in (S \ {a}) \ {b} : c <= y
  <2>1. (S \ {a}) \ {b} # {} /\ (S \ {a}) \ {b} \subseteq Nat
    BY <1>1, <1>5, FS_EmptySet
  <2> QED BY <2>1, LeastNatural
<1>7. Below(a) = {} /\ Below(b) = {a} /\ Below(c) = {a, b} /\ a # b
  <2>1. a \in Nat /\ b \in Nat /\ c \in Nat /\ a # b /\ c # a /\ c # b /\ c \in S
    BY <1>1, <1>2, <1>4, <1>6
  <2>2. \A j \in S : j \in Nat /\ a <= j /\ (j # a => b <= j) /\ (j # a /\ j # b => c <= j)
    BY <1>1, <1>2, <1>4, <1>6
  <2>3. a < b /\ a < c /\ b < c
    BY <2>1, <2>2, <1>4
  <2>4. \A j \in S : /\ ~(j < a)
                     /\ j < b <=> j = a
                     /\ j < c <=> j = a \/ j = b
    <3> TAKE j \in S
    <3>1. j \in Nat /\ a <= j /\ (j # a => b <= j) /\ (j # a /\ j # b => c <= j)
      BY <2>2
    <3> QED BY <2>1, <2>3, <3>1
  <2>5. Below(a) = {}
    BY <2>4, Zenon
  <2>6. Below(b) = {a}
    BY <2>1, <2>4
  <2>7. Below(c) = {a, b}
    BY <2>1, <2>4
  <2> QED BY <2>1, <2>5, <2>6, <2>7
<1>8. Cardinality(Below(a)) = 0 /\ Cardinality(Below(b)) = 1 /\ Cardinality(Below(c)) = 2
  <2>1. Cardinality({a, b}) = 2
    <3>1. IsFiniteSet({a}) /\ Cardinality({a}) = 1
      BY FS_Singleton
    <3>2. Cardinality({a} \cup {b}) = Cardinality({a}) + 1
      BY <1>7, <3>1, FS_AddElement
    <3>3. {a} \cup {b} = {a, b}
      OBVIOUS
    <3> QED BY <3>1, <3>2, <3>3
  <2> QED BY <1>7, <2>1, FS_EmptySet, FS_Singleton
<1> HIDE DEF Below
<1>9. ASSUME NEW n, \E i \in S : Cardinality(Below(i)) = n - 1
      PROVE  Third(S, n) \in S /\ Cardinality(Below(Third(S, n))) = n - 1
  BY <1>9 DEF Third, Below
<1>10. /\ Third(S, 1) \in S /\ Cardinality(Below(Third(S, 1))) = 0
       /\ Third(S, 2) \in S /\ Cardinality(Below(Third(S, 2))) = 1
       /\ Third(S, 3) \in S /\ Cardinality(Below(Third(S, 3))) = 2
  <2>1. 1 - 1 = 0 /\ 2 - 1 = 1 /\ 3 - 1 = 2
    OBVIOUS
  <2> QED BY <1>8, <1>9, <2>1
<1> QED BY <1>10

\* The device and free_chain find the three descriptors of a request.
LEMMA ChainIs ==
  ASSUME VTypes, NEW p \in InFlight, ChainOK(p)
  PROVE  /\ Chain(vd.desc, req[p].head) = Own(p) /\ Own(p) \subseteq Desc
         /\ Part(req[p].head, "data") = {DataDesc(p)}
         /\ Part(req[p].head, "status") = {StatusDesc(p)}
<1> DEFINE i == req[p].head  j == DataDesc(p)  k == StatusDesc(p)
<1>1. i \in Desc /\ j \in Desc /\ k \in Desc
  BY DEF VTypes, Driver, RequestState, InFlight, DataDesc, StatusDesc
<1>2. Chain(vd.desc, i) = {i, j, k}
  <2>1. j = vd.desc[i].next /\ k = vd.desc[j].next
    BY DEF DataDesc, StatusDesc
  <2>2. "NEXT" \in vd.desc[i].flags /\ "NEXT" \in vd.desc[j].flags
    BY DEF ChainOK
  <2> HIDE DEF i, j, k
  <2> QED BY <2>1, <2>2 DEF Chain
<1>3. Part(i, "data") = {j}
  BY <1>2 DEF Part, ChainOK
<1>4. Part(i, "status") = {k}
  BY <1>2 DEF Part, ChainOK
<1> QED BY <1>1, <1>2, <1>3, <1>4 DEF Own

LEMMA HeadOfOne ==
  ASSUME ChainsOK, NEW p \in InFlight, NEW q \in InFlight, req[p].head = req[q].head
  PROVE  p = q
BY DEF ChainsOK, Own

\* Requests on a ring are fewer than the ring's entries.
LEMMA RingHasRoom ==
  ASSUME VTypes, ChainsOK, NEW r, NEW a, NEW n \in Nat, Once(r, a, n),
         Entries(r, a, n) \subseteq {req[p].head : p \in InFlight}
  PROVE  n < NUM
<1>1. CASE Entries(r, a, n) = {}
  <2>1. 0 \notin 0 .. n - 1
    BY <1>1 DEF Entries
  <2> QED BY <2>1, Sizes
<1>2. CASE Entries(r, a, n) # {}
  <2>1. PICK p \in InFlight : TRUE
    BY <1>2
  <2>2. DataDesc(p) \in Desc
    BY <2>1, ChainIs DEF ChainsOK, Own
  <2>3. \A q \in InFlight : req[q].head \in Desc /\ req[q].head # DataDesc(p)
    <3> SUFFICES ASSUME NEW q \in InFlight PROVE req[q].head \in Desc /\ req[q].head # DataDesc(p)
      OBVIOUS
    <3>1. req[q].head \in Desc
      BY DEF VTypes, RequestState, InFlight
    <3>2. CASE q = p
      BY <2>1, <3>1, <3>2 DEF ChainsOK, ChainOK
    <3>3. CASE q # p
      BY <2>1, <3>1, <3>3 DEF ChainsOK, Own
    <3> QED BY <3>2, <3>3
  <2>4. Entries(r, a, n) \subseteq Desc \ {DataDesc(p)}
    BY <2>3
  <2> QED BY <2>2, <2>4, RoomInRing
<1> QED BY <1>1, <1>2

\* What a step leaves of a request in flight.
LEMMA ChainKept ==
  ASSUME NEW p \in InFlight, ChainOK(p), req'[p].head = req[p].head,
         \A x \in Own(p) : vd'.desc[x] = vd.desc[x],
         vd'.ops[req[p].head].sector = vd.ops[req[p].head].sector,
         vd'.info[req[p].head].b = vd.info[req[p].head].b, Own(p) \cap vd'.free = {}
  PROVE  ChainOK(p)' /\ Own(p)' = Own(p)
<1>1. DataDesc(p)' = DataDesc(p) /\ StatusDesc(p)' = StatusDesc(p)
  BY DEF Own, DataDesc, StatusDesc
<1>2. Own(p)' = Own(p)
  BY <1>1 DEF Own
<1>3. /\ vd'.desc[req[p].head] = vd.desc[req[p].head] /\ vd'.desc[DataDesc(p)] = vd.desc[DataDesc(p)]
      /\ vd'.desc[StatusDesc(p)] = vd.desc[StatusDesc(p)]
  BY DEF Own
<1> QED BY <1>1, <1>2, <1>3 DEF ChainOK

LEMMA ChainsStay ==
  ASSUME ChainsOK, UNCHANGED <<vd, req>>
  PROVE  ChainsOK' /\ InFlight' = InFlight /\ Sleepers' = Sleepers
<1>1. InFlight' = InFlight /\ Sleepers' = Sleepers
  BY DEF InFlight, Sleepers
<1>2. ASSUME NEW q \in InFlight PROVE ChainOK(q)' /\ Own(q)' = Own(q)
  <2>1. ChainOK(q) /\ Own(q) \cap vd'.free = {}
    BY DEF ChainsOK, ChainOK
  <2> QED BY <2>1, ChainKept
<1> QED BY <1>1, <1>2 DEF ChainsOK

\* Steps of processes that have no request in flight.
LEMMA RequestsKept ==
  ASSUME DiskInv, UNCHANGED <<vd, dev, vlock, vintr, vpanic>>,
         req' \in [Disker -> RequestState],
         \A q \in Disker : \/ req'[q] = req[q]
                           \/ {req[q].pc, req'[q].pc} \cap {"idle", "publish", "sleeping", "woken"} \subseteq {"idle"}
                              /\ req'[q].pc # "idle"
  PROVE  DiskInv'
<1>1. InFlight' = InFlight /\ Sleepers' = Sleepers /\ \A q \in InFlight : req'[q] = req[q]
  BY DEF InFlight, Sleepers
<1>2. Available' = Available /\ Reported' = Reported
  BY DEF Available, Reported, Avail, Used
<1>3. VTypes' /\ VLocks'
  BY DEF DiskInv, VTypes, VLocks
<1>4. ChainsOK'
  <2>1. \A q \in InFlight : ChainOK(q)' /\ Own(q)' = Own(q)
    <3> SUFFICES ASSUME NEW q \in InFlight PROVE ChainOK(q)' /\ Own(q)' = Own(q)
      OBVIOUS
    <3>1. ChainOK(q) /\ vd' = vd /\ req'[q].head = req[q].head
      BY <1>1 DEF DiskInv, ChainsOK
    <3>2. Own(q) \cap vd'.free = {}
      BY <3>1 DEF ChainOK
    <3> QED BY <3>1, <3>2, ChainKept
  <2> QED BY <1>1, <2>1 DEF DiskInv, ChainsOK
<1>5. RingsOK'
  <2>1. {req'[p].head : p \in Sleepers} = {req[p].head : p \in Sleepers}
    BY <1>1 DEF Sleepers, InFlight
  <2>2. Avail' = Avail /\ Used' = Used
    BY DEF Avail, Used
  <2>3. \A p \in Disker : req'[p].pc = "publish" => req'[p] = req[p]
    OBVIOUS
  <2> QED BY <1>1, <1>2, <2>1, <2>2, <2>3 DEF DiskInv, RingsOK
<1>6. DataOK'
  <2>1. \A p \in Disker : Performed(p)' => req'[p] = req[p] /\ Performed(p)
    BY <1>2 DEF Performed
  <2> QED BY <1>2, <2>1 DEF DiskInv, DataOK
<1> QED BY <1>3, <1>4, <1>5, <1>6 DEF DiskInv

LEMMA RwDisk ==
  ASSUME DiskInv, NEW p \in Disker, NEW write \in BOOLEAN, virtio_disk_rw(p, write)
  PROVE  DiskInv'
<1> DEFINE u == [req[p] EXCEPT !.pc = IF write THEN "write" ELSE "read",
                               !.data = IF write THEN 1 - req[p].data ELSE Garbage]
<1>1. req[p] \in RequestState /\ req[p].pc = "idle" /\ u \in RequestState /\ u.pc \in {"write", "read"}
  <2>1. req[p] \in RequestState /\ req[p].pc = "idle" 
    BY DEF DiskInv, VTypes, virtio_disk_rw
  <2>2. (IF write THEN 1 - req[p].data ELSE Garbage) \in Int
    BY <2>1 DEF RequestState, Garbage
  <2> QED BY <2>1, <2>2 DEF RequestState
<1>2. req' = [req EXCEPT ![p] = u]
  BY DEF virtio_disk_rw
<1> HIDE DEF u
<1>3. req' \in [Disker -> RequestState]
  BY <1>1, <1>2 DEF DiskInv, VTypes
<1>4. \A q \in Disker : q # p => req'[q] = req[q]
  BY <1>2 DEF DiskInv, VTypes
<1>5. req'[p] = u
  BY <1>2 DEF DiskInv, VTypes
<1> QED BY <1>1, <1>3, <1>4, <1>5, RequestsKept DEF virtio_disk_rw

\* wakeup moves only those that wait for descriptors.
LEMMA WakeFreeKeeps ==
  ASSUME NEW r \in [Disker -> RequestState], NEW q \in Disker
  PROVE  /\ WakeFree(r)[q] \in RequestState
         /\ \/ WakeFree(r)[q] = r[q]
            \/ r[q].pc \in {"readsleep", "writesleep"} /\ WakeFree(r)[q].pc \in {"read", "write"}
<1> PICK u : u = r[q]
  OBVIOUS
<1>1. u \in RequestState
  OBVIOUS
<1>2. WakeFree(r)[q] = IF u.pc \in {"readsleep", "writesleep"}
        THEN [u EXCEPT !.pc = IF @ = "readsleep" THEN "read" ELSE "write"] ELSE u
  BY DEF WakeFree
<1> QED BY <1>1, <1>2 DEF RequestState

LEMMA Allocated ==
  ASSUME NEW d, d \in Driver, NEW i
  PROVE  LET e == alloc_desc(d, i)
         IN /\ e \in Driver /\ e.free = d.free \ {i} /\ e.desc = d.desc /\ e.ops = d.ops
            /\ e.info = d.info /\ e.ring = d.ring /\ e.idx = d.idx /\ e.used_idx = d.used_idx
<1>1. PICK f \in SUBSET Desc : f = d.free \ {i}
  BY DEF Driver
<1>2. PICK e : e = [d EXCEPT !.free = f]
  OBVIOUS
<1>3. alloc_desc(d, i) = e
  BY <1>1, <1>2 DEF alloc_desc
<1>4. d = [free |-> d.free, desc |-> d.desc, ops |-> d.ops, info |-> d.info,
           ring |-> d.ring, idx |-> d.idx, used_idx |-> d.used_idx]
  BY DEF Driver
<1>5. e = [free |-> f, desc |-> d.desc, ops |-> d.ops, info |-> d.info,
           ring |-> d.ring, idx |-> d.idx, used_idx |-> d.used_idx]
  BY <1>2, <1>4
<1>6. e \in Driver
  BY <1>5 DEF Driver
<1>7. /\ e.free = f /\ e.desc = d.desc /\ e.ops = d.ops
      /\ e.info = d.info /\ e.ring = d.ring /\ e.idx = d.idx /\ e.used_idx = d.used_idx
  BY <1>5
<1> QED BY <1>1, <1>3, <1>6, <1>7

\* e is the driver's state d after a request for p has been written to its descriptors i, j and k.
Filled(e, d, p, i, j, k) ==
  /\ e \in Driver /\ e.free = d.free \ {i, j, k}
  /\ e.idx = d.idx /\ e.used_idx = d.used_idx /\ e.ring = [d.ring EXCEPT ![d.idx % NUM] = i]
  /\ \A x \in Desc \ {i, j, k} : e.desc[x] = d.desc[x]
  /\ \A x \in Desc \ {i} : e.ops[x] = d.ops[x] /\ e.info[x] = d.info[x]
  /\ e.desc[i].addr = <<"op", i>> /\ e.desc[i].next = j /\ "NEXT" \in e.desc[i].flags
  /\ e.desc[j].addr = <<"data", p>> /\ e.desc[j].next = k /\ "NEXT" \in e.desc[j].flags
  /\ e.desc[k].addr = <<"status", i>> /\ "NEXT" \notin e.desc[k].flags
  /\ e.ops[i].sector = p /\ e.info[i].b = p

LEMMA Formatted ==
  ASSUME NEW d, d \in Driver, NEW p \in Disker, NEW write \in BOOLEAN,
         NEW i \in Desc, NEW j \in Desc, NEW k \in Desc, i # j, i # k, j # k
  PROVE  Filled(Format(alloc_desc(alloc_desc(alloc_desc(d, i), j), k), p, write, i, j, k), d, p, i, j, k)
<1> DEFINE D == [addr : {"", "op", "data", "status"} \X Nat, flags : SUBSET {"NEXT", "WRITE"}, next : Desc]
           x1 == [addr |-> <<"op", i>>, flags |-> {"NEXT"}, next |-> j]
           x2 == [addr |-> <<"data", p>>, next |-> k, flags |-> {"NEXT"} \cup IF write THEN {} ELSE {"WRITE"}]
           x3 == [addr |-> <<"status", i>>, flags |-> {"WRITE"}, next |-> 0]
           o == [write |-> write, sector |-> p]
           n == [b |-> p, status |-> 255]
           e == Format(alloc_desc(alloc_desc(alloc_desc(d, i), j), k), p, write, i, j, k)
<1>1. x1 \in D /\ x2 \in D /\ x3 \in D
  <2>1. i \in Nat /\ p \in Nat /\ 0 \in Desc
    BY Sizes DEF Desc
  <2> QED BY <2>1
<1>2. o \in [write : BOOLEAN, sector : Disker \cup {0}] /\ n \in [b : Disker \cup {0}, status : {0, 255}]
  OBVIOUS
<1>3. /\ x1.addr = <<"op", i>> /\ x1.next = j /\ "NEXT" \in x1.flags
      /\ x2.addr = <<"data", p>> /\ x2.next = k /\ "NEXT" \in x2.flags
      /\ x3.addr = <<"status", i>> /\ "NEXT" \notin x3.flags /\ o.sector = p /\ n.b = p
  OBVIOUS
<1>4. e = [free |-> ((d.free \ {i}) \ {j}) \ {k},
           desc |-> [d.desc EXCEPT ![i] = x1, ![j] = x2, ![k] = x3],
           ops |-> [d.ops EXCEPT ![i] = o], info |-> [d.info EXCEPT ![i] = n],
           ring |-> [d.ring EXCEPT ![d.idx % NUM] = i], idx |-> d.idx, used_idx |-> d.used_idx]
  <2>1. PICK d1 : d1 = alloc_desc(d, i)
    OBVIOUS
  <2>2. PICK d2 : d2 = alloc_desc(d1, j)
    OBVIOUS
  <2>3. PICK d3 : d3 = alloc_desc(d2, k)
    OBVIOUS
  <2>4. /\ d3 \in Driver /\ d3.free = ((d.free \ {i}) \ {j}) \ {k} /\ d3.desc = d.desc /\ d3.ops = d.ops
        /\ d3.info = d.info /\ d3.ring = d.ring /\ d3.idx = d.idx /\ d3.used_idx = d.used_idx
    BY <2>1, <2>2, <2>3, Allocated
  <2>5. e = Format(d3, p, write, i, j, k)
    BY <2>1, <2>2, <2>3
  <2> HIDE DEF e
  <2>6. e = [free |-> d3.free,
             desc |-> [d3.desc EXCEPT ![i] = x1, ![j] = x2, ![k] = x3],
             ops |-> [d3.ops EXCEPT ![i] = o], info |-> [d3.info EXCEPT ![i] = n],
             ring |-> [d3.ring EXCEPT ![d3.idx % NUM] = i], idx |-> d3.idx, used_idx |-> d3.used_idx]
    <3>1. e = [d3 EXCEPT !.ops[i] = o, !.desc[i] = x1, !.desc[j] = x2, !.desc[k] = x3,
                         !.info[i] = n, !.ring[d3.idx % NUM] = i]
      BY <2>5 DEF Format
    <3> HIDE DEF o, x1, x2, x3, n
    <3> QED BY ZenonT(60), <2>4, <3>1 DEF Driver
  <2> QED BY <2>4, <2>6
<1>5. d.idx % NUM \in Desc
  BY EntryType DEF Driver
<1> HIDE DEF x1, x2, x3, o, n, e, D
<1>6. /\ [d.desc EXCEPT ![i] = x1, ![j] = x2, ![k] = x3] \in [Desc -> D]
      /\ [d.ops EXCEPT ![i] = o] \in [Desc -> [write : BOOLEAN, sector : Disker \cup {0}]]
      /\ [d.info EXCEPT ![i] = n] \in [Desc -> [b : Disker \cup {0}, status : {0, 255}]]
      /\ [d.ring EXCEPT ![d.idx % NUM] = i] \in [Desc -> Desc]
  BY <1>1, <1>2, <1>5 DEF Driver, D
<1>7. e \in Driver /\ e.free = d.free \ {i, j, k}
  BY <1>4, <1>6 DEF Driver, D
<1>8. /\ e.desc[i] = x1 /\ e.desc[j] = x2 /\ e.desc[k] = x3 /\ e.ops[i] = o /\ e.info[i] = n
      /\ \A x \in Desc \ {i, j, k} : e.desc[x] = d.desc[x]
      /\ \A x \in Desc \ {i} : e.ops[x] = d.ops[x] /\ e.info[x] = d.info[x]
  <2>1. /\ e.desc = [d.desc EXCEPT ![i] = x1, ![j] = x2, ![k] = x3]
        /\ e.ops = [d.ops EXCEPT ![i] = o] /\ e.info = [d.info EXCEPT ![i] = n]
    BY <1>4
  <2>2. /\ d.desc = [x \in Desc |-> d.desc[x]] /\ d.ops = [x \in Desc |-> d.ops[x]]
        /\ d.info = [x \in Desc |-> d.info[x]]
    <3>1. /\ d.desc \in [Desc -> D] /\ d.ops \in [Desc -> [write : BOOLEAN, sector : Disker \cup {0}]]
          /\ d.info \in [Desc -> [b : Disker \cup {0}, status : {0, 255}]]
      BY DEF Driver, D
    <3> QED BY <3>1
  <2> QED BY <2>1, <2>2
<1>9. e.idx = d.idx /\ e.used_idx = d.used_idx /\ e.ring = [d.ring EXCEPT ![d.idx % NUM] = i]
  BY <1>4
<1>10. Filled(e, d, p, i, j, k)
  BY <1>3, <1>7, <1>8, <1>9 DEF Filled
<1> QED BY <1>10 DEF e

LEMMA Alloc3Disk ==
  ASSUME DiskInv, NEW p \in Disker, alloc3_desc(p)
  PROVE  DiskInv'
<1>1. req[p].pc \in {"read", "write"} /\ vlock = Nobody /\ UNCHANGED <<dev, vintr, vpanic>>
  BY DEF alloc3_desc
<1>2. vd \in Driver /\ dev \in DeviceState /\ req \in [Disker -> RequestState]
  BY DEF DiskInv, VTypes
<1>3. CASE Cardinality(vd.free) < 3
  <2> DEFINE r == IF vd.free = {} THEN req ELSE WakeFree(req)
             pc == IF req[p].pc = "write" THEN "writesleep" ELSE "readsleep"
  <2>1. UNCHANGED <<vd, vlock>> /\ req' = [r EXCEPT ![p].pc = pc]
    BY <1>3 DEF alloc3_desc
  <2>2. /\ r = [q \in Disker |-> r[q]]
        /\ \A q \in Disker : /\ r[q] \in RequestState
                             /\ \/ r[q] = req[q]
                                \/ /\ req[q].pc \in {"readsleep", "writesleep"}
                                   /\ r[q].pc \in {"read", "write"}
    <3>1. CASE vd.free = {}
      BY <1>2, <3>1
    <3>2. CASE vd.free # {}
      <4>1. WakeFree(req) = [q \in Disker |-> WakeFree(req)[q]]
        BY DEF WakeFree
      <4> QED BY <1>2, <3>2, <4>1, WakeFreeKeeps
    <3> QED BY <3>1, <3>2
  <2> HIDE DEF r
  <2>3. [r[p] EXCEPT !.pc = pc] \in RequestState /\ [r[p] EXCEPT !.pc = pc].pc \in {"readsleep", "writesleep"}
    BY <2>2 DEF RequestState
  <2>4. req' = [r EXCEPT ![p] = [r[p] EXCEPT !.pc = pc]]
    BY <2>1
  <2>5. req' \in [Disker -> RequestState] /\ req'[p].pc \in {"readsleep", "writesleep"}
        /\ \A q \in Disker : q # p => req'[q] = r[q]
    BY <2>2, <2>3, <2>4
  <2>6. \A q \in Disker : \/ req'[q] = req[q]
                          \/ {req[q].pc, req'[q].pc} \cap {"idle", "publish", "sleeping", "woken"} \subseteq {"idle"}
                             /\ req'[q].pc # "idle"
    BY <1>1, <2>2, <2>5
  <2> QED BY <1>1, <2>1, <2>5, <2>6, RequestsKept
<1>4. CASE ~(Cardinality(vd.free) < 3)
  <2> DEFINE i == Third(vd.free, 1)  j == Third(vd.free, 2)  k == Third(vd.free, 3)
             u == [req[p] EXCEPT !.pc = "publish", !.head = i, !.disk = TRUE]
  <2>1. i \in vd.free /\ j \in vd.free /\ k \in vd.free /\ i # j /\ i # k /\ j # k /\ vd.free \subseteq Desc
    BY <1>2, <1>4, ThreeFree DEF Driver
  <2>2. /\ vd' = Format(alloc_desc(alloc_desc(alloc_desc(vd, i), j), k), p, req[p].pc = "write", i, j, k)
        /\ req' = [req EXCEPT ![p] = u] /\ vlock' = p
    BY <1>4 DEF alloc3_desc
  <2> HIDE DEF i, j, k
  <2>3. u \in RequestState /\ u.pc = "publish" /\ u.head = i /\ u.disk
    BY <1>2, <2>1 DEF RequestState
  <2> HIDE DEF u
  <2>4. /\ vd' \in Driver /\ vd'.free = vd.free \ {i, j, k}
        /\ vd'.idx = vd.idx /\ vd'.used_idx = vd.used_idx /\ vd'.ring = [vd.ring EXCEPT ![vd.idx % NUM] = i]
        /\ \A x \in Desc \ {i, j, k} : vd'.desc[x] = vd.desc[x]
        /\ \A x \in Desc \ {i} : vd'.ops[x] = vd.ops[x] /\ vd'.info[x] = vd.info[x]
        /\ vd'.desc[i].addr = <<"op", i>> /\ vd'.desc[i].next = j /\ "NEXT" \in vd'.desc[i].flags
        /\ vd'.desc[j].addr = <<"data", p>> /\ vd'.desc[j].next = k /\ "NEXT" \in vd'.desc[j].flags
        /\ vd'.desc[k].addr = <<"status", i>> /\ "NEXT" \notin vd'.desc[k].flags
        /\ vd'.ops[i].sector = p /\ vd'.info[i].b = p
    <3>1. PICK w \in BOOLEAN : w = (req[p].pc = "write")
      OBVIOUS
    <3>2. PICK d \in Driver : d = vd
      BY <1>2
    <3>3. PICK e : e = Format(alloc_desc(alloc_desc(alloc_desc(d, i), j), k), p, w, i, j, k)
      OBVIOUS
    <3>4. vd' = e
      BY <2>2, <3>1, <3>2, <3>3
    <3>5. i \in Desc /\ j \in Desc /\ k \in Desc
      BY <1>2, <2>1
    <3>6. i # j /\ i # k /\ j # k
      BY <2>1
    <3>7. Filled(e, d, p, i, j, k)
      BY <3>3, <3>5, <3>6, Formatted
    <3> QED BY <3>2, <3>4, <3>7 DEF Filled
  <2>5. /\ req' \in [Disker -> RequestState] /\ req'[p] = u
        /\ \A q \in Disker : q # p => req'[q] = req[q]
    BY <1>2, <2>2, <2>3
  <2>6. InFlight' = InFlight \cup {p} /\ p \notin InFlight /\ Sleepers' = Sleepers /\ Sleepers \subseteq InFlight
    BY <1>1, <2>3, <2>5 DEF InFlight, Sleepers
  <2>7. VTypes' /\ VLocks'
    <3>1. VTypes'
      BY <1>1, <1>2, <2>4, <2>5 DEF VTypes
    <3>2. \A q \in Disker : q # p => req'[q] = req[q] /\ req[q].pc # "publish"
      BY <1>1, <2>5, Sizes DEF DiskInv, VLocks
    <3>3. vlock' = p /\ p # Handler /\ vintr \notin {"loop", "leave"}
      BY <1>1, <2>2, Sizes DEF DiskInv, VLocks
    <3>4. VLocks'
      BY <1>1, <2>3, <2>5, <3>2, <3>3 DEF DiskInv, VLocks
    <3> QED BY <3>1, <3>4
  <2>8. ASSUME NEW q \in InFlight
        PROVE  ChainOK(q)' /\ Own(q)' = Own(q) /\ Own(q) \cap {i, j, k} = {} /\ req[q].head \in Desc \ {i}
    <3>1. ChainOK(q) /\ Own(q) \subseteq Desc /\ q # p /\ q \in Disker
      BY <2>6, ChainIs DEF DiskInv, ChainsOK, InFlight
    <3>2. Own(q) \cap {i, j, k} = {}
      BY <2>1, <3>1 DEF ChainOK
    <3>3. req[q].head \in Desc \ {i}
      BY <3>1, <3>2 DEF Own
    <3>4. /\ req'[q].head = req[q].head /\ \A x \in Own(q) : vd'.desc[x] = vd.desc[x]
          /\ vd'.ops[req[q].head] = vd.ops[req[q].head] /\ vd'.info[req[q].head] = vd.info[req[q].head]
      BY <2>4, <2>5, <3>1, <3>2, <3>3
    <3>5. Own(q) \cap vd'.free = {}
      BY <2>4, <3>1 DEF ChainOK
    <3>6. ChainOK(q)' /\ Own(q)' = Own(q)
      BY <3>1, <3>4, <3>5, ChainKept
    <3> QED BY <3>2, <3>3, <3>6
  <2>9. ChainOK(p)' /\ Own(p)' = {i, j, k}
    BY <2>1, <2>3, <2>4, <2>5 DEF ChainOK, Own, DataDesc, StatusDesc
  <2>10. ChainsOK'
    BY <2>6, <2>8, <2>9 DEF DiskInv, ChainsOK
  <2>11. Available' = Available /\ Reported' = Reported /\ Once(vd'.ring, dev'.seen, Avail') /\ Avail' = Avail
         /\ Used' = Used /\ vd'.ring[vd'.idx % NUM] = i
    <3>1. Avail \in 0 .. NUM - 1 /\ (dev.seen + Avail) % WRAP = vd.idx /\ vd.idx \in Index /\ dev.seen \in Index
      <4>1. dev.seen \in Index /\ vd.idx \in Index
        BY <1>2 DEF Driver, DeviceState
      <4>2. Avail \in Nat /\ (dev.seen + Avail) % WRAP = vd.idx
        <5>1. WRAP \in Nat \ {0} /\ dev.seen \in 0 .. WRAP - 1 /\ vd.idx \in 0 .. WRAP - 1
          BY <4>1, Sizes DEF Index
        <5> QED BY <5>1, Moving DEF Avail
      <4>3. Available \subseteq {req[q].head : q \in InFlight}
        BY <2>6 DEF DiskInv, RingsOK
      <4>4. Avail < NUM
        BY <4>2, <4>3, RingHasRoom DEF DiskInv, RingsOK, Available
      <4> QED BY <4>1, <4>2, <4>4, Sizes
    <3>2. Avail' = Avail /\ Used' = Used
      BY <1>1, <2>4 DEF Avail, Used
    <3>3. /\ Entries(vd'.ring, dev.seen, Avail) = Available /\ Once(vd'.ring, dev.seen, Avail)
          /\ vd'.ring[vd.idx % NUM] = i
      <4>1. vd.ring \in [Desc -> Desc] /\ Once(vd.ring, dev.seen, Avail)
        BY <1>2 DEF DiskInv, RingsOK, Driver
      <4>2. vd'.ring = [vd.ring EXCEPT ![vd.idx % NUM] = i]
        BY <2>4
      <4>3. PICK r \in [Desc -> Desc], a \in Index, n \in 0 .. NUM - 1, b \in Index :
              r = vd.ring /\ a = dev.seen /\ n = Avail /\ b = vd.idx
        BY <3>1, <4>1
      <4>4. PICK s, h : s = vd'.ring /\ h = i
        OBVIOUS
      <4>5. s = Put(r, b % NUM, h) /\ (a + n) % WRAP = b /\ Once(r, a, n)
        BY <3>1, <4>1, <4>2, <4>3, <4>4 DEF Put
      <4>6. Entries(s, a, n) = Entries(r, a, n) /\ Once(s, a, n) /\ s[b % NUM] = h
        BY <4>5, EntryFilled
      <4> QED BY <4>3, <4>4, <4>6 DEF Available
    <3> QED BY <1>1, <2>4, <3>2, <3>3 DEF Available, Reported
  <2>12. RingsOK'
    <3>1. {req'[q].head : q \in Sleepers} = {req[q].head : q \in Sleepers}
      BY <2>5, <2>6 DEF Sleepers
    <3>2. \A q \in Disker : req'[q].pc = "publish" => q = p
      BY <1>1, <2>5, Sizes DEF DiskInv, VLocks
    <3> QED BY <1>1, <2>3, <2>4, <2>5, <2>6, <2>11, <3>1, <3>2 DEF DiskInv, RingsOK
  <2>13. DataOK'
    <3>1. ASSUME NEW h \in Reported PROVE vd'.info[h].status = 0
      <4>1. PICK q \in Sleepers : h = req[q].head
        BY DEF DiskInv, RingsOK
      <4>2. h \in Desc \ {i}
        BY <2>6, <2>8, <4>1
      <4> QED BY <2>4, <4>2 DEF DiskInv, DataOK
    <3>2. \A q \in Disker : Performed(q)' => q # p /\ Performed(q)
      BY <2>3, <2>5, <2>11 DEF Performed
    <3> QED BY <1>1, <2>5, <2>11, <3>1, <3>2 DEF DiskInv, DataOK
  <2> QED BY <1>1, <2>7, <2>10, <2>12, <2>13 DEF DiskInv
<1> QED BY <1>3, <1>4

LEMMA Windows ==
  ASSUME VTypes, ChainsOK, RingsOK
  PROVE  /\ dev.seen \in Index /\ vd.idx \in Index /\ vd.used_idx \in Index /\ dev.idx \in Index
         /\ Avail \in 0 .. NUM - 1 /\ (dev.seen + Avail) % WRAP = vd.idx
         /\ Used \in 0 .. NUM - 1 /\ (vd.used_idx + Used) % WRAP = dev.idx
         /\ Avail = 0 <=> dev.seen = vd.idx
         /\ Used = 0 <=> vd.used_idx = dev.idx
         /\ Available \cup dev.busy \cup Reported \subseteq {req[p].head : p \in InFlight}
<1>1. dev.seen \in Index /\ vd.idx \in Index /\ vd.used_idx \in Index /\ dev.idx \in Index
  BY DEF VTypes, Driver, DeviceState
<1>2. WRAP \in Nat \ {0} /\ NUM \in Nat \ {0} /\ Index = 0 .. WRAP - 1
  BY Sizes DEF Index
<1>3. Avail \in Nat /\ (dev.seen + Avail) % WRAP = vd.idx /\ (Avail = 0 <=> dev.seen = vd.idx)
  <2>1. PICK a \in 0 .. WRAP - 1, b \in 0 .. WRAP - 1 : a = dev.seen /\ b = vd.idx
    BY <1>1, <1>2
  <2>2. Avail = (b - a) % WRAP
    BY <2>1 DEF Avail
  <2>3. /\ (b - a) % WRAP \in 0 .. WRAP - 1 /\ (a + ((b - a) % WRAP)) % WRAP = b
        /\ (b - a) % WRAP = 0 <=> a = b
    BY <1>2, Moving
  <2>4. Avail \in 0 .. WRAP - 1 /\ (a + Avail) % WRAP = b /\ (Avail = 0 <=> a = b)
    BY <2>2, <2>3
  <2> QED BY <1>2, <2>1, <2>4
<1>4. Used \in Nat /\ (vd.used_idx + Used) % WRAP = dev.idx /\ (Used = 0 <=> vd.used_idx = dev.idx)
  <2>1. PICK a \in 0 .. WRAP - 1, b \in 0 .. WRAP - 1 : a = vd.used_idx /\ b = dev.idx
    BY <1>1, <1>2
  <2>2. Used = (b - a) % WRAP
    BY <2>1 DEF Used
  <2>3. /\ (b - a) % WRAP \in 0 .. WRAP - 1 /\ (a + ((b - a) % WRAP)) % WRAP = b
        /\ (b - a) % WRAP = 0 <=> a = b
    BY <1>2, Moving
  <2>4. Used \in 0 .. WRAP - 1 /\ (a + Used) % WRAP = b /\ (Used = 0 <=> a = b)
    BY <2>2, <2>3
  <2> QED BY <1>2, <2>1, <2>4
<1>5. Available \cup dev.busy \cup Reported \subseteq {req[p].head : p \in InFlight}
  BY DEF RingsOK, Sleepers, InFlight
<1>6. Avail < NUM
  BY <1>3, <1>5, RingHasRoom DEF RingsOK, Available
<1>7. Used < NUM
  BY <1>4, <1>5, RingHasRoom DEF RingsOK, Reported
<1> QED BY <1>1, <1>2, <1>3, <1>4, <1>5, <1>6, <1>7

LEMMA PublishDisk ==
  ASSUME DiskInv, NEW p \in Disker, publish(p)
  PROVE  DiskInv'
<1>1. /\ req[p].pc = "publish" /\ vlock' = Nobody /\ UNCHANGED <<dev, vintr, vpanic>>
      /\ vd' = [vd EXCEPT !.idx = (vd.idx + 1) % WRAP] /\ req' = [req EXCEPT ![p].pc = "sleeping"]
  BY DEF publish
<1>2. vd \in Driver /\ dev \in DeviceState /\ req \in [Disker -> RequestState]
  BY DEF DiskInv, VTypes
<1>3. /\ dev.seen \in Index /\ vd.idx \in Index /\ Avail \in 0 .. NUM - 1 /\ (dev.seen + Avail) % WRAP = vd.idx
      /\ Available \cup dev.busy \cup Reported \subseteq {req[q].head : q \in InFlight}
  BY Windows DEF DiskInv
<1>4. PICK c : c = (vd.idx + 1) % WRAP
  OBVIOUS
<1>5. c \in Index
  BY <1>3, <1>4, Sizes, Moving DEF Index
<1>6. /\ vd' \in Driver /\ vd'.idx = c /\ vd'.free = vd.free /\ vd'.desc = vd.desc /\ vd'.ops = vd.ops
      /\ vd'.info = vd.info /\ vd'.ring = vd.ring /\ vd'.used_idx = vd.used_idx
  <2>1. vd' = [free |-> vd.free, desc |-> vd.desc, ops |-> vd.ops, info |-> vd.info,
               ring |-> vd.ring, idx |-> c, used_idx |-> vd.used_idx]
    BY <1>1, <1>2, <1>4 DEF Driver
  <2>2. vd.used_idx \in Index
    BY <1>2 DEF Driver
  <2> QED BY <1>2, <1>5, <2>1, <2>2, DriverIs
<1>7. /\ req' \in [Disker -> RequestState] /\ \A q \in Disker : q # p => req'[q] = req[q]
      /\ req'[p].pc = "sleeping" /\ req'[p].head = req[p].head /\ req'[p].data = req[p].data
      /\ req'[p].disk = req[p].disk
  <2>1. req[p] \in RequestState /\ req' = [req EXCEPT ![p] = [req[p] EXCEPT !.pc = "sleeping"]]
    BY <1>1, <1>2
  <2>2. PICK u : u = [req[p] EXCEPT !.pc = "sleeping"]
    OBVIOUS
  <2>3. u \in RequestState /\ u.pc = "sleeping" /\ u.head = req[p].head /\ u.data = req[p].data /\ u.disk = req[p].disk
    BY <2>1, <2>2 DEF RequestState
  <2> QED BY <1>2, <2>1, <2>2, <2>3
<1>8. /\ InFlight' = InFlight /\ Sleepers' = Sleepers \cup {p} /\ p \notin Sleepers /\ p \in InFlight
      /\ Sleepers \subseteq InFlight
  BY <1>1, <1>7 DEF InFlight, Sleepers
<1>9. VTypes' /\ VLocks'
  <2>1. \A q \in Disker : q # p => req[q].pc # "publish"
    BY <1>1, Sizes DEF DiskInv, VLocks
  <2>2. vintr \notin {"loop", "leave"}
    BY <1>1, Sizes DEF DiskInv, VLocks
  <2> QED BY <1>1, <1>2, <1>6, <1>7, <2>1, <2>2, Sizes DEF DiskInv, VTypes, VLocks
<1>10. ChainsOK'
  <2>1. \A q \in InFlight : ChainOK(q)' /\ Own(q)' = Own(q)
    <3> SUFFICES ASSUME NEW q \in InFlight PROVE ChainOK(q)' /\ Own(q)' = Own(q)
      OBVIOUS
    <3>1. ChainOK(q) /\ req'[q].head = req[q].head
      BY <1>7 DEF DiskInv, ChainsOK, InFlight
    <3>2. Own(q) \cap vd'.free = {}
      BY <1>6, <3>1 DEF ChainOK
    <3> QED BY <1>6, <3>1, <3>2, ChainKept
  <2> QED BY <1>8, <2>1 DEF DiskInv, ChainsOK
<1>11. req[p].head \notin {req[q].head : q \in Sleepers}
  BY <1>8, HeadOfOne DEF DiskInv
<1>12. vd.ring[vd.idx % NUM] = req[p].head
  BY <1>1 DEF DiskInv, RingsOK
<1>13. /\ Entries(vd.ring, dev.seen, Avail + 1) = Available \cup {req[p].head}
       /\ Once(vd.ring, dev.seen, Avail + 1)
  <2>1. PICK r \in [Desc -> Desc], a \in Index, n \in 0 .. NUM - 1, b \in Index :
           r = vd.ring /\ a = dev.seen /\ n = Avail /\ b = vd.idx
    BY <1>2, <1>3 DEF Driver
  <2>2. Once(r, a, n) /\ (a + n) % WRAP = b /\ r[b % NUM] \notin Entries(r, a, n) /\ n \in Nat
    BY <1>3, <1>11, <1>12, <2>1, Sizes DEF DiskInv, RingsOK, Available
  <2>3. Entries(r, a, n + 1) = Entries(r, a, n) \cup {r[b % NUM]} /\ Once(r, a, n + 1)
    BY <2>2, EntryAdded
  <2> QED BY <1>12, <2>1, <2>3 DEF Available
<1>14. Avail + 1 \in 0 .. NUM - 1
  <2>1. Avail + 1 \in Nat /\ Avail + 1 >= 0
    BY <1>3
  <2>2. Entries(vd.ring, dev.seen, Avail + 1) \subseteq {req[q].head : q \in InFlight}
    BY <1>3, <1>8, <1>13
  <2>3. Avail + 1 < NUM
    BY <1>13, <2>1, <2>2, RingHasRoom DEF DiskInv
  <2> QED BY <2>1, <2>3, Sizes
<1>15. Avail' = Avail + 1 /\ Used' = Used /\ Available' = Available \cup {req[p].head} /\ Reported' = Reported
  <2>1. Avail # WRAP - 1
    BY <1>3, <1>14, Sizes
  <2>2. Avail' = (c - dev.seen) % WRAP
    BY <1>1, <1>6 DEF Avail
  <2>3. (c - dev.seen) % WRAP = Avail + 1
    <3>1. PICK a \in Index, b \in Index : a = dev.seen /\ b = vd.idx
      BY <1>3
    <3>2. Avail = (b - a) % WRAP /\ c = (b + 1) % WRAP
      BY <1>4, <3>1 DEF Avail
    <3>3. (((b + 1) % WRAP) - a) % WRAP = ((b - a) % WRAP) + 1
      BY <2>1, <3>2, WindowMoves
    <3> QED BY <3>1, <3>2, <3>3
  <2>4. Used' = Used
    BY <1>1, <1>6 DEF Used
  <2> QED BY <1>1, <1>6, <1>13, <2>2, <2>3, <2>4 DEF Available, Reported
<1>16. RingsOK'
  <2>1. {req'[q].head : q \in Sleepers \cup {p}} = {req[q].head : q \in Sleepers} \cup {req[p].head}
    BY <1>7, <1>8 DEF Sleepers
  <2>2. \A q \in Disker : req'[q].pc # "publish"
    BY <1>1, <1>7, Sizes DEF DiskInv, VLocks
  <2>3. Once(vd'.ring, dev'.seen, Avail') /\ Once(dev'.ring, vd'.used_idx, Used')
    BY <1>1, <1>6, <1>13, <1>15 DEF DiskInv, RingsOK
  <2>4. /\ Available \cup dev.busy \cup Reported = {req[q].head : q \in Sleepers}
        /\ Available \cap dev.busy = {} /\ Available \cap Reported = {} /\ dev.busy \cap Reported = {}
    BY DEF DiskInv, RingsOK
  <2>5. /\ Available' \cup dev'.busy \cup Reported' = {req'[q].head : q \in Sleepers'}
        /\ Available' \cap dev'.busy = {} /\ Available' \cap Reported' = {} /\ dev'.busy \cap Reported' = {}
    BY <1>1, <1>8, <1>11, <1>15, <2>1, <2>4
  <2> QED BY <2>2, <2>3, <2>5 DEF RingsOK
<1>17. DataOK'
  <2>1. req[p].head \notin Reported
    BY <1>11 DEF DiskInv, RingsOK
  <2>2. \A q \in Disker : Performed(q)' => q # p /\ Performed(q)
    BY <1>7, <1>15, <2>1 DEF Performed
  <2> QED BY <1>1, <1>6, <1>7, <1>15, <2>2 DEF DiskInv, DataOK
<1> QED BY <1>1, <1>9, <1>10, <1>16, <1>17 DEF DiskInv

LEMMA FetchDisk ==
  ASSUME DiskInv, fetch
  PROVE  DiskInv'
<1>1. /\ dev.seen # vd.idx /\ UNCHANGED <<vd, req, vlock, vintr, vpanic>>
      /\ dev' = [dev EXCEPT !.seen = (dev.seen + 1) % WRAP, !.busy = dev.busy \cup {vd.ring[dev.seen % NUM]}]
  BY DEF fetch
<1>2. vd \in Driver /\ dev \in DeviceState /\ req \in [Disker -> RequestState]
  BY DEF DiskInv, VTypes
<1>3. /\ dev.seen \in Index /\ vd.idx \in Index /\ Avail \in 0 .. NUM - 1 /\ Avail # 0
  BY <1>1, Windows DEF DiskInv
<1>4. PICK c, h : c = (dev.seen + 1) % WRAP /\ h = vd.ring[dev.seen % NUM]
  OBVIOUS
<1>5. c \in Index /\ h \in Desc
  <2>1. c \in Index
    BY <1>3, <1>4, Sizes, Moving DEF Index
  <2>2. dev.seen % NUM \in Desc
    BY <1>3, EntryType
  <2> QED BY <1>2, <1>4, <2>1, <2>2 DEF Driver
<1>6. /\ dev' \in DeviceState /\ dev'.seen = c /\ dev'.busy = dev.busy \cup {h} /\ dev'.ring = dev.ring
      /\ dev'.idx = dev.idx /\ dev'.platter = dev.platter
  BY <1>1, <1>2, <1>4, <1>5 DEF DeviceState
<1>7. h \in Available /\ Once(vd.ring, c, Avail - 1) /\ Entries(vd.ring, c, Avail - 1) = Available \ {h}
  <2>1. Avail \in 1 .. WRAP - 1
    BY <1>3, Sizes
  <2>3. PICK r \in [Desc -> Desc], a \in Index, n \in 1 .. WRAP - 1 : r = vd.ring /\ a = dev.seen /\ n = Avail
    BY <1>2, <1>3, <2>1 DEF Driver
  <2>2. Once(r, a, n)
    BY <2>3 DEF DiskInv, RingsOK
  <2> QED BY <1>4, <2>2, <2>3, EntryTaken DEF Available
<1>8. Avail' = Avail - 1 /\ Used' = Used /\ Available' = Available \ {h} /\ Reported' = Reported
  <2>1. (vd.idx - c) % WRAP = Avail - 1
    <3>1. PICK a \in Index, b \in Index : a = dev.seen /\ b = vd.idx
      BY <1>3
    <3>2. Avail = (b - a) % WRAP /\ c = (a + 1) % WRAP
      BY <1>4, <3>1 DEF Avail
    <3>3. (b - ((a + 1) % WRAP)) % WRAP = ((b - a) % WRAP) - 1
      BY <1>3, <3>2, WindowMoves
    <3> QED BY <3>1, <3>2, <3>3
  <2>2. Avail' = Avail - 1 /\ Used' = Used
    BY <1>1, <1>6, <2>1 DEF Avail, Used
  <2> QED BY <1>1, <1>6, <1>7, <2>2 DEF Available, Reported
<1>9. InFlight' = InFlight /\ Sleepers' = Sleepers
  BY <1>1 DEF InFlight, Sleepers
<1>10. VTypes' /\ VLocks'
  BY <1>1, <1>2, <1>6 DEF DiskInv, VTypes, VLocks
<1>11. ChainsOK'
  BY <1>1, ChainsStay DEF DiskInv
<1>12. RingsOK'
  <2>1. /\ Available \cup dev.busy \cup Reported = {req[q].head : q \in Sleepers}
        /\ Available \cap dev.busy = {} /\ Available \cap Reported = {} /\ dev.busy \cap Reported = {}
    BY DEF DiskInv, RingsOK
  <2>2. /\ Available' \cup dev'.busy \cup Reported' = {req'[q].head : q \in Sleepers'}
        /\ Available' \cap dev'.busy = {} /\ Available' \cap Reported' = {} /\ dev'.busy \cap Reported' = {}
    BY <1>1, <1>6, <1>7, <1>8, <1>9, <2>1
  <2>3. Once(vd'.ring, dev'.seen, Avail') /\ Once(dev'.ring, vd'.used_idx, Used')
    BY <1>1, <1>6, <1>7, <1>8 DEF DiskInv, RingsOK
  <2> QED BY <1>1, <2>2, <2>3 DEF DiskInv, RingsOK
<1>13. DataOK'
  BY <1>1, <1>6, <1>8 DEF DiskInv, DataOK, Performed
<1> QED BY <1>1, <1>10, <1>11, <1>12, <1>13 DEF DiskInv

LEMMA PerformDisk ==
  ASSUME DiskInv, NEW h \in dev.busy, perform(h)
  PROVE  DiskInv'
<1>1. PICK p \in Sleepers : h = req[p].head
  BY DEF DiskInv, RingsOK
<1>2. vd \in Driver /\ dev \in DeviceState /\ req \in [Disker -> RequestState] /\ h \in Desc
  BY DEF DiskInv, VTypes, DeviceState
<1>3. p \in InFlight /\ p \in Disker /\ ChainOK(p) /\ req[p].pc = "sleeping" /\ p \in Nat /\ p # 0
  BY <1>1, Sizes DEF DiskInv, ChainsOK, InFlight, Sleepers
<1>4. /\ vd.ops[h].sector = p /\ vd.desc[CHOOSE i \in Part(h, "data") : TRUE].addr[2] = p
      /\ vd.desc[CHOOSE i \in Part(h, "status") : TRUE].addr[2] = h
  <2>1. Part(h, "data") = {DataDesc(p)} /\ Part(h, "status") = {StatusDesc(p)}
    BY <1>1, <1>3, ChainIs DEF DiskInv
  <2>2. (CHOOSE i \in Part(h, "data") : TRUE) = DataDesc(p) /\ (CHOOSE i \in Part(h, "status") : TRUE) = StatusDesc(p)
    BY <2>1
  <2>3. /\ vd.ops[h].sector = p /\ vd.desc[DataDesc(p)].addr = <<"data", p>>
        /\ vd.desc[StatusDesc(p)].addr = <<"status", h>>
    BY <1>1, <1>3 DEF ChainOK
  <2>4. vd.desc[DataDesc(p)].addr[2] = p /\ vd.desc[StatusDesc(p)].addr[2] = h
    BY <2>3
  <2> QED BY <2>2, <2>3, <2>4
<1>5. PICK c, w, x : c = (dev.idx + 1) % WRAP /\ w = vd.ops[h].write /\ x = dev.platter[p]
  OBVIOUS
<1>6. /\ dev' = [dev EXCEPT !.busy = dev.busy \ {h}, !.ring[dev.idx % NUM] = h, !.irq = TRUE,
                            !.idx = c, !.platter[p] = IF w THEN req[p].data ELSE x]
      /\ req' = IF w THEN req ELSE [req EXCEPT ![p].data = x]
      /\ vd' = [vd EXCEPT !.info[h].status = 0]
      /\ UNCHANGED <<vlock, vintr, vpanic>>
  BY <1>4, <1>5 DEF perform
<1>7. /\ vd.used_idx \in Index /\ dev.idx \in Index /\ Used \in 0 .. NUM - 1 /\ (vd.used_idx + Used) % WRAP = dev.idx
      /\ Available \cup dev.busy \cup Reported \subseteq {req[q].head : q \in InFlight} /\ dev.idx % NUM \in Desc
  BY Windows, EntryType DEF DiskInv
<1>8. c \in Index /\ x \in Int
  BY <1>2, <1>3, <1>5, <1>7, Sizes, Moving DEF Index, DeviceState
<1>9. PICK y : y = IF w THEN req[p].data ELSE x
  OBVIOUS
<1>10. y \in Int
  BY <1>2, <1>3, <1>8, <1>9 DEF RequestState
<1>11. /\ dev' \in DeviceState /\ dev'.seen = dev.seen /\ dev'.busy = dev.busy \ {h} /\ dev'.idx = c
       /\ dev'.ring = Put(dev.ring, dev.idx % NUM, h)
       /\ dev'.platter[p] = y /\ \A q \in Disker : q # p => dev'.platter[q] = dev.platter[q]
  <2>1. dev' = [seen |-> dev.seen, busy |-> dev.busy \ {h}, ring |-> Put(dev.ring, dev.idx % NUM, h), idx |-> c,
                platter |-> Put(dev.platter, p, y), irq |-> TRUE]
    BY <1>2, <1>6, <1>9 DEF DeviceState, Put
  <2>2. Put(dev.ring, dev.idx % NUM, h) \in [Desc -> Desc]
    BY <1>2, <1>7 DEF DeviceState, Put
  <2>3. /\ Put(dev.platter, p, y) \in [Disker -> Int] /\ Put(dev.platter, p, y)[p] = y
        /\ \A q \in Disker : q # p => Put(dev.platter, p, y)[q] = dev.platter[q]
    BY <1>2, <1>3, <1>10 DEF DeviceState, Put
  <2> QED BY <1>2, <1>8, <2>1, <2>2, <2>3 DEF DeviceState
<1>12. /\ req' \in [Disker -> RequestState] /\ \A q \in Disker : q # p => req'[q] = req[q]
       /\ req'[p].pc = req[p].pc /\ req'[p].head = req[p].head /\ req'[p].disk = req[p].disk /\ req'[p].data = y
  <2>1. CASE w
    BY <1>2, <1>6, <1>9, <2>1
  <2>2. CASE ~w
    <3>1. req[p] \in RequestState /\ req' = [req EXCEPT ![p] = [req[p] EXCEPT !.data = x]]
      BY <1>2, <1>3, <1>6, <2>2
    <3>2. PICK u : u = [req[p] EXCEPT !.data = x]
      OBVIOUS
    <3>3. u \in RequestState /\ u.pc = req[p].pc /\ u.head = req[p].head /\ u.disk = req[p].disk /\ u.data = x
      BY <1>8, <3>1, <3>2 DEF RequestState
    <3> QED BY <1>2, <1>3, <1>9, <2>2, <3>1, <3>2, <3>3
  <2> QED BY <2>1, <2>2
<1>13. /\ vd' \in Driver /\ vd'.free = vd.free /\ vd'.desc = vd.desc /\ vd'.ops = vd.ops /\ vd'.ring = vd.ring
       /\ vd'.idx = vd.idx /\ vd'.used_idx = vd.used_idx /\ vd'.info[h].status = 0
       /\ \A i \in Desc : /\ vd'.info[i].b = vd.info[i].b
                          /\ i # h => vd'.info[i] = vd.info[i]
  <2>1. PICK f, g : f = vd.info /\ g = [vd.info[h] EXCEPT !.status = 0]
    OBVIOUS
  <2>2. /\ f \in [Desc -> [b : Disker \cup {0}, status : {0, 255}]]
        /\ g \in [b : Disker \cup {0}, status : {0, 255}] /\ g.b = f[h].b /\ g.status = 0
    <3>1. f \in [Desc -> [b : Disker \cup {0}, status : {0, 255}]]
      BY <1>2, <2>1 DEF Driver
    <3>2. PICK v \in [b : Disker \cup {0}, status : {0, 255}] : v = f[h]
      BY <1>2, <3>1
    <3>3. g = [v EXCEPT !.status = 0]
      BY <2>1, <3>2
    <3> QED BY <3>1, <3>2, <3>3
  <2>3. vd' = [free |-> vd.free, desc |-> vd.desc, ops |-> vd.ops, info |-> Put(f, h, g),
               ring |-> vd.ring, idx |-> vd.idx, used_idx |-> vd.used_idx]
    BY <1>2, <1>6, <2>1 DEF Driver, Put
  <2>4. /\ Put(f, h, g) \in [Desc -> [b : Disker \cup {0}, status : {0, 255}]] /\ Put(f, h, g)[h] = g
        /\ \A i \in Desc : i # h => Put(f, h, g)[i] = f[i]
    BY <1>2, <2>2 DEF Put
  <2>5. vd'.info = Put(f, h, g)
    BY <2>3
  <2>6. vd' \in Driver
    BY <1>2, <2>3, <2>4 DEF Driver
  <2>7. \A i \in Desc : /\ vd'.info[i].b = vd.info[i].b
                        /\ i # h => vd'.info[i] = vd.info[i]
    BY <2>1, <2>2, <2>4, <2>5
  <2> QED BY <2>2, <2>3, <2>4, <2>5, <2>6, <2>7
<1>14. InFlight' = InFlight /\ Sleepers' = Sleepers /\ \A q \in InFlight : req'[q].head = req[q].head
  BY <1>12 DEF InFlight, Sleepers
<1>15. VTypes' /\ VLocks'
  BY <1>6, <1>11, <1>12, <1>13 DEF DiskInv, VTypes, VLocks
<1>16. ChainsOK'
  <2>1. \A q \in InFlight : ChainOK(q)' /\ Own(q)' = Own(q)
    <3> SUFFICES ASSUME NEW q \in InFlight PROVE ChainOK(q)' /\ Own(q)' = Own(q)
      OBVIOUS
    <3>1. ChainOK(q) /\ req'[q].head = req[q].head /\ req[q].head \in Desc
      BY <1>2, <1>14 DEF DiskInv, ChainsOK, InFlight, RequestState
    <3>2. Own(q) \cap vd'.free = {}
      BY <1>13, <3>1 DEF ChainOK
    <3> QED BY <1>13, <3>1, <3>2, ChainKept
  <2> QED BY <1>14, <2>1 DEF DiskInv, ChainsOK
<1>17. h \notin Available /\ h \notin Reported
  BY DEF DiskInv, RingsOK
<1>18. /\ Entries(dev'.ring, vd.used_idx, Used + 1) = Reported \cup {h} /\ Once(dev'.ring, vd.used_idx, Used + 1)
  <2>1. PICK r \in [Desc -> Desc], a \in Index, n \in 0 .. NUM - 1, b \in Index :
           r = dev.ring /\ a = vd.used_idx /\ n = Used /\ b = dev.idx
    BY <1>2, <1>7 DEF DeviceState
  <2>2. PICK s : s = dev'.ring
    OBVIOUS
  <2>3. s = Put(r, b % NUM, h) /\ (a + n) % WRAP = b /\ Once(r, a, n) /\ n \in Nat
    BY <1>7, <1>11, <2>1, <2>2, Sizes DEF DiskInv, RingsOK
  <2>4. Entries(s, a, n) = Entries(r, a, n) /\ Once(s, a, n) /\ s[b % NUM] = h
    BY <2>3, EntryFilled
  <2>5. s[b % NUM] \notin Entries(s, a, n)
    BY <1>17, <2>1, <2>4 DEF Reported
  <2>6. Entries(s, a, n + 1) = Entries(s, a, n) \cup {s[b % NUM]} /\ Once(s, a, n + 1)
    BY <2>3, <2>4, <2>5, EntryAdded
  <2> QED BY <2>1, <2>2, <2>4, <2>6 DEF Reported
<1>19. Used + 1 \in 0 .. NUM - 1
  <2>1. Used + 1 \in Nat
    BY <1>7
  <2>2. Entries(dev'.ring, vd.used_idx, Used + 1) \subseteq {req[q].head : q \in InFlight}
    BY <1>7, <1>18
  <2>3. Used + 1 < NUM
    BY <1>18, <2>1, <2>2, RingHasRoom DEF DiskInv
  <2> QED BY <2>1, <2>3, Sizes
<1>20. Used' = Used + 1 /\ Avail' = Avail /\ Reported' = Reported \cup {h} /\ Available' = Available
  <2>1. Used # WRAP - 1
    BY <1>7, <1>19, Sizes
  <2>2. Used' = (c - vd.used_idx) % WRAP
    BY <1>11, <1>13 DEF Used
  <2>3. (c - vd.used_idx) % WRAP = Used + 1
    <3>1. PICK a \in Index, b \in Index : a = vd.used_idx /\ b = dev.idx
      BY <1>7
    <3>2. Used = (b - a) % WRAP /\ c = (b + 1) % WRAP
      BY <1>5, <3>1 DEF Used
    <3>3. (((b + 1) % WRAP) - a) % WRAP = ((b - a) % WRAP) + 1
      BY <2>1, <3>2, WindowMoves
    <3> QED BY <3>1, <3>2, <3>3
  <2>4. Avail' = Avail
    BY <1>11, <1>13 DEF Avail
  <2> QED BY <1>11, <1>13, <1>18, <2>2, <2>3, <2>4 DEF Available, Reported
<1>21. RingsOK'
  <2>1. {req'[q].head : q \in Sleepers} = {req[q].head : q \in Sleepers}
    BY <1>12 DEF Sleepers
  <2>2. /\ Available \cup dev.busy \cup Reported = {req[q].head : q \in Sleepers}
        /\ Available \cap dev.busy = {} /\ Available \cap Reported = {} /\ dev.busy \cap Reported = {}
    BY DEF DiskInv, RingsOK
  <2>3. /\ Available' \cup dev'.busy \cup Reported' = {req'[q].head : q \in Sleepers'}
        /\ Available' \cap dev'.busy = {} /\ Available' \cap Reported' = {} /\ dev'.busy \cap Reported' = {}
    BY <1>11, <1>14, <1>17, <1>20, <2>1, <2>2
  <2>4. Once(vd'.ring, dev'.seen, Avail') /\ Once(dev'.ring, vd'.used_idx, Used')
    BY <1>11, <1>13, <1>18, <1>20 DEF DiskInv, RingsOK
  <2>5. \A q \in Disker : req'[q].pc = "publish" => vd'.ring[vd'.idx % NUM] = req'[q].head
    BY <1>12, <1>13 DEF DiskInv, RingsOK
  <2> QED BY <2>3, <2>4, <2>5 DEF RingsOK
<1>22. DataOK'
  <2>1. \A i \in Reported : i \in Desc
    BY <1>2, <1>7 DEF InFlight, RequestState
  <2>2. \A i \in Reported' : vd'.info[i].status = 0
    BY <1>13, <1>20, <2>1 DEF DiskInv, DataOK
  <2>3. ASSUME NEW q \in Disker, Performed(q)' PROVE req'[q].data = dev'.platter[q]
    <3>1. CASE q = p
      BY <1>11, <1>12, <3>1
    <3>2. CASE q # p
      <4>1. Performed(q)
        <5>1. q \in Sleepers => req[q].head # h
          BY <1>1, <1>3, <3>2, HeadOfOne DEF DiskInv, Sleepers, InFlight
        <5> QED BY <1>12, <1>20, <2>3, <3>2, <5>1 DEF Performed, Sleepers
      <4> QED BY <1>11, <1>12, <3>2, <4>1 DEF DiskInv, DataOK
    <3> QED BY <3>1, <3>2
  <2> QED BY <2>2, <2>3 DEF DataOK
<1> QED BY <1>6, <1>15, <1>16, <1>21, <1>22 DEF DiskInv

LEMMA FreeChainDisk ==
  ASSUME DiskInv, NEW p \in Disker, free_chain(p)
  PROVE  DiskInv'
<1>1. req[p].pc = "woken" /\ vlock = Nobody /\ UNCHANGED <<dev, vlock, vintr>>
  BY DEF free_chain
<1>2. vd \in Driver /\ dev \in DeviceState /\ req \in [Disker -> RequestState]
  BY DEF DiskInv, VTypes
<1>3. p \in InFlight /\ ChainOK(p) /\ ~req[p].disk /\ p \notin Sleepers
  BY <1>1 DEF DiskInv, ChainsOK, InFlight, VLocks, Sleepers
<1>4. PICK h, c : h = req[p].head /\ c = Own(p)
  OBVIOUS
<1>5. Chain(vd.desc, h) = c /\ c \subseteq Desc /\ h \in Desc /\ h \in c /\ c \cap vd.free = {}
  <2>1. Chain(vd.desc, req[p].head) = Own(p) /\ Own(p) \subseteq Desc
    BY <1>3, ChainIs DEF DiskInv
  <2> QED BY <1>3, <1>4, <2>1 DEF ChainOK, Own
<1>6. /\ vd' = [vd EXCEPT !.info[h].b = 0, !.free = vd.free \cup c,
                          !.desc = [i \in Desc |-> IF i \in c THEN FreeDesc ELSE vd.desc[i]]]
      /\ ~vpanic'
      /\ req' = [WakeFree(req) EXCEPT ![p] = [WakeFree(req)[p] EXCEPT !.pc = "idle", !.head = 0]]
  BY <1>3, <1>4, <1>5 DEF free_chain
<1>7. /\ vd' \in Driver /\ vd'.free = vd.free \cup c /\ vd'.ops = vd.ops /\ vd'.ring = vd.ring
      /\ vd'.idx = vd.idx /\ vd'.used_idx = vd.used_idx
      /\ \A i \in Desc \ c : vd'.desc[i] = vd.desc[i]
      /\ \A i \in Desc : /\ vd'.info[i].status = vd.info[i].status
                         /\ i # h => vd'.info[i] = vd.info[i]
  <2> DEFINE D == [addr : {"", "op", "data", "status"} \X Nat, flags : SUBSET {"NEXT", "WRITE"}, next : Desc]
             I == [b : Disker \cup {0}, status : {0, 255}]
             e == [i \in Desc |-> IF i \in c THEN FreeDesc ELSE vd.desc[i]]
  <2>1. FreeDesc \in D
    <3>1. 0 \in Desc /\ 0 \in Nat
      BY Sizes DEF Desc
    <3> QED BY <3>1 DEF FreeDesc
  <2>2. vd.desc \in [Desc -> D] /\ vd.info \in [Desc -> I]
    BY <1>2 DEF Driver
  <2> HIDE DEF D
  <2>3. e \in [Desc -> D] /\ \A i \in Desc \ c : e[i] = vd.desc[i]
    BY <2>1, <2>2
  <2>4. PICK f, g : f = vd.info /\ g = [vd.info[h] EXCEPT !.b = 0]
    OBVIOUS
  <2>5. g \in I /\ g.status = f[h].status
    <3>1. PICK v \in I : v = f[h]
      BY <1>5, <2>2, <2>4
    <3>2. g = [v EXCEPT !.b = 0]
      BY <2>4, <3>1
    <3> QED BY <3>1, <3>2
  <2> HIDE DEF e
  <2>6. vd' = [free |-> vd.free \cup c, desc |-> e, ops |-> vd.ops, info |-> Put(f, h, g),
               ring |-> vd.ring, idx |-> vd.idx, used_idx |-> vd.used_idx]
    BY <1>2, <1>6, <2>4 DEF Driver, Put, e
  <2> HIDE DEF I
  <2>7. /\ Put(f, h, g) \in [Desc -> I] /\ Put(f, h, g)[h] = g
        /\ \A i \in Desc : i # h => Put(f, h, g)[i] = f[i]
    BY <1>5, <2>2, <2>4, <2>5 DEF Put
  <2>8. vd' \in Driver
    BY <1>2, <1>5, <2>3, <2>6, <2>7 DEF Driver, D, I
  <2>9. vd'.info = Put(f, h, g) /\ vd'.desc = e
    BY <2>6
  <2>10. \A i \in Desc : /\ vd'.info[i].status = vd.info[i].status
                         /\ i # h => vd'.info[i] = vd.info[i]
    BY <2>4, <2>5, <2>7, <2>9
  <2> QED BY <2>3, <2>6, <2>8, <2>9, <2>10
<1>8. /\ req' \in [Disker -> RequestState] /\ req'[p].pc = "idle" /\ req'[p].data = req[p].data
      /\ \A q \in Disker : q # p =>
           \/ req'[q] = req[q]
           \/ req[q].pc \in {"readsleep", "writesleep"} /\ req'[q].pc \in {"read", "write"}
  <2>1. \A q \in Disker : /\ WakeFree(req)[q] \in RequestState
                          /\ \/ WakeFree(req)[q] = req[q]
                             \/ req[q].pc \in {"readsleep", "writesleep"} /\ WakeFree(req)[q].pc \in {"read", "write"}
    BY <1>2, WakeFreeKeeps
  <2>2. WakeFree(req) \in [Disker -> RequestState]
    BY <2>1 DEF WakeFree
  <2>3. PICK u : u = [req[p] EXCEPT !.pc = "idle", !.head = 0]
    OBVIOUS
  <2>4. u \in RequestState /\ u.pc = "idle" /\ u.data = req[p].data
    <3>1. 0 \in Desc /\ req[p] \in RequestState
      BY <1>2, Sizes DEF Desc
    <3> QED BY <2>3, <3>1 DEF RequestState
  <2>5. req' = [WakeFree(req) EXCEPT ![p] = u]
    BY <1>1, <1>6, <2>1, <2>3
  <2> QED BY <2>1, <2>2, <2>4, <2>5
<1>9. InFlight' = InFlight \ {p} /\ Sleepers' = Sleepers /\ \A q \in InFlight \ {p} : req'[q] = req[q]
  BY <1>3, <1>8 DEF InFlight, Sleepers
<1>10. VTypes' /\ VLocks'
  <2>1. \A q \in Disker : /\ req'[q].pc = "publish" <=> req[q].pc = "publish"
                          /\ req'[q].pc \in {"publish", "sleeping", "woken"} => req'[q] = req[q]
    BY <1>1, <1>8
  <2>2. VTypes'
    BY <1>1, <1>2, <1>7, <1>8 DEF VTypes
  <2>3. VLocks'
    BY <1>1, <2>1 DEF DiskInv, VLocks
  <2> QED BY <2>2, <2>3
<1>11. ASSUME NEW q \in InFlight \ {p}
       PROVE  ChainOK(q)' /\ Own(q)' = Own(q) /\ req[q].head \in Desc \ {h}
  <2>1. ChainOK(q) /\ Own(q) \subseteq Desc /\ Own(q) \cap c = {} /\ q \in InFlight
    BY <1>3, <1>4, ChainIs DEF DiskInv, ChainsOK
  <2>2. req[q].head \in Desc \ {h}
    BY <1>5, <2>1 DEF Own
  <2>3. Own(q) \cap vd'.free = {}
    BY <1>7, <2>1 DEF ChainOK
  <2>4. /\ req'[q].head = req[q].head /\ \A x \in Own(q) : vd'.desc[x] = vd.desc[x]
        /\ vd'.ops[req[q].head].sector = vd.ops[req[q].head].sector
        /\ vd'.info[req[q].head].b = vd.info[req[q].head].b
    BY <1>7, <1>9, <2>1, <2>2
  <2> QED BY <2>1, <2>2, <2>3, <2>4, ChainKept
<1>12. ChainsOK'
  BY <1>9, <1>11 DEF DiskInv, ChainsOK
<1>13. Avail' = Avail /\ Used' = Used /\ Available' = Available /\ Reported' = Reported
  <2>1. Avail' = Avail /\ Used' = Used
    BY <1>1, <1>7 DEF Avail, Used
  <2> QED BY <1>1, <1>7, <2>1 DEF Available, Reported
<1>14. RingsOK'
  <2>1. {req'[q].head : q \in Sleepers} = {req[q].head : q \in Sleepers}
    BY <1>8, <1>9 DEF Sleepers
  <2>2. \A q \in Disker : req'[q].pc = "publish" => req'[q] = req[q]
    BY <1>8
  <2>3. \A q \in Disker : req'[q].pc = "publish" => vd'.ring[vd'.idx % NUM] = req'[q].head
    BY <1>7, <2>2 DEF DiskInv, RingsOK
  <2>4. Available \cup dev.busy \cup Reported = {req'[q].head : q \in Sleepers}
    BY <2>1 DEF DiskInv, RingsOK
  <2>5. Once(vd'.ring, dev'.seen, Avail') /\ Once(dev'.ring, vd'.used_idx, Used')
    BY <1>1, <1>7, <1>13 DEF DiskInv, RingsOK
  <2>6. Available \cap dev.busy = {} /\ Available \cap Reported = {} /\ dev.busy \cap Reported = {}
    BY DEF DiskInv, RingsOK
  <2> QED BY <1>1, <1>9, <1>13, <2>3, <2>4, <2>5, <2>6 DEF RingsOK
<1>15. DataOK'
  <2>1. \A i \in Reported : i \in Desc
    BY <1>2 DEF DiskInv, RingsOK, Sleepers, RequestState
  <2>2. \A q \in Disker : Performed(q)' => req'[q].data = req[q].data /\ Performed(q)
    BY <1>1, <1>8, <1>13 DEF Performed
  <2> QED BY <1>1, <1>7, <1>13, <2>1, <2>2 DEF DiskInv, DataOK
<1> QED BY <1>6, <1>10, <1>12, <1>14, <1>15 DEF DiskInv

\* The interrupt handler, but for the loop over what was reported.
LEMMA HandlerDisk ==
  ASSUME DiskInv, vclaim \/ vack \/ vleave
  PROVE  DiskInv'
<1>1. UNCHANGED <<vd, req, vpanic>> /\ dev' \in DeviceState /\ dev'.seen = dev.seen /\ dev'.busy = dev.busy
      /\ dev'.ring = dev.ring /\ dev'.idx = dev.idx /\ dev'.platter = dev.platter
  <2>1. dev \in DeviceState
    BY DEF DiskInv, VTypes
  <2> QED BY <2>1 DEF vclaim, vack, vleave, DeviceState
<1>2. VLocks'
  <2>1. CASE vclaim
    BY <2>1 DEF DiskInv, VLocks, vclaim
  <2>2. CASE vack
    BY <2>2, Sizes DEF DiskInv, VLocks, vack
  <2>3. CASE vleave
    BY <2>3, Sizes DEF DiskInv, VLocks, vleave
  <2> QED BY <2>1, <2>2, <2>3
<1>3. InFlight' = InFlight /\ Sleepers' = Sleepers /\ Avail' = Avail /\ Used' = Used
  BY <1>1 DEF InFlight, Sleepers, Avail, Used
<1>4. Available' = Available /\ Reported' = Reported
  BY <1>1, <1>3 DEF Available, Reported
<1>5. VTypes' /\ ChainsOK'
  BY <1>1, ChainsStay DEF DiskInv, VTypes
<1>6. RingsOK'
  BY <1>1, <1>3, <1>4 DEF DiskInv, RingsOK
<1>7. DataOK'
  BY <1>1, <1>4 DEF DiskInv, DataOK, Performed
<1> QED BY <1>1, <1>2, <1>5, <1>6, <1>7 DEF DiskInv

\* Every completion is a sleeper's, and wakes it with its own buffer.
LEMMA LoopDisk ==
  ASSUME DiskInv, vloop
  PROVE  DiskInv'
<1>1. vintr = "loop" /\ UNCHANGED <<dev, vlock>>
  BY DEF vloop
<1>2. vd \in Driver /\ dev \in DeviceState /\ req \in [Disker -> RequestState]
  BY DEF DiskInv, VTypes
<1>3. CASE vd.used_idx = dev.idx
  <2>1. vintr' = "leave" /\ UNCHANGED <<vd, req, vpanic>>
    BY <1>3 DEF vloop
  <2>2. VLocks'
    BY <1>1, <2>1 DEF DiskInv, VLocks
  <2>3. InFlight' = InFlight /\ Sleepers' = Sleepers /\ Avail' = Avail /\ Used' = Used
    BY <1>1, <2>1 DEF InFlight, Sleepers, Avail, Used
  <2>4. Available' = Available /\ Reported' = Reported
    BY <1>1, <2>1, <2>3 DEF Available, Reported
  <2>5. VTypes' /\ ChainsOK'
    BY <1>1, <2>1, ChainsStay DEF DiskInv, VTypes
  <2>6. RingsOK'
    BY <1>1, <2>1, <2>3, <2>4 DEF DiskInv, RingsOK
  <2>7. DataOK'
    BY <1>1, <2>1, <2>4 DEF DiskInv, DataOK, Performed
  <2> QED BY <2>1, <2>2, <2>5, <2>6, <2>7 DEF DiskInv
<1>4. CASE vd.used_idx # dev.idx
  <2>1. /\ vd.used_idx \in Index /\ dev.idx \in Index /\ Used \in 0 .. NUM - 1 /\ Used # 0
    BY <1>4, Windows DEF DiskInv
  <2>2. PICK c, id : c = (vd.used_idx + 1) % WRAP /\ id = dev.ring[vd.used_idx % NUM]
    OBVIOUS
  <2>3. c \in Index
    BY <2>1, <2>2, Sizes, Moving DEF Index
  <2>4. id \in Reported /\ Once(dev.ring, c, Used - 1) /\ Entries(dev.ring, c, Used - 1) = Reported \ {id}
    <3>1. Used \in 1 .. WRAP - 1
      BY <2>1, Sizes
    <3>2. PICK r \in [Desc -> Desc], a \in Index, n \in 1 .. WRAP - 1 : r = dev.ring /\ a = vd.used_idx /\ n = Used
      BY <1>2, <2>1, <3>1 DEF DeviceState
    <3>3. Once(r, a, n)
      BY <3>2 DEF DiskInv, RingsOK
    <3> QED BY <2>2, <3>2, <3>3, EntryTaken DEF Reported
  <2>5. PICK b \in Sleepers : id = req[b].head
    BY <2>4 DEF DiskInv, RingsOK
  <2>6. b \in InFlight /\ b \in Disker /\ b # 0 /\ vd.info[id].b = b /\ vd.info[id].status = 0 /\ req[b].pc = "sleeping"
    <3>1. b \in InFlight /\ b \in Disker /\ req[b].pc = "sleeping"
      BY DEF Sleepers, InFlight
    <3>2. ChainOK(b)
      BY <3>1 DEF DiskInv, ChainsOK
    <3> QED BY <2>4, <2>5, <3>1, <3>2, Sizes DEF ChainOK, DiskInv, DataOK
  <2>7. /\ ~vpanic' /\ vd' = [vd EXCEPT !.used_idx = c] /\ UNCHANGED vintr
        /\ req' = [req EXCEPT ![b] = [req[b] EXCEPT !.disk = FALSE, !.pc = "woken"]]
    <3>1. PICK i : i = dev.ring[vd.used_idx % NUM]
      OBVIOUS
    <3>2. /\ vpanic' = (vd.info[i].status # 0 \/ vd.info[i].b = 0)
          /\ vd' = [vd EXCEPT !.used_idx = (@ + 1) % WRAP] /\ UNCHANGED vintr
      BY <1>4, <3>1 DEF vloop
    <3>3. i = id /\ vd.info[i].b = b /\ vd.info[i].status = 0
      BY <2>2, <2>6, <3>1
    <3>4. req' = [req EXCEPT ![b].disk = FALSE, ![b].pc = IF @ = "sleeping" THEN "woken" ELSE @]
      BY <1>4, <2>6, <3>1, <3>3 DEF vloop
    <3>5. req' = [req EXCEPT ![b] = [req[b] EXCEPT !.disk = FALSE, !.pc = "woken"]]
      BY <1>2, <2>6, <3>4 DEF RequestState
    <3> QED BY <1>2, <2>2, <2>6, <3>2, <3>3, <3>5 DEF Driver
  <2>8. /\ vd' \in Driver /\ vd'.used_idx = c /\ vd'.free = vd.free /\ vd'.desc = vd.desc /\ vd'.ops = vd.ops
        /\ vd'.info = vd.info /\ vd'.ring = vd.ring /\ vd'.idx = vd.idx
    <3>1. vd' = [free |-> vd.free, desc |-> vd.desc, ops |-> vd.ops, info |-> vd.info,
                 ring |-> vd.ring, idx |-> vd.idx, used_idx |-> c]
      BY <1>2, <2>7 DEF Driver
    <3>2. vd.idx \in Index
      BY <1>2 DEF Driver
    <3> QED BY <1>2, <2>3, <3>1, <3>2, DriverIs
  <2>9. /\ req' \in [Disker -> RequestState] /\ \A q \in Disker : q # b => req'[q] = req[q]
        /\ req'[b].pc = "woken" /\ req'[b].head = req[b].head /\ req'[b].data = req[b].data /\ ~req'[b].disk
    <3>1. PICK u : u = [req[b] EXCEPT !.disk = FALSE, !.pc = "woken"]
      OBVIOUS
    <3>2. u \in RequestState /\ u.pc = "woken" /\ u.head = req[b].head /\ u.data = req[b].data /\ ~u.disk
      <4>1. req[b] \in RequestState
        BY <1>2, <2>6
      <4> QED BY <3>1, <4>1 DEF RequestState
    <3> QED BY <1>2, <2>6, <2>7, <3>1, <3>2
  <2>10. InFlight' = InFlight /\ Sleepers' = Sleepers \ {b} /\ Sleepers \subseteq InFlight
         /\ \A q \in InFlight : req'[q].head = req[q].head
    BY <2>6, <2>9 DEF InFlight, Sleepers
  <2>11. VTypes' /\ VLocks'
    <3>1. VTypes'
      BY <1>1, <1>2, <2>8, <2>9 DEF VTypes
    <3>2. \A q \in Disker : req'[q].pc = "publish" <=> req[q].pc = "publish"
      BY <2>6, <2>9
    <3>3. VLocks'
      BY <1>1, <2>7, <2>9, <3>2 DEF DiskInv, VLocks
    <3> QED BY <3>1, <3>3
  <2>12. ChainsOK'
    <3>1. \A q \in InFlight : ChainOK(q)' /\ Own(q)' = Own(q)
      <4> SUFFICES ASSUME NEW q \in InFlight PROVE ChainOK(q)' /\ Own(q)' = Own(q)
        OBVIOUS
      <4>1. ChainOK(q) /\ req'[q].head = req[q].head
        BY <2>10 DEF DiskInv, ChainsOK
      <4>2. Own(q) \cap vd'.free = {}
        BY <2>8, <4>1 DEF ChainOK
      <4> QED BY <2>8, <4>1, <4>2, ChainKept
    <3> QED BY <2>10, <3>1 DEF DiskInv, ChainsOK
  <2>13. Used' = Used - 1 /\ Avail' = Avail /\ Reported' = Reported \ {id} /\ Available' = Available
    <3>1. (dev.idx - c) % WRAP = Used - 1
      <4>1. PICK a \in Index, d \in Index : a = vd.used_idx /\ d = dev.idx
        BY <2>1
      <4>2. Used = (d - a) % WRAP /\ c = (a + 1) % WRAP
        BY <2>2, <4>1 DEF Used
      <4>3. (d - ((a + 1) % WRAP)) % WRAP = ((d - a) % WRAP) - 1
        BY <2>1, <4>2, WindowMoves
      <4> QED BY <4>1, <4>2, <4>3
    <3>2. Used' = Used - 1 /\ Avail' = Avail
      BY <1>1, <2>8, <3>1 DEF Used, Avail
    <3> QED BY <1>1, <2>4, <2>8, <3>2 DEF Available, Reported
  <2>14. RingsOK'
    <3>1. {req'[q].head : q \in Sleepers \ {b}} = {req[q].head : q \in Sleepers} \ {id}
      <4>1. \A q \in Sleepers \ {b} : req'[q].head = req[q].head /\ req[q].head # id
        BY <2>5, <2>6, <2>10, HeadOfOne DEF DiskInv
      <4> QED BY <2>5, <4>1
    <3>2. /\ Available \cup dev.busy \cup Reported = {req[q].head : q \in Sleepers}
          /\ Available \cap dev.busy = {} /\ Available \cap Reported = {} /\ dev.busy \cap Reported = {}
      BY DEF DiskInv, RingsOK
    <3>3. /\ Available' \cup dev'.busy \cup Reported' = {req'[q].head : q \in Sleepers'}
          /\ Available' \cap dev'.busy = {} /\ Available' \cap Reported' = {} /\ dev'.busy \cap Reported' = {}
      BY <1>1, <2>4, <2>10, <2>13, <3>1, <3>2
    <3>4. Once(vd'.ring, dev'.seen, Avail') /\ Once(dev'.ring, vd'.used_idx, Used')
      BY <1>1, <2>4, <2>8, <2>13 DEF DiskInv, RingsOK
    <3>5. \A q \in Disker : req'[q].pc = "publish" => vd'.ring[vd'.idx % NUM] = req'[q].head
      BY <2>8, <2>9 DEF DiskInv, RingsOK
    <3> QED BY <3>3, <3>4, <3>5 DEF RingsOK
  <2>15. DataOK'
    <3>1. Performed(b)
      BY <2>4, <2>5, <2>6 DEF Performed
    <3>2. \A q \in Disker : Performed(q)' => Performed(q) /\ req'[q].data = req[q].data
      BY <2>9, <2>13, <3>1 DEF Performed
    <3> QED BY <1>1, <2>8, <2>13, <3>2 DEF DiskInv, DataOK
  <2> QED BY <2>7, <2>11, <2>12, <2>14, <2>15 DEF DiskInv
<1> QED BY <1>3, <1>4

LEMMA InitDisk ==
  ASSUME Init
  PROVE  DiskInv
<1>1. PICK l \in Workloads : VInit(l.ops, l.start)
  BY DEF Init
<1>2. PICK a \in Index : a = l.start
  BY <1>1, WorkloadStarts, Sizes DEF Index
<1>3. VTypes
  <2>1. 0 \in Desc /\ {} \in SUBSET Desc /\ 0 \in Nat
    BY Sizes DEF Desc
  <2>2. FreeDesc \in [addr : {"", "op", "data", "status"} \X Nat, flags : SUBSET {"NEXT", "WRITE"}, next : Desc]
    BY <2>1 DEF FreeDesc
  <2>3. vd \in Driver
    BY <1>1, <1>2, <2>1, <2>2 DEF VInit, Driver
  <2>4. dev \in DeviceState
    BY <1>1, <1>2, <2>1 DEF VInit, DeviceState
  <2>5. req \in [Disker -> RequestState]
    BY <1>1, <2>1 DEF VInit, RequestState
  <2> QED BY <2>3, <2>4, <2>5 DEF VTypes
<1>4. /\ \A p \in Disker : req[p].pc = "idle" /\ req[p].data = 0 /\ dev.platter[p] = 0
      /\ vd.idx = a /\ vd.used_idx = a /\ dev.seen = a /\ dev.idx = a /\ dev.busy = {}
      /\ vlock = Nobody /\ vintr = "off" /\ ~vpanic
  BY <1>1, <1>2 DEF VInit
<1>5. InFlight = {} /\ Sleepers = {}
  BY <1>4 DEF InFlight, Sleepers
<1>6. Avail = 0 /\ Used = 0
  <2>1. (a - a) % WRAP = 0
    BY Sizes DEF Index
  <2> QED BY <1>4, <2>1 DEF Avail, Used
<1>7. Available = {} /\ Reported = {} /\ Once(vd.ring, dev.seen, Avail) /\ Once(dev.ring, vd.used_idx, Used)
  <2>1. 0 .. 0 - 1 = {}
    OBVIOUS
  <2> QED BY <1>6, <2>1 DEF Available, Reported, Entries, Once
<1>8. VLocks
  BY <1>4, Sizes DEF VLocks
<1>9. ChainsOK
  BY <1>5 DEF ChainsOK
<1>10. RingsOK
  BY <1>4, <1>5, <1>7 DEF RingsOK
<1>11. DataOK
  BY <1>4, <1>7 DEF DataOK
<1> QED BY <1>3, <1>4, <1>8, <1>9, <1>10, <1>11 DEF DiskInv

LEMMA NextDisk ==
  ASSUME DiskInv, [Next]_vars
  PROVE  DiskInv'
<1>1. CASE UNCHANGED vdvars
  <2>1. UNCHANGED <<vd, dev, req, vlock, vintr, vpanic>>
    BY <1>1 DEF vdvars
  <2>2. InFlight' = InFlight /\ Sleepers' = Sleepers /\ Avail' = Avail /\ Used' = Used
    BY <2>1 DEF InFlight, Sleepers, Avail, Used
  <2>3. Available' = Available /\ Reported' = Reported
    BY <2>1, <2>2 DEF Available, Reported
  <2>4. VTypes' /\ VLocks' /\ ChainsOK'
    BY <2>1, ChainsStay DEF DiskInv, VTypes, VLocks
  <2>5. RingsOK' /\ DataOK'
    BY <2>1, <2>2, <2>3 DEF DiskInv, RingsOK, DataOK, Performed
  <2> QED BY <2>1, <2>4, <2>5 DEF DiskInv
<1>2. CASE virtio_disk_intr
  BY <1>2, HandlerDisk, LoopDisk DEF virtio_disk_intr
<1>3. CASE Device
  BY <1>3, FetchDisk, PerformDisk DEF Device
<1>4. CASE \E p \in Disker : Request(p)
  BY <1>4, RwDisk, Alloc3Disk, PublishDisk, FreeChainDisk DEF Request
<1> QED BY <1>1, <1>2, <1>3, <1>4 DEF Next, devintr, DiskStep, ConsoleStep, Done, vars

\* Whatever virtio_disk_rw, the device and virtio_disk_intr do, a request is in
\* one place at a time and its three descriptors are its own until free_chain:
\* for any number of processes and descriptors, and wherever the indices wrap.
THEOREM DiskInvariant == Spec => []DiskInv
<1>1. Init => DiskInv
  BY InitDisk
<1>2. DiskInv /\ [Next]_vars => DiskInv'
  BY NextDisk
<1> QED BY <1>1, <1>2, PTL DEF Spec

\* So every request that has returned has moved its own block and nothing else,
\* no descriptor is freed twice and every completion virtio_disk_intr finds is
\* the request's own.
THEOREM TransfersAreExact == Spec => []TransfersExact
<1>1. DiskInv => TransfersExact
  BY DEF DiskInv, DataOK, Performed, TransfersExact
<1> QED BY <1>1, DiskInvariant, PTL

-----------------------------------------------------------------------------
(* The console: windows of the ring buffer *)

LEMMA ConsoleSizes ==
  INPUT_BUF_SIZE \in Nat \ {0} /\ IWRAP \in Nat \ {0} /\ IWRAP % INPUT_BUF_SIZE = 0 /\ INPUT_BUF_SIZE < IWRAP
BY TerminalSizes

LEMMA Further ==
  ASSUME NEW w \in Nat \ {0}, NEW a \in 0 .. w - 1, NEW m \in 0 .. w - 1, NEW t \in Nat, m + t < w
  PROVE  (((a + m) % w) + t) % w = (a + (m + t)) % w
<1>1. PICK c \in 0 .. w - 1 : c = (a + m) % w /\ c = IF a + m < w THEN a + m ELSE a + m - w
  OBVIOUS
<1>2. (c + t) % w = IF c + t < w THEN c + t ELSE c + t - w
  OBVIOUS
<1>3. (a + (m + t)) % w = IF a + (m + t) < w THEN a + (m + t) ELSE a + (m + t) - w
  OBVIOUS
<1> QED BY <1>1, <1>2, <1>3

LEMMA SomeFurther ==
  ASSUME NEW a \in 0 .. IWRAP - 1, NEW m \in 0 .. IWRAP - 1, NEW t \in Nat, m + t < IWRAP
  PROVE  (((a + m) % IWRAP) + t) % IWRAP = (a + (m + t)) % IWRAP
<1>1. PICK w \in Nat \ {0} : w = IWRAP
  BY ConsoleSizes
<1>2. a \in 0 .. w - 1 /\ m \in 0 .. w - 1 /\ m + t < w
  BY <1>1
<1>3. (((a + m) % w) + t) % w = (a + (m + t)) % w
  BY <1>2, Further
<1> QED BY <1>1, <1>3

LEMMA OneFurther ==
  ASSUME NEW a \in 0 .. IWRAP - 1, NEW m \in 0 .. IWRAP - 1, m + 1 < IWRAP
  PROVE  (((a + m) % IWRAP) + 1) % IWRAP = (a + (m + 1)) % IWRAP
<1>1. 1 \in Nat
  OBVIOUS
<1> QED BY <1>1, SomeFurther

\* The distances the driver computes with the indices.
LEMMA Distances ==
  ASSUME NEW a \in 0 .. IWRAP - 1, NEW b \in 0 .. IWRAP - 1
  PROVE  Dist(a, b) \in 0 .. IWRAP - 1 /\ (a + Dist(a, b)) % IWRAP = b /\ (Dist(a, b) = 0 <=> a = b)
BY ConsoleSizes, Moving DEF Dist

LEMMA Ahead ==
  ASSUME NEW a \in 0 .. IWRAP - 1, NEW m \in 0 .. IWRAP - 1
  PROVE  (a + m) % IWRAP \in 0 .. IWRAP - 1 /\ Dist(a, (a + m) % IWRAP) = m
<1>1. PICK w \in Nat \ {0} : w = IWRAP
  BY ConsoleSizes
<1>2. PICK c \in 0 .. w - 1 : c = (a + m) % w /\ c = IF a + m < w THEN a + m ELSE a + m - w
  BY <1>1
<1>3. (c - a) % w = IF a <= c THEN c - a ELSE c - a + w
  BY <1>1
<1>4. (c - a) % w = m
  BY <1>1, <1>2, <1>3
<1> QED BY <1>1, <1>2, <1>4 DEF Dist

\* From a to c by way of b.
LEMMA Through ==
  ASSUME NEW a \in 0 .. IWRAP - 1, NEW b \in 0 .. IWRAP - 1, NEW c \in 0 .. IWRAP - 1,
         Dist(a, b) + Dist(b, c) < IWRAP
  PROVE  Dist(a, c) = Dist(a, b) + Dist(b, c)
<1>1. PICK m \in 0 .. IWRAP - 1, t \in 0 .. IWRAP - 1 : m = Dist(a, b) /\ t = Dist(b, c)
  BY Distances
<1>2. b = (a + m) % IWRAP /\ c = (b + t) % IWRAP
  BY <1>1, Distances
<1>3. m + t \in 0 .. IWRAP - 1 /\ t \in Nat /\ m + t < IWRAP
  BY <1>1, ConsoleSizes
<1>4. c = (a + (m + t)) % IWRAP
  <2>1. (((a + m) % IWRAP) + t) % IWRAP = (a + (m + t)) % IWRAP
    BY <1>3, SomeFurther
  <2> QED BY <1>2, <2>1
<1> QED BY <1>1, <1>3, <1>4, Ahead

\* n characters of buffer f from index a on.
Slot(i) == i % INPUT_BUF_SIZE
At(f, a, k) == f[Slot((a + k - 1) % IWRAP)]
Window(f, a, n) == [k \in 1 .. n |-> At(f, a, k)]

Buffers == [0 .. INPUT_BUF_SIZE - 1 -> Keys \cup {"0"}]

LEMMA WindowIs ==
  ASSUME NEW f \in Buffers, NEW a \in 0 .. IWRAP - 1, NEW n \in Nat
  PROVE  /\ Window(f, a, n) \in Seq(Keys \cup {"0"}) /\ Len(Window(f, a, n)) = n
         /\ DOMAIN Window(f, a, n) = 1 .. n
         /\ \A k \in 1 .. n : Window(f, a, n)[k] = At(f, a, k)
<1>1. \A i \in Int : Slot(i) \in 0 .. INPUT_BUF_SIZE - 1
  BY ConsoleSizes DEF Slot
<1>2. \A k \in 1 .. n : At(f, a, k) \in Keys \cup {"0"}
  <2> TAKE k \in 1 .. n
  <2>1. (a + k - 1) % IWRAP \in Int
    BY ConsoleSizes
  <2> QED BY <1>1, <2>1 DEF At, Buffers
<1> QED BY <1>2 DEF Window

LEMMA CharsAreWindow == \A a, b : Chars(a, b) = Window(cons.buf, a, Dist(a, b))
BY DEF Chars, Window, At, Slot

LEMMA CharsAfter ==
  /\ Chars(cons.r, cons.w)' = Window(cons'.buf, cons'.r, Dist(cons'.r, cons'.w))
  /\ Chars(cons.w, cons.e)' = Window(cons'.buf, cons'.w, Dist(cons'.w, cons'.e))
BY DEF Chars, Window, At, Slot

LEMMA AtFurther ==
  ASSUME NEW f, NEW a \in 0 .. IWRAP - 1, NEW m \in 0 .. IWRAP - 1, NEW k \in Nat \ {0}, m + k <= IWRAP
  PROVE  At(f, (a + m) % IWRAP, k) = At(f, a, m + k)
<1>1. PICK t \in Nat : t = k - 1
  OBVIOUS
<1>2. (((a + m) % IWRAP) + t) % IWRAP = (a + (m + t)) % IWRAP
  <2>1. m + t < IWRAP
    BY <1>1, ConsoleSizes
  <2> QED BY <2>1, SomeFurther
<1>3. ((a + m) % IWRAP) + k - 1 = ((a + m) % IWRAP) + t /\ a + (m + k) - 1 = a + (m + t)
  BY <1>1, ConsoleSizes
<1> QED BY <1>2, <1>3 DEF At

LEMMA WindowJoin ==
  ASSUME NEW f \in Buffers, NEW a \in 0 .. IWRAP - 1, NEW m \in 0 .. IWRAP - 1, NEW n \in Nat, m + n <= IWRAP,
         NEW b \in 0 .. IWRAP - 1, b = (a + m) % IWRAP
  PROVE  Window(f, a, m) \o Window(f, b, n) = Window(f, a, m + n)
<1>1. m \in Nat /\ m + n \in Nat
  BY ConsoleSizes
<1>2. /\ Window(f, a, m) \in Seq(Keys \cup {"0"}) /\ Len(Window(f, a, m)) = m
      /\ Window(f, b, n) \in Seq(Keys \cup {"0"}) /\ Len(Window(f, b, n)) = n
  BY <1>1, WindowIs
<1>3. ASSUME NEW k \in 1 .. m + n PROVE (Window(f, a, m) \o Window(f, b, n))[k] = At(f, a, k)
  <2>1. CASE k <= m
    <3>1. k \in 1 .. m
      BY <1>1, <2>1
    <3>2. Window(f, a, m)[k] = At(f, a, k)
      BY <1>1, <3>1, WindowIs
    <3>3. PICK s \in Seq(Keys \cup {"0"}), u \in Seq(Keys \cup {"0"}) :
            s = Window(f, a, m) /\ u = Window(f, b, n) /\ Len(s) = m
      BY <1>2
    <3>4. (s \o u)[k] = s[k]
      BY <1>1, <3>1, <3>3
    <3> QED BY <3>2, <3>3, <3>4
  <2>2. CASE k > m
    <3>1. PICK t \in 1 .. n : k = m + t
      <4>1. k - m \in 1 .. n /\ k = m + (k - m)
        BY <1>1, <2>2
      <4> QED BY <4>1
    <3>2. At(f, b, t) = At(f, a, m + t)
      <4>1. t \in Nat \ {0} /\ m + t <= IWRAP
        BY <1>1, <3>1, ConsoleSizes
      <4> QED BY <4>1, AtFurther
    <3>3. Window(f, b, n)[t] = At(f, b, t)
      BY WindowIs
    <3>4. PICK s \in Seq(Keys \cup {"0"}), u \in Seq(Keys \cup {"0"}) :
            s = Window(f, a, m) /\ u = Window(f, b, n) /\ Len(s) = m /\ Len(u) = n
      BY <1>2
    <3>5. (s \o u)[m + t] = u[t]
      BY <1>1, <3>1, <3>4
    <3> QED BY <3>1, <3>2, <3>3, <3>4, <3>5
  <2>3. k <= m \/ k > m
    BY <1>1
  <2> QED BY <2>1, <2>2, <2>3
<1>4. (Window(f, a, m) \o Window(f, b, n)) = [k \in 1 .. m + n |-> (Window(f, a, m) \o Window(f, b, n))[k]]
  BY <1>1, <1>2
<1> QED BY <1>3, <1>4 DEF Window

\* A reader takes the first k characters.
LEMMA WindowDrop ==
  ASSUME NEW f \in Buffers, NEW a \in 0 .. IWRAP - 1, NEW n \in 0 .. IWRAP - 1, NEW k \in 0 .. n,
         NEW b \in 0 .. IWRAP - 1, b = (a + k) % IWRAP
  PROVE  Window(f, b, n - k) = SubSeq(Window(f, a, n), k + 1, Len(Window(f, a, n)))
<1>1. n \in Nat /\ k \in Nat /\ n - k \in Nat
  BY ConsoleSizes
<1>2. Window(f, a, n) \in Seq(Keys \cup {"0"}) /\ Len(Window(f, a, n)) = n
  BY <1>1, WindowIs
<1>3. SubSeq(Window(f, a, n), k + 1, n) = [t \in 1 .. n - k |-> Window(f, a, n)[k + t]]
  <2>1. PICK s \in Seq(Keys \cup {"0"}) : s = Window(f, a, n) /\ Len(s) = n
    BY <1>2
  <2>2. SubSeq(s, k + 1, n) \in Seq(Keys \cup {"0"}) /\ Len(SubSeq(s, k + 1, n)) = n - k
        /\ \A t \in 1 .. n - k : SubSeq(s, k + 1, n)[t] = s[k + t]
    BY <1>1, <2>1
  <2>3. SubSeq(s, k + 1, n) = [t \in 1 .. n - k |-> SubSeq(s, k + 1, n)[t]]
    BY <1>1, <2>2
  <2> QED BY <2>1, <2>2, <2>3
<1>4. ASSUME NEW t \in 1 .. n - k PROVE Window(f, a, n)[k + t] = At(f, b, t)
  <2>1. k + t \in 1 .. n
    BY <1>1
  <2>2. At(f, b, t) = At(f, a, k + t)
    <3>1. PICK m \in 0 .. IWRAP - 1, u \in Nat \ {0} : m = k /\ u = t
      BY <1>1, ConsoleSizes
    <3>2. m + u <= IWRAP
      BY <1>1, <3>1, ConsoleSizes
    <3>3. At(f, (a + m) % IWRAP, u) = At(f, a, m + u)
      BY ONLY <3>2, AtFurther
    <3> QED BY <3>1, <3>3
  <2> QED BY <1>1, <2>1, <2>2, WindowIs
<1> QED BY <1>2, <1>3, <1>4 DEF Window

\* Backspace takes the last character.
LEMMA WindowFront ==
  ASSUME NEW f \in Buffers, NEW a \in 0 .. IWRAP - 1, NEW n \in Nat \ {0}
  PROVE  Window(f, a, n - 1) = SubSeq(Window(f, a, n), 1, Len(Window(f, a, n)) - 1)
<1>1. Window(f, a, n) \in Seq(Keys \cup {"0"}) /\ Len(Window(f, a, n)) = n
  BY WindowIs
<1>2. PICK s \in Seq(Keys \cup {"0"}) : s = Window(f, a, n) /\ Len(s) = n
  BY <1>1
<1>3. SubSeq(s, 1, n - 1) = [k \in 1 .. n - 1 |-> s[k]]
  BY <1>2
<1>4. \A k \in 1 .. n - 1 : s[k] = At(f, a, k)
  BY <1>2, WindowIs
<1> QED BY <1>2, <1>3, <1>4 DEF Window

\* A key goes behind the last character.
LEMMA WindowKey ==
  ASSUME NEW f \in Buffers, NEW a \in 0 .. IWRAP - 1, NEW n \in 0 .. INPUT_BUF_SIZE - 1, NEW c \in Keys,
         NEW b \in 0 .. IWRAP - 1, b = (a + n) % IWRAP, NEW g \in Buffers, g = Put(f, Slot(b), c)
  PROVE  /\ Window(g, a, n + 1) = Append(Window(f, a, n), c)
         /\ \A m \in 0 .. n : Window(g, a, m) = Window(f, a, m)
<1>1. n \in Nat /\ n + 1 \in Nat
  BY ConsoleSizes
<1>2. Slot(b) \in 0 .. INPUT_BUF_SIZE - 1
  BY ConsoleSizes DEF Slot
<1>3. ASSUME NEW k \in 1 .. n PROVE At(g, a, k) = At(f, a, k)
  <2>1. PICK s \in 0 .. IWRAP, t \in 0 .. IWRAP : s = k - 1 /\ t = n
    BY <1>1, ConsoleSizes
  <2>2. ((a + s) % IWRAP) % INPUT_BUF_SIZE # ((a + t) % IWRAP) % INPUT_BUF_SIZE
    <3>1. s < t /\ t - s < INPUT_BUF_SIZE
      BY <1>1, <2>1, ConsoleSizes
    <3>2. INPUT_BUF_SIZE \in Nat \ {0} /\ IWRAP \in Nat \ {0} /\ IWRAP % INPUT_BUF_SIZE = 0
      BY ConsoleSizes
    <3> QED BY <3>1, <3>2, WindowEntries, Zenon
  <2>3. a + k - 1 = a + s
    BY <2>1, <1>1
  <2>4. Slot((a + k - 1) % IWRAP) # Slot(b)
    BY <2>1, <2>2, <2>3 DEF Slot
  <2> QED BY <2>4, <1>2 DEF At, Put, Buffers
<1>4. At(g, a, n + 1) = c
  <2>1. a + (n + 1) - 1 = a + n
    BY <1>1
  <2> QED BY <2>1, <1>2 DEF At, Put, Buffers
<1>5. ASSUME NEW m \in 0 .. n PROVE Window(g, a, m) = Window(f, a, m)
  <2>1. \A k \in 1 .. m : k \in 1 .. n
    BY <1>1
  <2> QED BY <1>3, <2>1 DEF Window
<1>6. Append(Window(f, a, n), c) = Window(g, a, n + 1)
  <2>1. PICK s \in Seq(Keys \cup {"0"}) : s = Window(f, a, n) /\ Len(s) = n
    BY <1>1, WindowIs
  <2>2. Append(s, c) = [k \in 1 .. n + 1 |-> IF k = n + 1 THEN c ELSE s[k]]
    <3>1. Append(s, c) \in Seq(Keys \cup {"0"}) /\ Len(Append(s, c)) = n + 1
      BY <1>1, <2>1
    <3>2. \A k \in 1 .. n + 1 : Append(s, c)[k] = IF k = n + 1 THEN c ELSE s[k]
      BY <1>1, <2>1
    <3>3. Append(s, c) = [k \in 1 .. n + 1 |-> Append(s, c)[k]]
      <4>1. PICK u \in Seq(Keys \cup {"0"}) : u = Append(s, c) /\ Len(u) = n + 1
        BY <3>1
      <4>2. u = [k \in 1 .. Len(u) |-> u[k]]
        OBVIOUS
      <4> QED BY <4>1, <4>2, Zenon
    <3> QED BY <3>2, <3>3
  <2>3. \A k \in 1 .. n + 1 : (IF k = n + 1 THEN c ELSE s[k]) = At(g, a, k)
    <3> TAKE k \in 1 .. n + 1
    <3>1. CASE k = n + 1
      BY <1>4, <3>1
    <3>2. CASE k # n + 1
      <4>1. k \in 1 .. n
        BY <1>1, <3>2
      <4>2. s[k] = At(f, a, k)
        BY <1>1, <2>1, <4>1, WindowIs
      <4> QED BY <1>3, <3>2, <4>1, <4>2
    <3> QED BY <3>1, <3>2
  <2> QED BY <2>1, <2>2, <2>3 DEF Window
<1> QED BY <1>5, <1>6

LEMMA EmptyWindow == \A f, a : Window(f, a, 0) = <<>>
<1>1. 1 .. 0 = {}
  OBVIOUS
<1> QED BY <1>1 DEF Window

LEMMA Back ==
  ASSUME NEW w \in Nat \ {0}, NEW a \in 0 .. w - 1, NEW m \in 1 .. w - 1
  PROVE  (((a + m) % w) - 1) % w = (a + (m - 1)) % w
<1>1. PICK c \in 0 .. w - 1 : c = (a + m) % w /\ c = IF a + m < w THEN a + m ELSE a + m - w
  OBVIOUS
<1>2. (c - 1) % w = IF c = 0 THEN w - 1 ELSE c - 1
  OBVIOUS
<1>3. (a + (m - 1)) % w = IF a + (m - 1) < w THEN a + (m - 1) ELSE a + (m - 1) - w
  OBVIOUS
<1> QED BY <1>1, <1>2, <1>3

\* What the indices and the buffer say of the lines.
LEMMA Lengths ==
  ASSUME TerminalInv,
         NEW f, f = cons.buf, NEW r, r = cons.r, NEW w, w = cons.w, NEW e, e = cons.e,
         NEW x, x = Dist(r, w), NEW y, y = Dist(w, e)
  PROVE  /\ f \in Buffers /\ r \in 0 .. IWRAP - 1 /\ w \in 0 .. IWRAP - 1 /\ e \in 0 .. IWRAP - 1
         /\ x \in Nat /\ y \in Nat /\ x + y <= INPUT_BUF_SIZE /\ x + y < IWRAP
         /\ w = (r + x) % IWRAP /\ e = (w + y) % IWRAP /\ e = (r + (x + y)) % IWRAP
         /\ Dist(r, e) = x + y /\ (y = 0 <=> e = w)
         /\ Chars(r, w) = Window(f, r, x) /\ Chars(w, e) = Window(f, w, y)
         /\ \A k \in 1 .. y : Window(f, w, y)[k] \notin {"nl", "D"}
<1>1. f \in Buffers /\ r \in 0 .. IWRAP - 1 /\ w \in 0 .. IWRAP - 1 /\ e \in 0 .. IWRAP - 1
  BY DEF TerminalInv, TTypes, Buffers
<1>2. x \in 0 .. IWRAP - 1 /\ y \in 0 .. IWRAP - 1 /\ w = (r + x) % IWRAP /\ e = (w + y) % IWRAP /\ (y = 0 <=> e = w)
  BY <1>1, Distances
<1>3. x \in Nat /\ y \in Nat /\ x + y <= INPUT_BUF_SIZE /\ x + y < IWRAP
  <2>1. x + y <= INPUT_BUF_SIZE
    BY DEF TerminalInv, EditOK
  <2>2. x \in 0 .. IWRAP - 1 /\ y \in 0 .. IWRAP - 1
    BY <1>2
  <2> QED BY <2>1, <2>2, ConsoleSizes
<1>4. Dist(r, e) = x + y
  BY <1>1, <1>3, Through
<1>5. e = (r + (x + y)) % IWRAP
  <2>1. (r + Dist(r, e)) % IWRAP = e
    BY <1>1, Distances
  <2> QED BY <1>4, <2>1
<1>6. Chars(r, w) = Window(f, r, x) /\ Chars(w, e) = Window(f, w, y)
  BY CharsAreWindow
<1>7. \A k \in 1 .. y : Window(f, w, y)[k] \notin {"nl", "D"}
  <2>1. DOMAIN Window(f, w, y) = 1 .. y
    BY DEF Window
  <2> QED BY <1>6, <2>1 DEF TerminalInv, EditOK
<1> QED BY <1>1, <1>2, <1>3, <1>4, <1>5, <1>6, <1>7

LineStep == [Lines!Next]_<<Chars(cons.r, cons.w), Chars(cons.w, cons.e)>>

ConsTypes == cons \in [buf : Buffers, r : 0 .. IWRAP - 1, w : 0 .. IWRAP - 1, e : 0 .. IWRAP - 1]

\* consoleintr puts key c behind the line, and hands the line over when full.
KeyPut(c, full) ==
  cons' = [cons EXCEPT !.buf[cons.e % INPUT_BUF_SIZE] = c, !.e = (cons.e + 1) % IWRAP,
                       !.w = IF full THEN (cons.e + 1) % IWRAP ELSE @]

LEMMA KeyTaken ==
  ASSUME TerminalInv, NEW c \in Keys \ {"P", "U", "H"}, Room, NEW full \in BOOLEAN, KeyPut(c, full),
         full <=> (c \in {"nl", "D"} \/ Dist(cons.r, (cons.e + 1) % IWRAP) = INPUT_BUF_SIZE)
  PROVE  ConsTypes' /\ EditOK' /\ LineStep
<1>1. PICK f, r, w, e : f = cons.buf /\ r = cons.r /\ w = cons.w /\ e = cons.e
  OBVIOUS
<1>2. PICK x, y : x = Dist(r, w) /\ y = Dist(w, e)
  OBVIOUS
<1>3. /\ f \in Buffers /\ r \in 0 .. IWRAP - 1 /\ w \in 0 .. IWRAP - 1 /\ e \in 0 .. IWRAP - 1
      /\ x \in Nat /\ y \in Nat /\ x + y <= INPUT_BUF_SIZE /\ x + y < IWRAP
      /\ w = (r + x) % IWRAP /\ e = (w + y) % IWRAP /\ e = (r + (x + y)) % IWRAP
      /\ Dist(r, e) = x + y
      /\ Chars(r, w) = Window(f, r, x) /\ Chars(w, e) = Window(f, w, y)
      /\ \A k \in 1 .. y : Window(f, w, y)[k] \notin {"nl", "D"}
  BY <1>1, <1>2, Lengths
<1>4. x + y < INPUT_BUF_SIZE
  BY <1>1, <1>3 DEF Room
<1>5. PICK g, d : g = Put(f, Slot(e), c) /\ d = (e + 1) % IWRAP
  OBVIOUS
<1>6. Slot(e) \in 0 .. INPUT_BUF_SIZE - 1 /\ g \in Buffers
  <2>1. Slot(e) \in 0 .. INPUT_BUF_SIZE - 1
    BY <1>3, ConsoleSizes DEF Slot
  <2> QED BY <1>3, <1>5, <2>1 DEF Buffers, Put
<1>7. d \in 0 .. IWRAP - 1 /\ Dist(r, d) = x + y + 1 /\ Dist(w, d) = y + 1 /\ Dist(d, d) = 0
  <2>1. /\ IWRAP \in Nat \ {0} /\ (x + y) + 1 < IWRAP /\ y + 1 < IWRAP /\ 1 \in Nat
        /\ x + y \in 0 .. IWRAP - 1 /\ y \in 0 .. IWRAP - 1
    BY <1>3, <1>4, ConsoleSizes
  <2>2. r \in 0 .. IWRAP - 1 /\ w \in 0 .. IWRAP - 1
    BY <1>3
  <2>3. d = (r + ((x + y) + 1)) % IWRAP
    <3>1. PICK m \in 0 .. IWRAP - 1 : m = x + y /\ m + 1 < IWRAP
      BY <2>1
    <3>2. (((r + m) % IWRAP) + 1) % IWRAP = (r + (m + 1)) % IWRAP
      BY <2>2, <3>1, OneFurther
    <3>3. e = (r + m) % IWRAP
      BY <1>3, <3>1
    <3> QED BY <1>5, <3>1, <3>2, <3>3
  <2>4. d = (w + (y + 1)) % IWRAP
    <3>1. PICK m \in 0 .. IWRAP - 1 : m = y /\ m + 1 < IWRAP
      BY <2>1
    <3>2. (((w + m) % IWRAP) + 1) % IWRAP = (w + (m + 1)) % IWRAP
      BY <2>2, <3>1, OneFurther
    <3>3. e = (w + m) % IWRAP
      BY <1>3, <3>1
    <3> QED BY <1>5, <3>1, <3>2, <3>3
  <2>5. (x + y) + 1 \in 0 .. IWRAP - 1 /\ y + 1 \in 0 .. IWRAP - 1
    BY <1>3, <2>1
  <2>6. d \in 0 .. IWRAP - 1 /\ Dist(r, d) = (x + y) + 1
    BY <2>2, <2>5, <2>3, Ahead
  <2>7. Dist(w, d) = y + 1
    <3>1. PICK m \in 0 .. IWRAP - 1 : m = y + 1
      BY <2>5
    <3>2. Dist(w, (w + m) % IWRAP) = m
      BY <1>3, Ahead
    <3> QED BY <2>4, <3>1, <3>2
  <2>8. Dist(d, d) = 0
    BY <2>6, Distances
  <2> QED BY <1>3, <2>6, <2>7, <2>8
<1>8. /\ cons'.buf = g /\ cons'.r = r /\ cons'.w = (IF full THEN d ELSE w) /\ cons'.e = d
      /\ cons' \in [buf : Buffers, r : 0 .. IWRAP - 1, w : 0 .. IWRAP - 1, e : 0 .. IWRAP - 1]
  <2>1. cons \in [buf : Buffers, r : 0 .. IWRAP - 1, w : 0 .. IWRAP - 1, e : 0 .. IWRAP - 1]
    BY DEF TerminalInv, TTypes, Buffers
  <2>2. cons' = [buf |-> g, r |-> r, w |-> IF full THEN d ELSE w, e |-> d]
    BY <1>1, <1>5, <2>1 DEF KeyPut, Put, Slot
  <2>3. PICK v \in 0 .. IWRAP - 1 : v = IF full THEN d ELSE w
    BY <1>3, <1>7
  <2>4. cons' = [buf |-> g, r |-> r, w |-> v, e |-> d]
    BY <2>2, <2>3
  <2>5. cons'.buf = g /\ cons'.r = r /\ cons'.w = v /\ cons'.e = d
    BY <2>4
  <2>6. cons' \in [buf : Buffers, r : 0 .. IWRAP - 1, w : 0 .. IWRAP - 1, e : 0 .. IWRAP - 1]
    BY <1>3, <1>6, <1>7, <2>3, <2>4
  <2> QED BY <2>3, <2>5, <2>6
<1>9. full <=> (c \in {"nl", "D"} \/ x + (y + 1) = INPUT_BUF_SIZE)
  <2>1. x + y + 1 = x + (y + 1)
    BY <1>3
  <2> QED BY <1>1, <1>5, <1>7, <2>1
<1>10. /\ Window(g, r, x) = Window(f, r, x) /\ Window(g, w, y + 1) = Append(Window(f, w, y), c)
       /\ Window(g, r, x) \o Window(g, w, y + 1) = Window(g, r, x + y + 1)
  <2>1. x + y \in 0 .. INPUT_BUF_SIZE - 1 /\ y \in 0 .. INPUT_BUF_SIZE - 1 /\ x \in 0 .. x + y
    BY <1>3, <1>4, ConsoleSizes
  <2>2. Window(g, r, x) = Window(f, r, x)
    <3>1. PICK n \in 0 .. INPUT_BUF_SIZE - 1 : n = x + y
      BY <2>1
    <3>2. c \in Keys /\ e = (r + n) % IWRAP /\ f \in Buffers /\ r \in 0 .. IWRAP - 1 /\ e \in 0 .. IWRAP - 1
          /\ g \in Buffers /\ g = Put(f, Slot(e), c) /\ x \in 0 .. n
      BY <1>3, <1>5, <1>6, <2>1, <3>1
    <3> QED BY <3>2, WindowKey
  <2>3. Window(g, w, y + 1) = Append(Window(f, w, y), c)
    <3>1. PICK n \in 0 .. INPUT_BUF_SIZE - 1 : n = y
      BY <2>1
    <3>2. c \in Keys /\ e = (w + n) % IWRAP /\ f \in Buffers /\ w \in 0 .. IWRAP - 1 /\ e \in 0 .. IWRAP - 1
          /\ g \in Buffers /\ g = Put(f, Slot(e), c)
      BY <1>3, <1>5, <1>6, <3>1
    <3>3. Window(g, w, n + 1) = Append(Window(f, w, n), c)
      BY <3>2, WindowKey
    <3> QED BY <3>1, <3>3
  <2>4. Window(g, r, x) \o Window(g, w, y + 1) = Window(g, r, x + (y + 1))
    <3>1. x \in 0 .. IWRAP - 1 /\ y + 1 \in Nat /\ x + (y + 1) <= IWRAP
      BY <1>3, <1>4, ConsoleSizes
    <3>2. PICK n \in Nat : n = y + 1
      BY <3>1
    <3>3. PICK m \in 0 .. IWRAP - 1 : m = x
      BY <3>1
    <3>4. m + n <= IWRAP /\ w = (r + m) % IWRAP
      BY <1>3, <3>1, <3>2, <3>3
    <3>5. g \in Buffers /\ r \in 0 .. IWRAP - 1 /\ w \in 0 .. IWRAP - 1
      BY <1>3, <1>6
    <3>6. Window(g, r, m) \o Window(g, w, n) = Window(g, r, m + n)
      BY <3>4, <3>5, WindowJoin
    <3> QED BY <3>2, <3>3, <3>6
  <2>5. x + y + 1 = x + (y + 1)
    BY <1>3
  <2> QED BY <2>2, <2>3, <2>4, <2>5
<1>11. Len(Window(f, r, x)) = x /\ Len(Window(f, w, y)) = y /\ Len(Append(Window(f, w, y), c)) = y + 1
       /\ DOMAIN Window(g, w, y + 1) = 1 .. y + 1
       /\ \A k \in 1 .. y + 1 : Window(g, w, y + 1)[k] = IF k = y + 1 THEN c ELSE Window(f, w, y)[k]
  <2>1. y + 1 \in Nat
    BY <1>3
  <2>2. Window(f, w, y) \in Seq(Keys \cup {"0"}) /\ Len(Window(f, w, y)) = y /\ Len(Window(f, r, x)) = x
    BY <1>3, WindowIs
  <2>3. DOMAIN Window(g, w, y + 1) = 1 .. y + 1
    BY <1>3, <1>6, <2>1, WindowIs
  <2>4. PICK s \in Seq(Keys \cup {"0"}) : s = Window(f, w, y) /\ Len(s) = y
    BY <2>2
  <2>5. Len(Append(s, c)) = y + 1 /\ \A k \in 1 .. y + 1 : Append(s, c)[k] = IF k = y + 1 THEN c ELSE s[k]
    BY <1>3, <2>4
  <2> QED BY <1>10, <2>2, <2>3, <2>4, <2>5
<1>12. CASE full
  <2>1. Chars(cons.r, cons.w)' = Window(g, r, x + y + 1) /\ Chars(cons.w, cons.e)' = <<>>
    <3>1. Chars(cons.r, cons.w)' = Window(g, r, Dist(r, d)) /\ Chars(cons.w, cons.e)' = Window(g, d, Dist(d, d))
      BY <1>8, <1>12, CharsAfter
    <3> QED BY <1>7, <3>1, EmptyWindow
  <2>2. Lines!Key(c)
    <3>1. Chars(cons.r, cons.w) = Window(f, r, x) /\ Chars(cons.w, cons.e) = Window(f, w, y)
      BY <1>1, <1>3
    <3> QED BY <1>3, <1>4, <1>9, <1>10, <1>11, <1>12, <2>1, <3>1 DEF Lines!Key, Lines!Ends
  <2>3. EditOK'
    <3>1. Dist(cons.r, cons.w)' = x + y + 1 /\ Dist(cons.w, cons.e)' = 0
      BY <1>7, <1>8, <1>12 DEF Dist
    <3>2. x + y + 1 + 0 <= INPUT_BUF_SIZE
      BY <1>3, <1>4, ConsoleSizes
    <3>3. DOMAIN <<>> = {}
      OBVIOUS
    <3> QED BY <2>1, <3>1, <3>2, <3>3 DEF EditOK
  <2> QED BY <1>8, <2>2, <2>3 DEF ConsTypes, LineStep, Lines!Next, Lines!Ends, Keys
<1>13. CASE ~full
  <2>1. /\ Chars(cons.r, cons.w)' = Window(f, r, x)
        /\ Chars(cons.w, cons.e)' = Window(g, w, y + 1)
    <3>1. Chars(cons.r, cons.w)' = Window(g, r, Dist(r, w)) /\ Chars(cons.w, cons.e)' = Window(g, w, Dist(w, d))
      BY <1>8, <1>13, CharsAfter
    <3> QED BY <1>2, <1>7, <1>10, <3>1
  <2>2. Lines!Key(c)
    <3>1. Chars(cons.r, cons.w) = Window(f, r, x) /\ Chars(cons.w, cons.e) = Window(f, w, y)
      BY <1>1, <1>3
    <3> QED BY <1>3, <1>4, <1>9, <1>10, <1>11, <1>13, <2>1, <3>1 DEF Lines!Key, Lines!Ends
  <2>3. EditOK'
    <3>1. Dist(cons.r, cons.w)' = x /\ Dist(cons.w, cons.e)' = y + 1
      BY <1>2, <1>7, <1>8, <1>13 DEF Dist
    <3>2. x + (y + 1) <= INPUT_BUF_SIZE
      BY <1>3, <1>4, ConsoleSizes
    <3>3. \A k \in 1 .. y + 1 : Window(g, w, y + 1)[k] \notin {"nl", "D"}
      <4> TAKE k \in 1 .. y + 1
      <4>1. CASE k = y + 1
        BY <1>9, <1>11, <1>13, <4>1
      <4>2. CASE k # y + 1
        <5>1. k \in 1 .. y
          BY <1>3, <4>2
        <5> QED BY <1>3, <1>11, <4>2, <5>1
      <4> QED BY <4>1, <4>2
    <3> QED BY <1>11, <2>1, <3>1, <3>2, <3>3 DEF EditOK
  <2> QED BY <1>8, <2>2, <2>3 DEF ConsTypes, LineStep, Lines!Next, Lines!Ends, Keys
<1> QED BY <1>12, <1>13

\* What the reader may take: the first characters, with no end before the last.
LEMMA LineRead ==
  ASSUME TerminalInv, NEW k \in 0 .. Dist(cons.r, cons.w), Consume(k),
         \A j \in 1 .. k - 1 : Chars(cons.r, cons.w)[j] \notin {"nl", "D"}
  PROVE  ConsTypes' /\ EditOK' /\ LineStep
<1>1. PICK f, r, w, e : f = cons.buf /\ r = cons.r /\ w = cons.w /\ e = cons.e
  OBVIOUS
<1>2. PICK x, y : x = Dist(r, w) /\ y = Dist(w, e)
  OBVIOUS
<1>3. /\ f \in Buffers /\ r \in 0 .. IWRAP - 1 /\ w \in 0 .. IWRAP - 1 /\ e \in 0 .. IWRAP - 1
      /\ x \in Nat /\ y \in Nat /\ x + y <= INPUT_BUF_SIZE /\ x + y < IWRAP
      /\ w = (r + x) % IWRAP
      /\ Chars(r, w) = Window(f, r, x) /\ Chars(w, e) = Window(f, w, y)
      /\ \A t \in 1 .. y : Window(f, w, y)[t] \notin {"nl", "D"}
  BY <1>1, <1>2, Lengths
<1>4. k \in 0 .. x /\ k \in Nat /\ x \in 0 .. IWRAP - 1 /\ k \in 0 .. IWRAP - 1
  BY <1>1, <1>2, <1>3, ConsoleSizes
<1>5. PICK d : d = (r + k) % IWRAP
  OBVIOUS
<1>6. d \in 0 .. IWRAP - 1 /\ Dist(d, w) = x - k
  <2>1. r \in 0 .. IWRAP - 1
    BY <1>3
  <2>2. d \in 0 .. IWRAP - 1
    BY <1>4, <1>5, <2>1, Ahead
  <2>3. PICK t \in Nat : t = x - k
    BY <1>3, <1>4
  <2>4. k + t < IWRAP /\ IWRAP \in Nat \ {0} /\ t \in 0 .. IWRAP - 1 /\ k + t = x
    BY <1>3, <1>4, <2>3, ConsoleSizes
  <2>5. (d + t) % IWRAP = (r + (k + t)) % IWRAP
    <3>1. PICK m \in 0 .. IWRAP - 1 : m = k
      BY <1>4
    <3>2. m + t < IWRAP /\ IWRAP \in Nat \ {0}
      BY <2>4, <3>1
    <3>3. (((r + m) % IWRAP) + t) % IWRAP = (r + (m + t)) % IWRAP
      BY <2>1, <3>2, SomeFurther
    <3> QED BY <1>5, <3>1, <3>3
  <2>6. (d + t) % IWRAP = w
    BY <1>3, <2>4, <2>5
  <2>7. Dist(d, (d + t) % IWRAP) = t
    BY <2>2, <2>4, Ahead
  <2> QED BY <2>2, <2>3, <2>6, <2>7
<1>7. /\ cons'.buf = f /\ cons'.r = d /\ cons'.w = w /\ cons'.e = e
      /\ cons' \in [buf : Buffers, r : 0 .. IWRAP - 1, w : 0 .. IWRAP - 1, e : 0 .. IWRAP - 1]
  <2>1. cons \in [buf : Buffers, r : 0 .. IWRAP - 1, w : 0 .. IWRAP - 1, e : 0 .. IWRAP - 1]
    BY DEF TerminalInv, TTypes, Buffers
  <2>2. cons' = [buf |-> f, r |-> d, w |-> w, e |-> e]
    BY <1>1, <1>5, <2>1 DEF Consume
  <2> QED BY <1>3, <1>6, <2>2
<1>8. Chars(cons.r, cons.w)' = Window(f, d, x - k) /\ Chars(cons.w, cons.e)' = Window(f, w, y)
      /\ Dist(cons.r, cons.w)' = x - k /\ Dist(cons.w, cons.e)' = y
  <2>1. Chars(cons.r, cons.w)' = Window(f, d, Dist(d, w)) /\ Chars(cons.w, cons.e)' = Window(f, w, Dist(w, e))
    BY <1>7, CharsAfter
  <2>2. Dist(cons.r, cons.w)' = Dist(d, w) /\ Dist(cons.w, cons.e)' = Dist(w, e)
    BY <1>7 DEF Dist
  <2> QED BY <1>2, <1>6, <2>1, <2>2
<1>9. EditOK'
  <2>1. (x - k) + y <= INPUT_BUF_SIZE
    BY <1>3, <1>4, ConsoleSizes
  <2>2. DOMAIN Window(f, w, y) = 1 .. y
    BY DEF Window
  <2> QED BY <1>3, <1>8, <2>1, <2>2 DEF EditOK
<1>10. Chars(cons.r, cons.w) = Window(f, r, x) /\ Chars(cons.w, cons.e) = Window(f, w, y)
  BY <1>1, <1>3
<1>11. CASE k = 0
  <2>1. d = r
    BY <1>3, <1>5, <1>11, ConsoleSizes
  <2>2. x - k = x
    BY <1>3, <1>11
  <2> QED BY <1>7, <1>8, <1>9, <1>10, <2>1, <2>2 DEF ConsTypes, LineStep
<1>12. CASE k # 0
  <2>1. Window(f, d, x - k) = SubSeq(Window(f, r, x), k + 1, Len(Window(f, r, x)))
    <3>1. f \in Buffers /\ r \in 0 .. IWRAP - 1 /\ d \in 0 .. IWRAP - 1
      BY <1>3, <1>6
    <3> QED BY <1>4, <1>5, <3>1, WindowDrop
  <2>2. Len(Window(f, r, x)) = x
    BY <1>3, WindowIs
  <2>3. k \in 1 .. Len(Window(f, r, x))
    BY <1>4, <1>12, <2>2
  <2>4. Lines!Read
    BY <1>8, <1>10, <2>1, <2>3 DEF Lines!Read, Lines!Ends
  <2> QED BY <1>7, <1>9, <2>4 DEF ConsTypes, LineStep, Lines!Next
<1> QED BY <1>11, <1>12

LEMMA LineErased ==
  ASSUME TerminalInv, cons.e # cons.w, cons' = [cons EXCEPT !.e = (cons.e - 1) % IWRAP]
  PROVE  ConsTypes' /\ EditOK' /\ LineStep
<1>1. PICK f, r, w, e : f = cons.buf /\ r = cons.r /\ w = cons.w /\ e = cons.e
  OBVIOUS
<1>2. PICK x, y : x = Dist(r, w) /\ y = Dist(w, e)
  OBVIOUS
<1>3. /\ f \in Buffers /\ r \in 0 .. IWRAP - 1 /\ w \in 0 .. IWRAP - 1 /\ e \in 0 .. IWRAP - 1
      /\ x \in Nat /\ y \in Nat /\ x + y <= INPUT_BUF_SIZE /\ x + y < IWRAP
      /\ e = (w + y) % IWRAP /\ (y = 0 <=> e = w)
      /\ Chars(r, w) = Window(f, r, x) /\ Chars(w, e) = Window(f, w, y)
      /\ \A t \in 1 .. y : Window(f, w, y)[t] \notin {"nl", "D"}
  BY <1>1, <1>2, Lengths
<1>4. y \in 1 .. IWRAP - 1 /\ y \in Nat \ {0} /\ y - 1 \in 0 .. IWRAP - 1 /\ IWRAP \in Nat \ {0}
  BY <1>1, <1>3, ConsoleSizes
<1>5. PICK d : d = (e - 1) % IWRAP
  OBVIOUS
<1>6. d \in 0 .. IWRAP - 1 /\ Dist(w, d) = y - 1
  <2>1. w \in 0 .. IWRAP - 1
    BY <1>3
  <2>2. (((w + y) % IWRAP) - 1) % IWRAP = (w + (y - 1)) % IWRAP
    BY <1>4, <2>1, Back
  <2>3. d = (w + (y - 1)) % IWRAP
    BY <1>3, <1>5, <2>2
  <2>4. PICK m \in 0 .. IWRAP - 1 : m = y - 1
    BY <1>4
  <2> QED BY <2>1, <2>3, <2>4, Ahead
<1>7. /\ cons'.buf = f /\ cons'.r = r /\ cons'.w = w /\ cons'.e = d
      /\ cons' \in [buf : Buffers, r : 0 .. IWRAP - 1, w : 0 .. IWRAP - 1, e : 0 .. IWRAP - 1]
  <2>1. cons \in [buf : Buffers, r : 0 .. IWRAP - 1, w : 0 .. IWRAP - 1, e : 0 .. IWRAP - 1]
    BY DEF TerminalInv, TTypes, Buffers
  <2> QED BY <1>1, <1>5, <1>6, <2>1
<1>8. Chars(cons.r, cons.w)' = Window(f, r, x) /\ Chars(cons.w, cons.e)' = Window(f, w, y - 1)
      /\ Dist(cons.r, cons.w)' = x /\ Dist(cons.w, cons.e)' = y - 1
  <2>1. Chars(cons.r, cons.w)' = Window(f, r, Dist(r, w)) /\ Chars(cons.w, cons.e)' = Window(f, w, Dist(w, d))
    BY <1>7, CharsAfter
  <2>2. Dist(cons.r, cons.w)' = Dist(r, w) /\ Dist(cons.w, cons.e)' = Dist(w, d)
    BY <1>7 DEF Dist
  <2> QED BY <1>2, <1>6, <2>1, <2>2
<1>9. Window(f, w, y - 1) = SubSeq(Window(f, w, y), 1, Len(Window(f, w, y)) - 1)
      /\ Window(f, w, y) # <<>>
  <2>1. Len(Window(f, w, y)) = y
    BY <1>3, WindowIs
  <2>2. Len(<<>>) = 0
    OBVIOUS
  <2>3. Window(f, w, y) # <<>>
    BY <1>4, <2>1, <2>2
  <2> QED BY <1>3, <1>4, <2>3, WindowFront
<1>10. Chars(cons.r, cons.w) = Window(f, r, x) /\ Chars(cons.w, cons.e) = Window(f, w, y)
  BY <1>1, <1>3
<1>11. Lines!Erase
  BY <1>8, <1>9, <1>10 DEF Lines!Erase, Lines!Front
<1>12. EditOK'
  <2>1. x + (y - 1) <= INPUT_BUF_SIZE
    BY <1>3, <1>4, ConsoleSizes
  <2>2. DOMAIN Window(f, w, y - 1) = 1 .. y - 1
    BY DEF Window
  <2>3. \A t \in 1 .. y - 1 : Window(f, w, y - 1)[t] = Window(f, w, y)[t] /\ t \in 1 .. y
    BY <1>4 DEF Window
  <2> QED BY <1>3, <1>8, <2>1, <2>2, <2>3 DEF EditOK
<1> QED BY <1>7, <1>11, <1>12 DEF ConsTypes, LineStep, Lines!Next

LEMMA LineKilled ==
  ASSUME TerminalInv, cons' = [cons EXCEPT !.e = KilledTo]
  PROVE  ConsTypes' /\ EditOK' /\ LineStep
<1>1. KilledTo = cons.w
  BY DEF TerminalInv, EditOK, KilledTo
<1>2. PICK f, r, w, e : f = cons.buf /\ r = cons.r /\ w = cons.w /\ e = cons.e
  OBVIOUS
<1>3. PICK x, y : x = Dist(r, w) /\ y = Dist(w, e)
  OBVIOUS
<1>4. /\ f \in Buffers /\ r \in 0 .. IWRAP - 1 /\ w \in 0 .. IWRAP - 1 /\ e \in 0 .. IWRAP - 1
      /\ x \in Nat /\ y \in Nat /\ x + y <= INPUT_BUF_SIZE /\ Chars(r, w) = Window(f, r, x)
  BY <1>2, <1>3, Lengths
<1>5. /\ cons'.buf = f /\ cons'.r = r /\ cons'.w = w /\ cons'.e = w
      /\ cons' \in [buf : Buffers, r : 0 .. IWRAP - 1, w : 0 .. IWRAP - 1, e : 0 .. IWRAP - 1]
  <2>1. cons \in [buf : Buffers, r : 0 .. IWRAP - 1, w : 0 .. IWRAP - 1, e : 0 .. IWRAP - 1]
    BY DEF TerminalInv, TTypes, Buffers
  <2> QED BY <1>1, <1>2, <1>4, <2>1
<1>6. Dist(w, w) = 0
  BY <1>4, Distances
<1>7. Chars(cons.r, cons.w)' = Window(f, r, x) /\ Chars(cons.w, cons.e)' = <<>>
      /\ Dist(cons.r, cons.w)' = x /\ Dist(cons.w, cons.e)' = 0
  <2>1. Chars(cons.r, cons.w)' = Window(f, r, Dist(r, w)) /\ Chars(cons.w, cons.e)' = Window(f, w, Dist(w, w))
    BY <1>5, CharsAfter
  <2>2. Dist(cons.r, cons.w)' = Dist(r, w) /\ Dist(cons.w, cons.e)' = Dist(w, w)
    BY <1>5 DEF Dist
  <2> QED BY <1>3, <1>6, <2>1, <2>2, EmptyWindow
<1>8. Lines!KillLine
  BY <1>2, <1>4, <1>7 DEF Lines!KillLine
<1>9. EditOK'
  <2>1. x + 0 <= INPUT_BUF_SIZE
    BY <1>4, ConsoleSizes
  <2>2. DOMAIN <<>> = {}
    OBVIOUS
  <2> QED BY <1>7, <2>1, <2>2 DEF EditOK
<1> QED BY <1>5, <1>8, <1>9 DEF ConsTypes, LineStep, Lines!Next

LEMMA LineKept ==
  ASSUME TerminalInv, cons' = cons
  PROVE  ConsTypes' /\ EditOK' /\ LineStep
<1>1. Chars(cons.r, cons.w)' = Chars(cons.r, cons.w) /\ Chars(cons.w, cons.e)' = Chars(cons.w, cons.e)
  BY DEF Chars, Dist
<1>2. Dist(cons.r, cons.w)' = Dist(cons.r, cons.w) /\ Dist(cons.w, cons.e)' = Dist(cons.w, cons.e)
  BY DEF Dist
<1> QED BY <1>1, <1>2 DEF TerminalInv, TTypes, EditOK, ConsTypes, LineStep, Buffers

LEMMA FirstEnd ==
  ASSUME NEW E, E # {}, E \subseteq Nat
  PROVE  Min(E) \in E /\ \A j \in E : Min(E) <= j
<1>1. \E x \in E : \A y \in E : x <= y
  BY LeastNatural
<1> QED BY <1>1 DEF Min

\* consoleread takes no more than is there, and nothing beyond an end.
LEMMA ConsoleRead ==
  ASSUME TerminalInv, consoleread
  PROVE  TerminalInv' /\ LineStep
<1> DEFINE L == Chars(cons.r, cons.w)
           E == {k \in DOMAIN L : k <= reader.n /\ L[k] \in {"nl", "D"}}
           k == Min(E)
           taken == IF Len(L) < reader.n THEN Len(L) ELSE reader.n
           saved == L[k] = "D" /\ reader.got + k > 1
           Readers == [pc : {"idle", "loop", "sleeping"}, n : Nat, got : Int, killed : BOOLEAN]
<1>1. /\ UNCHANGED <<uart, uintr>> /\ reader \in Readers /\ reader.n \in Nat
      /\ uart \in [tx : Int, irq : BOOLEAN, rx : Seq(Keys)]
      /\ uintr \in [pc : {"off", "tx", "rx", "cons", "echo"}, c : Keys \cup {"0"}, echo : Int]
      /\ uintr.pc = "cons" => uintr.c \in Keys
  BY DEF TerminalInv, TTypes, consoleread
<1>2. PICK x \in Nat : x = Dist(cons.r, cons.w) /\ Len(L) = x /\ DOMAIN L = 1 .. x
  <2>1. PICK f, r, w : f = cons.buf /\ r = cons.r /\ w = cons.w
    OBVIOUS
  <2>2. f \in Buffers /\ r \in 0 .. IWRAP - 1 /\ w \in 0 .. IWRAP - 1
    BY <2>1 DEF TerminalInv, TTypes, Buffers
  <2>3. PICK x \in Nat : x = Dist(r, w)
    BY <2>2, Distances
  <2>4. Len(Window(f, r, x)) = x /\ DOMAIN Window(f, r, x) = 1 .. x
    BY <2>2, WindowIs
  <2>5. L = Window(f, r, x)
    BY <2>1, <2>3, CharsAreWindow
  <2> QED BY <2>1, <2>3, <2>4, <2>5
<1>3. \/ reader' = Returned /\ UNCHANGED cons
      \/ E # {} /\ Consume(IF saved THEN k - 1 ELSE k) /\ reader' = Returned
      \/ /\ E = {} /\ Consume(taken)
         /\ \/ reader' = Returned
            \/ taken # reader.n /\ reader' = [reader EXCEPT !.pc = "sleeping", !.n = @ - taken, !.got = @ + taken]
  BY DEF consoleread
<1>4. taken \in 0 .. x /\ taken <= reader.n /\ reader.n - taken \in Nat
  BY <1>1, <1>2
<1>5. reader' \in Readers
  <2>1. Returned \in Readers
    <3>1. PICK v \in Readers : v = reader
      BY <1>1
    <3>2. PICK zero \in Nat, none \in Int : zero = 0 /\ none = 0
      OBVIOUS
    <3>3. Returned = [v EXCEPT !.pc = "idle", !.n = zero, !.got = none]
      BY <3>1, <3>2 DEF Returned
    <3> QED BY <3>3
  <2>2. CASE reader' = [reader EXCEPT !.pc = "sleeping", !.n = reader.n - taken, !.got = reader.got + taken]
    <3>1. taken \in Int /\ reader.got \in Int
      BY <1>1, <1>4
    <3>2. PICK m \in Nat, g \in Int : m = reader.n - taken /\ g = reader.got + taken
      BY <1>4, <3>1
    <3> HIDE DEF taken
    <3> QED BY <1>1, <2>2, <3>2
  <2> QED BY <1>3, <2>1, <2>2
<1> HIDE DEF L, E, k, taken, saved, Readers
<1>6. TTypes' <=> ConsTypes'
  BY <1>1, <1>5 DEF TTypes, ConsTypes, Buffers, Readers
<1>7. CASE UNCHANGED cons
  BY <1>6, <1>7, LineKept DEF TerminalInv
<1>8. CASE E # {} /\ Consume(IF saved THEN k - 1 ELSE k)
  <2>1. k \in E /\ \A j \in E : k <= j
    <3>1. E \subseteq Nat
      BY <1>2 DEF E
    <3> QED BY <1>8, <3>1, FirstEnd DEF k
  <2>2. k \in 1 .. x /\ k <= reader.n
    BY <1>2, <2>1 DEF E
  <2>3. PICK m : m = IF saved THEN k - 1 ELSE k
    OBVIOUS
  <2>4. m \in 0 .. x /\ m <= k
    BY <2>2, <2>3
  <2>5. ASSUME NEW j \in 1 .. m - 1 PROVE L[j] \notin {"nl", "D"}
    <3>1. j \in 1 .. x /\ j < k /\ j <= reader.n
      BY <1>1, <2>2, <2>4
    <3>2. j \notin E
      BY <2>1, <2>2, <3>1
    <3> QED BY <1>2, <3>1, <3>2 DEF E
  <2>6. ConsTypes' /\ EditOK' /\ LineStep
    BY <1>2, <1>8, <2>3, <2>4, <2>5, LineRead DEF L
  <2> QED BY <1>6, <2>6 DEF TerminalInv
<1>9. CASE E = {} /\ Consume(taken)
  <2>1. ASSUME NEW j \in 1 .. taken - 1 PROVE L[j] \notin {"nl", "D"}
    <3>1. j \in 1 .. x /\ j <= reader.n
      BY <1>1, <1>4
    <3> QED BY <1>2, <1>9, <3>1 DEF E
  <2>2. ConsTypes' /\ EditOK' /\ LineStep
    BY <1>2, <1>4, <1>9, <2>1, LineRead DEF L
  <2> QED BY <1>6, <2>2 DEF TerminalInv
<1> QED BY <1>3, <1>7, <1>8, <1>9

\* The copy to the reader fails: what it took lies before any other end.
LEMMA CopyoutFails ==
  ASSUME TerminalInv, copyoutFails
  PROVE  TerminalInv' /\ LineStep
<1> DEFINE L == Chars(cons.r, cons.w)
           Readers == [pc : {"idle", "loop", "sleeping"}, n : Nat, got : Int, killed : BOOLEAN]
<1>1. /\ UNCHANGED <<uart, uintr>> /\ reader \in Readers
      /\ uart \in [tx : Int, irq : BOOLEAN, rx : Seq(Keys)]
      /\ uintr \in [pc : {"off", "tx", "rx", "cons", "echo"}, c : Keys \cup {"0"}, echo : Int]
      /\ uintr.pc = "cons" => uintr.c \in Keys
  BY DEF TerminalInv, TTypes, copyoutFails
<1>2. PICK x \in Nat : x = Dist(cons.r, cons.w) /\ DOMAIN L = 1 .. x
  <2>1. PICK f, r, w : f = cons.buf /\ r = cons.r /\ w = cons.w
    OBVIOUS
  <2>2. f \in Buffers /\ r \in 0 .. IWRAP - 1 /\ w \in 0 .. IWRAP - 1
    BY <2>1 DEF TerminalInv, TTypes, Buffers
  <2>3. PICK x \in Nat : x = Dist(r, w)
    BY <2>2, Distances
  <2>4. DOMAIN Window(f, r, x) = 1 .. x
    BY <2>2, WindowIs
  <2>5. L = Window(f, r, x)
    BY <2>1, <2>3, CharsAreWindow
  <2> QED BY <2>1, <2>3, <2>4, <2>5
<1>3. PICK k \in DOMAIN L : (\A j \in 1 .. k - 1 : L[j] \notin {"nl", "D"}) /\ Consume(k)
  BY DEF copyoutFails
<1>4. reader' \in Readers
  <2>1. PICK v \in Readers : v = reader
    BY <1>1
  <2>2. PICK zero \in Nat, none \in Int : zero = 0 /\ none = 0
    OBVIOUS
  <2>3. reader' = [v EXCEPT !.pc = "idle", !.n = zero, !.got = none]
    BY <2>1, <2>2 DEF Returned, copyoutFails
  <2> QED BY <2>3
<1> HIDE DEF L, Readers
<1>5. TTypes' <=> ConsTypes'
  BY <1>1, <1>4 DEF TTypes, ConsTypes, Buffers, Readers
<1>6. k \in 0 .. x
  BY <1>2
<1>7. ConsTypes' /\ EditOK' /\ LineStep
  BY <1>2, <1>3, <1>6, LineRead DEF L
<1> QED BY <1>5, <1>7 DEF TerminalInv

\* The switch of consoleintr.
LEMMA ConsoleIntr ==
  ASSUME TerminalInv, consoleintr
  PROVE  TerminalInv' /\ LineStep
<1> DEFINE c == uintr.c
           e1 == (cons.e + 1) % IWRAP
           full == c \in {"nl", "D"} \/ Dist(cons.r, e1) = INPUT_BUF_SIZE
           Readers == [pc : {"idle", "loop", "sleeping"}, n : Nat, got : Int, killed : BOOLEAN]
<1>1. /\ UNCHANGED uart /\ reader \in Readers /\ c \in Keys
      /\ uart \in [tx : Int, irq : BOOLEAN, rx : Seq(Keys)]
      /\ uintr \in [pc : {"off", "tx", "rx", "cons", "echo"}, c : Keys \cup {"0"}, echo : Int]
  BY DEF TerminalInv, TTypes, consoleintr
<1>2. \/ c = "P" /\ cons' = cons
      \/ c = "U" /\ cons' = [cons EXCEPT !.e = KilledTo]
      \/ c = "H" /\ (cons' = cons \/ (cons.e # cons.w /\ cons' = [cons EXCEPT !.e = (cons.e - 1) % IWRAP]))
      \/ cons' = cons
      \/ c \notin {"P", "U", "H"} /\ Room /\ KeyPut(c, full)
  BY DEF consoleintr, KeyPut
<1>3. \/ reader' = reader
      \/ reader' = [reader EXCEPT !.pc = "loop"]
  BY DEF consoleintr
<1>4. \E n : n \in Int /\ uintr' = [uintr EXCEPT !.pc = "echo", !.echo = n]
  <2>1. 3 * Dist(KilledTo, cons.e) \in Int
    <3>1. KilledTo = cons.w
      BY DEF TerminalInv, EditOK, KilledTo
    <3>2. PICK a \in 0 .. IWRAP - 1, b \in 0 .. IWRAP - 1 : a = cons.w /\ b = cons.e
      BY DEF TerminalInv, TTypes
    <3>3. Dist(a, b) \in Int
      BY <3>2, Distances
    <3> QED BY <3>1, <3>2, <3>3
  <2>2. 0 \in Int /\ 1 \in Int /\ 3 \in Int
    OBVIOUS
  <2>3. \E n \in {0, 1, 3, 3 * Dist(KilledTo, cons.e)} : uintr' = [uintr EXCEPT !.pc = "echo", !.echo = n]
    BY DEF consoleintr
  <2> QED BY <2>1, <2>2, <2>3
<1>5. reader' \in Readers
  BY <1>1, <1>3
<1>6. uintr' \in [pc : {"off", "tx", "rx", "cons", "echo"}, c : Keys \cup {"0"}, echo : Int] /\ uintr'.pc = "echo"
  BY <1>1, <1>4
<1>7. TTypes' <=> ConsTypes'
  BY <1>1, <1>5, <1>6 DEF TTypes, ConsTypes, Buffers
<1>8. ConsTypes' /\ EditOK' /\ LineStep
  <2>1. CASE cons' = cons
    BY <2>1, LineKept
  <2>2. CASE cons' = [cons EXCEPT !.e = KilledTo]
    BY <2>2, LineKilled
  <2>3. CASE cons.e # cons.w /\ cons' = [cons EXCEPT !.e = (cons.e - 1) % IWRAP]
    BY <2>3, LineErased
  <2>4. CASE c \notin {"P", "U", "H"} /\ Room /\ KeyPut(c, full)
    <3>1. PICK a \in Keys \ {"P", "U", "H"}, b \in BOOLEAN : a = c /\ b = full
      BY <1>1, <2>4
    <3>2. Room /\ KeyPut(a, b)
      BY <2>4, <3>1
    <3> QED BY <3>1, <3>2, KeyTaken
  <2> QED BY <1>2, <2>1, <2>2, <2>3, <2>4
<1> QED BY <1>7, <1>8 DEF TerminalInv

\* What the uart, the writer and the caller do leaves the lines alone.
LEMMA OtherSteps ==
  ASSUME TerminalInv,
         transmit \/ uclaim \/ uartintr \/ uartgetc \/ uartputc_sync \/ Write \/ User
  PROVE  TerminalInv' /\ LineStep
<1> DEFINE Uarts == [tx : Int, irq : BOOLEAN, rx : Seq(Keys)]
           Handlers == [pc : {"off", "tx", "rx", "cons", "echo"}, c : Keys \cup {"0"}, echo : Int]
           Readers == [pc : {"idle", "loop", "sleeping"}, n : Nat, got : Int, killed : BOOLEAN]
<1>1. uart \in Uarts /\ uintr \in Handlers /\ reader \in Readers /\ (uintr.pc = "cons" => uintr.c \in Keys)
  BY DEF TerminalInv, TTypes
<1>2. SUFFICES /\ cons' = cons /\ uart' \in Uarts /\ uintr' \in Handlers /\ reader' \in Readers
               /\ uintr'.pc = "cons" => uintr'.c \in Keys
  BY LineKept DEF TerminalInv, TTypes, ConsTypes, Buffers
<1>3. PICK u \in Uarts, h \in Handlers, v \in Readers : u = uart /\ h = uintr /\ v = reader
  BY <1>1
<1>4. THR(uart) \in Uarts
  <2>1. u.tx + 1 \in Int
    OBVIOUS
  <2> QED BY <1>3, <2>1 DEF THR
<1>5. CASE transmit
  <2>1. u.tx - 1 \in Int /\ (u.tx = 1) \in BOOLEAN
    OBVIOUS
  <2>2. uart' = [u EXCEPT !.tx = u.tx - 1, !.irq = u.tx = 1]
    BY <1>3, <1>5 DEF transmit
  <2>3. [u EXCEPT !.tx = u.tx - 1, !.irq = u.tx = 1] \in Uarts
    BY <2>1
  <2> QED BY <1>1, <1>5, <2>2, <2>3 DEF transmit
<1>6. CASE uclaim
  BY <1>1, <1>6 DEF uclaim
<1>7. CASE uartintr
  BY <1>1, <1>7 DEF uartintr
<1>8. CASE uartgetc
  <2>1. CASE uart.rx = <<>>
    <3>1. uintr' = [h EXCEPT !.pc = "off", !.c = "0"] /\ UNCHANGED <<cons, uart, reader>>
      BY <1>3, <1>8, <2>1 DEF uartgetc
    <3> QED BY <1>1, <3>1
  <2>2. CASE uart.rx # <<>>
    <3>1. uart.rx \in Seq(Keys)
      BY <1>1
    <3>2. Head(uart.rx) \in Keys /\ Tail(uart.rx) \in Seq(Keys)
      BY <2>2, <3>1
    <3>3. PICK k \in Keys, z \in Seq(Keys) : k = Head(uart.rx) /\ z = Tail(uart.rx)
      BY <3>2
    <3>4. uintr' = [h EXCEPT !.pc = "cons", !.c = k] /\ uart' = [u EXCEPT !.rx = z] /\ UNCHANGED <<cons, reader>>
      BY <1>3, <1>8, <2>2, <3>3 DEF uartgetc
    <3>5. uintr' \in Handlers /\ uintr'.c = k
      BY <3>4
    <3>6. uart' \in Uarts
      BY <3>4
    <3> QED BY <1>1, <3>4, <3>5, <3>6
  <2> QED BY <2>1, <2>2
<1>9. CASE uartputc_sync
  <2>1. \/ uintr' = [h EXCEPT !.pc = "rx"]
        \/ uintr' = [h EXCEPT !.echo = h.echo - 1]
    BY <1>3, <1>9 DEF uartputc_sync
  <2>2. h.echo - 1 \in Int
    OBVIOUS
  <2>3. uintr' \in Handlers /\ uintr'.pc # "cons"
    <3>1. h.pc = "echo"
      BY <1>3, <1>9 DEF uartputc_sync
    <3> QED BY <2>1, <2>2, <3>1
  <2> QED BY <1>1, <1>4, <1>9, <2>3 DEF uartputc_sync
<1>10. CASE Write
  BY <1>1, <1>4, <1>10 DEF Write, uartwrite, uartwrite2
<1>11. CASE User
  <2>1. ASSUME NEW c \in Keys, type(c) PROVE uart' \in Uarts /\ UNCHANGED <<cons, uintr, reader>>
    <3>1. Append(uart.rx, c) \in Seq(Keys)
      BY <1>1
    <3> QED BY <1>1, <2>1, <3>1 DEF type
  <2>2. CASE consolewrite
    BY <1>1, <2>2 DEF consolewrite
  <2>3. ASSUME NEW n \in {1, INPUT_BUF_SIZE + 1}, read(n)
        PROVE  reader' \in Readers /\ UNCHANGED <<cons, uart, uintr>>
    <3>1. n \in Nat
      BY ConsoleSizes
    <3>2. PICK zero \in Int : zero = 0
      OBVIOUS
    <3>3. reader' = [v EXCEPT !.pc = "loop", !.n = n, !.got = zero]
      BY <1>3, <2>3, <3>2 DEF read
    <3> QED BY <2>3, <3>1, <3>3 DEF read
  <2>4. CASE kill
    BY <1>1, <2>4 DEF kill
  <2> QED BY <1>1, <1>11, <2>1, <2>2, <2>3, <2>4 DEF User
<1> QED BY <1>5, <1>6, <1>7, <1>8, <1>9, <1>10, <1>11

LEMMA InitTerminal ==
  ASSUME Init
  PROVE  TerminalInv /\ Lines!Init
<1>1. PICK l \in Workloads : TInit(l.keys, l.reads, l.writes, l.start)
  BY DEF Init
<1>2. PICK a \in 0 .. IWRAP - 1 : a = l.start
  BY <1>1, WorkloadStarts, ConsoleSizes
<1>3. cons.r = a /\ cons.w = a /\ cons.e = a /\ Dist(a, a) = 0
  <2>1. Dist(a, a) = 0
    BY Distances
  <2> QED BY <1>1, <1>2, <2>1 DEF TInit
<1>4. Chars(cons.r, cons.w) = <<>> /\ Chars(cons.w, cons.e) = <<>>
  BY <1>3, CharsAreWindow, EmptyWindow
<1>5. TTypes
  BY <1>1, <1>2 DEF TInit, TTypes
<1>6. EditOK
  <2>1. DOMAIN <<>> = {} /\ 0 + 0 <= INPUT_BUF_SIZE
    BY ConsoleSizes
  <2> QED BY <1>3, <1>4, <2>1 DEF EditOK
<1> QED BY <1>4, <1>5, <1>6 DEF TerminalInv, Lines!Init

LEMMA NextTerminal ==
  ASSUME TerminalInv, [Next]_vars
  PROVE  TerminalInv' /\ LineStep
<1>1. CASE UNCHANGED tvars
  BY <1>1, LineKept DEF tvars, TerminalInv, TTypes, ConsTypes, Buffers
<1>2. CASE Uart \/ Write \/ consoleread \/ copyoutFails \/ User
  BY <1>2, ConsoleRead, CopyoutFails, ConsoleIntr, OtherSteps DEF Uart
<1> QED BY <1>1, <1>2 DEF Next, devintr, DiskStep, ConsoleStep, Done, vars

\* The console keeps what LineDiscipline promises, for any keys, any size of
\* the buffer and indices that wrap at any multiple of it: no key is lost,
\* doubled or reordered, a read ends with its line, and what is handed over is
\* never edited, whatever consoleintr and consoleread meet.
THEOREM ConsoleIsLineDiscipline == Spec => ImplementsLineDiscipline
<1>1. Init => TerminalInv /\ Lines!Init
  BY InitTerminal
<1>2. TerminalInv /\ [Next]_vars => TerminalInv'
  BY NextTerminal
<1>3. TerminalInv /\ [Next]_vars => LineStep
  BY NextTerminal
<1> QED BY <1>1, <1>2, <1>3, PTL DEF Spec, ImplementsLineDiscipline, Lines!Spec, LineStep

=============================================================================
