--------------------------- MODULE MonitorProofs ----------------------------
(***************************************************************************)
(* Proofs about Monitor, for any number of clients, conditions, nodes and  *)
(* lists, and for any sequence of calls; and then about MonitorRefinement: *)
(* in shallow use the list library keeps its queues exactly, MonServer     *)
(* does not crash and forgets nobody, and the monitor implements           *)
(* HoareMonitor; and then about ReaderWriter, for any number of readers    *)
(* and writers: a writer works alone.                                      *)
(*                                                                         *)
(* The theorems about the monitor alone do not use ReaderWriter; what its  *)
(* assumption says of Client (that it is Reader, Writer and mainp) is true *)
(* of any clients, for suitable Reader, Writer and mainp.                  *)
(***************************************************************************)
EXTENDS MonitorRefinement, ReaderWriter, FiniteSetTheorems, SequenceTheorems, TLAPS

-----------------------------------------------------------------------------
LEMMA InitialPoolOK == PoolOK(InitialPool)
  <1> USE PoolAssumption
  <1>1. 0 \in Node /\ 0 \in ListId
    BY DEF Node, ListId
  <1>2. InitialPool \in PoolType
    BY <1>1 DEF InitialPool, PoolType, NodeOrNil, ListIdOrNil, NIL
  <1> QED
    BY <1>1, <1>2 DEF InitialPool, PoolOK

(* ListCreate empties nothing but an uninitialised library.                *)
LEMMA ListCreateOK ==
    ASSUME NEW p, PoolOK(p)
    PROVE  /\ PoolOK(ListCreate(p).pool)
           /\ ListCreate(p).ret \in ListPtr
           /\ \A n \in Node : ListCreate(p).pool.item[n] \in {p.item[n], NULL}
  <1> USE PoolAssumption
  <1>1. PoolOK(ChainedPool(p)) /\ \A n \in Node : ChainedPool(p).item[n] = NULL
    <2>1. \A n \in Node : (IF n = MAX_NODES - 1 THEN NIL ELSE n + 1) \in NodeOrNil
      BY DEF Node, NodeOrNil, NIL
    <2>2. \A l \in ListId : (IF l = MAX_LISTS - 1 THEN NIL ELSE l + 1) \in ListIdOrNil
      BY DEF ListId, ListIdOrNil, NIL
    <2>3. ChainedPool(p) \in PoolType
      BY <2>1, <2>2 DEF ChainedPool, PoolOK, PoolType, NodeOrNil, NIL
    <2>4. /\ ChainedPool(p).item = [n \in Node |-> NULL]
          /\ ChainedPool(p).count = [l \in ListId |-> 0]
      BY DEF ChainedPool, PoolOK, PoolType
    <2> QED
      BY <2>3, <2>4 DEF PoolOK
  <1>2. ASSUME NEW q, PoolOK(q)
        PROVE  /\ PoolOK(TakeList(q).pool)
               /\ TakeList(q).ret \in ListPtr
               /\ TakeList(q).pool.item = q.item
    BY <1>2 DEF TakeList, PoolOK, PoolType, ListIdOrNil, ListPtr, NIL
  <1> QED
    BY ZenonT(60), <1>1, <1>2 DEF ListCreate, PoolOK, PoolType

(***************************************************************************)
(* The pool in the middle of ListAppend: as PoolOK, except that node i,    *)
(* just allocated, has no predecessor yet.                                 *)
(***************************************************************************)
LEMMA NodeAllocatorOK ==
    ASSUME NEW p, PoolOK(p), NodeAllocator(p).ret # NIL
    PROVE  LET q == NodeAllocator(p).pool
               i == NodeAllocator(p).ret
           IN  /\ i \in Node
               /\ q \in PoolType
               /\ q.item = p.item
               /\ q.head = p.head /\ q.tail = p.tail /\ q.count = p.count
               /\ \A n \in Node \ {i} : q.prev[n] = p.prev[n]
  BY DEF NodeAllocator, PoolOK, PoolType, NodeOrNil, NIL

(* ListAppend changes at most one item, to the one appended.               *)
LEMMA ListAppendOK ==
    ASSUME NEW p, PoolOK(p), NEW l \in ListPtr, NEW c \in Client
    PROVE  LET q == ListAppend(p, l, c).pool
           IN  /\ PoolOK(q)
               /\ \/ q.item = p.item
                  \/ \E k \in Node : q.item = [p.item EXCEPT ![k] = c]
  <1> USE PoolAssumption, MonitorAssumption
  <1>1. CASE l = NULL
    BY <1>1 DEF ListAppend
  <1>2. CASE l # NULL /\ NodeAllocator(p).ret = NIL
    <2>1. NodeAllocator(p).pool = p
      BY <1>2 DEF NodeAllocator
    <2> QED
      BY <1>2, <2>1 DEF ListAppend
  <1>3. CASE l # NULL /\ NodeAllocator(p).ret # NIL
    <2> DEFINE a == NodeAllocator(p).pool
               i == NodeAllocator(p).ret
               t == IF a.count[l] = 0 THEN i ELSE a.tail[l]
               q == Link(a, l, i, c)
    <2>1. /\ i \in Node
          /\ a \in PoolType
          /\ a.item = p.item
          /\ a.head = p.head /\ a.tail = p.tail /\ a.count = p.count
          /\ \A n \in Node \ {i} : a.prev[n] = p.prev[n]
      BY <1>3, NodeAllocatorOK
    <2>2. l \in ListId
      BY <1>3 DEF ListPtr
    <2>3. ListAppend(p, l, c).pool = q
      BY <1>3 DEF ListAppend
    <2> HIDE DEF a, i
    <2>4. t \in Node
      <3>1. a.count[l] \in Nat
        BY <2>1, <2>2 DEF PoolType
      <3> QED
        BY <3>1, <2>1, <2>2 DEF PoolOK
    <2> DEFINE it == [a.item EXCEPT ![i] = c]
               pv == [a.prev EXCEPT ![i] = t]
               nx == [a.next EXCEPT ![t] = i]
               hd == [a.head EXCEPT ![l] = IF a.count[l] = 0 THEN i ELSE @]
               cu == [a.curr EXCEPT ![l] = IF a.count[l] = 0 THEN i ELSE @]
               tl == [a.tail EXCEPT ![l] = i]
               ct == [a.count EXCEPT ![l] = @ + 1]
               bf == [a.before EXCEPT ![l] = 0]
               af == [a.after EXCEPT ![l] = 0]
    <2>a. /\ it \in [Node -> Client \cup {NULL}]
          /\ pv \in [Node -> NodeOrNil] /\ nx \in [Node -> NodeOrNil]
          /\ hd \in [ListId -> NodeOrNil] /\ cu \in [ListId -> NodeOrNil]
          /\ tl \in [ListId -> NodeOrNil] /\ ct \in [ListId -> Nat]
          /\ bf \in [ListId -> {0, 1}] /\ af \in [ListId -> {0, 1}]
      BY <2>1, <2>2, <2>4 DEF PoolType, NodeOrNil
    <2>b. q = [a EXCEPT !.item = it, !.prev = pv, !.next = nx, !.head = hd, !.curr = cu,
                        !.tail = tl, !.count = ct, !.before = bf, !.after = af]
      BY DEF Link
    <2> HIDE DEF q, it, pv, nx, hd, cu, tl, ct, bf, af
    <2>c. /\ q.item = it /\ q.prev = pv /\ q.head = hd /\ q.tail = tl /\ q.count = ct
      BY <2>b, <2>1 DEF PoolType
    <2>5. /\ q.item   = [a.item EXCEPT ![i] = c]
          /\ q.prev   = [a.prev EXCEPT ![i] = t]
          /\ q.head   = [a.head EXCEPT ![l] = IF a.count[l] = 0 THEN i ELSE @]
          /\ q.tail   = [a.tail EXCEPT ![l] = i]
          /\ q.count  = [a.count EXCEPT ![l] = @ + 1]
      BY <2>c DEF it, pv, hd, tl, ct
    <2>6. q \in PoolType
      BY <2>a, <2>b, <2>1 DEF PoolType
    <2>7. \A n \in Node : q.item[n] # NULL => q.prev[n] \in Node
      <3> TAKE n \in Node
      <3>1. CASE n = i
        BY <3>1, <2>1, <2>4, <2>5 DEF PoolType
      <3>2. CASE n # i
        BY <3>2, <2>1, <2>5 DEF PoolOK, PoolType
      <3> QED
        BY <3>1, <3>2
    <2>8. \A m \in ListId : q.count[m] > 0 => q.head[m] \in Node /\ q.tail[m] \in Node
      <3> TAKE m \in ListId
      <3>0. a.count[l] \in Nat
        BY <2>1, <2>2 DEF PoolType
      <3>1. CASE m = l
        BY <3>0, <3>1, <2>1, <2>2, <2>5 DEF PoolOK, PoolType
      <3>2. CASE m # l
        BY <3>2, <2>1, <2>5 DEF PoolOK, PoolType
      <3> QED
        BY <3>1, <3>2
    <2> QED
      BY <2>1, <2>3, <2>5, <2>6, <2>7, <2>8 DEF PoolOK
  <1> QED
    BY <1>1, <1>2, <1>3

(* ListFirst followed by ListRemove takes one item out: the one returned.  *)
LEMMA PopFirstOK ==
    ASSUME NEW p, PoolOK(p), NEW l \in ListId, p.count[l] > 0,
           PopFirst(p, l).ret # NULL
    PROVE  LET q == PopFirst(p, l).pool
               c == PopFirst(p, l).ret
           IN  /\ PoolOK(q)
               /\ c \in Client
               /\ \E k \in Node : p.item[k] = c /\ q.item = [p.item EXCEPT ![k] = NULL]
  <1> USE PoolAssumption, MonitorAssumption
  <1> DEFINE f == ListFirst(p, l).pool
             h == p.head[l]
             pn == p.prev[h]
             nn == p.next[h]
             q == Unlink(f, l, h)
  <1>1. h \in Node /\ l # NULL /\ p.count[l] \in Nat
    BY DEF PoolOK, PoolType, ListId
  <1>2. /\ f = [p EXCEPT !.curr   = [@ EXCEPT ![l] = h],
                         !.before = [@ EXCEPT ![l] = 0],
                         !.after  = [@ EXCEPT ![l] = 0]]
        /\ PopFirst(p, l).ret = p.item[h]
    BY <1>1 DEF ListFirst, ListCount, PopFirst
  <1> DEFINE fcu == [p.curr EXCEPT ![l] = h]
             fbf == [p.before EXCEPT ![l] = 0]
             faf == [p.after EXCEPT ![l] = 0]
  <1>a. /\ fcu \in [ListId -> NodeOrNil] /\ fcu[l] = h
        /\ fbf \in [ListId -> {0, 1}] /\ fbf[l] = 0
        /\ faf \in [ListId -> {0, 1}] /\ faf[l] = 0
    BY <1>1 DEF PoolOK, PoolType, NodeOrNil
  <1>b. f = [p EXCEPT !.curr = fcu, !.before = fbf, !.after = faf]
    BY <1>2
  <1> HIDE DEF f, h, fcu, fbf, faf
  <1>3. /\ f \in PoolType
        /\ f.item = p.item /\ f.prev = p.prev /\ f.next = p.next
        /\ f.head = p.head /\ f.tail = p.tail /\ f.count = p.count
        /\ f.curr[l] = h /\ f.before[l] = 0 /\ f.after[l] = 0
    BY <1>a, <1>b DEF PoolOK, PoolType
  <1>4. PopFirst(p, l).pool = q
    BY <1>1, <1>3 DEF PopFirst, ListRemove, ListCount, Node, NIL, f
  <1>5. pn \in Node /\ nn \in NodeOrNil /\ p.item[h] \in Client
    BY <1>1, <1>2 DEF PoolOK, PoolType
  <1> DEFINE it == [p.item EXCEPT ![h] = NULL]
             nx == [n \in Node |-> IF n = pn THEN nn ELSE IF n = h THEN NIL ELSE p.next[n]]
             pv == [n \in Node |-> IF n = nn THEN pn ELSE IF n = h THEN NIL ELSE p.prev[n]]
             lk == [f.link EXCEPT ![h] = f.free_node_head]
             hd == [f.head EXCEPT ![l] = IF pn = NIL THEN nn ELSE @]
             tl == [p.tail EXCEPT ![l] = IF nn = NIL THEN pn ELSE @]
             ct == [p.count EXCEPT ![l] = @ - 1]
             cu == [f.curr EXCEPT ![l] = IF p.count[l] = 1 THEN NIL ELSE IF nn # NIL THEN nn ELSE pn]
             bf == [f.before EXCEPT ![l] = IF p.count[l] = 1 THEN 1 ELSE 0]
             af == [f.after EXCEPT ![l] = 0]
  <1>c. /\ it \in [Node -> Client \cup {NULL}]
        /\ nx \in [Node -> NodeOrNil] /\ pv \in [Node -> NodeOrNil]
        /\ lk \in [Node -> NodeOrNil]
        /\ hd \in [ListId -> NodeOrNil] /\ tl \in [ListId -> NodeOrNil]
        /\ ct \in [ListId -> Nat] /\ cu \in [ListId -> NodeOrNil]
        /\ bf \in [ListId -> {0, 1}] /\ af \in [ListId -> {0, 1}]
    BY <1>1, <1>3, <1>5 DEF PoolOK, PoolType, NodeOrNil, NIL
  <1>d. hd = p.head
    <2>1. pn # NIL /\ p.head \in [ListId -> NodeOrNil]
      BY <1>5 DEF Node, NIL, PoolOK, PoolType
    <2> HIDE DEF pn
    <2> QED
      BY <1>3, <2>1
  <1>e. q = [f EXCEPT !.item = it, !.next = nx, !.prev = pv, !.link = lk,
                      !.free_node_head = h, !.head = hd, !.tail = tl, !.count = ct,
                      !.curr = cu, !.before = bf, !.after = af]
    BY <1>3 DEF Unlink
  <1> HIDE DEF q, it, nx, pv, lk, hd, tl, ct, cu, bf, af
  <1>f. /\ q.item = it /\ q.prev = pv /\ q.head = hd /\ q.tail = tl /\ q.count = ct
    BY <1>3, <1>e DEF PoolType
  <1>6. /\ q.item = [p.item EXCEPT ![h] = NULL]
        /\ q.prev = [n \in Node |-> IF n = nn THEN pn ELSE IF n = h THEN NIL ELSE p.prev[n]]
        /\ q.head = p.head
        /\ q.tail = [p.tail EXCEPT ![l] = IF nn = NIL THEN pn ELSE @]
        /\ q.count = [p.count EXCEPT ![l] = @ - 1]
    BY <1>d, <1>f DEF it, pv, tl, ct
  <1>7. q \in PoolType
    BY <1>1, <1>3, <1>c, <1>e DEF PoolType, NodeOrNil
  <1>8. \A n \in Node : q.item[n] # NULL => q.prev[n] \in Node
    BY <1>1, <1>5, <1>6 DEF PoolOK, PoolType
  <1>9. \A m \in ListId : q.count[m] > 0 => q.head[m] \in Node /\ q.tail[m] \in Node
    <2> TAKE m \in ListId
    <2>1. CASE m = l
      BY <2>1, <1>1, <1>5, <1>6 DEF PoolOK, PoolType
    <2>2. CASE m # l
      BY <2>2, <1>6 DEF PoolOK, PoolType
    <2> QED
      BY <2>1, <2>2
  <1> QED
    BY <1>1, <1>2, <1>4, <1>5, <1>6, <1>7, <1>8, <1>9 DEF PoolOK

(* if (queue == NULL) queue = ListCreate();                                *)
LEMMA CreateIfNullOK ==
    ASSUME NEW p, PoolOK(p), NEW S, Queued(p, S), NEW queue \in ListPtr
    PROVE  LET r == CreateIfNull(p, queue)
           IN  PoolOK(r.pool) /\ Queued(r.pool, S) /\ r.ret \in ListPtr
  <1>1. CASE queue = NULL
    <2>1. CreateIfNull(p, queue) = ListCreate(p)
      BY <1>1 DEF CreateIfNull
    <2> QED
      BY <2>1, ListCreateOK DEF Queued
  <1>2. CASE queue # NULL
    BY <1>2 DEF CreateIfNull
  <1> QED
    BY <1>1, <1>2

(* Appending a process that is in no list keeps the lists free of doubles. *)
LEMMA AppendQueued ==
    ASSUME NEW p, PoolOK(p), NEW S, Queued(p, S), NEW l \in ListPtr,
           NEW c \in Client, c \notin S
    PROVE  LET q == ListAppend(p, l, c).pool
           IN  PoolOK(q) /\ Queued(q, S \cup {c})
  <1> DEFINE q == ListAppend(p, l, c).pool
  <1>1. /\ PoolOK(q)
        /\ \/ q.item = p.item
           \/ \E k \in Node : q.item = [p.item EXCEPT ![k] = c]
    BY ListAppendOK
  <1> HIDE DEF q
  <1>2. Queued(q, S \cup {c})
    <2>1. CASE q.item = p.item
      BY <2>1 DEF Queued
    <2>2. ASSUME NEW k \in Node, q.item = [p.item EXCEPT ![k] = c]
          PROVE  Queued(q, S \cup {c})
      <3>1. p.item \in [Node -> Client \cup {NULL}]
        BY DEF PoolOK, PoolType
      <3>2. \A n \in Node : q.item[n] = IF n = k THEN c ELSE p.item[n]
        BY <2>2, <3>1
      <3> QED
        BY <3>2 DEF Queued
    <2> QED
      BY <1>1, <2>1, <2>2
  <1> QED
    BY <1>1, <1>2 DEF q

(* A process taken off a list is one of those queued, and in no list now.  *)
LEMMA PopQueued ==
    ASSUME NEW p, PoolOK(p), NEW S, Queued(p, S), NEW l \in ListPtr,
           ListCount(p, l) > 0, PopFirst(p, l).ret # NULL
    PROVE  LET r == PopFirst(p, l)
           IN  /\ PoolOK(r.pool) /\ Queued(r.pool, S \ {r.ret})
               /\ r.ret \in S /\ r.ret \in Client
  <1> DEFINE r == PopFirst(p, l)
  <1>1. l \in ListId /\ p.count[l] > 0
    BY DEF ListCount, ListPtr
  <1>2. PoolOK(r.pool) /\ r.ret \in Client
    BY <1>1, PopFirstOK
  <1>3. PICK k \in Node : p.item[k] = r.ret /\ r.pool.item = [p.item EXCEPT ![k] = NULL]
    BY <1>1, PopFirstOK
  <1>4. p.item \in [Node -> Client \cup {NULL}]
    BY DEF PoolOK, PoolType
  <1> HIDE DEF r
  <1>5. \A n \in Node : r.pool.item[n] = IF n = k THEN NULL ELSE p.item[n]
    BY <1>3, <1>4
  <1>6. r.ret # NULL
    BY DEF r
  <1>7. Queued(r.pool, S \ {r.ret}) /\ r.ret \in S
    BY <1>3, <1>5, <1>6 DEF Queued
  <1> QED
    BY <1>2, <1>7 DEF r

(* The process a released monitor goes to, if any, was queued.             *)
LEMMA NextOwnerOK ==
    ASSUME TypeOK, NEW p, PoolOK(p), NEW S, Queued(p, S), NextOwner(p).ret # NULL
    PROVE  LET r == NextOwner(p)
           IN  /\ PoolOK(r.pool) /\ Queued(r.pool, S \ {r.ret})
               /\ r.ret = NoPid \/ (r.ret \in Client /\ r.ret \in S)
  <1> DEFINE q == IF ListCount(p, urgent_queue) > 0 THEN urgent_queue ELSE entry_queue
  <1>1. q \in ListPtr
    BY DEF TypeOK
  <1> HIDE DEF q
  <1>2. CASE ListCount(p, q) > 0
    <2>1. NextOwner(p) = PopFirst(p, q)
      BY <1>2 DEF NextOwner, q
    <2> QED
      BY <1>1, <1>2, <2>1, PopQueued
  <1>3. CASE ~(ListCount(p, q) > 0)
    <2>1. NextOwner(p) = [pool |-> p, ret |-> NoPid]
      BY <1>3 DEF NextOwner, q
    <2>2. \A n \in Node : p.item[n] # NoPid
      BY MonitorAssumption DEF PoolOK, PoolType
    <2> QED
      BY <2>1, <2>2 DEF Queued
  <1> QED
    BY <1>2, <1>3

-----------------------------------------------------------------------------
(* The inductive invariant.                                                *)

LEMMA InitMonitorInv == Init => MonitorInv
  <1> SUFFICES ASSUME Init PROVE MonitorInv
    OBVIOUS
  <1> USE PoolAssumption, MonitorAssumption
  <1>1. PoolOK(pool)
    BY InitialPoolOK DEF Init
  <1>2. TypeOK
    <2>1. /\ entry_queue \in ListPtr /\ urgent_queue \in ListPtr
          /\ condition_queues \in [Cond -> ListPtr]
          /\ num_conditions \in Int /\ num_conditions <= MAX_CONDS
          /\ monitor_locked \in {0, 1} /\ init_i \in Nat
      BY DEF Init, ListPtr
    <2>2. /\ current_owner \in Client \cup {NoPid} /\ init_pid \in Client \cup {NoPid}
          /\ stage \in [Client -> {"running", "sent", "held"}]
          /\ msg \in [Client -> MonMsg \cup {NoMsg}]
      BY DEF Init
    <2>3. /\ MonServer_pid \in BOOLEAN /\ sendFailed \in BOOLEAN /\ crashed \in BOOLEAN
          /\ inside \in [Client -> BOOLEAN]
      BY DEF Init
    <2> QED
      BY <1>1, <2>1, <2>2, <2>3 DEF TypeOK, PoolOK
  <1>3. Queued(pool, Held)
    BY DEF Init, Queued, InitialPool
  <1> QED
    BY <1>1, <1>2, <1>3 DEF Init, MonitorInv, NoMsg

(***************************************************************************)
(* What a Reply does to the clients: R runs, H is blocked, and a process   *)
(* whose MonEnter is answered is inside.                                   *)
(***************************************************************************)
LEMMA ReplyOK ==
    ASSUME MonitorInv, NEW R, NEW H, Reply(R, H)
    PROVE  /\ stage' \in [Client -> {"running", "sent", "held"}]
           /\ msg' \in [Client -> MonMsg \cup {NoMsg}]
           /\ inside' \in [Client -> BOOLEAN]
           /\ sendFailed' = sendFailed
           /\ Held' = (Held \cup (H \cap Client)) \ R
           /\ \A c \in Client : stage'[c] # "running" /\ msg'[c].type = "MonLeave" =>
                                 c \in H \/ (~inside'[c])
           /\ \A c \in Client : inside'[c] /\ stage'[c] # "held" =>
                                 c \in R \/ (inside[c] /\ stage[c] # "held")
  <1> USE DEF MonitorInv, TypeOK, Reply
  <1>1. stage' \in [Client -> {"running", "sent", "held"}]
    OBVIOUS
  <1>2. msg' \in [Client -> MonMsg \cup {NoMsg}]
    OBVIOUS
  <1>3. inside' \in [Client -> BOOLEAN]
    OBVIOUS
  <1>4. Held' = (Held \cup (H \cap Client)) \ R
    BY DEF Held
  <1>5. \A c \in Client : stage'[c] # "running" /\ msg'[c].type = "MonLeave" =>
                          c \in H \/ (~inside'[c])
    OBVIOUS
  <1>6. \A c \in Client : inside'[c] /\ stage'[c] # "held" =>
                          c \in R \/ (inside[c] /\ stage[c] # "held")
    OBVIOUS
  <1> QED
    BY <1>1, <1>2, <1>3, <1>4, <1>5, <1>6

(* A server step that ends with a Reply keeps the invariant if it keeps    *)
(* the lists and the owner in step with the clients.                       *)
LEMMA AfterReply ==
    ASSUME MonitorInv, NEW R \in SUBSET Client, NEW H \in SUBSET Client, Reply(R, H),
           PoolOK(pool'), Queued(pool', (Held \cup H) \ R),
           UNCHANGED <<queueVars, num_conditions, MonServer_pid, crashed>>,
           init_pid' = NoPid, init_i' \in Nat,
           current_owner' \in Client \cup {NoPid},
           monitor_locked' \in {0, 1},
           current_owner' # NoPid => monitor_locked' = 1,
           \A c \in H : msg[c].type # "MonLeave",
           ~sendFailed => \A c \in Client :
               c \in R \/ (inside[c] /\ stage[c] # "held" /\ c \notin H)
                 => current_owner' = c \/ ~inside'[c]
    PROVE  MonitorInv'
  <1> USE MonitorAssumption
  <1>1. TypeOK'
    BY ReplyOK DEF MonitorInv, TypeOK, PoolOK, queueVars
  <1>2. Queued(pool', Held')
    <2>1. Held' = (Held \cup H) \ R
      BY ReplyOK
    <2> QED
      BY <2>1 DEF Queued
  <1>3. \A c \in Client : stage'[c] # "running" /\ msg'[c].type = "MonLeave" => ~inside'[c]
    BY DEF MonitorInv, TypeOK, Reply
  <1>4. ~sendFailed' => \A c \in Client :
                          inside'[c] /\ stage'[c] # "held" => current_owner' = c
    BY DEF MonitorInv, TypeOK, Reply
  <1> QED
    BY <1>1, <1>2, <1>3, <1>4 DEF MonitorInv

LEMMA RefuseInv ==
    ASSUME MonitorInv, NEW c \in Client, NEW t \in {"MonLeave", "MonWait", "MonSignal"},
           Receive(c, t), Refuse(c)
    PROVE  MonitorInv'
  <1>1. Queued(pool', (Held \cup {}) \ {c}) /\ PoolOK(pool')
    BY DEF MonitorInv, Refuse, Receive, Queued, Held
  <1>2. ~sendFailed => \A d \in Client :
             d \in {c} \/ (inside[d] /\ stage[d] # "held" /\ d \notin {})
               => current_owner' = d \/ ~inside'[d]
    BY DEF MonitorInv, TypeOK, Refuse, Receive, Reply, lockVars
  <1>3. /\ Reply({c}, {})
        /\ UNCHANGED <<queueVars, num_conditions, MonServer_pid, crashed>>
        /\ init_pid' = NoPid /\ init_i' \in Nat
        /\ current_owner' \in Client \cup {NoPid}
        /\ monitor_locked' \in {0, 1}
        /\ current_owner' # NoPid => monitor_locked' = 1
    BY DEF MonitorInv, TypeOK, Refuse, Receive, lockVars, initVars
  <1> QED
    BY <1>1, <1>2, <1>3, AfterReply

LEMMA PassOnInv ==
    ASSUME MonitorInv, NEW c \in Client, NEW p, PoolOK(p), NEW R, NEW H,
           init_pid = NoPid, stage[c] = "sent", current_owner = c,
           \/ R = {c} /\ H = {} /\ msg[c].type = "MonLeave"
           \/ R = {} /\ H = {c} /\ msg[c].type = "MonWait",
           Queued(p, Held \cup H),
           PassOn(p, R, H)
    PROVE  MonitorInv'
  <1> DEFINE next == NextOwner(p)
  <1>1. CASE next.ret = NULL
    <2>1. Crash
      BY <1>1 DEF PassOn
    <2> QED
      BY <2>1 DEF Crash, MonitorInv, TypeOK, Held, Queued, queueVars, lockVars, initVars, clientVars
  <1>2. CASE next.ret # NULL
    <2> DEFINE G == {next.ret} \ {NoPid}
    <2>1. /\ pool' = next.pool
          /\ current_owner' = next.ret
          /\ monitor_locked' = IF next.ret = NoPid THEN 0 ELSE 1
          /\ Reply(R \cup G, H)
          /\ UNCHANGED <<queueVars, num_conditions, MonServer_pid, initVars, crashed>>
      BY <1>2 DEF PassOn, Crash
    <2>2. /\ PoolOK(next.pool) /\ Queued(next.pool, (Held \cup H) \ {next.ret})
          /\ next.ret = NoPid \/ (next.ret \in Client /\ next.ret \in Held \cup H)
      BY <1>2, NextOwnerOK DEF MonitorInv
    <2> HIDE DEF next
    <2>3. Queued(pool', (Held \cup H) \ (R \cup G))
      <3>1. c \notin Held
        BY DEF Held
      <3>2. NoPid \notin Held \cup H
        BY MonitorAssumption DEF Held
      <3> QED
        BY <2>1, <2>2, <3>1, <3>2 DEF Queued
    <2>4. ~sendFailed => \A d \in Client :
             d \in R \cup G \/ (inside[d] /\ stage[d] # "held" /\ d \notin H)
               => current_owner' = d \/ ~inside'[d]
      BY <2>1, MonitorAssumption DEF MonitorInv, TypeOK, Reply
    <2>5. R \cup G \in SUBSET Client /\ H \in SUBSET Client
      BY <2>2
    <2> QED
      BY <2>1, <2>2, <2>3, <2>4, <2>5, AfterReply DEF MonitorInv, TypeOK, initVars
  <1> QED
    BY <1>1, <1>2

LEMMA ServeEnterInv ==
    ASSUME MonitorInv, NEW c \in Client, ServeEnter(c)
    PROVE  MonitorInv'
  <1> USE MonitorAssumption
  <1>0. /\ stage[c] = "sent" /\ msg[c].type = "MonEnter"
        /\ UNCHANGED <<queueVars, num_conditions, MonServer_pid, crashed>>
        /\ init_pid' = NoPid /\ init_i' \in Nat
    BY DEF ServeEnter, Receive, initVars, MonitorInv, TypeOK
  <1>1. CASE monitor_locked = 0
    <2>1. /\ Reply({c}, {}) /\ pool' = pool
          /\ monitor_locked' = 1 /\ current_owner' = c
      BY <1>1 DEF ServeEnter
    <2>2. PoolOK(pool') /\ Queued(pool', (Held \cup {}) \ {c})
      BY <1>0, <2>1 DEF MonitorInv, Queued, Held
    <2>3. ~sendFailed => \A d \in Client :
             d \in {c} \/ (inside[d] /\ stage[d] # "held" /\ d \notin {})
               => current_owner' = d \/ ~inside'[d]
      BY <1>1, <2>1 DEF MonitorInv
    <2> QED
      BY <1>0, <2>1, <2>2, <2>3, AfterReply
  <1>2. CASE monitor_locked # 0
    <2>1. /\ Reply({}, {c}) /\ pool' = ListAppend(pool, entry_queue, c).pool
          /\ monitor_locked' = monitor_locked /\ current_owner' = current_owner
      BY <1>2 DEF ServeEnter, lockVars
    <2>2. PoolOK(pool') /\ Queued(pool', (Held \cup {c}) \ {})
      <3>1. c \notin Held /\ entry_queue \in ListPtr
        BY <1>0 DEF Held, MonitorInv, TypeOK
      <3>2. PoolOK(pool') /\ Queued(pool', Held \cup {c})
        BY <2>1, <3>1, AppendQueued DEF MonitorInv
      <3> QED
        BY <3>2 DEF Queued
    <2>3. ~sendFailed => \A d \in Client :
             d \in {} \/ (inside[d] /\ stage[d] # "held" /\ d \notin {c})
               => current_owner' = d \/ ~inside'[d]
      BY <2>1 DEF MonitorInv
    <2>4. /\ current_owner' \in Client \cup {NoPid} /\ monitor_locked' \in {0, 1}
          /\ current_owner' # NoPid => monitor_locked' = 1
          /\ \A d \in {c} : msg[d].type # "MonLeave"
      BY <1>0, <2>1 DEF MonitorInv, TypeOK
    <2> QED
      BY <1>0, <2>1, <2>2, <2>3, <2>4, AfterReply
  <1> QED
    BY <1>1, <1>2

LEMMA ServeLeaveInv ==
    ASSUME MonitorInv, NEW c \in Client, ServeLeave(c)
    PROVE  MonitorInv'
  <1>1. CASE current_owner = c
    <2>1. /\ PassOn(pool, {c}, {}) /\ stage[c] = "sent"
          /\ msg[c].type = "MonLeave" /\ init_pid = NoPid
      BY <1>1 DEF ServeLeave, Receive
    <2>2. PoolOK(pool) /\ Queued(pool, Held \cup {})
      BY DEF MonitorInv, Queued
    <2> QED
      BY <1>1, <2>1, <2>2, PassOnInv
  <1>2. CASE current_owner # c
    BY <1>2, RefuseInv DEF ServeLeave
  <1> QED
    BY <1>1, <1>2

(* Every message carries an integer.                                       *)
LEMMA MessageArg ==
    ASSUME NEW m \in MonMsg \cup {NoMsg}
    PROVE  m.arg \in Int
  <1> USE MonitorAssumption
  <1>1. CASE m \in [type : {"MonInit"}, arg : InitArgs]
    <2>1. m.arg \in InitArgs
      BY <1>1
    <2> QED
      BY <2>1
  <1>2. CASE m \in [type : {"MonEnter", "MonLeave"}, arg : {0}]
    <2>1. m.arg \in {0}
      BY <1>2
    <2> QED
      BY <2>1
  <1>3. CASE m \in [type : {"MonWait", "MonSignal"}, arg : CondArgs]
    <2>1. m.arg \in CondArgs
      BY <1>3
    <2> QED
      BY <2>1
  <1>4. CASE m = NoMsg
    BY <1>4 DEF NoMsg
  <1> QED
    BY <1>1, <1>2, <1>3, <1>4 DEF MonMsg

(* A condition MayUse accepts indexes condition_queues.                    *)
LEMMA MayUseOK ==
    ASSUME TypeOK, NEW c \in Client, MayUse(c, msg[c].arg)
    PROVE  current_owner = c /\ condition_queues[msg[c].arg] \in ListPtr
  <1>1. msg[c].arg \in Int
    BY MessageArg DEF TypeOK
  <1>2. msg[c].arg \in Cond
    BY <1>1, MonitorAssumption DEF TypeOK, MayUse, Cond
  <1> QED
    BY <1>2 DEF MayUse, TypeOK

LEMMA ServeWaitInv ==
    ASSUME MonitorInv, NEW c \in Client, ServeWait(c)
    PROVE  MonitorInv'
  <1> DEFINE p == ListAppend(pool, condition_queues[msg[c].arg], c).pool
  <1>1. CASE MayUse(c, msg[c].arg)
    <2>1. /\ PassOn(p, {}, {c}) /\ stage[c] = "sent"
          /\ msg[c].type = "MonWait" /\ init_pid = NoPid
      BY <1>1 DEF ServeWait, Receive
    <2>2. current_owner = c /\ condition_queues[msg[c].arg] \in ListPtr
      BY <1>1, MayUseOK DEF MonitorInv
    <2>3. PoolOK(p) /\ Queued(p, Held \cup {c})
      BY <2>1, <2>2, AppendQueued DEF MonitorInv, Held
    <2> HIDE DEF p
    <2> QED
      BY <2>1, <2>2, <2>3, PassOnInv
  <1>2. CASE ~MayUse(c, msg[c].arg)
    BY <1>2, RefuseInv DEF ServeWait
  <1> QED
    BY <1>1, <1>2

LEMMA ServeSignalInv ==
    ASSUME MonitorInv, NEW c \in Client, ServeSignal(c)
    PROVE  MonitorInv'
  <1> USE MonitorAssumption
  <1> DEFINE queue == condition_queues[msg[c].arg]
             first == PopFirst(pool, queue)
  <1>0. /\ stage[c] = "sent" /\ msg[c].type = "MonSignal" /\ init_pid = NoPid
        /\ Receive(c, "MonSignal")
    BY DEF ServeSignal, Receive
  <1>1. CASE Refuse(c)
    BY <1>0, <1>1, RefuseInv
  <1>2. CASE MayUse(c, msg[c].arg) /\ ListCount(pool, queue) > 0 /\ Wake(c, queue)
    <2>1. current_owner = c /\ queue \in ListPtr
      BY <1>2, MayUseOK DEF MonitorInv
    <2>2. CASE first.ret = NULL
      <3>1. Crash
        BY <1>2, <2>2 DEF Wake
      <3> QED
        BY <3>1 DEF Crash, MonitorInv, TypeOK, Held, Queued, queueVars, lockVars, initVars, clientVars
    <2>3. CASE first.ret # NULL
      <3>1. /\ pool' = ListAppend(first.pool, urgent_queue, c).pool
            /\ current_owner' = first.ret
            /\ monitor_locked' = monitor_locked
            /\ Reply({first.ret}, {c})
            /\ UNCHANGED <<queueVars, num_conditions, MonServer_pid, initVars, crashed>>
        BY <1>2, <2>3 DEF Wake, Crash
      <3>2. /\ PoolOK(first.pool) /\ Queued(first.pool, Held \ {first.ret})
            /\ first.ret \in Held /\ first.ret \in Client
        BY <1>2, <2>1, <2>3, PopQueued DEF MonitorInv
      <3> HIDE DEF first
      <3>3. c \notin Held /\ urgent_queue \in ListPtr /\ first.ret # c
        BY <1>0, <3>2 DEF Held, MonitorInv, TypeOK
      <3>4. PoolOK(pool') /\ Queued(pool', (Held \ {first.ret}) \cup {c})
        BY <3>1, <3>2, <3>3, AppendQueued
      <3>5. Queued(pool', (Held \cup {c}) \ {first.ret})
        BY <3>3, <3>4 DEF Queued
      <3>6. ~sendFailed => \A d \in Client :
               d \in {first.ret} \/ (inside[d] /\ stage[d] # "held" /\ d \notin {c})
                 => current_owner' = d \/ ~inside'[d]
        BY <2>1, <3>1 DEF MonitorInv
      <3>7. /\ monitor_locked' = 1 /\ init_pid' = NoPid /\ init_i' \in Nat
            /\ \A d \in {c} : msg[d].type # "MonLeave"
            /\ {first.ret} \in SUBSET Client
        BY <1>0, <2>1, <3>1, <3>2 DEF MonitorInv, TypeOK, initVars
      <3> QED
        BY <3>1, <3>2, <3>4, <3>5, <3>6, <3>7, AfterReply
    <2> QED
      BY <2>2, <2>3
  <1> QED
    BY <1>1, <1>2 DEF ServeSignal

LEMMA ServeInitInv ==
    ASSUME MonitorInv, NEW c \in Client, ServeInit(c)
    PROVE  MonitorInv'
  <1> USE MonitorAssumption
  <1> DEFINE entry == CreateIfNull(pool, entry_queue)
             urgent == CreateIfNull(entry.pool, urgent_queue)
  <1>1. /\ stage[c] = "sent" /\ msg[c].type = "MonInit"
        /\ num_conditions' = CappedConditions(msg[c].arg)
        /\ entry_queue' = entry.ret /\ urgent_queue' = urgent.ret /\ pool' = urgent.pool
        /\ init_pid' = c /\ init_i' = 0
        /\ UNCHANGED <<condition_queues, lockVars, MonServer_pid, clientVars, sendFailed, crashed>>
    BY DEF ServeInit, Receive
  <1>2. PoolOK(entry.pool) /\ Queued(entry.pool, Held) /\ entry.ret \in ListPtr
    BY CreateIfNullOK DEF MonitorInv, TypeOK
  <1>3. PoolOK(urgent.pool) /\ Queued(urgent.pool, Held) /\ urgent.ret \in ListPtr
    BY <1>2, CreateIfNullOK DEF MonitorInv, TypeOK
  <1> HIDE DEF entry, urgent
  <1>4. num_conditions' \in Int /\ num_conditions' <= MAX_CONDS
    <2>1. msg[c].arg \in Int
      BY MessageArg DEF MonitorInv, TypeOK
    <2> QED
      BY <1>1, <2>1 DEF CappedConditions
  <1>5. Held' = Held
    BY <1>1 DEF Held, clientVars
  <1>6. TypeOK'
    BY <1>1, <1>2, <1>3, <1>4 DEF MonitorInv, TypeOK, PoolOK, lockVars, clientVars
  <1> QED
    BY <1>1, <1>3, <1>5, <1>6 DEF MonitorInv, lockVars, clientVars

LEMMA InitConditionInv ==
    ASSUME MonitorInv, InitCondition
    PROVE  MonitorInv'
  <1> USE MonitorAssumption
  <1> DEFINE queue == CreateIfNull(pool, condition_queues[init_i])
  <1>1. /\ init_pid # NoPid /\ init_i < num_conditions
        /\ condition_queues' = [condition_queues EXCEPT ![init_i] = queue.ret]
        /\ pool' = queue.pool /\ init_i' = init_i + 1
        /\ UNCHANGED <<entry_queue, urgent_queue, num_conditions, lockVars,
                       MonServer_pid, init_pid, clientVars, sendFailed, crashed>>
    BY DEF InitCondition
  <1>2. init_i \in Cond
    BY <1>1 DEF MonitorInv, TypeOK, Cond
  <1>3. PoolOK(queue.pool) /\ Queued(queue.pool, Held) /\ queue.ret \in ListPtr
    BY <1>2, CreateIfNullOK DEF MonitorInv, TypeOK
  <1> HIDE DEF queue
  <1>4. Held' = Held
    BY <1>1 DEF Held, clientVars
  <1>5. TypeOK'
    <2>1. condition_queues' \in [Cond -> ListPtr]
      BY <1>1, <1>3 DEF MonitorInv, TypeOK
    <2>2. init_i' \in Nat
      BY <1>1 DEF MonitorInv, TypeOK
    <2> QED
      BY <1>1, <1>3, <2>1, <2>2 DEF MonitorInv, TypeOK, PoolOK, lockVars, clientVars
  <1> QED
    BY <1>1, <1>3, <1>4, <1>5 DEF MonitorInv, lockVars, clientVars

LEMMA InitReplyInv ==
    ASSUME MonitorInv, InitReply
    PROVE  MonitorInv'
  <1> USE MonitorAssumption
  <1> DEFINE c == init_pid
  <1>1. /\ c \in Client /\ stage[c] = "sent" /\ msg[c].type = "MonInit"
        /\ init_pid' = NoPid /\ init_i' = 0 /\ Reply({c}, {})
        /\ UNCHANGED <<pool, queueVars, num_conditions, lockVars, MonServer_pid, crashed>>
    BY DEF InitReply, MonitorInv, TypeOK
  <1> HIDE DEF c
  <1>2. PoolOK(pool') /\ Queued(pool', (Held \cup {}) \ {c})
    BY <1>1 DEF MonitorInv, Queued, Held
  <1>3. ~sendFailed => \A d \in Client :
             d \in {c} \/ (inside[d] /\ stage[d] # "held" /\ d \notin {})
               => current_owner' = d \/ ~inside'[d]
    BY <1>1 DEF MonitorInv, TypeOK, Reply, lockVars
  <1>4. /\ current_owner' \in Client \cup {NoPid} /\ monitor_locked' \in {0, 1}
        /\ current_owner' # NoPid => monitor_locked' = 1
        /\ init_i' \in Nat /\ {c} \in SUBSET Client
    BY <1>1 DEF MonitorInv, TypeOK, lockVars
  <1> QED
    BY <1>1, <1>2, <1>3, <1>4, AfterReply

LEMMA CallInv ==
    ASSUME MonitorInv, NEW c \in Client, NEW m \in MonMsg, Call(c, m) \/ MonInit(c, m)
    PROVE  MonitorInv'
  <1> USE MonitorAssumption
  <1>1. /\ stage[c] = "running"
        /\ UNCHANGED <<pool, queueVars, num_conditions, lockVars, initVars, crashed>>
    BY DEF Call, MonInit, MayCall
  <1>2. init_pid # c /\ c \notin Held
    BY <1>1 DEF MonitorInv, Held
  <1>3. MonServer_pid' \in BOOLEAN
    BY DEF Call, MonInit, MonitorInv, TypeOK
  <1>4. CASE Send(c, m)
    <2>1. /\ stage' = [stage EXCEPT ![c] = "sent"]
          /\ msg' = [msg EXCEPT ![c] = m]
          /\ inside' = [inside EXCEPT ![c] = @ /\ m.type # "MonLeave"]
          /\ sendFailed' = sendFailed
      BY <1>4 DEF Send, AfterCall
    <2>2. TypeOK'
      BY <1>1, <1>3, <2>1
         DEF MonitorInv, TypeOK, queueVars, lockVars, initVars
    <2>3. Held' = Held
      BY <1>1, <2>1 DEF Held, MonitorInv, TypeOK
    <2>4. \A d \in Client : stage'[d] # "running" /\ msg'[d].type = "MonLeave" => ~inside'[d]
      BY <2>1 DEF MonitorInv, TypeOK
    <2>5. ~sendFailed' => \A d \in Client :
                            inside'[d] /\ stage'[d] # "held" => current_owner' = d
      BY <1>1, <2>1 DEF MonitorInv, TypeOK, lockVars
    <2>6. init_pid' # NoPid => stage'[init_pid'] = "sent" /\ msg'[init_pid'].type = "MonInit"
      BY <1>1, <1>2, <2>1 DEF MonitorInv, TypeOK, initVars
    <2> QED
      BY <1>1, <2>2, <2>3, <2>4, <2>5, <2>6 DEF MonitorInv, Queued, lockVars
  <1>5. CASE SendToNobody(c, m)
    <2>1. /\ inside' = [inside EXCEPT ![c] = (@ /\ m.type # "MonLeave") \/ m.type = "MonEnter"]
          /\ sendFailed' = TRUE
          /\ stage' = stage /\ msg' = msg
      BY <1>5 DEF SendToNobody, AfterCall, MonitorInv, TypeOK
    <2>2. TypeOK'
      BY <1>1, <1>3, <2>1
         DEF MonitorInv, TypeOK, queueVars, lockVars, initVars
    <2>3. Held' = Held
      BY <2>1 DEF Held
    <2>4. \A d \in Client : stage'[d] # "running" /\ msg'[d].type = "MonLeave" => ~inside'[d]
      BY <1>1, <2>1 DEF MonitorInv, TypeOK
    <2> QED
      BY <1>1, <2>1, <2>2, <2>3, <2>4 DEF MonitorInv, Queued, lockVars, initVars
  <1>6. CASE UNCHANGED <<MonServer_pid, clientVars, sendFailed>>
    BY <1>1, <1>6 DEF MonitorInv, TypeOK, Queued, Held, queueVars, lockVars, initVars, clientVars
  <1> QED
    BY <1>4, <1>5, <1>6 DEF Call, MonInit

LEMMA NextMonitorInv == MonitorInv /\ [Next]_vars => MonitorInv'
  <1> SUFFICES ASSUME MonitorInv, [Next]_vars PROVE MonitorInv'
    OBVIOUS
  <1>1. ASSUME NEW c \in Client, ClientStep(c) PROVE MonitorInv'
    BY <1>1, CallInv DEF ClientStep
  <1>2. ASSUME NEW c \in Client, Serve(c) PROVE MonitorInv'
    BY <1>2, ServeEnterInv, ServeLeaveInv, ServeWaitInv, ServeSignalInv, ServeInitInv DEF Serve
  <1>3. CASE InitCondition
    BY <1>3, InitConditionInv
  <1>4. CASE InitReply
    BY <1>4, InitReplyInv
  <1>5. CASE UNCHANGED vars
    BY <1>5 DEF vars, MonitorInv, TypeOK, Queued, Held, queueVars, lockVars, initVars, clientVars
  <1> QED
    BY <1>1, <1>2, <1>3, <1>4, <1>5 DEF Next, ServerStep

(***************************************************************************)
(* The invariant holds in every reachable state of the monitor, whatever   *)
(* its clients call and in whatever order MonServer receives the calls.    *)
(***************************************************************************)
THEOREM MonitorInvariant == Spec => []MonitorInv
  BY InitMonitorInv, NextMonitorInv, PTL DEF Spec

(***************************************************************************)
(* Every variable of MonServer, of its clients and of the list library it  *)
(* uses keeps its type: no handler indexes an array out of its bounds.     *)
(***************************************************************************)
THEOREM TypeCorrect == Spec => []TypeOK
  <1>1. MonitorInv => TypeOK
    BY DEF MonitorInv
  <1> QED
    BY <1>1, MonitorInvariant, PTL

(***************************************************************************)
(* Mutual exclusion of MonEnter .. MonLeave for any number of clients and  *)
(* conditions, even with the lists of the library out of order: once every *)
(* call finds the server, at most one client is active in the monitor.     *)
(***************************************************************************)
THEOREM MonitorMutualExclusion == Spec => []MutualExclusion
  <1>1. MonitorInv => MutualExclusion
    BY DEF MonitorInv, MutualExclusion, Active
  <1> QED
    BY <1>1, MonitorInvariant, PTL

-----------------------------------------------------------------------------
(* Free chains.                                                            *)

(* Only the chain of nothing has no first element.                         *)
LEMMA ChainFirst ==
    ASSUME NEW S, IsFiniteSet(S), NIL \notin S, NEW first, NEW next,
           Chained(S, first, next)
    PROVE  /\ first = NIL => S = {}
           /\ first # NIL => first \in S
  <1> DEFINE n == Cardinality(S)
  <1>1. n \in Nat /\ (n = 0 <=> S = {})
    BY FS_CardinalityType, FS_EmptySet
  <1> HIDE DEF n
  <1>2. PICK s \in [1 .. n -> S] : first = IF n = 0 THEN NIL ELSE s[1]
    BY DEF Chained, n
  <1> QED
    BY <1>1, <1>2

(* Taking the first element of a chain leaves the chain of the others.     *)
LEMMA ChainTake ==
    ASSUME NEW S, IsFiniteSet(S), NIL \notin S, NEW first, NEW next,
           Chained(S, first, next), first # NIL,
           NEW after, \A x \in S \ {first} : after[x] = next[x]
    PROVE  Chained(S \ {first}, next[first], after)
  <1> DEFINE n == Cardinality(S)
             m == Cardinality(S \ {first})
  <1>1. n \in Nat /\ n # 0 /\ first \in S
    BY ChainFirst, FS_CardinalityType, FS_EmptySet
  <1>2. m = n - 1
    BY <1>1, FS_RemoveElement
  <1> HIDE DEF n, m
  <1>3. PICK s \in [1 .. n -> S] :
          /\ \A x \in S : \E i \in 1 .. n : s[i] = x
          /\ \A i, j \in 1 .. n : s[i] = s[j] => i = j
          /\ first = IF n = 0 THEN NIL ELSE s[1]
          /\ \A i \in 1 .. n : next[s[i]] = IF i = n THEN NIL ELSE s[i + 1]
    BY DEF Chained, n
  <1> DEFINE t == [i \in 1 .. m |-> s[i + 1]]
  <1>4. \A i \in 1 .. m : i + 1 \in 1 .. n /\ i + 1 # 1 /\ t[i] = s[i + 1]
    BY <1>1, <1>2
  <1>5. first = s[1] /\ 1 \in 1 .. n
    BY <1>1, <1>2, <1>3
  <1>6. t \in [1 .. m -> S \ {first}]
    BY <1>3, <1>4, <1>5
  <1>7. \A x \in S \ {first} : \E i \in 1 .. m : t[i] = x
    <2> TAKE x \in S \ {first}
    <2>1. PICK i \in 1 .. n : s[i] = x
      BY <1>3
    <2>2. i - 1 \in 1 .. m /\ (i - 1) + 1 = i
      BY <2>1, <1>1, <1>2, <1>5
    <2>3. t[i - 1] = x
      BY <2>1, <2>2, <1>4
    <2> QED
      BY <2>2, <2>3
  <1>8. \A i, j \in 1 .. m : t[i] = t[j] => i = j
    <2> TAKE i, j \in 1 .. m
    <2>1. t[i] = t[j] => i + 1 = j + 1
      BY <1>3, <1>4
    <2> QED
      BY <2>1
  <1>9. next[first] = IF m = 0 THEN NIL ELSE t[1]
    <2>1. next[s[1]] = IF 1 = n THEN NIL ELSE s[2]
      BY <1>3, <1>5
    <2>2. m # 0 => 1 \in 1 .. m
      BY <1>1, <1>2
    <2> QED
      BY <1>1, <1>2, <1>5, <2>1, <2>2, <1>4
  <1>10. \A i \in 1 .. m : after[t[i]] = IF i = m THEN NIL ELSE t[i + 1]
    <2> TAKE i \in 1 .. m
    <2>1. after[t[i]] = next[s[i + 1]]
      BY <1>4, <1>6
    <2>2. next[s[i + 1]] = IF i + 1 = n THEN NIL ELSE s[(i + 1) + 1]
      BY <1>3, <1>4
    <2>3. i # m => i + 1 \in 1 .. m
      BY <1>1, <1>2
    <2> QED
      BY <1>1, <1>2, <2>1, <2>2, <2>3, <1>4
  <1> HIDE DEF t
  <1>11. \E u \in [1 .. m -> S \ {first}] :
          /\ \A x \in S \ {first} : \E i \in 1 .. m : u[i] = x
          /\ \A i, j \in 1 .. m : u[i] = u[j] => i = j
          /\ next[first] = IF m = 0 THEN NIL ELSE u[1]
          /\ \A i \in 1 .. m : after[u[i]] = IF i = m THEN NIL ELSE u[i + 1]
    BY <1>6, <1>7, <1>8, <1>9, <1>10
  <1> QED
    BY <1>11 DEF Chained, m

(* An element put before the first one makes the longer chain.             *)
LEMMA ChainPut ==
    ASSUME NEW S, IsFiniteSet(S), NIL \notin S, NEW first, NEW next,
           Chained(S, first, next), NEW e, e \notin S, e # NIL,
           NEW after, after[e] = first, \A x \in S : after[x] = next[x]
    PROVE  Chained(S \cup {e}, e, after)
  <1> DEFINE n == Cardinality(S)
             m == Cardinality(S \cup {e})
  <1>1. n \in Nat
    BY FS_CardinalityType
  <1>2. m = n + 1
    BY FS_AddElement
  <1> HIDE DEF n, m
  <1>3. PICK s \in [1 .. n -> S] :
          /\ \A x \in S : \E i \in 1 .. n : s[i] = x
          /\ \A i, j \in 1 .. n : s[i] = s[j] => i = j
          /\ first = IF n = 0 THEN NIL ELSE s[1]
          /\ \A i \in 1 .. n : next[s[i]] = IF i = n THEN NIL ELSE s[i + 1]
    BY DEF Chained, n
  <1> DEFINE t == [i \in 1 .. m |-> IF i = 1 THEN e ELSE s[i - 1]]
  <1>4. /\ \A i \in 1 .. m : i # 1 => i - 1 \in 1 .. n /\ t[i] = s[i - 1]
        /\ 1 \in 1 .. m /\ t[1] = e
    BY <1>1, <1>2
  <1>5. t \in [1 .. m -> S \cup {e}]
    BY <1>3, <1>4
  <1>6. \A x \in S \cup {e} : \E i \in 1 .. m : t[i] = x
    <2> TAKE x \in S \cup {e}
    <2>1. CASE x = e
      BY <2>1, <1>4
    <2>2. CASE x \in S
      <3>1. PICK i \in 1 .. n : s[i] = x
        BY <1>3, <2>2
      <3>2. i + 1 \in 1 .. m /\ i + 1 # 1 /\ (i + 1) - 1 = i
        BY <3>1, <1>1, <1>2
      <3>3. t[i + 1] = x
        BY <3>1, <3>2, <1>4
      <3> QED
        BY <3>2, <3>3
    <2> QED
      BY <2>1, <2>2
  <1>7. \A i, j \in 1 .. m : t[i] = t[j] => i = j
    <2> TAKE i, j \in 1 .. m
    <2>1. \A k \in 1 .. m : k # 1 => t[k] \in S
      BY <1>3, <1>4
    <2>2. CASE i # 1 /\ j # 1
      <3>1. t[i] = t[j] => i - 1 = j - 1
        BY <2>2, <1>3, <1>4
      <3> QED
        BY <3>1
    <2> QED
      BY <2>1, <2>2, <1>4
  <1>8. \A i \in 1 .. m : after[t[i]] = IF i = m THEN NIL ELSE t[i + 1]
    <2> TAKE i \in 1 .. m
    <2>1. i # m => i + 1 \in 1 .. m /\ t[i + 1] = s[i]
      BY <1>1, <1>2, <1>4
    <2>2. CASE i = 1
      BY <2>1, <2>2, <1>1, <1>2, <1>3, <1>4
    <2>3. CASE i # 1
      <3>1. t[i] = s[i - 1] /\ i - 1 \in 1 .. n
        BY <2>3, <1>4
      <3>2. next[s[i - 1]] = IF i - 1 = n THEN NIL ELSE s[(i - 1) + 1]
        BY <3>1, <1>3
      <3>3. (i - 1) + 1 = i /\ (i = m <=> i - 1 = n)
        BY <1>1, <1>2
      <3> QED
        BY <2>1, <3>1, <3>2, <3>3, <1>3
    <2> QED
      BY <2>2, <2>3
  <1>9. e = IF m = 0 THEN NIL ELSE t[1]
    BY <1>1, <1>2, <1>4
  <1> HIDE DEF t
  <1>10. \E u \in [1 .. m -> S \cup {e}] :
          /\ \A x \in S \cup {e} : \E i \in 1 .. m : u[i] = x
          /\ \A i, j \in 1 .. m : u[i] = u[j] => i = j
          /\ e = IF m = 0 THEN NIL ELSE u[1]
          /\ \A i \in 1 .. m : after[u[i]] = IF i = m THEN NIL ELSE u[i + 1]
    BY <1>5, <1>6, <1>7, <1>8, <1>9
  <1> QED
    BY <1>10 DEF Chained, m

(* The chains that the first ListCreate builds.                            *)
LEMMA ChainAll ==
    ASSUME NEW n \in Nat, n # 0, NEW next,
           \A x \in 0 .. n - 1 : next[x] = IF x = n - 1 THEN NIL ELSE x + 1
    PROVE  Chained(0 .. n - 1, 0, next)
  <1> DEFINE S == 0 .. n - 1
             m == Cardinality(S)
             t == [i \in 1 .. m |-> i - 1]
  <1>1. m = n
    BY FS_Interval
  <1> HIDE DEF m
  <1>2. t \in [1 .. m -> 0 .. n - 1] /\ \A i \in 1 .. m : t[i] = i - 1
    BY <1>1
  <1>3. \A x \in 0 .. n - 1 : \E i \in 1 .. m : t[i] = x
    <2> TAKE x \in 0 .. n - 1
    <2>1. x + 1 \in 1 .. m /\ (x + 1) - 1 = x
      BY <1>1
    <2> QED
      BY <1>1, <2>1
  <1>4. \A i, j \in 1 .. m : t[i] = t[j] => i = j
    BY <1>1, <1>2
  <1>5. 0 = IF m = 0 THEN NIL ELSE t[1]
    BY <1>1, <1>2
  <1>6. \A i \in 1 .. m : next[t[i]] = IF i = m THEN NIL ELSE t[i + 1]
    <2> TAKE i \in 1 .. m
    <2>1. i - 1 \in 0 .. n - 1 /\ t[i] = i - 1 /\ (i - 1) + 1 = i
      BY <1>1
    <2>2. i # m => i + 1 \in 1 .. m /\ t[i + 1] = i
      BY <1>1
    <2> QED
      BY <1>1, <2>1, <2>2
  <1> HIDE DEF t
  <1>7. \E u \in [1 .. m -> S] :
          /\ \A x \in S : \E i \in 1 .. m : u[i] = x
          /\ \A i, j \in 1 .. m : u[i] = u[j] => i = j
          /\ 0 = IF m = 0 THEN NIL ELSE u[1]
          /\ \A i \in 1 .. m : next[u[i]] = IF i = m THEN NIL ELSE u[i + 1]
    BY <1>2, <1>3, <1>4, <1>5, <1>6
  <1> QED
    BY <1>7 DEF Chained, m

-----------------------------------------------------------------------------
(* The queue that the refinement mapping reads off a list of one node.     *)
LEMMA ContentsOne ==
    ASSUME NEW p, PoolOK(p), NEW l \in ListId, p.count[l] = 1
    PROVE  Contents(p, l) = <<p.item[p.head[l]]>>
  <1>1. p.head[l] \in Node /\ p.head[l] # NIL /\ l # NULL
    BY PoolAssumption DEF PoolOK, Node, NIL, ListId
  <1> DEFINE P(f) == f = [k \in 1 .. p.count[l] |->
                             IF k = 1 THEN p.head[l]
                             ELSE IF f[k - 1] = NIL THEN NIL ELSE p.next[f[k - 1]]]
             nth == CHOOSE f : P(f)
             g == [k \in 1 .. p.count[l] |-> p.head[l]]
  <1>2. P(g)
    OBVIOUS
  <1>3. P(nth)
    BY <1>2
  <1>4. NthNode(p, l) = nth
    BY DEF NthNode
  <1> HIDE DEF nth
  <1>5. nth[1] = p.head[l]
    BY <1>3
  <1>6. Contents(p, l) = [k \in 1 .. 1 |-> ItemAt(p, nth[k])]
    BY <1>1, <1>4 DEF Contents
  <1> QED
    BY <1>1, <1>5, <1>6 DEF ItemAt

LEMMA ContentsNone ==
    ASSUME NEW p, NEW l \in ListPtr, l = NULL \/ p.count[l] = 0
    PROVE  Contents(p, l) = <<>>
  <1>1. CASE l = NULL
    BY <1>1 DEF Contents
  <1>2. CASE l # NULL /\ p.count[l] = 0
    <2>1. Contents(p, l) = [k \in 1 .. 0 |-> ItemAt(p, NthNode(p, l)[k])]
      BY <1>2 DEF Contents
    <2> QED
      BY <2>1
  <1> QED
    BY <1>1, <1>2

-----------------------------------------------------------------------------
(* The list operations on exact pools.                                     *)

FreeNodes(p) == {n \in Node : p.item[n] = NULL}

LEMMA NodesFinite ==
    /\ IsFiniteSet(Node) /\ Cardinality(Node) = MAX_NODES
    /\ IsFiniteSet(ListId) /\ Cardinality(ListId) = MAX_LISTS
    /\ NIL \notin Node /\ NIL \notin ListId /\ NULL \notin ListId
    /\ \A p : IsFiniteSet(FreeNodes(p)) /\ NIL \notin FreeNodes(p)
  <1> USE PoolAssumption
  <1>1. IsFiniteSet(Node) /\ Cardinality(Node) = MAX_NODES
    BY FS_Interval DEF Node
  <1>2. IsFiniteSet(ListId) /\ Cardinality(ListId) = MAX_LISTS
    BY FS_Interval DEF ListId
  <1>3. NIL \notin Node /\ NIL \notin ListId /\ NULL \notin ListId
    BY DEF Node, ListId, NIL
  <1>4. ASSUME NEW p PROVE IsFiniteSet(FreeNodes(p)) /\ NIL \notin FreeNodes(p)
    <2>1. FreeNodes(p) \in SUBSET Node
      BY DEF FreeNodes
    <2> QED
      BY <1>1, <1>3, <2>1, FS_Subset
  <1> QED
    BY <1>1, <1>2, <1>3, <1>4

(* Fewer lists than nodes: nodeAllocator does not fail.                    *)
LEMMA NodeLeft ==
    ASSUME NEW p, PoolOK(p), PoolExact(p)
    PROVE  /\ p.free_node_head \in Node /\ p.free_node_head # NIL
           /\ p.item[p.free_node_head] = NULL
  <1>1. Chained(FreeNodes(p), p.free_node_head, p.link)
    BY DEF PoolExact, FreeNodes
  <1>2. CASE p.free_node_head = NIL
    <2>1. FreeNodes(p) = {}
      BY <1>1, <1>2, NodesFinite, ChainFirst
    <2>2. \A n \in Node : \E l \in ListId : p.count[l] # 0 /\ p.head[l] = n
      BY <2>1 DEF PoolExact, FreeNodes
    <2> DEFINE f == [n \in Node |-> CHOOSE l \in ListId : p.count[l] # 0 /\ p.head[l] = n]
    <2>3. \A n \in Node : f[n] \in ListId /\ p.head[f[n]] = n
      BY <2>2
    <2>4. f \in [Node -> ListId]
      BY <2>3
    <2> HIDE DEF f
    <2>5. Cardinality(ListId) < Cardinality(Node)
      BY NodesFinite, PoolsSuffice
    <2>6. PICK x, y \in Node : x # y /\ f[x] = f[y]
      BY <2>4, <2>5, NodesFinite, FS_PigeonHole
    <2> QED
      BY <2>3, <2>6
  <1>3. CASE p.free_node_head # NIL
    <2>1. p.free_node_head \in FreeNodes(p)
      BY <1>1, <1>3, NodesFinite, ChainFirst
    <2> QED
      BY <1>3, <2>1 DEF FreeNodes
  <1> QED
    BY <1>2, <1>3

(* What ListAppend does to an exact pool.                                  *)
Appended(p, l, c, q) ==
    LET k == p.free_node_head
    IN  /\ q.item = [p.item EXCEPT ![k] = c]
        /\ q.count = [p.count EXCEPT ![l] = p.count[l] + 1]
        /\ q.head = [p.head EXCEPT ![l] = IF p.count[l] = 0 THEN k ELSE p.head[l]]
        /\ q.free_node_head = p.link[k]
        /\ q.link = [p.link EXCEPT ![k] = NIL]
        /\ p.count[l] = 0 => /\ q.next = [p.next EXCEPT ![k] = k]
                             /\ q.prev = [p.prev EXCEPT ![k] = k]
        /\ q.free_list_head = p.free_list_head
        /\ q.llink = p.llink
        /\ q.initialized = p.initialized

LEMMA AppendEffect ==
    ASSUME NEW p, PoolOK(p), PoolExact(p), NEW l \in ListId, NEW c \in Client
    PROVE  Appended(p, l, c, ListAppend(p, l, c).pool)
  <1> DEFINE k == p.free_node_head
             a == NodeAllocator(p).pool
             q == ListAppend(p, l, c).pool
  <1>1. k \in Node /\ k # NIL /\ p.item[k] = NULL
    BY NodeLeft
  <1>2. p \in PoolType /\ l # NULL /\ c # NULL
    BY NodesFinite, MonitorAssumption DEF PoolOK
  <1>3. NodeAllocator(p).ret = k
    BY <1>1 DEF NodeAllocator
  <1>4. a = [p EXCEPT !.free_node_head = p.link[k],
                      !.link = [p.link EXCEPT ![k] = NIL],
                      !.next = [p.next EXCEPT ![k] = NIL],
                      !.prev = [p.prev EXCEPT ![k] = NIL]]
    BY <1>1 DEF NodeAllocator
  <1>5. /\ a.item = p.item /\ a.count = p.count /\ a.head = p.head
        /\ a.free_node_head = p.link[k] /\ a.link = [p.link EXCEPT ![k] = NIL]
        /\ a.next = [p.next EXCEPT ![k] = NIL] /\ a.prev = [p.prev EXCEPT ![k] = NIL]
        /\ a.free_list_head = p.free_list_head /\ a.llink = p.llink
        /\ a.initialized = p.initialized
    BY <1>1, <1>2, <1>4 DEF PoolType
  <1>a. a \in PoolType
    BY <1>1, <1>3, NodeAllocatorOK
  <1>6. q = Link(a, l, k, c)
    BY <1>1, <1>2, <1>3 DEF ListAppend
  <1> HIDE DEF a, q, k
  <1>7. /\ q.item = [a.item EXCEPT ![k] = c]
        /\ q.count = [a.count EXCEPT ![l] = @ + 1]
        /\ q.head = [a.head EXCEPT ![l] = IF a.count[l] = 0 THEN k ELSE @]
        /\ q.free_node_head = a.free_node_head /\ q.link = a.link
        /\ a.count[l] = 0 => /\ q.next = [a.next EXCEPT ![k] = k]
                             /\ q.prev = [a.prev EXCEPT ![k] = k]
        /\ q.free_list_head = a.free_list_head /\ q.llink = a.llink
        /\ q.initialized = a.initialized
    BY <1>a, <1>6 DEF Link, PoolType
  <1>8. /\ [[p.next EXCEPT ![k] = NIL] EXCEPT ![k] = k] = [p.next EXCEPT ![k] = k]
        /\ [[p.prev EXCEPT ![k] = NIL] EXCEPT ![k] = k] = [p.prev EXCEPT ![k] = k]
    BY <1>1, <1>2 DEF PoolType
  <1>9. q.item = [p.item EXCEPT ![k] = c] /\ q.count = [p.count EXCEPT ![l] = p.count[l] + 1]
    BY <1>5, <1>7
  <1>10. q.head = [p.head EXCEPT ![l] = IF p.count[l] = 0 THEN k ELSE p.head[l]]
    BY <1>5, <1>7
  <1>11. q.free_node_head = p.link[k] /\ q.link = [p.link EXCEPT ![k] = NIL]
    BY <1>5, <1>7
  <1>12. p.count[l] = 0 => /\ q.next = [p.next EXCEPT ![k] = k]
                           /\ q.prev = [p.prev EXCEPT ![k] = k]
    BY <1>5, <1>7, <1>8
  <1>13. /\ q.free_list_head = p.free_list_head /\ q.llink = p.llink
         /\ q.initialized = p.initialized
    BY <1>5, <1>7
  <1> QED
    BY <1>9, <1>10, <1>11, <1>12, <1>13 DEF Appended, q, k

(* In particular, it makes a list longer and leaves the others alone.      *)
LEMMA AppendCount ==
    ASSUME NEW p, PoolOK(p), PoolExact(p), NEW l \in ListId, NEW c \in Client
    PROVE  /\ ListAppend(p, l, c).pool.count[l] = p.count[l] + 1
           /\ \A m \in ListId \ {l} :
                 /\ ListAppend(p, l, c).pool.count[m] = p.count[m]
                 /\ ListAppend(p, l, c).pool.head[m] = p.head[m]
           /\ \A n \in Node : p.item[n] # NULL =>
                 ListAppend(p, l, c).pool.item[n] = p.item[n]
  <1> DEFINE q == ListAppend(p, l, c).pool
             k == p.free_node_head
  <1>1. Appended(p, l, c, q)
    BY AppendEffect
  <1>2. p.item[k] = NULL /\ k \in Node
    BY NodeLeft
  <1>4. p \in PoolType
    BY DEF PoolOK
  <1> HIDE DEF q, k
  <1> QED
    BY <1>1, <1>2, <1>4 DEF Appended, q, k, PoolType

(* PopFirst returns the first item and changes no other list's count.      *)
LEMMA PopReturns ==
    ASSUME NEW p, p \in PoolType, NEW l \in ListId, p.count[l] # 0
    PROVE  /\ PopFirst(p, l).ret = p.item[p.head[l]]
           /\ \A m \in ListId \ {l} : PopFirst(p, l).pool.count[m] = p.count[m]
  <1> DEFINE f == ListFirst(p, l).pool
  <1>1. l # NULL
    BY NodesFinite
  <1>2. ListFirst(p, l).ret = p.item[p.head[l]]
    BY <1>1 DEF ListFirst, ListCount
  <1>3. f.count = p.count /\ f.count \in [ListId -> Nat]
    BY <1>1 DEF ListFirst, ListCount, PoolType
  <1> HIDE DEF f
  <1>4. \A m \in ListId \ {l} : ListRemove(f, l).pool.count[m] = f.count[m]
    BY <1>3 DEF ListRemove, Unlink
  <1> QED
    BY <1>2, <1>3, <1>4 DEF PopFirst, f

(* What PopFirst does to a list of one node.                               *)
LEMMA PopEffect ==
    ASSUME NEW p, PoolOK(p), PoolExact(p), NEW l \in ListId, p.count[l] # 0
    PROVE  LET q == PopFirst(p, l).pool
               h == p.head[l]
           IN  /\ h \in Node /\ p.item[h] # NULL
               /\ PopFirst(p, l).ret = p.item[h]
               /\ q.item = [p.item EXCEPT ![h] = NULL]
               /\ q.next = p.next /\ q.prev = p.prev
               /\ q.link = [p.link EXCEPT ![h] = p.free_node_head]
               /\ q.free_node_head = h
               /\ q.head = p.head
               /\ q.count = [p.count EXCEPT ![l] = 0]
               /\ q.free_list_head = p.free_list_head
               /\ q.llink = p.llink
               /\ q.initialized = p.initialized
  <1> DEFINE h == p.head[l]
             f == ListFirst(p, l).pool
             q == PopFirst(p, l).pool
  <1>1. /\ p.count[l] = 1 /\ h \in Node /\ h # NIL /\ p.item[h] # NULL
        /\ p.prev[h] = h /\ p.next[h] = h /\ l # NULL
    BY NodesFinite DEF PoolExact
  <1>2. p \in PoolType
    BY DEF PoolOK
  <1>3. PopFirst(p, l).ret = p.item[h]
    BY <1>2, PopReturns
  <1>4. f = [p EXCEPT !.curr   = [p.curr EXCEPT ![l] = h],
                      !.before = [p.before EXCEPT ![l] = 0],
                      !.after  = [p.after EXCEPT ![l] = 0]]
    BY <1>1 DEF ListFirst, ListCount
  <1>5. /\ f.item = p.item /\ f.next = p.next /\ f.prev = p.prev /\ f.link = p.link
        /\ f.head = p.head /\ f.tail = p.tail /\ f.count = p.count
        /\ f.free_node_head = p.free_node_head /\ f.free_list_head = p.free_list_head
        /\ f.llink = p.llink /\ f.initialized = p.initialized
        /\ f.curr[l] = h /\ f.before[l] = 0 /\ f.after[l] = 0
    BY <1>1, <1>2, <1>4 DEF PoolType
  <1>a. f \in PoolType
    <2>1. /\ [p.curr EXCEPT ![l] = h] \in [ListId -> NodeOrNil]
          /\ [p.before EXCEPT ![l] = 0] \in [ListId -> {0, 1}]
          /\ [p.after EXCEPT ![l] = 0] \in [ListId -> {0, 1}]
      BY <1>1, <1>2 DEF PoolType, NodeOrNil
    <2> QED
      BY ZenonT(60), <1>2, <1>4, <2>1 DEF PoolType
  <1>6. q = ListRemove(f, l).pool
    BY DEF PopFirst
  <1> HIDE DEF f, q, h
  <1>7. q = Unlink(f, l, h)
    BY <1>1, <1>5, <1>6 DEF ListRemove, ListCount
  <1>8. /\ q.item = [f.item EXCEPT ![h] = NULL]
        /\ q.next = [n \in Node |-> IF n = h THEN h ELSE IF n = h THEN NIL ELSE f.next[n]]
        /\ q.prev = [n \in Node |-> IF n = h THEN h ELSE IF n = h THEN NIL ELSE f.prev[n]]
        /\ q.link = [f.link EXCEPT ![h] = f.free_node_head]
        /\ q.free_node_head = h
        /\ q.head = [f.head EXCEPT ![l] = f.head[l]]
        /\ q.count = [f.count EXCEPT ![l] = 0]
        /\ q.free_list_head = f.free_list_head /\ q.llink = f.llink
        /\ q.initialized = f.initialized
    BY <1>1, <1>5, <1>a, <1>7 DEF Unlink, PoolType
  <1>9. q.next = p.next /\ q.prev = p.prev /\ q.head = p.head
    BY <1>1, <1>2, <1>5, <1>8 DEF PoolType
  <1> QED
    BY <1>1, <1>3, <1>5, <1>8, <1>9 DEF q, h

(* What the items and the chain of lists become.                           *)
Items(p) == {p.item[n] : n \in Node}

SameLists(p, q) ==
    /\ q.free_list_head = p.free_list_head
    /\ q.llink = p.llink
    /\ q.initialized = p.initialized

(* Appending to an empty list of an exact pool.                            *)
LEMMA AppendExact ==
    ASSUME NEW p, PoolOK(p), PoolExact(p), NEW l \in ListId, p.count[l] = 0,
           NEW c \in Client
    PROVE  LET q == ListAppend(p, l, c).pool
           IN  /\ PoolOK(q) /\ PoolExact(q)
               /\ Contents(p, l) = <<>> /\ Contents(q, l) = <<c>>
               /\ \A m \in ListPtr \ {l} : Contents(q, m) = Contents(p, m)
               /\ \A m \in ListId \ {l} : q.count[m] = p.count[m]
               /\ SameLists(p, q)
               /\ (Items(p) \ {NULL}) \cup {c} \subseteq Items(q)
  <1> DEFINE q == ListAppend(p, l, c).pool
             k == p.free_node_head
  <1>1. k \in Node /\ k # NIL /\ p.item[k] = NULL
    BY NodeLeft
  <1>2. /\ q.item = [p.item EXCEPT ![k] = c]
        /\ q.count = [p.count EXCEPT ![l] = 1]
        /\ q.head = [p.head EXCEPT ![l] = k]
        /\ q.free_node_head = p.link[k]
        /\ q.link = [p.link EXCEPT ![k] = NIL]
        /\ q.next = [p.next EXCEPT ![k] = k]
        /\ q.prev = [p.prev EXCEPT ![k] = k]
    <2>1. Appended(p, l, c, q)
      BY AppendEffect
    <2> HIDE DEF q
    <2> QED
      BY <2>1 DEF Appended
  <1>a. SameLists(p, q)
    <2>1. Appended(p, l, c, q)
      BY AppendEffect
    <2> HIDE DEF q
    <2> QED
      BY <2>1 DEF SameLists, Appended
  <1>3. PoolOK(q) /\ PoolOK(p) /\ p \in PoolType /\ q \in PoolType /\ l \in ListPtr
    BY ListAppendOK DEF ListPtr, PoolOK
  <1> HIDE DEF q, k
  <1>4. \A m \in ListId : p.count[m] # 0 =>
          /\ m # l /\ p.head[m] \in Node /\ p.head[m] # k
          /\ p.count[m] = 1 /\ p.item[p.head[m]] # NULL
          /\ p.prev[p.head[m]] = p.head[m] /\ p.next[p.head[m]] = p.head[m]
    BY <1>1 DEF PoolExact
  <1>5. c # NULL /\ c \in Client
    BY MonitorAssumption
  <1>6. /\ \A n \in Node : q.item[n] = IF n = k THEN c ELSE p.item[n]
        /\ \A m \in ListId : q.count[m] = IF m = l THEN 1 ELSE p.count[m]
        /\ \A m \in ListId : q.head[m] = IF m = l THEN k ELSE p.head[m]
        /\ \A n \in Node : q.next[n] = IF n = k THEN k ELSE p.next[n]
        /\ \A n \in Node : q.prev[n] = IF n = k THEN k ELSE p.prev[n]
        /\ \A n \in Node : q.link[n] = IF n = k THEN NIL ELSE p.link[n]
    BY <1>1, <1>2, <1>3 DEF PoolType
  <1>7. \A m \in ListId : q.count[m] # 0 =>
          /\ q.count[m] = 1
          /\ q.head[m] \in Node
          /\ q.item[q.head[m]] # NULL
          /\ q.prev[q.head[m]] = q.head[m]
          /\ q.next[q.head[m]] = q.head[m]
    BY <1>1, <1>4, <1>5, <1>6
  <1>8. \A n \in Node : q.item[n] # NULL =>
          \E m \in ListId : q.count[m] # 0 /\ q.head[m] = n
    <2> SUFFICES ASSUME NEW n \in Node, q.item[n] # NULL
                 PROVE  \E m \in ListId : q.count[m] # 0 /\ q.head[m] = n
      OBVIOUS
    <2>1. CASE n = k
      BY <2>1, <1>6
    <2>2. CASE n # k
      <3>1. PICK m \in ListId : p.count[m] # 0 /\ p.head[m] = n
        BY <2>2, <1>6 DEF PoolExact
      <3> QED
        BY <3>1, <1>4, <1>6
    <2> QED
      BY <2>1, <2>2
  <1>9. \A m, n \in ListId :
          q.count[m] # 0 /\ q.count[n] # 0 /\ q.head[m] = q.head[n] => m = n
    BY <1>4, <1>6 DEF PoolExact
  <1>10. Chained({n \in Node : q.item[n] = NULL}, q.free_node_head, q.link)
    <2>1. Chained(FreeNodes(p), k, p.link)
      BY DEF PoolExact, FreeNodes, k
    <2>2. \A x \in FreeNodes(p) \ {k} : q.link[x] = p.link[x]
      BY <1>6 DEF FreeNodes
    <2>3. Chained(FreeNodes(p) \ {k}, p.link[k], q.link)
      BY <2>1, <2>2, <1>1, NodesFinite, ChainTake
    <2>4. {n \in Node : q.item[n] = NULL} = FreeNodes(p) \ {k}
      BY <1>5, <1>6 DEF FreeNodes
    <2> QED
      BY <1>2, <2>3, <2>4
  <1>11. PoolExact(q)
    BY <1>7, <1>8, <1>9, <1>10 DEF PoolExact
  <1>12. Contents(p, l) = <<>> /\ Contents(q, l) = <<c>>
    BY <1>1, <1>3, <1>6, ContentsNone, ContentsOne
  <1>13. ASSUME NEW m \in ListPtr \ {l} PROVE Contents(q, m) = Contents(p, m)
    <2>1. CASE m = NULL
      BY <2>1, ContentsNone DEF ListPtr
    <2>2. CASE m \in ListId /\ p.count[m] = 0
      <3>1. q.count[m] = 0
        BY <1>6, <2>2
      <3> QED
        BY <2>2, <3>1, ContentsNone
    <2>3. CASE m \in ListId /\ p.count[m] # 0
      <3>1. p.count[m] = 1 /\ q.count[m] = 1 /\ q.item[q.head[m]] = p.item[p.head[m]]
        BY <1>4, <1>6, <2>3
      <3> QED
        BY <2>3, <3>1, <1>3, ContentsOne
    <2> QED
      BY <2>1, <2>2, <2>3 DEF ListPtr
  <1>14. (Items(p) \ {NULL}) \cup {c} \subseteq Items(q)
    BY <1>1, <1>6 DEF Items
  <1> QED
    BY <1>3, <1>6, <1>a, <1>11, <1>12, <1>13, <1>14 DEF q

(* Taking the item of a list of an exact pool.                             *)
LEMMA PopExact ==
    ASSUME NEW p, PoolOK(p), PoolExact(p), NEW l \in ListId, p.count[l] # 0
    PROVE  LET q == PopFirst(p, l).pool
               d == PopFirst(p, l).ret
           IN  /\ PoolOK(q) /\ PoolExact(q)
               /\ d # NULL /\ d \in Client
               /\ Contents(p, l) = <<d>> /\ Contents(q, l) = <<>>
               /\ \A m \in ListPtr \ {l} : Contents(q, m) = Contents(p, m)
               /\ \A m \in ListId : q.count[m] = IF m = l THEN 0 ELSE p.count[m]
               /\ SameLists(p, q)
               /\ Items(p) \ {d} \subseteq Items(q)
  <1> DEFINE q == PopFirst(p, l).pool
             d == PopFirst(p, l).ret
             h == p.head[l]
  <1>1. /\ h \in Node /\ p.item[h] # NULL
        /\ d = p.item[h]
        /\ q.item = [p.item EXCEPT ![h] = NULL]
        /\ q.next = p.next /\ q.prev = p.prev
        /\ q.link = [p.link EXCEPT ![h] = p.free_node_head]
        /\ q.free_node_head = h
        /\ q.head = p.head
        /\ q.count = [p.count EXCEPT ![l] = 0]
    BY PopEffect
  <1>2. p.count[l] = 1 /\ p.count[l] > 0 /\ p \in PoolType
    BY DEF PoolExact, PoolOK
  <1>3. PoolOK(q) /\ q \in PoolType /\ d \in Client
    BY <1>1, <1>2, PopFirstOK DEF PoolOK
  <1>a. SameLists(p, q)
    <2>1. q.free_list_head = p.free_list_head /\ q.llink = p.llink
      BY PopEffect
    <2>2. q.initialized = p.initialized
      BY PopEffect
    <2> QED
      BY <2>1, <2>2 DEF SameLists
  <1> HIDE DEF q, d, h
  <1>4. /\ \A n \in Node : q.item[n] = IF n = h THEN NULL ELSE p.item[n]
        /\ \A m \in ListId : q.count[m] = IF m = l THEN 0 ELSE p.count[m]
        /\ \A n \in Node : q.link[n] = IF n = h THEN p.free_node_head ELSE p.link[n]
    BY <1>1, <1>2 DEF PoolType
  <1>5. \A m \in ListId \ {l} : p.count[m] # 0 =>
          /\ p.head[m] \in Node /\ p.head[m] # h
          /\ p.count[m] = 1 /\ p.item[p.head[m]] # NULL
          /\ p.prev[p.head[m]] = p.head[m] /\ p.next[p.head[m]] = p.head[m]
    BY <1>2 DEF PoolExact, h
  <1>6. \A m \in ListId : q.count[m] # 0 =>
          /\ q.count[m] = 1
          /\ q.head[m] \in Node
          /\ q.item[q.head[m]] # NULL
          /\ q.prev[q.head[m]] = q.head[m]
          /\ q.next[q.head[m]] = q.head[m]
    BY <1>1, <1>4, <1>5
  <1>7. \A n \in Node : q.item[n] # NULL =>
          \E m \in ListId : q.count[m] # 0 /\ q.head[m] = n
    <2> SUFFICES ASSUME NEW n \in Node, q.item[n] # NULL
                 PROVE  \E m \in ListId : q.count[m] # 0 /\ q.head[m] = n
      OBVIOUS
    <2>1. n # h /\ p.item[n] # NULL
      BY <1>4
    <2>2. PICK m \in ListId : p.count[m] # 0 /\ p.head[m] = n
      BY <2>1 DEF PoolExact
    <2>3. m # l
      BY <2>1, <2>2 DEF h
    <2> QED
      BY <2>2, <2>3, <1>1, <1>4
  <1>8. \A m, n \in ListId :
          q.count[m] # 0 /\ q.count[n] # 0 /\ q.head[m] = q.head[n] => m = n
    BY <1>1, <1>4 DEF PoolExact
  <1>9. Chained({n \in Node : q.item[n] = NULL}, q.free_node_head, q.link)
    <2>1. Chained(FreeNodes(p), p.free_node_head, p.link)
      BY DEF PoolExact, FreeNodes
    <2>2. h \notin FreeNodes(p) /\ h # NIL /\ q.link[h] = p.free_node_head
      BY <1>1, <1>4, NodesFinite DEF FreeNodes
    <2>3. \A x \in FreeNodes(p) : q.link[x] = p.link[x]
      BY <2>2, <1>4 DEF FreeNodes
    <2>4. Chained(FreeNodes(p) \cup {h}, h, q.link)
      BY <2>1, <2>2, <2>3, NodesFinite, ChainPut
    <2>5. {n \in Node : q.item[n] = NULL} = FreeNodes(p) \cup {h}
      BY <1>1, <1>4 DEF FreeNodes
    <2> QED
      BY <1>1, <2>4, <2>5
  <1>10. PoolExact(q)
    BY <1>6, <1>7, <1>8, <1>9 DEF PoolExact
  <1>11. Contents(p, l) = <<d>> /\ Contents(q, l) = <<>>
    <2>1. Contents(p, l) = <<d>>
      BY <1>1, <1>2, ContentsOne DEF h
    <2>2. q.count[l] = 0 /\ l \in ListPtr
      BY <1>4 DEF ListPtr
    <2> QED
      BY <2>1, <2>2, ContentsNone
  <1>12. ASSUME NEW m \in ListPtr \ {l} PROVE Contents(q, m) = Contents(p, m)
    <2>1. CASE m = NULL
      BY <2>1, ContentsNone DEF ListPtr
    <2>2. CASE m \in ListId /\ p.count[m] = 0
      <3>1. q.count[m] = 0
        BY <1>4, <2>2
      <3> QED
        BY <2>2, <3>1, ContentsNone
    <2>3. CASE m \in ListId /\ p.count[m] # 0
      <3>1. p.count[m] = 1 /\ q.count[m] = 1 /\ q.item[q.head[m]] = p.item[p.head[m]]
        BY <1>1, <1>4, <1>5, <2>3
      <3> QED
        BY <2>3, <3>1, <1>3, ContentsOne
    <2> QED
      BY <2>1, <2>2, <2>3 DEF ListPtr
  <1>13. d # NULL
    BY <1>1
  <1>14. Items(p) \ {d} \subseteq Items(q)
    BY <1>1, <1>4 DEF Items
  <1> QED
    BY <1>3, <1>4, <1>a, <1>10, <1>11, <1>12, <1>13, <1>14 DEF q, d

-----------------------------------------------------------------------------
(* The queue variables.                                                    *)

LEMMA QueuesDistinct ==
    ASSUME ShallowInv, entry_queue # NULL
    PROVE  /\ entry_queue \in ListId /\ urgent_queue \in ListId
           /\ entry_queue # urgent_queue
           /\ entry_queue \notin FreeLists /\ urgent_queue \notin FreeLists
           /\ \A k \in Cond : condition_queues[k] # NULL =>
                /\ condition_queues[k] \in ListId
                /\ condition_queues[k] \notin FreeLists
                /\ condition_queues[k] # entry_queue
                /\ condition_queues[k] # urgent_queue
                /\ \A j \in Cond \ {k} : condition_queues[j] # condition_queues[k]
  <1> USE MonitorAssumption
  <1>1. TypeOK /\ ListsExact /\ urgent_queue # NULL
    BY DEF ShallowInv, MonitorInv, Initialised
  <1>2. /\ -2 \in QueueVar /\ -1 \in QueueVar
        /\ \A k \in Cond : k \in QueueVar /\ k # -1 /\ k # -2
    BY DEF QueueVar, Cond
  <1>3. Queue(-2) = entry_queue /\ Queue(-1) = urgent_queue
    BY DEF Queue
  <1>4. \A k \in Cond : Queue(k) = condition_queues[k]
    BY <1>2 DEF Queue
  <1>5. \A j, k \in QueueVar : Queue(j) = Queue(k) => j = k \/ Queue(j) = NULL
    BY <1>1 DEF ListsExact
  <1>6. \A k \in QueueVar : Queue(k) \notin FreeLists
    BY DEF FreeLists
  <1>7. entry_queue \in ListId /\ urgent_queue \in ListId
    BY <1>1 DEF TypeOK, ListPtr
  <1>8. \A k \in Cond : condition_queues[k] # NULL => condition_queues[k] \in ListId
    BY <1>1 DEF TypeOK, ListPtr
  <1>9. entry_queue # urgent_queue
    BY <1>2, <1>3, <1>5
  <1>10. \A k \in Cond : condition_queues[k] # NULL =>
           condition_queues[k] # entry_queue /\ condition_queues[k] # urgent_queue
    BY <1>2, <1>3, <1>4, <1>5
  <1>11. \A k \in Cond : condition_queues[k] # NULL =>
           \A j \in Cond \ {k} : condition_queues[j] # condition_queues[k]
    BY <1>2, <1>4, <1>5
  <1> QED
    BY <1>2, <1>3, <1>4, <1>6, <1>7, <1>8, <1>9, <1>10, <1>11

(* A handler that only moves items keeps the rest of the invariant.        *)
LEMMA KeepsInitialised ==
    ASSUME Initialised, init_pid = NoPid, init_pid' = NoPid,
           UNCHANGED <<queueVars, num_conditions>>,
           PoolExact(pool'), SameLists(pool, pool'),
           \A l \in FreeLists : pool'.count[l] = pool.count[l]
    PROVE  Initialised'
  <1>1. \A k : Queue(k)' = Queue(k)
    BY DEF Queue, queueVars
  <1>2. FreeLists' = FreeLists
    BY <1>1 DEF FreeLists
  <1>3. ListsExact'
    BY <1>1, <1>2 DEF ListsExact, Initialised, SameLists
  <1> QED
    BY <1>3 DEF Initialised, queueVars

(* The process that a released monitor goes to.                            *)
LEMMA NextOwnerReturns ==
    ASSUME ShallowInv, entry_queue # NULL, NEW p, p \in PoolType,
           \A l \in {entry_queue, urgent_queue} : p.count[l] # 0 => p.item[p.head[l]] # NULL
    PROVE  /\ NextOwner(p).ret # NULL
           /\ \A m \in ListId \ {entry_queue, urgent_queue} :
                 NextOwner(p).pool.count[m] = p.count[m]
  <1> DEFINE q == IF ListCount(p, urgent_queue) > 0 THEN urgent_queue ELSE entry_queue
  <1>1. q \in {entry_queue, urgent_queue} /\ q \in ListId /\ q # NULL
    BY QueuesDistinct, NodesFinite
  <1>2. NextOwner(p) = IF ListCount(p, q) > 0 THEN PopFirst(p, q)
                       ELSE [pool |-> p, ret |-> NoPid]
    BY DEF NextOwner
  <1> HIDE DEF q
  <1>3. CASE ListCount(p, q) > 0
    <2>1. p.count[q] # 0
      BY <1>1, <1>3 DEF ListCount
    <2> QED
      BY <1>1, <1>2, <1>3, <2>1, PopReturns
  <1>4. CASE ~(ListCount(p, q) > 0)
    BY <1>2, <1>4, MonitorAssumption
  <1> QED
    BY <1>3, <1>4

LEMMA NextOwnerExact ==
    ASSUME ShallowInv, entry_queue # NULL, NEW p, PoolOK(p), PoolExact(p)
    PROVE  LET r == NextOwner(p)
           IN  /\ r.ret # NULL /\ r.ret \in Client \cup {NoPid}
               /\ PoolOK(r.pool) /\ PoolExact(r.pool) /\ SameLists(p, r.pool)
               /\ Items(p) \ {r.ret} \subseteq Items(r.pool)
               /\ \A m \in ListId \ {entry_queue, urgent_queue} :
                     r.pool.count[m] = p.count[m]
               /\ \A m \in ListPtr \ {entry_queue, urgent_queue} :
                     Contents(r.pool, m) = Contents(p, m)
               /\ \/ /\ r.ret \in Client
                     /\ Contents(p, urgent_queue) = <<r.ret>>
                     /\ Contents(r.pool, urgent_queue) = <<>>
                     /\ Contents(r.pool, entry_queue) = Contents(p, entry_queue)
                  \/ /\ r.ret \in Client
                     /\ Contents(p, urgent_queue) = <<>>
                     /\ Contents(p, entry_queue) = <<r.ret>>
                     /\ Contents(r.pool, urgent_queue) = <<>>
                     /\ Contents(r.pool, entry_queue) = <<>>
                  \/ /\ r.ret = NoPid
                     /\ Contents(p, urgent_queue) = <<>>
                     /\ Contents(p, entry_queue) = <<>>
                     /\ Contents(r.pool, urgent_queue) = <<>>
                     /\ Contents(r.pool, entry_queue) = <<>>
  <1> DEFINE r == NextOwner(p)
             e == entry_queue
             u == urgent_queue
  <1>1. e \in ListId /\ u \in ListId /\ e # u /\ e # NULL /\ u # NULL
        /\ e \in ListPtr /\ u \in ListPtr
    BY QueuesDistinct, NodesFinite DEF ListPtr
  <1>2. p.count[e] \in Nat /\ p.count[u] \in Nat
    BY <1>1 DEF PoolOK, PoolType
  <1>3. r = IF p.count[u] # 0 THEN PopFirst(p, u)
            ELSE IF p.count[e] # 0 THEN PopFirst(p, e) ELSE [pool |-> p, ret |-> NoPid]
    BY <1>1, <1>2 DEF NextOwner, ListCount
  <1> HIDE DEF r, e, u
  <1>4. CASE p.count[u] # 0
    <2>1. r = PopFirst(p, u)
      BY <1>3, <1>4
    <2>2. /\ PoolOK(r.pool) /\ PoolExact(r.pool) /\ r.ret # NULL /\ r.ret \in Client
          /\ Contents(p, u) = <<r.ret>> /\ Contents(r.pool, u) = <<>>
          /\ \A m \in ListPtr \ {u} : Contents(r.pool, m) = Contents(p, m)
          /\ \A m \in ListId : r.pool.count[m] = IF m = u THEN 0 ELSE p.count[m]
      BY <1>1, <1>4, <2>1, PopExact
    <2>3. SameLists(p, r.pool) /\ Items(p) \ {r.ret} \subseteq Items(r.pool)
      BY <1>1, <1>4, <2>1, PopExact
    <2> QED
      BY <1>1, <2>2, <2>3 DEF r, e, u
  <1>5. CASE p.count[u] = 0 /\ p.count[e] # 0
    <2>1. r = PopFirst(p, e)
      BY <1>3, <1>5
    <2>2. /\ PoolOK(r.pool) /\ PoolExact(r.pool) /\ r.ret # NULL /\ r.ret \in Client
          /\ Contents(p, e) = <<r.ret>> /\ Contents(r.pool, e) = <<>>
          /\ \A m \in ListPtr \ {e} : Contents(r.pool, m) = Contents(p, m)
          /\ \A m \in ListId : r.pool.count[m] = IF m = e THEN 0 ELSE p.count[m]
      BY <1>1, <1>5, <2>1, PopExact
    <2>3. SameLists(p, r.pool) /\ Items(p) \ {r.ret} \subseteq Items(r.pool)
      BY <1>1, <1>5, <2>1, PopExact
    <2>4. Contents(p, u) = <<>>
      BY <1>1, <1>5, ContentsNone
    <2> QED
      BY <1>1, <2>2, <2>3, <2>4 DEF r, e, u
  <1>6. CASE p.count[u] = 0 /\ p.count[e] = 0
    <2>1. r.pool = p /\ r.ret = NoPid
      BY <1>3, <1>6
    <2>2. Contents(p, u) = <<>> /\ Contents(p, e) = <<>>
      BY <1>1, <1>6, ContentsNone
    <2> QED
      BY <2>1, <2>2, MonitorAssumption DEF r, e, u, SameLists
  <1> QED
    BY <1>4, <1>5, <1>6

-----------------------------------------------------------------------------
(* The handlers.                                                           *)

(* A handler that replies to R and keeps H blocked on a queue: what is     *)
(* left to show for the invariant.                                         *)
LEMMA AfterReplyShallow ==
    ASSUME ShallowInv, entry_queue # NULL, init_pid = NoPid, init_pid' = NoPid,
           MonitorInv', NEW R, NEW H, Reply(R, H),
           UNCHANGED <<queueVars, num_conditions, crashed>>,
           monitor_locked' = 1 => current_owner' # NoPid,
           PoolExact(pool'), SameLists(pool, pool'),
           \A l \in FreeLists : pool'.count[l] = pool.count[l],
           \A d \in Client : (stage[d] = "held" \/ d \in H) /\ d \notin R => d \in Items(pool')
    PROVE  ShallowInv'
  <1>1. Initialised'
    BY KeepsInitialised DEF ShallowInv
  <1>2. \A d \in Client : stage'[d] = "held" => \E n \in Node : pool'.item[n] = d
    BY DEF Reply, Items
  <1> QED
    BY <1>1, <1>2 DEF ShallowInv, Reply, queueVars

LEMMA HeldInItems ==
    ASSUME ShallowInv
    PROVE  \A d \in Client : stage[d] = "held" => d \in Items(pool) \ {NULL}
  BY MonitorAssumption DEF ShallowInv, Items

LEMMA InitialisedIfCalled ==
    ASSUME ShallowInv, NEW c \in Client, msg[c].type \notin {"none", "MonInit"}
    PROVE  entry_queue # NULL
  BY DEF ShallowInv, NotInitialised

(* One step of MonEnter is one step of the Hoare monitor.                  *)
LEMMA EnterStep ==
    ASSUME ShallowInv, NEW c \in Client, ServeEnter(c), ShallowQueues'
    PROVE  ShallowInv' /\ Hoare!Enter(c)
  <1>1. /\ MonitorInv /\ TypeOK /\ MonitorInv' /\ init_pid = NoPid /\ init_pid' = NoPid
        /\ UNCHANGED <<queueVars, num_conditions, MonServer_pid, initVars, crashed>>
        /\ stage[c] = "sent" /\ msg[c].type = "MonEnter"
    BY ServeEnterInv DEF ServeEnter, ShallowInv, Receive, MonitorInv, initVars
  <1>2. entry_queue # NULL
    BY <1>1, InitialisedIfCalled
  <1>3. Hoare!Pending(c, "MonEnter")
    BY <1>1 DEF Hoare!Pending
  <1>4. CASE monitor_locked = 0
    <2>1. /\ monitor_locked' = 1 /\ current_owner' = c /\ Reply({c}, {}) /\ pool' = pool
      BY <1>4 DEF ServeEnter
    <2>2. current_owner = NoPid /\ c # NoPid
      BY <1>1, <1>4, MonitorAssumption DEF MonitorInv
    <2>3. ShallowInv'
      <3>1. PoolExact(pool') /\ SameLists(pool, pool')
        BY <1>2, <2>1 DEF ShallowInv, Initialised, SameLists
      <3>2. \A d \in Client : (stage[d] = "held" \/ d \in {}) /\ d \notin {c} => d \in Items(pool')
        BY <2>1, HeldInItems
      <3> QED
        BY <1>1, <1>2, <2>1, <2>2, <3>1, <3>2, AfterReplyShallow
    <2>4. Hoare!Resume({c}, {})
      BY <2>1 DEF Reply, Hoare!Resume, NoMsg, Hoare!NoMsg
    <2> QED
      BY <1>1, <1>3, <2>1, <2>2, <2>3, <2>4 DEF Hoare!Enter, queueVars
  <1>5. CASE monitor_locked # 0
    <2> DEFINE e == entry_queue
               q == ListAppend(pool, e, c).pool
    <2>1. pool' = q /\ Reply({}, {c}) /\ UNCHANGED lockVars
      BY <1>5 DEF ServeEnter
    <2>2. /\ e \in ListId /\ e # urgent_queue /\ e \notin FreeLists
          /\ PoolOK(pool) /\ PoolExact(pool)
      BY <1>2, QueuesDistinct DEF ShallowInv, MonitorInv, Initialised
    <2>3. pool.count[e] = 0
      <3>1. q.count[e] = pool.count[e] + 1
        BY <2>2, AppendCount
      <3>2. pool.count[e] \in Nat /\ pool.count \in [ListId -> Nat]
        BY <2>2 DEF PoolOK, PoolType
      <3>3. q.count[e] <= 1
        BY <2>1, <2>2 DEF ShallowQueues
      <3> HIDE DEF q, e
      <3> QED
        BY <2>2, <3>1, <3>2, <3>3
    <2>4. /\ PoolExact(q)
          /\ Contents(pool, e) = <<>> /\ Contents(q, e) = <<c>>
          /\ \A m \in ListPtr \ {e} : Contents(q, m) = Contents(pool, m)
          /\ \A m \in ListId \ {e} : q.count[m] = pool.count[m]
          /\ SameLists(pool, q)
          /\ (Items(pool) \ {NULL}) \cup {c} \subseteq Items(q)
      BY <2>2, <2>3, AppendExact
    <2> HIDE DEF q
    <2>5. current_owner # NoPid
      BY <1>1, <1>5 DEF ShallowInv, TypeOK
    <2>6. ShallowInv'
      <3>1. \A l \in FreeLists : q.count[l] = pool.count[l]
        BY <2>2, <2>4 DEF FreeLists
      <3>2. \A d \in Client : (stage[d] = "held" \/ d \in {c}) /\ d \notin {} => d \in Items(q)
        BY <2>4, HeldInItems
      <3> QED
        BY <1>1, <1>2, <2>1, <2>4, <2>5, <3>1, <3>2, AfterReplyShallow DEF lockVars
    <2>7. Hoare!Resume({}, {c})
      BY <2>1 DEF Reply, Hoare!Resume, NoMsg, Hoare!NoMsg
    <2>8. /\ Contents(pool, entry_queue)' = Append(Contents(pool, entry_queue), c)
          /\ Contents(pool, urgent_queue)' = Contents(pool, urgent_queue)
      BY <1>1, <2>1, <2>2, <2>4, <1>2, QueuesDistinct DEF queueVars, ListPtr
    <2>9. [k \in Cond |-> Contents(pool, condition_queues[k])]'
            = [k \in Cond |-> Contents(pool, condition_queues[k])]
      <3>1. \A k \in Cond : condition_queues[k] \in ListPtr \ {e}
        BY <1>1, <1>2, QueuesDistinct DEF TypeOK
      <3> QED
        BY <1>1, <2>1, <2>4, <3>1 DEF queueVars
    <2> QED
      BY <1>1, <1>3, <2>1, <2>5, <2>6, <2>7, <2>8, <2>9 DEF Hoare!Enter, lockVars
  <1> QED
    BY <1>4, <1>5

(* A refused call, or a signal nobody waits for, changes nothing.          *)
LEMMA RefuseStep ==
    ASSUME ShallowInv, NEW c \in Client,
           NEW t \in {"MonLeave", "MonWait", "MonSignal"}, Receive(c, t), Refuse(c),
           Hoare!Ineffective(c)
    PROVE  ShallowInv' /\ Hoare!Ignore(c)
  <1>1. /\ MonitorInv /\ MonitorInv' /\ init_pid = NoPid /\ init_pid' = NoPid
        /\ pool' = pool /\ Reply({c}, {})
        /\ UNCHANGED <<queueVars, num_conditions, lockVars, initVars, crashed>>
    BY RefuseInv DEF ShallowInv, Receive, Refuse, initVars
  <1>2. entry_queue # NULL
    BY InitialisedIfCalled DEF Receive
  <1>3. ShallowInv'
    <2>1. PoolExact(pool') /\ SameLists(pool, pool')
      BY <1>1, <1>2 DEF ShallowInv, Initialised, SameLists
    <2>2. \A d \in Client : (stage[d] = "held" \/ d \in {}) /\ d \notin {c} => d \in Items(pool')
      BY <1>1, HeldInItems
    <2>3. monitor_locked' = 1 => current_owner' # NoPid
      BY <1>1 DEF ShallowInv, lockVars
    <2> QED
      BY <1>1, <1>2, <2>1, <2>2, <2>3, AfterReplyShallow
  <1>4. Hoare!Resume({c}, {})
    BY <1>1 DEF Reply, Hoare!Resume, NoMsg, Hoare!NoMsg
  <1> QED
    BY <1>1, <1>3, <1>4 DEF Hoare!Ignore, Hoare!queues, queueVars, lockVars, initVars

(* The release of the monitor in MonLeave and MonWait.                     *)
LEMMA PassOnStep ==
    ASSUME ShallowInv, entry_queue # NULL, init_pid = NoPid, MonitorInv',
           NEW p, PoolOK(p), PoolExact(p), SameLists(pool, p),
           \A l \in FreeLists : p.count[l] = pool.count[l],
           Contents(p, entry_queue) = Contents(pool, entry_queue),
           Contents(p, urgent_queue) = Contents(pool, urgent_queue),
           NEW R, NEW H, (Items(pool) \ {NULL}) \cup H \subseteq Items(p),
           PassOn(p, R, H)
    PROVE  /\ ShallowInv' /\ Hoare!Release(R, H)
           /\ \A m \in ListPtr \ {entry_queue, urgent_queue} :
                Contents(pool', m) = Contents(p, m)
           /\ UNCHANGED <<queueVars, num_conditions, initVars>>
  <1> DEFINE r == NextOwner(p)
             next == r.ret
             q == r.pool
  <1>1. /\ next # NULL /\ next \in Client \cup {NoPid}
        /\ PoolOK(q) /\ PoolExact(q) /\ SameLists(p, q)
        /\ Items(p) \ {next} \subseteq Items(q)
        /\ \A m \in ListId \ {entry_queue, urgent_queue} : q.count[m] = p.count[m]
        /\ \A m \in ListPtr \ {entry_queue, urgent_queue} : Contents(q, m) = Contents(p, m)
    BY NextOwnerExact
  <1>2. \/ /\ next \in Client
           /\ Contents(p, urgent_queue) = <<next>>
           /\ Contents(q, urgent_queue) = <<>>
           /\ Contents(q, entry_queue) = Contents(p, entry_queue)
        \/ /\ next \in Client
           /\ Contents(p, urgent_queue) = <<>>
           /\ Contents(p, entry_queue) = <<next>>
           /\ Contents(q, urgent_queue) = <<>>
           /\ Contents(q, entry_queue) = <<>>
        \/ /\ next = NoPid
           /\ Contents(p, urgent_queue) = <<>>
           /\ Contents(p, entry_queue) = <<>>
           /\ Contents(q, urgent_queue) = <<>>
           /\ Contents(q, entry_queue) = <<>>
    BY NextOwnerExact
  <1>3. /\ pool' = q /\ current_owner' = next
        /\ monitor_locked' = IF next = NoPid THEN 0 ELSE 1
        /\ Reply(R \cup ({next} \ {NoPid}), H)
        /\ UNCHANGED <<queueVars, num_conditions, initVars, crashed>>
    BY <1>1 DEF PassOn
  <1> HIDE DEF r, next, q
  <1>4. ShallowInv'
    <2>1. SameLists(pool, pool')
      BY <1>1, <1>3 DEF SameLists
    <2>2. \A l \in FreeLists : pool'.count[l] = pool.count[l]
      <3>1. \A l \in FreeLists : l \in ListId \ {entry_queue, urgent_queue}
        BY QueuesDistinct DEF FreeLists
      <3> QED
        BY <1>1, <1>3, <3>1
    <2>3. \A d \in Client : (stage[d] = "held" \/ d \in H)
                              /\ d \notin R \cup ({next} \ {NoPid}) => d \in Items(pool')
      BY <1>1, <1>3, HeldInItems, MonitorAssumption
    <2>4. monitor_locked' = 1 => current_owner' # NoPid
      BY <1>3
    <2>5. init_pid' = NoPid
      BY <1>3 DEF initVars
    <2>6. PoolExact(pool')
      BY <1>1, <1>3
    <2> QED
      BY <1>3, <2>1, <2>2, <2>3, <2>4, <2>5, <2>6, AfterReplyShallow
  <1>5. /\ Contents(pool, entry_queue)' = Contents(q, entry_queue)
        /\ Contents(pool, urgent_queue)' = Contents(q, urgent_queue)
    BY <1>3 DEF queueVars
  <1>6. Hoare!Release(R, H)
    <2>1. CASE next = NoPid
      <3>1. Reply(R, H)
        <4>1. R \cup ({next} \ {NoPid}) = R
          BY <2>1
        <4> QED
          BY <1>3, <4>1
      <3>2. Hoare!Resume(R, H)
        BY <3>1 DEF Reply, Hoare!Resume, NoMsg, Hoare!NoMsg
      <3>3. Contents(pool, urgent_queue) = <<>> /\ Contents(pool, entry_queue) = <<>>
        BY <2>1, <1>2, MonitorAssumption
      <3>4. Contents(q, urgent_queue) = <<>> /\ Contents(q, entry_queue) = <<>>
        BY <2>1, <1>2, MonitorAssumption
      <3> QED
        BY <1>3, <1>5, <2>1, <3>2, <3>3, <3>4 DEF Hoare!Release
    <2>2. CASE next # NoPid
      <3>1. Reply(R \cup {next}, H)
        <4>1. R \cup ({next} \ {NoPid}) = R \cup {next}
          BY <2>2
        <4> QED
          BY <1>3, <4>1
      <3>2. Hoare!Resume(R \cup {next}, H)
        BY <3>1 DEF Reply, Hoare!Resume, NoMsg, Hoare!NoMsg
      <3>3. Head(<<next>>) = next /\ Tail(<<next>>) = <<>> /\ <<next>> # <<>>
        OBVIOUS
      <3>4. CASE Contents(p, urgent_queue) = <<next>>
        <4>1. /\ Contents(q, urgent_queue) = <<>>
              /\ Contents(q, entry_queue) = Contents(p, entry_queue)
          BY <1>2, <2>2, <3>3, <3>4
        <4> QED
          BY <1>3, <1>5, <3>2, <3>3, <3>4, <4>1 DEF Hoare!Release
      <3>5. CASE Contents(p, urgent_queue) # <<next>>
        <4>1. /\ Contents(p, urgent_queue) = <<>>
              /\ Contents(p, entry_queue) = <<next>>
              /\ Contents(q, urgent_queue) = <<>>
              /\ Contents(q, entry_queue) = <<>>
          BY <1>2, <2>2, <3>5
        <4> QED
          BY <1>3, <1>5, <3>2, <3>3, <4>1 DEF Hoare!Release
      <3> QED
        BY <3>4, <3>5
    <2> QED
      BY <2>1, <2>2
  <1> QED
    BY <1>1, <1>3, <1>4, <1>6

LEMMA LeaveStep ==
    ASSUME ShallowInv, NEW c \in Client, ServeLeave(c)
    PROVE  ShallowInv' /\ (Hoare!Leave(c) \/ Hoare!Ignore(c))
  <1>1. Receive(c, "MonLeave") /\ init_pid = NoPid /\ MonitorInv /\ MonitorInv'
    BY ServeLeaveInv DEF ServeLeave, ShallowInv, Receive
  <1>2. entry_queue # NULL
    BY <1>1, InitialisedIfCalled DEF Receive
  <1>3. Hoare!Pending(c, "MonLeave")
    BY <1>1 DEF Receive, Hoare!Pending
  <1>4. CASE current_owner = c
    <2>1. PassOn(pool, {c}, {})
      BY <1>4 DEF ServeLeave
    <2>2. PoolOK(pool) /\ PoolExact(pool) /\ SameLists(pool, pool)
      BY <1>1, <1>2 DEF MonitorInv, ShallowInv, Initialised, SameLists
    <2>3. (Items(pool) \ {NULL}) \cup {} \subseteq Items(pool)
      OBVIOUS
    <2>4. /\ ShallowInv' /\ Hoare!Release({c}, {})
          /\ \A m \in ListPtr \ {entry_queue, urgent_queue} :
               Contents(pool', m) = Contents(pool, m)
          /\ UNCHANGED <<queueVars, num_conditions, initVars>>
      BY <1>1, <1>2, <2>1, <2>2, <2>3, PassOnStep
    <2>5. [k \in Cond |-> Contents(pool, condition_queues[k])]'
            = [k \in Cond |-> Contents(pool, condition_queues[k])]
      <3>1. \A k \in Cond : condition_queues[k] \in ListPtr \ {entry_queue, urgent_queue}
        <4>1. urgent_queue # NULL
          BY <1>2, QueuesDistinct, NodesFinite
        <4> QED
          BY <1>1, <1>2, <4>1, QueuesDistinct DEF MonitorInv, TypeOK
      <3> QED
        BY <2>4, <3>1 DEF queueVars
    <2> QED
      BY <1>3, <1>4, <2>4, <2>5 DEF Hoare!Leave, initVars
  <1>5. CASE current_owner # c
    <2>1. Refuse(c)
      BY <1>5 DEF ServeLeave
    <2>2. Hoare!Ineffective(c)
      BY <1>3, <1>5 DEF Hoare!Ineffective
    <2> QED
      BY <1>1, <2>1, <2>2, RefuseStep
  <1> QED
    BY <1>4, <1>5

(* A condition that MonWait and MonSignal may use is one of the Hoare      *)
(* monitor's, and has a list.                                              *)
LEMMA UsableIfMayUse ==
    ASSUME ShallowInv, entry_queue # NULL, init_pid = NoPid, NEW c \in Client
    PROVE  /\ Hoare!Usable(c, msg[c].arg) <=> MayUse(c, msg[c].arg)
           /\ MayUse(c, msg[c].arg) =>
                /\ msg[c].arg \in Cond
                /\ condition_queues[msg[c].arg] \in ListId
  <1> USE MonitorAssumption
  <1>1. TypeOK /\ msg[c].arg \in Int
    BY MessageArg DEF ShallowInv, MonitorInv, TypeOK
  <1>2. MayUse(c, msg[c].arg) => msg[c].arg \in Cond
    BY <1>1 DEF MayUse, Cond, TypeOK
  <1>3. Hoare!Usable(c, msg[c].arg) <=> MayUse(c, msg[c].arg)
    BY <1>1, <1>2 DEF MayUse, Hoare!Usable, Cond
  <1>4. MayUse(c, msg[c].arg) => condition_queues[msg[c].arg] # NULL
    BY <1>2 DEF ShallowInv, Initialised, MayUse
  <1> QED
    BY <1>2, <1>3, <1>4, QueuesDistinct

LEMMA WaitStep ==
    ASSUME ShallowInv, NEW c \in Client, ServeWait(c), ShallowQueues'
    PROVE  ShallowInv' /\ (Hoare!Wait(c) \/ Hoare!Ignore(c))
  <1> DEFINE k == msg[c].arg
  <1>1. Receive(c, "MonWait") /\ init_pid = NoPid /\ MonitorInv /\ MonitorInv'
    BY ServeWaitInv DEF ServeWait, ShallowInv, Receive
  <1>2. entry_queue # NULL
    BY <1>1, InitialisedIfCalled DEF Receive
  <1>3. Hoare!Pending(c, "MonWait")
    BY <1>1 DEF Receive, Hoare!Pending
  <1>4. CASE MayUse(c, k)
    <2> DEFINE l == condition_queues[k]
               p == ListAppend(pool, l, c).pool
    <2>1. /\ k \in Cond /\ l \in ListId /\ Hoare!Usable(c, k)
      BY <1>1, <1>2, <1>4, UsableIfMayUse
    <2>2. /\ l # entry_queue /\ l # urgent_queue /\ l \notin FreeLists
          /\ entry_queue \in ListId /\ urgent_queue \in ListId
          /\ \A j \in Cond \ {k} : condition_queues[j] # l
      BY <1>2, <2>1, QueuesDistinct, NodesFinite
    <2>3. PassOn(p, {}, {c})
      BY <1>4 DEF ServeWait
    <2>4. PoolOK(pool) /\ PoolExact(pool) /\ pool.count[l] \in Nat
      BY <1>1, <1>2, <2>1 DEF MonitorInv, ShallowInv, Initialised, PoolOK, PoolType
    <2>5. pool.count[l] = 0
      <3>1. PoolOK(p) /\ p \in PoolType
        BY <2>1, <2>4, ListAppendOK DEF ListPtr, PoolOK
      <3>2. p.count[l] = pool.count[l] + 1
        BY <2>1, <2>4, AppendCount
      <3>3. \A m \in {entry_queue, urgent_queue} :
              p.count[m] # 0 => p.item[p.head[m]] # NULL
        <4> SUFFICES ASSUME NEW m \in {entry_queue, urgent_queue}, p.count[m] # 0
                     PROVE  p.item[p.head[m]] # NULL
          OBVIOUS
        <4>1. m \in ListId /\ m # l
          BY <2>2
        <4>2. p.count[m] = pool.count[m] /\ p.head[m] = pool.head[m]
          BY <2>1, <2>4, <4>1, AppendCount
        <4>3. pool.head[m] \in Node /\ pool.item[pool.head[m]] # NULL
          BY <2>4, <4>1, <4>2 DEF PoolExact
        <4>4. p.item[pool.head[m]] = pool.item[pool.head[m]]
          BY <2>1, <2>4, <4>3, AppendCount
        <4> QED
          BY <4>2, <4>3, <4>4
      <3>4. NextOwner(p).ret # NULL /\ NextOwner(p).pool.count[l] = p.count[l]
        BY <1>2, <2>1, <2>2, <3>1, <3>3, NextOwnerReturns
      <3>5. pool' = NextOwner(p).pool
        BY <2>3, <3>4 DEF PassOn
      <3>6. pool'.count[l] <= 1
        BY <2>1 DEF ShallowQueues
      <3> HIDE DEF p, l
      <3> QED
        BY <2>4, <3>2, <3>4, <3>5, <3>6
    <2>6. /\ PoolOK(p) /\ PoolExact(p) /\ SameLists(pool, p)
          /\ Contents(pool, l) = <<>> /\ Contents(p, l) = <<c>>
          /\ \A m \in ListPtr \ {l} : Contents(p, m) = Contents(pool, m)
          /\ \A m \in ListId \ {l} : p.count[m] = pool.count[m]
          /\ (Items(pool) \ {NULL}) \cup {c} \subseteq Items(p)
      BY <2>1, <2>4, <2>5, AppendExact
    <2> HIDE DEF p, l
    <2>7. /\ \A m \in FreeLists : p.count[m] = pool.count[m]
          /\ Contents(p, entry_queue) = Contents(pool, entry_queue)
          /\ Contents(p, urgent_queue) = Contents(pool, urgent_queue)
      BY <2>2, <2>6 DEF FreeLists, ListPtr
    <2>8. /\ ShallowInv' /\ Hoare!Release({}, {c})
          /\ \A m \in ListPtr \ {entry_queue, urgent_queue} :
               Contents(pool', m) = Contents(p, m)
          /\ UNCHANGED <<queueVars, num_conditions, initVars>>
      BY <1>1, <1>2, <2>3, <2>6, <2>7, PassOnStep
    <2>9. [j \in Cond |-> Contents(pool, condition_queues[j])]'
            = [[j \in Cond |-> Contents(pool, condition_queues[j])]
                 EXCEPT ![k] = Append(Contents(pool, condition_queues[k]), c)]
      <3>1. \A j \in Cond : condition_queues[j] \in ListPtr \ {entry_queue, urgent_queue}
        BY <1>1, <1>2, <2>2, QueuesDistinct, NodesFinite DEF MonitorInv, TypeOK
      <3>2. \A j \in Cond : Contents(pool', condition_queues'[j])
                              = IF j = k THEN <<c>> ELSE Contents(pool, condition_queues[j])
        BY <2>2, <2>6, <2>8, <3>1 DEF queueVars, l
      <3>3. Append(Contents(pool, condition_queues[k]), c) = <<c>>
        BY <2>6 DEF l
      <3> QED
        BY <2>1, <3>2, <3>3
    <2> QED
      BY <1>3, <2>1, <2>8, <2>9 DEF Hoare!Wait, initVars
  <1>5. CASE ~MayUse(c, k)
    <2>1. Refuse(c)
      BY <1>5 DEF ServeWait
    <2>2. Hoare!Ineffective(c)
      BY <1>1, <1>2, <1>3, <1>5, UsableIfMayUse DEF Hoare!Ineffective
    <2> QED
      BY <1>1, <2>1, <2>2, RefuseStep
  <1> QED
    BY <1>4, <1>5

LEMMA SignalStep ==
    ASSUME ShallowInv, NEW c \in Client, ServeSignal(c), ShallowQueues'
    PROVE  ShallowInv' /\ (Hoare!Signal(c) \/ Hoare!Ignore(c))
  <1> DEFINE k == msg[c].arg
             l == condition_queues[k]
             u == urgent_queue
             W == [j \in Cond |-> Contents(pool, condition_queues[j])]
  <1>1. Receive(c, "MonSignal") /\ init_pid = NoPid /\ MonitorInv /\ MonitorInv'
    BY ServeSignalInv DEF ServeSignal, ShallowInv, Receive
  <1>2. entry_queue # NULL
    BY <1>1, InitialisedIfCalled DEF Receive
  <1>3. Hoare!Pending(c, "MonSignal")
    BY <1>1 DEF Receive, Hoare!Pending
  <1>4. CASE ~MayUse(c, k)
    <2>1. Refuse(c)
      BY <1>4 DEF ServeSignal
    <2>2. Hoare!Ineffective(c)
      BY <1>1, <1>2, <1>3, <1>4, UsableIfMayUse DEF Hoare!Ineffective
    <2> QED
      BY <1>1, <2>1, <2>2, RefuseStep
  <1>5. CASE MayUse(c, k)
    <2>1. /\ k \in Cond /\ l \in ListId /\ l # NULL /\ Hoare!Usable(c, k)
      BY <1>1, <1>2, <1>5, UsableIfMayUse, NodesFinite
    <2>2. /\ l # entry_queue /\ l # u /\ l \notin FreeLists
          /\ entry_queue \in ListId /\ u \in ListId /\ entry_queue # u
          /\ u \notin FreeLists
          /\ \A j \in Cond \ {k} : condition_queues[j] # l
      BY <1>2, <2>1, QueuesDistinct, NodesFinite
    <2>3. PoolOK(pool) /\ PoolExact(pool) /\ pool.count[l] \in Nat
      BY <1>1, <1>2, <2>1 DEF MonitorInv, ShallowInv, Initialised, PoolOK, PoolType
    <2>4. CASE pool.count[l] = 0
      <3>1. Refuse(c)
        BY <1>5, <2>1, <2>4 DEF ServeSignal, ListCount
      <3>2. W[k] = <<>>
        BY <2>1, <2>4, ContentsNone DEF ListPtr
      <3>3. Hoare!Ineffective(c)
        BY <1>3, <2>1, <3>2 DEF Hoare!Ineffective
      <3> QED
        BY <1>1, <3>1, <3>3, RefuseStep
    <2>5. CASE pool.count[l] # 0
      <3> DEFINE first == PopFirst(pool, l).pool
                 d == PopFirst(pool, l).ret
                 q == ListAppend(first, u, c).pool
      <3>1. /\ PoolOK(first) /\ PoolExact(first) /\ SameLists(pool, first)
            /\ d # NULL /\ d \in Client
            /\ Contents(pool, l) = <<d>> /\ Contents(first, l) = <<>>
            /\ \A m \in ListPtr \ {l} : Contents(first, m) = Contents(pool, m)
            /\ \A m \in ListId : first.count[m] = IF m = l THEN 0 ELSE pool.count[m]
            /\ Items(pool) \ {d} \subseteq Items(first)
        BY <2>1, <2>3, <2>5, PopExact
      <3>2. Wake(c, l)
        BY <1>5, <2>1, <2>3, <2>5 DEF ServeSignal, ListCount
      <3>3. /\ pool' = q /\ current_owner' = d /\ Reply({d}, {c})
            /\ UNCHANGED <<queueVars, num_conditions, monitor_locked, initVars, crashed>>
        BY <3>1, <3>2 DEF Wake
      <3> HIDE DEF first, d
      <3>4. first.count[u] = 0
        <4>1. q.count[u] = first.count[u] + 1
          BY <2>2, <3>1, AppendCount
        <4>2. first.count[u] \in Nat
          BY <2>2, <3>1 DEF PoolOK, PoolType
        <4>3. q.count[u] <= 1
          BY <2>2, <3>3 DEF ShallowQueues
        <4> HIDE DEF q, u
        <4> QED
          BY <4>1, <4>2, <4>3
      <3>5. /\ PoolExact(q) /\ SameLists(first, q)
            /\ Contents(first, u) = <<>> /\ Contents(q, u) = <<c>>
            /\ \A m \in ListPtr \ {u} : Contents(q, m) = Contents(first, m)
            /\ \A m \in ListId \ {u} : q.count[m] = first.count[m]
            /\ (Items(first) \ {NULL}) \cup {c} \subseteq Items(q)
        BY <2>2, <3>1, <3>4, AppendExact
      <3> HIDE DEF q, l, u
      <3>6. ShallowInv'
        <4>1. PoolExact(pool') /\ SameLists(pool, pool')
          BY <3>1, <3>3, <3>5 DEF SameLists
        <4>2. \A m \in FreeLists : pool'.count[m] = pool.count[m]
          BY <2>2, <3>1, <3>3, <3>5 DEF FreeLists
        <4>3. \A e \in Client : (stage[e] = "held" \/ e \in {c}) /\ e \notin {d}
                                  => e \in Items(pool')
          BY <3>1, <3>3, <3>5, HeldInItems
        <4>4. monitor_locked' = 1 => current_owner' # NoPid
          BY <3>1, <3>3, MonitorAssumption
        <4>5. init_pid' = NoPid
          BY <1>1, <3>3 DEF initVars
        <4> QED
          BY <1>1, <1>2, <3>3, <4>1, <4>2, <4>3, <4>4, <4>5, AfterReplyShallow
      <3>7. Hoare!Resume({d}, {c})
        BY <3>3 DEF Reply, Hoare!Resume, NoMsg, Hoare!NoMsg
      <3>8. /\ Contents(pool, entry_queue)' = Contents(pool, entry_queue)
            /\ Contents(pool, urgent_queue)' = Append(Contents(pool, urgent_queue), c)
        <4>1. /\ Contents(q, entry_queue) = Contents(pool, entry_queue)
              /\ Contents(q, u) = <<c>> /\ Contents(pool, u) = <<>>
          BY <2>2, <3>1, <3>5 DEF ListPtr
        <4> QED
          BY <3>3, <4>1 DEF queueVars, u
      <3>9. /\ W[k] = <<d>> /\ W[k] # <<>> /\ Head(W[k]) = d /\ Tail(W[k]) = <<>>
        <4>1. W[k] = <<d>>
          BY <2>1, <3>1 DEF l
        <4> HIDE DEF W
        <4> QED
          BY <4>1
      <3>10. W' = [W EXCEPT ![k] = Tail(W[k])]
        <4>1. \A j \in Cond : condition_queues[j] \in ListPtr \ {u}
          BY <1>1, <1>2, <2>2, QueuesDistinct, NodesFinite DEF MonitorInv, TypeOK, u
        <4>2. \A j \in Cond : Contents(pool', condition_queues'[j])
                                = IF j = k THEN <<>> ELSE Contents(pool, condition_queues[j])
          BY <2>2, <3>1, <3>3, <3>5, <4>1 DEF queueVars, l
        <4> QED
          BY <2>1, <3>9, <4>2
      <3> QED
        BY <1>3, <2>1, <3>3, <3>6, <3>7, <3>8, <3>9, <3>10
           DEF Hoare!Signal, initVars
    <2> QED
      BY <2>4, <2>5
  <1> QED
    BY <1>4, <1>5

(* ListCreate takes a list off its free chain and touches nothing else.    *)
SameItems(p, q) ==
    /\ q.item = p.item /\ q.next = p.next /\ q.prev = p.prev /\ q.link = p.link
    /\ q.head = p.head /\ q.count = p.count /\ q.free_node_head = p.free_node_head
    /\ q.initialized = p.initialized

LEMMA SameItemsSame ==
    ASSUME NEW p, NEW q, SameItems(p, q)
    PROVE  /\ PoolExact(p) => PoolExact(q)
           /\ \A l : Contents(q, l) = Contents(p, l)
  BY DEF SameItems, PoolExact, Contents, NthNode, ItemAt

LEMMA TakeListExact ==
    ASSUME NEW p \in PoolType, NEW F \in SUBSET ListId, F # {},
           Chained(F, p.free_list_head, p.llink)
    PROVE  LET r == TakeList(p)
           IN  /\ r.ret \in F /\ r.pool \in PoolType /\ SameItems(p, r.pool)
               /\ Chained(F \ {r.ret}, r.pool.free_list_head, r.pool.llink)
  <1> DEFINE r == TakeList(p)
             l == p.free_list_head
  <1>1. IsFiniteSet(F) /\ NIL \notin F
    BY NodesFinite, FS_Subset
  <1>2. l # NIL /\ l \in F /\ l \in ListId
    BY <1>1, ChainFirst
  <1>3. /\ r.ret = l
        /\ r.pool = [p EXCEPT !.free_list_head = p.llink[l],
                              !.llink = [p.llink EXCEPT ![l] = NIL]]
    BY <1>2 DEF TakeList
  <1>4. /\ p.llink[l] \in ListIdOrNil
        /\ [p.llink EXCEPT ![l] = NIL] \in [ListId -> ListIdOrNil]
    BY <1>2 DEF PoolType, ListIdOrNil
  <1> HIDE DEF r, l
  <1>5. r.pool \in PoolType
    BY <1>3, <1>4 DEF PoolType
  <1>6. SameItems(p, r.pool)
    BY <1>3 DEF SameItems, PoolType
  <1>7. /\ r.pool.free_list_head = p.llink[l]
        /\ r.pool.llink = [p.llink EXCEPT ![l] = NIL]
    BY <1>3 DEF PoolType
  <1>8. \A x \in F \ {l} : r.pool.llink[x] = p.llink[x]
    BY <1>7 DEF PoolType
  <1>9. Chained(F, l, p.llink)
    BY DEF l
  <1>10. Chained(F \ {l}, p.llink[l], r.pool.llink)
    BY <1>1, <1>2, <1>8, <1>9, ChainTake
  <1> QED
    BY <1>2, <1>3, <1>5, <1>6, <1>7, <1>10 DEF r

(* The first MonInit.                                                      *)
LEMMA FirstInitStep ==
    ASSUME ShallowInv, entry_queue = NULL, NEW c \in Client, ServeInit(c)
    PROVE  ShallowInv' /\ Hoare!Setup(c)
  <1> USE PoolAssumption, MonitorAssumption
  <1>1. /\ MonitorInv /\ TypeOK /\ MonitorInv' /\ NotInitialised /\ pool = InitialPool
        /\ PoolOK(pool)
    BY ServeInitInv DEF ShallowInv, MonitorInv, NotInitialised
  <1> DEFINE p0 == ChainedPool(pool)
             a == TakeList(p0)
             b == TakeList(a.pool)
  <1>2. urgent_queue = NULL /\ \A k \in Cond : condition_queues[k] = NULL
    <2>1. Queue(-1) = NULL /\ \A k \in Cond : Queue(k) = NULL
      BY <1>1 DEF NotInitialised, QueueVar, Cond
    <2> QED
      BY <2>1 DEF Queue, Cond
  <1>3. /\ p0 \in PoolType
        /\ \A n \in Node : p0.item[n] = NULL
        /\ \A l \in ListId : p0.count[l] = 0
        /\ p0.free_node_head = 0 /\ p0.free_list_head = 0
        /\ \A n \in Node : p0.link[n] = IF n = MAX_NODES - 1 THEN NIL ELSE n + 1
        /\ \A l \in ListId : p0.llink[l] = IF l = MAX_LISTS - 1 THEN NIL ELSE l + 1
        /\ p0.initialized = 1
    <2>1. \A n \in Node : (IF n = MAX_NODES - 1 THEN NIL ELSE n + 1) \in NodeOrNil
      BY DEF Node, NodeOrNil, NIL
    <2>2. \A l \in ListId : (IF l = MAX_LISTS - 1 THEN NIL ELSE l + 1) \in ListIdOrNil
      BY DEF ListId, ListIdOrNil, NIL
    <2>3. p0 \in PoolType
      BY <1>1, <2>1, <2>2 DEF ChainedPool, PoolOK, PoolType, NodeOrNil, NIL
    <2>4. p0.free_node_head = 0 /\ p0.free_list_head = 0
      BY <1>1 DEF ChainedPool, InitialPool
    <2>5. /\ p0.item = [n \in Node |-> NULL]
          /\ p0.count = [l \in ListId |-> 0]
          /\ p0.link = [n \in Node |-> IF n = MAX_NODES - 1 THEN NIL ELSE n + 1]
          /\ p0.llink = [l \in ListId |-> IF l = MAX_LISTS - 1 THEN NIL ELSE l + 1]
          /\ p0.initialized = 1
      BY <1>1 DEF ChainedPool, InitialPool
    <2> QED
      BY <2>3, <2>4, <2>5
  <1>4. Chained(ListId, p0.free_list_head, p0.llink)
    BY <1>3, ChainAll DEF ListId
  <1>5. PoolExact(p0)
    <2>1. {n \in Node : p0.item[n] = NULL} = Node
      BY <1>3
    <2>2. Chained(Node, p0.free_node_head, p0.link)
      BY <1>3, ChainAll DEF Node
    <2> QED
      BY <1>3, <2>1, <2>2 DEF PoolExact
  <1>6. CreateIfNull(pool, entry_queue) = a
    BY <1>1 DEF CreateIfNull, ListCreate, InitialPool
  <1> HIDE DEF p0
  <1>7. /\ a.ret \in ListId /\ a.pool \in PoolType /\ SameItems(p0, a.pool)
        /\ Chained(ListId \ {a.ret}, a.pool.free_list_head, a.pool.llink)
    <2>1. ListId # {}
      BY DEF ListId
    <2> QED
      BY <1>3, <1>4, <2>1, TakeListExact
  <1>8. CreateIfNull(a.pool, urgent_queue) = b
    BY <1>2, <1>3, <1>7 DEF CreateIfNull, ListCreate, SameItems
  <1> HIDE DEF a
  <1>9. /\ b.ret \in ListId \ {a.ret} /\ SameItems(a.pool, b.pool)
        /\ Chained((ListId \ {a.ret}) \ {b.ret}, b.pool.free_list_head, b.pool.llink)
    <2>1. ListId \ {a.ret} # {}
      <3>1. 0 \in ListId /\ 1 \in ListId
        BY PoolsSuffice DEF ListId
      <3> QED
        BY <3>1
    <2> DEFINE F == ListId \ {a.ret}
    <2>2. F \in SUBSET ListId /\ F # {} /\ Chained(F, a.pool.free_list_head, a.pool.llink)
      BY <1>7, <2>1
    <2> HIDE DEF F
    <2>3. /\ b.ret \in F /\ SameItems(a.pool, b.pool)
          /\ Chained(F \ {b.ret}, b.pool.free_list_head, b.pool.llink)
      BY <1>7, <2>2, TakeListExact
    <2> QED
      BY <2>3 DEF F
  <1> HIDE DEF b
  <1>10. /\ init_pid = NoPid /\ stage[c] = "sent" /\ msg[c].type = "MonInit"
         /\ num_conditions' = CappedConditions(msg[c].arg)
         /\ entry_queue' = a.ret /\ urgent_queue' = b.ret /\ pool' = b.pool
         /\ init_pid' = c /\ init_i' = 0
         /\ UNCHANGED <<condition_queues, lockVars, MonServer_pid, clientVars, sendFailed, crashed>>
    BY <1>6, <1>8 DEF ServeInit, Receive
  <1>11. PoolExact(pool') /\ SameItems(p0, pool')
    BY <1>5, <1>7, <1>9, <1>10, SameItemsSame DEF SameItems
  <1>12. \A l \in ListId : pool'.count[l] = 0
    BY <1>3, <1>11 DEF SameItems
  <1>13. a.ret # NULL /\ b.ret # NULL /\ a.ret # b.ret
    BY <1>7, <1>9, NodesFinite
  <1>14. /\ -2 \in QueueVar /\ Queue(-2)' = a.ret
         /\ -1 \in QueueVar /\ Queue(-1)' = b.ret
         /\ \A k \in QueueVar \ {-2, -1} : Queue(k)' = NULL
    BY <1>2, <1>10 DEF Queue, QueueVar, Cond
  <1>15. FreeLists' = (ListId \ {a.ret}) \ {b.ret}
    BY <1>14, NodesFinite DEF FreeLists
  <1>16. ListsExact'
    <2>1. pool'.initialized = 1
      BY <1>3, <1>11 DEF SameItems
    <2>2. \A j, k \in QueueVar : Queue(j)' = Queue(k)' => j = k \/ Queue(j)' = NULL
      BY <1>13, <1>14
    <2>3. \A l \in FreeLists' : pool'.count[l] = 0
      BY <1>12, <1>15
    <2> QED
      BY <1>9, <1>10, <1>15, <2>1, <2>2, <2>3 DEF ListsExact
  <1>17. Initialised'
    <2>1. \A k \in Cond : ~(k < 0)
      BY DEF Cond
    <2>2. c # NoPid
      OBVIOUS
    <2> QED
      BY <1>10, <1>11, <1>13, <1>16, <2>1, <2>2 DEF Initialised
  <1>18. \A d \in Client : stage[d] # "held"
    BY <1>1 DEF ShallowInv, InitialPool
  <1>19. ShallowInv'
    BY <1>1, <1>10, <1>13, <1>17, <1>18 DEF ShallowInv, lockVars, clientVars
  <1>20. /\ Contents(pool, entry_queue)' = Contents(pool, entry_queue)
         /\ Contents(pool, urgent_queue)' = Contents(pool, urgent_queue)
    <2>1. Contents(pool', a.ret) = <<>> /\ Contents(pool', b.ret) = <<>>
      BY <1>7, <1>9, <1>12, ContentsNone DEF ListPtr
    <2>2. Contents(pool, NULL) = <<>>
      BY ContentsNone DEF ListPtr
    <2> QED
      BY <1>2, <1>10, <2>1, <2>2
  <1>21. [k \in Cond |-> Contents(pool, condition_queues[k])]'
           = [k \in Cond |-> Contents(pool, condition_queues[k])]
    <2>1. \A p : Contents(p, NULL) = <<>>
      BY ContentsNone DEF ListPtr
    <2> QED
      BY <1>2, <1>10, <2>1
  <1>22. /\ num_conditions' \in Int
         /\ \A k \in Cond : k < msg[c].arg <=> k < num_conditions'
    <2>1. msg[c].arg \in Int
      BY <1>1, MessageArg DEF TypeOK
    <2> QED
      BY <1>10, <2>1 DEF CappedConditions, Cond
  <1>23. Hoare!Pending(c, "MonInit")
    BY <1>10 DEF Hoare!Pending
  <1> QED
    BY <1>10, <1>19, <1>20, <1>21, <1>22, <1>23
       DEF Hoare!Setup, Hoare!queues, lockVars, clientVars

(* A later MonInit creates no entry or urgent queue.                       *)
LEMMA LaterInitStep ==
    ASSUME ShallowInv, entry_queue # NULL, NEW c \in Client, ServeInit(c)
    PROVE  ShallowInv' /\ Hoare!Setup(c)
  <1> USE MonitorAssumption
  <1>1. /\ MonitorInv /\ TypeOK /\ MonitorInv' /\ Initialised /\ urgent_queue # NULL
    BY ServeInitInv DEF ShallowInv, MonitorInv, Initialised
  <1>2. /\ init_pid = NoPid /\ stage[c] = "sent" /\ msg[c].type = "MonInit"
        /\ num_conditions' = CappedConditions(msg[c].arg)
        /\ init_pid' = c /\ init_i' = 0
        /\ UNCHANGED <<pool, queueVars, lockVars, MonServer_pid, clientVars, sendFailed, crashed>>
    BY <1>1 DEF ServeInit, Receive, CreateIfNull, queueVars
  <1>3. \A k : Queue(k)' = Queue(k)
    BY <1>2 DEF Queue, queueVars
  <1>4. ListsExact'
    BY <1>1, <1>2, <1>3 DEF Initialised, ListsExact, FreeLists
  <1>5. Initialised'
    <2>1. \A k \in Cond : ~(k < 0)
      BY DEF Cond
    <2>2. c # NoPid
      OBVIOUS
    <2>3. PoolExact(pool')
      BY <1>1, <1>2 DEF Initialised
    <2> QED
      BY <1>1, <1>2, <1>4, <2>1, <2>2, <2>3 DEF Initialised, queueVars
  <1>6. ShallowInv'
    BY <1>1, <1>2, <1>5 DEF ShallowInv, lockVars, clientVars, queueVars
  <1>7. /\ num_conditions' \in Int
        /\ \A k \in Cond : k < msg[c].arg <=> k < num_conditions'
    <2>1. msg[c].arg \in Int
      BY <1>1, MessageArg DEF TypeOK
    <2> QED
      BY <1>2, <2>1 DEF CappedConditions, Cond
  <1>8. Hoare!Pending(c, "MonInit")
    BY <1>2 DEF Hoare!Pending
  <1> QED
    BY <1>2, <1>6, <1>7, <1>8
       DEF Hoare!Setup, Hoare!queues, lockVars, clientVars, queueVars

(* A queue variable that is not set leaves a list to be created.           *)
LEMMA ListLeft ==
    ASSUME ShallowInv, entry_queue # NULL, NEW i \in Cond, condition_queues[i] = NULL
    PROVE  FreeLists # {}
  <1> USE MonitorAssumption, PoolAssumption
  <1> SUFFICES ASSUME FreeLists = {} PROVE FALSE
    OBVIOUS
  <1> DEFINE Q == QueueVar \ {i}
             f == [l \in ListId |-> CHOOSE k \in QueueVar : Queue(k) = l]
  <1>1. i \in QueueVar /\ Queue(i) = NULL
    BY DEF QueueVar, Cond, Queue
  <1>2. \A l \in ListId : \E k \in QueueVar : Queue(k) = l
    BY DEF FreeLists
  <1>3. \A l \in ListId : f[l] \in QueueVar /\ Queue(f[l]) = l
    BY <1>2
  <1>4. f \in [ListId -> Q]
    BY <1>1, <1>3, NodesFinite
  <1>5. IsFiniteSet(Q) /\ Cardinality(Q) = MAX_CONDS + 1
    <2>1. IsFiniteSet(QueueVar) /\ Cardinality(QueueVar) = MAX_CONDS + 2
      BY FS_Interval DEF QueueVar
    <2> QED
      BY <1>1, <2>1, FS_RemoveElement
  <1>6. Cardinality(Q) < Cardinality(ListId)
    BY <1>5, NodesFinite, PoolsSuffice
  <1> HIDE DEF f, Q
  <1>7. PICK x, y \in ListId : x # y /\ f[x] = f[y]
    BY <1>4, <1>5, <1>6, NodesFinite, FS_PigeonHole
  <1> QED
    BY <1>3, <1>7

(* One turn of MonInit's loop is invisible.                                *)
LEMMA InitConditionStep ==
    ASSUME ShallowInv, InitCondition
    PROVE  ShallowInv' /\ UNCHANGED Hoare!vars
  <1> USE MonitorAssumption
  <1> DEFINE i == init_i
             r == CreateIfNull(pool, condition_queues[i])
  <1>1. /\ MonitorInv /\ TypeOK /\ MonitorInv' /\ PoolOK(pool) /\ pool \in PoolType
    BY InitConditionInv DEF ShallowInv, MonitorInv, PoolOK
  <1>2. /\ init_pid # NoPid /\ i < num_conditions
        /\ condition_queues' = [condition_queues EXCEPT ![i] = r.ret]
        /\ pool' = r.pool /\ init_i' = i + 1
        /\ UNCHANGED <<entry_queue, urgent_queue, num_conditions, lockVars,
                       MonServer_pid, init_pid, clientVars, sendFailed, crashed>>
    BY DEF InitCondition
  <1>3. entry_queue # NULL /\ Initialised /\ ListsExact /\ PoolExact(pool)
    BY <1>2 DEF ShallowInv, NotInitialised, Initialised
  <1>4. i \in Cond /\ i \in Nat
    BY <1>1, <1>2 DEF TypeOK, Cond
  <1>5. condition_queues \in [Cond -> ListPtr]
    BY <1>1 DEF TypeOK
  <1>6. ASSUME PoolExact(pool'), ListsExact', r.ret # NULL, Items(pool') = Items(pool),
               \A l : Contents(pool', l) = Contents(pool, l),
               \A k \in Cond : Contents(pool', condition_queues'[k])
                                 = Contents(pool, condition_queues[k])
        PROVE  ShallowInv' /\ UNCHANGED Hoare!vars
    <2>1. Initialised'
      <3>1. \A k \in Cond : k < i + 1 => k = i \/ k < i
        BY <1>4 DEF Cond
      <3>2. \A k \in Cond : k < i + 1 => condition_queues'[k] # NULL
        BY <1>2, <1>3, <1>4, <1>5, <1>6, <3>1 DEF Initialised
      <3> QED
        BY <1>2, <1>3, <1>6, <3>2 DEF Initialised
    <2>2. \A c \in Client : stage'[c] = "held" => \E n \in Node : pool'.item[n] = c
      BY <1>2, <1>6, HeldInItems DEF Items, clientVars
    <2>3. ShallowInv'
      BY <1>1, <1>2, <1>3, <2>1, <2>2 DEF ShallowInv, lockVars
    <2>4. /\ Contents(pool, entry_queue)' = Contents(pool, entry_queue)
          /\ Contents(pool, urgent_queue)' = Contents(pool, urgent_queue)
      BY <1>2, <1>6
    <2>5. [k \in Cond |-> Contents(pool, condition_queues[k])]'
            = [k \in Cond |-> Contents(pool, condition_queues[k])]
      BY <1>6
    <2> QED
      BY <1>2, <2>3, <2>4, <2>5 DEF Hoare!vars, lockVars, clientVars
  <1>7. CASE condition_queues[i] # NULL
    <2>1. r.pool = pool /\ r.ret = condition_queues[i]
      BY <1>7 DEF CreateIfNull
    <2>2. pool' = pool /\ condition_queues' = condition_queues /\ r.ret # NULL
      BY <1>2, <1>4, <1>5, <1>7, <2>1
    <2>3. \A k : Queue(k)' = Queue(k)
      BY <1>2, <2>2 DEF Queue
    <2>4. ListsExact'
      BY <1>3, <2>2, <2>3 DEF ListsExact, FreeLists
    <2>5. PoolExact(pool')
      BY <1>3, <2>2
    <2> QED
      BY <1>6, <2>2, <2>4, <2>5
  <1>8. CASE condition_queues[i] = NULL
    <2>1. FreeLists # {} /\ FreeLists \in SUBSET ListId
      BY <1>3, <1>4, <1>8, ListLeft DEF FreeLists
    <2>2. r = TakeList(pool)
      BY <1>3, <1>8 DEF CreateIfNull, ListCreate, ListsExact
    <2>3. /\ r.ret \in FreeLists /\ SameItems(pool, r.pool)
          /\ Chained(FreeLists \ {r.ret}, r.pool.free_list_head, r.pool.llink)
      BY <1>1, <1>3, <2>1, <2>2, TakeListExact DEF ListsExact
    <2> HIDE DEF r
    <2>4. r.ret \in ListId /\ r.ret # NULL /\ pool.count[r.ret] = 0
      BY <1>3, <2>1, <2>3, NodesFinite DEF ListsExact
    <2>5. i \in QueueVar /\ i # -1 /\ i # -2
      BY <1>4 DEF QueueVar, Cond
    <2>6. \A k \in QueueVar : Queue(k)' = IF k = i THEN r.ret ELSE Queue(k)
      <3>1. \A k \in QueueVar \ {-1, -2} : k \in Cond
        BY DEF QueueVar, Cond
      <3> QED
        BY <1>2, <1>4, <1>5, <2>5, <3>1 DEF Queue
    <2>7. \A k \in QueueVar : Queue(k) # r.ret
      BY <2>3 DEF FreeLists
    <2>8. Queue(i) = NULL
      BY <1>8, <2>5 DEF Queue
    <2>9. FreeLists' = FreeLists \ {r.ret}
      BY <2>4, <2>5, <2>6, <2>8, NodesFinite DEF FreeLists
    <2>10. pool'.initialized = pool.initialized /\ pool'.count = pool.count
           /\ pool'.item = pool.item
      BY <1>2, <2>3 DEF SameItems
    <2>11. ListsExact'
      <3>1. \A j, k \in QueueVar : Queue(j)' = Queue(k)' => j = k \/ Queue(j)' = NULL
        BY <1>3, <2>6, <2>7 DEF ListsExact
      <3>2. pool'.initialized = 1 /\ \A l \in FreeLists' : pool'.count[l] = 0
        BY <1>3, <2>9, <2>10 DEF ListsExact
      <3>3. Chained(FreeLists', pool'.free_list_head, pool'.llink)
        BY <1>2, <2>3, <2>9
      <3> QED
        BY <3>1, <3>2, <3>3 DEF ListsExact
    <2>12. PoolExact(pool') /\ \A l : Contents(pool', l) = Contents(pool, l)
      BY <1>2, <1>3, <2>3, SameItemsSame
    <2>13. \A k \in Cond : Contents(pool', condition_queues'[k])
                             = Contents(pool, condition_queues[k])
      <3>1. Contents(pool, r.ret) = <<>> /\ Contents(pool, NULL) = <<>>
        BY <2>4, ContentsNone DEF ListPtr
      <3> QED
        BY <1>2, <1>5, <1>8, <2>12, <3>1
    <2> QED
      BY <1>6, <2>4, <2>10, <2>11, <2>12, <2>13 DEF Items
  <1> QED
    BY <1>7, <1>8

(* The reply to MonInit.                                                   *)
LEMMA InitReplyStep ==
    ASSUME ShallowInv, InitReply
    PROVE  ShallowInv' /\ Hoare!SetupDone
  <1> USE MonitorAssumption
  <1>1. /\ MonitorInv /\ TypeOK /\ MonitorInv' /\ init_pid # NoPid
        /\ init_i >= num_conditions /\ init_pid' = NoPid /\ Reply({init_pid}, {})
        /\ UNCHANGED <<pool, queueVars, num_conditions, lockVars, MonServer_pid, crashed>>
    BY InitReplyInv DEF InitReply, ShallowInv, MonitorInv
  <1>2. entry_queue # NULL /\ Initialised
    BY <1>1 DEF ShallowInv, NotInitialised
  <1>3. \A k : Queue(k)' = Queue(k)
    BY <1>1 DEF Queue, queueVars
  <1>4. ListsExact' /\ PoolExact(pool')
    BY <1>1, <1>2, <1>3 DEF Initialised, ListsExact, FreeLists
  <1>5. Initialised'
    <2>1. \A k \in Cond : k < num_conditions => k < init_i
      BY <1>1 DEF TypeOK, Cond
    <2> QED
      BY <1>1, <1>2, <1>4, <2>1 DEF Initialised, queueVars
  <1>6. \A d \in Client : stage'[d] = "held" => \E n \in Node : pool'.item[n] = d
    BY <1>1 DEF Reply, ShallowInv
  <1>7. ShallowInv'
    BY <1>1, <1>2, <1>5, <1>6 DEF ShallowInv, Reply, lockVars, queueVars
  <1>8. Hoare!Resume({init_pid}, {})
    BY <1>1 DEF Reply, Hoare!Resume, NoMsg, Hoare!NoMsg
  <1> QED
    BY <1>1, <1>7, <1>8 DEF Hoare!SetupDone, Hoare!queues, queueVars, lockVars

(* A call of a client.                                                     *)
LEMMA CallStep ==
    ASSUME ShallowInv, NEW c \in Client, NEW m \in MonMsg, Call(c, m) \/ MonInit(c, m),
           InitialisedFirst
    PROVE  ShallowInv' /\ (Hoare!Call(c, m) \/ UNCHANGED Hoare!vars)
  <1>1. /\ MonitorInv /\ MonitorInv' /\ stage[c] = "running"
        /\ UNCHANGED <<pool, queueVars, num_conditions, lockVars, initVars, crashed>>
    BY CallInv DEF Call, MonInit, MayCall, ShallowInv
  <1>2. ~sendFailed'
    BY DEF InitialisedFirst
  <1>3. \/ Send(c, m)
        \/ UNCHANGED clientVars
    BY <1>2 DEF Call, MonInit, SendToNobody
  <1>4. \A k : Queue(k)' = Queue(k)
    BY <1>1 DEF Queue, queueVars
  <1>5. Initialised => Initialised'
    <2>1. ListsExact => ListsExact'
      BY <1>1, <1>4 DEF ListsExact, FreeLists
    <2> QED
      BY <1>1, <2>1 DEF Initialised, queueVars, initVars
  <1>6. entry_queue = NULL /\ NotInitialised => NotInitialised'
    BY <1>1, <1>4 DEF NotInitialised, InitialisedFirst, initVars
  <1>7. \A d \in Client : stage'[d] = "held" => stage[d] = "held"
    BY <1>1, <1>3 DEF Send, clientVars, MonitorInv, TypeOK
  <1>8. ShallowInv'
    BY <1>1, <1>2, <1>5, <1>6, <1>7 DEF ShallowInv, queueVars, lockVars
  <1>9. CASE Send(c, m)
    <2>1. Hoare!Call(c, m)
      BY <1>1, <1>9 DEF Hoare!Call, Send, Hoare!queues, queueVars, lockVars, initVars
    <2> QED
      BY <1>8, <2>1
  <1>10. CASE UNCHANGED clientVars
    <2>1. UNCHANGED Hoare!vars
      BY <1>1, <1>10 DEF Hoare!vars, queueVars, lockVars, initVars, clientVars
    <2> QED
      BY <1>8, <2>1
  <1> QED
    BY <1>3, <1>9, <1>10

(* A step in shallow use.                                                  *)
LEMMA ShallowStep ==
    ASSUME ShallowInv, Next, InitialisedFirst, ShallowQueues'
    PROVE  ShallowInv' /\ (Hoare!Next \/ UNCHANGED Hoare!vars)
  <1>1. ASSUME NEW c \in Client, ClientStep(c)
        PROVE  ShallowInv' /\ (Hoare!Next \/ UNCHANGED Hoare!vars)
    BY <1>1, CallStep DEF ClientStep, Hoare!Next
  <1>2. ASSUME NEW c \in Client, Serve(c)
        PROVE  ShallowInv' /\ Hoare!Next
    <2>1. CASE ServeEnter(c)
      BY <2>1, EnterStep DEF Hoare!Next
    <2>2. CASE ServeLeave(c)
      BY <2>2, LeaveStep DEF Hoare!Next
    <2>3. CASE ServeWait(c)
      BY <2>3, WaitStep DEF Hoare!Next
    <2>4. CASE ServeSignal(c)
      BY <2>4, SignalStep DEF Hoare!Next
    <2>5. CASE ServeInit(c)
      BY <2>5, FirstInitStep, LaterInitStep DEF Hoare!Next
    <2> QED
      BY <1>2, <2>1, <2>2, <2>3, <2>4, <2>5 DEF Serve
  <1>3. CASE InitCondition
    BY <1>3, InitConditionStep
  <1>4. CASE InitReply
    BY <1>4, InitReplyStep DEF Hoare!Next
  <1> QED
    BY <1>1, <1>2, <1>3, <1>4 DEF Next, ServerStep

LEMMA InitShallowInv == Init => ShallowInv
  <1> SUFFICES ASSUME Init PROVE ShallowInv
    OBVIOUS
  <1>1. MonitorInv
    BY InitMonitorInv
  <1>2. \A k \in QueueVar : Queue(k) = NULL
    BY MonitorAssumption DEF Init, Queue, QueueVar, Cond
  <1>3. NotInitialised
    BY <1>2 DEF NotInitialised, Init, NoMsg
  <1> QED
    BY <1>1, <1>3 DEF ShallowInv, Init

LEMMA UseStep ==
    ASSUME ShallowInvIfShallow, [UseNext]_<<vars, use>>
    PROVE  /\ ShallowInvIfShallow'
           /\ [use = "shallow" => Hoare!Next]_(Hoare!vars)
  <1>1. CASE UNCHANGED <<vars, use>>
    <2>1. UNCHANGED vars /\ use' = use
      BY <1>1
    <2>2. UNCHANGED Hoare!vars
      BY <2>1 DEF vars, queueVars, lockVars, initVars, clientVars, Hoare!vars
    <2>3. \A k : Queue(k)' = Queue(k)
      BY <2>1 DEF Queue, vars, queueVars
    <2>4. MonitorInv => MonitorInv'
      BY <2>1, NextMonitorInv
    <2>5. NotInitialised => NotInitialised'
      BY <2>1, <2>3 DEF NotInitialised, vars, initVars, clientVars
    <2>6. ListsExact => ListsExact'
      BY <2>1, <2>3 DEF ListsExact, FreeLists, vars
    <2>7. Initialised => Initialised'
      BY <2>1, <2>6 DEF Initialised, vars, queueVars, initVars
    <2>8. ShallowInv => ShallowInv'
      BY <2>1, <2>4, <2>5, <2>7 DEF ShallowInv, vars, queueVars, lockVars, clientVars
    <2> QED
      BY <2>1, <2>2, <2>8 DEF ShallowInvIfShallow
  <1>2. CASE UseNext
    BY <1>2, ShallowStep DEF UseNext, ShallowInvIfShallow
  <1> QED
    BY <1>1, <1>2

(***************************************************************************)
(* In shallow use, whatever the number of clients, the calls and their     *)
(* order, the pools of the list library stay exact: every list that counts *)
(* an item has the node of that item as its head, and every other node and *)
(* list is on its free chain.                                              *)
(***************************************************************************)
THEOREM ShallowInvariant == UseSpec => []ShallowInvIfShallow
  <1>1. UseInit => ShallowInvIfShallow
    BY InitShallowInv DEF UseInit, ShallowInvIfShallow
  <1>2. ShallowInvIfShallow /\ [UseNext]_<<vars, use>> => ShallowInvIfShallow'
    BY UseStep
  <1> QED
    BY <1>1, <1>2, PTL DEF UseSpec

(***************************************************************************)
(* MonServer never dereferences a NULL item in shallow use.                *)
(***************************************************************************)
THEOREM NeverCrashes == UseSpec => []NoCrashIfShallow
  <1>1. ShallowInvIfShallow => NoCrashIfShallow
    BY DEF ShallowInvIfShallow, ShallowInv, NoCrashIfShallow, NoCrash
  <1> QED
    BY <1>1, ShallowInvariant, PTL

(***************************************************************************)
(* Nobody that MonServer keeps blocked is lost in shallow use: it is in a  *)
(* list from which a later MonLeave, MonWait or MonSignal can resume it.   *)
(***************************************************************************)
THEOREM NobodyForgotten == UseSpec => []HeldIsQueuedIfShallow
  <1>1. ShallowInvIfShallow => HeldIsQueuedIfShallow
    BY DEF ShallowInvIfShallow, ShallowInv, HeldIsQueuedIfShallow, HeldIsQueued
  <1> QED
    BY <1>1, ShallowInvariant, PTL

(***************************************************************************)
(* Monitor.c on the list library implements the Hoare monitor in shallow   *)
(* use: every step of a client or of MonServer is a step of HoareMonitor   *)
(* or changes nothing of it.                                               *)
(***************************************************************************)
THEOREM RefinesHoareMonitor == UseSpec => ImplementsHoareMonitor
  <1>1. UseInit => Hoare!Init
    <2> SUFFICES ASSUME Init PROVE Hoare!Init
      BY DEF UseInit
    <2>1. \A p : Contents(p, NULL) = <<>>
      BY ContentsNone DEF ListPtr
    <2> QED
      BY <2>1 DEF Init, Hoare!Init, NoMsg, Hoare!NoMsg
  <1>2. ShallowInvIfShallow /\ [UseNext]_<<vars, use>>
          => [use = "shallow" => Hoare!Next]_(Hoare!vars)
    BY UseStep
  <1> QED
    BY <1>1, <1>2, ShallowInvariant, PTL DEF UseSpec, ImplementsHoareMonitor

-----------------------------------------------------------------------------
(***************************************************************************)
(* Readers and writers: the inductive invariant.                           *)
(*                                                                         *)
(* The monitor has room for the program's conditions (Monitor.c has 8),    *)
(* and MonMsg has the arguments that the program passes.                   *)
(***************************************************************************)
ProgramArguments ==
    /\ numConds <= MAX_CONDS
    /\ numConds \in InitArgs
    /\ {OKtoRead, OKtoWrite} \subseteq CondArgs

(* The statements of a reader and of a writer, and those of them that      *)
(* follow a monitor call made to be or to stay in the monitor.             *)
ReaderPc == {"idle", "StartRead.entered", "StartRead.woken", "StartRead.signalled",
             "reading", "StopRead.entered", "StopRead.signalled"}
WriterPc == {"idle", "StartWrite.entered", "StartWrite.woken", "writing",
             "StopWrite.entered", "StopWrite.signalled"}

(* The call that a blocked process is in.                                  *)
CallOf(at) ==
    IF at \in {"StartRead.entered", "StopRead.entered",
              "StartWrite.entered", "StopWrite.entered"} THEN Enter
    ELSE IF at = "StartRead.woken" THEN Wait(OKtoRead)
    ELSE IF at = "StartWrite.woken" THEN Wait(OKtoWrite)
    ELSE IF at \in {"StartRead.signalled", "StopWrite.signalled"} THEN Signal(OKtoRead)
    ELSE IF at = "StopRead.signalled" THEN Signal(OKtoWrite)
    ELSE Leave

MonPc == {"StartRead.entered", "StartRead.woken", "StartRead.signalled",
          "StopRead.entered", "StopRead.signalled",
          "StartWrite.entered", "StartWrite.woken",
          "StopWrite.entered", "StopWrite.signalled"}

User == Reader \cup Writer

(* Process c is in the monitor, or will be once the server has its call.   *)
Within(c) ==
    \/ stage[c] = "running" /\ pc[c] \in MonPc
    \/ stage[c] = "sent" /\ CallOf(pc[c]).type # "MonEnter"

(* mainp sets the monitor up before there are others; a blocked process's  *)
(* message is that of the call it is in.                                   *)
SetUp ==
    /\ pc = [c \in Client |-> pc[c]]
    /\ stage[mainp] # "held"
    /\ pc[mainp] \in {"Initialize", "Create", "done"}
    /\ stage[mainp] # "running" => pc[mainp] = "Create" /\ msg[mainp] = [type |-> "MonInit", arg |-> numConds]
    /\ pc[mainp] # "done" => \A c \in User : pc[c] = "uncreated" /\ stage[c] = "running"
    /\ pc[mainp] = "done" => /\ \A c \in Reader : pc[c] \in ReaderPc
                             /\ \A c \in Writer : pc[c] \in WriterPc
    /\ ~MonServer_pid => entry_queue = NULL /\ \A c \in Client : stage[c] = "running" /\ pc[c] \notin MonPc
    /\ MonServer_pid /\ entry_queue = NULL => stage[mainp] = "sent"
    /\ entry_queue # NULL => num_conditions = numConds
    /\ \A c \in User : stage[c] # "running" => msg[c] = CallOf(pc[c])

(* The wait queues hold processes blocked in MonEnter, MonSignal, MonWait. *)
Entry == Contents(pool, entry_queue)
Urgent == Contents(pool, urgent_queue)
Waiting(k) == Contents(pool, condition_queues[k])
In(s) == {s[i] : i \in DOMAIN s}

QueuesOk ==
    /\ \A c \in In(Entry) : c \in User /\ stage[c] = "held" /\ msg[c].type = "MonEnter"
    /\ \A c \in In(Urgent) : c \in User /\ stage[c] = "held" /\ msg[c].type = "MonSignal"
    /\ \A k \in Cond : \A c \in In(Waiting(k)) : c \in User /\ stage[c] = "held" /\ msg[c] = Wait(k)

(* The owner is the one process in the monitor.                            *)
OwnerOk ==
    /\ \A c \in User : Within(c) => current_owner = c
    /\ current_owner # NoPid => current_owner \in User /\ Within(current_owner)

(* Readers that numReaders counts, and writers that busyWriting counts.    *)
CountedPc == {"StartRead.signalled", "reading", "StopRead.entered"}
WritingPc == {"writing", "StopWrite.entered"}
Counted   == {c \in Reader : pc[c] \in CountedPc}
AtWriting == {c \in Writer : pc[c] \in WritingPc}

NumbersOk ==
    /\ numReaders = Cardinality(Counted)
    /\ busyWriting = IF AtWriting = {} THEN 0 ELSE 1
    /\ \A c, d \in AtWriting : c = d
    /\ AtWriting # {} => Counted = {}

(* A signal that is on its way, and a process that it resumed, are right.  *)
SignalsOk == \A c \in User :
    /\ stage[c] = "sent" /\ pc[c] \in {"StartRead.signalled", "StopWrite.signalled"} => AtWriting = {}
    /\ stage[c] = "sent" /\ pc[c] = "StopRead.signalled" => AtWriting = {} /\ Counted = {}
    /\ stage[c] = "running" /\ pc[c] = "StartRead.woken" => AtWriting = {}
    /\ stage[c] = "running" /\ pc[c] = "StartWrite.woken" => AtWriting = {} /\ Counted = {}

Core == ProgramArguments /\ SetUp /\ QueuesOk /\ OwnerOk /\ NumbersOk /\ SignalsOk

LEMMA Users ==
    /\ User \subseteq Client /\ mainp \in Client /\ mainp \notin User
    /\ Client = User \cup {mainp} /\ NoPid \notin User
  BY ReaderWriterAssumption, MonitorAssumption DEF User

LEMMA CallsOf ==
    /\ CallOf("idle") = Leave /\ CallOf("reading") = Leave /\ CallOf("writing") = Leave
    /\ CallOf("StartRead.entered") = Enter /\ CallOf("StopRead.entered") = Enter
    /\ CallOf("StartWrite.entered") = Enter /\ CallOf("StopWrite.entered") = Enter
    /\ CallOf("StartRead.woken") = Wait(OKtoRead)
    /\ CallOf("StartWrite.woken") = Wait(OKtoWrite)
    /\ CallOf("StartRead.signalled") = Signal(OKtoRead)
    /\ CallOf("StopWrite.signalled") = Signal(OKtoRead)
    /\ CallOf("StopRead.signalled") = Signal(OKtoWrite)
  BY DEF CallOf

LEMMA CallTypes ==
    ASSUME NEW at \in ReaderPc \cup WriterPc
    PROVE  LET m == CallOf(at)
           IN  /\ m.type # "MonInit" /\ m.type # "none"
               /\ m.type = "MonEnter" => at \in {"StartRead.entered", "StopRead.entered",
                                                 "StartWrite.entered", "StopWrite.entered"}
               /\ m.type = "MonLeave" => at \in {"reading", "writing", "idle"}
               /\ m.type = "MonWait" <=> at \in {"StartRead.woken", "StartWrite.woken"}
               /\ m.type = "MonSignal" <=> at \in {"StartRead.signalled", "StopWrite.signalled",
                                                   "StopRead.signalled"}
               /\ m = Wait(OKtoRead) <=> at = "StartRead.woken"
               /\ m = Wait(OKtoWrite) <=> at = "StartWrite.woken"
               /\ m = Signal(OKtoRead) <=> at \in {"StartRead.signalled", "StopWrite.signalled"}
               /\ m = Signal(OKtoWrite) <=> at = "StopRead.signalled"
  BY CallsOf DEF ReaderPc, WriterPc, Enter, Leave, Wait, Signal, OKtoRead, OKtoWrite

LEMMA MessagesOfProgram ==
    ProgramArguments =>
    /\ \A at \in ReaderPc \cup WriterPc : CallOf(at) \in MonMsg
    /\ [type |-> "MonInit", arg |-> numConds] \in MonMsg
  <1> SUFFICES ASSUME ProgramArguments
               PROVE  /\ \A at \in ReaderPc \cup WriterPc : CallOf(at) \in MonMsg
                      /\ [type |-> "MonInit", arg |-> numConds] \in MonMsg
    OBVIOUS
  <1>1. Enter \in MonMsg /\ Leave \in MonMsg
    BY DEF MonMsg, Enter, Leave
  <1>2. Wait(OKtoRead) \in MonMsg /\ Wait(OKtoWrite) \in MonMsg
        /\ Signal(OKtoRead) \in MonMsg /\ Signal(OKtoWrite) \in MonMsg
    BY DEF ProgramArguments, MonMsg, Wait, Signal
  <1>3. [type |-> "MonInit", arg |-> numConds] \in MonMsg
    BY DEF ProgramArguments, MonMsg
  <1> QED
    BY <1>1, <1>2, <1>3, CallsOf DEF ReaderPc, WriterPc

(* A process of the program makes a call that finds the server.            *)
Called(c, from, to) ==
    /\ MonServer_pid /\ entry_queue # NULL /\ pc[mainp] = "done"
    /\ stage[c] = "running" /\ pc[c] = from
    /\ stage' = [stage EXCEPT ![c] = "sent"]
    /\ msg' = [msg EXCEPT ![c] = CallOf(to)]
    /\ pc' = [pc EXCEPT ![c] = to]
    /\ UNCHANGED <<pool, queueVars, current_owner, num_conditions, MonServer_pid>>

LEMMA CalledIs ==
    ASSUME ShallowInv, Core, ~sendFailed', NEW c \in User, NEW from, from # "uncreated",
           NEW to \in ReaderPc \cup WriterPc, Step(c, from, CallOf(to), to)
    PROVE  Called(c, from, to) /\ ShallowInv'
  <1>1. /\ pc[c] = from /\ stage[c] = "running"
        /\ Call(c, CallOf(to)) /\ pc' = [pc EXCEPT ![c] = to]
    BY DEF Step, Call, MayCall
  <1>2. MonServer_pid /\ Send(c, CallOf(to))
    BY <1>1 DEF Call, SendToNobody
  <1>3. pc[mainp] = "done"
    BY <1>1 DEF Core, SetUp
  <1>4. entry_queue # NULL
    BY <1>2, <1>3 DEF Core, SetUp
  <1>5. InitialisedFirst
    BY <1>1, <1>4 DEF InitialisedFirst, Call, queueVars
  <1>6. c \in Client /\ CallOf(to) \in MonMsg
    BY Users, MessagesOfProgram DEF Core
  <1>7. ShallowInv'
    BY <1>1, <1>5, <1>6, CallStep
  <1> QED
    BY <1>1, <1>2, <1>3, <1>4, <1>7 DEF Called, Send, Call, lockVars

(* What the monitor's own invariants say after a call: only who is within  *)
(* the monitor makes a call other than MonEnter.                           *)
LEMMA CalledFits ==
    ASSUME ShallowInv, Core, NEW c \in User, NEW from, NEW to, Called(c, from, to),
           c \in Reader => to \in ReaderPc, c \in Writer => to \in WriterPc,
           from \in MonPc <=> CallOf(to).type # "MonEnter"
    PROVE  SetUp' /\ QueuesOk' /\ OwnerOk'
  <1>1. c \in Client /\ c # mainp /\ to \in ReaderPc \cup WriterPc
    BY Users DEF User
  <1>2. TypeOK
    BY DEF ShallowInv, MonitorInv
  <1>3. /\ stage'[c] = "sent" /\ pc'[c] = to /\ msg'[c] = CallOf(to)
        /\ \A d \in Client \ {c} : stage'[d] = stage[d] /\ pc'[d] = pc[d] /\ msg'[d] = msg[d]
    BY <1>1, <1>2 DEF Called, TypeOK, Core, SetUp
  <1>4. SetUp'
    <2>1. pc' = [d \in Client |-> pc'[d]]
      BY <1>1 DEF Called, Core, SetUp
    <2> QED
      BY <1>1, <1>3, <2>1, Users, ReaderWriterAssumption DEF Called, Core, SetUp, queueVars, User
  <1>5. QueuesOk'
    <2>1. Entry' = Entry /\ Urgent' = Urgent /\ \A k : Waiting(k)' = Waiting(k)
      BY DEF Called, queueVars, Entry, Urgent, Waiting
    <2>2. \A d \in User : stage[d] = "held" => stage'[d] = "held" /\ msg'[d] = msg[d]
      BY <1>3, Users DEF Called
    <2> QED
      BY <2>1, <2>2 DEF Core, QueuesOk
  <1>6. Within(c) <=> Within(c)'
    BY <1>3 DEF Called, Within
  <1>7. \A d \in User \ {c} : Within(d) <=> Within(d)'
    BY <1>3, Users DEF Within
  <1>8. OwnerOk'
    BY <1>6, <1>7 DEF Called, Core, OwnerOk
  <1> QED
    BY <1>4, <1>5, <1>8

LEMMA CountedFinite ==
    /\ IsFiniteSet(Counted) /\ Cardinality(Counted) \in Nat
    /\ Cardinality(Counted) = 0 <=> Counted = {}
  <1>1. IsFiniteSet(Counted)
    BY ReaderWriterAssumption, FS_Subset DEF Counted
  <1> QED
    BY <1>1, FS_CardinalityType, FS_EmptySet

(* What a call of c does to those counted and writing.                     *)
LEMMA CalledCounts ==
    ASSUME Core, NEW c \in User, NEW from, NEW to, Called(c, from, to)
    PROVE  /\ Counted' = IF c \in Reader /\ to \in CountedPc THEN Counted \cup {c} ELSE Counted \ {c}
           /\ AtWriting' = IF c \in Writer /\ to \in WritingPc THEN AtWriting \cup {c} ELSE AtWriting \ {c}
           /\ c \in Counted <=> c \in Reader /\ from \in CountedPc
           /\ c \in AtWriting <=> c \in Writer /\ from \in WritingPc
  <1>1. /\ pc'[c] = to /\ pc[c] = from
        /\ \A d \in Client \ {c} : pc'[d] = pc[d]
    BY Users DEF Called, Core, SetUp
  <1> QED
    BY <1>1, Users DEF Counted, AtWriting, User

(* A call that leaves the numbers alone.                                   *)
LEMMA NumbersKept ==
    ASSUME Core, NEW c \in User, NEW from, NEW to, Called(c, from, to),
           UNCHANGED <<numReaders, busyWriting>>,
           c \in Reader => (from \in CountedPc <=> to \in CountedPc),
           c \in Writer => (from \in WritingPc <=> to \in WritingPc)
    PROVE  NumbersOk' /\ Counted' = Counted /\ AtWriting' = AtWriting
  <1>1. Counted' = Counted /\ AtWriting' = AtWriting
    BY CalledCounts
  <1> QED
    BY <1>1 DEF Core, NumbersOk

(* A call made outside the monitor, and one made within it.                *)
LEMMA EnterSignals ==
    ASSUME ShallowInv, Core, NEW c \in User, NEW from, NEW to, Called(c, from, to),
           CallOf(to) = Enter, to \in ReaderPc \cup WriterPc,
           Counted' = Counted, AtWriting' = AtWriting
    PROVE  SignalsOk'
  <1>1. /\ stage'[c] = "sent" /\ pc'[c] = to
        /\ \A d \in Client \ {c} : stage'[d] = stage[d] /\ pc'[d] = pc[d]
    BY Users DEF Called, Core, SetUp, ShallowInv, MonitorInv, TypeOK
  <1>2. to \notin {"StartRead.signalled", "StopWrite.signalled", "StopRead.signalled"}
    BY CallTypes DEF Enter
  <1> QED
    BY <1>1, <1>2, Users DEF Core, SignalsOk

LEMMA WithinSignals ==
    ASSUME ShallowInv, Core, NEW c \in User, NEW from \in MonPc, NEW to, Called(c, from, to),
           to \in {"StartRead.signalled", "StopWrite.signalled"} => AtWriting' = {},
           to = "StopRead.signalled" => AtWriting' = {} /\ Counted' = {}
    PROVE  SignalsOk'
  <1>1. /\ stage'[c] = "sent" /\ pc'[c] = to
        /\ \A d \in Client \ {c} : stage'[d] = stage[d] /\ pc'[d] = pc[d]
    BY Users DEF Called, Core, SetUp, ShallowInv, MonitorInv, TypeOK
  <1>2. \A d \in User \ {c} : ~Within(d)
    BY DEF Core, OwnerOk, Within, Called
  <1>3. ASSUME NEW d \in User \ {c}
        PROVE  /\ ~(stage'[d] = "sent" /\ pc'[d] \in {"StartRead.signalled", "StopWrite.signalled",
                                                      "StopRead.signalled"})
               /\ ~(stage'[d] = "running" /\ pc'[d] \in {"StartRead.woken", "StartWrite.woken"})
    BY <1>1, <1>2, Users, CallsOf DEF Within, MonPc, Signal, Enter
  <1> QED
    BY <1>1, <1>3, Users DEF SignalsOk

(* The calls that change no number.                                        *)
LEMMA PlainCall ==
    ASSUME ShallowInv, Core, ~sendFailed', NEW c \in User, NEW from, NEW to,
           from # "uncreated", Step(c, from, CallOf(to), to),
           UNCHANGED <<numReaders, busyWriting>>,
           c \in Reader => to \in ReaderPc /\ (from \in CountedPc <=> to \in CountedPc),
           c \in Writer => to \in WriterPc /\ (from \in WritingPc <=> to \in WritingPc),
           \/ from \notin MonPc /\ CallOf(to) = Enter
           \/ /\ from \in MonPc /\ CallOf(to).type # "MonEnter"
              /\ to \notin {"StartRead.signalled", "StopRead.signalled", "StopWrite.signalled"}
    PROVE  ShallowInv' /\ Core'
  <1>1. to \in ReaderPc \cup WriterPc
    BY DEF User
  <1>2. Called(c, from, to) /\ ShallowInv'
    BY <1>1, CalledIs
  <1>3. Enter.type = "MonEnter"
    BY DEF Enter
  <1>4. SetUp' /\ QueuesOk' /\ OwnerOk'
    BY <1>2, <1>3, CalledFits
  <1>5. NumbersOk' /\ Counted' = Counted /\ AtWriting' = AtWriting
    BY <1>2, NumbersKept
  <1>6. SignalsOk'
    BY <1>1, <1>2, <1>5, EnterSignals, WithinSignals
  <1> QED
    BY <1>2, <1>4, <1>5, <1>6 DEF Core

(* numReaders++; MonSignal(OKtoRead): nobody is writing.                   *)
LEMMA CountReaderCore ==
    ASSUME ShallowInv, Core, ~sendFailed', NEW c \in Reader,
           NEW from \in {"StartRead.entered", "StartRead.woken"}, CountReader(c, from),
           AtWriting = {}
    PROVE  ShallowInv' /\ Core'
  <1> DEFINE to == "StartRead.signalled"
  <1>1. /\ c \in User /\ c \notin Writer /\ to \in ReaderPc /\ from \in MonPc
        /\ from \notin CountedPc /\ to \in CountedPc
        /\ CallOf(to) = Signal(OKtoRead)
    BY ReaderWriterAssumption, CallsOf DEF User, ReaderPc, MonPc, CountedPc
  <1>2. Called(c, from, to) /\ ShallowInv'
    BY <1>1, CalledIs DEF CountReader
  <1>3. SetUp' /\ QueuesOk' /\ OwnerOk'
    BY <1>1, <1>2, CalledFits DEF Signal
  <1>4. Counted' = Counted \cup {c} /\ c \notin Counted /\ AtWriting' = {}
    BY <1>1, <1>2, CalledCounts
  <1>5. Cardinality(Counted \cup {c}) = Cardinality(Counted) + 1
    BY <1>4, CountedFinite, FS_AddElement
  <1>6. NumbersOk'
    BY <1>4, <1>5 DEF CountReader, Core, NumbersOk
  <1>7. SignalsOk'
    BY <1>1, <1>2, <1>4, WithinSignals
  <1> QED
    BY <1>2, <1>3, <1>6, <1>7 DEF Core

(* A reader's calls.                                                       *)
LEMMA ReaderCalls ==
    ASSUME ShallowInv, Core, ~sendFailed', NEW c \in Reader, reader(c)
    PROVE  ShallowInv' /\ Core'
  <1>1. c \in User /\ c \notin Writer
    BY ReaderWriterAssumption DEF User
  <1>2. CASE Step(c, "idle", Enter, "StartRead.entered") /\ UNCHANGED <<numReaders, busyWriting>>
    BY <1>1, <1>2, PlainCall, CallsOf DEF ReaderPc, CountedPc, MonPc
  <1>3. CASE /\ Step(c, "StartRead.entered", Wait(OKtoRead), "StartRead.woken")
             /\ UNCHANGED <<numReaders, busyWriting>>
    BY <1>1, <1>3, PlainCall, CallsOf DEF ReaderPc, CountedPc, MonPc, Wait
  <1>4. CASE busyWriting = 0 /\ CountReader(c, "StartRead.entered")
    <2>1. AtWriting = {}
      BY <1>4 DEF Core, NumbersOk
    <2> QED
      BY <1>4, <2>1, CountReaderCore
  <1>5. CASE CountReader(c, "StartRead.woken")
    <2>1. AtWriting = {}
      BY <1>1, <1>5 DEF Core, SignalsOk, CountReader, Step, Call, MayCall
    <2> QED
      BY <1>5, <2>1, CountReaderCore
  <1>6. CASE Step(c, "StartRead.signalled", Leave, "reading") /\ UNCHANGED <<numReaders, busyWriting>>
    BY <1>1, <1>6, PlainCall, CallsOf DEF ReaderPc, CountedPc, MonPc, Leave
  <1>7. CASE Step(c, "reading", Enter, "StopRead.entered") /\ UNCHANGED <<numReaders, busyWriting>>
    BY <1>1, <1>7, PlainCall, CallsOf DEF ReaderPc, CountedPc, MonPc
  <1>8. CASE /\ numReaders' = numReaders - 1
             /\ \/ numReaders' = 0 /\ Step(c, "StopRead.entered", Signal(OKtoWrite), "StopRead.signalled")
                \/ numReaders' # 0 /\ Step(c, "StopRead.entered", Leave, "idle")
             /\ UNCHANGED busyWriting
    <2> DEFINE to == IF numReaders' = 0 THEN "StopRead.signalled" ELSE "idle"
               from == "StopRead.entered"
    <2>1. Step(c, from, CallOf(to), to)
      BY <1>8, CallsOf
    <2>2. /\ to \in ReaderPc /\ from \in MonPc /\ from \in CountedPc /\ to \notin CountedPc
          /\ CallOf(to).type # "MonEnter" /\ to \notin {"StartRead.signalled", "StopWrite.signalled"}
      BY CallsOf DEF ReaderPc, MonPc, CountedPc, Signal, Leave
    <2>3. Called(c, from, to) /\ ShallowInv'
      BY <1>1, <2>1, <2>2, CalledIs
    <2>4. SetUp' /\ QueuesOk' /\ OwnerOk'
      BY <1>1, <2>2, <2>3, CalledFits
    <2>5. Counted' = Counted \ {c} /\ c \in Counted /\ AtWriting' = AtWriting /\ AtWriting = {}
      BY <1>1, <2>2, <2>3, CalledCounts DEF Core, NumbersOk, AtWriting
    <2>6. Cardinality(Counted') = Cardinality(Counted) - 1
      BY <2>5, CountedFinite, FS_RemoveElement
    <2>7. NumbersOk'
      BY <1>8, <2>5, <2>6 DEF Core, NumbersOk
    <2>8. IsFiniteSet(Counted')
      BY <2>5, CountedFinite, FS_Subset
    <2>9. numReaders' = 0 => Counted' = {}
      BY <2>7, <2>8, FS_EmptySet DEF NumbersOk
    <2>10. SignalsOk'
      <3>1. to = "StopRead.signalled" => AtWriting' = {} /\ Counted' = {}
        BY <2>5, <2>9
      <3> HIDE DEF to
      <3> QED
        BY <1>1, <2>2, <2>3, <3>1, WithinSignals
    <2> QED
      BY <2>3, <2>4, <2>7, <2>10 DEF Core
  <1>9. CASE Step(c, "StopRead.signalled", Leave, "idle") /\ UNCHANGED <<numReaders, busyWriting>>
    BY <1>1, <1>9, PlainCall, CallsOf DEF ReaderPc, CountedPc, MonPc, Leave
  <1> QED
    BY <1>2, <1>3, <1>4, <1>5, <1>6, <1>7, <1>8, <1>9 DEF reader, StartRead, StopRead

(* busyWriting = 1; MonLeave(): nobody reads and nobody else writes.       *)
LEMMA BeginWritingCore ==
    ASSUME ShallowInv, Core, ~sendFailed', NEW c \in Writer,
           NEW from \in {"StartWrite.entered", "StartWrite.woken"}, BeginWriting(c, from),
           AtWriting = {}, Counted = {}
    PROVE  ShallowInv' /\ Core'
  <1> DEFINE to == "writing"
  <1>1. /\ c \in User /\ c \notin Reader /\ to \in WriterPc /\ from \in MonPc
        /\ to \in WritingPc /\ CallOf(to) = Leave
        /\ to \notin {"StartRead.signalled", "StopRead.signalled", "StopWrite.signalled"}
    BY ReaderWriterAssumption, CallsOf DEF User, WriterPc, MonPc, WritingPc
  <1>2. Called(c, from, to) /\ ShallowInv'
    BY <1>1, CalledIs DEF BeginWriting
  <1>3. SetUp' /\ QueuesOk' /\ OwnerOk'
    BY <1>1, <1>2, CalledFits DEF Leave
  <1>4. AtWriting' = {c} /\ Counted' = {}
    BY <1>1, <1>2, CalledCounts
  <1>5. NumbersOk'
    BY <1>4 DEF BeginWriting, Core, NumbersOk
  <1>6. SignalsOk'
    BY <1>1, <1>2, WithinSignals
  <1> QED
    BY <1>2, <1>3, <1>5, <1>6 DEF Core

(* A writer's calls.                                                       *)
LEMMA WriterCalls ==
    ASSUME ShallowInv, Core, ~sendFailed', NEW c \in Writer, writer(c)
    PROVE  ShallowInv' /\ Core'
  <1>1. c \in User /\ c \notin Reader
    BY ReaderWriterAssumption DEF User
  <1>2. CASE Step(c, "idle", Enter, "StartWrite.entered") /\ UNCHANGED <<numReaders, busyWriting>>
    BY <1>1, <1>2, PlainCall, CallsOf DEF WriterPc, WritingPc, MonPc
  <1>3. CASE /\ Step(c, "StartWrite.entered", Wait(OKtoWrite), "StartWrite.woken")
             /\ UNCHANGED <<numReaders, busyWriting>>
    BY <1>1, <1>3, PlainCall, CallsOf DEF WriterPc, WritingPc, MonPc, Wait
  <1>4. CASE ~Busy /\ BeginWriting(c, "StartWrite.entered")
    <2>1. AtWriting = {} /\ Counted = {}
      BY <1>4, CountedFinite DEF Core, NumbersOk, Busy
    <2> QED
      BY <1>4, <2>1, BeginWritingCore
  <1>5. CASE BeginWriting(c, "StartWrite.woken")
    <2>1. AtWriting = {} /\ Counted = {}
      BY <1>1, <1>5 DEF Core, SignalsOk, BeginWriting, Step, Call, MayCall
    <2> QED
      BY <1>5, <2>1, BeginWritingCore
  <1>6. CASE Step(c, "writing", Enter, "StopWrite.entered") /\ UNCHANGED <<numReaders, busyWriting>>
    BY <1>1, <1>6, PlainCall, CallsOf DEF WriterPc, WritingPc, MonPc
  <1>7. CASE /\ busyWriting' = 0
             /\ Step(c, "StopWrite.entered", Signal(OKtoRead), "StopWrite.signalled")
             /\ UNCHANGED numReaders
    <2> DEFINE to == "StopWrite.signalled"
               from == "StopWrite.entered"
    <2>1. /\ to \in WriterPc /\ from \in MonPc /\ from \in WritingPc /\ to \notin WritingPc
          /\ CallOf(to) = Signal(OKtoRead)
      BY CallsOf DEF WriterPc, MonPc, WritingPc
    <2>2. Called(c, from, to) /\ ShallowInv'
      BY <1>1, <1>7, <2>1, CalledIs
    <2>3. SetUp' /\ QueuesOk' /\ OwnerOk'
      BY <1>1, <2>1, <2>2, CalledFits DEF Signal
    <2>4. AtWriting' = {} /\ Counted' = Counted
      BY <1>1, <2>1, <2>2, CalledCounts DEF Core, NumbersOk, Counted
    <2>5. NumbersOk'
      BY <1>7, <2>4 DEF Core, NumbersOk
    <2>6. SignalsOk'
      BY <1>1, <2>1, <2>2, <2>4, WithinSignals
    <2> QED
      BY <2>2, <2>3, <2>5, <2>6 DEF Core
  <1>8. CASE Step(c, "StopWrite.signalled", Leave, "idle") /\ UNCHANGED <<numReaders, busyWriting>>
    BY <1>1, <1>8, PlainCall, CallsOf DEF WriterPc, WritingPc, MonPc, Leave
  <1> QED
    BY <1>2, <1>3, <1>4, <1>5, <1>6, <1>7, <1>8 DEF writer, StartWrite, StopWrite

-----------------------------------------------------------------------------
(* The wait queues hold one process at most.                               *)
Short(s) == s = <<>> \/ \E x : s = <<x>>

LEMMA InShort ==
    ASSUME NEW s, Short(s), NEW c
    PROVE  /\ s # <<>> => Head(s) \in In(s) /\ Tail(s) = <<>> /\ In(Tail(s)) = {}
           /\ \A d \in In(Append(s, c)) : d \in In(s) \/ d = c
  <1>1. CASE s = <<>>
    <2>1. Append(s, c) = <<c>>
      BY <1>1
    <2> QED
      BY <1>1, <2>1 DEF In
  <1>2. ASSUME NEW x, s = <<x>> PROVE s # <<>> => Head(s) \in In(s) /\ Tail(s) = <<>> /\ In(Tail(s)) = {}
    BY <1>2 DEF In
  <1>3. ASSUME NEW x, s = <<x>> PROVE \A d \in In(Append(s, c)) : d \in In(s) \/ d = c
    <2>1. <<x>> \in Seq({x, c}) /\ Len(s) = 1 /\ s[1] = x /\ s \in Seq({x, c})
      BY <1>3
    <2>2. /\ Append(s, c) \in Seq({x, c}) /\ Len(Append(s, c)) = 2
          /\ Append(s, c)[1] = x /\ Append(s, c)[2] = c
      <3>1. ASSUME NEW S, NEW t \in Seq(S), NEW e \in S, Len(t) = 1
            PROVE  /\ Append(t, e) \in Seq(S) /\ Len(Append(t, e)) = 2
                   /\ Append(t, e)[1] = t[1] /\ Append(t, e)[2] = e
        <4>1. /\ Append(t, e) \in Seq(S) /\ Len(Append(t, e)) = Len(t) + 1
              /\ \A i \in 1 .. Len(t) : Append(t, e)[i] = t[i]
              /\ Append(t, e)[Len(t) + 1] = e
          BY AppendProperties
        <4> QED
          BY <3>1, <4>1
      <3> QED
        BY <2>1, <3>1
    <2> QED
      BY <1>3, <2>2 DEF In
  <1> QED
    BY <1>1, <1>2, <1>3 DEF Short

LEMMA QueuesShort ==
    ASSUME ShallowInv, entry_queue # NULL
    PROVE  Short(Entry) /\ Short(Urgent) /\ \A k \in Cond : Short(Waiting(k))
  <1>1. PoolOK(pool) /\ PoolExact(pool) /\ TypeOK
    BY DEF ShallowInv, MonitorInv, Initialised
  <1>2. ASSUME NEW l \in ListPtr PROVE Short(Contents(pool, l))
    <2>1. CASE l = NULL \/ pool.count[l] = 0
      BY <2>1, ContentsNone DEF Short
    <2>2. CASE l # NULL /\ pool.count[l] # 0
      <3>1. l \in ListId /\ pool.count[l] = 1
        BY <1>1, <2>2 DEF ListPtr, PoolExact
      <3> QED
        BY <1>1, <3>1, ContentsOne DEF Short
    <2> QED
      BY <2>1, <2>2
  <1> QED
    BY <1>1, <1>2 DEF TypeOK, Entry, Urgent, Waiting

(* Where the program is when its process is blocked.                       *)
LEMMA BlockedAt ==
    ASSUME Core, NEW c \in User, stage[c] # "running"
    PROVE  /\ pc[mainp] = "done" /\ MonServer_pid
           /\ c \in Reader => pc[c] \in ReaderPc
           /\ c \in Writer => pc[c] \in WriterPc
           /\ pc[c] \in ReaderPc \cup WriterPc
           /\ msg[c] = CallOf(pc[c])
  BY Users DEF Core, SetUp, User

LEMMA BlockedPc ==
    ASSUME Core, NEW c \in User, stage[c] # "running"
    PROVE  /\ msg[c].type \notin {"MonInit", "none"}
           /\ msg[c].type = "MonEnter" => pc[c] \in MonPc /\ pc[c] \notin {"StartRead.woken", "StartWrite.woken"}
           /\ msg[c].type = "MonSignal" => pc[c] \in MonPc /\ pc[c] \notin {"StartRead.woken", "StartWrite.woken"}
           /\ msg[c].type = "MonWait" => pc[c] \in MonPc
           /\ msg[c] = Wait(OKtoRead) <=> pc[c] = "StartRead.woken"
           /\ msg[c] = Wait(OKtoWrite) <=> pc[c] = "StartWrite.woken"
           /\ msg[c].type = "MonLeave" => pc[c] \notin MonPc
           /\ stage[c] = "sent" /\ msg[c].type # "MonEnter" => Within(c) /\ current_owner = c
           /\ stage[c] = "sent" /\ msg[c].type = "MonEnter" => ~Within(c)
           /\ msg[c].type = "MonWait" =>
                msg[c] = Wait(OKtoRead) \/ msg[c] = Wait(OKtoWrite)
           /\ msg[c].type = "MonSignal" =>
                \/ msg[c] = Signal(OKtoRead) /\ pc[c] \in {"StartRead.signalled", "StopWrite.signalled"}
                \/ msg[c] = Signal(OKtoWrite) /\ pc[c] = "StopRead.signalled"
  <1>1. pc[c] \in ReaderPc \cup WriterPc /\ msg[c] = CallOf(pc[c])
    BY BlockedAt
  <1>2. stage[c] = "sent" => (Within(c) <=> msg[c].type # "MonEnter")
    BY <1>1 DEF Within
  <1>3. Within(c) => current_owner = c
    BY DEF Core, OwnerOk
  <1> DEFINE m == msg[c]
             at == pc[c]
  <1>4. /\ m.type \notin {"MonInit", "none"}
        /\ m.type = "MonEnter" => at \in {"StartRead.entered", "StopRead.entered",
                                          "StartWrite.entered", "StopWrite.entered"}
        /\ m.type = "MonLeave" => at \in {"reading", "writing", "idle"}
        /\ m.type = "MonWait" => at \in {"StartRead.woken", "StartWrite.woken"}
        /\ m.type = "MonSignal" => at \in {"StartRead.signalled", "StopWrite.signalled",
                                           "StopRead.signalled"}
        /\ m = Wait(OKtoRead) <=> at = "StartRead.woken"
        /\ m = Wait(OKtoWrite) <=> at = "StartWrite.woken"
        /\ m = Signal(OKtoRead) <=> at \in {"StartRead.signalled", "StopWrite.signalled"}
        /\ m = Signal(OKtoWrite) <=> at = "StopRead.signalled"
    BY <1>1, CallTypes
  <1> HIDE DEF m, at
  <1>5. m = msg[c] /\ at = pc[c]
    BY DEF m, at
  <1> QED
    BY <1>2, <1>3, <1>4, <1>5 DEF MonPc

(* The wait queues after a step that resumes R and blocks H.               *)
LEMMA QueuesAfter ==
    ASSUME TypeOK, Core, NEW c \in User, stage[c] = "sent", NEW R, NEW H, Hoare!Resume(R, H),
           \A d \in In(Entry)' : \/ d \in In(Entry) \ R
                                 \/ d = c /\ c \in H \ R /\ msg[c].type = "MonEnter",
           \A d \in In(Urgent)' : \/ d \in In(Urgent) \ R
                                  \/ d = c /\ c \in H \ R /\ msg[c].type = "MonSignal",
           \A k \in Cond : \A d \in In(Waiting(k))' :
                                  \/ d \in In(Waiting(k)) \ R
                                  \/ d = c /\ c \in H \ R /\ msg[c] = Wait(k)
    PROVE  QueuesOk'
  <1>1. ASSUME NEW d \in User, stage[d] = "held", d \notin R
        PROVE  stage'[d] = "held" /\ msg'[d] = msg[d]
    BY <1>1, Users DEF Hoare!Resume
  <1>2. c \in H \ R => stage'[c] = "held" /\ msg'[c] = msg[c]
    BY Users DEF Hoare!Resume
  <1> QED
    BY <1>1, <1>2 DEF Core, QueuesOk

-----------------------------------------------------------------------------
(* The server keeps the queue variables and the number of conditions.      *)
ServerKeeps == UNCHANGED <<queueVars, num_conditions, MonServer_pid, sendFailed, rwVars>>

LEMMA ServeKeeps ==
    ASSUME NEW c, ServeEnter(c) \/ ServeLeave(c) \/ ServeWait(c) \/ ServeSignal(c),
           UNCHANGED rwVars
    PROVE  ServerKeeps
  BY DEF ServerKeeps, ServeEnter, ServeLeave, ServeWait, ServeSignal, PassOn, Refuse, Wake,
         Crash, Reply, clientVars

(* Caller c has been served: the processes of R are resumed and those of H *)
(* blocked, and the monitor is o's.                                        *)
Served(c, o, R, H) ==
    /\ Hoare!Resume(R, H) /\ current_owner' = o /\ ServerKeeps
    /\ H \subseteq {c} /\ c \in R \cup H
    /\ \A d \in R : d = c \/ (d = o /\ d \in User)
    /\ o # NoPid => o \in User /\ \/ o \in R /\ pc[o] \in MonPc
                                  \/ Within(o) /\ o # c /\ o \notin R
    /\ c # o => c \in H \ R \/ pc[c] \notin MonPc
    /\ \A d \in User \ {c} : Within(d) => d = o
    /\ \A d \in R : pc[d] = "StartRead.woken" => AtWriting = {}
    /\ \A d \in R : pc[d] = "StartWrite.woken" => AtWriting = {} /\ Counted = {}

LEMMA ServedOk ==
    ASSUME TypeOK, Core, NEW c \in User, stage[c] = "sent",
           NEW o, NEW R, NEW H, Served(c, o, R, H), QueuesOk'
    PROVE  Core'
  <1>1. /\ pc' = pc /\ numReaders' = numReaders /\ busyWriting' = busyWriting
        /\ entry_queue' = entry_queue /\ num_conditions' = num_conditions
        /\ MonServer_pid' = MonServer_pid /\ current_owner' = o
    BY DEF Served, ServerKeeps, rwVars, queueVars
  <1>2. ASSUME NEW d \in Client
        PROVE  /\ stage'[d] = IF d \in R THEN "running" ELSE IF d \in H THEN "held" ELSE stage[d]
               /\ d \notin R => msg'[d] = msg[d]
    BY DEF Served, Hoare!Resume
  <1>3. R \subseteq User /\ H \subseteq {c} /\ mainp \notin R /\ mainp \notin H
    BY Users DEF Served
  <1>4. MonServer_pid /\ pc[mainp] = "done"
    BY BlockedAt
  <1>5. SetUp'
    <2>1. stage'[mainp] = stage[mainp] /\ msg'[mainp] = msg[mainp]
      BY <1>2, <1>3, Users
    <2>2. \A d \in User : stage'[d] # "running" => stage[d] # "running" /\ msg'[d] = msg[d]
      BY <1>2, <1>3, Users
    <2> QED
      BY <1>1, <1>4, <2>1, <2>2 DEF Core, SetUp
  <1>6. Counted' = Counted /\ AtWriting' = AtWriting
    BY <1>1 DEF Counted, AtWriting
  <1>7. NumbersOk'
    BY <1>1, <1>6 DEF Core, NumbersOk
  <1>8. SignalsOk'
    <2> SUFFICES ASSUME NEW d \in User
                 PROVE  /\ stage'[d] = "sent" /\ pc'[d] \in {"StartRead.signalled", "StopWrite.signalled"}
                             => AtWriting' = {}
                        /\ stage'[d] = "sent" /\ pc'[d] = "StopRead.signalled"
                             => AtWriting' = {} /\ Counted' = {}
                        /\ stage'[d] = "running" /\ pc'[d] = "StartRead.woken" => AtWriting' = {}
                        /\ stage'[d] = "running" /\ pc'[d] = "StartWrite.woken"
                             => AtWriting' = {} /\ Counted' = {}
      BY DEF SignalsOk
    <2>1. CASE d \in R
      BY <1>1, <1>2, <1>6, <2>1, Users DEF Served
    <2>2. CASE d \notin R
      BY <1>1, <1>2, <1>6, <2>2, Users DEF Core, SignalsOk
    <2> QED
      BY <2>1, <2>2
  <1>9. OwnerOk'
    <2>1. ASSUME NEW d \in User, d \notin R, d # c PROVE Within(d)' <=> Within(d)
      BY <1>1, <1>2, <1>3, <2>1, Users DEF Within
    <2>2. ASSUME NEW d \in User, d \in R PROVE Within(d)' <=> pc[d] \in MonPc
      BY <1>1, <1>2, <2>2, Users DEF Within
    <2>3. c \in H \ R => ~Within(c)'
      BY <1>1, <1>2, Users DEF Within
    <2>4. ASSUME NEW d \in User, Within(d)' PROVE d = o
      <3>1. CASE d # c /\ d \notin R
        BY <2>1, <2>4, <3>1 DEF Served
      <3>2. CASE d # c /\ d \in R
        BY <3>2 DEF Served
      <3>3. CASE d = c
        BY <2>2, <2>3, <2>4, <3>3 DEF Served
      <3> QED
        BY <3>1, <3>2, <3>3
    <2>5. o # NoPid => o \in User /\ Within(o)'
      BY <2>1, <2>2 DEF Served
    <2> QED
      BY <1>1, <2>4, <2>5 DEF OwnerOk
  <1> QED
    BY <1>5, <1>7, <1>8, <1>9 DEF Core

(* A queue's processes are blocked where the queue says.                   *)
LEMMA InQueue ==
    ASSUME Core, NEW d
    PROVE  /\ d \in In(Entry) => /\ d \in User /\ stage[d] = "held" /\ pc[d] \in MonPc
                                 /\ pc[d] \notin {"StartRead.woken", "StartWrite.woken"}
                                 /\ d \notin In(Urgent) /\ \A k \in Cond : d \notin In(Waiting(k))
           /\ d \in In(Urgent) => /\ d \in User /\ stage[d] = "held" /\ pc[d] \in MonPc
                                  /\ pc[d] \notin {"StartRead.woken", "StartWrite.woken"}
                                  /\ \A k \in Cond : d \notin In(Waiting(k))
           /\ \A k \in Cond : d \in In(Waiting(k)) =>
                /\ d \in User /\ stage[d] = "held" /\ pc[d] \in MonPc /\ msg[d] = Wait(k)
                /\ pc[d] = "StartRead.woken" <=> k = OKtoRead
                /\ pc[d] = "StartWrite.woken" <=> k = OKtoWrite
                /\ \A j \in Cond \ {k} : d \notin In(Waiting(j))
  <1>1. d \in In(Entry) => d \in User /\ stage[d] = "held" /\ msg[d].type = "MonEnter"
    BY DEF Core, QueuesOk
  <1>2. d \in In(Urgent) => d \in User /\ stage[d] = "held" /\ msg[d].type = "MonSignal"
    BY DEF Core, QueuesOk
  <1>3. \A k \in Cond : d \in In(Waiting(k)) => d \in User /\ stage[d] = "held" /\ msg[d] = Wait(k)
    BY DEF Core, QueuesOk
  <1>4. \A k : Wait(k).type = "MonWait" /\ \A j : Wait(k) = Wait(j) => k = j
    BY DEF Wait
  <1>5. d \in User /\ stage[d] = "held" =>
           /\ msg[d].type = "MonEnter" => pc[d] \in MonPc /\ pc[d] \notin {"StartRead.woken", "StartWrite.woken"}
           /\ msg[d].type = "MonSignal" => pc[d] \in MonPc /\ pc[d] \notin {"StartRead.woken", "StartWrite.woken"}
           /\ msg[d].type = "MonWait" => pc[d] \in MonPc
           /\ msg[d] = Wait(OKtoRead) <=> pc[d] = "StartRead.woken"
           /\ msg[d] = Wait(OKtoWrite) <=> pc[d] = "StartWrite.woken"
    BY BlockedPc
  <1> QED
    BY <1>1, <1>2, <1>3, <1>4, <1>5

(* The monitor is released by c, which owns it, in MonLeave or MonWait.    *)
LEMMA ReleasedOk ==
    ASSUME ShallowInv, Core, NEW c \in User, stage[c] = "sent", entry_queue # NULL,
           Within(c), current_owner = c, ServerKeeps,
           NEW R, NEW H, \/ R = {c} /\ H = {} /\ pc[c] \notin MonPc
                         \/ R = {} /\ H = {c},
           Hoare!Release(R, H),
           \A k \in Cond : \A d \in In(Waiting(k))' :
                d \in In(Waiting(k)) \/ (d = c /\ H = {c} /\ msg[c] = Wait(k))
    PROVE  Core'
  <1>1. TypeOK /\ NoPid \notin User
    BY Users DEF ShallowInv, MonitorInv
  <1>2. Short(Entry) /\ Short(Urgent)
    BY QueuesShort
  <1>3. \A d \in User \ {c} : ~Within(d)
    BY DEF Core, OwnerOk
  <1>4. ASSUME NEW x, x \in In(Entry) \/ x \in In(Urgent),
               Hoare!Resume(R \cup {x}, H), current_owner' = x,
               \A d \in In(Entry)' : d \in In(Entry) \ {x},
               \A d \in In(Urgent)' : d \in In(Urgent) \ {x}
        PROVE  Core'
    <2>1. /\ x \in User /\ stage[x] = "held" /\ x # c /\ pc[x] \in MonPc
          /\ pc[x] \notin {"StartRead.woken", "StartWrite.woken"}
          /\ \A k \in Cond : x \notin In(Waiting(k))
      BY <1>4, InQueue
    <2>2. \A d \in User : stage[d] = "held" => d # c
      OBVIOUS
    <2>3. \A k \in Cond : \A d \in In(Waiting(k))' :
            \/ d \in In(Waiting(k)) \ (R \cup {x})
            \/ d = c /\ c \in H \ (R \cup {x}) /\ msg[c] = Wait(k)
      BY <2>1, InQueue
    <2>4. QueuesOk'
      <3>1. \A d \in In(Entry) \cup In(Urgent) : d # c
        BY InQueue
      <3> QED
        BY <1>1, <1>4, <2>3, <3>1, QueuesAfter
    <2>5. Served(c, x, R \cup {x}, H)
      BY <1>3, <1>4, <2>1 DEF Served, MonPc
    <2> QED
      BY <1>1, <2>4, <2>5, ServedOk
  <1>5. CASE /\ Urgent # <<>> /\ current_owner' = Head(Urgent) /\ Urgent' = Tail(Urgent)
             /\ Hoare!Resume(R \cup {Head(Urgent)}, H) /\ Entry' = Entry
    <2>1. Head(Urgent) \in In(Urgent) /\ In(Urgent)' = {}
      BY <1>2, <1>5, InShort
    <2>2. Head(Urgent) \notin In(Entry) /\ In(Entry)' = In(Entry)
      BY <1>5, <2>1, InQueue
    <2> QED
      BY <1>4, <1>5, <2>1, <2>2
  <1>6. CASE /\ Entry # <<>> /\ current_owner' = Head(Entry) /\ Entry' = Tail(Entry)
             /\ Hoare!Resume(R \cup {Head(Entry)}, H) /\ Urgent' = Urgent
    <2>1. Head(Entry) \in In(Entry) /\ In(Entry)' = {}
      BY <1>2, <1>6, InShort
    <2>2. Head(Entry) \notin In(Urgent) /\ In(Urgent)' = In(Urgent)
      BY <1>6, <2>1, InQueue
    <2> QED
      BY <1>4, <1>6, <2>1, <2>2
  <1>7. CASE /\ current_owner' = NoPid /\ Hoare!Resume(R, H) /\ Urgent' = Urgent /\ Entry' = Entry
    <2>1. In(Entry)' = In(Entry) /\ In(Urgent)' = In(Urgent)
      BY <1>7
    <2>2. QueuesOk'
      <3>1. \A d : \/ d \in In(Entry) \cup In(Urgent) \/ (\E k \in Cond : d \in In(Waiting(k)))
                     => d # c /\ d \notin R
        BY InQueue
      <3> QED
        BY <1>1, <1>7, <2>1, <3>1, QueuesAfter
    <2>3. Served(c, NoPid, R, H)
      <3>1. pc[c] = "StartRead.woken" \/ pc[c] = "StartWrite.woken" => pc[c] \in MonPc
        BY DEF MonPc
      <3> QED
        BY <1>1, <1>3, <1>7, <3>1 DEF Served
    <2> QED
      BY <1>1, <2>2, <2>3, ServedOk
  <1> QED
    BY <1>5, <1>6, <1>7 DEF Hoare!Release, Entry, Urgent

-----------------------------------------------------------------------------
(* The handlers.                                                           *)
LEMMA ServedEnter ==
    ASSUME ShallowInv, Core, NEW c \in User, ServeEnter(c), UNCHANGED rwVars, ShallowQueues'
    PROVE  ShallowInv' /\ Core'
  <1>1. c \in Client /\ NoPid \notin User
    BY Users
  <1>2. ShallowInv' /\ Hoare!Enter(c)
    BY <1>1, EnterStep
  <1>3. stage[c] = "sent" /\ msg[c].type = "MonEnter" /\ ServerKeeps /\ TypeOK
    BY ServeKeeps DEF ServeEnter, Receive, ShallowInv, MonitorInv
  <1>4. /\ pc[c] \in MonPc /\ pc[c] \notin {"StartRead.woken", "StartWrite.woken"} /\ ~Within(c)
        /\ entry_queue # NULL
    BY <1>1, <1>3, BlockedPc, InitialisedIfCalled
  <1>5. Urgent' = Urgent /\ \A k \in Cond : Waiting(k)' = Waiting(k)
    <2>1. [k \in Cond |-> Contents(pool, condition_queues[k])]'
            = [k \in Cond |-> Contents(pool, condition_queues[k])]
      BY <1>2 DEF Hoare!Enter
    <2>2. \A k \in Cond : [j \in Cond |-> Contents(pool, condition_queues[j])]'[k] = Waiting(k)'
      BY DEF Waiting
    <2>3. \A k \in Cond : [j \in Cond |-> Contents(pool, condition_queues[j])][k] = Waiting(k)
      BY DEF Waiting
    <2>4. Urgent' = Urgent
      BY <1>2 DEF Hoare!Enter, Urgent
    <2> QED
      BY <2>1, <2>2, <2>3, <2>4
  <1>6. \A d : \/ d \in In(Entry) \cup In(Urgent) \/ (\E k \in Cond : d \in In(Waiting(k))) => d # c
    BY <1>3, InQueue
  <1>7. CASE current_owner = NoPid /\ current_owner' = c /\ Hoare!Resume({c}, {}) /\ Entry' = Entry
    <2>1. QueuesOk'
      BY <1>3, <1>5, <1>6, <1>7, QueuesAfter
    <2>2. Served(c, c, {c}, {})
      BY <1>1, <1>3, <1>4, <1>7 DEF Served, Core, OwnerOk
    <2> QED
      BY <1>2, <1>3, <2>1, <2>2, ServedOk
  <1>8. CASE /\ current_owner # NoPid /\ current_owner' = current_owner
             /\ Hoare!Resume({}, {c}) /\ Entry' = Append(Entry, c)
    <2>1. \A d \in In(Entry)' : d \in In(Entry) \/ d = c
      BY <1>4, <1>8, QueuesShort, InShort
    <2>2. QueuesOk'
      BY <1>3, <1>5, <1>6, <1>8, <2>1, QueuesAfter
    <2>3. Served(c, current_owner, {}, {c})
      BY <1>3, <1>4, <1>8 DEF Served, Core, OwnerOk
    <2> QED
      BY <1>2, <1>3, <2>2, <2>3, ServedOk
  <1> QED
    BY <1>2, <1>7, <1>8 DEF Hoare!Enter, Entry

(* Whoever calls MonLeave, MonWait or MonSignal owns the monitor, and its  *)
(* condition is one of the two.                                            *)
LEMMA Effective ==
    ASSUME ShallowInv, Core, NEW c \in User, entry_queue # NULL, Hoare!Ignore(c)
    PROVE  /\ stage[c] = "sent" /\ msg[c].type = "MonSignal"
           /\ current_owner = c /\ current_owner' = c
           /\ Hoare!Resume({c}, {})
           /\ Entry' = Entry /\ Urgent' = Urgent
           /\ \A k \in Cond : Waiting(k)' = Waiting(k)
  <1>1. /\ stage[c] = "sent" /\ msg[c].type # "MonEnter"
        /\ Hoare!Ineffective(c) /\ Hoare!Resume({c}, {})
    BY DEF Hoare!Ignore, Hoare!Ineffective, Hoare!Pending
  <1>2. current_owner = c
    BY <1>1, BlockedPc
  <1>3. OKtoRead \in Cond /\ OKtoWrite \in Cond /\ OKtoRead < num_conditions /\ OKtoWrite < num_conditions
    BY MonitorAssumption DEF Core, ProgramArguments, SetUp, Cond, OKtoRead, OKtoWrite, numConds
  <1>4. msg[c].type = "MonWait" => Hoare!Usable(c, msg[c].arg)
    BY <1>1, <1>2, <1>3, BlockedPc DEF Hoare!Usable, Wait
  <1>5. msg[c].type = "MonSignal"
    BY <1>1, <1>2, <1>4 DEF Hoare!Ineffective, Hoare!Pending
  <1>6. current_owner' = c /\ Entry' = Entry /\ Urgent' = Urgent
    BY <1>2 DEF Hoare!Ignore, Hoare!queues, Entry, Urgent
  <1>7. \A k \in Cond : Waiting(k)' = Waiting(k)
    <2>1. [k \in Cond |-> Contents(pool, condition_queues[k])]'
            = [k \in Cond |-> Contents(pool, condition_queues[k])]
      BY DEF Hoare!Ignore, Hoare!queues
    <2>2. \A k \in Cond : [j \in Cond |-> Contents(pool, condition_queues[j])]'[k] = Waiting(k)'
      BY DEF Waiting
    <2>3. \A k \in Cond : [j \in Cond |-> Contents(pool, condition_queues[j])][k] = Waiting(k)
      BY DEF Waiting
    <2> QED
      BY <2>1, <2>2, <2>3
  <1> QED
    BY <1>1, <1>2, <1>5, <1>6, <1>7

LEMMA IgnoredOk ==
    ASSUME ShallowInv, Core, NEW c \in User, entry_queue # NULL, Hoare!Ignore(c), ServerKeeps
    PROVE  Core'
  <1>1. /\ stage[c] = "sent" /\ msg[c].type = "MonSignal"
        /\ current_owner = c /\ current_owner' = c
        /\ Hoare!Resume({c}, {})
        /\ Entry' = Entry /\ Urgent' = Urgent
        /\ \A k \in Cond : Waiting(k)' = Waiting(k)
    BY Effective
  <1>2. TypeOK /\ pc[c] \in MonPc /\ pc[c] \notin {"StartRead.woken", "StartWrite.woken"}
    BY <1>1, BlockedPc DEF ShallowInv, MonitorInv
  <1>3. \A d : \/ d \in In(Entry) \cup In(Urgent) \/ (\E k \in Cond : d \in In(Waiting(k))) => d # c
    BY <1>1, InQueue
  <1>4. QueuesOk'
    BY <1>1, <1>2, <1>3, QueuesAfter
  <1>5. Served(c, c, {c}, {})
    BY <1>1, <1>2 DEF Served, Core, OwnerOk
  <1> QED
    BY <1>1, <1>2, <1>4, <1>5, ServedOk

LEMMA ServedLeave ==
    ASSUME ShallowInv, Core, NEW c \in User, ServeLeave(c), UNCHANGED rwVars
    PROVE  ShallowInv' /\ Core'
  <1>1. c \in Client
    BY Users
  <1>2. ShallowInv' /\ (Hoare!Leave(c) \/ Hoare!Ignore(c))
    BY <1>1, LeaveStep
  <1>3. stage[c] = "sent" /\ msg[c].type = "MonLeave" /\ ServerKeeps
    BY ServeKeeps DEF ServeLeave, Receive
  <1>4. pc[c] \notin MonPc /\ Within(c) /\ current_owner = c /\ entry_queue # NULL
    BY <1>1, <1>3, BlockedPc, InitialisedIfCalled
  <1>5. CASE Hoare!Ignore(c)
    BY <1>2, <1>3, <1>4, <1>5, IgnoredOk
  <1>6. CASE Hoare!Leave(c)
    <2>1. Hoare!Release({c}, {})
      BY <1>6 DEF Hoare!Leave
    <2>2. \A k \in Cond : Waiting(k)' = Waiting(k)
      <3>1. [k \in Cond |-> Contents(pool, condition_queues[k])]'
              = [k \in Cond |-> Contents(pool, condition_queues[k])]
        BY <1>6 DEF Hoare!Leave
      <3>2. \A k \in Cond : [j \in Cond |-> Contents(pool, condition_queues[j])]'[k] = Waiting(k)'
        BY DEF Waiting
      <3>3. \A k \in Cond : [j \in Cond |-> Contents(pool, condition_queues[j])][k] = Waiting(k)
        BY DEF Waiting
      <3> QED
        BY <3>1, <3>2, <3>3
    <2>3. \A k \in Cond : \A d \in In(Waiting(k))' : d \in In(Waiting(k))
      BY <2>2
    <2>4. ASSUME NEW R, NEW H, R = {c}, H = {} PROVE Core'
      <3>1. Hoare!Release(R, H)
        BY <2>1, <2>4
      <3>2. \A k \in Cond : \A d \in In(Waiting(k))' :
                d \in In(Waiting(k)) \/ (d = c /\ H = {c} /\ msg[c] = Wait(k))
        BY <2>3
      <3>3. \/ R = {c} /\ H = {} /\ pc[c] \notin MonPc
            \/ R = {} /\ H = {c}
        BY <1>4, <2>4
      <3> QED
        BY <1>3, <1>4, <3>1, <3>2, <3>3, ReleasedOk
    <2> QED
      BY <1>2, <2>4
  <1> QED
    BY <1>2, <1>5, <1>6

LEMMA ServedWait ==
    ASSUME ShallowInv, Core, NEW c \in User, ServeWait(c), UNCHANGED rwVars, ShallowQueues'
    PROVE  ShallowInv' /\ Core'
  <1>1. c \in Client
    BY Users
  <1>2. ShallowInv' /\ (Hoare!Wait(c) \/ Hoare!Ignore(c))
    BY <1>1, WaitStep
  <1>3. stage[c] = "sent" /\ msg[c].type = "MonWait" /\ ServerKeeps
    BY ServeKeeps DEF ServeWait, Receive
  <1>4. Within(c) /\ current_owner = c /\ entry_queue # NULL
    BY <1>1, <1>3, BlockedPc, InitialisedIfCalled
  <1>5. CASE Hoare!Ignore(c)
    BY <1>2, <1>3, <1>4, <1>5, IgnoredOk
  <1>6. CASE Hoare!Wait(c)
    <2> DEFINE i == msg[c].arg
               W == [k \in Cond |-> Contents(pool, condition_queues[k])]
    <2>1. /\ Hoare!Release({}, {c})
          /\ W' = [W EXCEPT ![i] = Append(@, c)]
      BY <1>6 DEF Hoare!Wait
    <2>2. msg[c] = Wait(i)
      BY <1>3, BlockedPc DEF Wait
    <2>3. \A k \in Cond : W'[k] = Waiting(k)' /\ W[k] = Waiting(k)
      BY DEF Waiting
    <2>4. \A k \in Cond : W'[k] = IF k = i THEN Append(W[k], c) ELSE W[k]
      <3> HIDE DEF W
      <3>1. DOMAIN W = Cond
        BY DEF W
      <3> QED
        BY <2>1, <3>1
    <2> HIDE DEF W
    <2>5. \A k \in Cond : Waiting(k)' = IF k = i THEN Append(Waiting(k), c) ELSE Waiting(k)
      BY <2>3, <2>4
    <2>6. \A k \in Cond : \A d \in In(Waiting(k))' :
                d \in In(Waiting(k)) \/ (d = c /\ msg[c] = Wait(k))
      <3> SUFFICES ASSUME NEW k \in Cond, NEW d \in In(Waiting(k)')
                   PROVE  d \in In(Waiting(k)) \/ (d = c /\ msg[c] = Wait(k))
        OBVIOUS
      <3>1. Short(Waiting(k))
        BY <1>4, QueuesShort
      <3>2. CASE k = i
        <4>1. Waiting(k)' = Append(Waiting(k), c)
          BY <2>5, <3>2
        <4>2. \A e \in In(Append(Waiting(k), c)) : e \in In(Waiting(k)) \/ e = c
          BY <3>1, InShort
        <4> QED
          BY <2>2, <3>2, <4>1, <4>2
      <3>3. CASE k # i
        <4>1. Waiting(k)' = Waiting(k)
          BY <2>5, <3>3
        <4> QED
          BY <4>1
      <3> QED
        BY <3>2, <3>3
    <2> QED
      BY <1>2, <1>3, <1>4, <2>1, <2>6, ReleasedOk
  <1> QED
    BY <1>2, <1>5, <1>6

LEMMA ServedSignal ==
    ASSUME ShallowInv, Core, NEW c \in User, ServeSignal(c), UNCHANGED rwVars, ShallowQueues'
    PROVE  ShallowInv' /\ Core'
  <1>1. c \in Client
    BY Users
  <1>2. ShallowInv' /\ (Hoare!Signal(c) \/ Hoare!Ignore(c))
    BY <1>1, SignalStep
  <1>3. stage[c] = "sent" /\ msg[c].type = "MonSignal" /\ ServerKeeps /\ TypeOK
    BY ServeKeeps DEF ServeSignal, Receive, ShallowInv, MonitorInv
  <1>4. Within(c) /\ current_owner = c /\ entry_queue # NULL
    BY <1>1, <1>3, BlockedPc, InitialisedIfCalled
  <1>5. CASE Hoare!Ignore(c)
    BY <1>2, <1>3, <1>4, <1>5, IgnoredOk
  <1>6. CASE Hoare!Signal(c)
    <2> DEFINE i == msg[c].arg
               W == [k \in Cond |-> Contents(pool, condition_queues[k])]
               x == Head(W[i])
    <2>1. /\ i \in Cond /\ W[i] # <<>>
          /\ current_owner' = x
          /\ W' = [W EXCEPT ![i] = Tail(@)]
          /\ Urgent' = Append(Urgent, c) /\ Entry' = Entry
          /\ Hoare!Resume({x}, {c})
      BY <1>6 DEF Hoare!Signal, Hoare!Usable, Urgent, Entry
    <2>2. \A k \in Cond : W'[k] = Waiting(k)' /\ W[k] = Waiting(k)
      BY DEF Waiting
    <2>3. DOMAIN W = Cond
      OBVIOUS
    <2> HIDE DEF W
    <2>4. \A k \in Cond : Waiting(k)' = IF k = i THEN Tail(Waiting(k)) ELSE Waiting(k)
      BY <2>1, <2>2, <2>3
    <2>5. x = Head(Waiting(i)) /\ Waiting(i) # <<>>
      BY <2>1, <2>2
    <2> HIDE DEF x
    <2>6. x \in In(Waiting(i)) /\ In(Tail(Waiting(i))) = {}
      BY <1>4, <2>1, <2>5, QueuesShort, InShort
    <2>7. \A d \in In(Urgent)' : d \in In(Urgent) \/ d = c
      BY <1>4, <2>1, QueuesShort, InShort
    <2>8. /\ x \in User /\ stage[x] = "held" /\ pc[x] \in MonPc /\ x # c
          /\ pc[x] = "StartRead.woken" <=> i = OKtoRead
          /\ pc[x] = "StartWrite.woken" <=> i = OKtoWrite
          /\ \A j \in Cond \ {i} : x \notin In(Waiting(j))
          /\ x \notin In(Entry) /\ x \notin In(Urgent)
      BY <1>3, <2>1, <2>6, InQueue
    <2>9. \A k \in Cond : \A d \in In(Waiting(k))' : d \in In(Waiting(k)) \ {x}
      BY <2>4, <2>6, <2>8
    <2>10. QueuesOk'
      BY <1>3, <2>1, <2>7, <2>8, <2>9, QueuesAfter
    <2>11. /\ i = OKtoRead => AtWriting = {}
           /\ i = OKtoWrite => AtWriting = {} /\ Counted = {}
      <3>1. \/ i = OKtoRead /\ pc[c] \in {"StartRead.signalled", "StopWrite.signalled"}
            \/ i = OKtoWrite /\ pc[c] = "StopRead.signalled"
        BY <1>3, BlockedPc DEF Signal
      <3> QED
        BY <1>3, <3>1 DEF Core, SignalsOk, OKtoRead, OKtoWrite
    <2>12. Served(c, x, {x}, {c})
      BY <1>3, <1>4, <2>1, <2>8, <2>11 DEF Served, Core, OwnerOk
    <2> QED
      BY <1>2, <1>3, <2>10, <2>12, ServedOk
  <1> QED
    BY <1>2, <1>5, <1>6

-----------------------------------------------------------------------------
(* MonInit, which only mainp calls, and only once.                         *)
LEMMA MainpInits ==
    ASSUME TypeOK, Core, NEW c \in Client, stage[c] # "running",
           msg[c].type = "MonInit" \/ c \notin User
    PROVE  c = mainp /\ pc[mainp] = "Create" /\ stage[mainp] = "sent" /\ MonServer_pid
           /\ msg[c] = [type |-> "MonInit", arg |-> numConds]
  <1>1. c = mainp
    BY Users, BlockedPc
  <1> QED
    BY <1>1, Users DEF Core, SetUp, TypeOK

(* What the program relies on is not touched while mainp sets up.          *)
LEMMA SetUpOk ==
    ASSUME TypeOK, Core, UNCHANGED rwVars, pc[mainp] = "Create", MonServer_pid, MonServer_pid',
           current_owner' = current_owner,
           Entry' = Entry, Urgent' = Urgent, \A k \in Cond : Waiting(k)' = Waiting(k),
           entry_queue' # NULL => num_conditions' = numConds,
           entry_queue' = NULL => stage'[mainp] = "sent",
           stage'[mainp] = "running" \/ (stage'[mainp] = "sent" /\ stage[mainp] = "sent" /\ msg'[mainp] = msg[mainp]),
           \A c \in User : stage'[c] = stage[c] /\ msg'[c] = msg[c]
    PROVE  Core'
  <1>1. pc' = pc /\ numReaders' = numReaders /\ busyWriting' = busyWriting
    BY DEF rwVars
  <1>2. Counted' = Counted /\ AtWriting' = AtWriting
    BY <1>1 DEF Counted, AtWriting
  <1>3. SetUp'
    BY <1>1 DEF Core, SetUp
  <1>4. QueuesOk'
    BY DEF Core, QueuesOk
  <1>5. \A c \in User : Within(c)' <=> Within(c)
    BY <1>1 DEF Within
  <1>6. OwnerOk'
    BY <1>5 DEF Core, OwnerOk
  <1>7. NumbersOk' /\ SignalsOk'
    BY <1>1, <1>2 DEF Core, NumbersOk, SignalsOk
  <1> QED
    BY <1>3, <1>4, <1>6, <1>7 DEF Core

LEMMA ServedInit ==
    ASSUME ShallowInv, Core, NEW c \in Client, ServeInit(c), UNCHANGED rwVars
    PROVE  ShallowInv' /\ Core'
  <1>1. ShallowInv' /\ Hoare!Setup(c)
    BY FirstInitStep, LaterInitStep
  <1>2. /\ stage[c] = "sent" /\ msg[c].type = "MonInit"
        /\ num_conditions' = CappedConditions(msg[c].arg)
        /\ UNCHANGED <<lockVars, MonServer_pid, clientVars>>
    BY DEF ServeInit, Receive
  <1>3. /\ c = mainp /\ pc[mainp] = "Create" /\ MonServer_pid
        /\ msg[c] = [type |-> "MonInit", arg |-> numConds]
    BY <1>2, MainpInits DEF ShallowInv, MonitorInv
  <1>4. num_conditions' = numConds
    BY <1>2, <1>3, MonitorAssumption DEF Core, ProgramArguments, CappedConditions, numConds
  <1>5. Entry' = Entry /\ Urgent' = Urgent /\ \A k \in Cond : Waiting(k)' = Waiting(k)
    <2>1. /\ [k \in Cond |-> Contents(pool, condition_queues[k])]'
               = [k \in Cond |-> Contents(pool, condition_queues[k])]
          /\ Entry' = Entry /\ Urgent' = Urgent
      BY <1>1 DEF Hoare!Setup, Hoare!queues, Entry, Urgent
    <2>2. \A k \in Cond : [j \in Cond |-> Contents(pool, condition_queues[j])]'[k] = Waiting(k)'
      BY DEF Waiting
    <2>3. \A k \in Cond : [j \in Cond |-> Contents(pool, condition_queues[j])][k] = Waiting(k)
      BY DEF Waiting
    <2> QED
      BY <2>1, <2>2, <2>3
  <1>6. TypeOK
    BY DEF ShallowInv, MonitorInv
  <1> QED
    BY <1>1, <1>2, <1>3, <1>4, <1>5, <1>6, SetUpOk DEF lockVars, clientVars

LEMMA Initialising ==
    ASSUME ShallowInv, Core, init_pid # NoPid
    PROVE  /\ init_pid = mainp /\ pc[mainp] = "Create" /\ stage[mainp] = "sent" /\ MonServer_pid
           /\ entry_queue # NULL /\ num_conditions = numConds
  <1>1. init_pid \in Client /\ stage[init_pid] = "sent" /\ msg[init_pid].type = "MonInit"
    BY DEF ShallowInv, MonitorInv, TypeOK
  <1>2. entry_queue # NULL
    BY DEF ShallowInv, NotInitialised
  <1> QED
    BY <1>1, <1>2, MainpInits DEF Core, SetUp, ShallowInv, MonitorInv

LEMMA ServedInitCondition ==
    ASSUME ShallowInv, Core, InitCondition, UNCHANGED rwVars
    PROVE  ShallowInv' /\ Core'
  <1>1. ShallowInv' /\ UNCHANGED Hoare!vars
    BY InitConditionStep
  <1>2. /\ init_pid # NoPid
        /\ UNCHANGED <<entry_queue, num_conditions, lockVars, MonServer_pid, clientVars>>
    BY DEF InitCondition
  <1>3. Entry' = Entry /\ Urgent' = Urgent /\ \A k \in Cond : Waiting(k)' = Waiting(k)
    <2>1. /\ [k \in Cond |-> Contents(pool, condition_queues[k])]'
               = [k \in Cond |-> Contents(pool, condition_queues[k])]
          /\ Entry' = Entry /\ Urgent' = Urgent
      BY <1>1 DEF Hoare!vars, Entry, Urgent
    <2>2. \A k \in Cond : [j \in Cond |-> Contents(pool, condition_queues[j])]'[k] = Waiting(k)'
      BY DEF Waiting
    <2>3. \A k \in Cond : [j \in Cond |-> Contents(pool, condition_queues[j])][k] = Waiting(k)
      BY DEF Waiting
    <2> QED
      BY <2>1, <2>2, <2>3
  <1>4. TypeOK
    BY DEF ShallowInv, MonitorInv
  <1> QED
    BY <1>1, <1>2, <1>3, <1>4, Initialising, SetUpOk DEF lockVars, clientVars

LEMMA ServedInitReply ==
    ASSUME ShallowInv, Core, InitReply, UNCHANGED rwVars
    PROVE  ShallowInv' /\ Core'
  <1>1. ShallowInv'
    BY InitReplyStep
  <1>2. /\ init_pid # NoPid /\ Reply({init_pid}, {})
        /\ UNCHANGED <<pool, queueVars, num_conditions, lockVars, MonServer_pid>>
    BY DEF InitReply
  <1>3. Entry' = Entry /\ Urgent' = Urgent /\ \A k \in Cond : Waiting(k)' = Waiting(k)
    BY <1>2 DEF queueVars, Entry, Urgent, Waiting
  <1>4. /\ init_pid = mainp /\ pc[mainp] = "Create" /\ MonServer_pid
        /\ entry_queue # NULL /\ num_conditions = numConds
    BY <1>2, Initialising
  <1>5. stage'[mainp] = "running" /\ \A c \in User : stage'[c] = stage[c] /\ msg'[c] = msg[c]
    BY <1>2, <1>4, Users DEF Reply
  <1>6. TypeOK
    BY DEF ShallowInv, MonitorInv
  <1> QED
    BY <1>1, <1>2, <1>3, <1>4, <1>5, <1>6, SetUpOk DEF lockVars, queueVars

-----------------------------------------------------------------------------
(* The steps of mainp, and steps that change nothing.                      *)
LEMMA ShallowUnchanged ==
    ASSUME ShallowInv, UNCHANGED vars
    PROVE  ShallowInv'
  <1>1. \A k : Queue(k)' = Queue(k)
    BY DEF Queue, vars, queueVars
  <1>2. MonitorInv'
    BY NextMonitorInv DEF ShallowInv
  <1>3. NotInitialised => NotInitialised'
    BY <1>1 DEF NotInitialised, vars, initVars, clientVars
  <1>4. ListsExact => ListsExact'
    BY <1>1 DEF ListsExact, FreeLists, vars
  <1>5. Initialised => Initialised'
    BY <1>4 DEF Initialised, vars, queueVars, initVars
  <1> QED
    BY <1>2, <1>3, <1>5 DEF ShallowInv, vars, queueVars, lockVars, clientVars

LEMMA StutterOk ==
    ASSUME ShallowInv, Core, UNCHANGED <<vars, rwVars>>
    PROVE  ShallowInv' /\ Core'
  <1>1. ShallowInv'
    BY ShallowUnchanged
  <1>2. /\ pc' = pc /\ numReaders' = numReaders /\ busyWriting' = busyWriting
        /\ pool' = pool /\ entry_queue' = entry_queue /\ urgent_queue' = urgent_queue
        /\ condition_queues' = condition_queues /\ num_conditions' = num_conditions
        /\ current_owner' = current_owner /\ MonServer_pid' = MonServer_pid
        /\ stage' = stage /\ msg' = msg
    BY DEF vars, rwVars, queueVars, lockVars, clientVars
  <1>3. Entry' = Entry /\ Urgent' = Urgent /\ \A k : Waiting(k)' = Waiting(k)
    BY <1>2 DEF Entry, Urgent, Waiting
  <1>4. Counted' = Counted /\ AtWriting' = AtWriting /\ \A c : Within(c)' <=> Within(c)
    BY <1>2 DEF Counted, AtWriting, Within
  <1>5. SetUp' /\ QueuesOk' /\ OwnerOk'
    BY <1>2, <1>3, <1>4 DEF Core, SetUp, QueuesOk, OwnerOk
  <1>6. NumbersOk' /\ SignalsOk'
    BY <1>2, <1>4 DEF Core, NumbersOk, SignalsOk
  <1> QED
    BY <1>1, <1>5, <1>6 DEF Core

LEMMA InitializeOk ==
    ASSUME ShallowInv, Core, Initialize
    PROVE  ShallowInv' /\ Core'
  <1> DEFINE m == [type |-> "MonInit", arg |-> numConds]
  <1>1. /\ pc[mainp] = "Initialize" /\ MonInit(mainp, m)
        /\ pc' = [pc EXCEPT ![mainp] = "Create"]
        /\ numReaders' = numReaders /\ busyWriting' = busyWriting
    BY DEF Initialize
  <1> HIDE DEF m
  <1>2. mainp \in Client /\ m \in MonMsg /\ m.type = "MonInit" /\ TypeOK
    BY Users, MessagesOfProgram DEF m, Core, ShallowInv, MonitorInv
  <1>3. /\ UNCHANGED <<pool, queueVars, num_conditions, lockVars>>
        /\ \/ MonServer_pid' /\ Send(mainp, m)
           \/ ~MonServer_pid /\ UNCHANGED <<MonServer_pid, clientVars, sendFailed>>
    BY <1>1 DEF MonInit
  <1>4. sendFailed' = sendFailed
    BY <1>3 DEF Send
  <1>5. InitialisedFirst
    <2>1. ASSUME entry_queue = NULL, NEW c \in Client PROVE msg'[c].type \in {"none", "MonInit"}
      <3>1. msg[c].type \in {"none", "MonInit"}
        BY <2>1 DEF ShallowInv, NotInitialised
      <3>2. msg'[c] = msg[c] \/ msg'[c] = m
        BY <1>2, <1>3 DEF Send, clientVars, TypeOK
      <3> QED
        BY <1>2, <3>1, <3>2
    <2> QED
      BY <1>4, <2>1 DEF InitialisedFirst, ShallowInv
  <1>6. ShallowInv'
    BY <1>1, <1>2, <1>5, CallStep
  <1>7. \A c \in User : /\ stage'[c] = stage[c] /\ msg'[c] = msg[c] /\ pc'[c] = pc[c]
                        /\ stage[c] = "running" /\ pc[c] = "uncreated"
    BY <1>1, <1>2, <1>3, Users DEF Send, clientVars, TypeOK, Core, SetUp
  <1>8. /\ pc'[mainp] = "Create" /\ stage[mainp] = "running"
        /\ pc' = [c \in Client |-> pc'[c]]
        /\ \/ stage'[mainp] = "running" /\ ~MonServer_pid' /\ ~MonServer_pid
           \/ stage'[mainp] = "sent" /\ MonServer_pid' /\ msg'[mainp] = m
    BY <1>1, <1>2, <1>3 DEF Send, clientVars, TypeOK, Core, SetUp
  <1>9. Entry' = Entry /\ Urgent' = Urgent /\ \A k : Waiting(k)' = Waiting(k)
    BY <1>3 DEF queueVars, Entry, Urgent, Waiting
  <1>10. SetUp'
    <2>1. "Create" \notin MonPc /\ "uncreated" \notin MonPc
      BY DEF MonPc
    <2>2. entry_queue' = entry_queue /\ num_conditions' = num_conditions
      BY <1>3 DEF queueVars
    <2> QED
      BY <1>7, <1>8, <2>1, <2>2, Users DEF Core, SetUp, m
  <1>11. QueuesOk'
    BY <1>7, <1>9 DEF Core, QueuesOk
  <1>12. OwnerOk'
    <2>1. \A c \in User : Within(c)' <=> Within(c)
      BY <1>7 DEF Within
    <2> QED
      BY <1>3, <2>1 DEF Core, OwnerOk, lockVars
  <1>13. Counted' = Counted /\ AtWriting' = AtWriting
    BY <1>7 DEF Counted, AtWriting, User
  <1>14. NumbersOk' /\ SignalsOk'
    BY <1>1, <1>7, <1>13 DEF Core, NumbersOk, SignalsOk
  <1> QED
    BY <1>6, <1>10, <1>11, <1>12, <1>14 DEF Core

LEMMA CreateProcessesOk ==
    ASSUME ShallowInv, Core, CreateProcesses
    PROVE  ShallowInv' /\ Core'
  <1>1. /\ pc[mainp] = "Create" /\ stage[mainp] = "running"
        /\ pc' = [c \in Client |-> IF c = mainp THEN "done" ELSE "idle"]
        /\ UNCHANGED vars /\ numReaders' = numReaders /\ busyWriting' = busyWriting
    BY DEF CreateProcesses
  <1>2. ShallowInv'
    BY <1>1, ShallowUnchanged
  <1>3. /\ pool' = pool /\ entry_queue' = entry_queue /\ urgent_queue' = urgent_queue
        /\ condition_queues' = condition_queues /\ num_conditions' = num_conditions
        /\ current_owner' = current_owner /\ MonServer_pid' = MonServer_pid
        /\ stage' = stage /\ msg' = msg
    BY <1>1 DEF vars, queueVars, lockVars, clientVars
  <1>4. \A c \in User : stage[c] = "running" /\ pc[c] = "uncreated" /\ pc'[c] = "idle"
    BY <1>1, Users DEF Core, SetUp
  <1>5. /\ pc'[mainp] = "done"
        /\ "idle" \in ReaderPc /\ "idle" \in WriterPc /\ "idle" \notin MonPc
        /\ "done" \notin MonPc /\ "uncreated" \notin MonPc
        /\ "idle" \notin CountedPc /\ "idle" \notin WritingPc
        /\ "uncreated" \notin CountedPc /\ "uncreated" \notin WritingPc
    BY <1>1, Users DEF ReaderPc, WriterPc, MonPc, CountedPc, WritingPc
  <1>6. SetUp'
    <2>1. pc' = [c \in Client |-> pc'[c]]
      BY <1>1
    <2> QED
      BY <1>1, <1>3, <1>4, <1>5, <2>1, Users DEF Core, SetUp, User
  <1>7. QueuesOk'
    <2>1. Entry' = Entry /\ Urgent' = Urgent /\ \A k : Waiting(k)' = Waiting(k)
      BY <1>3 DEF Entry, Urgent, Waiting
    <2> QED
      BY <1>3, <2>1 DEF Core, QueuesOk
  <1>8. OwnerOk'
    <2>1. \A c \in User : ~Within(c) /\ ~Within(c)'
      BY <1>3, <1>4, <1>5 DEF Within
    <2> QED
      BY <1>3, <2>1 DEF Core, OwnerOk
  <1>9. Counted' = Counted /\ AtWriting' = AtWriting
    BY <1>4, <1>5 DEF Counted, AtWriting, User
  <1>10. NumbersOk' /\ SignalsOk'
    BY <1>1, <1>3, <1>4, <1>9 DEF Core, NumbersOk, SignalsOk
  <1> QED
    BY <1>2, <1>6, <1>7, <1>8, <1>10 DEF Core

-----------------------------------------------------------------------------
(* A step of the program.  The queues are given as shallow only after the  *)
(* handlers that put a process on one.                                     *)
LEMMA RWStepOk ==
    ASSUME ShallowInv, Core, [RWNext]_<<vars, rwVars>>, ~sendFailed',
           \A c \in User : ServeEnter(c) \/ ServeWait(c) \/ ServeSignal(c) => ShallowQueues'
    PROVE  ShallowInv' /\ Core'
  <1>1. CASE UNCHANGED <<vars, rwVars>>
    BY <1>1, StutterOk
  <1>2. CASE Process
    BY <1>2, InitializeOk, CreateProcessesOk, ReaderCalls, WriterCalls DEF Process
  <1>3. CASE ServerStep /\ UNCHANGED rwVars
    <2>1. ASSUME NEW c \in User, Serve(c) PROVE ShallowInv' /\ Core'
      <3>1. c \in Client
        BY Users
      <3> QED
        BY <1>3, <2>1, <3>1, ServedEnter, ServedLeave, ServedWait, ServedSignal, ServedInit DEF Serve
    <2>2. ASSUME NEW c \in Client \ User, Serve(c) PROVE ShallowInv' /\ Core'
      <3>1. TypeOK /\ stage[c] = "sent"
        BY <2>2 DEF Serve, ServeEnter, ServeLeave, ServeWait, ServeSignal, ServeInit, Receive,
                    ShallowInv, MonitorInv
      <3>2. msg[c].type = "MonInit"
        BY <3>1, MainpInits
      <3>3. ServeInit(c)
        BY <2>2, <3>2 DEF Serve, ServeEnter, ServeLeave, ServeWait, ServeSignal, Receive
      <3> QED
        BY <1>3, <3>3, ServedInit
    <2> QED
      BY <1>3, <2>1, <2>2, ServedInitCondition, ServedInitReply DEF ServerStep
  <1> QED
    BY <1>1, <1>2, <1>3 DEF RWNext

LEMMA SendFailedStays ==
    ASSUME sendFailed, [RWNext]_<<vars, rwVars>>
    PROVE  sendFailed'
  <1>1. CASE UNCHANGED <<vars, rwVars>>
    BY <1>1 DEF vars
  <1>2. ASSUME NEW c, NEW m, Call(c, m) PROVE sendFailed'
    BY <1>2 DEF Call, Send, SendToNobody
  <1>3. CASE Process
    <2>1. CASE Initialize
      BY <2>1 DEF Initialize, MonInit, Send
    <2>2. CASE CreateProcesses
      BY <2>2 DEF CreateProcesses, vars
    <2>3. ASSUME NEW c, reader(c) PROVE sendFailed'
      BY <1>2, <2>3 DEF reader, StartRead, StopRead, CountReader, Step
    <2>4. ASSUME NEW c, writer(c) PROVE sendFailed'
      BY <1>2, <2>4 DEF writer, StartWrite, StopWrite, BeginWriting, Step
    <2> QED
      BY <1>3, <2>1, <2>2, <2>3, <2>4 DEF Process
  <1>4. CASE ServerStep
    <2>1. ASSUME NEW c, Serve(c) PROVE sendFailed'
      <3>1. CASE ServeInit(c)
        BY <3>1 DEF ServeInit
      <3>2. CASE ServeEnter(c)
        BY <3>2 DEF ServeEnter, Reply
      <3>3. CASE ServeLeave(c) \/ ServeWait(c) \/ ServeSignal(c)
        BY <3>3 DEF ServeLeave, ServeWait, ServeSignal, PassOn, Refuse, Wake, Crash, Reply
      <3> QED
        BY <2>1, <3>1, <3>2, <3>3 DEF Serve
    <2> QED
      BY <1>4, <2>1 DEF ServerStep, InitCondition, InitReply, Reply
  <1> QED
    BY <1>1, <1>3, <1>4 DEF RWNext

RWInv == sendFailed \/ (ShallowInv /\ Core)

LEMMA InitRWInv == ProgramArguments /\ RWInit => RWInv
  <1> SUFFICES ASSUME ProgramArguments, RWInit PROVE RWInv
    OBVIOUS
  <1>1. ShallowInv
    BY InitShallowInv DEF RWInit
  <1>2. /\ pc[mainp] \in {"Initialize", "Create"} /\ \A c \in User : pc[c] = "uncreated"
        /\ pc = [c \in Client |-> pc[c]]
        /\ numReaders = 0 /\ busyWriting = 0
        /\ \A c \in Client : stage[c] = "running"
        /\ entry_queue = NULL /\ urgent_queue = NULL /\ \A k \in Cond : condition_queues[k] = NULL
        /\ current_owner = NoPid /\ ~MonServer_pid
    BY Users DEF RWInit, Init
  <1>3. \A c \in Client : pc[c] \notin MonPc
    BY <1>2, Users DEF MonPc
  <1>4. SetUp
    BY <1>2, <1>3, Users DEF SetUp
  <1>5. QueuesOk
    <2>1. Entry = <<>> /\ Urgent = <<>> /\ \A k \in Cond : Waiting(k) = <<>>
      BY <1>2 DEF Entry, Urgent, Waiting, Contents
    <2>2. In(<<>>) = {}
      BY DEF In
    <2> QED
      BY <2>1, <2>2 DEF QueuesOk
  <1>6. OwnerOk
    BY <1>2, <1>3, Users DEF OwnerOk, Within
  <1>7. Counted = {} /\ AtWriting = {}
    BY <1>2 DEF Counted, AtWriting, CountedPc, WritingPc, User
  <1>8. NumbersOk /\ SignalsOk
    BY <1>2, <1>7, CountedFinite DEF NumbersOk, SignalsOk
  <1> QED
    BY <1>1, <1>4, <1>5, <1>6, <1>8 DEF RWInv, Core

LEMMA RWInvAlone == RWInv => WriterAloneIfServed
  <1> SUFFICES ASSUME Core, NEW w \in Writer, NEW c \in Client, Working(w), Working(c)
               PROVE  c = w
    BY DEF RWInv, WriterAloneIfServed, WriterAlone
  <1>1. c # mainp /\ c \in User /\ w \in User
    BY Users DEF Working, Core, SetUp, User
  <1>2. pc[mainp] = "done"
    BY <1>1 DEF Working, Core, SetUp
  <1>3. w \in AtWriting
    BY <1>2 DEF Working, Core, SetUp, WriterPc, AtWriting, WritingPc
  <1>4. CASE c \in Reader
    <2>1. c \in Counted
      BY <1>2, <1>4 DEF Working, Core, SetUp, ReaderPc, Counted, CountedPc
    <2> QED
      BY <1>3, <2>1 DEF Core, NumbersOk
  <1>5. CASE c \in Writer
    <2>1. c \in AtWriting
      BY <1>2, <1>5 DEF Working, Core, SetUp, WriterPc, AtWriting, WritingPc
    <2> QED
      BY <1>3, <2>1 DEF Core, NumbersOk
  <1> QED
    BY <1>1, <1>4, <1>5 DEF User

LEMMA RWInvResume == RWInv => ConditionHoldsOnResume
  <1> SUFFICES ASSUME Core, NEW c \in Client, stage[c] = "running"
               PROVE  /\ pc[c] = "StartRead.woken"  => busyWriting = 0
                      /\ pc[c] = "StartWrite.woken" => busyWriting = 0 /\ numReaders = 0
    BY DEF RWInv, ConditionHoldsOnResume
  <1>1. pc[c] \in {"StartRead.woken", "StartWrite.woken"} => c \in User
    BY Users DEF Core, SetUp
  <1> QED
    BY <1>1, CountedFinite DEF Core, SignalsOk, NumbersOk

(***************************************************************************)
(* For any number of readers and writers, while every call finds the       *)
(* server and no wait queue holds two processes (beyond that the list      *)
(* library loses its links), a writer works alone.                         *)
(***************************************************************************)
THEOREM WriterWorksAlone ==
    ASSUME ProgramArguments
    PROVE  RWSpec /\ []ShallowQueues => []WriterAloneIfServed
  <1>1. RWInv /\ [RWNext]_<<vars, rwVars>> /\ ShallowQueues' => RWInv'
    BY RWStepOk, SendFailedStays DEF RWInv
  <1>2. RWInit => RWInv
    BY InitRWInv
  <1> QED
    BY <1>1, <1>2, RWInvAlone, PTL DEF RWSpec

(***************************************************************************)
(* So StartRead and StartWrite may test their condition with `if': a       *)
(* process resumed from MonWait finds still true what it waited for.       *)
(***************************************************************************)
THEOREM ConditionHolds ==
    ASSUME ProgramArguments
    PROVE  RWSpec /\ []ShallowQueues => []ConditionHoldsOnResume
  <1>1. RWInv /\ [RWNext]_<<vars, rwVars>> /\ ShallowQueues' => RWInv'
    BY RWStepOk, SendFailedStays DEF RWInv
  <1>2. RWInit => RWInv
    BY InitRWInv
  <1> QED
    BY <1>1, <1>2, RWInvResume, PTL DEF RWSpec

-----------------------------------------------------------------------------
(* One reader and one writer never fill a wait queue.                      *)
LEMMA ExactIsShallow ==
    ASSUME NEW p, p \in PoolType, PoolExact(p)
    PROVE  \A l \in ListId : p.count[l] <= 1
  BY DEF PoolType, PoolExact

LEMMA EmptyList ==
    ASSUME ShallowInv, entry_queue # NULL, NEW l \in ListId,
           \A d : d \notin In(Contents(pool, l))
    PROVE  pool.count[l] = 0
  <1>1. PoolOK(pool) /\ PoolExact(pool)
    BY DEF ShallowInv, MonitorInv, Initialised
  <1>2. ASSUME pool.count[l] # 0 PROVE FALSE
    <2>1. pool.count[l] = 1
      BY <1>1, <1>2 DEF PoolExact
    <2>2. Contents(pool, l) = <<pool.item[pool.head[l]]>>
      BY <1>1, <2>1, ContentsOne
    <2>3. pool.item[pool.head[l]] \in In(Contents(pool, l))
      BY <2>2 DEF In
    <2> QED
      BY <2>3
  <1> QED
    BY <1>2

LEMMA OneEachRoom ==
    ASSUME NEW r, NEW w, Reader = {r}, Writer = {w},
           ShallowInv, Core, NEW c \in User,
           ServeEnter(c) \/ ServeWait(c) \/ ServeSignal(c)
    PROVE  ShallowQueues'
  <1>1. /\ c \in Client /\ TypeOK /\ stage[c] = "sent" /\ PoolOK(pool) /\ init_pid = NoPid
        /\ msg[c].type \in {"MonEnter", "MonWait", "MonSignal"}
    BY Users DEF ShallowInv, MonitorInv, ServeEnter, ServeWait, ServeSignal, Receive
  <1>2. entry_queue # NULL
    BY <1>1, InitialisedIfCalled
  <1>3. /\ PoolExact(pool) /\ entry_queue \in ListId /\ urgent_queue \in ListId
        /\ ~crashed
    BY <1>2, QueuesDistinct DEF ShallowInv, Initialised
  <1>4. \A a, b, d \in User : a = b \/ b = d \/ a = d
    BY DEF User
  <1>5. ASSUME PoolOK(pool'), PoolExact(pool') PROVE ShallowQueues'
    BY <1>5, ExactIsShallow DEF ShallowQueues, PoolOK
  <1>6. ASSUME pool' = pool PROVE ShallowQueues'
    BY <1>1, <1>3, <1>5, <1>6
  <1>7. CASE ServeEnter(c)
    <2>1. CASE monitor_locked # 0
      <3>1. current_owner # NoPid
        BY <1>1, <2>1 DEF ShallowInv, TypeOK
      <3>2. ~Within(c)
        BY <1>1, <1>7, BlockedPc DEF ServeEnter, Receive
      <3>3. current_owner \in User /\ Within(current_owner) /\ current_owner # c
        BY <3>1, <3>2 DEF Core, OwnerOk
      <3>4. \A d \in In(Entry) : d \in User /\ stage[d] = "held" /\ d # c /\ d # current_owner
        BY <1>1, <3>3, InQueue DEF Within
      <3>5. pool.count[entry_queue] = 0
        BY <1>2, <1>3, <1>4, <3>3, <3>4, EmptyList DEF Entry
      <3>6. pool' = ListAppend(pool, entry_queue, c).pool
        BY <1>7, <2>1 DEF ServeEnter
      <3> QED
        BY <1>1, <1>3, <1>5, <3>5, <3>6, AppendExact
    <2> QED
      BY <1>6, <1>7, <2>1 DEF ServeEnter
  <1>8. CASE ServeWait(c)
    <2> DEFINE i == msg[c].arg
               l == condition_queues[i]
               p == ListAppend(pool, l, c).pool
    <2>1. CASE MayUse(c, i)
      <3>1. i \in Cond /\ l \in ListId
        BY <1>1, <1>2, <2>1, UsableIfMayUse
      <3>2. msg[c].type = "MonWait"
        BY <1>8 DEF ServeWait, Receive
      <3>3. /\ i = OKtoRead => pc[c] = "StartRead.woken"
            /\ i = OKtoWrite => pc[c] = "StartWrite.woken"
            /\ i = OKtoRead \/ i = OKtoWrite
        <4>1. \/ msg[c] = Wait(OKtoRead) /\ pc[c] = "StartRead.woken"
              \/ msg[c] = Wait(OKtoWrite) /\ pc[c] = "StartWrite.woken"
          BY <1>1, <3>2, BlockedPc
        <4> QED
          BY <4>1 DEF Wait, OKtoRead, OKtoWrite
      <3>4. \A d \in In(Waiting(i)) : d \in User /\ stage[d] = "held" /\ pc[d] = pc[c]
        BY <3>1, <3>3, InQueue
      <3>5. \A d \in User : stage[d] # "running" /\ pc[d] = pc[c] => d = c
        <4>1. \A d \in User : stage[d] # "running" =>
                /\ pc[d] = "StartRead.woken" => d = r
                /\ pc[d] = "StartWrite.woken" => d = w
          BY BlockedAt DEF User, ReaderPc, WriterPc
        <4> QED
          BY <1>1, <3>3, <4>1
      <3>6. \A d : d \notin In(Contents(pool, l))
        BY <1>1, <3>4, <3>5 DEF Waiting
      <3>7. pool.count[l] = 0
        BY <1>2, <3>1, <3>6, EmptyList
      <3>8. PoolOK(p) /\ PoolExact(p)
        BY <1>1, <1>3, <3>1, <3>7, AppendExact
      <3> HIDE DEF p
      <3>9. NextOwner(p).ret # NULL /\ PoolOK(NextOwner(p).pool) /\ PoolExact(NextOwner(p).pool)
        BY <1>2, <3>8, NextOwnerExact
      <3>10. pool' = NextOwner(p).pool
        <4>1. PassOn(p, {}, {c})
          BY <1>8, <2>1 DEF ServeWait, p
        <4> QED
          BY <3>9, <4>1 DEF PassOn
      <3> QED
        BY <1>5, <3>9, <3>10
    <2> QED
      BY <1>6, <1>8, <2>1 DEF ServeWait, Refuse
  <1>9. CASE ServeSignal(c)
    <2> DEFINE i == msg[c].arg
               l == condition_queues[i]
               first == PopFirst(pool, l)
    <2>1. CASE MayUse(c, i) /\ ListCount(pool, l) > 0
      <3>1. i \in Cond /\ l \in ListId
        BY <1>1, <1>2, <2>1, UsableIfMayUse
      <3>2. pool.count[l] # 0
        BY <2>1, <3>1, NodesFinite DEF ListCount
      <3>3. /\ PoolOK(first.pool) /\ PoolExact(first.pool) /\ first.ret # NULL
            /\ Contents(pool, l) = <<first.ret>>
            /\ \A m \in ListId : first.pool.count[m] = IF m = l THEN 0 ELSE pool.count[m]
        BY <1>1, <1>3, <3>1, <3>2, PopExact
      <3>4. Wake(c, l)
        <4>1. pool.count[l] \in Nat /\ l # NULL
          BY <1>1, <3>1, NodesFinite DEF PoolOK, PoolType
        <4> QED
          BY <1>9, <2>1, <4>1 DEF ServeSignal, ListCount
      <3>5. pool' = ListAppend(first.pool, urgent_queue, c).pool
        BY <3>3, <3>4 DEF Wake
      <3> HIDE DEF first
      <3>6. first.ret \in In(Waiting(i))
        BY <3>3 DEF Waiting, In
      <3>7. first.ret \in User /\ first.ret # c /\ first.ret \notin In(Urgent)
        BY <1>1, <3>1, <3>6, InQueue
      <3>8. \A d \in In(Urgent) : d \in User /\ d # c
        BY <1>1, InQueue
      <3>9. \A d : d \notin In(Urgent)
        BY <1>4, <3>7, <3>8
      <3>10. pool.count[urgent_queue] = 0
        BY <1>2, <1>3, <3>9, EmptyList DEF Urgent
      <3>11. first.pool.count[urgent_queue] = 0
        BY <1>3, <3>3, <3>10
      <3> QED
        BY <1>1, <1>3, <1>5, <3>3, <3>5, <3>11, AppendExact
    <2>2. CASE ~(MayUse(c, i) /\ ListCount(pool, l) > 0)
      <3>1. Refuse(c)
        BY <1>9, <2>2 DEF ServeSignal
      <3> QED
        BY <1>6, <3>1 DEF Refuse
    <2> QED
      BY <2>1, <2>2
  <1> QED
    BY <1>7, <1>8, <1>9

(***************************************************************************)
(* With one reader and one writer, as many as keep every wait queue short, *)
(* nothing has to be supposed of the queues.                               *)
(***************************************************************************)
THEOREM WriterWorksAloneOneEach ==
    ASSUME ProgramArguments, NEW r, NEW w, Reader = {r}, Writer = {w}
    PROVE  RWSpec => [](WriterAloneIfServed /\ ConditionHoldsOnResume)
  <1>1. RWInv /\ [RWNext]_<<vars, rwVars>> => RWInv'
    BY RWStepOk, OneEachRoom, SendFailedStays DEF RWInv
  <1>2. RWInit => RWInv
    BY InitRWInv
  <1> QED
    BY <1>1, <1>2, RWInvAlone, RWInvResume, PTL DEF RWSpec

=============================================================================
