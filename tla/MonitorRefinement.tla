------------------------- MODULE MonitorRefinement --------------------------
(***************************************************************************)
(* Monitor implements HoareMonitor: the refinement mapping reads each wait *)
(* queue off the list library's nodes, from the list's head along next.    *)
(* It does so for a use of the monitor in which the list library is exact: *)
(* nothing but MonInit is called before the server has taken one, and no   *)
(* wait queue ever holds two processes.                                    *)
(***************************************************************************)
EXTENDS Monitor, Sequences, FiniteSets

CONSTANT Uses   \* of "any", "initialised" (MonInit first) and "shallow" (and
                \* queues of one process)

(* The sizes of list.h and Monitor.c are 1000 nodes, 20 lists and 8        *)
(* conditions.                                                             *)
ASSUME PoolsSuffice ==
    /\ MAX_CONDS + 2 <= MAX_LISTS
    /\ MAX_LISTS < MAX_NODES

VARIABLE use    \* one of Uses, for good

InitialisedFirst ==
    /\ ~sendFailed'
    /\ entry_queue = NULL => \A c \in Client : msg'[c].type \in {"none", "MonInit"}

ShallowQueues == \A l \in ListId : pool.count[l] <= 1

UseInit == Init /\ use \in Uses

UseNext ==
    /\ Next
    /\ use # "any" => InitialisedFirst
    /\ use = "shallow" => ShallowQueues'
    /\ UNCHANGED use

UseSpec == UseInit /\ [][UseNext]_<<vars, use>>

(* The node at place k of list l; NIL if the chain ends before it.         *)
NthNode(p, l) ==
    LET nth[k \in 1 .. p.count[l]] ==
          IF k = 1 THEN p.head[l]
          ELSE IF nth[k - 1] = NIL THEN NIL ELSE p.next[nth[k - 1]]
    IN  nth

ItemAt(p, n) == IF n = NIL THEN NULL ELSE p.item[n]

(* What ListFirst and ListNext would return, from the first to the last.   *)
Contents(p, l) ==
    IF l = NULL THEN <<>>
    ELSE [k \in 1 .. p.count[l] |-> ItemAt(p, NthNode(p, l)[k])]

Hoare == INSTANCE HoareMonitor WITH
    owner      <- current_owner,
    entry      <- Contents(pool, entry_queue),
    urgent     <- Contents(pool, urgent_queue),
    waiting    <- [k \in Cond |-> Contents(pool, condition_queues[k])],
    conditions <- num_conditions,
    setup      <- init_pid,
    Message    <- MonMsg

(***************************************************************************)
(* In shallow use, every step of the server and its clients is a step of a *)
(* Hoare monitor with FIFO queues, or changes nothing the clients can see. *)
(* (use is constant: this is use = "shallow" => Hoare!Spec.)               *)
(***************************************************************************)
ImplementsHoareMonitor ==
    Hoare!Init /\ [][use = "shallow" => Hoare!Next]_(Hoare!vars)

(***************************************************************************)
(* In shallow use MonServer never dereferences the NULL that ListFirst     *)
(* returns for a list whose nodes have come apart.                         *)
(***************************************************************************)
NoCrashIfShallow == use = "shallow" => NoCrash

(***************************************************************************)
(* In shallow use, a client blocked by the server is known to it.          *)
(***************************************************************************)
HeldIsQueuedIfShallow == use = "shallow" => HeldIsQueued

-----------------------------------------------------------------------------
(* The inductive invariant of shallow use.                                 *)

(* The elements of S are linked by next, each once, from first to NIL.     *)
Chained(S, first, next) ==
    LET n == Cardinality(S)
    IN  \E s \in [1 .. n -> S] :
          /\ \A x \in S : \E i \in 1 .. n : s[i] = x
          /\ \A i, j \in 1 .. n : s[i] = s[j] => i = j
          /\ first = IF n = 0 THEN NIL ELSE s[1]
          /\ \A i \in 1 .. n : next[s[i]] = IF i = n THEN NIL ELSE s[i + 1]

(* The nodes in use are those of the lists with an item, one each, linked  *)
(* to themselves; all others can be allocated.                             *)
PoolExact(p) ==
    /\ \A l \in ListId : p.count[l] # 0 =>
         /\ p.count[l] = 1
         /\ p.head[l] \in Node
         /\ p.item[p.head[l]] # NULL
         /\ p.prev[p.head[l]] = p.head[l]
         /\ p.next[p.head[l]] = p.head[l]
    /\ \A n \in Node : p.item[n] # NULL =>
         \E l \in ListId : p.count[l] # 0 /\ p.head[l] = n
    /\ \A l, m \in ListId :
         p.count[l] # 0 /\ p.count[m] # 0 /\ p.head[l] = p.head[m] => l = m
    /\ Chained({n \in Node : p.item[n] = NULL}, p.free_node_head, p.link)

(* The queue variables: entry_queue, urgent_queue and condition_queues.    *)
QueueVar == -2 .. MAX_CONDS - 1
Queue(k) == IF k = -2 THEN entry_queue
            ELSE IF k = -1 THEN urgent_queue ELSE condition_queues[k]
FreeLists == {l \in ListId : \A k \in QueueVar : Queue(k) # l}

(* Every queue variable that is set has a list of its own; the other lists *)
(* are empty and can be created.                                           *)
ListsExact ==
    /\ pool.initialized = 1
    /\ \A j, k \in QueueVar : Queue(j) = Queue(k) => j = k \/ Queue(j) = NULL
    /\ \A l \in FreeLists : pool.count[l] = 0
    /\ Chained(FreeLists, pool.free_list_head, pool.llink)

(* Before the server takes the first MonInit.                              *)
NotInitialised ==
    /\ pool = InitialPool
    /\ \A k \in QueueVar : Queue(k) = NULL
    /\ num_conditions = 0
    /\ init_pid = NoPid
    /\ \A c \in Client : msg[c].type \in {"none", "MonInit"}

Initialised ==
    /\ PoolExact(pool)
    /\ ListsExact
    /\ urgent_queue # NULL
    /\ \A k \in Cond :
         k < (IF init_pid = NoPid THEN num_conditions ELSE init_i)
           => condition_queues[k] # NULL

(***************************************************************************)
(* The server has not crashed, an unlocked monitor has no owner, whoever   *)
(* is blocked by the server is the item of a node, and the library is      *)
(* untouched before the first MonInit and exact after it.                  *)
(***************************************************************************)
ShallowInv ==
    /\ MonitorInv
    /\ ~crashed
    /\ ~sendFailed
    /\ monitor_locked = 1 => current_owner # NoPid
    /\ \A c \in Client : stage[c] = "held" => \E n \in Node : pool.item[n] = c
    /\ IF entry_queue = NULL THEN NotInitialised ELSE Initialised

(***************************************************************************)
(* In shallow use the list library holds exactly what MonServer queued.    *)
(***************************************************************************)
ShallowInvIfShallow == use = "shallow" => ShallowInv

=============================================================================
