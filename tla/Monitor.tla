------------------------------ MODULE Monitor -------------------------------
(***************************************************************************)
(* The monitor of Part B (Monitor.c): a server process, MonServer, and the *)
(* five calls MonInit, MonEnter, MonLeave, MonWait and MonSignal, each of  *)
(* which Sends one message to the server and blocks until its Reply.  The  *)
(* server keeps blocked processes in lists of the list library, modelled   *)
(* as it is in ListPool.                                                   *)
(*                                                                         *)
(* Every client may make any call at any time, with any argument of        *)
(* InitArgs or CondArgs.  A null pointer dereferenced by the server ends   *)
(* the whole program (the processes are threads of one Unix process).      *)
(*                                                                         *)
(* A wait-queue item is a malloc'd PID; the model stores the PID itself.   *)
(* The -1 of a PID variable is NoPid.                                      *)
(***************************************************************************)
EXTENDS ListPool

CONSTANTS Client,      \* processes that use the monitor
          NoPid,       \* the PID -1
          MAX_CONDS,   \* length of condition_queues
          InitArgs,    \* arguments given to MonInit
          CondArgs,    \* arguments given to MonWait and MonSignal
          InitFirst    \* TRUE: no other call until the server has taken a MonInit

ASSUME MonitorAssumption ==
    /\ MAX_CONDS \in Nat
    /\ InitArgs \subseteq Int
    /\ CondArgs \subseteq Int
    /\ NULL \notin Client
    /\ NoPid \notin Client
    /\ NoPid # NULL
    /\ InitFirst \in BOOLEAN

VARIABLES
    pool,               \* the list library's globals
    entry_queue,        \* a list, or NULL
    urgent_queue,       \* a list, or NULL
    condition_queues,   \* for each condition a list, or NULL
    num_conditions,
    monitor_locked,
    current_owner,
    MonServer_pid,      \* TRUE once the server process exists
    init_pid,           \* sender of the MonInit message being served, or NoPid
    init_i,             \* the loop variable i while it is served
    stage,              \* "running", "sent" (message not received) or "held"
    msg,                \* the message each blocked client has sent
    inside,             \* history: MonEnter has returned, MonLeave not been called
    sendFailed,         \* history: a Send found no server
    crashed             \* the program was ended by a null dereference

queueVars  == <<entry_queue, urgent_queue, condition_queues>>
lockVars   == <<monitor_locked, current_owner>>
initVars   == <<init_pid, init_i>>
clientVars == <<stage, msg, inside>>
vars == <<pool, queueVars, num_conditions, lockVars, MonServer_pid, initVars,
          clientVars, sendFailed, crashed>>

Cond == 0 .. MAX_CONDS - 1

ListPtr == ListId \cup {NULL}

(* MonMsg; the calls without an argument send 0.                           *)
MonMsg ==
    [type : {"MonInit"}, arg : InitArgs]
      \cup [type : {"MonEnter", "MonLeave"}, arg : {0}]
      \cup [type : {"MonWait", "MonSignal"}, arg : CondArgs]

NoMsg == [type |-> "none", arg |-> 0]

Init ==
    /\ pool = InitialPool
    /\ entry_queue = NULL
    /\ urgent_queue = NULL
    /\ condition_queues = [i \in Cond |-> NULL]
    /\ num_conditions = 0
    /\ monitor_locked = 0
    /\ current_owner = NoPid
    /\ MonServer_pid = FALSE
    /\ init_pid = NoPid
    /\ init_i = 0
    /\ stage = [c \in Client |-> "running"]
    /\ msg = [c \in Client |-> NoMsg]
    /\ inside = [c \in Client |-> FALSE]
    /\ sendFailed = FALSE
    /\ crashed = FALSE

-----------------------------------------------------------------------------
(* The client side.                                                        *)

MayCall(c, m) ==
    /\ ~crashed
    /\ stage[c] = "running"
    /\ InitFirst /\ m.type # "MonInit" => entry_queue # NULL

(* inside after client c has made the call of m: only MonLeave ends it.    *)
AfterCall(c, m) == [inside EXCEPT ![c] = @ /\ m.type # "MonLeave"]

(* Send reaches the server: the client is blocked until the Reply.         *)
Send(c, m) ==
    /\ stage' = [stage EXCEPT ![c] = "sent"]
    /\ msg' = [msg EXCEPT ![c] = m]
    /\ inside' = AfterCall(c, m)
    /\ UNCHANGED sendFailed

(* Send returns NULL: the call prints an error and returns as if it had    *)
(* been served, MonEnter too.                                              *)
SendToNobody(c, m) ==
    /\ inside' = [AfterCall(c, m) EXCEPT ![c] = @ \/ m.type = "MonEnter"]
    /\ sendFailed' = TRUE
    /\ UNCHANGED <<stage, msg>>

(* MonEnter, MonLeave, MonWait and MonSignal.                              *)
Call(c, m) ==
    /\ MayCall(c, m)
    /\ m.type # "MonInit"
    /\ IF MonServer_pid THEN Send(c, m) ELSE SendToNobody(c, m)
    /\ UNCHANGED <<pool, queueVars, num_conditions, lockVars, MonServer_pid,
                   initVars, crashed>>

(* MonInit creates the server on its first call.  Create may fail, and     *)
(* MonInit then returns without a word to its caller.  Its test and the    *)
(* assignment of MonServer_pid are one step: two first calls that overtake *)
(* each other there are not modelled.                                      *)
MonInit(c, m) ==
    /\ MayCall(c, m)
    /\ m.type = "MonInit"
    /\ \/ MonServer_pid' = TRUE /\ Send(c, m)
       \/ ~MonServer_pid /\ UNCHANGED <<MonServer_pid, clientVars, sendFailed>>
    /\ UNCHANGED <<pool, queueVars, num_conditions, lockVars, initVars, crashed>>

-----------------------------------------------------------------------------
(* The server side.                                                        *)

(* Receive: any sent message may be next.  The handler runs to its end,    *)
(* except that MonInit's loop over the conditions is one step per turn.    *)
Receive(c, type) ==
    /\ ~crashed
    /\ init_pid = NoPid
    /\ stage[c] = "sent"
    /\ msg[c].type = type

(* Reply to the clients of R, while those of H stay blocked (a process in  *)
(* both was put on a queue and taken off again).                           *)
Reply(R, H) ==
    /\ stage' = [c \in Client |-> IF c \in R THEN "running"
                                  ELSE IF c \in H THEN "held" ELSE stage[c]]
    /\ inside' = [c \in Client |-> inside[c] \/ (c \in R /\ msg[c].type = "MonEnter")]
    /\ msg' = [c \in Client |-> IF c \in R THEN NoMsg ELSE msg[c]]
    /\ UNCHANGED sendFailed

Crash ==
    /\ crashed' = TRUE
    /\ UNCHANGED <<pool, queueVars, num_conditions, lockVars, MonServer_pid,
                   initVars, clientVars, sendFailed>>

ServeEnter(c) ==
    /\ Receive(c, "MonEnter")
    /\ \/ /\ monitor_locked = 0
          /\ monitor_locked' = 1
          /\ current_owner' = c
          /\ Reply({c}, {})
          /\ UNCHANGED pool
       \/ /\ monitor_locked # 0
          /\ pool' = ListAppend(pool, entry_queue, c).pool
          /\ Reply({}, {c})
          /\ UNCHANGED lockVars
    /\ UNCHANGED <<queueVars, num_conditions, MonServer_pid, initVars, crashed>>

(* Mutant: entry_queue is served before urgent_queue.                      *)
NextOwnerEntryFirst(p) ==
    LET q == IF ListCount(p, entry_queue) > 0 THEN entry_queue ELSE urgent_queue
    IN  IF ListCount(p, q) > 0 THEN PopFirst(p, q) ELSE [pool |-> p, ret |-> NoPid]

(* Mutant: the test that entry_queue is not empty is missing.              *)
NextOwnerUnchecked(p) ==
    LET q == IF ListCount(p, urgent_queue) > 0 THEN urgent_queue ELSE entry_queue
    IN  PopFirst(p, q)

(* The process that gets a released monitor: the first of urgent_queue if  *)
(* it is not empty, else the first of entry_queue, else nobody.            *)
NextOwner(p) ==
    LET q == IF ListCount(p, urgent_queue) > 0 THEN urgent_queue ELSE entry_queue
    IN  IF ListCount(p, q) > 0 THEN PopFirst(p, q) ELSE [pool |-> p, ret |-> NoPid]

(* The monitor is released, with the library in state p, and passed on.    *)
PassOn(p, R, H) ==
    LET next == NextOwner(p)
    IN  \/ next.ret = NULL /\ Crash
        \/ /\ next.ret # NULL
           /\ pool' = next.pool
           /\ current_owner' = next.ret
           /\ monitor_locked' = IF next.ret = NoPid THEN 0 ELSE 1
           /\ Reply(R \cup ({next.ret} \ {NoPid}), H)
           /\ UNCHANGED <<queueVars, num_conditions, MonServer_pid, initVars, crashed>>

(* The reply -1, which every client call ignores.                          *)
Refuse(c) ==
    /\ Reply({c}, {})
    /\ UNCHANGED <<pool, queueVars, num_conditions, lockVars, MonServer_pid,
                   initVars, crashed>>

ServeLeave(c) ==
    /\ Receive(c, "MonLeave")
    /\ \/ current_owner = c /\ PassOn(pool, {c}, {})
       \/ current_owner # c /\ Refuse(c)

(* Mutant: the caller need not own the monitor.                            *)
MayUseByAnyone(c, cond) == cond >= 0 /\ cond < num_conditions

MayUse(c, cond) == current_owner = c /\ cond >= 0 /\ cond < num_conditions

ServeWait(c) ==
    LET cond == msg[c].arg
    IN  /\ Receive(c, "MonWait")
        /\ \/ /\ MayUse(c, cond)
              /\ PassOn(ListAppend(pool, condition_queues[cond], c).pool, {}, {c})
           \/ ~MayUse(c, cond) /\ Refuse(c)

(* Mutant: the signaller is blocked but put on no queue.                   *)
WakeLosingSignaller(c, queue) ==
    LET first == PopFirst(pool, queue)
    IN  \/ first.ret = NULL /\ Crash
        \/ /\ first.ret # NULL
           /\ pool' = first.pool
           /\ current_owner' = first.ret
           /\ Reply({first.ret}, {c})
           /\ UNCHANGED <<queueVars, num_conditions, monitor_locked,
                          MonServer_pid, initVars, crashed>>

(* The woken process takes over at once; the signaller becomes urgent.     *)
Wake(c, queue) ==
    LET first == PopFirst(pool, queue)
    IN  \/ first.ret = NULL /\ Crash
        \/ /\ first.ret # NULL
           /\ pool' = ListAppend(first.pool, urgent_queue, c).pool
           /\ current_owner' = first.ret
           /\ Reply({first.ret}, {c})
           /\ UNCHANGED <<queueVars, num_conditions, monitor_locked,
                          MonServer_pid, initVars, crashed>>

ServeSignal(c) ==
    LET cond == msg[c].arg
    IN  /\ Receive(c, "MonSignal")
        /\ \/ /\ MayUse(c, cond)
              /\ ListCount(pool, condition_queues[cond]) > 0
              /\ Wake(c, condition_queues[cond])
           \/ /\ MayUse(c, cond)
              /\ ListCount(pool, condition_queues[cond]) <= 0
              /\ Refuse(c)   \* the reply is 0 here; the caller cannot tell
           \/ ~MayUse(c, cond) /\ Refuse(c)

(* if (queue == NULL) queue = ListCreate();                                *)
CreateIfNull(p, queue) ==
    IF queue = NULL THEN ListCreate(p) ELSE [pool |-> p, ret |-> queue]

(* Mutant: the number of conditions is taken as it comes.                  *)
UncappedConditions(n) == n

CappedConditions(n) == IF n > MAX_CONDS THEN MAX_CONDS ELSE n

ServeInit(c) ==
    LET entry  == CreateIfNull(pool, entry_queue)
        urgent == CreateIfNull(entry.pool, urgent_queue)
    IN  /\ Receive(c, "MonInit")
        /\ num_conditions' = CappedConditions(msg[c].arg)
        /\ entry_queue' = entry.ret
        /\ urgent_queue' = urgent.ret
        /\ pool' = urgent.pool
        /\ init_pid' = c
        /\ init_i' = 0
        /\ UNCHANGED <<condition_queues, lockVars, MonServer_pid, clientVars,
                       sendFailed, crashed>>

InitCondition ==
    LET queue == CreateIfNull(pool, condition_queues[init_i])
    IN  /\ ~crashed
        /\ init_pid # NoPid
        /\ init_i < num_conditions
        /\ condition_queues' = [condition_queues EXCEPT ![init_i] = queue.ret]
        /\ pool' = queue.pool
        /\ init_i' = init_i + 1
        /\ UNCHANGED <<entry_queue, urgent_queue, num_conditions, lockVars,
                       MonServer_pid, init_pid, clientVars, sendFailed, crashed>>

InitReply ==
    /\ ~crashed
    /\ init_pid # NoPid
    /\ init_i >= num_conditions
    /\ init_pid' = NoPid
    /\ init_i' = 0
    /\ Reply({init_pid}, {})
    /\ UNCHANGED <<pool, queueVars, num_conditions, lockVars, MonServer_pid, crashed>>

-----------------------------------------------------------------------------
ClientStep(c) == \E m \in MonMsg : Call(c, m) \/ MonInit(c, m)

Serve(c) ==
    \/ ServeEnter(c)
    \/ ServeLeave(c)
    \/ ServeWait(c)
    \/ ServeSignal(c)
    \/ ServeInit(c)

ServerStep == (\E c \in Client : Serve(c)) \/ InitCondition \/ InitReply

Next == (\E c \in Client : ClientStep(c)) \/ ServerStep

Spec == Init /\ [][Next]_vars

-----------------------------------------------------------------------------
(* Types.  Every index stays in its array or is NIL.                       *)

PoolType ==
    [item   : [Node -> Client \cup {NULL}],
     next   : [Node -> NodeOrNil],
     prev   : [Node -> NodeOrNil],
     link   : [Node -> NodeOrNil],
     head   : [ListId -> NodeOrNil],
     tail   : [ListId -> NodeOrNil],
     curr   : [ListId -> NodeOrNil],
     count  : [ListId -> Nat],
     before : [ListId -> {0, 1}],
     after  : [ListId -> {0, 1}],
     llink  : [ListId -> ListIdOrNil],
     free_node_head : NodeOrNil,
     free_list_head : ListIdOrNil,
     initialized    : {0, 1}]

(***************************************************************************)
(* Every variable keeps its type through every handler; in particular no   *)
(* list operation of MonServer indexes pool_nodes with -1, and             *)
(* num_conditions never exceeds the length of condition_queues.            *)
(***************************************************************************)
TypeOK ==
    /\ pool \in PoolType
    /\ entry_queue \in ListPtr
    /\ urgent_queue \in ListPtr
    /\ condition_queues \in [Cond -> ListPtr]
    /\ num_conditions \in Int /\ num_conditions <= MAX_CONDS
    /\ monitor_locked \in {0, 1}
    /\ current_owner \in Client \cup {NoPid}
    /\ MonServer_pid \in BOOLEAN
    /\ init_pid \in Client \cup {NoPid}
    /\ init_i \in Nat
    /\ stage \in [Client -> {"running", "sent", "held"}]
    /\ msg \in [Client -> MonMsg \cup {NoMsg}]
    /\ inside \in [Client -> BOOLEAN]
    /\ sendFailed \in BOOLEAN
    /\ crashed \in BOOLEAN

(* Client c executes between its MonEnter and its MonLeave.                *)
Active(c) == inside[c] /\ stage[c] = "running"

(***************************************************************************)
(* As long as no call was made before there was a server, two clients are  *)
(* never active in the monitor together, whatever calls the clients make   *)
(* and in whatever order the server receives them, through signals, waits  *)
(* and releases.                                                           *)
(***************************************************************************)
MutualExclusion ==
    ~sendFailed => \A c, d \in Client : Active(c) /\ Active(d) => c = d

(***************************************************************************)
(* MonServer never dereferences the NULL that ListFirst returns.           *)
(***************************************************************************)
NoCrash == ~crashed

(***************************************************************************)
(* A client blocked by the server is known to it: its PID is the item of   *)
(* a node, so that some later call can resume it.                          *)
(***************************************************************************)
HeldIsQueued ==
    ~crashed => \A c \in Client : stage[c] = "held" =>
                    \E n \in Node : pool.item[n] = c

(***************************************************************************)
(* A MonSignal that passes the monitor on passes it to a process blocked   *)
(* in MonWait on the signalled condition, and to no other.                 *)
(***************************************************************************)
SignalWakesAWaiter ==
    [][\A c \in Client :
         /\ current_owner = c
         /\ stage[c] = "sent"
         /\ stage'[c] = "held"
         /\ msg[c].type = "MonSignal"
         => msg[current_owner'] = [type |-> "MonWait", arg |-> msg[c].arg]]_vars

-----------------------------------------------------------------------------
(* The inductive invariant behind TypeOK and MutualExclusion.              *)

(***************************************************************************)
(* What the list operations keep true of the pool, whatever became of the  *)
(* order of the lists: a node in use has a predecessor (perhaps itself),   *)
(* and a list that counts items has a first and a last node.               *)
(***************************************************************************)
PoolOK(p) ==
    /\ p \in PoolType
    /\ \A n \in Node : p.item[n] # NULL => p.prev[n] \in Node
    /\ \A l \in ListId : p.count[l] > 0 => p.head[l] \in Node /\ p.tail[l] \in Node

(* No process is queued twice, and those queued are all of S.              *)
Queued(p, S) ==
    /\ \A n \in Node : p.item[n] # NULL => p.item[n] \in S
    /\ \A m, n \in Node : p.item[m] # NULL /\ p.item[m] = p.item[n] => m = n

Held == {c \in Client : stage[c] = "held"}

(***************************************************************************)
(* The server's view of who is inside agrees with the clients': a client   *)
(* inside the monitor that is not blocked by the server owns it, only      *)
(* blocked clients are in the lists, each at most once, and a client that  *)
(* is leaving or initialising is what the server thinks it is.             *)
(***************************************************************************)
MonitorInv ==
    /\ TypeOK
    /\ PoolOK(pool)
    /\ Queued(pool, Held)
    /\ current_owner # NoPid => monitor_locked = 1
    /\ \A c \in Client : stage[c] # "running" /\ msg[c].type = "MonLeave" => ~inside[c]
    /\ init_pid # NoPid => stage[init_pid] = "sent" /\ msg[init_pid].type = "MonInit"
    /\ ~sendFailed => \A c \in Client :
                          inside[c] /\ stage[c] # "held" => current_owner = c

=============================================================================
