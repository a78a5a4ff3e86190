------------------------------ MODULE ListPool ------------------------------
(***************************************************************************)
(* The list library of Assignment 1 (list.h, list_adders.c, list_movers.c, *)
(* list_removers.c): doubly linked lists cut out of two static pools.      *)
(*                                                                         *)
(* A pool is one record, the library's global variables:                   *)
(*   item, next, prev, link   the fields of pool_nodes[i], a function each *)
(*   head, tail, curr, count, before, after, llink                         *)
(*                            the fields of pool_lists[j], a function each *)
(*   free_node_head, free_list_head, initialized                           *)
(* Every library function is an operator from a pool (and its arguments)   *)
(* to the pool it leaves behind, `pool', and the value it returns, `ret'.  *)
(* Nodes and lists are their array indices, NIL (-1) the invalid index;    *)
(* a LIST pointer is the list's index or NULL.                             *)
(***************************************************************************)
EXTENDS Integers

CONSTANTS MAX_NODES,  \* nodes in pool_nodes
          MAX_LISTS,  \* lists in pool_lists
          NULL        \* the null pointer

ASSUME PoolAssumption ==
    /\ MAX_NODES \in Nat \ {0}
    /\ MAX_LISTS \in Nat \ {0}
    /\ NULL \notin 0 .. MAX_LISTS - 1

NIL == -1

Node   == 0 .. MAX_NODES - 1
ListId == 0 .. MAX_LISTS - 1

NodeOrNil   == Node \cup {NIL}
ListIdOrNil == ListId \cup {NIL}

(***************************************************************************)
(* The globals before the first call: static storage, so all zero, and the *)
(* two free chains start at index 0.                                       *)
(***************************************************************************)
InitialPool ==
    [item   |-> [n \in Node |-> NULL],
     next   |-> [n \in Node |-> 0],
     prev   |-> [n \in Node |-> 0],
     link   |-> [n \in Node |-> 0],
     head   |-> [l \in ListId |-> 0],
     tail   |-> [l \in ListId |-> 0],
     curr   |-> [l \in ListId |-> 0],
     count  |-> [l \in ListId |-> 0],
     before |-> [l \in ListId |-> 0],
     after  |-> [l \in ListId |-> 0],
     llink  |-> [l \in ListId |-> 0],
     free_node_head |-> 0,
     free_list_head |-> 0,
     initialized    |-> 0]

(***************************************************************************)
(* ListCreate: the first call chains all nodes and all lists; every call   *)
(* takes the first free list.                                              *)
(***************************************************************************)
ChainedPool(p) ==
    [p EXCEPT !.item   = [n \in Node |-> NULL],
              !.next   = [n \in Node |-> NIL],
              !.prev   = [n \in Node |-> NIL],
              !.link   = [n \in Node |-> IF n = MAX_NODES - 1 THEN NIL ELSE n + 1],
              !.head   = [l \in ListId |-> NIL],
              !.tail   = [l \in ListId |-> NIL],
              !.curr   = [l \in ListId |-> NIL],
              !.count  = [l \in ListId |-> 0],
              !.before = [l \in ListId |-> 1],
              !.after  = [l \in ListId |-> 0],
              !.llink  = [l \in ListId |-> IF l = MAX_LISTS - 1 THEN NIL ELSE l + 1],
              !.initialized = 1]

TakeList(p) ==
    LET l == p.free_list_head
    IN  IF l = NIL
        THEN [pool |-> p, ret |-> NULL]
        ELSE [pool |-> [p EXCEPT !.free_list_head = p.llink[l],
                                 !.llink = [p.llink EXCEPT ![l] = NIL]],
              ret  |-> l]

ListCreate(p) == TakeList(IF p.initialized = 0 THEN ChainedPool(p) ELSE p)

(* ListCount: -1 for the null pointer.                                     *)
ListCount(p, l) == IF l = NULL THEN -1 ELSE p.count[l]

(***************************************************************************)
(* nodeAllocator: pop the free chain; NIL when it is empty.                *)
(***************************************************************************)
NodeAllocator(p) ==
    LET i == p.free_node_head
    IN  IF i = NIL
        THEN [pool |-> p, ret |-> NIL]
        ELSE [pool |-> [p EXCEPT !.free_node_head = p.link[i],
                                 !.link = [p.link EXCEPT ![i] = NIL],
                                 !.next = [p.next EXCEPT ![i] = NIL],
                                 !.prev = [p.prev EXCEPT ![i] = NIL]],
              ret  |-> i]

(***************************************************************************)
(* ListAppend.  On an empty list the code first makes the new node i the   *)
(* head, the tail and the current node, and then links i after the tail,   *)
(* which by now is i itself: prev[i] = next[i] = i.                        *)
(***************************************************************************)
Link(p, l, i, x) ==
    LET empty == p.count[l] = 0
        t     == IF empty THEN i ELSE p.tail[l]
    IN  [p EXCEPT !.item   = [p.item EXCEPT ![i] = x],
                  !.prev   = [p.prev EXCEPT ![i] = t],
                  !.next   = [p.next EXCEPT ![t] = i],
                  !.head   = [p.head EXCEPT ![l] = IF empty THEN i ELSE @],
                  !.curr   = [p.curr EXCEPT ![l] = IF empty THEN i ELSE @],
                  !.tail   = [p.tail EXCEPT ![l] = i],
                  !.count  = [p.count EXCEPT ![l] = @ + 1],
                  !.before = [p.before EXCEPT ![l] = 0],
                  !.after  = [p.after EXCEPT ![l] = 0]]

ListAppend(p, l, x) ==
    IF l = NULL \/ x = NULL
    THEN [pool |-> p, ret |-> -1]
    ELSE LET a == NodeAllocator(p)
         IN  IF a.ret = NIL
             THEN [pool |-> a.pool, ret |-> -1]
             ELSE [pool |-> Link(a.pool, l, a.ret, x), ret |-> 0]

(* ListFirst: move the cursor to the head and return its item.             *)
ListFirst(p, l) ==
    IF l = NULL \/ ListCount(p, l) = 0
    THEN [pool |-> p, ret |-> NULL]
    ELSE [pool |-> [p EXCEPT !.curr   = [p.curr EXCEPT ![l] = p.head[l]],
                             !.before = [p.before EXCEPT ![l] = 0],
                             !.after  = [p.after EXCEPT ![l] = 0]],
          ret  |-> p.item[p.head[l]]]

(***************************************************************************)
(* ListRemove: free the current node, close the gap around it, and move    *)
(* the cursor to the next node, to the previous one at the end of the      *)
(* list, or off an emptied list.  The stores through prevNode and nextNode *)
(* come after the node has been reset.                                     *)
(***************************************************************************)
Unlink(p, l, c) ==
    LET pn == p.prev[c]
        nn == p.next[c]
        emptied == p.count[l] = 1
    IN  [p EXCEPT
          !.item = [p.item EXCEPT ![c] = NULL],
          !.next = [n \in Node |-> IF n = pn THEN nn ELSE IF n = c THEN NIL ELSE p.next[n]],
          !.prev = [n \in Node |-> IF n = nn THEN pn ELSE IF n = c THEN NIL ELSE p.prev[n]],
          !.link = [p.link EXCEPT ![c] = p.free_node_head],
          !.free_node_head = c,
          !.head = [p.head EXCEPT ![l] = IF pn = NIL THEN nn ELSE @],
          !.tail = [p.tail EXCEPT ![l] = IF nn = NIL THEN pn ELSE @],
          !.count = [p.count EXCEPT ![l] = @ - 1],
          !.curr = [p.curr EXCEPT ![l] = IF emptied THEN NIL ELSE IF nn # NIL THEN nn ELSE pn],
          !.before = [p.before EXCEPT ![l] = IF emptied THEN 1 ELSE 0],
          !.after = [p.after EXCEPT ![l] = 0]]

ListRemove(p, l) ==
    IF \/ l = NULL
       \/ ListCount(p, l) = 0
       \/ p.curr[l] = NIL
       \/ p.before[l] = 1
       \/ p.after[l] = 1
    THEN [pool |-> p, ret |-> NULL]
    ELSE [pool |-> Unlink(p, l, p.curr[l]), ret |-> p.item[p.curr[l]]]

(***************************************************************************)
(* The dequeue idiom every caller uses: ListFirst, then ListRemove.        *)
(***************************************************************************)
PopFirst(p, l) ==
    LET f == ListFirst(p, l)
    IN  [pool |-> ListRemove(f.pool, l).pool, ret |-> f.ret]

=============================================================================
