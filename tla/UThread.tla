------------------------------ MODULE UThread -------------------------------
(***************************************************************************)
(* The user-level threads of Part A (user/uthread.c, uthread_switch.S): a  *)
(* static table of threads, a round-robin thread_schedule, and a switch    *)
(* that stores one register context and loads another.  The program is     *)
(* that of mtxtest.c's shape: main calls thread_init, thread_create any    *)
(* number of times and thread_schedule once; a thread may create, yield    *)
(* and exit in any order.                                                  *)
(*                                                                         *)
(* A context is the name of the flow of control it continues: 0 is main,   *)
(* and the n-th thread created is n.  thread_create's loop runs off the    *)
(* table when no slot is FREE, and then writes past the end of it: the     *)
(* program is in no defined state, and the model stops.                    *)
(***************************************************************************)
EXTENDS Integers

CONSTANTS MAX_THREAD,  \* slots of all_thread
          MaxCreated   \* bound: calls of thread_create

ASSUME UThreadAssumption ==
    /\ MAX_THREAD \in Nat \ {0}
    /\ MaxCreated \in Nat

Slot     == 0 .. MAX_THREAD - 1
Flow     == 0 .. MaxCreated
main     == 0
NoFlow   == -1     \* a context of zeros
NoThread == -1     \* next_thread = 0

VARIABLES
    state,           \* per slot: "FREE", "RUNNING" or "RUNNABLE"
    registers,       \* per slot: the flow its context continues
    current_thread,
    running,         \* the flow on the CPU
    created,         \* calls of thread_create so far
    occupant,        \* history: per slot the flow it was last given to
    tick,            \* history: flips with every call, so that a yield that
                     \* changes nothing else is a step all the same
    status           \* "up", "exit" (exit(-1)) or "overrun"

vars == <<state, registers, current_thread, running, created, occupant, tick, status>>

(* thread_init.                                                            *)
Init ==
    /\ state = [t \in Slot |-> IF t = 0 THEN "RUNNING" ELSE "FREE"]
    /\ registers = [t \in Slot |-> NoFlow]
    /\ current_thread = 0
    /\ running = main
    /\ created = 0
    /\ occupant = [t \in Slot |-> IF t = 0 THEN main ELSE NoFlow]
    /\ tick = 0
    /\ status = "up"

(* Mutant: the search starts at the first slot.                            *)
NextThreadFromFirst(s) ==
    LET runnable == {t \in Slot : s[t] = "RUNNABLE"}
    IN  IF runnable = {} THEN NoThread
        ELSE CHOOSE t \in runnable : \A u \in runnable : t <= u

(* The first RUNNABLE thread after the current one, in a round that ends   *)
(* with the current one.                                                   *)
NextThread(s) ==
    LET After(d) == (current_thread + d) % MAX_THREAD
        turns    == {d \in 1 .. MAX_THREAD : s[After(d)] = "RUNNABLE"}
    IN  IF turns = {} THEN NoThread
        ELSE After(CHOOSE d \in turns : \A e \in turns : d <= e)

(* Mutant: the two contexts are passed in the wrong order.                 *)
SwitchBackwards(from, to) ==
    /\ registers' = [registers EXCEPT ![to] = running]
    /\ running' = registers[from]

thread_switch(from, to) ==
    /\ registers' = [registers EXCEPT ![from] = running]
    /\ running' = registers[to]

(* s is the table the caller leaves to thread_schedule.  A thread that is  *)
(* its own successor goes on, and stays RUNNABLE.                          *)
thread_schedule(s) ==
    LET next == NextThread(s)
    IN  \/ /\ next = NoThread
           /\ status' = "exit"
           /\ state' = s
           /\ UNCHANGED <<registers, current_thread, running>>
        \/ /\ next # NoThread /\ next # current_thread
           /\ state' = [s EXCEPT ![next] = "RUNNING"]
           /\ current_thread' = next
           /\ thread_switch(current_thread, next)
           /\ UNCHANGED status
        \/ /\ next = current_thread
           /\ state' = s
           /\ UNCHANGED <<registers, current_thread, running, status>>

-----------------------------------------------------------------------------
thread_create ==
    /\ status = "up"
    /\ created < MaxCreated
    /\ \/ \E t \in Slot :
            /\ state[t] = "FREE"
            /\ \A u \in 0 .. t - 1 : state[u] # "FREE"
            /\ state' = [state EXCEPT ![t] = "RUNNABLE"]
            /\ registers' = [registers EXCEPT ![t] = created + 1]
            /\ occupant' = [occupant EXCEPT ![t] = created + 1]
            /\ created' = created + 1
            /\ UNCHANGED status
       \/ /\ \A t \in Slot : state[t] # "FREE"
          /\ status' = "overrun"
          /\ UNCHANGED <<state, registers, occupant, created>>
    /\ tick' = 1 - tick
    /\ UNCHANGED <<current_thread, running>>

(* main's one call of thread_schedule.                                     *)
MainSchedules ==
    /\ status = "up"
    /\ running = main
    /\ thread_schedule(state)
    /\ tick' = 1 - tick
    /\ UNCHANGED <<created, occupant>>

thread_yield ==
    /\ status = "up"
    /\ running # main
    /\ thread_schedule([state EXCEPT ![current_thread] = "RUNNABLE"])
    /\ tick' = 1 - tick
    /\ UNCHANGED <<created, occupant>>

thread_exit ==
    /\ status = "up"
    /\ running # main
    /\ thread_schedule([state EXCEPT ![current_thread] = "FREE"])
    /\ tick' = 1 - tick
    /\ UNCHANGED <<created, occupant>>

Next == thread_create \/ MainSchedules \/ thread_yield \/ thread_exit

Spec == Init /\ [][Next]_vars

(***************************************************************************)
(* Fairness: the process keeps running, and so do its threads up to their  *)
(* next thread call (they create no threads for ever, MaxCreated).         *)
(***************************************************************************)
FairSpec == Spec /\ WF_vars(MainSchedules \/ thread_yield \/ thread_exit)

(* As FairSpec, with threads that end: yielding is not all they ever do.   *)
EndingSpec == FairSpec /\ SF_vars(thread_exit)

-----------------------------------------------------------------------------
(***************************************************************************)
(* The flow on the CPU is the one its slot was given to, and every thread  *)
(* that may be switched to has its own context: contexts are never mixed   *)
(* up or lost, however slots are reused.                                   *)
(***************************************************************************)
ContextsInPlace ==
    /\ running = occupant[current_thread]
    /\ \A t \in Slot : state[t] = "RUNNABLE" /\ t # current_thread =>
                           registers[t] = occupant[t]

(***************************************************************************)
(* The inductive invariant that ContextsInPlace needs: the types, and that *)
(* thread_create never gives away the slot of the thread that runs.        *)
(***************************************************************************)
TypeOK ==
    /\ state \in [Slot -> {"FREE", "RUNNING", "RUNNABLE"}]
    /\ registers \in [Slot -> Flow \cup {NoFlow}]
    /\ occupant \in [Slot -> Flow \cup {NoFlow}]
    /\ current_thread \in Slot
    /\ running \in Flow \cup {NoFlow}
    /\ created \in Flow
    /\ status \in {"up", "exit", "overrun"}

RunningSlotTaken == status = "up" => state[current_thread] # "FREE"

ThreadInv == TypeOK /\ RunningSlotTaken /\ ContextsInPlace

(***************************************************************************)
(* Every thread created gets to run, and to run again after every yield,   *)
(* until the process ends: the round-robin search passes nobody over.      *)
(***************************************************************************)
EveryThreadRuns ==
    \A t \in Slot :
        state[t] = "RUNNABLE" ~> current_thread = t \/ status # "up"

(***************************************************************************)
(* main's call of thread_schedule returns when all threads have exited.    *)
(***************************************************************************)
MainReturns ==
    running # main ~> running = main \/ status = "overrun"

=============================================================================
