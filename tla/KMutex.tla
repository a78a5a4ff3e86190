------------------------------- MODULE KMutex -------------------------------
(***************************************************************************)
(* The mutex system calls of Part A (sys_mtx_create, sys_mtx_lock and      *)
(* sys_mtx_unlock of kernel/proc.c) on xv6's spinlocks and sleep/wakeup.   *)
(*                                                                         *)
(* Each process runs on a CPU of its own.  A step is one acquire, or the   *)
(* code up to the next acquire, release or unprotected store.  A spinlock  *)
(* is its holder, or NoProc.  The label pc[p] names the next step of p;    *)
(* "user" is user space.                                                   *)
(***************************************************************************)
EXTENDS Integers, FiniteSets

CONSTANTS NPROC,       \* processes
          NMUTEX,      \* slots of the mutex table
          Flags,       \* arguments given to mtx_create
          Ids,         \* arguments given to mtx_lock and mtx_unlock
          Uses         \* of [disciplined, kills]: whether a process unlocks only
                       \* what it holds, and locks or exits only when it holds
                       \* nothing; and whether processes may be killed

ASSUME KMutexAssumption ==
    /\ NPROC \in Nat \ {0}
    /\ NMUTEX \in Nat \ {0}
    /\ Flags \subseteq Int
    /\ Ids \subseteq Int
    /\ Uses \subseteq [disciplined : BOOLEAN, kills : BOOLEAN]

Proc   == 1 .. NPROC
NoProc == 0
Mutex  == 0 .. NMUTEX - 1
NoChan == -1

VARIABLES
    use,                 \* one of Uses, for good
    table_lock,          \* mutex_table_lock
    used, locked, owner, \* fields of mutexes[m]
    mlock,               \* mutexes[m].lock
    plock,               \* p->lock
    state, chan, killed, \* fields of proc p
    pc,
    id,                  \* the mutex p's call is about, or the slot it creates
    flag,                \* the argument of p's mtx_create
    i,                   \* wakeup's loop variable
    holders              \* history: processes whose mtx_lock (or mtx_create(1))
                         \* has returned and that have not called mtx_unlock

mutexVars == <<used, locked, owner>>
procVars  == <<state, chan, killed>>
callVars  == <<id, flag, i>>
vars == <<table_lock, mutexVars, mlock, plock, procVars, pc, callVars, holders>>

(* procinit, and every process in user space.                              *)
Init ==
    /\ use \in Uses
    /\ table_lock = NoProc
    /\ used = [m \in Mutex |-> 0]
    /\ locked = [m \in Mutex |-> 0]
    /\ owner = [m \in Mutex |-> NoProc]
    /\ mlock = [m \in Mutex |-> NoProc]
    /\ plock = [p \in Proc |-> NoProc]
    /\ state = [p \in Proc |-> "RUNNING"]
    /\ chan = [p \in Proc |-> NoChan]
    /\ killed = [p \in Proc |-> 0]
    /\ pc = [p \in Proc |-> "user"]
    /\ id = [p \in Proc |-> 0]
    /\ flag = [p \in Proc |-> 0]
    /\ i = [p \in Proc |-> 0]
    /\ holders = [m \in Mutex |-> {}]

At(p, label)   == state[p] = "RUNNING" /\ pc[p] = label
Goto(p, label) == pc' = [pc EXCEPT ![p] = label]

(* The mutexes p believes it holds.                                        *)
Holds(p) == {m \in Mutex : p \in holders[m]}

(* acquire and release of a lock of a table of locks.                      *)
Acquire(lk, k, p) == lk[k] = NoProc /\ lk' = [lk EXCEPT ![k] = p]
Release(lk, k)    == lk' = [lk EXCEPT ![k] = NoProc]

-----------------------------------------------------------------------------
(* mtx_create: the slot is filled under mutex_table_lock, without the      *)
(* slot's own lock, in three stores.                                       *)

sys_mtx_create(p, f) ==
    /\ At(p, "user") /\ killed[p] = 0
    /\ use.disciplined => Holds(p) = {}
    /\ flag' = [flag EXCEPT ![p] = f]
    /\ Goto(p, "create.scan")
    /\ table_lock = NoProc
    /\ table_lock' = p
    /\ UNCHANGED <<mutexVars, mlock, plock, procVars, id, i, holders>>

CreateScan(p) ==
    /\ At(p, "create.scan")
    /\ \/ \E m \in Mutex :
            /\ used[m] = 0
            /\ \A k \in 0 .. m - 1 : used[k] # 0
            /\ used' = [used EXCEPT ![m] = 1]
            /\ id' = [id EXCEPT ![p] = m]
            /\ Goto(p, "create.locked")
            /\ UNCHANGED table_lock
       \/ /\ \A m \in Mutex : used[m] # 0
          /\ table_lock' = NoProc
          /\ Goto(p, "user")
          /\ UNCHANGED <<used, id>>
    /\ UNCHANGED <<locked, owner, mlock, plock, procVars, flag, i, holders>>

CreateLocked(p) ==
    /\ At(p, "create.locked")
    /\ locked' = [locked EXCEPT ![id[p]] = IF flag[p] # 0 THEN 1 ELSE 0]
    /\ Goto(p, "create.owner")
    /\ UNCHANGED <<table_lock, used, owner, mlock, plock, procVars, callVars, holders>>

CreateOwner(p) ==
    /\ At(p, "create.owner")
    /\ owner' = [owner EXCEPT ![id[p]] = IF flag[p] # 0 THEN p ELSE NoProc]
    /\ holders' = [holders EXCEPT ![id[p]] = IF flag[p] # 0 THEN @ \cup {p} ELSE @]
    /\ table_lock' = NoProc
    /\ Goto(p, "user")
    /\ UNCHANGED <<used, locked, mlock, plock, procVars, callVars>>

-----------------------------------------------------------------------------
(* mtx_lock: check the table, then wait for the mutex with sleep.          *)

(* An id outside the table returns -1 without a trace.                     *)
sys_mtx_lock(p, m) ==
    /\ At(p, "user") /\ killed[p] = 0
    /\ m \in Mutex
    /\ use.disciplined => Holds(p) = {}
    /\ id' = [id EXCEPT ![p] = m]
    /\ table_lock = NoProc
    /\ table_lock' = p
    /\ Goto(p, "lock.check")
    /\ UNCHANGED <<mutexVars, mlock, plock, procVars, flag, i, holders>>

LockCheck(p) ==
    /\ At(p, "lock.check")
    /\ table_lock' = NoProc
    /\ Goto(p, IF used[id[p]] = 0 THEN "user" ELSE "lock.acquire")
    /\ UNCHANGED <<mutexVars, mlock, plock, procVars, callVars, holders>>

LockAcquire(p) ==
    /\ At(p, "lock.acquire")
    /\ Acquire(mlock, id[p], p)
    /\ Goto(p, "lock.while")
    /\ UNCHANGED <<table_lock, mutexVars, plock, procVars, callVars, holders>>

LockWhile(p) ==
    /\ At(p, "lock.while")
    /\ \/ /\ locked[id[p]] # 0
          /\ Goto(p, "sleep")
          /\ UNCHANGED <<locked, owner, mlock, holders>>
       \/ /\ locked[id[p]] = 0
          /\ locked' = [locked EXCEPT ![id[p]] = 1]
          /\ owner' = [owner EXCEPT ![id[p]] = p]
          /\ holders' = [holders EXCEPT ![id[p]] = @ \cup {p}]
          /\ Release(mlock, id[p])
          /\ Goto(p, "user")
    /\ UNCHANGED <<table_lock, used, plock, procVars, callVars>>

-----------------------------------------------------------------------------
(* sleep(&mutexes[id], &mutexes[id].lock) and the scheduler.  sched gives  *)
(* up p->lock; the scheduler takes it to run p again, and p releases it.   *)

(* Mutant: lk is released before p->lock is held.                          *)
SleepUnlocked(p) ==
    /\ At(p, "sleep")
    /\ Release(mlock, id[p])
    /\ Goto(p, "sleep.sched")
    /\ UNCHANGED <<table_lock, mutexVars, plock, procVars, callVars, holders>>

Sleep(p) ==
    /\ At(p, "sleep")
    /\ Acquire(plock, p, p)
    /\ Goto(p, "sleep.release")
    /\ UNCHANGED <<table_lock, mutexVars, mlock, procVars, callVars, holders>>

SleepRelease(p) ==
    /\ At(p, "sleep.release")
    /\ Release(mlock, id[p])
    /\ Goto(p, "sleep.sched")
    /\ UNCHANGED <<table_lock, mutexVars, plock, procVars, callVars, holders>>

SleepSched(p) ==
    /\ At(p, "sleep.sched")
    /\ chan' = [chan EXCEPT ![p] = id[p]]
    /\ state' = [state EXCEPT ![p] = "SLEEPING"]
    /\ Release(plock, p)
    /\ Goto(p, "sleep.resume")
    /\ UNCHANGED <<table_lock, mutexVars, mlock, killed, callVars, holders>>

(* The scheduler runs a RUNNABLE process, still holding its lock.          *)
Schedule(p) ==
    /\ state[p] = "RUNNABLE"
    /\ Acquire(plock, p, p)
    /\ state' = [state EXCEPT ![p] = "RUNNING"]
    /\ UNCHANGED <<table_lock, mutexVars, mlock, chan, killed, pc, callVars, holders>>

(* Mutant: a woken process takes the mutex without looking at it again     *)
(* (`if' where mtx_lock has `while').                                      *)
SleepResumeTakes(p) ==
    /\ At(p, "sleep.resume")
    /\ chan' = [chan EXCEPT ![p] = NoChan]
    /\ Release(plock, p)
    /\ locked' = [locked EXCEPT ![id[p]] = 1]
    /\ owner' = [owner EXCEPT ![id[p]] = p]
    /\ holders' = [holders EXCEPT ![id[p]] = @ \cup {p}]
    /\ Goto(p, "user")
    /\ UNCHANGED <<table_lock, used, mlock, state, killed, callVars>>

SleepResume(p) ==
    /\ At(p, "sleep.resume")
    /\ chan' = [chan EXCEPT ![p] = NoChan]
    /\ Release(plock, p)
    /\ Goto(p, "lock.acquire")
    /\ UNCHANGED <<table_lock, mutexVars, mlock, state, killed, callVars, holders>>

-----------------------------------------------------------------------------
(* mtx_unlock: the caller need not be the owner.                           *)

sys_mtx_unlock(p, m) ==
    /\ At(p, "user") /\ killed[p] = 0
    /\ m \in Mutex
    /\ use.disciplined => p \in holders[m]
    /\ id' = [id EXCEPT ![p] = m]
    /\ holders' = [holders EXCEPT ![m] = @ \ {p}]
    /\ Acquire(mlock, m, p)
    /\ Goto(p, "unlock.check")
    /\ UNCHANGED <<table_lock, mutexVars, plock, procVars, flag, i>>

UnlockCheck(p) ==
    /\ At(p, "unlock.check")
    /\ \/ /\ used[id[p]] = 0 \/ locked[id[p]] = 0
          /\ Release(mlock, id[p])
          /\ Goto(p, "user")
          /\ UNCHANGED locked
       \/ /\ used[id[p]] # 0 /\ locked[id[p]] # 0
          /\ locked' = [locked EXCEPT ![id[p]] = 0]
          /\ Goto(p, "unlock.owner")
          /\ UNCHANGED mlock
    /\ UNCHANGED <<table_lock, used, owner, plock, procVars, callVars, holders>>

(* Mutant: the owner is not reset.                                         *)
UnlockKeepsOwner(p) ==
    /\ At(p, "unlock.owner")
    /\ i' = [i EXCEPT ![p] = 1]
    /\ Goto(p, "wakeup")
    /\ UNCHANGED <<table_lock, mutexVars, mlock, plock, procVars, id, flag, holders>>

(* Mutant: wakeup's loop starts at the second process.                     *)
UnlockSkipsFirst(p) ==
    /\ At(p, "unlock.owner")
    /\ owner' = [owner EXCEPT ![id[p]] = NoProc]
    /\ i' = [i EXCEPT ![p] = 2]
    /\ Goto(p, "wakeup")
    /\ UNCHANGED <<table_lock, used, locked, mlock, plock, procVars, id, flag, holders>>

UnlockOwner(p) ==
    /\ At(p, "unlock.owner")
    /\ owner' = [owner EXCEPT ![id[p]] = NoProc]
    /\ i' = [i EXCEPT ![p] = 1]
    /\ Goto(p, "wakeup")
    /\ UNCHANGED <<table_lock, used, locked, mlock, plock, procVars, id, flag, holders>>

(* One turn of wakeup's loop, within p->lock of the process looked at.     *)
Wakeup(p) ==
    /\ At(p, "wakeup")
    /\ i[p] \in Proc
    /\ i[p] # p => plock[i[p]] = NoProc
    /\ state' = [state EXCEPT ![i[p]] =
                   IF i[p] # p /\ @ = "SLEEPING" /\ chan[i[p]] = id[p]
                   THEN "RUNNABLE" ELSE @]
    /\ i' = [i EXCEPT ![p] = @ + 1]
    /\ UNCHANGED <<table_lock, mutexVars, mlock, plock, chan, killed, pc, id, flag, holders>>

UnlockReturn(p) ==
    /\ At(p, "wakeup")
    /\ i[p] \notin Proc
    /\ Release(mlock, id[p])
    /\ i' = [i EXCEPT ![p] = 0]
    /\ Goto(p, "user")
    /\ UNCHANGED <<table_lock, mutexVars, plock, procVars, id, flag, holders>>

-----------------------------------------------------------------------------
(* kill and exit.                                                          *)

(* kkill, by any process: within p->lock of the victim.                    *)
kkill(p) ==
    /\ use.kills
    /\ killed[p] = 0
    /\ state[p] # "ZOMBIE"
    /\ plock[p] = NoProc
    /\ killed' = [killed EXCEPT ![p] = 1]
    /\ state' = [state EXCEPT ![p] = IF @ = "SLEEPING" THEN "RUNNABLE" ELSE @]
    /\ UNCHANGED <<table_lock, mutexVars, mlock, plock, chan, pc, callVars, holders>>

(* kexit, by the process itself or on its way back to user space once it   *)
(* is killed.  Nothing releases the mutexes it holds.                      *)
kexit(p) ==
    /\ At(p, "user")
    /\ killed[p] = 1 \/ (use.disciplined => Holds(p) = {})
    /\ plock[p] = NoProc
    /\ state' = [state EXCEPT ![p] = "ZOMBIE"]
    /\ UNCHANGED <<table_lock, mutexVars, mlock, plock, chan, killed, pc, callVars, holders>>

-----------------------------------------------------------------------------
(* Steps a process takes inside the kernel.                                *)
KernelStep(p) ==
    \/ CreateScan(p) \/ CreateLocked(p) \/ CreateOwner(p)
    \/ LockCheck(p) \/ LockAcquire(p) \/ LockWhile(p)
    \/ Sleep(p) \/ SleepRelease(p) \/ SleepSched(p) \/ Schedule(p) \/ SleepResume(p)
    \/ UnlockCheck(p) \/ UnlockOwner(p) \/ Wakeup(p) \/ UnlockReturn(p)

UserStep(p) ==
    \/ \E f \in Flags : sys_mtx_create(p, f)
    \/ \E m \in Ids : sys_mtx_lock(p, m) \/ sys_mtx_unlock(p, m)
    \/ kexit(p)

Next == \E p \in Proc : KernelStep(p) \/ UserStep(p) \/ kkill(p)

Spec == Init /\ [][Next /\ UNCHANGED use]_<<vars, use>>

(***************************************************************************)
(* Fairness: every CPU and the scheduler keep running, and a process that  *)
(* holds a mutex calls mtx_unlock in the end; assumed of disciplined use,  *)
(* of which SleeperIsWoken speaks.                                         *)
(***************************************************************************)
Fairness ==
    \A p \in Proc : /\ WF_vars(use.disciplined /\ KernelStep(p))
                    /\ WF_vars(use.disciplined /\ \E m \in Ids : m \in Holds(p) /\ sys_mtx_unlock(p, m))

FairSpec == Spec /\ Fairness

(* As FairSpec, and a spinlock that is free again and again is acquired.   *)
FairSpinlockSpec == FairSpec /\ \A p \in Proc : SF_vars(LockAcquire(p))

-----------------------------------------------------------------------------
(***************************************************************************)
(* Every field keeps its type; in particular locked is 0 or 1 whatever     *)
(* flag mtx_create was given, and no call indexes outside the table.       *)
(***************************************************************************)
TypeOK ==
    /\ table_lock \in Proc \cup {NoProc}
    /\ used \in [Mutex -> {0, 1}]
    /\ locked \in [Mutex -> {0, 1}]
    /\ owner \in [Mutex -> Proc \cup {NoProc}]
    /\ mlock \in [Mutex -> Proc \cup {NoProc}]
    /\ plock \in [Proc -> Proc \cup {NoProc}]
    /\ state \in [Proc -> {"RUNNING", "SLEEPING", "RUNNABLE", "ZOMBIE"}]
    /\ chan \in [Proc -> Mutex \cup {NoChan}]
    /\ killed \in [Proc -> {0, 1}]
    /\ id \in [Proc -> Mutex]
    /\ flag \in [Proc -> Flags \cup {0}]
    /\ i \in [Proc -> 0 .. NPROC + 1]
    /\ holders \in [Mutex -> SUBSET Proc]

(***************************************************************************)
(* Two processes never hold one mutex, when processes unlock only what     *)
(* they hold.                                                              *)
(***************************************************************************)
MutexExclusion ==
    use.disciplined => \A m \in Mutex : Cardinality(holders[m]) <= 1

(***************************************************************************)
(* No wakeup is lost: a process asleep on a mutex that is not locked is    *)
(* about to be reached by the wakeup loop of a process still inside        *)
(* mtx_unlock of that mutex.                                               *)
(***************************************************************************)
NoLostWakeup ==
    \A p \in Proc, m \in Mutex :
        state[p] = "SLEEPING" /\ chan[p] = m /\ locked[m] = 0 =>
            \E q \in Proc : /\ mlock[m] = q
                            /\ \/ pc[q] = "unlock.owner"
                               \/ pc[q] = "wakeup" /\ i[q] <= p

(***************************************************************************)
(* A mutex that is not locked has no owner, except while a system call     *)
(* that holds its spinlock, or the one that creates it, is changing it;    *)
(* when processes unlock only what they hold.                              *)
(***************************************************************************)
OwnerOnlyIfLocked ==
    \A m \in Mutex :
        /\ mlock[m] = NoProc
        /\ use.disciplined
        /\ \A p \in Proc : id[p] = m => pc[p] \notin {"create.locked", "create.owner"}
        => (locked[m] = 0 <=> owner[m] = NoProc)

(***************************************************************************)
(* partA.design.txt:154-155 of mutex state changes: they all occur within  *)
(* spinlock protection, which "Prevents inconsistent intermediate states": *)
(* with the mutex's lock free and nobody creating it, whoever unlocks, a   *)
(* mutex has an owner just while it is locked.                             *)
(***************************************************************************)
OwnerMatchesLocked ==
    \A m \in Mutex :
        /\ mlock[m] = NoProc
        /\ \A p \in Proc : id[p] = m => pc[p] \notin {"create.locked", "create.owner"}
        => (locked[m] = 0 <=> owner[m] = NoProc)

(***************************************************************************)
(* A process holding p->lock in sched holds no other spinlock, and no      *)
(* process asleep or in user space holds any: sched's panics do not fire.  *)
(***************************************************************************)
SchedHoldsOnlyOwnLock ==
    \A p \in Proc :
        pc[p] \in {"sleep.sched", "sleep.resume", "user"} =>
            /\ table_lock # p
            /\ \A m \in Mutex : mlock[m] # p

(***************************************************************************)
(* The inductive invariant.  The label of a process says which spinlocks   *)
(* it holds.                                                               *)
(***************************************************************************)
Creating   == {"create.locked", "create.owner"}
Waiting    == {"lock.acquire", "lock.while", "sleep", "sleep.release",
               "sleep.sched", "sleep.resume"}
Unlocking  == {"unlock.check", "unlock.owner", "wakeup"}
HoldsTable == {"create.scan", "lock.check"} \cup Creating
HoldsMutex == {"lock.while", "sleep", "sleep.release"} \cup Unlocking
HoldsProc  == {"sleep.release", "sleep.sched"}
Labels     == {"user"} \cup HoldsTable \cup Waiting \cup Unlocking

(* A process that does not run is in sleep, or has exited.                 *)
LabelsOK ==
    /\ pc \in [Proc -> Labels]
    /\ \A p \in Proc :
         /\ state[p] \in {"SLEEPING", "RUNNABLE"} => pc[p] = "sleep.resume"
         /\ state[p] = "ZOMBIE" => pc[p] = "user"
         /\ state[p] = "SLEEPING" => chan[p] = id[p]
         /\ pc[p] = "wakeup" => i[p] >= 1

TableLockOK == \A p \in Proc : table_lock = p <=> pc[p] \in HoldsTable

MutexLocksOK ==
    \A p \in Proc, m \in Mutex : mlock[m] = p <=> pc[p] \in HoldsMutex /\ id[p] = m

ProcLocksOK ==
    \A p \in Proc :
        /\ plock[p] \in {NoProc, p}
        /\ plock[p] = p <=> \/ pc[p] \in HoldsProc
                            \/ pc[p] = "sleep.resume" /\ state[p] = "RUNNING"

(* Nobody waits for a slot that is free or still being filled, and who is  *)
(* about to sleep has seen the mutex locked.                               *)
WaitersOK ==
    /\ \A p \in Proc : pc[p] \in Creating \cup Waiting => used[id[p]] = 1
    /\ \A p, q \in Proc : pc[p] \in Waiting /\ pc[q] \in Creating => id[p] # id[q]
    /\ \A p \in Proc : pc[p] \in {"sleep", "sleep.release"} => locked[id[p]] = 1

(* NoLostWakeup, from the moment mutexes[id].lock is released in sleep.    *)
SleepersReached ==
    \A p \in Proc :
        (pc[p] = "sleep.sched" \/ state[p] = "SLEEPING") /\ locked[id[p]] = 0 =>
            LET q == mlock[id[p]]
            IN  /\ q # NoProc
                /\ pc[q] = "unlock.owner" \/ (pc[q] = "wakeup" /\ i[q] <= p)

LocksInv ==
    TypeOK /\ LabelsOK /\ TableLockOK /\ MutexLocksOK /\ ProcLocksOK /\ WaitersOK
           /\ SleepersReached

(* Who has the right to m: who holds it, is giving it back, or creates it  *)
(* locked.                                                                 *)
Claims(p, m) ==
    \/ p \in holders[m]
    \/ id[p] = m /\ \/ pc[p] = "unlock.check"
                    \/ pc[p] = "create.owner" /\ flag[p] # 0

(* With disciplined use, at most one process has a claim, and only to a    *)
(* mutex that is locked.                                                   *)
ClaimsOK ==
    /\ \A m \in Mutex, p, q \in Proc : Claims(p, m) /\ Claims(q, m) => p = q
    /\ \A m \in Mutex, p \in Proc : Claims(p, m) => locked[m] = 1
    /\ \A m \in Mutex : used[m] = 0 => locked[m] = 0

(* What a process inside a call knows of its mutex: nobody else touches a  *)
(* slot that is being filled, and who unlocks no longer holds it.          *)
CallersKnow ==
    /\ \A p \in Proc : pc[p] \in Unlocking => used[id[p]] = 1
    /\ \A p, q \in Proc : pc[p] \in Unlocking /\ pc[q] \in Creating => id[p] # id[q]
    /\ \A p \in Proc : pc[p] = "create.locked" => locked[id[p]] = 0
    /\ \A p \in Proc : pc[p] = "create.owner" => (locked[id[p]] = 0 <=> flag[p] = 0)
    /\ \A p \in Proc : pc[p] = "unlock.check" => p \notin holders[id[p]]
    /\ \A p \in Proc : pc[p] = "unlock.owner" => locked[id[p]] = 0

(* locked and owner agree, except between the stores that set them.        *)
OwnersAgree ==
    \A m \in Mutex :
        \/ locked[m] = 0 <=> owner[m] = NoProc
        \/ \E p \in Proc : id[p] = m /\ pc[p] \in Creating \cup {"unlock.owner"}

(* The owner on record is the process that holds the mutex.                *)
HoldersOwn ==
    \A p \in Proc, m \in Mutex :
        p \in holders[m] \/ (pc[p] = "unlock.check" /\ id[p] = m) => owner[m] = p

DisciplineInv == ClaimsOK /\ CallersKnow /\ OwnersAgree /\ HoldersOwn

KMutexInv == LocksInv /\ (use.disciplined => DisciplineInv)

(***************************************************************************)
(* A mutex is unlocked only by the process recorded as its owner.          *)
(***************************************************************************)
UnlockedByOwner ==
    \A m \in Mutex :
        locked[m] = 1 /\ locked'[m] = 0 /\ mlock[m] # NoProc => owner[m] = mlock[m]

OnlyOwnerUnlocks == [][UnlockedByOwner]_vars

(***************************************************************************)
(* The same, of processes that unlock only what they hold.                 *)
(***************************************************************************)
OnlyOwnerUnlocksIfDisciplined == [][use.disciplined => UnlockedByOwner]_vars

(***************************************************************************)
(* A process that falls asleep in mtx_lock is woken, unless somebody is    *)
(* killed, who may have held the mutex; with disciplined use.              *)
(***************************************************************************)
SleeperIsWoken ==
    \A p \in Proc : use.disciplined /\ state[p] = "SLEEPING" ~>
        state[p] # "SLEEPING" \/ \E q \in Proc : killed[q] = 1

(***************************************************************************)
(* A process that calls mtx_lock gets the mutex in the end.                *)
(***************************************************************************)
WaiterGetsMutex ==
    \A p \in Proc : pc[p] = "lock.acquire" ~> pc[p] = "user"

=============================================================================
