--------------------------- MODULE KMutexProofs -----------------------------
(***************************************************************************)
(* Proofs about KMutex, for any number of processes and mutexes, any       *)
(* arguments of the calls, and any use of them.                            *)
(***************************************************************************)
EXTENDS KMutex, FiniteSetTheorems, TLAPS

-----------------------------------------------------------------------------
(* Which spinlocks are held where, and that sleepers are reached.          *)

LEMMA InitialLocks == Init => LocksInv
  <1> USE KMutexAssumption
  <1> QED
    BY DEF Init, LocksInv, TypeOK, LabelsOK, TableLockOK, MutexLocksOK, ProcLocksOK,
           WaitersOK, SleepersReached, Labels, Creating, Waiting, Unlocking,
           HoldsTable, HoldsMutex, HoldsProc, Proc, Mutex, NoProc, NoChan

LEMMA sys_mtx_createLocks ==
    ASSUME LocksInv, NEW p \in Proc, NEW f \in Flags, sys_mtx_create(p, f)
    PROVE  LocksInv'
  <1> USE KMutexAssumption DEF LocksInv, Labels, Creating, Waiting, Unlocking,
             HoldsTable, HoldsMutex, HoldsProc, Proc, Mutex, NoProc, NoChan,
             mutexVars, procVars, callVars, At, Goto, Acquire, Release,
             sys_mtx_create
  <1>1. TypeOK'
    BY DEF TypeOK
  <1>2. LabelsOK'
    BY DEF TypeOK, LabelsOK
  <1>3. TableLockOK'
    BY DEF TypeOK, LabelsOK, TableLockOK
  <1>4. MutexLocksOK'
    BY DEF TypeOK, LabelsOK, MutexLocksOK
  <1>5. ProcLocksOK'
    BY SMTT(30) DEF TypeOK, LabelsOK, ProcLocksOK
  <1>6. WaitersOK'
    BY DEF TypeOK, LabelsOK, TableLockOK,
           MutexLocksOK, ProcLocksOK, WaitersOK
  <1>7. SleepersReached'
    BY SMTT(60) DEF TypeOK, LabelsOK, TableLockOK,
           MutexLocksOK, ProcLocksOK, WaitersOK, SleepersReached
  <1> QED
    BY <1>1, <1>2, <1>3, <1>4, <1>5, <1>6, <1>7

LEMMA SlotFoundLocks ==
    ASSUME LocksInv, NEW p \in Proc, NEW m \in Mutex,
           At(p, "create.scan"),
           used[m] = 0,
           used' = [used EXCEPT ![m] = 1],
           id' = [id EXCEPT ![p] = m],
           Goto(p, "create.locked"),
           UNCHANGED <<table_lock, locked, owner, mlock, plock, procVars, flag, i, holders>>
    PROVE  LocksInv'
  <1> USE KMutexAssumption DEF LocksInv, Labels, Creating, Waiting, Unlocking,
             HoldsTable, HoldsMutex, HoldsProc, Proc, Mutex, NoProc, NoChan,
             mutexVars, procVars, callVars, At, Goto, Acquire, Release
  <1>1. TypeOK'
    BY DEF TypeOK
  <1>2. LabelsOK'
    BY DEF TypeOK, LabelsOK
  <1>3. TableLockOK'
    BY DEF TypeOK, LabelsOK, TableLockOK
  <1>4. MutexLocksOK'
    <2>1. NoProc \notin Proc
      OBVIOUS
    <2> HIDE DEF Proc, Mutex, NoProc
    <2> QED
      BY <2>1 DEF TypeOK, LabelsOK, MutexLocksOK
  <1>5. ProcLocksOK'
    BY SMTT(60) DEF TypeOK, LabelsOK, ProcLocksOK
  <1>6. WaitersOK'
    BY SMTT(60) DEF TypeOK, LabelsOK, TableLockOK,
           MutexLocksOK, ProcLocksOK, WaitersOK
  <1>7. SleepersReached'
    BY SMTT(60) DEF TypeOK, LabelsOK, TableLockOK,
           MutexLocksOK, ProcLocksOK, WaitersOK, SleepersReached
  <1> QED
    BY <1>1, <1>2, <1>3, <1>4, <1>5, <1>6, <1>7

LEMMA TableFullLocks ==
    ASSUME LocksInv, NEW p \in Proc,
           At(p, "create.scan"),
           table_lock' = NoProc,
           Goto(p, "user"),
           UNCHANGED <<mutexVars, id, mlock, plock, procVars, flag, i, holders>>
    PROVE  LocksInv'
  <1> USE KMutexAssumption DEF LocksInv, Labels, Creating, Waiting, Unlocking,
             HoldsTable, HoldsMutex, HoldsProc, Proc, Mutex, NoProc, NoChan,
             mutexVars, procVars, callVars, At, Goto, Acquire, Release
  <1>1. TypeOK'
    BY DEF TypeOK
  <1>2. LabelsOK'
    BY DEF TypeOK, LabelsOK
  <1>3. TableLockOK'
    BY DEF TypeOK, LabelsOK, TableLockOK
  <1>4. MutexLocksOK'
    BY DEF TypeOK, LabelsOK, MutexLocksOK
  <1>5. ProcLocksOK'
    BY DEF TypeOK, LabelsOK, ProcLocksOK
  <1>6. WaitersOK'
    BY DEF TypeOK, LabelsOK, TableLockOK,
           MutexLocksOK, ProcLocksOK, WaitersOK
  <1>7. SleepersReached'
    BY SMTT(30) DEF TypeOK, LabelsOK, TableLockOK,
           MutexLocksOK, ProcLocksOK, WaitersOK, SleepersReached
  <1> QED
    BY <1>1, <1>2, <1>3, <1>4, <1>5, <1>6, <1>7

LEMMA CreateLockedLocks ==
    ASSUME LocksInv, NEW p \in Proc, CreateLocked(p)
    PROVE  LocksInv'
  <1> USE KMutexAssumption DEF LocksInv, Labels, Creating, Waiting, Unlocking,
             HoldsTable, HoldsMutex, HoldsProc, Proc, Mutex, NoProc, NoChan,
             mutexVars, procVars, callVars, At, Goto, Acquire, Release,
             CreateLocked
  <1>1. TypeOK'
    BY DEF TypeOK
  <1>2. LabelsOK'
    BY DEF TypeOK, LabelsOK
  <1>3. TableLockOK'
    BY DEF TypeOK, LabelsOK, TableLockOK
  <1>4. MutexLocksOK'
    BY DEF TypeOK, LabelsOK, MutexLocksOK
  <1>5. ProcLocksOK'
    BY DEF TypeOK, LabelsOK, ProcLocksOK
  <1>6. WaitersOK'
    BY DEF TypeOK, LabelsOK, TableLockOK,
           MutexLocksOK, ProcLocksOK, WaitersOK
  <1>7. SleepersReached'
    BY DEF TypeOK, LabelsOK, TableLockOK,
           MutexLocksOK, ProcLocksOK, WaitersOK, SleepersReached
  <1> QED
    BY <1>1, <1>2, <1>3, <1>4, <1>5, <1>6, <1>7

LEMMA CreateOwnerLocks ==
    ASSUME LocksInv, NEW p \in Proc, CreateOwner(p)
    PROVE  LocksInv'
  <1> USE KMutexAssumption DEF LocksInv, Labels, Creating, Waiting, Unlocking,
             HoldsTable, HoldsMutex, HoldsProc, Proc, Mutex, NoProc, NoChan,
             mutexVars, procVars, callVars, At, Goto, Acquire, Release,
             CreateOwner
  <1>1. TypeOK'
    BY SMTT(60) DEF TypeOK
  <1>2. LabelsOK'
    BY DEF TypeOK, LabelsOK
  <1>3. TableLockOK'
    BY DEF TypeOK, LabelsOK, TableLockOK
  <1>4. MutexLocksOK'
    BY DEF TypeOK, LabelsOK, MutexLocksOK
  <1>5. ProcLocksOK'
    BY DEF TypeOK, LabelsOK, ProcLocksOK
  <1>6. WaitersOK'
    BY DEF TypeOK, LabelsOK, TableLockOK,
           MutexLocksOK, ProcLocksOK, WaitersOK
  <1>7. SleepersReached'
    BY DEF TypeOK, LabelsOK, TableLockOK,
           MutexLocksOK, ProcLocksOK, WaitersOK, SleepersReached
  <1> QED
    BY <1>1, <1>2, <1>3, <1>4, <1>5, <1>6, <1>7

LEMMA sys_mtx_lockLocks ==
    ASSUME LocksInv, NEW p \in Proc, NEW m \in Ids, sys_mtx_lock(p, m)
    PROVE  LocksInv'
  <1> USE KMutexAssumption DEF LocksInv, Labels, Creating, Waiting, Unlocking,
             HoldsTable, HoldsMutex, HoldsProc, Proc, Mutex, NoProc, NoChan,
             mutexVars, procVars, callVars, At, Goto, Acquire, Release,
             sys_mtx_lock
  <1>1. TypeOK'
    BY DEF TypeOK
  <1>2. LabelsOK'
    BY SMTT(60) DEF TypeOK, LabelsOK
  <1>3. TableLockOK'
    BY DEF TypeOK, LabelsOK, TableLockOK
  <1>4. MutexLocksOK'
    <2>1. NoProc \notin Proc
      OBVIOUS
    <2> HIDE DEF Proc, Mutex, NoProc
    <2> QED
      BY <2>1 DEF TypeOK, LabelsOK, MutexLocksOK
  <1>5. ProcLocksOK'
    BY SMTT(60) DEF TypeOK, LabelsOK, ProcLocksOK
  <1>6. WaitersOK'
    BY DEF TypeOK, LabelsOK, TableLockOK,
           MutexLocksOK, ProcLocksOK, WaitersOK
  <1>7. SleepersReached'
    BY SMTT(60) DEF TypeOK, LabelsOK, TableLockOK,
           MutexLocksOK, ProcLocksOK, WaitersOK, SleepersReached
  <1> QED
    BY <1>1, <1>2, <1>3, <1>4, <1>5, <1>6, <1>7

LEMMA LockCheckLocks ==
    ASSUME LocksInv, NEW p \in Proc, LockCheck(p)
    PROVE  LocksInv'
  <1> USE KMutexAssumption DEF LocksInv, Labels, Creating, Waiting, Unlocking,
             HoldsTable, HoldsMutex, HoldsProc, Proc, Mutex, NoProc, NoChan,
             mutexVars, procVars, callVars, At, Goto, Acquire, Release,
             LockCheck
  <1>1. TypeOK'
    BY DEF TypeOK
  <1>2. LabelsOK'
    BY DEF TypeOK, LabelsOK
  <1>3. TableLockOK'
    BY DEF TypeOK, LabelsOK, TableLockOK
  <1>4. MutexLocksOK'
    BY DEF TypeOK, LabelsOK, MutexLocksOK
  <1>5. ProcLocksOK'
    BY DEF TypeOK, LabelsOK, ProcLocksOK
  <1>6. WaitersOK'
    BY DEF TypeOK, LabelsOK, TableLockOK,
           MutexLocksOK, ProcLocksOK, WaitersOK
  <1>7. SleepersReached'
    BY DEF TypeOK, LabelsOK, TableLockOK,
           MutexLocksOK, ProcLocksOK, WaitersOK, SleepersReached
  <1> QED
    BY <1>1, <1>2, <1>3, <1>4, <1>5, <1>6, <1>7

LEMMA LockAcquireLocks ==
    ASSUME LocksInv, NEW p \in Proc, LockAcquire(p)
    PROVE  LocksInv'
  <1> USE KMutexAssumption DEF LocksInv, Labels, Creating, Waiting, Unlocking,
             HoldsTable, HoldsMutex, HoldsProc, Proc, Mutex, NoProc, NoChan,
             mutexVars, procVars, callVars, At, Goto, Acquire, Release,
             LockAcquire
  <1>1. TypeOK'
    BY DEF TypeOK
  <1>2. LabelsOK'
    BY DEF TypeOK, LabelsOK
  <1>3. TableLockOK'
    BY DEF TypeOK, LabelsOK, TableLockOK
  <1>4. MutexLocksOK'
    BY DEF TypeOK, LabelsOK, MutexLocksOK
  <1>5. ProcLocksOK'
    BY DEF TypeOK, LabelsOK, ProcLocksOK
  <1>6. WaitersOK'
    BY DEF TypeOK, LabelsOK, TableLockOK,
           MutexLocksOK, ProcLocksOK, WaitersOK
  <1>7. SleepersReached'
    BY SMTT(60) DEF TypeOK, LabelsOK, TableLockOK,
           MutexLocksOK, ProcLocksOK, WaitersOK, SleepersReached
  <1> QED
    BY <1>1, <1>2, <1>3, <1>4, <1>5, <1>6, <1>7

LEMMA SeenLockedLocks ==
    ASSUME LocksInv, NEW p \in Proc,
           At(p, "lock.while"),
           locked[id[p]] # 0,
           Goto(p, "sleep"),
           UNCHANGED <<table_lock, mutexVars, mlock, plock, procVars, callVars, holders>>
    PROVE  LocksInv'
  <1> USE KMutexAssumption DEF LocksInv, Labels, Creating, Waiting, Unlocking,
             HoldsTable, HoldsMutex, HoldsProc, Proc, Mutex, NoProc, NoChan,
             mutexVars, procVars, callVars, At, Goto, Acquire, Release
  <1>1. TypeOK'
    BY DEF TypeOK
  <1>2. LabelsOK'
    BY DEF TypeOK, LabelsOK
  <1>3. TableLockOK'
    BY DEF TypeOK, LabelsOK, TableLockOK
  <1>4. MutexLocksOK'
    BY DEF TypeOK, LabelsOK, MutexLocksOK
  <1>5. ProcLocksOK'
    BY DEF TypeOK, LabelsOK, ProcLocksOK
  <1>6. WaitersOK'
    BY DEF TypeOK, LabelsOK, TableLockOK,
           MutexLocksOK, ProcLocksOK, WaitersOK
  <1>7. SleepersReached'
    BY DEF TypeOK, LabelsOK, TableLockOK,
           MutexLocksOK, ProcLocksOK, WaitersOK, SleepersReached
  <1> QED
    BY <1>1, <1>2, <1>3, <1>4, <1>5, <1>6, <1>7

LEMMA TakenLocks ==
    ASSUME LocksInv, NEW p \in Proc,
           At(p, "lock.while"),
           locked[id[p]] = 0,
           locked' = [locked EXCEPT ![id[p]] = 1],
           owner' = [owner EXCEPT ![id[p]] = p],
           holders' = [holders EXCEPT ![id[p]] = @ \cup {p}],
           mlock' = [mlock EXCEPT ![id[p]] = NoProc],
           Goto(p, "user"),
           UNCHANGED <<table_lock, used, plock, procVars, callVars>>
    PROVE  LocksInv'
  <1> USE KMutexAssumption DEF LocksInv, Labels, Creating, Waiting, Unlocking,
             HoldsTable, HoldsMutex, HoldsProc, Proc, Mutex, NoProc, NoChan,
             mutexVars, procVars, callVars, At, Goto, Acquire, Release
  <1>1. TypeOK'
    <2>1. id[p] \in Mutex /\ holders[id[p]] \cup {p} \in SUBSET Proc
      BY DEF TypeOK
    <2> HIDE DEF Proc, Mutex
    <2> QED
      BY <2>1 DEF TypeOK
  <1>2. LabelsOK'
    BY DEF TypeOK, LabelsOK
  <1>3. TableLockOK'
    BY DEF TypeOK, LabelsOK, TableLockOK
  <1>4. MutexLocksOK'
    BY DEF TypeOK, LabelsOK, MutexLocksOK
  <1>5. ProcLocksOK'
    BY DEF TypeOK, LabelsOK, ProcLocksOK
  <1>6. WaitersOK'
    BY SMTT(60) DEF TypeOK, LabelsOK, TableLockOK,
           MutexLocksOK, ProcLocksOK, WaitersOK
  <1>7. SleepersReached'
    BY DEF TypeOK, LabelsOK, TableLockOK,
           MutexLocksOK, ProcLocksOK, WaitersOK, SleepersReached
  <1> QED
    BY <1>1, <1>2, <1>3, <1>4, <1>5, <1>6, <1>7

LEMMA SleepLocks ==
    ASSUME LocksInv, NEW p \in Proc, Sleep(p)
    PROVE  LocksInv'
  <1> USE KMutexAssumption DEF LocksInv, Labels, Creating, Waiting, Unlocking,
             HoldsTable, HoldsMutex, HoldsProc, Proc, Mutex, NoProc, NoChan,
             mutexVars, procVars, callVars, At, Goto, Acquire, Release,
             Sleep
  <1>1. TypeOK'
    BY DEF TypeOK
  <1>2. LabelsOK'
    BY DEF TypeOK, LabelsOK
  <1>3. TableLockOK'
    BY DEF TypeOK, LabelsOK, TableLockOK
  <1>4. MutexLocksOK'
    BY DEF TypeOK, LabelsOK, MutexLocksOK
  <1>5. ProcLocksOK'
    BY DEF TypeOK, LabelsOK, ProcLocksOK
  <1>6. WaitersOK'
    BY DEF TypeOK, LabelsOK, TableLockOK,
           MutexLocksOK, ProcLocksOK, WaitersOK
  <1>7. SleepersReached'
    BY SMTT(60) DEF TypeOK, LabelsOK, TableLockOK,
           MutexLocksOK, ProcLocksOK, WaitersOK, SleepersReached
  <1> QED
    BY <1>1, <1>2, <1>3, <1>4, <1>5, <1>6, <1>7

LEMMA SleepReleaseLocks ==
    ASSUME LocksInv, NEW p \in Proc, SleepRelease(p)
    PROVE  LocksInv'
  <1> USE KMutexAssumption DEF LocksInv, Labels, Creating, Waiting, Unlocking,
             HoldsTable, HoldsMutex, HoldsProc, Proc, Mutex, NoProc, NoChan,
             mutexVars, procVars, callVars, At, Goto, Acquire, Release,
             SleepRelease
  <1>1. TypeOK'
    BY DEF TypeOK
  <1>2. LabelsOK'
    BY DEF TypeOK, LabelsOK
  <1>3. TableLockOK'
    BY DEF TypeOK, LabelsOK, TableLockOK
  <1>4. MutexLocksOK'
    BY DEF TypeOK, LabelsOK, MutexLocksOK
  <1>5. ProcLocksOK'
    BY DEF TypeOK, LabelsOK, ProcLocksOK
  <1>6. WaitersOK'
    BY DEF TypeOK, LabelsOK, TableLockOK,
           MutexLocksOK, ProcLocksOK, WaitersOK
  <1>7. SleepersReached'
    BY DEF TypeOK, LabelsOK, TableLockOK,
           MutexLocksOK, ProcLocksOK, WaitersOK, SleepersReached
  <1> QED
    BY <1>1, <1>2, <1>3, <1>4, <1>5, <1>6, <1>7

LEMMA SleepSchedLocks ==
    ASSUME LocksInv, NEW p \in Proc, SleepSched(p)
    PROVE  LocksInv'
  <1> USE KMutexAssumption DEF LocksInv, Labels, Creating, Waiting, Unlocking,
             HoldsTable, HoldsMutex, HoldsProc, Proc, Mutex, NoProc, NoChan,
             mutexVars, procVars, callVars, At, Goto, Acquire, Release,
             SleepSched
  <1>1. TypeOK'
    BY DEF TypeOK
  <1>2. LabelsOK'
    BY DEF TypeOK, LabelsOK
  <1>3. TableLockOK'
    BY DEF TypeOK, LabelsOK, TableLockOK
  <1>4. MutexLocksOK'
    BY DEF TypeOK, LabelsOK, MutexLocksOK
  <1>5. ProcLocksOK'
    BY DEF TypeOK, LabelsOK, ProcLocksOK
  <1>6. WaitersOK'
    BY DEF TypeOK, LabelsOK, TableLockOK,
           MutexLocksOK, ProcLocksOK, WaitersOK
  <1>7. SleepersReached'
    BY DEF TypeOK, LabelsOK, TableLockOK,
           MutexLocksOK, ProcLocksOK, WaitersOK, SleepersReached
  <1> QED
    BY <1>1, <1>2, <1>3, <1>4, <1>5, <1>6, <1>7

LEMMA ScheduleLocks ==
    ASSUME LocksInv, NEW p \in Proc, Schedule(p)
    PROVE  LocksInv'
  <1> USE KMutexAssumption DEF LocksInv, Labels, Creating, Waiting, Unlocking,
             HoldsTable, HoldsMutex, HoldsProc, Proc, Mutex, NoProc, NoChan,
             mutexVars, procVars, callVars, At, Goto, Acquire, Release,
             Schedule
  <1>1. TypeOK'
    BY DEF TypeOK
  <1>2. LabelsOK'
    BY DEF TypeOK, LabelsOK
  <1>3. TableLockOK'
    BY DEF TypeOK, LabelsOK, TableLockOK
  <1>4. MutexLocksOK'
    BY DEF TypeOK, LabelsOK, MutexLocksOK
  <1>5. ProcLocksOK'
    BY DEF TypeOK, LabelsOK, ProcLocksOK
  <1>6. WaitersOK'
    BY DEF TypeOK, LabelsOK, TableLockOK,
           MutexLocksOK, ProcLocksOK, WaitersOK
  <1>7. SleepersReached'
    BY DEF TypeOK, LabelsOK, TableLockOK,
           MutexLocksOK, ProcLocksOK, WaitersOK, SleepersReached
  <1> QED
    BY <1>1, <1>2, <1>3, <1>4, <1>5, <1>6, <1>7

LEMMA SleepResumeLocks ==
    ASSUME LocksInv, NEW p \in Proc, SleepResume(p)
    PROVE  LocksInv'
  <1> USE KMutexAssumption DEF LocksInv, Labels, Creating, Waiting, Unlocking,
             HoldsTable, HoldsMutex, HoldsProc, Proc, Mutex, NoProc, NoChan,
             mutexVars, procVars, callVars, At, Goto, Acquire, Release,
             SleepResume
  <1>1. TypeOK'
    BY DEF TypeOK
  <1>2. LabelsOK'
    BY DEF TypeOK, LabelsOK
  <1>3. TableLockOK'
    BY DEF TypeOK, LabelsOK, TableLockOK
  <1>4. MutexLocksOK'
    BY DEF TypeOK, LabelsOK, MutexLocksOK
  <1>5. ProcLocksOK'
    BY DEF TypeOK, LabelsOK, ProcLocksOK
  <1>6. WaitersOK'
    BY DEF TypeOK, LabelsOK, TableLockOK,
           MutexLocksOK, ProcLocksOK, WaitersOK
  <1>7. SleepersReached'
    BY SMTT(60) DEF TypeOK, LabelsOK, TableLockOK,
           MutexLocksOK, ProcLocksOK, WaitersOK, SleepersReached
  <1> QED
    BY <1>1, <1>2, <1>3, <1>4, <1>5, <1>6, <1>7

LEMMA sys_mtx_unlockLocks ==
    ASSUME LocksInv, NEW p \in Proc, NEW m \in Ids, sys_mtx_unlock(p, m)
    PROVE  LocksInv'
  <1> USE KMutexAssumption DEF LocksInv, Labels, Creating, Waiting, Unlocking,
             HoldsTable, HoldsMutex, HoldsProc, Proc, Mutex, NoProc, NoChan,
             mutexVars, procVars, callVars, At, Goto, Acquire, Release,
             sys_mtx_unlock
  <1>1. TypeOK'
    BY DEF TypeOK
  <1>2. LabelsOK'
    BY DEF TypeOK, LabelsOK
  <1>3. TableLockOK'
    BY DEF TypeOK, LabelsOK, TableLockOK
  <1>4. MutexLocksOK'
    <2>1. NoProc \notin Proc
      OBVIOUS
    <2> HIDE DEF Proc, Mutex, NoProc
    <2> QED
      BY <2>1 DEF TypeOK, LabelsOK, MutexLocksOK
  <1>5. ProcLocksOK'
    BY SMTT(60) DEF TypeOK, LabelsOK, ProcLocksOK
  <1>6. WaitersOK'
    BY DEF TypeOK, LabelsOK, TableLockOK,
           MutexLocksOK, ProcLocksOK, WaitersOK
  <1>7. SleepersReached'
    BY SMTT(60) DEF TypeOK, LabelsOK, TableLockOK,
           MutexLocksOK, ProcLocksOK, WaitersOK, SleepersReached
  <1> QED
    BY <1>1, <1>2, <1>3, <1>4, <1>5, <1>6, <1>7

LEMMA NotLockedLocks ==
    ASSUME LocksInv, NEW p \in Proc,
           At(p, "unlock.check"),
           used[id[p]] = 0 \/ locked[id[p]] = 0,
           mlock' = [mlock EXCEPT ![id[p]] = NoProc],
           Goto(p, "user"),
           UNCHANGED <<table_lock, mutexVars, plock, procVars, callVars, holders>>
    PROVE  LocksInv'
  <1> USE KMutexAssumption DEF LocksInv, Labels, Creating, Waiting, Unlocking,
             HoldsTable, HoldsMutex, HoldsProc, Proc, Mutex, NoProc, NoChan,
             mutexVars, procVars, callVars, At, Goto, Acquire, Release
  <1>1. TypeOK'
    BY DEF TypeOK
  <1>2. LabelsOK'
    BY DEF TypeOK, LabelsOK
  <1>3. TableLockOK'
    BY DEF TypeOK, LabelsOK, TableLockOK
  <1>4. MutexLocksOK'
    BY DEF TypeOK, LabelsOK, MutexLocksOK
  <1>5. ProcLocksOK'
    BY DEF TypeOK, LabelsOK, ProcLocksOK
  <1>6. WaitersOK'
    BY DEF TypeOK, LabelsOK, TableLockOK,
           MutexLocksOK, ProcLocksOK, WaitersOK
  <1>7. SleepersReached'
    BY SMTT(60) DEF TypeOK, LabelsOK, TableLockOK,
           MutexLocksOK, ProcLocksOK, WaitersOK, SleepersReached
  <1> QED
    BY <1>1, <1>2, <1>3, <1>4, <1>5, <1>6, <1>7

LEMMA UnlockedLocks ==
    ASSUME LocksInv, NEW p \in Proc,
           At(p, "unlock.check"),
           used[id[p]] # 0,
           locked' = [locked EXCEPT ![id[p]] = 0],
           Goto(p, "unlock.owner"),
           UNCHANGED <<table_lock, used, owner, mlock, plock, procVars, callVars, holders>>
    PROVE  LocksInv'
  <1> USE KMutexAssumption DEF LocksInv, Labels, Creating, Waiting, Unlocking,
             HoldsTable, HoldsMutex, HoldsProc, Proc, Mutex, NoProc, NoChan,
             mutexVars, procVars, callVars, At, Goto, Acquire, Release
  <1>1. TypeOK'
    BY DEF TypeOK
  <1>2. LabelsOK'
    BY DEF TypeOK, LabelsOK
  <1>3. TableLockOK'
    BY DEF TypeOK, LabelsOK, TableLockOK
  <1>4. MutexLocksOK'
    BY DEF TypeOK, LabelsOK, MutexLocksOK
  <1>5. ProcLocksOK'
    BY DEF TypeOK, LabelsOK, ProcLocksOK
  <1>6. WaitersOK'
    BY DEF TypeOK, LabelsOK, TableLockOK,
           MutexLocksOK, ProcLocksOK, WaitersOK
  <1>7. SleepersReached'
    BY DEF TypeOK, LabelsOK, TableLockOK,
           MutexLocksOK, ProcLocksOK, WaitersOK, SleepersReached
  <1> QED
    BY <1>1, <1>2, <1>3, <1>4, <1>5, <1>6, <1>7

LEMMA UnlockOwnerLocks ==
    ASSUME LocksInv, NEW p \in Proc, UnlockOwner(p)
    PROVE  LocksInv'
  <1> USE KMutexAssumption DEF LocksInv, Labels, Creating, Waiting, Unlocking,
             HoldsTable, HoldsMutex, HoldsProc, Proc, Mutex, NoProc, NoChan,
             mutexVars, procVars, callVars, At, Goto, Acquire, Release,
             UnlockOwner
  <1>1. TypeOK'
    BY SMTT(30) DEF TypeOK
  <1>2. LabelsOK'
    BY DEF TypeOK, LabelsOK
  <1>3. TableLockOK'
    BY DEF TypeOK, LabelsOK, TableLockOK
  <1>4. MutexLocksOK'
    BY DEF TypeOK, LabelsOK, MutexLocksOK
  <1>5. ProcLocksOK'
    BY DEF TypeOK, LabelsOK, ProcLocksOK
  <1>6. WaitersOK'
    BY DEF TypeOK, LabelsOK, TableLockOK,
           MutexLocksOK, ProcLocksOK, WaitersOK
  <1>7. SleepersReached'
    BY DEF TypeOK, LabelsOK, TableLockOK,
           MutexLocksOK, ProcLocksOK, WaitersOK, SleepersReached
  <1> QED
    BY <1>1, <1>2, <1>3, <1>4, <1>5, <1>6, <1>7

LEMMA WakeupLocks ==
    ASSUME LocksInv, NEW p \in Proc, Wakeup(p)
    PROVE  LocksInv'
  <1> USE KMutexAssumption DEF LocksInv, Labels, Creating, Waiting, Unlocking,
             HoldsTable, HoldsMutex, HoldsProc, Proc, Mutex, NoProc, NoChan,
             mutexVars, procVars, callVars, At, Goto, Acquire, Release,
             Wakeup
  <1>1. TypeOK'
    <2>1. i[p] + 1 \in 0 .. NPROC + 1
      OBVIOUS
    <2> HIDE DEF Proc, Mutex
    <2> QED
      BY <2>1 DEF TypeOK
  <1>2. LabelsOK'
    BY SMTT(60) DEF TypeOK, LabelsOK
  <1>3. TableLockOK'
    BY DEF TypeOK, LabelsOK, TableLockOK
  <1>4. MutexLocksOK'
    <2>1. NoProc \notin Proc
      OBVIOUS
    <2> HIDE DEF Proc, Mutex, NoProc
    <2> QED
      BY <2>1 DEF TypeOK, LabelsOK, MutexLocksOK
  <1>5. ProcLocksOK'
    BY SMTT(60) DEF TypeOK, LabelsOK, ProcLocksOK
  <1>6. WaitersOK'
    BY SMTT(60) DEF TypeOK, LabelsOK, TableLockOK,
           MutexLocksOK, ProcLocksOK, WaitersOK
  <1>7. SleepersReached'
    <2> SUFFICES ASSUME NEW s \in Proc,
                        pc'[s] = "sleep.sched" \/ state'[s] = "SLEEPING",
                        locked'[id'[s]] = 0
                 PROVE  LET q == mlock'[id'[s]]
                        IN  /\ q # NoProc
                            /\ pc'[q] = "unlock.owner" \/ (pc'[q] = "wakeup" /\ i'[q] <= s)
      BY DEF SleepersReached
    <2> DEFINE q == mlock[id[s]]
    <2>1. pc[s] = "sleep.sched" \/ state[s] = "SLEEPING"
      BY DEF TypeOK
    <2>2. /\ q \in Proc
          /\ pc[q] = "unlock.owner" \/ (pc[q] = "wakeup" /\ i[q] <= s)
      <3>1. locked[id[s]] = 0 /\ id[s] \in Mutex /\ mlock[id[s]] \in Proc \cup {NoProc}
        BY DEF TypeOK
      <3> HIDE DEF Proc, Mutex
      <3> QED
        BY <2>1, <3>1 DEF SleepersReached
    <2>3. CASE q # p \/ i[p] # s
      <3>1. /\ UNCHANGED <<mlock, id, pc>>
            /\ i'[q] = IF q = p THEN i[q] + 1 ELSE i[q]
            /\ i[q] \in Int
        BY SMTT(60), <2>2 DEF TypeOK
      <3>2. i[q] <= s /\ (q = p => i[q] # s) => i'[q] <= s
        BY <3>1
      <3> HIDE DEF q
      <3> QED
        BY <2>2, <2>3, <3>1, <3>2 DEF q
    <2>4. CASE q = p /\ i[p] = s
      <3>1. s # p /\ id[p] = id[s]
        BY <2>1, <2>2, <2>4 DEF TypeOK, LabelsOK, MutexLocksOK
      <3>2. plock[s] = NoProc /\ state[s] = "SLEEPING" /\ chan[s] = id[p]
        BY <2>1, <2>4, <3>1 DEF TypeOK, LabelsOK, ProcLocksOK
      <3>3. state'[s] = "RUNNABLE" /\ pc'[s] = pc[s]
        BY <2>4, <3>1, <3>2 DEF TypeOK
      <3> QED
        BY <3>2, <3>3, <2>1 DEF LabelsOK
    <2> QED
      BY <2>3, <2>4
  <1> QED
    BY <1>1, <1>2, <1>3, <1>4, <1>5, <1>6, <1>7

LEMMA UnlockReturnLocks ==
    ASSUME LocksInv, NEW p \in Proc, UnlockReturn(p)
    PROVE  LocksInv'
  <1> USE KMutexAssumption DEF LocksInv, Labels, Creating, Waiting, Unlocking,
             HoldsTable, HoldsMutex, HoldsProc, Proc, Mutex, NoProc, NoChan,
             mutexVars, procVars, callVars, At, Goto, Acquire, Release,
             UnlockReturn
  <1>1. TypeOK'
    BY SMTT(60) DEF TypeOK
  <1>2. LabelsOK'
    BY DEF TypeOK, LabelsOK
  <1>3. TableLockOK'
    BY DEF TypeOK, LabelsOK, TableLockOK
  <1>4. MutexLocksOK'
    BY DEF TypeOK, LabelsOK, MutexLocksOK
  <1>5. ProcLocksOK'
    BY SMTT(60) DEF TypeOK, LabelsOK, ProcLocksOK
  <1>6. WaitersOK'
    BY DEF TypeOK, LabelsOK, TableLockOK,
           MutexLocksOK, ProcLocksOK, WaitersOK
  <1>7. SleepersReached'
    BY SMTT(30) DEF TypeOK, LabelsOK, TableLockOK,
           MutexLocksOK, ProcLocksOK, WaitersOK, SleepersReached
  <1> QED
    BY <1>1, <1>2, <1>3, <1>4, <1>5, <1>6, <1>7

LEMMA kexitLocks ==
    ASSUME LocksInv, NEW p \in Proc, kexit(p)
    PROVE  LocksInv'
  <1> USE KMutexAssumption DEF LocksInv, Labels, Creating, Waiting, Unlocking,
             HoldsTable, HoldsMutex, HoldsProc, Proc, Mutex, NoProc, NoChan,
             mutexVars, procVars, callVars, At, Goto, Acquire, Release,
             kexit
  <1>1. TypeOK'
    BY DEF TypeOK
  <1>2. LabelsOK'
    BY DEF TypeOK, LabelsOK
  <1>3. TableLockOK'
    BY DEF TypeOK, LabelsOK, TableLockOK
  <1>4. MutexLocksOK'
    BY DEF TypeOK, LabelsOK, MutexLocksOK
  <1>5. ProcLocksOK'
    BY DEF TypeOK, LabelsOK, ProcLocksOK
  <1>6. WaitersOK'
    BY DEF TypeOK, LabelsOK, TableLockOK,
           MutexLocksOK, ProcLocksOK, WaitersOK
  <1>7. SleepersReached'
    BY DEF TypeOK, LabelsOK, TableLockOK,
           MutexLocksOK, ProcLocksOK, WaitersOK, SleepersReached
  <1> QED
    BY <1>1, <1>2, <1>3, <1>4, <1>5, <1>6, <1>7

LEMMA kkillLocks ==
    ASSUME LocksInv, NEW p \in Proc, kkill(p)
    PROVE  LocksInv'
  <1> USE KMutexAssumption DEF LocksInv, Labels, Creating, Waiting, Unlocking,
             HoldsTable, HoldsMutex, HoldsProc, Proc, Mutex, NoProc, NoChan,
             mutexVars, procVars, callVars, At, Goto, Acquire, Release,
             kkill
  <1>1. TypeOK'
    BY DEF TypeOK
  <1>2. LabelsOK'
    BY DEF TypeOK, LabelsOK
  <1>3. TableLockOK'
    BY DEF TypeOK, LabelsOK, TableLockOK
  <1>4. MutexLocksOK'
    BY DEF TypeOK, LabelsOK, MutexLocksOK
  <1>5. ProcLocksOK'
    BY DEF TypeOK, LabelsOK, ProcLocksOK
  <1>6. WaitersOK'
    BY DEF TypeOK, LabelsOK, TableLockOK,
           MutexLocksOK, ProcLocksOK, WaitersOK
  <1>7. SleepersReached'
    BY DEF TypeOK, LabelsOK, TableLockOK,
           MutexLocksOK, ProcLocksOK, WaitersOK, SleepersReached
  <1> QED
    BY <1>1, <1>2, <1>3, <1>4, <1>5, <1>6, <1>7

-----------------------------------------------------------------------------
(* Who may hold a mutex, with disciplined use.                             *)

LEMMA ClaimsShrink ==
    ASSUME ClaimsOK, locked' = locked,
           \A m \in Mutex : used'[m] = 0 => used[m] = 0,
           \A p \in Proc, m \in Mutex : Claims(p, m)' => Claims(p, m)
    PROVE  ClaimsOK'
  BY DEF ClaimsOK

LEMMA OwnersStillAgree ==
    ASSUME OwnersAgree, UNCHANGED <<locked, owner>>,
           \A p \in Proc : pc[p] \in Creating \cup {"unlock.owner"} =>
                               id'[p] = id[p] /\ pc'[p] \in Creating \cup {"unlock.owner"}
    PROVE  OwnersAgree'
  BY DEF OwnersAgree

LEMMA sys_mtx_createClaims ==
    ASSUME LocksInv, DisciplineInv, NEW p \in Proc, NEW f \in Flags, sys_mtx_create(p, f)
    PROVE  DisciplineInv'
  <1> USE KMutexAssumption DEF Labels, Creating, Waiting, Unlocking, HoldsTable, HoldsMutex,
             HoldsProc, Proc, Mutex, NoProc, NoChan, mutexVars, procVars, callVars,
             At, Goto, Acquire, Release, LocksInv, TypeOK, LabelsOK,
             sys_mtx_create
  <1>1. ClaimsOK'
    <2>1. \A q \in Proc, k \in Mutex : Claims(q, k)' => Claims(q, k)
      BY DEF Claims
    <2> QED
      BY <2>1, ClaimsShrink DEF DisciplineInv
  <1>2. CallersKnow'
    BY DEF MutexLocksOK, TableLockOK, WaitersOK,
           DisciplineInv, ClaimsOK, CallersKnow, Claims
  <1>3. OwnersAgree'
    BY OwnersStillAgree DEF DisciplineInv
  <1>4. HoldersOwn'
    BY DEF MutexLocksOK, WaitersOK,
           DisciplineInv, ClaimsOK, CallersKnow, HoldersOwn, Claims
  <1> QED
    BY <1>1, <1>2, <1>3, <1>4 DEF DisciplineInv

LEMMA SlotFoundClaims ==
    ASSUME LocksInv, DisciplineInv, NEW p \in Proc, NEW m \in Mutex,
           At(p, "create.scan"),
           used[m] = 0,
           used' = [used EXCEPT ![m] = 1],
           id' = [id EXCEPT ![p] = m],
           Goto(p, "create.locked"),
           UNCHANGED <<table_lock, locked, owner, mlock, plock, procVars, flag, i, holders>>
    PROVE  DisciplineInv'
  <1> USE KMutexAssumption DEF Labels, Creating, Waiting, Unlocking, HoldsTable, HoldsMutex,
             HoldsProc, Proc, Mutex, NoProc, NoChan, mutexVars, procVars, callVars,
             At, Goto, Acquire, Release, LocksInv, TypeOK, LabelsOK
  <1>1. ClaimsOK'
    <2>1. \A q \in Proc, k \in Mutex : Claims(q, k)' => Claims(q, k)
      BY DEF Claims
    <2>2. \A k \in Mutex : used'[k] = 0 => used[k] = 0
      OBVIOUS
    <2> QED
      BY <2>1, <2>2, ClaimsShrink DEF DisciplineInv
  <1>2. CallersKnow'
    <2>1. /\ locked[m] = 0
          /\ \A q \in Proc : pc[q] \in Unlocking => id[q] # m
          /\ \A q \in Proc \ {p} : pc[q] \notin Creating
      BY DEF DisciplineInv, ClaimsOK, CallersKnow, TableLockOK
    <2> HIDE DEF Proc, Mutex
    <2> QED
      BY <2>1 DEF DisciplineInv, CallersKnow
  <1>3. OwnersAgree'
    BY OwnersStillAgree DEF DisciplineInv
  <1>4. HoldersOwn'
    BY DEF MutexLocksOK, WaitersOK,
           DisciplineInv, ClaimsOK, CallersKnow, HoldersOwn, Claims
  <1> QED
    BY <1>1, <1>2, <1>3, <1>4 DEF DisciplineInv

LEMMA TableFullClaims ==
    ASSUME LocksInv, DisciplineInv, NEW p \in Proc,
           At(p, "create.scan"),
           table_lock' = NoProc,
           Goto(p, "user"),
           UNCHANGED <<mutexVars, id, mlock, plock, procVars, flag, i, holders>>
    PROVE  DisciplineInv'
  <1> USE KMutexAssumption DEF Labels, Creating, Waiting, Unlocking, HoldsTable, HoldsMutex,
             HoldsProc, Proc, Mutex, NoProc, NoChan, mutexVars, procVars, callVars,
             At, Goto, Acquire, Release, LocksInv, TypeOK, LabelsOK
  <1>1. ClaimsOK'
    <2>1. \A q \in Proc, k \in Mutex : Claims(q, k)' => Claims(q, k)
      BY DEF Claims
    <2> QED
      BY <2>1, ClaimsShrink DEF DisciplineInv
  <1>2. CallersKnow'
    BY DEF MutexLocksOK, TableLockOK, WaitersOK,
           DisciplineInv, ClaimsOK, CallersKnow, Claims
  <1>3. OwnersAgree'
    BY OwnersStillAgree DEF DisciplineInv
  <1>4. HoldersOwn'
    BY DEF MutexLocksOK, WaitersOK,
           DisciplineInv, ClaimsOK, CallersKnow, HoldersOwn, Claims
  <1> QED
    BY <1>1, <1>2, <1>3, <1>4 DEF DisciplineInv

LEMMA CreateLockedClaims ==
    ASSUME LocksInv, DisciplineInv, NEW p \in Proc, CreateLocked(p)
    PROVE  DisciplineInv'
  <1> USE KMutexAssumption DEF Labels, Creating, Waiting, Unlocking, HoldsTable, HoldsMutex,
             HoldsProc, Proc, Mutex, NoProc, NoChan, mutexVars, procVars, callVars,
             At, Goto, Acquire, Release, LocksInv, TypeOK, LabelsOK,
             CreateLocked
  <1>1. ClaimsOK'
    <2>1. id[p] \in Mutex /\ locked[id[p]] = 0 /\ used[id[p]] = 1
      BY DEF DisciplineInv, CallersKnow, WaitersOK
    <2>2. \A q \in Proc : ~Claims(q, id[p])
      BY <2>1 DEF DisciplineInv, ClaimsOK
    <2>3. \A q \in Proc, k \in Mutex :
             Claims(q, k)' => Claims(q, k) \/ (q = p /\ k = id[p] /\ flag[p] # 0)
      BY DEF Claims
    <2>4. /\ \A k \in Mutex \ {id[p]} : locked'[k] = locked[k]
          /\ flag[p] # 0 => locked'[id[p]] = 1
          /\ used' = used
      BY <2>1
    <2>5. /\ \A q, r \in Proc, k \in Mutex : Claims(q, k) /\ Claims(r, k) => q = r
          /\ \A q \in Proc, k \in Mutex : Claims(q, k) => locked[k] = 1
          /\ \A k \in Mutex : used[k] = 0 => locked[k] = 0
      BY DEF DisciplineInv, ClaimsOK
    <2> HIDE DEF CreateLocked, Proc, Mutex, LocksInv
    <2>6. \A q, r \in Proc, k \in Mutex : Claims(q, k)' /\ Claims(r, k)' => q = r
      BY <2>2, <2>3, <2>5
    <2>7. \A q \in Proc, k \in Mutex : Claims(q, k)' => locked'[k] = 1
      BY <2>2, <2>3, <2>4, <2>5
    <2>8. \A k \in Mutex : used'[k] = 0 => locked'[k] = 0
      BY <2>1, <2>4, <2>5
    <2> QED
      BY <2>6, <2>7, <2>8 DEF ClaimsOK
  <1>2. CallersKnow'
    BY SMTT(60) DEF MutexLocksOK, TableLockOK, WaitersOK,
           DisciplineInv, ClaimsOK, CallersKnow, Claims
  <1>3. OwnersAgree'
    BY DEF MutexLocksOK, TableLockOK, WaitersOK,
           DisciplineInv, CallersKnow, OwnersAgree
  <1>4. HoldersOwn'
    BY DEF MutexLocksOK, WaitersOK,
           DisciplineInv, ClaimsOK, CallersKnow, HoldersOwn, Claims
  <1> QED
    BY <1>1, <1>2, <1>3, <1>4 DEF DisciplineInv

LEMMA CreateOwnerClaims ==
    ASSUME LocksInv, DisciplineInv, NEW p \in Proc, CreateOwner(p)
    PROVE  DisciplineInv'
  <1> USE KMutexAssumption DEF Labels, Creating, Waiting, Unlocking, HoldsTable, HoldsMutex,
             HoldsProc, Proc, Mutex, NoProc, NoChan, mutexVars, procVars, callVars,
             At, Goto, Acquire, Release, LocksInv, TypeOK, LabelsOK,
             CreateOwner
  <1>1. ClaimsOK'
    <2>1. \A q \in Proc, k \in Mutex : Claims(q, k)' => Claims(q, k)
      BY DEF Claims
    <2> QED
      BY <2>1, ClaimsShrink DEF DisciplineInv
  <1>2. CallersKnow'
    BY DEF MutexLocksOK, TableLockOK, WaitersOK,
           DisciplineInv, ClaimsOK, CallersKnow, Claims
  <1>3. OwnersAgree'
    BY DEF MutexLocksOK, TableLockOK, WaitersOK,
           DisciplineInv, CallersKnow, OwnersAgree
  <1>4. HoldersOwn'
    BY DEF MutexLocksOK, WaitersOK,
           DisciplineInv, ClaimsOK, CallersKnow, HoldersOwn, Claims
  <1> QED
    BY <1>1, <1>2, <1>3, <1>4 DEF DisciplineInv

LEMMA sys_mtx_lockClaims ==
    ASSUME LocksInv, DisciplineInv, NEW p \in Proc, NEW m \in Ids, sys_mtx_lock(p, m)
    PROVE  DisciplineInv'
  <1> USE KMutexAssumption DEF Labels, Creating, Waiting, Unlocking, HoldsTable, HoldsMutex,
             HoldsProc, Proc, Mutex, NoProc, NoChan, mutexVars, procVars, callVars,
             At, Goto, Acquire, Release, LocksInv, TypeOK, LabelsOK,
             sys_mtx_lock
  <1>1. ClaimsOK'
    <2>1. \A q \in Proc, k \in Mutex : Claims(q, k)' => Claims(q, k)
      BY DEF Claims
    <2> QED
      BY <2>1, ClaimsShrink DEF DisciplineInv
  <1>2. CallersKnow'
    BY DEF MutexLocksOK, TableLockOK, WaitersOK,
           DisciplineInv, ClaimsOK, CallersKnow, Claims
  <1>3. OwnersAgree'
    BY OwnersStillAgree DEF DisciplineInv
  <1>4. HoldersOwn'
    BY DEF MutexLocksOK, WaitersOK,
           DisciplineInv, ClaimsOK, CallersKnow, HoldersOwn, Claims
  <1> QED
    BY <1>1, <1>2, <1>3, <1>4 DEF DisciplineInv

LEMMA LockCheckClaims ==
    ASSUME LocksInv, DisciplineInv, NEW p \in Proc, LockCheck(p)
    PROVE  DisciplineInv'
  <1> USE KMutexAssumption DEF Labels, Creating, Waiting, Unlocking, HoldsTable, HoldsMutex,
             HoldsProc, Proc, Mutex, NoProc, NoChan, mutexVars, procVars, callVars,
             At, Goto, Acquire, Release, LocksInv, TypeOK, LabelsOK,
             LockCheck
  <1>1. ClaimsOK'
    <2>1. \A q \in Proc, k \in Mutex : Claims(q, k)' => Claims(q, k)
      BY DEF Claims
    <2> QED
      BY <2>1, ClaimsShrink DEF DisciplineInv
  <1>2. CallersKnow'
    BY DEF MutexLocksOK, TableLockOK, WaitersOK,
           DisciplineInv, ClaimsOK, CallersKnow, Claims
  <1>3. OwnersAgree'
    BY OwnersStillAgree DEF DisciplineInv
  <1>4. HoldersOwn'
    BY DEF MutexLocksOK, WaitersOK,
           DisciplineInv, ClaimsOK, CallersKnow, HoldersOwn, Claims
  <1> QED
    BY <1>1, <1>2, <1>3, <1>4 DEF DisciplineInv

LEMMA LockAcquireClaims ==
    ASSUME LocksInv, DisciplineInv, NEW p \in Proc, LockAcquire(p)
    PROVE  DisciplineInv'
  <1> USE KMutexAssumption DEF Labels, Creating, Waiting, Unlocking, HoldsTable, HoldsMutex,
             HoldsProc, Proc, Mutex, NoProc, NoChan, mutexVars, procVars, callVars,
             At, Goto, Acquire, Release, LocksInv, TypeOK, LabelsOK,
             LockAcquire
  <1>1. ClaimsOK'
    <2>1. \A q \in Proc, k \in Mutex : Claims(q, k)' => Claims(q, k)
      BY DEF Claims
    <2> QED
      BY <2>1, ClaimsShrink DEF DisciplineInv
  <1>2. CallersKnow'
    BY DEF MutexLocksOK, TableLockOK, WaitersOK,
           DisciplineInv, ClaimsOK, CallersKnow, Claims
  <1>3. OwnersAgree'
    BY OwnersStillAgree DEF DisciplineInv
  <1>4. HoldersOwn'
    BY DEF MutexLocksOK, WaitersOK,
           DisciplineInv, ClaimsOK, CallersKnow, HoldersOwn, Claims
  <1> QED
    BY <1>1, <1>2, <1>3, <1>4 DEF DisciplineInv

LEMMA SeenLockedClaims ==
    ASSUME LocksInv, DisciplineInv, NEW p \in Proc,
           At(p, "lock.while"),
           locked[id[p]] # 0,
           Goto(p, "sleep"),
           UNCHANGED <<table_lock, mutexVars, mlock, plock, procVars, callVars, holders>>
    PROVE  DisciplineInv'
  <1> USE KMutexAssumption DEF Labels, Creating, Waiting, Unlocking, HoldsTable, HoldsMutex,
             HoldsProc, Proc, Mutex, NoProc, NoChan, mutexVars, procVars, callVars,
             At, Goto, Acquire, Release, LocksInv, TypeOK, LabelsOK
  <1>1. ClaimsOK'
    <2>1. \A q \in Proc, k \in Mutex : Claims(q, k)' => Claims(q, k)
      BY DEF Claims
    <2> QED
      BY <2>1, ClaimsShrink DEF DisciplineInv
  <1>2. CallersKnow'
    BY DEF MutexLocksOK, TableLockOK, WaitersOK,
           DisciplineInv, ClaimsOK, CallersKnow, Claims
  <1>3. OwnersAgree'
    BY OwnersStillAgree DEF DisciplineInv
  <1>4. HoldersOwn'
    BY DEF MutexLocksOK, WaitersOK,
           DisciplineInv, ClaimsOK, CallersKnow, HoldersOwn, Claims
  <1> QED
    BY <1>1, <1>2, <1>3, <1>4 DEF DisciplineInv

LEMMA TakenClaims ==
    ASSUME LocksInv, DisciplineInv, NEW p \in Proc,
           At(p, "lock.while"),
           locked[id[p]] = 0,
           locked' = [locked EXCEPT ![id[p]] = 1],
           owner' = [owner EXCEPT ![id[p]] = p],
           holders' = [holders EXCEPT ![id[p]] = @ \cup {p}],
           mlock' = [mlock EXCEPT ![id[p]] = NoProc],
           Goto(p, "user"),
           UNCHANGED <<table_lock, used, plock, procVars, callVars>>
    PROVE  DisciplineInv'
  <1> USE KMutexAssumption DEF Labels, Creating, Waiting, Unlocking, HoldsTable, HoldsMutex,
             HoldsProc, Proc, Mutex, NoProc, NoChan, mutexVars, procVars, callVars,
             At, Goto, Acquire, Release, LocksInv, TypeOK, LabelsOK
  <1>1. ClaimsOK'
    BY SMTT(60) DEF MutexLocksOK, TableLockOK, WaitersOK,
           DisciplineInv, ClaimsOK, CallersKnow, Claims
  <1>2. CallersKnow'
    BY SMTT(60) DEF MutexLocksOK, TableLockOK, WaitersOK,
           DisciplineInv, ClaimsOK, CallersKnow, Claims
  <1>3. OwnersAgree'
    BY DEF MutexLocksOK, TableLockOK, WaitersOK,
           DisciplineInv, CallersKnow, OwnersAgree
  <1>4. HoldersOwn'
    BY DEF MutexLocksOK, WaitersOK,
           DisciplineInv, ClaimsOK, CallersKnow, HoldersOwn, Claims
  <1> QED
    BY <1>1, <1>2, <1>3, <1>4 DEF DisciplineInv

LEMMA SleepClaims ==
    ASSUME LocksInv, DisciplineInv, NEW p \in Proc, Sleep(p)
    PROVE  DisciplineInv'
  <1> USE KMutexAssumption DEF Labels, Creating, Waiting, Unlocking, HoldsTable, HoldsMutex,
             HoldsProc, Proc, Mutex, NoProc, NoChan, mutexVars, procVars, callVars,
             At, Goto, Acquire, Release, LocksInv, TypeOK, LabelsOK,
             Sleep
  <1>1. ClaimsOK'
    <2>1. \A q \in Proc, k \in Mutex : Claims(q, k)' => Claims(q, k)
      BY DEF Claims
    <2> QED
      BY <2>1, ClaimsShrink DEF DisciplineInv
  <1>2. CallersKnow'
    BY SMTT(60) DEF MutexLocksOK, TableLockOK, WaitersOK,
           DisciplineInv, ClaimsOK, CallersKnow, Claims
  <1>3. OwnersAgree'
    BY OwnersStillAgree DEF DisciplineInv
  <1>4. HoldersOwn'
    BY DEF MutexLocksOK, WaitersOK,
           DisciplineInv, ClaimsOK, CallersKnow, HoldersOwn, Claims
  <1> QED
    BY <1>1, <1>2, <1>3, <1>4 DEF DisciplineInv

LEMMA SleepReleaseClaims ==
    ASSUME LocksInv, DisciplineInv, NEW p \in Proc, SleepRelease(p)
    PROVE  DisciplineInv'
  <1> USE KMutexAssumption DEF Labels, Creating, Waiting, Unlocking, HoldsTable, HoldsMutex,
             HoldsProc, Proc, Mutex, NoProc, NoChan, mutexVars, procVars, callVars,
             At, Goto, Acquire, Release, LocksInv, TypeOK, LabelsOK,
             SleepRelease
  <1>1. ClaimsOK'
    <2>1. \A q \in Proc, k \in Mutex : Claims(q, k)' => Claims(q, k)
      BY DEF Claims
    <2> QED
      BY <2>1, ClaimsShrink DEF DisciplineInv
  <1>2. CallersKnow'
    BY DEF MutexLocksOK, TableLockOK, WaitersOK,
           DisciplineInv, ClaimsOK, CallersKnow, Claims
  <1>3. OwnersAgree'
    BY OwnersStillAgree DEF DisciplineInv
  <1>4. HoldersOwn'
    BY DEF MutexLocksOK, WaitersOK,
           DisciplineInv, ClaimsOK, CallersKnow, HoldersOwn, Claims
  <1> QED
    BY <1>1, <1>2, <1>3, <1>4 DEF DisciplineInv

LEMMA SleepSchedClaims ==
    ASSUME LocksInv, DisciplineInv, NEW p \in Proc, SleepSched(p)
    PROVE  DisciplineInv'
  <1> USE KMutexAssumption DEF Labels, Creating, Waiting, Unlocking, HoldsTable, HoldsMutex,
             HoldsProc, Proc, Mutex, NoProc, NoChan, mutexVars, procVars, callVars,
             At, Goto, Acquire, Release, LocksInv, TypeOK, LabelsOK,
             SleepSched
  <1>1. ClaimsOK'
    <2>1. \A q \in Proc, k \in Mutex : Claims(q, k)' => Claims(q, k)
      BY DEF Claims
    <2> QED
      BY <2>1, ClaimsShrink DEF DisciplineInv
  <1>2. CallersKnow'
    BY DEF MutexLocksOK, TableLockOK, WaitersOK,
           DisciplineInv, ClaimsOK, CallersKnow, Claims
  <1>3. OwnersAgree'
    BY OwnersStillAgree DEF DisciplineInv
  <1>4. HoldersOwn'
    BY DEF MutexLocksOK, WaitersOK,
           DisciplineInv, ClaimsOK, CallersKnow, HoldersOwn, Claims
  <1> QED
    BY <1>1, <1>2, <1>3, <1>4 DEF DisciplineInv

LEMMA ScheduleClaims ==
    ASSUME LocksInv, DisciplineInv, NEW p \in Proc, Schedule(p)
    PROVE  DisciplineInv'
  <1> USE KMutexAssumption DEF Labels, Creating, Waiting, Unlocking, HoldsTable, HoldsMutex,
             HoldsProc, Proc, Mutex, NoProc, NoChan, mutexVars, procVars, callVars,
             At, Goto, Acquire, Release, LocksInv, TypeOK, LabelsOK,
             Schedule
  <1>1. ClaimsOK'
    <2>1. \A q \in Proc, k \in Mutex : Claims(q, k)' => Claims(q, k)
      BY DEF Claims
    <2> QED
      BY <2>1, ClaimsShrink DEF DisciplineInv
  <1>2. CallersKnow'
    BY DEF MutexLocksOK, TableLockOK, WaitersOK,
           DisciplineInv, ClaimsOK, CallersKnow, Claims
  <1>3. OwnersAgree'
    BY OwnersStillAgree DEF DisciplineInv
  <1>4. HoldersOwn'
    BY DEF MutexLocksOK, WaitersOK,
           DisciplineInv, ClaimsOK, CallersKnow, HoldersOwn, Claims
  <1> QED
    BY <1>1, <1>2, <1>3, <1>4 DEF DisciplineInv

LEMMA SleepResumeClaims ==
    ASSUME LocksInv, DisciplineInv, NEW p \in Proc, SleepResume(p)
    PROVE  DisciplineInv'
  <1> USE KMutexAssumption DEF Labels, Creating, Waiting, Unlocking, HoldsTable, HoldsMutex,
             HoldsProc, Proc, Mutex, NoProc, NoChan, mutexVars, procVars, callVars,
             At, Goto, Acquire, Release, LocksInv, TypeOK, LabelsOK,
             SleepResume
  <1>1. ClaimsOK'
    <2>1. \A q \in Proc, k \in Mutex : Claims(q, k)' => Claims(q, k)
      BY DEF Claims
    <2> QED
      BY <2>1, ClaimsShrink DEF DisciplineInv
  <1>2. CallersKnow'
    BY SMTT(60) DEF MutexLocksOK, TableLockOK, WaitersOK,
           DisciplineInv, ClaimsOK, CallersKnow, Claims
  <1>3. OwnersAgree'
    BY OwnersStillAgree DEF DisciplineInv
  <1>4. HoldersOwn'
    BY DEF MutexLocksOK, WaitersOK,
           DisciplineInv, ClaimsOK, CallersKnow, HoldersOwn, Claims
  <1> QED
    BY <1>1, <1>2, <1>3, <1>4 DEF DisciplineInv

LEMMA sys_mtx_unlockClaims ==
    ASSUME LocksInv, DisciplineInv, NEW p \in Proc, NEW m \in Ids, sys_mtx_unlock(p, m),
           p \in holders[m]
    PROVE  DisciplineInv'
  <1> USE KMutexAssumption DEF Labels, Creating, Waiting, Unlocking, HoldsTable, HoldsMutex,
             HoldsProc, Proc, Mutex, NoProc, NoChan, mutexVars, procVars, callVars,
             At, Goto, Acquire, Release, LocksInv, TypeOK, LabelsOK,
             sys_mtx_unlock
  <1>1. ClaimsOK'
    <2>1. \A q \in Proc, k \in Mutex : Claims(q, k)' => Claims(q, k)
      BY DEF Claims
    <2> QED
      BY <2>1, ClaimsShrink DEF DisciplineInv
  <1>2. CallersKnow'
    <2>1. Claims(p, m) /\ locked[m] = 1 /\ used[m] = 1
      BY DEF DisciplineInv, ClaimsOK, Claims
    <2>2. \A q \in Proc : pc[q] \in Creating => id[q] # m
      <3> SUFFICES ASSUME NEW q \in Proc, pc[q] \in Creating, id[q] = m
                   PROVE  FALSE
        OBVIOUS
      <3>1. pc[q] = "create.owner" /\ flag[q] # 0
        BY SMTT(60), <2>1 DEF DisciplineInv, CallersKnow
      <3>2. Claims(q, m)
        BY <3>1 DEF Claims
      <3> QED
        BY <2>1, <3>1, <3>2 DEF DisciplineInv, ClaimsOK
    <2>3. /\ pc' = [pc EXCEPT ![p] = "unlock.check"] /\ id' = [id EXCEPT ![p] = m]
          /\ holders' = [holders EXCEPT ![m] = @ \ {p}]
          /\ m \in Mutex /\ UNCHANGED <<used, locked, flag>>
      OBVIOUS
    <2> HIDE DEF sys_mtx_unlock, Proc, Mutex
    <2> QED
      BY <2>1, <2>2, <2>3 DEF DisciplineInv, CallersKnow
  <1>3. OwnersAgree'
    BY SMTT(60) DEF MutexLocksOK, TableLockOK, WaitersOK,
           DisciplineInv, CallersKnow, OwnersAgree
  <1>4. HoldersOwn'
    BY SMTT(30) DEF MutexLocksOK, WaitersOK,
           DisciplineInv, ClaimsOK, CallersKnow, HoldersOwn, Claims
  <1> QED
    BY <1>1, <1>2, <1>3, <1>4 DEF DisciplineInv

LEMMA NotLockedClaims ==
    ASSUME LocksInv, DisciplineInv, NEW p \in Proc,
           At(p, "unlock.check"),
           used[id[p]] = 0 \/ locked[id[p]] = 0,
           mlock' = [mlock EXCEPT ![id[p]] = NoProc],
           Goto(p, "user"),
           UNCHANGED <<table_lock, mutexVars, plock, procVars, callVars, holders>>
    PROVE  DisciplineInv'
  <1> USE KMutexAssumption DEF Labels, Creating, Waiting, Unlocking, HoldsTable, HoldsMutex,
             HoldsProc, Proc, Mutex, NoProc, NoChan, mutexVars, procVars, callVars,
             At, Goto, Acquire, Release, LocksInv, TypeOK, LabelsOK
  <1>1. ClaimsOK'
    <2>1. \A q \in Proc, k \in Mutex : Claims(q, k)' => Claims(q, k)
      BY DEF Claims
    <2> QED
      BY <2>1, ClaimsShrink DEF DisciplineInv
  <1>2. CallersKnow'
    BY DEF MutexLocksOK, TableLockOK, WaitersOK,
           DisciplineInv, ClaimsOK, CallersKnow, Claims
  <1>3. OwnersAgree'
    BY OwnersStillAgree DEF DisciplineInv
  <1>4. HoldersOwn'
    BY DEF MutexLocksOK, WaitersOK,
           DisciplineInv, ClaimsOK, CallersKnow, HoldersOwn, Claims
  <1> QED
    BY <1>1, <1>2, <1>3, <1>4 DEF DisciplineInv

LEMMA UnlockedClaims ==
    ASSUME LocksInv, DisciplineInv, NEW p \in Proc,
           At(p, "unlock.check"),
           used[id[p]] # 0,
           locked' = [locked EXCEPT ![id[p]] = 0],
           Goto(p, "unlock.owner"),
           UNCHANGED <<table_lock, used, owner, mlock, plock, procVars, callVars, holders>>
    PROVE  DisciplineInv'
  <1> USE KMutexAssumption DEF Labels, Creating, Waiting, Unlocking, HoldsTable, HoldsMutex,
             HoldsProc, Proc, Mutex, NoProc, NoChan, mutexVars, procVars, callVars,
             At, Goto, Acquire, Release, LocksInv, TypeOK, LabelsOK
  <1>1. ClaimsOK'
    <2>1. Claims(p, id[p])
      BY DEF Claims
    <2>2. \A q \in Proc, k \in Mutex : Claims(q, k)' => Claims(q, k) /\ (k = id[p] => q # p)
      <3>1. locked[id[p]] = 1 /\ id[p] \in Mutex
        BY <2>1 DEF DisciplineInv, ClaimsOK
      <3>2. p \notin holders[id[p]]
        BY DEF DisciplineInv, CallersKnow
      <3> QED
        BY <3>2 DEF Claims
    <2>3. \A q \in Proc : ~Claims(q, id[p])'
      BY <2>1, <2>2 DEF DisciplineInv, ClaimsOK
    <2> QED
      BY <2>2, <2>3 DEF DisciplineInv, ClaimsOK
  <1>2. CallersKnow'
    BY SMTT(30) DEF MutexLocksOK, TableLockOK, WaitersOK,
           DisciplineInv, ClaimsOK, CallersKnow, Claims
  <1>3. OwnersAgree'
    BY DEF MutexLocksOK, TableLockOK, WaitersOK,
           DisciplineInv, CallersKnow, OwnersAgree
  <1>4. HoldersOwn'
    BY DEF MutexLocksOK, WaitersOK,
           DisciplineInv, ClaimsOK, CallersKnow, HoldersOwn, Claims
  <1> QED
    BY <1>1, <1>2, <1>3, <1>4 DEF DisciplineInv

LEMMA UnlockOwnerClaims ==
    ASSUME LocksInv, DisciplineInv, NEW p \in Proc, UnlockOwner(p)
    PROVE  DisciplineInv'
  <1> USE KMutexAssumption DEF Labels, Creating, Waiting, Unlocking, HoldsTable, HoldsMutex,
             HoldsProc, Proc, Mutex, NoProc, NoChan, mutexVars, procVars, callVars,
             At, Goto, Acquire, Release, LocksInv, TypeOK, LabelsOK,
             UnlockOwner
  <1>1. ClaimsOK'
    <2>1. \A q \in Proc, k \in Mutex : Claims(q, k)' => Claims(q, k)
      BY DEF Claims
    <2> QED
      BY <2>1, ClaimsShrink DEF DisciplineInv
  <1>2. CallersKnow'
    BY DEF MutexLocksOK, TableLockOK, WaitersOK,
           DisciplineInv, ClaimsOK, CallersKnow, Claims
  <1>3. OwnersAgree'
    BY DEF MutexLocksOK, TableLockOK, WaitersOK,
           DisciplineInv, CallersKnow, OwnersAgree
  <1>4. HoldersOwn'
    BY DEF MutexLocksOK, WaitersOK,
           DisciplineInv, ClaimsOK, CallersKnow, HoldersOwn, Claims
  <1> QED
    BY <1>1, <1>2, <1>3, <1>4 DEF DisciplineInv

LEMMA WakeupClaims ==
    ASSUME LocksInv, DisciplineInv, NEW p \in Proc, Wakeup(p)
    PROVE  DisciplineInv'
  <1> USE KMutexAssumption DEF Labels, Creating, Waiting, Unlocking, HoldsTable, HoldsMutex,
             HoldsProc, Proc, Mutex, NoProc, NoChan, mutexVars, procVars, callVars,
             At, Goto, Acquire, Release, LocksInv, TypeOK, LabelsOK,
             Wakeup
  <1>1. ClaimsOK'
    <2>1. \A q \in Proc, k \in Mutex : Claims(q, k)' => Claims(q, k)
      BY DEF Claims
    <2> QED
      BY <2>1, ClaimsShrink DEF DisciplineInv
  <1>2. CallersKnow'
    BY SMTT(60) DEF MutexLocksOK, TableLockOK, WaitersOK,
           DisciplineInv, ClaimsOK, CallersKnow, Claims
  <1>3. OwnersAgree'
    BY OwnersStillAgree DEF DisciplineInv
  <1>4. HoldersOwn'
    BY DEF MutexLocksOK, WaitersOK,
           DisciplineInv, ClaimsOK, CallersKnow, HoldersOwn, Claims
  <1> QED
    BY <1>1, <1>2, <1>3, <1>4 DEF DisciplineInv

LEMMA UnlockReturnClaims ==
    ASSUME LocksInv, DisciplineInv, NEW p \in Proc, UnlockReturn(p)
    PROVE  DisciplineInv'
  <1> USE KMutexAssumption DEF Labels, Creating, Waiting, Unlocking, HoldsTable, HoldsMutex,
             HoldsProc, Proc, Mutex, NoProc, NoChan, mutexVars, procVars, callVars,
             At, Goto, Acquire, Release, LocksInv, TypeOK, LabelsOK,
             UnlockReturn
  <1>1. ClaimsOK'
    <2>1. \A q \in Proc, k \in Mutex : Claims(q, k)' => Claims(q, k)
      BY DEF Claims
    <2> QED
      BY <2>1, ClaimsShrink DEF DisciplineInv
  <1>2. CallersKnow'
    BY DEF MutexLocksOK, TableLockOK, WaitersOK,
           DisciplineInv, ClaimsOK, CallersKnow, Claims
  <1>3. OwnersAgree'
    BY OwnersStillAgree DEF DisciplineInv
  <1>4. HoldersOwn'
    BY DEF MutexLocksOK, WaitersOK,
           DisciplineInv, ClaimsOK, CallersKnow, HoldersOwn, Claims
  <1> QED
    BY <1>1, <1>2, <1>3, <1>4 DEF DisciplineInv

LEMMA kexitClaims ==
    ASSUME LocksInv, DisciplineInv, NEW p \in Proc, kexit(p)
    PROVE  DisciplineInv'
  <1> USE KMutexAssumption DEF Labels, Creating, Waiting, Unlocking, HoldsTable, HoldsMutex,
             HoldsProc, Proc, Mutex, NoProc, NoChan, mutexVars, procVars, callVars,
             At, Goto, Acquire, Release, LocksInv, TypeOK, LabelsOK,
             kexit
  <1>1. ClaimsOK'
    <2>1. \A q \in Proc, k \in Mutex : Claims(q, k)' => Claims(q, k)
      BY DEF Claims
    <2> QED
      BY <2>1, ClaimsShrink DEF DisciplineInv
  <1>2. CallersKnow'
    BY DEF MutexLocksOK, TableLockOK, WaitersOK,
           DisciplineInv, ClaimsOK, CallersKnow, Claims
  <1>3. OwnersAgree'
    BY OwnersStillAgree DEF DisciplineInv
  <1>4. HoldersOwn'
    BY DEF MutexLocksOK, WaitersOK,
           DisciplineInv, ClaimsOK, CallersKnow, HoldersOwn, Claims
  <1> QED
    BY <1>1, <1>2, <1>3, <1>4 DEF DisciplineInv

LEMMA kkillClaims ==
    ASSUME LocksInv, DisciplineInv, NEW p \in Proc, kkill(p)
    PROVE  DisciplineInv'
  <1> USE KMutexAssumption DEF Labels, Creating, Waiting, Unlocking, HoldsTable, HoldsMutex,
             HoldsProc, Proc, Mutex, NoProc, NoChan, mutexVars, procVars, callVars,
             At, Goto, Acquire, Release, LocksInv, TypeOK, LabelsOK,
             kkill
  <1>1. ClaimsOK'
    <2>1. \A q \in Proc, k \in Mutex : Claims(q, k)' => Claims(q, k)
      BY DEF Claims
    <2> QED
      BY <2>1, ClaimsShrink DEF DisciplineInv
  <1>2. CallersKnow'
    BY DEF MutexLocksOK, TableLockOK, WaitersOK,
           DisciplineInv, ClaimsOK, CallersKnow, Claims
  <1>3. OwnersAgree'
    BY OwnersStillAgree DEF DisciplineInv
  <1>4. HoldersOwn'
    BY DEF MutexLocksOK, WaitersOK,
           DisciplineInv, ClaimsOK, CallersKnow, HoldersOwn, Claims
  <1> QED
    BY <1>1, <1>2, <1>3, <1>4 DEF DisciplineInv

-----------------------------------------------------------------------------
LEMMA InitialClaims == Init => DisciplineInv
  <1> USE KMutexAssumption
  <1> QED
    BY DEF Init, DisciplineInv, ClaimsOK, CallersKnow, OwnersAgree, HoldersOwn, Claims,
           Creating, Unlocking, NoProc

(* One step of a process, or a kill.                                       *)
LEMMA ProcStepKeepsInv ==
    ASSUME LocksInv, NEW p \in Proc, KernelStep(p) \/ UserStep(p) \/ kkill(p)
    PROVE  LocksInv' /\ (use.disciplined /\ DisciplineInv => DisciplineInv')
  <1>1. CASE \E f \in Flags : sys_mtx_create(p, f)
    BY <1>1, sys_mtx_createLocks, sys_mtx_createClaims
  <1>2. CASE CreateScan(p)
    <2>1. CASE \E m \in Mutex :
                 /\ used[m] = 0
                 /\ used' = [used EXCEPT ![m] = 1]
                 /\ id' = [id EXCEPT ![p] = m]
                 /\ Goto(p, "create.locked")
                 /\ UNCHANGED table_lock
      <3>1. PICK m \in Mutex : /\ used[m] = 0
                               /\ used' = [used EXCEPT ![m] = 1]
                               /\ id' = [id EXCEPT ![p] = m]
                               /\ Goto(p, "create.locked")
                               /\ UNCHANGED table_lock
        BY <2>1
      <3>2. /\ At(p, "create.scan")
            /\ UNCHANGED <<table_lock, locked, owner, mlock, plock, procVars, flag, i, holders>>
        BY <1>2, <3>1 DEF CreateScan
      <3>3. LocksInv'
        BY <3>1, <3>2, SlotFoundLocks
      <3>4. DisciplineInv => DisciplineInv'
        BY <3>1, <3>2, SlotFoundClaims
      <3> QED
        BY <3>3, <3>4
    <2>2. CASE table_lock' = NoProc /\ Goto(p, "user") /\ UNCHANGED <<used, id>>
      <3>1. /\ At(p, "create.scan")
            /\ table_lock' = NoProc /\ Goto(p, "user")
            /\ UNCHANGED <<mutexVars, id, mlock, plock, procVars, flag, i, holders>>
        BY <1>2, <2>2 DEF CreateScan, mutexVars
      <3> QED
        BY <3>1, TableFullLocks, TableFullClaims
    <2> QED
      BY <1>2, <2>1, <2>2 DEF CreateScan
  <1>3. CASE CreateLocked(p)
    BY <1>3, CreateLockedLocks, CreateLockedClaims
  <1>4. CASE CreateOwner(p)
    BY <1>4, CreateOwnerLocks, CreateOwnerClaims
  <1>5. CASE \E m \in Ids : sys_mtx_lock(p, m)
    BY <1>5, sys_mtx_lockLocks, sys_mtx_lockClaims
  <1>6. CASE LockCheck(p)
    BY <1>6, LockCheckLocks, LockCheckClaims
  <1>7. CASE LockAcquire(p)
    BY <1>7, LockAcquireLocks, LockAcquireClaims
  <1>8. CASE LockWhile(p)
    <2>1. CASE locked[id[p]] # 0
      <3>1. /\ At(p, "lock.while") /\ Goto(p, "sleep")
            /\ UNCHANGED <<table_lock, mutexVars, mlock, plock, procVars, callVars, holders>>
        BY <1>8, <2>1 DEF LockWhile, mutexVars
      <3> QED
        BY <2>1, <3>1, SeenLockedLocks, SeenLockedClaims
    <2>2. CASE locked[id[p]] = 0
      <3>1. /\ At(p, "lock.while")
            /\ locked' = [locked EXCEPT ![id[p]] = 1]
            /\ owner' = [owner EXCEPT ![id[p]] = p]
            /\ holders' = [holders EXCEPT ![id[p]] = @ \cup {p}]
            /\ mlock' = [mlock EXCEPT ![id[p]] = NoProc]
            /\ Goto(p, "user")
            /\ UNCHANGED <<table_lock, used, plock, procVars, callVars>>
        BY <1>8, <2>2 DEF LockWhile, Release
      <3>2. LocksInv'
        BY <2>2, <3>1, TakenLocks
      <3>3. DisciplineInv => DisciplineInv'
        BY <2>2, <3>1, TakenClaims
      <3> QED
        BY <3>2, <3>3
    <2> QED
      BY <2>1, <2>2
  <1>9. CASE Sleep(p)
    BY <1>9, SleepLocks, SleepClaims
  <1>10. CASE SleepRelease(p)
    BY <1>10, SleepReleaseLocks, SleepReleaseClaims
  <1>11. CASE SleepSched(p)
    BY <1>11, SleepSchedLocks, SleepSchedClaims
  <1>12. CASE Schedule(p)
    BY <1>12, ScheduleLocks, ScheduleClaims
  <1>13. CASE SleepResume(p)
    BY <1>13, SleepResumeLocks, SleepResumeClaims
  <1>14. CASE \E m \in Ids : sys_mtx_unlock(p, m)
    <2>1. PICK m \in Ids : sys_mtx_unlock(p, m)
      BY <1>14
    <2>2. use.disciplined => p \in holders[m]
      BY <2>1 DEF sys_mtx_unlock
    <2> QED
      BY <2>1, <2>2, sys_mtx_unlockLocks, sys_mtx_unlockClaims
  <1>15. CASE UnlockCheck(p)
    <2>1. CASE used[id[p]] = 0 \/ locked[id[p]] = 0
      <3>1. /\ At(p, "unlock.check") /\ Goto(p, "user")
            /\ mlock' = [mlock EXCEPT ![id[p]] = NoProc]
            /\ UNCHANGED <<table_lock, mutexVars, plock, procVars, callVars, holders>>
        BY <1>15, <2>1 DEF UnlockCheck, Release, mutexVars
      <3> QED
        BY <2>1, <3>1, NotLockedLocks, NotLockedClaims
    <2>2. CASE ~(used[id[p]] = 0 \/ locked[id[p]] = 0)
      <3>1. /\ At(p, "unlock.check") /\ Goto(p, "unlock.owner")
            /\ locked' = [locked EXCEPT ![id[p]] = 0]
            /\ UNCHANGED <<table_lock, used, owner, mlock, plock, procVars, callVars, holders>>
        BY <1>15, <2>2 DEF UnlockCheck
      <3> QED
        BY <2>2, <3>1, UnlockedLocks, UnlockedClaims
    <2> QED
      BY <2>1, <2>2
  <1>16. CASE UnlockOwner(p)
    BY <1>16, UnlockOwnerLocks, UnlockOwnerClaims
  <1>17. CASE Wakeup(p)
    BY <1>17, WakeupLocks, WakeupClaims
  <1>18. CASE UnlockReturn(p)
    BY <1>18, UnlockReturnLocks, UnlockReturnClaims
  <1>19. CASE kexit(p)
    BY <1>19, kexitLocks, kexitClaims
  <1>20. CASE kkill(p)
    BY <1>20, kkillLocks, kkillClaims
  <1> QED
    BY <1>1, <1>2, <1>3, <1>4, <1>5, <1>6, <1>7, <1>8, <1>9, <1>10, <1>11, <1>12,
       <1>13, <1>14, <1>15, <1>16, <1>17, <1>18, <1>19, <1>20
    DEF KernelStep, UserStep

LEMMA StepKeepsKMutexInv ==
    KMutexInv /\ [Next /\ UNCHANGED use]_<<vars, use>> => KMutexInv'
  <1> SUFFICES ASSUME KMutexInv, [Next /\ UNCHANGED use]_<<vars, use>>
               PROVE  KMutexInv'
    OBVIOUS
  <1>1. CASE Next /\ UNCHANGED use
    <2>1. PICK p \in Proc : KernelStep(p) \/ UserStep(p) \/ kkill(p)
      BY <1>1 DEF Next
    <2>2. LocksInv' /\ (use.disciplined /\ DisciplineInv => DisciplineInv')
      BY <2>1, ProcStepKeepsInv DEF KMutexInv
    <2> QED
      BY <1>1, <2>2 DEF KMutexInv
  <1>2. CASE UNCHANGED <<vars, use>>
    <2>1. UNCHANGED <<table_lock, used, locked, owner, mlock, plock, state, chan, killed,
                      pc, id, flag, i, holders, use>>
      BY <1>2 DEF vars, mutexVars, procVars, callVars
    <2>2. LocksInv'
      BY <2>1 DEF KMutexInv, LocksInv, TypeOK, LabelsOK, TableLockOK, MutexLocksOK,
                  ProcLocksOK, WaitersOK, SleepersReached
    <2>3. DisciplineInv => DisciplineInv'
      BY <2>1 DEF DisciplineInv, ClaimsOK, CallersKnow, OwnersAgree, HoldersOwn, Claims
    <2> QED
      BY <2>1, <2>2, <2>3 DEF KMutexInv
  <1> QED
    BY <1>1, <1>2

(***************************************************************************)
(* The inductive invariant of the mutex system calls holds, whatever the   *)
(* size of the mutex table, the number of processes and their arguments.   *)
(***************************************************************************)
THEOREM KMutexInvariant == Spec => []KMutexInv
  <1>1. Init => KMutexInv
    BY InitialLocks, InitialClaims DEF KMutexInv
  <1> QED
    BY <1>1, StepKeepsKMutexInv, PTL DEF Spec

(***************************************************************************)
(* The fields keep their types, and no mtx_lock or mtx_unlock reaches      *)
(* outside the table of mutexes.                                           *)
(***************************************************************************)
THEOREM TypeCorrect == Spec => []TypeOK
  <1>1. KMutexInv => TypeOK
    BY DEF KMutexInv, LocksInv
  <1> QED
    BY <1>1, KMutexInvariant, PTL

(***************************************************************************)
(* sys_mtx_lock and sys_mtx_unlock lose no wakeup, however the calls, the  *)
(* scheduler and kkill interleave, and whether or not callers own what     *)
(* they unlock.                                                            *)
(***************************************************************************)
THEOREM WakeupsNotLost == Spec => []NoLostWakeup
  <1>1. KMutexInv => NoLostWakeup
    <2> SUFFICES ASSUME KMutexInv, NEW p \in Proc, NEW m \in Mutex,
                        state[p] = "SLEEPING", chan[p] = m, locked[m] = 0
                 PROVE  \E q \in Proc : /\ mlock[m] = q
                                        /\ \/ pc[q] = "unlock.owner"
                                           \/ pc[q] = "wakeup" /\ i[q] <= p
      BY DEF NoLostWakeup
    <2>1. id[p] = m
      BY DEF KMutexInv, LocksInv, LabelsOK
    <2>2. mlock[m] \in Proc \cup {NoProc}
      BY DEF KMutexInv, LocksInv, TypeOK
    <2> QED
      BY <2>1, <2>2 DEF KMutexInv, LocksInv, SleepersReached
  <1> QED
    BY <1>1, KMutexInvariant, PTL

(***************************************************************************)
(* A process that calls sched in sleep, sleeps, or is in user space, holds *)
(* neither the table lock nor the lock of a mutex: sched's checks of the   *)
(* locks held do not panic.                                                *)
(***************************************************************************)
THEOREM SchedNeverPanics == Spec => []SchedHoldsOnlyOwnLock
  <1>1. KMutexInv => SchedHoldsOnlyOwnLock
    BY DEF KMutexInv, LocksInv, TableLockOK, MutexLocksOK, SchedHoldsOnlyOwnLock,
           HoldsTable, HoldsMutex, Creating, Unlocking
  <1> QED
    BY <1>1, KMutexInvariant, PTL

(***************************************************************************)
(* Mutual exclusion: of any number of processes that unlock only what they *)
(* hold, at most one is between mtx_lock, or mtx_create with a flag, and   *)
(* mtx_unlock of a mutex.                                                  *)
(***************************************************************************)
THEOREM MutualExclusion == Spec => []MutexExclusion
  <1>1. KMutexInv => MutexExclusion
    <2> SUFFICES ASSUME KMutexInv, use.disciplined, NEW m \in Mutex
                 PROVE  Cardinality(holders[m]) <= 1
      BY DEF MutexExclusion
    <2>1. \A p, q \in holders[m] : p = q
      BY DEF KMutexInv, LocksInv, TypeOK, DisciplineInv, ClaimsOK, Claims
    <2>2. CASE holders[m] = {}
      BY <2>2, FS_EmptySet
    <2>3. CASE holders[m] # {}
      <3>1. PICK p \in holders[m] : holders[m] = {p}
        BY <2>1, <2>3
      <3> QED
        BY <3>1, FS_Singleton
    <2> QED
      BY <2>2, <2>3
  <1> QED
    BY <1>1, KMutexInvariant, PTL

(***************************************************************************)
(* The owner field says whether the mutex is locked, whenever no call is   *)
(* inside the critical section that changes it; disciplined use.           *)
(***************************************************************************)
THEOREM OwnersRecorded == Spec => []OwnerOnlyIfLocked
  <1>1. KMutexInv => OwnerOnlyIfLocked
    <2> SUFFICES ASSUME KMutexInv, use.disciplined, NEW m \in Mutex, mlock[m] = NoProc,
                        \A p \in Proc : id[p] = m => pc[p] \notin Creating
                 PROVE  locked[m] = 0 <=> owner[m] = NoProc
      BY DEF OwnerOnlyIfLocked, Creating
    <2>1. \A p \in Proc : id[p] = m => pc[p] # "unlock.owner"
      BY DEF KMutexInv, LocksInv, MutexLocksOK, HoldsMutex, Unlocking, NoProc, Proc
    <2> QED
      BY <2>1 DEF KMutexInv, DisciplineInv, OwnersAgree
  <1> QED
    BY <1>1, KMutexInvariant, PTL

(***************************************************************************)
(* What partA.design.txt promises of mtx_unlock, that only the owner       *)
(* unlocks, although sys_mtx_unlock does not look at the owner: true of    *)
(* processes that unlock only what they hold.                              *)
(***************************************************************************)
THEOREM OwnerUnlocks == Spec => OnlyOwnerUnlocksIfDisciplined
  <1>1. ASSUME KMutexInv, [Next /\ UNCHANGED use]_<<vars, use>>
        PROVE  [use.disciplined => UnlockedByOwner]_vars
    <2> SUFFICES ASSUME use.disciplined, NEW m \in Mutex,
                        locked[m] = 1, locked'[m] = 0, mlock[m] # NoProc
                 PROVE  owner[m] = mlock[m]
      BY DEF UnlockedByOwner
    <2>1. locked' # locked
      OBVIOUS
    <2>2. PICK p \in Proc : KernelStep(p) \/ UserStep(p) \/ kkill(p)
      BY <1>1, <2>1 DEF Next, vars, mutexVars
    <2>3. CreateLocked(p) \/ LockWhile(p) \/ UnlockCheck(p)
      BY <2>1, <2>2
      DEF KernelStep, UserStep, mutexVars, CreateScan, CreateOwner, LockCheck, LockAcquire,
          Sleep, SleepRelease, SleepSched, Schedule, SleepResume, UnlockOwner, Wakeup,
          UnlockReturn, kexit, kkill, sys_mtx_create, sys_mtx_lock, sys_mtx_unlock
    <2>4. locked \in [Mutex -> {0, 1}] /\ id[p] \in Mutex
      BY <1>1 DEF KMutexInv, LocksInv, TypeOK
    <2>5. CASE CreateLocked(p)
      <3>1. locked[id[p]] = 0
        BY <1>1, <2>5 DEF CreateLocked, At, KMutexInv, DisciplineInv, CallersKnow
      <3> QED
        BY <2>4, <2>5, <3>1 DEF CreateLocked
    <2>6. CASE LockWhile(p)
      BY <2>4, <2>6 DEF LockWhile
    <2>7. CASE UnlockCheck(p)
      <3>1. id[p] = m /\ pc[p] = "unlock.check"
        BY <2>4, <2>7 DEF UnlockCheck, At
      <3>2. mlock[m] = p
        BY <1>1, <3>1 DEF KMutexInv, LocksInv, MutexLocksOK, HoldsMutex, Unlocking
      <3> QED
        BY <1>1, <3>1, <3>2 DEF KMutexInv, DisciplineInv, HoldersOwn
    <2> QED
      BY <2>3, <2>5, <2>6, <2>7
  <1> QED
    BY <1>1, KMutexInvariant, PTL DEF Spec, OnlyOwnerUnlocksIfDisciplined

=============================================================================
