--------------------------- MODULE UThreadProofs ----------------------------
(***************************************************************************)
(* Proofs about UThread, for a table of any length and any sequence of     *)
(* thread_create, thread_yield and thread_exit.                            *)
(***************************************************************************)
EXTENDS UThread, WellFoundedInduction, TLAPS

-----------------------------------------------------------------------------
LEMMA LeastNatural ==
    ASSUME NEW S, S \subseteq Nat, S # {}
    PROVE  \E x \in S : \A y \in S : x <= y
  <1> DEFINE Less == {s \in Nat \X Nat : s[1] < s[2]}
  <1>1. IsWellFoundedOn(Less, Nat)
    BY NatLessThanWellFounded DEF OpToRel
  <1> HIDE DEF Less
  <1>2. PICK x \in S : \A y \in S : ~(<<y, x>> \in Less)
    BY <1>1, WFMin
  <1>3. \A y \in S : ~(y < x)
    BY <1>2 DEF Less
  <1> QED
    BY <1>3

(* The search ends at a RUNNABLE thread, or finds that there is none.      *)
LEMMA NextThreadRunnable ==
    ASSUME current_thread \in Slot,
           NEW s \in [Slot -> {"FREE", "RUNNING", "RUNNABLE"}]
    PROVE  \/ NextThread(s) = NoThread /\ \A t \in Slot : s[t] # "RUNNABLE"
           \/ NextThread(s) \in Slot /\ s[NextThread(s)] = "RUNNABLE"
  <1> USE UThreadAssumption
  <1> DEFINE After(d) == (current_thread + d) % MAX_THREAD
             turns    == {d \in 1 .. MAX_THREAD : s[After(d)] = "RUNNABLE"}
             first    == CHOOSE d \in turns : \A e \in turns : d <= e
  <1>1. \A d \in 1 .. MAX_THREAD : After(d) \in Slot
    BY DEF Slot
  <1>2. ASSUME turns = {}, NEW t \in Slot
        PROVE  s[t] # "RUNNABLE"
    <2>1. PICK d \in 1 .. MAX_THREAD : After(d) = t
      <3>1. CASE t > current_thread
        <4> DEFINE d == t - current_thread
        <4>1. d \in 1 .. MAX_THREAD /\ current_thread + d = t
          BY <3>1 DEF Slot
        <4>2. t % MAX_THREAD = t
          BY DEF Slot
        <4> HIDE DEF d
        <4> QED
          BY <4>1, <4>2
      <3>2. CASE t <= current_thread
        <4> DEFINE d == t - current_thread + MAX_THREAD
        <4>1. d \in 1 .. MAX_THREAD /\ current_thread + d = t + MAX_THREAD
          BY <3>2 DEF Slot
        <4>2. (t + MAX_THREAD) % MAX_THREAD = t
          BY DEF Slot
        <4> HIDE DEF d
        <4> QED
          BY <4>1, <4>2
      <3> QED
        BY <3>1, <3>2 DEF Slot
    <2> QED
      BY <1>2, <2>1
  <1>3. ASSUME turns # {}
        PROVE  first \in turns
    <2>1. turns \subseteq Nat
      OBVIOUS
    <2> HIDE DEF turns
    <2>2. \E d \in turns : \A e \in turns : d <= e
      BY <1>3, <2>1, LeastNatural
    <2> QED
      BY <2>2
  <1>4. NextThread(s) = IF turns = {} THEN NoThread ELSE After(first)
    BY DEF NextThread
  <1> HIDE DEF first, After
  <1> QED
    BY <1>1, <1>2, <1>3, <1>4

-----------------------------------------------------------------------------
LEMMA InitialThreads == Init => ThreadInv
  <1> USE UThreadAssumption
  <1> QED
    BY DEF Init, ThreadInv, TypeOK, RunningSlotTaken, ContextsInPlace,
           Slot, Flow, main, NoFlow

(***************************************************************************)
(* thread_schedule keeps the contexts, when its caller leaves it a table s *)
(* that differs only in the caller's own slot.                             *)
(***************************************************************************)
LEMMA ScheduleKeepsContexts ==
    ASSUME ThreadInv, status = "up",
           NEW r \in {"FREE", "RUNNING", "RUNNABLE"},
           thread_schedule([state EXCEPT ![current_thread] = r]),
           UNCHANGED <<created, occupant>>
    PROVE  ThreadInv'
  <1> USE UThreadAssumption
  <1> DEFINE s    == [state EXCEPT ![current_thread] = r]
             next == NextThread(s)
  <1>1. /\ current_thread \in Slot
        /\ s \in [Slot -> {"FREE", "RUNNING", "RUNNABLE"}]
        /\ s[current_thread] = r
        /\ \A t \in Slot \ {current_thread} : s[t] = state[t]
    BY DEF ThreadInv, TypeOK
  <1>0. \/ /\ next = NoThread
           /\ status' = "exit"
           /\ state' = s
           /\ UNCHANGED <<registers, current_thread, running>>
        \/ /\ next # NoThread /\ next # current_thread
           /\ state' = [s EXCEPT ![next] = "RUNNING"]
           /\ current_thread' = next
           /\ thread_switch(current_thread, next)
           /\ UNCHANGED status
        \/ /\ next = current_thread
           /\ state' = s
           /\ UNCHANGED <<registers, current_thread, running, status>>
    BY DEF thread_schedule
  <1> HIDE DEF s
  <1>2. \/ next = NoThread
        \/ next \in Slot /\ s[next] = "RUNNABLE"
    BY <1>1, NextThreadRunnable
  <1> HIDE DEF next
  <1>3. CASE next = NoThread
    <2>1. /\ status' = "exit" /\ state' = s
          /\ UNCHANGED <<registers, current_thread, running>>
      BY <1>0, <1>1, <1>3 DEF NoThread, Slot
    <2> QED
      BY <1>1, <2>1 DEF ThreadInv, TypeOK, RunningSlotTaken, ContextsInPlace
  <1>4. CASE next \in Slot /\ s[next] = "RUNNABLE" /\ next # current_thread
    <2>1. /\ state' = [s EXCEPT ![next] = "RUNNING"]
          /\ current_thread' = next
          /\ registers' = [registers EXCEPT ![current_thread] = running]
          /\ running' = registers[next]
          /\ status' = status
      BY <1>0, <1>4 DEF thread_switch, NoThread, Slot
    <2>2. running' = occupant[next]
      BY <1>1, <1>4, <2>1 DEF ThreadInv, ContextsInPlace
    <2> QED
      BY <1>1, <1>4, <2>1, <2>2 DEF ThreadInv, TypeOK, RunningSlotTaken, ContextsInPlace
  <1>5. CASE next = current_thread /\ s[next] = "RUNNABLE"
    <2>1. state' = s /\ UNCHANGED <<registers, current_thread, running, status>>
      BY <1>0, <1>1, <1>5 DEF NoThread, Slot
    <2> QED
      BY <1>1, <1>5, <2>1 DEF ThreadInv, TypeOK, RunningSlotTaken, ContextsInPlace
  <1> QED
    BY <1>2, <1>3, <1>4, <1>5

LEMMA CreateKeepsContexts == ThreadInv /\ thread_create => ThreadInv'
  <1> USE UThreadAssumption
  <1> SUFFICES ASSUME ThreadInv, thread_create PROVE ThreadInv'
    OBVIOUS
  <1>1. CASE \E t \in Slot :
               /\ state[t] = "FREE"
               /\ state' = [state EXCEPT ![t] = "RUNNABLE"]
               /\ registers' = [registers EXCEPT ![t] = created + 1]
               /\ occupant' = [occupant EXCEPT ![t] = created + 1]
               /\ created' = created + 1
               /\ UNCHANGED status
    <2>1. created + 1 \in Flow
      BY DEF thread_create, ThreadInv, TypeOK, Flow
    <2> QED
      BY <1>1, <2>1
      DEF thread_create, ThreadInv, TypeOK, RunningSlotTaken, ContextsInPlace
  <1>2. CASE status' = "overrun" /\ UNCHANGED <<state, registers, occupant, created>>
    BY <1>2 DEF thread_create, ThreadInv, TypeOK, RunningSlotTaken, ContextsInPlace
  <1> QED
    BY <1>1, <1>2 DEF thread_create

LEMMA StepKeepsContexts == ThreadInv /\ [Next]_vars => ThreadInv'
  <1> SUFFICES ASSUME ThreadInv, [Next]_vars PROVE ThreadInv'
    OBVIOUS
  <1>1. CASE thread_create
    BY <1>1, CreateKeepsContexts
  <1>2. CASE MainSchedules
    <2>1. /\ state[current_thread] \in {"FREE", "RUNNING", "RUNNABLE"}
          /\ state = [state EXCEPT ![current_thread] = state[current_thread]]
      BY DEF ThreadInv, TypeOK
    <2> QED
      BY <1>2, <2>1, ScheduleKeepsContexts DEF MainSchedules
  <1>3. CASE thread_yield
    BY <1>3, ScheduleKeepsContexts DEF thread_yield
  <1>4. CASE thread_exit
    BY <1>4, ScheduleKeepsContexts DEF thread_exit
  <1>5. CASE UNCHANGED vars
    BY <1>5 DEF vars, ThreadInv, TypeOK, RunningSlotTaken, ContextsInPlace
  <1> QED
    BY <1>1, <1>2, <1>3, <1>4, <1>5 DEF Next

(***************************************************************************)
(* Contexts are never mixed up or lost, whatever the length of the thread  *)
(* table and however often its slots are reused: thread_switch of          *)
(* uthread_switch.S always saves into the slot of the thread that runs and *)
(* loads what that slot's thread saved.                                    *)
(***************************************************************************)
THEOREM ContextsNeverMixed == Spec => []ContextsInPlace
  <1>1. ThreadInv => ContextsInPlace
    BY DEF ThreadInv
  <1> QED
    BY InitialThreads, StepKeepsContexts, <1>1, PTL DEF Spec

=============================================================================
