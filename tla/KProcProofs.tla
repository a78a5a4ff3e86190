---------------------------- MODULE KProcProofs -----------------------------
(***************************************************************************)
(* Proofs about KProc, for any number of processes and CPUs and any set of *)
(* system calls that the programs make: who holds which lock and runs      *)
(* where first, then that nobody sleeps through the event it waits for.    *)
(***************************************************************************)
EXTENDS KProc, WellFoundedInduction, TLAPS

-----------------------------------------------------------------------------
LEMMA LeastSlot ==
    ASSUME NEW S, S \subseteq Slot, S # {}
    PROVE  Least(S) \in S /\ \A q \in S : Least(S) <= q
  <1> DEFINE Less == {s \in Nat \X Nat : s[1] < s[2]}
  <1>1. IsWellFoundedOn(Less, Nat)
    BY NatLessThanWellFounded DEF OpToRel
  <1>2. S \subseteq Nat
    BY ProcSizes DEF Slot
  <1> HIDE DEF Less
  <1>3. PICK q \in S : \A r \in S : ~(<<r, q>> \in Less)
    BY <1>1, <1>2, WFMin
  <1>4. \A r \in S : ~(r < q)
    BY <1>2, <1>3 DEF Less
  <1>5. \A r \in S : q <= r
    BY <1>2, <1>4
  <1> QED
    BY <1>5 DEF Least

LEMMA Constants ==
    /\ initproc \in Slot /\ Boot \in CPU
    /\ Off \notin Slot /\ Off \notin CPU /\ Off \notin Lock
    /\ CondLock \subseteq Lock /\ Slot \subseteq Lock
    /\ \A q \in Slot : q \in Int /\ 1 <= q /\ q <= NPROC
    /\ wait_lock \notin Slot /\ tickslock \notin Slot /\ slk \notin Slot
    /\ wait_lock # tickslock /\ wait_lock # slk /\ tickslock # slk
    /\ wait_lock # Off /\ tickslock # Off /\ slk # Off
    /\ Lock = Slot \cup CondLock
  BY ProcSizes DEF initproc, Boot, Off, Slot, CPU, Lock, CondLock, wait_lock, tickslock, slk

LEMMA Values ==
    /\ 1 \in 1 .. NPROC + 1
    /\ wait_lock \in CondLock /\ tickslock \in CondLock /\ slk \in CondLock
    /\ "UNUSED" \in State /\ "USED" \in State /\ "RUNNABLE" \in State
    /\ "RUNNING" \in State /\ "SLEEPING" \in State /\ "ZOMBIE" \in State
    /\ "user" \in Place /\ "exit" \in Place /\ "yield" \in Place /\ "sched" \in Place
    /\ "sleep" \in Place /\ "wakeup" \in Place /\ "reparent" \in Place
    /\ "zombie" \in Place /\ "scan" \in Place /\ "ticks" \in Place
    /\ "locked" \in Place /\ "unlock" \in Place /\ "releasesleep" \in Place
    /\ "parent" \in Place /\ "runnable" \in Place /\ "kill" \in Place
    /\ "" \in After
    /\ "reparent" \in After /\ "zombie" \in After /\ "unlock" \in After
    /\ "scan" \in After /\ "ticks" \in After /\ "locked" \in After
    /\ "user" \in NoLocks /\ "relock" \in NoLocks /\ NoLocks \subseteq Place
  BY ProcSizes DEF CondLock, State, Place, After, NoLocks

(* The lock that the next step acquires, label by label.                   *)
LEMMA AcquiresAt ==
    ASSUME NEW p \in Slot
    PROVE  LET r == proc[p] IN
           /\ r.pc \in {"user", "yield", "zombie", "sleep"} => Acquires(p) = p
           /\ r.pc \in {"parent", "exit", "wait"} => Acquires(p) = wait_lock
           /\ r.pc = "pause" => Acquires(p) = tickslock
           /\ r.pc \in {"acquiresleep", "releasesleep"} => Acquires(p) = slk
           /\ r.pc \in {"runnable", "kill"} => Acquires(p) = r.arg
           /\ r.pc = "relock" => Acquires(p) = r.lk
           /\ r.pc = "wakeup" /\ Visit(p, r.i) # {} => Acquires(p) = Least(Visit(p, r.i))
           /\ r.pc = "scan" /\ NextChild(p) # {} => Acquires(p) = Least(NextChild(p))
           /\ r.pc = "scan" /\ NextChild(p) = {} => Acquires(p) \in {p, Off}
           /\ r.pc = "wakeup" /\ Visit(p, r.i) = {} => Acquires(p) = Off
           /\ r.pc = "ticks" => Acquires(p) \in {p, Off}
           /\ r.pc \in {"sched", "reparent", "locked", "unlock", "fork"} => Acquires(p) = Off
  BY DEF Acquires, ChildLock

-----------------------------------------------------------------------------
(***************************************************************************)
(* A step of p on c that leaves the other processes where they are, except *)
(* some that are on no CPU, keeps the locks and the CPUs consistent.       *)
(***************************************************************************)
LEMMA StepKeepsSched ==
    ASSUME SchedInv, NEW p \in Slot, NEW c \in CPU, cpu[c] = p,
           ~(c = Boot /\ clock # Off), UNCHANGED <<cpu, clock>>,
           TypeOK', \A q \in Slot : LocalsOK(q, proc'[q]), ForksOK',
           \A q \in Slot \ {p} :
              \/ /\ proc'[q].pc = proc[q].pc /\ proc'[q].state = proc[q].state
                 /\ proc'[q].next = proc[q].next /\ proc'[q].lk = proc[q].lk
              \/ lock[q] = Off /\ proc[q].state # "RUNNING" /\ proc'[q].state # "RUNNING",
           \/ proc'[p].state = "RUNNING"
           \/ proc'[p].pc = "sched" /\ proc'[p].state \in {"RUNNABLE", "SLEEPING", "ZOMBIE"},
           \A l \in Lock : lock'[l] = c <=> HoldsAt(p, proc'[p], l),
           \A l \in Lock, d \in CPU \ {c} : lock'[l] = d <=> lock[l] = d
    PROVE  SchedInv'
  <1>1. \A d \in CPU \ {c} : cpu[d] # Off =>
           LET q == cpu[d]
           IN  /\ q \in Slot \ {p}
               /\ proc'[q].pc = proc[q].pc /\ proc'[q].state = proc[q].state
               /\ proc'[q].next = proc[q].next /\ proc'[q].lk = proc[q].lk
    <2> SUFFICES ASSUME NEW d \in CPU \ {c}, cpu[d] # Off
                 PROVE  /\ cpu[d] \in Slot \ {p}
                        /\ ~(lock[cpu[d]] = Off /\ proc[cpu[d]].state # "RUNNING")
      OBVIOUS
    <2>1. cpu[d] \in Slot \ {p}
      BY DEF SchedInv, TypeOK, CpusOK
    <2>2. proc[cpu[d]].state # "RUNNING" => lock[cpu[d]] = d
      BY <2>1, Constants DEF SchedInv, CpusOK, LocksExact, HoldsAt
    <2> QED
      BY <2>1, <2>2, Constants
  <1>2. LocksExact'
    <2> SUFFICES ASSUME NEW d \in CPU, NEW l \in Lock
                 PROVE  lock'[l] = d <=> \/ cpu[d] # Off /\ HoldsAt(cpu[d], proc'[cpu[d]], l)
                                         \/ d = Boot /\ clock # Off /\ l = tickslock
      BY DEF LocksExact
    <2>1. CASE d = c
      BY <2>1, Constants
    <2>2. CASE d # c
      <3>1. lock'[l] = d <=> \/ cpu[d] # Off /\ HoldsAt(cpu[d], proc[cpu[d]], l)
                             \/ d = Boot /\ clock # Off /\ l = tickslock
        BY <2>2 DEF SchedInv, LocksExact
      <3>2. cpu[d] # Off => (HoldsAt(cpu[d], proc'[cpu[d]], l) <=> HoldsAt(cpu[d], proc[cpu[d]], l))
        BY <1>1, <2>2 DEF HoldsAt
      <3> QED
        BY <3>1, <3>2
    <2> QED
      BY <2>1, <2>2
  <1>3. ClockOK'
    BY <1>1, Constants DEF SchedInv, ClockOK
  <1>4. CpusOK'
    BY <1>1, Constants DEF SchedInv, CpusOK, TypeOK
  <1> QED
    BY <1>2, <1>3, <1>4 DEF SchedInv

(* What is known of a process that takes a step.                           *)
LEMMA Running ==
    ASSUME SchedInv, NEW p \in Slot, NEW c \in CPU, cpu[c] = p
    PROVE  /\ proc[p] \in ProcRecord /\ LocalsOK(p, proc[p])
           /\ proc[p].pc # "sched" => proc[p].state = "RUNNING"
           /\ proc[p].state \in {"RUNNING", "RUNNABLE", "SLEEPING", "ZOMBIE"}
           /\ ~(c = Boot /\ clock # Off) =>
                 \A l \in Lock : lock[l] = c <=> HoldsAt(p, proc[p], l)
  <1>1. proc[p] \in ProcRecord /\ LocalsOK(p, proc[p])
    BY DEF SchedInv, TypeOK
  <1>2. /\ proc[p].pc # "sched" => proc[p].state = "RUNNING"
        /\ proc[p].state \in {"RUNNING", "RUNNABLE", "SLEEPING", "ZOMBIE"}
    BY Constants DEF SchedInv, CpusOK
  <1>3. ASSUME ~(c = Boot /\ clock # Off), NEW l \in Lock
        PROVE  lock[l] = c <=> HoldsAt(p, proc[p], l)
    BY <1>3, Constants DEF SchedInv, LocksExact
  <1> QED
    BY <1>1, <1>2, <1>3

(* The slots that kfork is filling stay filled, and its callers keep them. *)
LEMMA ForksKept ==
    ASSUME SchedInv,
           \A q \in Slot : Label(proc'[q]) \in {"parent", "runnable"} =>
              Label(proc[q]) \in {"parent", "runnable"} /\ proc'[q].arg = proc[q].arg,
           \A q \in Slot : proc[q].state = "USED" => proc'[q].state = "USED"
    PROVE  ForksOK'
  <1>1. \A q \in Slot : Label(proc[q]) \in {"parent", "runnable"} => proc[q].arg \in Slot
    BY DEF SchedInv, LocalsOK
  <1> QED
    BY <1>1 DEF SchedInv, ForksOK

(* What p, which runs on c, may make of its record.                        *)
MayBecome(p, c, s) ==
    /\ cpu[c] = p /\ ~(c = Boot /\ clock # Off) /\ UNCHANGED <<cpu, clock, calls>>
    /\ s \in ProcRecord /\ LocalsOK(p, s)
    /\ locked' \in Slot \cup {Off} /\ ticked' \subseteq Slot
    /\ \/ s.state = "RUNNING"
       \/ s.pc = "sched" /\ s.state \in {"RUNNABLE", "SLEEPING", "ZOMBIE"}

(* A step that changes nothing but p's own record, to s.                   *)
OwnStep(p, c, s) ==
    /\ MayBecome(p, c, s)
    /\ proc' = [proc EXCEPT ![p] = s]
    /\ Label(s) \in {"parent", "runnable"} => Label(s) = Label(proc[p]) /\ s.arg = proc[p].arg

LEMMA OwnStepKeepsSched ==
    ASSUME SchedInv, NEW p \in Slot, NEW c \in CPU, NEW s, OwnStep(p, c, s),
           lock' \in [Lock -> CPU \cup {Off}],
           \A l \in Lock : lock'[l] = c <=> HoldsAt(p, s, l),
           \A l \in Lock, d \in CPU \ {c} : lock'[l] = d <=> lock[l] = d
    PROVE  SchedInv'
  <1>1. TypeOK'
    BY DEF SchedInv, TypeOK, OwnStep, MayBecome
  <1>2. /\ proc'[p] = s
        /\ \A q \in Slot \ {p} : proc'[q] = proc[q]
        /\ \A q \in Slot : LocalsOK(q, proc'[q])
    BY DEF SchedInv, TypeOK, OwnStep, MayBecome
  <1>3. ForksOK'
    <2>1. \A q \in Slot : Label(proc'[q]) \in {"parent", "runnable"} =>
             Label(proc[q]) \in {"parent", "runnable"} /\ proc'[q].arg = proc[q].arg
      BY <1>2 DEF OwnStep
    <2>2. proc[p].state # "USED"
      BY Running DEF OwnStep, MayBecome
    <2>3. \A q \in Slot : proc[q].state = "USED" => proc'[q].state = "USED"
      BY <1>2, <2>2
    <2> QED
      BY <2>1, <2>3, ForksKept
  <1> QED
    BY <1>1, <1>2, <1>3, StepKeepsSched DEF OwnStep, MayBecome

(***************************************************************************)
(* A step that changes p's record to s, and that of another process v to   *)
(* w, which stays where it is or is on no CPU.                             *)
(***************************************************************************)
TwoSlotStep(p, c, s, v, w) ==
    /\ MayBecome(p, c, s)
    /\ proc' = [proc EXCEPT ![p] = s, ![v] = w]
    /\ w \in ProcRecord /\ LocalsOK(v, w)
    /\ \/ /\ w.pc = proc[v].pc /\ w.state = proc[v].state
          /\ w.next = proc[v].next /\ w.lk = proc[v].lk
       \/ lock[v] = Off /\ proc[v].state # "RUNNING" /\ w.state # "RUNNING"

LEMMA TwoSlotStepKeepsSched ==
    ASSUME SchedInv, NEW p \in Slot, NEW c \in CPU, NEW s, NEW v \in Slot \ {p}, NEW w,
           TwoSlotStep(p, c, s, v, w), ForksOK',
           lock' \in [Lock -> CPU \cup {Off}],
           \A l \in Lock : lock'[l] = c <=> HoldsAt(p, s, l),
           \A l \in Lock, d \in CPU \ {c} : lock'[l] = d <=> lock[l] = d
    PROVE  SchedInv'
  <1>1. TypeOK'
    BY DEF SchedInv, TypeOK, TwoSlotStep, MayBecome
  <1>2. /\ proc'[p] = s /\ proc'[v] = w
        /\ \A q \in Slot \ {p, v} : proc'[q] = proc[q]
        /\ \A q \in Slot : LocalsOK(q, proc'[q])
    BY DEF SchedInv, TypeOK, TwoSlotStep, MayBecome
  <1>3. \A q \in Slot \ {p} :
           \/ /\ proc'[q].pc = proc[q].pc /\ proc'[q].state = proc[q].state
              /\ proc'[q].next = proc[q].next /\ proc'[q].lk = proc[q].lk
           \/ lock[q] = Off /\ proc[q].state # "RUNNING" /\ proc'[q].state # "RUNNING"
    BY <1>2 DEF TwoSlotStep
  <1>4. /\ cpu[c] = p /\ ~(c = Boot /\ clock # Off) /\ UNCHANGED <<cpu, clock>>
        /\ \/ proc'[p].state = "RUNNING"
           \/ proc'[p].pc = "sched" /\ proc'[p].state \in {"RUNNABLE", "SLEEPING", "ZOMBIE"}
    BY <1>2 DEF TwoSlotStep, MayBecome
  <1> QED
    BY <1>1, <1>2, <1>3, <1>4, StepKeepsSched

LEMMA TwoSlotStepNoLock ==
    ASSUME SchedInv, NEW p \in Slot, NEW c \in CPU, NEW s, NEW v \in Slot \ {p}, NEW w,
           TwoSlotStep(p, c, s, v, w), ForksOK', lock' = lock,
           \A l \in Lock : HoldsAt(p, s, l) <=> HoldsAt(p, proc[p], l)
    PROVE  SchedInv'
  <1>1. \A l \in Lock : lock[l] = c <=> HoldsAt(p, s, l)
    BY Running DEF TwoSlotStep, MayBecome
  <1>2. lock \in [Lock -> CPU \cup {Off}]
    BY DEF SchedInv, TypeOK
  <1> QED
    BY <1>1, <1>2, TwoSlotStepKeepsSched

(* The forks, when v's slot is not one that is being filled.               *)
LEMMA TwoSlotForks ==
    ASSUME SchedInv, NEW p \in Slot, NEW c \in CPU, NEW s, NEW v \in Slot \ {p}, NEW w,
           TwoSlotStep(p, c, s, v, w),
           Label(s) \in {"parent", "runnable"} =>
              Label(proc[p]) \in {"parent", "runnable"} /\ s.arg = proc[p].arg,
           Label(w) \in {"parent", "runnable"} =>
              Label(proc[v]) \in {"parent", "runnable"} /\ w.arg = proc[v].arg,
           proc[v].state = "USED" => w.state = "USED"
    PROVE  ForksOK'
  <1>1. /\ proc'[p] = s /\ proc'[v] = w
        /\ \A q \in Slot \ {p, v} : proc'[q] = proc[q]
    BY DEF SchedInv, TypeOK, TwoSlotStep
  <1>2. proc[p].state # "USED"
    BY Running DEF TwoSlotStep, MayBecome
  <1>3. \A q \in Slot : Label(proc'[q]) \in {"parent", "runnable"} =>
           Label(proc[q]) \in {"parent", "runnable"} /\ proc'[q].arg = proc[q].arg
    BY <1>1
  <1>4. \A q \in Slot : proc[q].state = "USED" => proc'[q].state = "USED"
    BY <1>1, <1>2
  <1> QED
    BY <1>3, <1>4, ForksKept

LEMMA OwnStepNoLock ==
    ASSUME SchedInv, NEW p \in Slot, NEW c \in CPU, NEW s, OwnStep(p, c, s),
           lock' = lock,
           \A l \in Lock : HoldsAt(p, s, l) <=> HoldsAt(p, proc[p], l)
    PROVE  SchedInv'
  <1>1. \A l \in Lock : lock[l] = c <=> HoldsAt(p, s, l)
    BY Running DEF OwnStep, MayBecome
  <1>2. lock \in [Lock -> CPU \cup {Off}]
    BY DEF SchedInv, TypeOK
  <1> QED
    BY <1>1, <1>2, OwnStepKeepsSched

LEMMA OwnStepTakes ==
    ASSUME SchedInv, NEW p \in Slot, NEW c \in CPU, NEW s, OwnStep(p, c, s),
           NEW k \in Lock, lock[k] = Off, Takes(k, c),
           \A l \in Lock : HoldsAt(p, s, l) <=> l = k \/ HoldsAt(p, proc[p], l)
    PROVE  SchedInv'
  <1>1. lock \in [Lock -> CPU \cup {Off}]
    BY DEF SchedInv, TypeOK
  <1>2. \A l \in Lock : lock[l] = c <=> HoldsAt(p, proc[p], l)
    BY Running DEF OwnStep, MayBecome
  <1>3. /\ lock' \in [Lock -> CPU \cup {Off}]
        /\ \A l \in Lock : lock'[l] = c <=> HoldsAt(p, s, l)
        /\ \A l \in Lock, d \in CPU \ {c} : lock'[l] = d <=> lock[l] = d
    BY <1>1, <1>2, Constants DEF Takes
  <1> QED
    BY <1>3, OwnStepKeepsSched

LEMMA OwnStepDrops ==
    ASSUME SchedInv, NEW p \in Slot, NEW c \in CPU, NEW s, OwnStep(p, c, s),
           NEW k \in Lock, HoldsAt(p, proc[p], k), Drops(k),
           \A l \in Lock : HoldsAt(p, s, l) <=> l # k /\ HoldsAt(p, proc[p], l)
    PROVE  SchedInv'
  <1>1. lock \in [Lock -> CPU \cup {Off}]
    BY DEF SchedInv, TypeOK
  <1>2. \A l \in Lock : lock[l] = c <=> HoldsAt(p, proc[p], l)
    BY Running DEF OwnStep, MayBecome
  <1>3. /\ lock' \in [Lock -> CPU \cup {Off}]
        /\ \A l \in Lock : lock'[l] = c <=> HoldsAt(p, s, l)
        /\ \A l \in Lock, d \in CPU \ {c} : lock'[l] = d <=> lock[l] = d
    BY <1>1, <1>2, Constants DEF Drops
  <1> QED
    BY <1>3, OwnStepKeepsSched

(* p->lock for the lock k of a condition: sleep and the end of kexit.      *)
LEMMA OwnStepSwaps ==
    ASSUME SchedInv, NEW p \in Slot, NEW c \in CPU, NEW s, OwnStep(p, c, s),
           NEW k \in CondLock, HoldsAt(p, proc[p], k), lock[p] = Off, s.pc = "sched",
           lock' = [lock EXCEPT ![p] = c, ![k] = Off],
           \A l \in Lock : HoldsAt(p, proc[p], l) => l = k
    PROVE  SchedInv'
  <1>1. lock \in [Lock -> CPU \cup {Off}]
    BY DEF SchedInv, TypeOK
  <1>2. \A l \in Lock : lock[l] = c <=> HoldsAt(p, proc[p], l)
    BY Running DEF OwnStep, MayBecome
  <1>3. \A l \in Lock : HoldsAt(p, s, l) <=> l = p
    BY DEF HoldsAt
  <1>4. /\ lock' \in [Lock -> CPU \cup {Off}]
        /\ \A l \in Lock : lock'[l] = c <=> HoldsAt(p, s, l)
        /\ \A l \in Lock, d \in CPU \ {c} : lock'[l] = d <=> lock[l] = d
    <2>1. k \in Lock /\ k # p /\ p \in Lock
      BY Constants DEF CondLock
    <2> QED
      BY <1>1, <1>2, <1>3, <2>1, Constants
  <1> QED
    BY <1>4, OwnStepKeepsSched

-----------------------------------------------------------------------------
(* The steps that change the caller's record alone.                        *)

LEMMA ResumeSched ==
    ASSUME SchedInv, NEW p \in Slot, NEW c \in CPU, Resume(p, c), calls' = calls
    PROVE  SchedInv'
  <1> DEFINE r == proc[p]
             s == [r EXCEPT !.pc = r.back, !.back = "", !.chan = Off]
  <1>1. cpu[c] = p /\ ~(c = Boot /\ clock # Off) /\ r.pc = "sched"
    BY DEF Resume, At
  <1>2. r \in ProcRecord /\ LocalsOK(p, r)
    BY <1>1, Running
  <1>3. r.state = "RUNNING" /\ r.back \in NoLocks
    BY <1>1, <1>2 DEF Resume, LocalsOK, ProcRecord
  <1>4. /\ s.pc = r.back /\ s.back = "" /\ s.chan = Off
        /\ s.state = r.state /\ s.killed = r.killed /\ s.parent = r.parent
        /\ s.i = r.i /\ s.kids = r.kids /\ s.arg = r.arg /\ s.next = r.next
        /\ s.lk = r.lk
    BY <1>2 DEF ProcRecord
  <1>5. s \in ProcRecord
    BY <1>2, <1>3, Values DEF ProcRecord
  <1>6. proc' = [proc EXCEPT ![p] = s]
    BY <1>1, <1>2 DEF Resume, SchedInv, TypeOK
  <1> HIDE DEF s
  <1>7. LocalsOK(p, s)
    BY ZenonT(60), <1>1, <1>2, <1>3, <1>4, Constants DEF LocalsOK, Label, NoLocks
  <1>8. Label(s) \in {"parent", "runnable"} => Label(s) = Label(r) /\ s.arg = r.arg
    BY <1>1, <1>2, <1>4 DEF Label, LocalsOK
  <1>9. OwnStep(p, c, s)
    BY <1>1, <1>3, <1>4, <1>5, <1>6, <1>7, <1>8 DEF Resume, OwnStep, MayBecome, SchedInv, TypeOK
  <1>10. /\ HoldsAt(p, r, p)
         /\ \A l \in Lock : HoldsAt(p, s, l) <=> l # p /\ HoldsAt(p, r, l)
    BY <1>1, <1>2, <1>3, <1>4 DEF HoldsAt, ProcRecord, NoLocks, LocalsOK, Label
  <1>11. p \in Lock /\ Drops(p)
    BY <1>1, Constants DEF Resume, CondLock
  <1> QED
    BY <1>9, <1>10, <1>11, OwnStepDrops

LEMMA YieldKilledSched ==
    ASSUME SchedInv, NEW p \in Slot, NEW c \in CPU, yield(p, c), calls' = calls,
           proc[p].back = "user" /\ proc[p].killed
    PROVE  SchedInv'
  <1> DEFINE r == proc[p]
             s == [r EXCEPT !.pc = "exit"]
  <1>1. cpu[c] = p /\ ~(c = Boot /\ clock # Off) /\ r.pc = "yield"
    BY DEF yield, At
  <1>2. r \in ProcRecord /\ LocalsOK(p, r)
    BY <1>1, Running
  <1>3. r.state = "RUNNING"
    BY <1>1, Running, Constants, AcquiresAt DEF yield, At, Free
  <1>4. /\ s.pc = "exit"
        /\ s.state = r.state /\ s.chan = r.chan /\ s.killed = r.killed
        /\ s.parent = r.parent /\ s.i = r.i /\ s.kids = r.kids /\ s.arg = r.arg
        /\ s.next = r.next /\ s.back = r.back /\ s.lk = r.lk
    BY <1>2 DEF ProcRecord
  <1>5. s \in ProcRecord
    BY <1>2, Values DEF ProcRecord
  <1>6. proc' = [proc EXCEPT ![p] = s]
    BY <1>1, <1>2 DEF yield, Goto, SchedInv, TypeOK
  <1> HIDE DEF s
  <1>7. LocalsOK(p, s)
    BY <1>1, <1>2, <1>3, <1>4, Constants DEF LocalsOK, Label
  <1>8. Label(s) \in {"parent", "runnable"} => Label(s) = Label(r) /\ s.arg = r.arg
    BY <1>1, <1>2, <1>4 DEF Label, LocalsOK
  <1>9. OwnStep(p, c, s)
    BY <1>1, <1>3, <1>4, <1>5, <1>6, <1>7, <1>8 DEF yield, OwnStep, MayBecome, SchedInv, TypeOK
  <1>10. lock' = lock /\ \A l \in Lock : HoldsAt(p, s, l) <=> HoldsAt(p, r, l)
    BY <1>1, <1>2, <1>4 DEF yield, HoldsAt, LocalsOK, Label
  <1> QED
    BY <1>9, <1>10, OwnStepNoLock

LEMMA YieldSchedSched ==
    ASSUME SchedInv, NEW p \in Slot, NEW c \in CPU, yield(p, c), calls' = calls,
           ~(proc[p].back = "user" /\ proc[p].killed)
    PROVE  SchedInv'
  <1> DEFINE r == proc[p]
             s == [r EXCEPT !.state = "RUNNABLE", !.pc = "sched"]
  <1>1. cpu[c] = p /\ ~(c = Boot /\ clock # Off) /\ r.pc = "yield"
    BY DEF yield, At
  <1>2. r \in ProcRecord /\ LocalsOK(p, r)
    BY <1>1, Running
  <1>3. r.state = "RUNNING" /\ lock[p] = Off
    BY <1>1, Running, Constants, AcquiresAt DEF yield, At, Free
  <1>4. /\ s.state = "RUNNABLE" /\ s.pc = "sched"
        /\ s.chan = r.chan /\ s.killed = r.killed /\ s.parent = r.parent
        /\ s.i = r.i /\ s.kids = r.kids /\ s.arg = r.arg /\ s.next = r.next
        /\ s.back = r.back /\ s.lk = r.lk
    BY <1>2 DEF ProcRecord
  <1>5. s \in ProcRecord
    BY <1>2, Values DEF ProcRecord
  <1>6. proc' = [proc EXCEPT ![p] = s]
    BY <1>1, <1>2 DEF yield, SchedInv, TypeOK
  <1> HIDE DEF s
  <1>7. LocalsOK(p, s)
    BY ZenonT(60), <1>1, <1>2, <1>3, <1>4, Constants DEF LocalsOK, Label
  <1>8. Label(s) \in {"parent", "runnable"} => Label(s) = Label(r) /\ s.arg = r.arg
    BY <1>1, <1>2, <1>4 DEF Label, LocalsOK
  <1>9. OwnStep(p, c, s)
    BY <1>1, <1>3, <1>4, <1>5, <1>6, <1>7, <1>8 DEF yield, OwnStep, MayBecome, SchedInv, TypeOK
  <1>10. \A l \in Lock : HoldsAt(p, s, l) <=> l = p \/ HoldsAt(p, r, l)
    BY <1>1, <1>2, <1>4 DEF HoldsAt, LocalsOK, Label
  <1>11. p \in Lock /\ Takes(p, c)
    BY <1>1, <1>2, Constants DEF yield, CondLock, LocalsOK, Label
  <1> QED
    BY <1>3, <1>9, <1>10, <1>11, OwnStepTakes

LEMMA sleepSched ==
    ASSUME SchedInv, NEW p \in Slot, NEW c \in CPU, sleep(p, c), calls' = calls
    PROVE  SchedInv'
  <1> DEFINE r == proc[p]
             s == [r EXCEPT !.state = "SLEEPING", !.pc = "sched", !.back = "relock",
                           !.chan = IF r.lk = wait_lock THEN p ELSE r.lk]
  <1>1. cpu[c] = p /\ ~(c = Boot /\ clock # Off) /\ r.pc = "sleep"
    BY DEF sleep, At
  <1>2. r \in ProcRecord /\ LocalsOK(p, r)
    BY <1>1, Running
  <1>3. r.state = "RUNNING" /\ lock[p] = Off
    BY <1>1, Running, Constants, AcquiresAt DEF sleep, At, Free
  <1>4. /\ s.state = "SLEEPING" /\ s.pc = "sched" /\ s.back = "relock"
        /\ s.chan = (IF r.lk = wait_lock THEN p ELSE r.lk)
        /\ s.killed = r.killed /\ s.parent = r.parent /\ s.i = r.i
        /\ s.kids = r.kids /\ s.arg = r.arg /\ s.next = r.next /\ s.lk = r.lk
    BY <1>2 DEF ProcRecord
  <1>5. s \in ProcRecord
    BY <1>2, Values DEF ProcRecord
  <1>6. proc' = [proc EXCEPT ![p] = s]
    BY <1>1, <1>2 DEF sleep, SchedInv, TypeOK
  <1> HIDE DEF s
  <1>7. LocalsOK(p, s)
    BY ZenonT(60), <1>1, <1>2, <1>3, <1>4, Constants DEF LocalsOK, Label
  <1>8. Label(s) \in {"parent", "runnable"} => Label(s) = Label(r) /\ s.arg = r.arg
    BY <1>1, <1>2, <1>4 DEF Label, LocalsOK
  <1>9. OwnStep(p, c, s)
    BY <1>1, <1>3, <1>4, <1>5, <1>6, <1>7, <1>8 DEF sleep, OwnStep, MayBecome, SchedInv, TypeOK
  <1>10. /\ HoldsAt(p, r, r.lk)
         /\ \A l \in Lock : HoldsAt(p, r, l) => l = r.lk
    BY <1>1 DEF HoldsAt
  <1>11. r.lk \in CondLock /\ lock' = [lock EXCEPT ![p] = c, ![r.lk] = Off]
    BY <1>1, <1>2, Constants DEF sleep, CondLock, LocalsOK, Label
  <1>12. lock[p] = Off /\ s.pc = "sched"
    BY <1>3, <1>4
  <1> HIDE DEF r
  <1> QED
    BY <1>9, <1>10, <1>11, <1>12, OwnStepSwaps DEF r

LEMMA relockSched ==
    ASSUME SchedInv, NEW p \in Slot, NEW c \in CPU, relock(p, c), calls' = calls
    PROVE  SchedInv'
  <1> DEFINE r == proc[p]
             s == [r EXCEPT !.pc = r.next, !.i = 1, !.kids = FALSE]
  <1>1. cpu[c] = p /\ ~(c = Boot /\ clock # Off) /\ r.pc = "relock"
    BY DEF relock, At
  <1>2. r \in ProcRecord /\ LocalsOK(p, r)
    BY <1>1, Running
  <1>3. r.state = "RUNNING" /\ lock[r.lk] = Off
        /\ r.next \in {"scan", "ticks", "locked"}
    BY ZenonT(60), <1>1, <1>2, Running, Constants, AcquiresAt DEF relock, At, Free, LocalsOK, Label
  <1>4. /\ s.pc = r.next /\ s.i = 1 /\ s.kids = FALSE
        /\ s.state = r.state /\ s.chan = r.chan /\ s.killed = r.killed
        /\ s.parent = r.parent /\ s.arg = r.arg /\ s.next = r.next
        /\ s.back = r.back /\ s.lk = r.lk
    BY <1>2 DEF ProcRecord
  <1>5. s \in ProcRecord
    BY ZenonT(60), <1>2, <1>3, Values DEF ProcRecord
  <1>6. proc' = [proc EXCEPT ![p] = s]
    BY <1>1, <1>2 DEF relock, SchedInv, TypeOK
  <1> HIDE DEF s
  <1>7. LocalsOK(p, s)
    BY <1>1, <1>2, <1>3, <1>4, Constants DEF LocalsOK, Label, NoLocks
  <1>8. Label(s) \in {"parent", "runnable"} => Label(s) = Label(r) /\ s.arg = r.arg
    BY <1>1, <1>2, <1>4 DEF Label, LocalsOK
  <1>9. OwnStep(p, c, s)
    BY <1>1, <1>3, <1>4, <1>5, <1>6, <1>7, <1>8 DEF relock, OwnStep, MayBecome, SchedInv, TypeOK
  <1>10. \A l \in Lock : HoldsAt(p, s, l) <=> l = r.lk \/ HoldsAt(p, r, l)
    BY <1>1, <1>2, <1>4 DEF HoldsAt, LocalsOK, Label
  <1>11. r.lk \in Lock /\ Takes(r.lk, c)
    BY <1>1, <1>2, Constants DEF relock, CondLock, LocalsOK, Label
  <1> QED
    BY <1>3, <1>9, <1>10, <1>11, OwnStepTakes

LEMMA WakeupEndSched ==
    ASSUME SchedInv, NEW p \in Slot, NEW c \in CPU, wakeup(p, c), calls' = calls,
           Visit(p, proc[p].i) = {}
    PROVE  SchedInv'
  <1> DEFINE r == proc[p]
             s == [r EXCEPT !.pc = r.next]
  <1>1. cpu[c] = p /\ ~(c = Boot /\ clock # Off) /\ r.pc = "wakeup"
    BY DEF wakeup, At
  <1>2. r \in ProcRecord /\ LocalsOK(p, r)
    BY <1>1, Running
  <1>3. r.state = "RUNNING" /\ r.next \in {"unlock", "reparent", "zombie"}
    BY <1>1, <1>2, Running, Constants, AcquiresAt DEF wakeup, At, Free, LocalsOK, Label
  <1>4. /\ s.pc = r.next
        /\ s.state = r.state /\ s.chan = r.chan /\ s.killed = r.killed
        /\ s.parent = r.parent /\ s.i = r.i /\ s.kids = r.kids /\ s.arg = r.arg
        /\ s.next = r.next /\ s.back = r.back /\ s.lk = r.lk
    BY <1>2 DEF ProcRecord
  <1>5. s \in ProcRecord
    BY <1>2, <1>3, Values DEF ProcRecord
  <1>6. proc' = [proc EXCEPT ![p] = s]
    BY <1>1, <1>2 DEF wakeup, Goto, Woken, SchedInv, TypeOK
  <1> HIDE DEF s
  <1>7. LocalsOK(p, s)
    BY <1>1, <1>2, <1>3, <1>4, Constants DEF LocalsOK, Label, NoLocks
  <1>8. Label(s) \in {"parent", "runnable"} => Label(s) = Label(r) /\ s.arg = r.arg
    BY <1>1, <1>2, <1>4 DEF Label, LocalsOK
  <1>9. OwnStep(p, c, s)
    BY <1>1, <1>3, <1>4, <1>5, <1>6, <1>7, <1>8 DEF wakeup, OwnStep, MayBecome, SchedInv, TypeOK
  <1>10. lock' = lock /\ \A l \in Lock : HoldsAt(p, s, l) <=> HoldsAt(p, r, l)
    BY <1>1, <1>2, <1>4 DEF wakeup, HoldsAt, LocalsOK, Label
  <1> QED
    BY <1>9, <1>10, OwnStepNoLock

LEMMA UsertrapKilledSched ==
    ASSUME SchedInv, NEW p \in Slot, NEW c \in CPU, usertrap(p, c), calls' = calls,
           proc' = Goto(p, "exit")
    PROVE  SchedInv'
  <1> DEFINE r == proc[p]
             s == [r EXCEPT !.pc = "exit"]
  <1>1. cpu[c] = p /\ ~(c = Boot /\ clock # Off) /\ r.pc = "user"
    BY DEF usertrap, At
  <1>2. r \in ProcRecord /\ LocalsOK(p, r)
    BY <1>1, Running
  <1>3. r.state = "RUNNING"
    BY <1>1, Running, Constants, AcquiresAt DEF usertrap, At, Free
  <1>4. /\ s.pc = "exit"
        /\ s.state = r.state /\ s.chan = r.chan /\ s.killed = r.killed
        /\ s.parent = r.parent /\ s.i = r.i /\ s.kids = r.kids /\ s.arg = r.arg
        /\ s.next = r.next /\ s.back = r.back /\ s.lk = r.lk
    BY <1>2 DEF ProcRecord
  <1>5. s \in ProcRecord
    BY <1>2, Values DEF ProcRecord
  <1>6. proc' = [proc EXCEPT ![p] = s]
    BY <1>1, <1>2 DEF usertrap, Goto, SchedInv, TypeOK
  <1> HIDE DEF s
  <1>7. LocalsOK(p, s)
    BY <1>1, <1>2, <1>3, <1>4, Constants DEF LocalsOK, Label
  <1>8. Label(s) \in {"parent", "runnable"} => Label(s) = Label(r) /\ s.arg = r.arg
    BY <1>1, <1>2, <1>4 DEF Label, LocalsOK
  <1>9. OwnStep(p, c, s)
    BY <1>1, <1>3, <1>4, <1>5, <1>6, <1>7, <1>8 DEF usertrap, OwnStep, MayBecome, SchedInv, TypeOK
  <1>10. lock' = lock /\ \A l \in Lock : HoldsAt(p, s, l) <=> HoldsAt(p, r, l)
    BY <1>1, <1>2, <1>4 DEF usertrap, HoldsAt, LocalsOK, Label
  <1> QED
    BY <1>9, <1>10, OwnStepNoLock

LEMMA kforkFailsSched ==
    ASSUME SchedInv, NEW p \in Slot, NEW c \in CPU, kfork(p, c), calls' = calls,
           proc' = Return(p)
    PROVE  SchedInv'
  <1> DEFINE r == proc[p]
             s == [r EXCEPT !.pc = "user", !.i = 1, !.kids = FALSE, !.arg = Off, !.next = "", !.lk = Off]
  <1>1. cpu[c] = p /\ ~(c = Boot /\ clock # Off) /\ r.pc = "fork"
    BY DEF kfork, At
  <1>2. r \in ProcRecord /\ LocalsOK(p, r)
    BY <1>1, Running
  <1>3. r.state = "RUNNING"
    BY <1>1, Running, Constants, AcquiresAt DEF kfork, At, Free
  <1>4. /\ s.pc = "user" /\ s.i = 1 /\ s.kids = FALSE /\ s.arg = Off
        /\ s.next = "" /\ s.lk = Off
        /\ s.state = r.state /\ s.chan = r.chan /\ s.killed = r.killed
        /\ s.parent = r.parent /\ s.back = r.back
    BY <1>2 DEF ProcRecord
  <1>5. s \in ProcRecord
    BY <1>2, Values DEF ProcRecord
  <1>6. proc' = [proc EXCEPT ![p] = s]
    BY <1>1, <1>2 DEF kfork, Return, SchedInv, TypeOK
  <1> HIDE DEF s
  <1>7. LocalsOK(p, s)
    BY <1>1, <1>2, <1>3, <1>4, Constants DEF LocalsOK, Label
  <1>8. Label(s) \in {"parent", "runnable"} => Label(s) = Label(r) /\ s.arg = r.arg
    BY <1>1, <1>2, <1>4 DEF Label, LocalsOK
  <1>9. OwnStep(p, c, s)
    BY <1>1, <1>3, <1>4, <1>5, <1>6, <1>7, <1>8 DEF kfork, OwnStep, MayBecome, SchedInv, TypeOK
  <1>10. lock' = lock /\ \A l \in Lock : HoldsAt(p, s, l) <=> HoldsAt(p, r, l)
    BY <1>1, <1>2, <1>4 DEF kfork, HoldsAt, LocalsOK, Label
  <1> QED
    BY <1>9, <1>10, OwnStepNoLock

LEMMA kexitSched ==
    ASSUME SchedInv, NEW p \in Slot, NEW c \in CPU, kexit(p, c), calls' = calls
    PROVE  SchedInv'
  <1> DEFINE r == proc[p]
             s == [r EXCEPT !.pc = "reparent"]
  <1>1. cpu[c] = p /\ ~(c = Boot /\ clock # Off) /\ r.pc = "exit"
    BY DEF kexit, At
  <1>2. r \in ProcRecord /\ LocalsOK(p, r)
    BY <1>1, Running
  <1>3. r.state = "RUNNING" /\ lock[wait_lock] = Off
    BY <1>1, Running, Constants, AcquiresAt DEF kexit, At, Free
  <1>4. /\ s.pc = "reparent"
        /\ s.state = r.state /\ s.chan = r.chan /\ s.killed = r.killed
        /\ s.parent = r.parent /\ s.i = r.i /\ s.kids = r.kids /\ s.arg = r.arg
        /\ s.next = r.next /\ s.back = r.back /\ s.lk = r.lk
    BY <1>2 DEF ProcRecord
  <1>5. s \in ProcRecord
    BY <1>2, Values DEF ProcRecord
  <1>6. proc' = [proc EXCEPT ![p] = s]
    BY <1>1, <1>2 DEF kexit, Goto, SchedInv, TypeOK
  <1> HIDE DEF s
  <1>7. LocalsOK(p, s)
    BY <1>1, <1>2, <1>3, <1>4, Constants DEF LocalsOK, Label
  <1>8. Label(s) \in {"parent", "runnable"} => Label(s) = Label(r) /\ s.arg = r.arg
    BY <1>1, <1>2, <1>4 DEF Label, LocalsOK
  <1>9. OwnStep(p, c, s)
    BY <1>1, <1>3, <1>4, <1>5, <1>6, <1>7, <1>8 DEF kexit, OwnStep, MayBecome, SchedInv, TypeOK
  <1>10. \A l \in Lock : HoldsAt(p, s, l) <=> l = wait_lock \/ HoldsAt(p, r, l)
    BY <1>1, <1>2, <1>4 DEF HoldsAt, LocalsOK, Label
  <1>11. wait_lock \in Lock /\ Takes(wait_lock, c)
    BY <1>1, <1>2, Constants DEF kexit, CondLock, LocalsOK, Label
  <1> QED
    BY <1>3, <1>9, <1>10, <1>11, OwnStepTakes

LEMMA ReparentEndSched ==
    ASSUME SchedInv, NEW p \in Slot, NEW c \in CPU, reparent(p, c), calls' = calls,
           Children(p) = {}
    PROVE  SchedInv'
  <1> DEFINE r == proc[p]
             s == [r EXCEPT !.pc = "wakeup", !.i = 1, !.arg = r.parent, !.next = "zombie"]
  <1>1. cpu[c] = p /\ ~(c = Boot /\ clock # Off) /\ r.pc = "reparent"
    BY DEF reparent, At
  <1>2. r \in ProcRecord /\ LocalsOK(p, r)
    BY <1>1, Running
  <1>3. r.state = "RUNNING"
    BY <1>1, Running, Constants, AcquiresAt DEF reparent, At, Free
  <1>4. /\ s.pc = "wakeup" /\ s.i = 1 /\ s.arg = r.parent /\ s.next = "zombie"
        /\ s.state = r.state /\ s.chan = r.chan /\ s.killed = r.killed
        /\ s.parent = r.parent /\ s.kids = r.kids /\ s.back = r.back
        /\ s.lk = r.lk
    BY <1>2 DEF ProcRecord
  <1>5. s \in ProcRecord
    BY <1>2, Values DEF ProcRecord
  <1>6. proc' = [proc EXCEPT ![p] = s]
    BY <1>1, <1>2 DEF reparent, CallWakeup, SchedInv, TypeOK
  <1> HIDE DEF s
  <1>7. LocalsOK(p, s)
    BY <1>1, <1>2, <1>3, <1>4, Constants DEF LocalsOK, Label
  <1>8. Label(s) \in {"parent", "runnable"} => Label(s) = Label(r) /\ s.arg = r.arg
    BY <1>1, <1>2, <1>4 DEF Label, LocalsOK
  <1>9. OwnStep(p, c, s)
    BY <1>1, <1>3, <1>4, <1>5, <1>6, <1>7, <1>8 DEF reparent, OwnStep, MayBecome, SchedInv, TypeOK
  <1>10. lock' = lock /\ \A l \in Lock : HoldsAt(p, s, l) <=> HoldsAt(p, r, l)
    BY <1>1, <1>2, <1>4 DEF reparent, HoldsAt, LocalsOK, Label
  <1> QED
    BY <1>9, <1>10, OwnStepNoLock

LEMMA zombieSched ==
    ASSUME SchedInv, NEW p \in Slot, NEW c \in CPU, zombie(p, c), calls' = calls
    PROVE  SchedInv'
  <1> DEFINE r == proc[p]
             s == [r EXCEPT !.state = "ZOMBIE", !.pc = "sched"]
  <1>1. cpu[c] = p /\ ~(c = Boot /\ clock # Off) /\ r.pc = "zombie"
    BY DEF zombie, At
  <1>2. r \in ProcRecord /\ LocalsOK(p, r)
    BY <1>1, Running
  <1>3. r.state = "RUNNING" /\ lock[p] = Off
    BY <1>1, Running, Constants, AcquiresAt DEF zombie, At, Free
  <1>4. /\ s.state = "ZOMBIE" /\ s.pc = "sched"
        /\ s.chan = r.chan /\ s.killed = r.killed /\ s.parent = r.parent
        /\ s.i = r.i /\ s.kids = r.kids /\ s.arg = r.arg /\ s.next = r.next
        /\ s.back = r.back /\ s.lk = r.lk
    BY <1>2 DEF ProcRecord
  <1>5. s \in ProcRecord
    BY <1>2, Values DEF ProcRecord
  <1>6. proc' = [proc EXCEPT ![p] = s]
    BY <1>1, <1>2 DEF zombie, SchedInv, TypeOK
  <1> HIDE DEF s
  <1>7. LocalsOK(p, s)
    BY <1>1, <1>2, <1>3, <1>4, Constants DEF LocalsOK, Label
  <1>8. Label(s) \in {"parent", "runnable"} => Label(s) = Label(r) /\ s.arg = r.arg
    BY <1>1, <1>2, <1>4 DEF Label, LocalsOK
  <1>9. OwnStep(p, c, s)
    BY <1>1, <1>3, <1>4, <1>5, <1>6, <1>7, <1>8 DEF zombie, OwnStep, MayBecome, SchedInv, TypeOK
  <1>10. /\ HoldsAt(p, r, wait_lock)
         /\ \A l \in Lock : HoldsAt(p, r, l) => l = wait_lock
    BY <1>1 DEF HoldsAt
  <1>11. wait_lock \in CondLock /\ lock' = [lock EXCEPT ![p] = c, ![wait_lock] = Off]
    BY <1>1, <1>2, Constants DEF zombie, CondLock, LocalsOK, Label
  <1>12. lock[p] = Off /\ s.pc = "sched"
    BY <1>3, <1>4
  <1> HIDE DEF r
  <1> QED
    BY <1>9, <1>10, <1>11, <1>12, OwnStepSwaps DEF r

LEMMA kwaitSched ==
    ASSUME SchedInv, NEW p \in Slot, NEW c \in CPU, kwait(p, c), calls' = calls
    PROVE  SchedInv'
  <1> DEFINE r == proc[p]
             s == [r EXCEPT !.pc = "scan", !.i = 1, !.kids = FALSE]
  <1>1. cpu[c] = p /\ ~(c = Boot /\ clock # Off) /\ r.pc = "wait"
    BY DEF kwait, At
  <1>2. r \in ProcRecord /\ LocalsOK(p, r)
    BY <1>1, Running
  <1>3. r.state = "RUNNING" /\ lock[wait_lock] = Off
    BY <1>1, Running, Constants, AcquiresAt DEF kwait, At, Free
  <1>4. /\ s.pc = "scan" /\ s.i = 1 /\ s.kids = FALSE
        /\ s.state = r.state /\ s.chan = r.chan /\ s.killed = r.killed
        /\ s.parent = r.parent /\ s.arg = r.arg /\ s.next = r.next
        /\ s.back = r.back /\ s.lk = r.lk
    BY <1>2 DEF ProcRecord
  <1>5. s \in ProcRecord
    BY <1>2, Values DEF ProcRecord
  <1>6. proc' = [proc EXCEPT ![p] = s]
    BY <1>1, <1>2 DEF kwait, SchedInv, TypeOK
  <1> HIDE DEF s
  <1>7. LocalsOK(p, s)
    BY <1>1, <1>2, <1>3, <1>4, Constants DEF LocalsOK, Label
  <1>8. Label(s) \in {"parent", "runnable"} => Label(s) = Label(r) /\ s.arg = r.arg
    BY <1>1, <1>2, <1>4 DEF Label, LocalsOK
  <1>9. OwnStep(p, c, s)
    BY <1>1, <1>3, <1>4, <1>5, <1>6, <1>7, <1>8 DEF kwait, OwnStep, MayBecome, SchedInv, TypeOK
  <1>10. \A l \in Lock : HoldsAt(p, s, l) <=> l = wait_lock \/ HoldsAt(p, r, l)
    BY <1>1, <1>2, <1>4 DEF HoldsAt, LocalsOK, Label
  <1>11. wait_lock \in Lock /\ Takes(wait_lock, c)
    BY <1>1, <1>2, Constants DEF kwait, CondLock, LocalsOK, Label
  <1> QED
    BY <1>3, <1>9, <1>10, <1>11, OwnStepTakes

LEMMA sys_pauseSched ==
    ASSUME SchedInv, NEW p \in Slot, NEW c \in CPU, sys_pause(p, c), calls' = calls
    PROVE  SchedInv'
  <1> DEFINE r == proc[p]
             s == [r EXCEPT !.pc = "ticks", !.lk = tickslock]
  <1>1. cpu[c] = p /\ ~(c = Boot /\ clock # Off) /\ r.pc = "pause"
    BY DEF sys_pause, At
  <1>2. r \in ProcRecord /\ LocalsOK(p, r)
    BY <1>1, Running
  <1>3. r.state = "RUNNING" /\ lock[tickslock] = Off
    BY <1>1, Running, Constants, AcquiresAt DEF sys_pause, At, Free
  <1>4. /\ s.pc = "ticks" /\ s.lk = tickslock
        /\ s.state = r.state /\ s.chan = r.chan /\ s.killed = r.killed
        /\ s.parent = r.parent /\ s.i = r.i /\ s.kids = r.kids /\ s.arg = r.arg
        /\ s.next = r.next /\ s.back = r.back
    BY <1>2 DEF ProcRecord
  <1>5. s \in ProcRecord
    BY <1>2, Values DEF ProcRecord
  <1>6. proc' = [proc EXCEPT ![p] = s]
    BY <1>1, <1>2 DEF sys_pause, SchedInv, TypeOK
  <1> HIDE DEF s
  <1>7. LocalsOK(p, s)
    BY <1>1, <1>2, <1>3, <1>4, Constants DEF LocalsOK, Label
  <1>8. Label(s) \in {"parent", "runnable"} => Label(s) = Label(r) /\ s.arg = r.arg
    BY <1>1, <1>2, <1>4 DEF Label, LocalsOK
  <1>9. OwnStep(p, c, s)
    BY <1>1, <1>3, <1>4, <1>5, <1>6, <1>7, <1>8 DEF sys_pause, OwnStep, MayBecome, SchedInv, TypeOK
  <1>10. \A l \in Lock : HoldsAt(p, s, l) <=> l = tickslock \/ HoldsAt(p, r, l)
    BY <1>1, <1>2, <1>4 DEF HoldsAt, LocalsOK, Label
  <1>11. tickslock \in Lock /\ Takes(tickslock, c)
    BY <1>1, <1>2, Constants DEF sys_pause, CondLock, LocalsOK, Label
  <1> QED
    BY <1>3, <1>9, <1>10, <1>11, OwnStepTakes

LEMMA TicksDoneSched ==
    ASSUME SchedInv, NEW p \in Slot, NEW c \in CPU, ticks(p, c), calls' = calls,
           p \in ticked \/ proc[p].killed
    PROVE  SchedInv'
  <1> DEFINE r == proc[p]
             s == [r EXCEPT !.pc = "user", !.i = 1, !.kids = FALSE, !.arg = Off, !.next = "", !.lk = Off]
  <1>1. cpu[c] = p /\ ~(c = Boot /\ clock # Off) /\ r.pc = "ticks"
    BY DEF ticks, At
  <1>2. r \in ProcRecord /\ LocalsOK(p, r)
    BY <1>1, Running
  <1>3. r.state = "RUNNING"
    BY <1>1, Running, Constants, AcquiresAt DEF ticks, At, Free
  <1>4. /\ s.pc = "user" /\ s.i = 1 /\ s.kids = FALSE /\ s.arg = Off
        /\ s.next = "" /\ s.lk = Off
        /\ s.state = r.state /\ s.chan = r.chan /\ s.killed = r.killed
        /\ s.parent = r.parent /\ s.back = r.back
    BY <1>2 DEF ProcRecord
  <1>5. s \in ProcRecord
    BY <1>2, Values DEF ProcRecord
  <1>6. proc' = [proc EXCEPT ![p] = s]
    BY <1>1, <1>2 DEF ticks, Return, SchedInv, TypeOK
  <1> HIDE DEF s
  <1>7. LocalsOK(p, s)
    BY <1>1, <1>2, <1>3, <1>4, Constants DEF LocalsOK, Label
  <1>8. Label(s) \in {"parent", "runnable"} => Label(s) = Label(r) /\ s.arg = r.arg
    BY <1>1, <1>2, <1>4 DEF Label, LocalsOK
  <1>9. OwnStep(p, c, s)
    BY <1>1, <1>3, <1>4, <1>5, <1>6, <1>7, <1>8 DEF ticks, OwnStep, MayBecome, SchedInv, TypeOK
  <1>10. /\ HoldsAt(p, r, tickslock)
         /\ \A l \in Lock : HoldsAt(p, s, l) <=> l # tickslock /\ HoldsAt(p, r, l)
    BY <1>1, <1>2, <1>3, <1>4 DEF HoldsAt, ProcRecord, NoLocks, LocalsOK, Label
  <1>11. tickslock \in Lock /\ Drops(tickslock)
    BY <1>1, Constants DEF ticks, CondLock
  <1> QED
    BY <1>9, <1>10, <1>11, OwnStepDrops

LEMMA TicksSleepSched ==
    ASSUME SchedInv, NEW p \in Slot, NEW c \in CPU, ticks(p, c), calls' = calls,
           ~(p \in ticked \/ proc[p].killed)
    PROVE  SchedInv'
  <1> DEFINE r == proc[p]
             s == [r EXCEPT !.pc = "sleep", !.next = "ticks"]
  <1>1. cpu[c] = p /\ ~(c = Boot /\ clock # Off) /\ r.pc = "ticks"
    BY DEF ticks, At
  <1>2. r \in ProcRecord /\ LocalsOK(p, r)
    BY <1>1, Running
  <1>3. r.state = "RUNNING"
    BY <1>1, Running, Constants, AcquiresAt DEF ticks, At, Free
  <1>4. /\ s.pc = "sleep" /\ s.next = "ticks"
        /\ s.state = r.state /\ s.chan = r.chan /\ s.killed = r.killed
        /\ s.parent = r.parent /\ s.i = r.i /\ s.kids = r.kids /\ s.arg = r.arg
        /\ s.back = r.back /\ s.lk = r.lk
    BY <1>2 DEF ProcRecord
  <1>5. s \in ProcRecord
    BY <1>2, Values DEF ProcRecord
  <1>6. proc' = [proc EXCEPT ![p] = s]
    BY <1>1, <1>2 DEF ticks, SchedInv, TypeOK
  <1> HIDE DEF s
  <1>7. LocalsOK(p, s)
    BY <1>1, <1>2, <1>3, <1>4, Constants DEF LocalsOK, Label
  <1>8. Label(s) \in {"parent", "runnable"} => Label(s) = Label(r) /\ s.arg = r.arg
    BY <1>1, <1>2, <1>4 DEF Label, LocalsOK
  <1>9. OwnStep(p, c, s)
    BY <1>1, <1>3, <1>4, <1>5, <1>6, <1>7, <1>8 DEF ticks, OwnStep, MayBecome, SchedInv, TypeOK
  <1>10. lock' = lock /\ \A l \in Lock : HoldsAt(p, s, l) <=> HoldsAt(p, r, l)
    BY <1>1, <1>2, <1>4 DEF ticks, HoldsAt, LocalsOK, Label
  <1> QED
    BY <1>9, <1>10, OwnStepNoLock

LEMMA acquiresleepSched ==
    ASSUME SchedInv, NEW p \in Slot, NEW c \in CPU, acquiresleep(p, c), calls' = calls
    PROVE  SchedInv'
  <1> DEFINE r == proc[p]
             s == [r EXCEPT !.pc = "locked"]
  <1>1. cpu[c] = p /\ ~(c = Boot /\ clock # Off) /\ r.pc = "acquiresleep"
    BY DEF acquiresleep, At
  <1>2. r \in ProcRecord /\ LocalsOK(p, r)
    BY <1>1, Running
  <1>3. r.state = "RUNNING" /\ lock[slk] = Off
    BY <1>1, Running, Constants, AcquiresAt DEF acquiresleep, At, Free
  <1>4. /\ s.pc = "locked"
        /\ s.state = r.state /\ s.chan = r.chan /\ s.killed = r.killed
        /\ s.parent = r.parent /\ s.i = r.i /\ s.kids = r.kids /\ s.arg = r.arg
        /\ s.next = r.next /\ s.back = r.back /\ s.lk = r.lk
    BY <1>2 DEF ProcRecord
  <1>5. s \in ProcRecord
    BY <1>2, Values DEF ProcRecord
  <1>6. proc' = [proc EXCEPT ![p] = s]
    BY <1>1, <1>2 DEF acquiresleep, Goto, SchedInv, TypeOK
  <1> HIDE DEF s
  <1>7. LocalsOK(p, s)
    BY <1>1, <1>2, <1>3, <1>4, Constants DEF LocalsOK, Label
  <1>8. Label(s) \in {"parent", "runnable"} => Label(s) = Label(r) /\ s.arg = r.arg
    BY <1>1, <1>2, <1>4 DEF Label, LocalsOK
  <1>9. OwnStep(p, c, s)
    BY <1>1, <1>3, <1>4, <1>5, <1>6, <1>7, <1>8 DEF acquiresleep, OwnStep, MayBecome, SchedInv, TypeOK
  <1>10. \A l \in Lock : HoldsAt(p, s, l) <=> l = slk \/ HoldsAt(p, r, l)
    BY <1>1, <1>2, <1>4 DEF HoldsAt, LocalsOK, Label
  <1>11. slk \in Lock /\ Takes(slk, c)
    BY <1>1, <1>2, Constants DEF acquiresleep, CondLock, LocalsOK, Label
  <1> QED
    BY <1>3, <1>9, <1>10, <1>11, OwnStepTakes

LEMMA LockedSleepSched ==
    ASSUME SchedInv, NEW p \in Slot, NEW c \in CPU, whilelocked(p, c), calls' = calls,
           locked # Off
    PROVE  SchedInv'
  <1> DEFINE r == proc[p]
             s == [r EXCEPT !.pc = "sleep", !.lk = slk, !.next = "locked"]
  <1>1. cpu[c] = p /\ ~(c = Boot /\ clock # Off) /\ r.pc = "locked"
    BY DEF whilelocked, At
  <1>2. r \in ProcRecord /\ LocalsOK(p, r)
    BY <1>1, Running
  <1>3. r.state = "RUNNING"
    BY <1>1, Running, Constants, AcquiresAt DEF whilelocked, At, Free
  <1>4. /\ s.pc = "sleep" /\ s.lk = slk /\ s.next = "locked"
        /\ s.state = r.state /\ s.chan = r.chan /\ s.killed = r.killed
        /\ s.parent = r.parent /\ s.i = r.i /\ s.kids = r.kids /\ s.arg = r.arg
        /\ s.back = r.back
    BY <1>2 DEF ProcRecord
  <1>5. s \in ProcRecord
    BY <1>2, Values DEF ProcRecord
  <1>6. proc' = [proc EXCEPT ![p] = s]
    BY <1>1, <1>2 DEF whilelocked, SchedInv, TypeOK
  <1> HIDE DEF s
  <1>7. LocalsOK(p, s)
    BY <1>1, <1>2, <1>3, <1>4, Constants DEF LocalsOK, Label
  <1>8. Label(s) \in {"parent", "runnable"} => Label(s) = Label(r) /\ s.arg = r.arg
    BY <1>1, <1>2, <1>4 DEF Label, LocalsOK
  <1>9. OwnStep(p, c, s)
    BY <1>1, <1>3, <1>4, <1>5, <1>6, <1>7, <1>8 DEF whilelocked, OwnStep, MayBecome, SchedInv, TypeOK
  <1>10. lock' = lock /\ \A l \in Lock : HoldsAt(p, s, l) <=> HoldsAt(p, r, l)
    BY <1>1, <1>2, <1>4 DEF whilelocked, HoldsAt, LocalsOK, Label
  <1> QED
    BY <1>9, <1>10, OwnStepNoLock

LEMMA LockedTakeSched ==
    ASSUME SchedInv, NEW p \in Slot, NEW c \in CPU, whilelocked(p, c), calls' = calls,
           locked = Off
    PROVE  SchedInv'
  <1> DEFINE r == proc[p]
             s == [r EXCEPT !.pc = "releasesleep"]
  <1>1. cpu[c] = p /\ ~(c = Boot /\ clock # Off) /\ r.pc = "locked"
    BY DEF whilelocked, At
  <1>2. r \in ProcRecord /\ LocalsOK(p, r)
    BY <1>1, Running
  <1>3. r.state = "RUNNING"
    BY <1>1, Running, Constants, AcquiresAt DEF whilelocked, At, Free
  <1>4. /\ s.pc = "releasesleep"
        /\ s.state = r.state /\ s.chan = r.chan /\ s.killed = r.killed
        /\ s.parent = r.parent /\ s.i = r.i /\ s.kids = r.kids /\ s.arg = r.arg
        /\ s.next = r.next /\ s.back = r.back /\ s.lk = r.lk
    BY <1>2 DEF ProcRecord
  <1>5. s \in ProcRecord
    BY <1>2, Values DEF ProcRecord
  <1>6. proc' = [proc EXCEPT ![p] = s]
    BY <1>1, <1>2 DEF whilelocked, Goto, SchedInv, TypeOK
  <1> HIDE DEF s
  <1>7. LocalsOK(p, s)
    BY <1>1, <1>2, <1>3, <1>4, Constants DEF LocalsOK, Label
  <1>8. Label(s) \in {"parent", "runnable"} => Label(s) = Label(r) /\ s.arg = r.arg
    BY <1>1, <1>2, <1>4 DEF Label, LocalsOK
  <1>9. OwnStep(p, c, s)
    BY <1>1, <1>3, <1>4, <1>5, <1>6, <1>7, <1>8 DEF whilelocked, OwnStep, MayBecome, SchedInv, TypeOK
  <1>10. /\ HoldsAt(p, r, slk)
         /\ \A l \in Lock : HoldsAt(p, s, l) <=> l # slk /\ HoldsAt(p, r, l)
    BY <1>1, <1>2, <1>3, <1>4 DEF HoldsAt, ProcRecord, NoLocks, LocalsOK, Label
  <1>11. slk \in Lock /\ Drops(slk)
    BY <1>1, Constants DEF whilelocked, CondLock
  <1> QED
    BY <1>9, <1>10, <1>11, OwnStepDrops

LEMMA releasesleepSched ==
    ASSUME SchedInv, NEW p \in Slot, NEW c \in CPU, releasesleep(p, c), calls' = calls
    PROVE  SchedInv'
  <1> DEFINE r == proc[p]
             s == [r EXCEPT !.pc = "wakeup", !.i = 1, !.arg = slk, !.next = "unlock"]
  <1>1. cpu[c] = p /\ ~(c = Boot /\ clock # Off) /\ r.pc = "releasesleep"
    BY DEF releasesleep, At
  <1>2. r \in ProcRecord /\ LocalsOK(p, r)
    BY <1>1, Running
  <1>3. r.state = "RUNNING" /\ lock[slk] = Off
    BY <1>1, Running, Constants, AcquiresAt DEF releasesleep, At, Free
  <1>4. /\ s.pc = "wakeup" /\ s.i = 1 /\ s.arg = slk /\ s.next = "unlock"
        /\ s.state = r.state /\ s.chan = r.chan /\ s.killed = r.killed
        /\ s.parent = r.parent /\ s.kids = r.kids /\ s.back = r.back
        /\ s.lk = r.lk
    BY <1>2 DEF ProcRecord
  <1>5. s \in ProcRecord
    BY <1>2, Values DEF ProcRecord
  <1>6. proc' = [proc EXCEPT ![p] = s]
    BY <1>1, <1>2 DEF releasesleep, CallWakeup, SchedInv, TypeOK
  <1> HIDE DEF s
  <1>7. LocalsOK(p, s)
    BY <1>1, <1>2, <1>3, <1>4, Constants DEF LocalsOK, Label
  <1>8. Label(s) \in {"parent", "runnable"} => Label(s) = Label(r) /\ s.arg = r.arg
    BY <1>1, <1>2, <1>4 DEF Label, LocalsOK
  <1>9. OwnStep(p, c, s)
    BY <1>1, <1>3, <1>4, <1>5, <1>6, <1>7, <1>8 DEF releasesleep, OwnStep, MayBecome, SchedInv, TypeOK
  <1>10. \A l \in Lock : HoldsAt(p, s, l) <=> l = slk \/ HoldsAt(p, r, l)
    BY <1>1, <1>2, <1>4 DEF HoldsAt, LocalsOK, Label
  <1>11. slk \in Lock /\ Takes(slk, c)
    BY <1>1, <1>2, Constants DEF releasesleep, CondLock, LocalsOK, Label
  <1> QED
    BY <1>3, <1>9, <1>10, <1>11, OwnStepTakes

LEMMA unlockSched ==
    ASSUME SchedInv, NEW p \in Slot, NEW c \in CPU, unlock(p, c), calls' = calls
    PROVE  SchedInv'
  <1> DEFINE r == proc[p]
             s == [r EXCEPT !.pc = "user", !.i = 1, !.kids = FALSE, !.arg = Off, !.next = "", !.lk = Off]
  <1>1. cpu[c] = p /\ ~(c = Boot /\ clock # Off) /\ r.pc = "unlock"
    BY DEF unlock, At
  <1>2. r \in ProcRecord /\ LocalsOK(p, r)
    BY <1>1, Running
  <1>3. r.state = "RUNNING"
    BY <1>1, Running, Constants, AcquiresAt DEF unlock, At, Free
  <1>4. /\ s.pc = "user" /\ s.i = 1 /\ s.kids = FALSE /\ s.arg = Off
        /\ s.next = "" /\ s.lk = Off
        /\ s.state = r.state /\ s.chan = r.chan /\ s.killed = r.killed
        /\ s.parent = r.parent /\ s.back = r.back
    BY <1>2 DEF ProcRecord
  <1>5. s \in ProcRecord
    BY <1>2, Values DEF ProcRecord
  <1>6. proc' = [proc EXCEPT ![p] = s]
    BY <1>1, <1>2 DEF unlock, Return, SchedInv, TypeOK
  <1> HIDE DEF s
  <1>7. LocalsOK(p, s)
    BY <1>1, <1>2, <1>3, <1>4, Constants DEF LocalsOK, Label
  <1>8. Label(s) \in {"parent", "runnable"} => Label(s) = Label(r) /\ s.arg = r.arg
    BY <1>1, <1>2, <1>4 DEF Label, LocalsOK
  <1>9. OwnStep(p, c, s)
    BY <1>1, <1>3, <1>4, <1>5, <1>6, <1>7, <1>8 DEF unlock, OwnStep, MayBecome, SchedInv, TypeOK
  <1>10. /\ HoldsAt(p, r, slk)
         /\ \A l \in Lock : HoldsAt(p, s, l) <=> l # slk /\ HoldsAt(p, r, l)
    BY <1>1, <1>2, <1>3, <1>4 DEF HoldsAt, ProcRecord, NoLocks, LocalsOK, Label
  <1>11. slk \in Lock /\ Drops(slk)
    BY <1>1, Constants DEF unlock, CondLock
  <1> QED
    BY <1>9, <1>10, <1>11, OwnStepDrops

LEMMA ScanEndsSched ==
    ASSUME SchedInv, NEW p \in Slot, NEW c \in CPU, scan(p, c), calls' = calls,
           NextChild(p) = {} /\ (~proc[p].kids \/ proc[p].killed)
    PROVE  SchedInv'
  <1> DEFINE r == proc[p]
             s == [r EXCEPT !.pc = "user", !.i = 1, !.kids = FALSE, !.arg = Off, !.next = "", !.lk = Off]
  <1>1. cpu[c] = p /\ ~(c = Boot /\ clock # Off) /\ r.pc = "scan"
    BY DEF scan, At
  <1>2. r \in ProcRecord /\ LocalsOK(p, r)
    BY <1>1, Running
  <1>3. r.state = "RUNNING"
    BY <1>1, Running, Constants, AcquiresAt DEF scan, At, Free
  <1>4. /\ s.pc = "user" /\ s.i = 1 /\ s.kids = FALSE /\ s.arg = Off
        /\ s.next = "" /\ s.lk = Off
        /\ s.state = r.state /\ s.chan = r.chan /\ s.killed = r.killed
        /\ s.parent = r.parent /\ s.back = r.back
    BY <1>2 DEF ProcRecord
  <1>5. s \in ProcRecord
    BY <1>2, Values DEF ProcRecord
  <1>6. proc' = [proc EXCEPT ![p] = s]
    BY <1>1, <1>2 DEF scan, Return, SchedInv, TypeOK
  <1> HIDE DEF s
  <1>7. LocalsOK(p, s)
    BY <1>1, <1>2, <1>3, <1>4, Constants DEF LocalsOK, Label
  <1>8. Label(s) \in {"parent", "runnable"} => Label(s) = Label(r) /\ s.arg = r.arg
    BY <1>1, <1>2, <1>4 DEF Label, LocalsOK
  <1>9. OwnStep(p, c, s)
    BY <1>1, <1>3, <1>4, <1>5, <1>6, <1>7, <1>8 DEF scan, OwnStep, MayBecome, SchedInv, TypeOK
  <1>10. /\ HoldsAt(p, r, wait_lock)
         /\ \A l \in Lock : HoldsAt(p, s, l) <=> l # wait_lock /\ HoldsAt(p, r, l)
    BY <1>1, <1>2, <1>3, <1>4 DEF HoldsAt, ProcRecord, NoLocks, LocalsOK, Label
  <1>11. wait_lock \in Lock /\ Drops(wait_lock)
    BY <1>1, Constants DEF scan, CondLock
  <1> QED
    BY <1>9, <1>10, <1>11, OwnStepDrops

LEMMA ScanSleepsSched ==
    ASSUME SchedInv, NEW p \in Slot, NEW c \in CPU, scan(p, c), calls' = calls,
           NextChild(p) = {} /\ ~(~proc[p].kids \/ proc[p].killed)
    PROVE  SchedInv'
  <1> DEFINE r == proc[p]
             s == [r EXCEPT !.pc = "sleep", !.lk = wait_lock, !.next = "scan"]
  <1>1. cpu[c] = p /\ ~(c = Boot /\ clock # Off) /\ r.pc = "scan"
    BY DEF scan, At
  <1>2. r \in ProcRecord /\ LocalsOK(p, r)
    BY <1>1, Running
  <1>3. r.state = "RUNNING"
    BY <1>1, Running, Constants, AcquiresAt DEF scan, At, Free
  <1>4. /\ s.pc = "sleep" /\ s.lk = wait_lock /\ s.next = "scan"
        /\ s.state = r.state /\ s.chan = r.chan /\ s.killed = r.killed
        /\ s.parent = r.parent /\ s.i = r.i /\ s.kids = r.kids /\ s.arg = r.arg
        /\ s.back = r.back
    BY <1>2 DEF ProcRecord
  <1>5. s \in ProcRecord
    BY <1>2, Values DEF ProcRecord
  <1>6. proc' = [proc EXCEPT ![p] = s]
    BY <1>1, <1>2 DEF scan, SchedInv, TypeOK
  <1> HIDE DEF s
  <1>7. LocalsOK(p, s)
    BY <1>1, <1>2, <1>3, <1>4, Constants DEF LocalsOK, Label
  <1>8. Label(s) \in {"parent", "runnable"} => Label(s) = Label(r) /\ s.arg = r.arg
    BY <1>1, <1>2, <1>4 DEF Label, LocalsOK
  <1>9. OwnStep(p, c, s)
    BY <1>1, <1>3, <1>4, <1>5, <1>6, <1>7, <1>8 DEF scan, OwnStep, MayBecome, SchedInv, TypeOK
  <1>10. lock' = lock /\ \A l \in Lock : HoldsAt(p, s, l) <=> HoldsAt(p, r, l)
    BY <1>1, <1>2, <1>4 DEF scan, HoldsAt, LocalsOK, Label
  <1> QED
    BY <1>9, <1>10, OwnStepNoLock

LEMMA InterruptSched ==
    ASSUME SchedInv, NEW p \in Slot, NEW c \in CPU, Interrupt(p, c), calls' = calls
    PROVE  SchedInv'
  <1> DEFINE r == proc[p]
             s == [r EXCEPT !.pc = "yield", !.back = r.pc]
  <1>1. cpu[c] = p /\ ~(c = Boot /\ clock # Off) /\ r.pc # "yield"
    BY DEF Interrupt
  <1>2. r \in ProcRecord /\ LocalsOK(p, r)
    BY <1>1, Running
  <1>3. \A l \in Lock : ~HoldsAt(p, r, l)
    BY <1>1, Running DEF Interrupt, IntrOn, Held
  <1>4. r.pc \in NoLocks /\ r.pc # "sched" /\ r.state = "RUNNING"
    BY <1>1, <1>2, <1>3, Running, Constants
    DEF HoldsAt, LocalsOK, Label, ProcRecord, Place, CondLock
  <1>5. /\ s.pc = "yield" /\ s.back = r.pc
        /\ s.state = r.state /\ s.chan = r.chan /\ s.parent = r.parent
        /\ s.arg = r.arg /\ s.next = r.next /\ s.lk = r.lk
    BY <1>2 DEF ProcRecord
  <1>6. s \in ProcRecord
    BY <1>2, <1>4, Values DEF ProcRecord
  <1>7. proc' = [proc EXCEPT ![p] = s]
    BY <1>1, <1>2 DEF Interrupt, SchedInv, TypeOK
  <1> HIDE DEF s
  <1>8. LocalsOK(p, s) /\ Label(s) = Label(r) /\ s.arg = r.arg
    BY <1>1, <1>2, <1>4, <1>5 DEF LocalsOK, Label, NoLocks
  <1>9. OwnStep(p, c, s)
    BY <1>1, <1>4, <1>5, <1>6, <1>7, <1>8
    DEF Interrupt, OwnStep, MayBecome, SchedInv, TypeOK
  <1>10. lock' = lock /\ \A l \in Lock : HoldsAt(p, s, l) <=> HoldsAt(p, r, l)
    BY <1>3, <1>5 DEF Interrupt, HoldsAt
  <1> QED
    BY <1>9, <1>10, OwnStepNoLock

LEMMA UsertrapCallsSched ==
    ASSUME SchedInv, NEW p \in Slot, NEW c \in CPU, usertrap(p, c), calls' = calls,
           NEW l \in Calls(p) \ {"kill"}, proc' = Goto(p, l)
    PROVE  SchedInv'
  <1> DEFINE r == proc[p]
             s == [r EXCEPT !.pc = l]
  <1>1. cpu[c] = p /\ ~(c = Boot /\ clock # Off) /\ r.pc = "user"
    BY DEF usertrap, At
  <1>2. r \in ProcRecord /\ LocalsOK(p, r) /\ r.state = "RUNNING"
    BY <1>1, Running
  <1>3. l \in {"fork", "wait", "exit", "pause", "acquiresleep"}
    BY ProcSizes DEF Calls, SchedInv, TypeOK
  <1>4. /\ s.pc = l /\ s.state = r.state /\ s.chan = r.chan /\ s.parent = r.parent
        /\ s.arg = r.arg /\ s.next = r.next /\ s.lk = r.lk /\ s.back = r.back
    BY <1>2 DEF ProcRecord
  <1>5. s \in ProcRecord
    <2>1. l \in Place
      BY <1>3 DEF Place, NoLocks
    <2> QED
      BY <1>2, <2>1 DEF ProcRecord
  <1>6. proc' = [proc EXCEPT ![p] = s]
    BY <1>2 DEF Goto, SchedInv, TypeOK
  <1> HIDE DEF s
  <1>7. LocalsOK(p, s) /\ Label(s) \notin {"parent", "runnable"}
    BY <1>1, <1>2, <1>3, <1>4 DEF LocalsOK, Label
  <1>8. OwnStep(p, c, s)
    BY <1>1, <1>2, <1>4, <1>5, <1>6, <1>7
    DEF usertrap, OwnStep, MayBecome, SchedInv, TypeOK
  <1>9. lock' = lock /\ \A k \in Lock : HoldsAt(p, s, k) <=> HoldsAt(p, r, k)
    BY <1>1, <1>3, <1>4 DEF usertrap, HoldsAt
  <1> QED
    BY <1>8, <1>9, OwnStepNoLock

LEMMA UsertrapKillsSched ==
    ASSUME SchedInv, NEW p \in Slot, NEW c \in CPU, usertrap(p, c), calls' = calls,
           NEW v \in Slot, proc' = [proc EXCEPT ![p].pc = "kill", ![p].arg = v]
    PROVE  SchedInv'
  <1> DEFINE r == proc[p]
             s == [r EXCEPT !.pc = "kill", !.arg = v]
  <1>1. cpu[c] = p /\ ~(c = Boot /\ clock # Off) /\ r.pc = "user"
    BY DEF usertrap, At
  <1>2. r \in ProcRecord /\ LocalsOK(p, r) /\ r.state = "RUNNING"
    BY <1>1, Running
  <1>3. /\ s.pc = "kill" /\ s.state = r.state /\ s.chan = r.chan /\ s.parent = r.parent
        /\ s.arg = v /\ s.next = r.next /\ s.lk = r.lk /\ s.back = r.back
    BY <1>2 DEF ProcRecord
  <1>4. s \in ProcRecord
    BY <1>2, Values DEF ProcRecord
  <1>5. proc' = [proc EXCEPT ![p] = s]
    BY <1>2 DEF SchedInv, TypeOK
  <1> HIDE DEF s
  <1>6. LocalsOK(p, s) /\ Label(s) \notin {"parent", "runnable"}
    BY <1>1, <1>2, <1>3 DEF LocalsOK, Label
  <1>7. OwnStep(p, c, s)
    BY <1>1, <1>2, <1>3, <1>4, <1>5, <1>6
    DEF usertrap, OwnStep, MayBecome, SchedInv, TypeOK
  <1>8. lock' = lock /\ \A l \in Lock : HoldsAt(p, s, l) <=> HoldsAt(p, r, l)
    BY <1>1, <1>3 DEF usertrap, HoldsAt
  <1> QED
    BY <1>7, <1>8, OwnStepNoLock

LEMMA ScanPassesSched ==
    ASSUME SchedInv, NEW p \in Slot, NEW c \in CPU, scan(p, c), calls' = calls,
           NextChild(p) # {}, proc[Least(NextChild(p))].state # "ZOMBIE"
    PROVE  SchedInv'
  <1> DEFINE r == proc[p]
             q == Least(NextChild(p))
             s == [r EXCEPT !.i = q + 1, !.kids = TRUE]
  <1>1. cpu[c] = p /\ ~(c = Boot /\ clock # Off) /\ r.pc = "scan"
    BY DEF scan, At
  <1>2. r \in ProcRecord /\ LocalsOK(p, r) /\ r.state = "RUNNING"
    BY <1>1, Running
  <1>3. q \in Slot /\ q + 1 \in 1 .. NPROC + 1
    <2>1. q \in Slot
      BY LeastSlot DEF NextChild, Children
    <2> QED
      BY <2>1, ProcSizes DEF Slot
  <1> HIDE DEF q
  <1>4. /\ s.pc = "scan" /\ s.state = r.state /\ s.chan = r.chan /\ s.parent = r.parent
        /\ s.arg = r.arg /\ s.next = r.next /\ s.lk = r.lk /\ s.back = r.back
    BY <1>1, <1>2 DEF ProcRecord
  <1>5. s \in ProcRecord
    BY <1>2, <1>3 DEF ProcRecord
  <1>6. proc' = [proc EXCEPT ![p] = s] /\ lock' = lock
    BY <1>2 DEF scan, SchedInv, TypeOK, q
  <1> HIDE DEF s
  <1>7. LocalsOK(p, s) /\ Label(s) \notin {"parent", "runnable"}
    BY <1>1, <1>2, <1>4 DEF LocalsOK, Label
  <1>8. OwnStep(p, c, s)
    BY <1>1, <1>2, <1>4, <1>5, <1>6, <1>7 DEF scan, OwnStep, MayBecome, SchedInv, TypeOK
  <1>9. \A l \in Lock : HoldsAt(p, s, l) <=> HoldsAt(p, r, l)
    BY <1>1, <1>4 DEF HoldsAt
  <1> QED
    BY <1>6, <1>8, <1>9, OwnStepNoLock

-----------------------------------------------------------------------------
(* The steps of the schedulers and of the clock.                           *)

(* A process that does not run, with its lock free, is on no CPU.          *)
LEMMA OffCpu ==
    ASSUME SchedInv, NEW q \in Slot, lock[q] = Off, proc[q].state # "RUNNING"
    PROVE  \A d \in CPU : cpu[d] # q
  <1> SUFFICES ASSUME NEW d \in CPU, cpu[d] = q PROVE FALSE
    OBVIOUS
  <1>1. proc[q].pc = "sched"
    BY Constants DEF SchedInv, CpusOK
  <1>2. lock[q] = d
    BY <1>1, Constants DEF SchedInv, LocksExact, HoldsAt
  <1> QED
    BY <1>2, Constants

(* Who holds no lock, and is not in yield, is where it may be interrupted. *)
LEMMA Interruptible ==
    ASSUME SchedInv, NEW c \in CPU, cpu[c] # Off, proc[cpu[c]].pc # "yield",
           ~(c = Boot /\ clock # Off), IntrOn(c)
    PROVE  proc[cpu[c]].pc \in NoLocks /\ \A l \in Lock : ~HoldsAt(cpu[c], proc[cpu[c]], l)
  <1> DEFINE p == cpu[c]  r == proc[p]
  <1>1. p \in Slot
    BY DEF SchedInv, TypeOK
  <1>2. \A l \in Lock : ~HoldsAt(p, r, l)
    BY <1>1, Running DEF IntrOn, Held
  <1>3. r \in ProcRecord /\ LocalsOK(p, r)
    BY <1>1, Running
  <1>4. r.pc \in NoLocks
    BY <1>1, <1>2, <1>3, Constants
    DEF HoldsAt, LocalsOK, Label, ProcRecord, Place, CondLock
  <1> QED
    BY <1>2, <1>4

LEMMA schedulerSched ==
    ASSUME SchedInv, NEW p \in Slot, NEW c \in CPU, scheduler(c, p), calls' = calls
    PROVE  SchedInv'
  <1> DEFINE r == proc[p]
             s == [r EXCEPT !.state = "RUNNING"]
  <1>1. /\ cpu[c] = Off /\ ~(c = Boot /\ clock # Off) /\ lock[p] = Off
        /\ r.state = "RUNNABLE"
        /\ cpu' = [cpu EXCEPT ![c] = p] /\ lock' = [lock EXCEPT ![p] = c]
        /\ UNCHANGED <<clock, locked, ticked>>
    BY DEF scheduler, Takes
  <1>2. /\ r \in ProcRecord /\ LocalsOK(p, r)
        /\ cpu \in [CPU -> Slot \cup {Off}] /\ lock \in [Lock -> CPU \cup {Off}]
        /\ proc \in [Slot -> ProcRecord]
    BY DEF SchedInv, TypeOK
  <1>3. \A d \in CPU : cpu[d] # p
    BY <1>1, OffCpu
  <1>4. /\ s.state = "RUNNING" /\ s.pc = r.pc /\ s.back = r.back /\ s.chan = r.chan
        /\ s.parent = r.parent /\ s.arg = r.arg /\ s.next = r.next /\ s.lk = r.lk
    BY <1>2 DEF ProcRecord
  <1>5. s \in ProcRecord
    BY <1>2, Values DEF ProcRecord
  <1>6. proc' = [proc EXCEPT ![p] = s]
    BY <1>2 DEF scheduler
  <1> HIDE DEF s
  <1>7. r.pc = "sched" /\ LocalsOK(p, s) /\ Label(s) = Label(r)
    BY <1>1, <1>2, <1>4 DEF LocalsOK, Label
  <1>8. /\ proc'[p] = s /\ \A q \in Slot \ {p} : proc'[q] = proc[q]
        /\ cpu'[c] = p /\ \A d \in CPU \ {c} : cpu'[d] = cpu[d]
        /\ lock'[p] = c /\ \A l \in Lock \ {p} : lock'[l] = lock[l]
    BY <1>1, <1>2, <1>6, Constants
  <1>9. TypeOK'
    BY <1>1, <1>2, <1>5, <1>6, Constants DEF SchedInv, TypeOK
  <1>10. \A q \in Slot : LocalsOK(q, proc'[q])
    BY <1>7, <1>8 DEF SchedInv
  <1>11. ForksOK'
    BY <1>1, <1>4, <1>7, <1>8, ForksKept
  <1>12. LocksExact'
    <2> SUFFICES ASSUME NEW d \in CPU, NEW l \in Lock
                 PROVE  lock'[l] = d <=> \/ cpu'[d] # Off /\ HoldsAt(cpu'[d], proc'[cpu'[d]], l)
                                         \/ d = Boot /\ clock # Off /\ l = tickslock
      BY <1>1 DEF LocksExact
    <2>1. CASE d = c
      <3>1. lock[l] # c
        BY <1>1 DEF SchedInv, LocksExact
      <3>2. lock'[l] = c <=> l = p
        BY <1>8, <3>1
      <3>3. HoldsAt(p, s, l) <=> l = p
        BY <1>4, <1>7 DEF HoldsAt
      <3> QED
        BY <1>1, <1>8, <2>1, <3>2, <3>3, Constants
    <2>2. CASE d # c
      <3>1. lock'[l] = d <=> lock[l] = d
        BY <1>1, <1>8, <2>2, Constants
      <3>2. cpu'[d] = cpu[d] /\ (cpu[d] # Off => proc'[cpu[d]] = proc[cpu[d]])
        BY <1>2, <1>3, <1>8, <2>2
      <3> QED
        BY <3>1, <3>2 DEF SchedInv, LocksExact
    <2> QED
      BY <2>1, <2>2
  <1>13. ClockOK'
    BY <1>1, <1>2, <1>3, <1>8, Constants DEF SchedInv, ClockOK
  <1>14. CpusOK'
    <2>1. \A x \in Slot : proc'[x].state = "RUNNING" => \E d \in CPU : cpu'[d] = x
      BY <1>1, <1>8, Constants DEF SchedInv, CpusOK
    <2> QED
      BY <1>2, <1>3, <1>4, <1>8, <2>1 DEF SchedInv, CpusOK
  <1> QED
    BY <1>9, <1>10, <1>11, <1>12, <1>13, <1>14 DEF SchedInv

LEMMA schedSched ==
    ASSUME SchedInv, NEW p \in Slot, NEW c \in CPU, sched(p, c), calls' = calls
    PROVE  SchedInv'
  <1>1. /\ cpu[c] = p /\ ~(c = Boot /\ clock # Off) /\ proc[p].pc = "sched"
        /\ proc[p].state # "RUNNING" /\ cpu' = [cpu EXCEPT ![c] = Off]
        /\ lock' = [lock EXCEPT ![p] = Off] /\ UNCHANGED <<proc, clock, locked, ticked>>
    BY DEF sched, At, Drops
  <1>2. cpu \in [CPU -> Slot \cup {Off}] /\ lock \in [Lock -> CPU \cup {Off}]
    BY DEF SchedInv, TypeOK
  <1>3. \A l \in Lock : lock[l] = c <=> l = p
    BY <1>1, Running DEF HoldsAt
  <1>4. /\ cpu'[c] = Off /\ \A d \in CPU \ {c} : cpu'[d] = cpu[d]
        /\ lock'[p] = Off /\ \A l \in Lock \ {p} : lock'[l] = lock[l]
    BY <1>1, <1>2, Constants
  <1>5. TypeOK'
    BY <1>1, <1>2 DEF SchedInv, TypeOK
  <1>6. (\A q \in Slot : LocalsOK(q, proc[q]))' /\ ForksOK'
    BY <1>1 DEF SchedInv, ForksOK
  <1>7. LocksExact'
    <2> SUFFICES ASSUME NEW d \in CPU, NEW l \in Lock
                 PROVE  lock'[l] = d <=> \/ cpu'[d] # Off /\ HoldsAt(cpu'[d], proc[cpu'[d]], l)
                                         \/ d = Boot /\ clock # Off /\ l = tickslock
      BY <1>1 DEF LocksExact
    <2>1. CASE d = c
      BY <1>1, <1>3, <1>4, <2>1, Constants
    <2>2. CASE d # c
      <3>1. lock'[l] = d <=> lock[l] = d
        BY <1>3, <1>4, <2>2, Constants
      <3> QED
        BY <1>4, <2>2, <3>1 DEF SchedInv, LocksExact
    <2> QED
      BY <2>1, <2>2
  <1>8. ClockOK'
    BY <1>1, <1>4, Constants DEF SchedInv, ClockOK
  <1>9. CpusOK'
    BY <1>1, <1>4 DEF SchedInv, CpusOK
  <1> QED
    BY <1>5, <1>6, <1>7, <1>8, <1>9 DEF SchedInv

LEMMA clockintrSched ==
    ASSUME SchedInv, clockintr, calls' = calls
    PROVE  SchedInv'
  <1>1. /\ clock = Off /\ clock' = 1 /\ lock[tickslock] = Off
        /\ lock' = [lock EXCEPT ![tickslock] = Boot]
        /\ ticked' \subseteq Slot /\ UNCHANGED <<proc, cpu, locked>>
    BY DEF clockintr, Takes
  <1>2. lock \in [Lock -> CPU \cup {Off}] /\ tickslock \in Lock
    BY Constants DEF SchedInv, TypeOK, CondLock
  <1>3. \A l \in Lock : lock[l] # Boot
    BY DEF clockintr, IntrOn, Held
  <1>4. /\ lock'[tickslock] = Boot /\ \A l \in Lock \ {tickslock} : lock'[l] = lock[l]
    BY <1>1, <1>2
  <1>5. TypeOK'
    <2>1. 1 \in 0 .. NPROC + 1
      BY ProcSizes
    <2> QED
      BY <1>1, <1>2, <2>1, Constants DEF SchedInv, TypeOK
  <1>6. (\A q \in Slot : LocalsOK(q, proc[q]))' /\ ForksOK' /\ CpusOK'
    BY <1>1 DEF SchedInv, ForksOK, CpusOK
  <1>7. cpu[Boot] # Off => /\ proc[cpu[Boot]].pc \in NoLocks
                           /\ \A l \in Lock : ~HoldsAt(cpu[Boot], proc[cpu[Boot]], l)
    BY <1>1, Constants, Interruptible DEF clockintr
  <1>8. LocksExact'
    <2> SUFFICES ASSUME NEW d \in CPU, NEW l \in Lock
                 PROVE  lock'[l] = d <=> \/ cpu[d] # Off /\ HoldsAt(cpu[d], proc[cpu[d]], l)
                                         \/ d = Boot /\ clock' # Off /\ l = tickslock
      BY <1>1 DEF LocksExact
    <2>1. CASE d = Boot
      <3>1. clock' # Off
        BY <1>1 DEF Off
      <3> QED
        BY <1>3, <1>4, <1>7, <2>1, <3>1
    <2>2. CASE d # Boot
      <3>1. lock'[l] = d <=> lock[l] = d
        BY <1>1, <1>4, <2>2, Constants
      <3> QED
        BY <2>2, <3>1 DEF SchedInv, LocksExact
    <2> QED
      BY <2>1, <2>2
  <1>9. ClockOK'
    BY <1>1, <1>7 DEF ClockOK
  <1> QED
    BY <1>5, <1>6, <1>8, <1>9 DEF SchedInv

(* What wakeup does to the slot it looks at.                               *)
LEMMA WokenFacts ==
    ASSUME SchedInv, NEW q \in Slot, lock[q] = Off, NEW chan
    PROVE  /\ Woken(q, chan) = [proc EXCEPT ![q] = Woken(q, chan)[q]]
           /\ Woken(q, chan)[q] \in ProcRecord /\ LocalsOK(q, Woken(q, chan)[q])
           /\ Woken(q, chan)[q].pc = proc[q].pc /\ Woken(q, chan)[q].back = proc[q].back
           /\ Woken(q, chan)[q].arg = proc[q].arg /\ Woken(q, chan)[q].next = proc[q].next
           /\ Woken(q, chan)[q].lk = proc[q].lk /\ Woken(q, chan)[q].parent = proc[q].parent
           /\ Woken(q, chan)[q].chan = proc[q].chan /\ Woken(q, chan)[q].i = proc[q].i
           /\ \/ proc[q].state = "SLEEPING" /\ proc[q].chan = chan
                 /\ Woken(q, chan)[q].state = "RUNNABLE"
              \/ ~(proc[q].state = "SLEEPING" /\ proc[q].chan = chan)
                 /\ Woken(q, chan)[q] = proc[q]
  <1> DEFINE r == proc[q]
             s == [r EXCEPT !.state = "RUNNABLE"]
  <1>1. proc \in [Slot -> ProcRecord] /\ r \in ProcRecord /\ LocalsOK(q, r)
    BY DEF SchedInv, TypeOK
  <1>2. CASE r.state = "SLEEPING" /\ r.chan = chan
    <2>1. /\ s.state = "RUNNABLE" /\ s.pc = r.pc /\ s.back = r.back /\ s.arg = r.arg
          /\ s.next = r.next /\ s.lk = r.lk /\ s.parent = r.parent /\ s.chan = r.chan /\ s.i = r.i
      BY <1>1 DEF ProcRecord
    <2>2. s \in ProcRecord
      BY <1>1, Values DEF ProcRecord
    <2>3. Woken(q, chan) = [proc EXCEPT ![q] = s] /\ Woken(q, chan)[q] = s
      BY <1>1, <1>2 DEF Woken
    <2> HIDE DEF s
    <2>4. LocalsOK(q, s)
      BY <1>1, <1>2, <2>1 DEF LocalsOK, Label
    <2> QED
      BY <1>2, <2>1, <2>2, <2>3, <2>4
  <1>3. CASE ~(r.state = "SLEEPING" /\ r.chan = chan)
    <2>1. Woken(q, chan) = proc
      BY <1>3 DEF Woken
    <2> QED
      BY <1>1, <1>3, <2>1
  <1> QED
    BY <1>2, <1>3

LEMMA ClockVisitSched ==
    ASSUME SchedInv, clockwakeup, calls' = calls, Visit(cpu[Boot], clock) # {}
    PROVE  SchedInv'
  <1> DEFINE q == Least(Visit(cpu[Boot], clock))
             w == Woken(q, tickslock)[q]
  <1>1. /\ clock # Off /\ lock[q] = Off /\ proc' = Woken(q, tickslock) /\ clock' = q + 1
        /\ UNCHANGED <<cpu, lock, locked, ticked>>
    BY DEF clockwakeup
  <1>2. q \in Slot /\ q # cpu[Boot]
    BY LeastSlot DEF Visit
  <1> HIDE DEF q
  <1>3. /\ proc' = [proc EXCEPT ![q] = w] /\ w \in ProcRecord /\ LocalsOK(q, w)
        /\ w.pc = proc[q].pc /\ w.back = proc[q].back /\ w.arg = proc[q].arg
        /\ \/ proc[q].state = "SLEEPING" /\ w.state = "RUNNABLE"
           \/ w = proc[q]
    BY <1>1, <1>2, WokenFacts
  <1> HIDE DEF w
  <1>4. /\ proc \in [Slot -> ProcRecord] /\ cpu \in [CPU -> Slot \cup {Off}]
        /\ proc'[q] = w /\ \A x \in Slot \ {q} : proc'[x] = proc[x]
    BY <1>2, <1>3 DEF SchedInv, TypeOK
  <1>5. \A d \in CPU : cpu[d] # Off => cpu[d] \in Slot /\ proc'[cpu[d]] = proc[cpu[d]]
    BY <1>1, <1>2, <1>3, <1>4, OffCpu
  <1>6. TypeOK'
    <2>1. q + 1 \in 0 .. NPROC + 1
      BY <1>2, ProcSizes DEF Slot
    <2> QED
      BY <1>1, <1>3, <1>4, <2>1 DEF SchedInv, TypeOK
  <1>7. \A x \in Slot : LocalsOK(x, proc'[x])
    BY <1>3, <1>4 DEF SchedInv
  <1>8. ForksOK'
    <2>1. Label(w) = Label(proc[q])
      BY <1>3 DEF Label
    <2> QED
      BY <1>3, <1>4, <2>1, ForksKept
  <1>9. LocksExact'
    <2>1. clock' # Off
      BY <1>1, <1>2, ProcSizes DEF Slot, Off
    <2>2. ASSUME NEW d \in CPU, NEW l \in Lock
          PROVE  lock'[l] = d <=> \/ cpu'[d] # Off /\ HoldsAt(cpu'[d], proc'[cpu'[d]], l)
                                  \/ d = Boot /\ clock' # Off /\ l = tickslock
      BY <1>1, <1>5, <2>1 DEF SchedInv, LocksExact
    <2> QED
      BY <2>2 DEF LocksExact
  <1>10. ClockOK'
    BY <1>1, <1>5, Constants DEF SchedInv, ClockOK
  <1>11. CpusOK'
    <2>1. \A x \in Slot : proc'[x].state = "RUNNING" => proc[x].state = "RUNNING"
      BY <1>3, <1>4
    <2> QED
      BY <1>1, <1>5, <2>1 DEF SchedInv, CpusOK
  <1> QED
    BY <1>6, <1>7, <1>8, <1>9, <1>10, <1>11 DEF SchedInv

LEMMA ClockEndSched ==
    ASSUME SchedInv, clockwakeup, calls' = calls, Visit(cpu[Boot], clock) = {}
    PROVE  SchedInv'
  <1> DEFINE p == cpu[Boot]
             r == proc[p]
             s == [r EXCEPT !.pc = "yield", !.back = r.pc]
  <1>1. /\ clock # Off /\ clock' = Off /\ lock' = [lock EXCEPT ![tickslock] = Off]
        /\ UNCHANGED <<cpu, locked, ticked>>
    BY DEF clockwakeup, Drops
  <1>2. /\ proc \in [Slot -> ProcRecord] /\ cpu \in [CPU -> Slot \cup {Off}]
        /\ lock \in [Lock -> CPU \cup {Off}] /\ tickslock \in Lock /\ Boot \in CPU
    BY Constants DEF SchedInv, TypeOK, CondLock
  <1>3. lock'[tickslock] = Off /\ \A l \in Lock \ {tickslock} : lock'[l] = lock[l]
    BY <1>1, <1>2
  <1>4. lock[tickslock] = Boot
    BY <1>1, <1>2 DEF SchedInv, LocksExact
  <1>5. p # Off =>
          /\ p \in Slot /\ r.pc \in NoLocks /\ r.state = "RUNNING"
          /\ r \in ProcRecord /\ LocalsOK(p, r) /\ \A l \in Lock : ~HoldsAt(p, r, l)
    <2> SUFFICES ASSUME p # Off
                 PROVE  /\ p \in Slot /\ r.pc \in NoLocks /\ r.state = "RUNNING"
                        /\ r \in ProcRecord /\ LocalsOK(p, r) /\ \A l \in Lock : ~HoldsAt(p, r, l)
      OBVIOUS
    <2>1. p \in Slot /\ r.pc \in NoLocks
      BY <1>1, <1>2 DEF SchedInv, ClockOK
    <2>2. r \in ProcRecord /\ LocalsOK(p, r) /\ (r.pc # "sched" => r.state = "RUNNING")
      BY <1>2, <2>1, Running
    <2> QED
      BY <2>1, <2>2 DEF NoLocks, HoldsAt
  <1>6. p # Off => /\ s.pc = "yield" /\ s.back = r.pc /\ s.state = r.state /\ s.chan = r.chan
                   /\ s.parent = r.parent /\ s.arg = r.arg /\ s.next = r.next /\ s.lk = r.lk
    BY <1>5 DEF ProcRecord
  <1>7. p # Off => s \in ProcRecord
    BY <1>5, Values DEF ProcRecord
  <1>8. /\ p = Off => proc' = proc
        /\ p # Off => proc' = [proc EXCEPT ![p] = s]
    BY <1>2, <1>5 DEF clockwakeup
  <1> HIDE DEF s
  <1>9. p # Off => LocalsOK(p, s) /\ Label(s) = Label(r) /\ \A l \in Lock : ~HoldsAt(p, s, l)
    BY <1>5, <1>6 DEF LocalsOK, Label, NoLocks, HoldsAt
  <1>10. /\ \A x \in Slot \ {p} : proc'[x] = proc[x]
         /\ p # Off => proc'[p] = s
    BY <1>2, <1>5, <1>8
  <1> HIDE DEF p, r
  <1>11. TypeOK'
    <2>1. Off \in 0 .. NPROC + 1
      BY ProcSizes DEF Off
    <2>2. proc' \in [Slot -> ProcRecord] /\ lock' \in [Lock -> CPU \cup {Off}]
      BY <1>1, <1>2, <1>7, <1>8
    <2> QED
      BY <1>1, <2>1, <2>2 DEF SchedInv, TypeOK
  <1>12. \A x \in Slot : LocalsOK(x, proc'[x])
    BY <1>5, <1>9, <1>10, Constants DEF SchedInv
  <1>13. ForksOK'
    <2>1. \A x \in Slot : /\ Label(proc'[x]) = Label(proc[x]) /\ proc'[x].arg = proc[x].arg
                          /\ proc'[x].state = proc[x].state
      BY <1>5, <1>6, <1>9, <1>10, Constants DEF r
    <2> QED
      BY <2>1, ForksKept
  <1>14. LocksExact'
    <2>1. ASSUME NEW d \in CPU, NEW l \in Lock
          PROVE  lock'[l] = d <=> cpu[d] # Off /\ HoldsAt(cpu[d], proc'[cpu[d]], l)
      <3>1. CASE d = Boot
        <4>1. lock[l] = Boot => l = tickslock
          BY <1>2, <1>5 DEF SchedInv, LocksExact, p, r
        <4>2. lock'[l] # Boot
          BY <1>2, <1>3, <4>1, Constants
        <4> QED
          BY <1>9, <1>10, <3>1, <4>2 DEF p
      <3>2. CASE d # Boot
        <4>1. lock'[l] = d <=> lock[l] = d
          BY <1>3, <1>4, <3>2, Constants
        <4>2. cpu[d] # Off => proc'[cpu[d]] = proc[cpu[d]]
          BY <1>2, <1>10, <3>2 DEF SchedInv, CpusOK, p
        <4> QED
          BY <3>2, <4>1, <4>2 DEF SchedInv, LocksExact
      <3> QED
        BY <3>1, <3>2
    <2> QED
      BY <1>1, <2>1 DEF LocksExact
  <1>15. ClockOK'
    BY <1>1 DEF ClockOK
  <1>16. CpusOK'
    <2>1. \A x \in Slot : /\ proc'[x].state = proc[x].state
                          /\ proc[x].state # "RUNNING" => proc'[x].pc = proc[x].pc
      BY <1>5, <1>6, <1>10, Constants DEF r
    <2> QED
      BY <1>1, <1>2, <2>1 DEF SchedInv, CpusOK
  <1> QED
    BY <1>11, <1>12, <1>13, <1>14, <1>15, <1>16 DEF SchedInv

-----------------------------------------------------------------------------
(* The steps that change the record of another process.                    *)

LEMMA WakeupVisitSched ==
    ASSUME SchedInv, NEW p \in Slot, NEW c \in CPU, wakeup(p, c), calls' = calls,
           Visit(p, proc[p].i) # {}
    PROVE  SchedInv'
  <1> DEFINE r == proc[p]
             q == Least(Visit(p, r.i))
             w == Woken(q, r.arg)[q]
             s == [r EXCEPT !.i = q + 1]
  <1>1. cpu[c] = p /\ ~(c = Boot /\ clock # Off) /\ r.pc = "wakeup"
    BY DEF wakeup, At
  <1>2. r \in ProcRecord /\ LocalsOK(p, r) /\ r.state = "RUNNING"
    BY <1>1, Running
  <1>3. q \in Slot \ {p} /\ lock[q] = Off
    <2>1. q \in Slot \ {p}
      BY LeastSlot DEF Visit
    <2>2. Acquires(p) = q
      BY <1>1, AcquiresAt
    <2> QED
      BY <2>1, <2>2, Constants DEF wakeup, At, Free
  <1>4. proc' = [Woken(q, r.arg) EXCEPT ![p].i = q + 1]
    BY DEF wakeup
  <1> HIDE DEF q
  <1>5. /\ Woken(q, r.arg) = [proc EXCEPT ![q] = w] /\ w \in ProcRecord /\ LocalsOK(q, w)
        /\ w.pc = proc[q].pc /\ w.back = proc[q].back /\ w.arg = proc[q].arg
        /\ w.next = proc[q].next /\ w.lk = proc[q].lk
        /\ \/ proc[q].state = "SLEEPING" /\ w.state = "RUNNABLE"
           \/ w = proc[q]
    BY <1>3, WokenFacts
  <1> HIDE DEF w
  <1>6. /\ s.pc = "wakeup" /\ s.state = r.state /\ s.chan = r.chan /\ s.parent = r.parent
        /\ s.arg = r.arg /\ s.next = r.next /\ s.lk = r.lk /\ s.back = r.back
    BY <1>1, <1>2 DEF ProcRecord
  <1>7. s \in ProcRecord
    <2>1. q + 1 \in 1 .. NPROC + 1
      BY <1>3, ProcSizes DEF Slot
    <2> QED
      BY <1>2, <2>1 DEF ProcRecord
  <1>8. proc' = [proc EXCEPT ![p] = s, ![q] = w]
    <2>1. proc \in [Slot -> ProcRecord]
      BY DEF SchedInv, TypeOK
    <2> QED
      BY <1>3, <1>4, <1>5, <2>1
  <1> HIDE DEF s
  <1>9. LocalsOK(p, s) /\ Label(s) \notin {"parent", "runnable"}
    BY <1>1, <1>2, <1>6 DEF LocalsOK, Label
  <1>10. TwoSlotStep(p, c, s, q, w)
    BY <1>1, <1>2, <1>3, <1>5, <1>6, <1>7, <1>8, <1>9
    DEF wakeup, TwoSlotStep, MayBecome, SchedInv, TypeOK
  <1>11. ForksOK'
    <2>1. Label(w) = Label(proc[q]) /\ (proc[q].state = "USED" => w.state = "USED")
      BY <1>5 DEF Label
    <2> QED
      BY <1>3, <1>5, <1>9, <1>10, <2>1, TwoSlotForks
  <1>12. lock' = lock /\ \A l \in Lock : HoldsAt(p, s, l) <=> HoldsAt(p, r, l)
    BY <1>1, <1>6 DEF wakeup, HoldsAt
  <1> QED
    BY <1>3, <1>10, <1>11, <1>12, TwoSlotStepNoLock

LEMMA kforkSched ==
    ASSUME SchedInv, NEW p \in Slot, NEW c \in CPU, kfork(p, c), calls' = calls,
           {q \in Slot : proc[q].state = "UNUSED"} # {}
    PROVE  SchedInv'
  <1> DEFINE r == proc[p]
             v == Least({q \in Slot : proc[q].state = "UNUSED"})
             w == [Unused EXCEPT !.state = "USED", !.pc = "sched", !.back = "user"]
             s == [r EXCEPT !.pc = "parent", !.arg = v]
  <1>1. cpu[c] = p /\ ~(c = Boot /\ clock # Off) /\ r.pc = "fork"
    BY DEF kfork, At
  <1>2. r \in ProcRecord /\ LocalsOK(p, r) /\ r.state = "RUNNING"
    BY <1>1, Running
  <1>3. v \in Slot \ {p} /\ proc[v].state = "UNUSED"
    BY <1>2, LeastSlot
  <1>4. /\ lock[v] = Off
        /\ proc' = [proc EXCEPT ![v] = w, ![p].pc = "parent", ![p].arg = v]
        /\ UNCHANGED <<cpu, lock, clock, locked, ticked>>
    BY DEF kfork
  <1> HIDE DEF v
  <1>5. /\ w.state = "USED" /\ w.pc = "sched" /\ w.back = "user" /\ w.chan = Off
        /\ w.parent = Off /\ w.arg = Off /\ w.next = "" /\ w.lk = Off
        /\ w.killed = FALSE /\ w.i = 1 /\ w.kids = FALSE
    BY DEF Unused
  <1>6. w \in ProcRecord
    BY Values DEF ProcRecord, Unused
  <1>7. /\ s.pc = "parent" /\ s.state = r.state /\ s.chan = r.chan /\ s.parent = r.parent
        /\ s.arg = v /\ s.next = r.next /\ s.lk = r.lk /\ s.back = r.back
    BY <1>2 DEF ProcRecord
  <1>8. s \in ProcRecord
    BY <1>2, <1>3, Values DEF ProcRecord
  <1> HIDE DEF w
  <1>9. proc' = [proc EXCEPT ![p] = s, ![v] = w]
    <2>1. proc \in [Slot -> ProcRecord]
      BY DEF SchedInv, TypeOK
    <2> QED
      BY <1>3, <1>4, <2>1
  <1> HIDE DEF s
  <1>10. LocalsOK(p, s) /\ LocalsOK(v, w) /\ Label(w) = "user"
    BY <1>1, <1>2, <1>3, <1>5, <1>7 DEF LocalsOK, Label
  <1>11. TwoSlotStep(p, c, s, v, w)
    BY ZenonT(60), <1>1, <1>2, <1>3, <1>4, <1>5, <1>6, <1>7, <1>8, <1>9, <1>10
    DEF TwoSlotStep, MayBecome, SchedInv, TypeOK
  <1>12. ForksOK'
    <2>1. /\ proc'[p] = s /\ proc'[v] = w
          /\ \A q \in Slot \ {p, v} : proc'[q] = proc[q]
      BY <1>3, <1>9 DEF SchedInv, TypeOK
    <2>2. \A q \in Slot : Label(proc'[q]) \in {"parent", "runnable"} =>
             q = p \/ (proc'[q] = proc[q] /\ Label(proc[q]) \in {"parent", "runnable"})
      BY <1>10, <2>1
    <2>3. \A q \in Slot : Label(proc[q]) \in {"parent", "runnable"} =>
             proc[q].arg \in Slot /\ proc[proc[q].arg].state = "USED"
      BY DEF SchedInv, LocalsOK, ForksOK
    <2>4. \A q \in Slot : Label(proc[q]) \in {"parent", "runnable"} =>
             proc[q].arg # v /\ proc'[proc[q].arg].state = "USED"
      BY <1>2, <1>3, <2>1, <2>3
    <2>5. s.arg = v /\ w.state = "USED"
      BY <1>5, <1>7
    <2> QED
      BY <2>1, <2>2, <2>4, <2>5 DEF SchedInv, ForksOK
  <1>13. lock' = lock /\ \A l \in Lock : HoldsAt(p, s, l) <=> HoldsAt(p, r, l)
    BY <1>1, <1>4, <1>7 DEF HoldsAt
  <1> QED
    BY <1>3, <1>11, <1>12, <1>13, TwoSlotStepNoLock

LEMMA setparentSched ==
    ASSUME SchedInv, NEW p \in Slot, NEW c \in CPU, setparent(p, c), calls' = calls
    PROVE  SchedInv'
  <1> DEFINE r == proc[p]
             v == r.arg
             w == [proc[v] EXCEPT !.parent = p]
             s == [r EXCEPT !.pc = "runnable"]
  <1>1. cpu[c] = p /\ ~(c = Boot /\ clock # Off) /\ r.pc = "parent"
    BY DEF setparent, At
  <1>2. r \in ProcRecord /\ LocalsOK(p, r) /\ r.state = "RUNNING"
    BY <1>1, Running
  <1>3. v \in Slot \ {p} /\ proc[v].state = "USED"
    BY <1>1, <1>2 DEF LocalsOK, Label, SchedInv, ForksOK
  <1>4. proc[v] \in ProcRecord /\ LocalsOK(v, proc[v])
    BY <1>3 DEF SchedInv, TypeOK
  <1>5. /\ proc' = [proc EXCEPT ![v].parent = p, ![p].pc = "runnable"]
        /\ UNCHANGED <<cpu, lock, clock, locked, ticked>>
    BY DEF setparent
  <1> HIDE DEF v
  <1>6. /\ w.parent = p /\ w.state = proc[v].state /\ w.pc = proc[v].pc
        /\ w.back = proc[v].back /\ w.chan = proc[v].chan /\ w.arg = proc[v].arg
        /\ w.next = proc[v].next /\ w.lk = proc[v].lk
    BY <1>4 DEF ProcRecord
  <1>7. w \in ProcRecord
    BY <1>4 DEF ProcRecord
  <1>8. /\ s.pc = "runnable" /\ s.state = r.state /\ s.chan = r.chan /\ s.parent = r.parent
        /\ s.arg = r.arg /\ s.next = r.next /\ s.lk = r.lk /\ s.back = r.back
    BY <1>2 DEF ProcRecord
  <1>9. s \in ProcRecord
    BY <1>2, Values DEF ProcRecord
  <1>10. proc' = [proc EXCEPT ![p] = s, ![v] = w]
    <2>1. proc \in [Slot -> ProcRecord]
      BY DEF SchedInv, TypeOK
    <2> QED
      BY <1>3, <1>5, <2>1
  <1> HIDE DEF s, w
  <1>11. LocalsOK(p, s)
    BY <1>1, <1>2, <1>8 DEF LocalsOK, Label
  <1>12. LocalsOK(v, w) /\ Label(w) = Label(proc[v])
    BY <1>3, <1>4, <1>6 DEF LocalsOK, Label
  <1>13. TwoSlotStep(p, c, s, v, w)
    BY <1>1, <1>2, <1>3, <1>5, <1>6, <1>7, <1>8, <1>9, <1>10, <1>11, <1>12
    DEF TwoSlotStep, MayBecome, SchedInv, TypeOK
  <1>14. ForksOK'
    <2>1. Label(r) = "parent"
      BY <1>1 DEF Label
    <2> QED
      BY <1>3, <1>6, <1>8, <1>12, <1>13, <2>1, TwoSlotForks
  <1>15. lock' = lock /\ \A l \in Lock : HoldsAt(p, s, l) <=> HoldsAt(p, r, l)
    BY <1>1, <1>5, <1>8 DEF HoldsAt
  <1> QED
    BY <1>3, <1>13, <1>14, <1>15, TwoSlotStepNoLock

(* The record of a process whose system call returns.                      *)
Returned(r) == [r EXCEPT !.pc = "user", !.i = 1, !.kids = FALSE, !.arg = Off, !.next = "", !.lk = Off]

LEMMA ReturnedFacts ==
    ASSUME NEW p \in Slot, NEW r \in ProcRecord, LocalsOK(p, r), r.state = "RUNNING"
    PROVE  /\ Returned(r) \in ProcRecord
           /\ Returned(r).pc = "user" /\ Returned(r).arg = Off /\ Returned(r).next = ""
           /\ Returned(r).lk = Off /\ Returned(r).i = 1 /\ Returned(r).kids = FALSE
           /\ Returned(r).state = "RUNNING" /\ Returned(r).parent = r.parent
           /\ Returned(r).back = r.back /\ Returned(r).chan = r.chan
           /\ r.pc # "yield" /\ r.pc # "sched" => LocalsOK(p, Returned(r))
           /\ Label(Returned(r)) = "user" /\ \A l \in Lock : ~HoldsAt(p, Returned(r), l)
  <1> DEFINE s == Returned(r)
  <1>1. s \in ProcRecord
    BY Values DEF ProcRecord, Returned
  <1>2. /\ s.pc = "user" /\ s.arg = Off /\ s.next = "" /\ s.lk = Off /\ s.i = 1 /\ s.kids = FALSE
        /\ s.state = "RUNNING" /\ s.parent = r.parent /\ s.back = r.back /\ s.chan = r.chan
    BY DEF ProcRecord, Returned
  <1> HIDE DEF s
  <1>3. r.pc # "yield" /\ r.pc # "sched" => LocalsOK(p, s)
    BY <1>2 DEF LocalsOK, Label
  <1>4. Label(s) = "user" /\ \A l \in Lock : ~HoldsAt(p, s, l)
    BY <1>2 DEF Label, HoldsAt
  <1> QED
    BY <1>1, <1>2, <1>3, <1>4 DEF s

LEMMA setrunnableSched ==
    ASSUME SchedInv, NEW p \in Slot, NEW c \in CPU, setrunnable(p, c), calls' = calls
    PROVE  SchedInv'
  <1> DEFINE r == proc[p]
             v == r.arg
             w == [proc[v] EXCEPT !.state = "RUNNABLE"]
             s == Returned(r)
  <1>1. cpu[c] = p /\ ~(c = Boot /\ clock # Off) /\ r.pc = "runnable"
    BY DEF setrunnable, At
  <1>2. r \in ProcRecord /\ LocalsOK(p, r) /\ r.state = "RUNNING"
    BY <1>1, Running
  <1>3. v \in Slot \ {p} /\ proc[v].state = "USED" /\ lock[v] = Off
    <2>1. v \in Slot \ {p} /\ proc[v].state = "USED"
      BY <1>1, <1>2 DEF LocalsOK, Label, SchedInv, ForksOK
    <2>2. Acquires(p) = v
      BY <1>1, AcquiresAt
    <2> QED
      BY <2>1, <2>2, Constants DEF setrunnable, At, Free
  <1>4. proc[v] \in ProcRecord /\ LocalsOK(v, proc[v])
    BY <1>3 DEF SchedInv, TypeOK
  <1>5. /\ proc' = [Return(p) EXCEPT ![v].state = "RUNNABLE"]
        /\ UNCHANGED <<cpu, lock, clock, locked, ticked>>
    BY DEF setrunnable
  <1>6. v = r.arg
    OBVIOUS
  <1> HIDE DEF v
  <1>7. /\ w.state = "RUNNABLE" /\ w.pc = proc[v].pc /\ w.parent = proc[v].parent
        /\ w.back = proc[v].back /\ w.chan = proc[v].chan /\ w.arg = proc[v].arg
        /\ w.next = proc[v].next /\ w.lk = proc[v].lk
    BY <1>4 DEF ProcRecord
  <1>8. w \in ProcRecord
    BY <1>4, Values DEF ProcRecord
  <1>9. proc' = [proc EXCEPT ![p] = s, ![v] = w]
    <2>1. proc \in [Slot -> ProcRecord]
      BY DEF SchedInv, TypeOK
    <2>2. Return(p) = [proc EXCEPT ![p] = s]
      BY DEF Return, Returned
    <2> QED
      BY <1>3, <1>5, <2>1, <2>2
  <1>10. /\ s \in ProcRecord /\ LocalsOK(p, s) /\ s.state = "RUNNING" /\ Label(s) = "user"
         /\ \A l \in Lock : ~HoldsAt(p, s, l)
    BY <1>1, <1>2, ReturnedFacts
  <1> HIDE DEF s, w
  <1>11. LocalsOK(v, w) /\ Label(w) = Label(proc[v])
    BY <1>3, <1>4, <1>7 DEF LocalsOK, Label
  <1>12. TwoSlotStep(p, c, s, v, w)
    BY <1>1, <1>2, <1>3, <1>5, <1>7, <1>8, <1>9, <1>10, <1>11
    DEF TwoSlotStep, MayBecome, SchedInv, TypeOK
  <1>13. ForksOK'
    <2>1. /\ proc'[p] = s /\ proc'[v] = w
          /\ \A q \in Slot \ {p, v} : proc'[q] = proc[q]
      BY <1>3, <1>9 DEF SchedInv, TypeOK
    <2>2. Label(proc[p]) \in {"parent", "runnable"}
      BY <1>1 DEF Label
    <2>3. \A q \in Slot : Label(proc'[q]) \in {"parent", "runnable"} =>
             /\ q # p /\ Label(proc[q]) \in {"parent", "runnable"}
             /\ proc'[q].arg = proc[q].arg
      BY <1>7, <1>10, <1>11, <2>1
    <2>4. \A q \in Slot : Label(proc[q]) \in {"parent", "runnable"} =>
             proc[q].arg \in Slot /\ proc[proc[q].arg].state = "USED"
      BY DEF SchedInv, LocalsOK, ForksOK
    <2>5. \A q \in Slot : Label(proc[q]) \in {"parent", "runnable"} /\ q # p => proc[q].arg # v
      BY <1>6, <2>2 DEF SchedInv, ForksOK
    <2>6. \A q \in Slot : Label(proc[q]) \in {"parent", "runnable"} /\ q # p =>
             proc'[proc[q].arg].state = "USED"
      BY <1>2, <2>1, <2>4, <2>5
    <2> QED
      BY <2>3, <2>6 DEF SchedInv, ForksOK
  <1>14. lock' = lock /\ \A l \in Lock : HoldsAt(p, s, l) <=> HoldsAt(p, r, l)
    BY <1>1, <1>5, <1>10 DEF HoldsAt
  <1> QED
    BY <1>3, <1>12, <1>13, <1>14, TwoSlotStepNoLock

(* A process that is not in sched runs, and one at a time holds a lock.    *)
LEMMA HolderRuns ==
    ASSUME SchedInv, NEW q \in Slot, proc[q].state # "UNUSED", NEW l \in Lock,
           proc[q].pc # "sched", HoldsAt(q, proc[q], l)
    PROVE  \E d \in CPU : cpu[d] = q /\ lock[l] = d
  <1>1. proc[q].state = "RUNNING"
    BY DEF SchedInv, LocalsOK
  <1>2. PICK d \in CPU : cpu[d] = q
    BY <1>1 DEF SchedInv, CpusOK
  <1> QED
    BY <1>2, Constants DEF SchedInv, LocksExact

LEMMA KillNobodySched ==
    ASSUME SchedInv, NEW p \in Slot, NEW c \in CPU, kkill(p, c), calls' = calls,
           proc[proc[p].arg].state = "UNUSED"
    PROVE  SchedInv'
  <1> DEFINE r == proc[p]
             s == Returned(r)
  <1>1. cpu[c] = p /\ ~(c = Boot /\ clock # Off) /\ r.pc = "kill"
    BY DEF kkill, At
  <1>2. r \in ProcRecord /\ LocalsOK(p, r) /\ r.state = "RUNNING"
    BY <1>1, Running
  <1>3. proc' = [proc EXCEPT ![p] = s] /\ UNCHANGED <<cpu, lock, clock, locked, ticked>>
    BY DEF kkill, Return, Returned
  <1>4. /\ s \in ProcRecord /\ LocalsOK(p, s) /\ s.state = "RUNNING" /\ Label(s) = "user"
        /\ \A l \in Lock : ~HoldsAt(p, s, l)
    BY <1>1, <1>2, ReturnedFacts
  <1> HIDE DEF s
  <1>5. OwnStep(p, c, s)
    BY <1>1, <1>3, <1>4 DEF OwnStep, MayBecome, SchedInv, TypeOK
  <1>6. \A l \in Lock : HoldsAt(p, s, l) <=> HoldsAt(p, r, l)
    BY <1>1, <1>4 DEF HoldsAt
  <1> QED
    BY <1>3, <1>5, <1>6, OwnStepNoLock

LEMMA KillSelfSched ==
    ASSUME SchedInv, NEW p \in Slot, NEW c \in CPU, kkill(p, c), calls' = calls,
           proc[p].arg = p
    PROVE  SchedInv'
  <1> DEFINE r == proc[p]
             t == Returned(r)
             s == [t EXCEPT !.killed = TRUE]
  <1>1. cpu[c] = p /\ ~(c = Boot /\ clock # Off) /\ r.pc = "kill"
    BY DEF kkill, At
  <1>2. r \in ProcRecord /\ LocalsOK(p, r) /\ r.state = "RUNNING"
    BY <1>1, Running
  <1>3. /\ t \in ProcRecord /\ LocalsOK(p, t) /\ t.state = "RUNNING" /\ t.pc = "user"
        /\ t.back = r.back
    BY <1>1, <1>2, ReturnedFacts
  <1>4. /\ proc' = [proc EXCEPT ![p] = [t EXCEPT !.killed = TRUE, !.state = t.state]]
        /\ UNCHANGED <<cpu, lock, clock, locked, ticked>>
    <2>1. proc \in [Slot -> ProcRecord]
      BY DEF SchedInv, TypeOK
    <2>2. Return(p) = [proc EXCEPT ![p] = t]
      BY DEF Return, Returned
    <2> QED
      BY <1>2, <1>3, <2>1, <2>2 DEF kkill
  <1> HIDE DEF t
  <1>5. /\ s.pc = t.pc /\ s.state = t.state /\ s.chan = t.chan /\ s.parent = t.parent
        /\ s.arg = t.arg /\ s.next = t.next /\ s.lk = t.lk /\ s.back = t.back
    BY <1>3 DEF ProcRecord
  <1>6. s \in ProcRecord
    BY <1>3 DEF ProcRecord
  <1>7. proc' = [proc EXCEPT ![p] = s]
    <2>1. [t EXCEPT !.killed = TRUE, !.state = t.state] = s
      BY <1>3 DEF ProcRecord
    <2> QED
      BY <1>4, <2>1
  <1> HIDE DEF s
  <1>8. LocalsOK(p, s) /\ Label(s) \notin {"parent", "runnable"}
    BY <1>3, <1>5 DEF LocalsOK, Label
  <1>9. OwnStep(p, c, s)
    BY <1>1, <1>3, <1>4, <1>5, <1>6, <1>7, <1>8 DEF OwnStep, MayBecome, SchedInv, TypeOK
  <1>10. \A l \in Lock : HoldsAt(p, s, l) <=> HoldsAt(p, r, l)
    BY <1>1, <1>3, <1>5 DEF HoldsAt
  <1> QED
    BY <1>4, <1>9, <1>10, OwnStepNoLock

LEMMA KillOtherSched ==
    ASSUME SchedInv, NEW p \in Slot, NEW c \in CPU, kkill(p, c), calls' = calls,
           proc[p].arg # p, proc[proc[p].arg].state # "UNUSED"
    PROVE  SchedInv'
  <1> DEFINE r == proc[p]
             v == r.arg
             w == [proc[v] EXCEPT !.killed = TRUE,
                     !.state = IF proc[v].state = "SLEEPING" THEN "RUNNABLE" ELSE proc[v].state]
             s == Returned(r)
  <1>1. cpu[c] = p /\ ~(c = Boot /\ clock # Off) /\ r.pc = "kill"
    BY DEF kkill, At
  <1>2. r \in ProcRecord /\ LocalsOK(p, r) /\ r.state = "RUNNING"
    BY <1>1, Running
  <1>3. v \in Slot \ {p} /\ lock[v] = Off
    <2>1. v \in Slot \ {p}
      BY <1>1, <1>2 DEF LocalsOK, Label
    <2>2. Acquires(p) = v
      BY <1>1, AcquiresAt
    <2> QED
      BY <2>1, <2>2, Constants DEF kkill, At, Free
  <1>4. proc[v] \in ProcRecord /\ LocalsOK(v, proc[v])
    BY <1>3 DEF SchedInv, TypeOK
  <1>5. /\ proc' = [Return(p) EXCEPT ![v].killed = TRUE,
                                     ![v].state = IF @ = "SLEEPING" THEN "RUNNABLE" ELSE @]
        /\ UNCHANGED <<cpu, lock, clock, locked, ticked>>
    BY DEF kkill
  <1> HIDE DEF v
  <1>6. /\ w.pc = proc[v].pc /\ w.parent = proc[v].parent
        /\ w.back = proc[v].back /\ w.chan = proc[v].chan /\ w.arg = proc[v].arg
        /\ w.next = proc[v].next /\ w.lk = proc[v].lk
        /\ w.state = IF proc[v].state = "SLEEPING" THEN "RUNNABLE" ELSE proc[v].state
    BY <1>4 DEF ProcRecord
  <1>7. w \in ProcRecord
    BY ZenonT(60), <1>4, Values DEF ProcRecord
  <1>8. proc' = [proc EXCEPT ![p] = s, ![v] = w]
    <2>1. proc \in [Slot -> ProcRecord]
      BY DEF SchedInv, TypeOK
    <2>2. Return(p) = [proc EXCEPT ![p] = s]
      BY DEF Return, Returned
    <2>3. Return(p)[v] = proc[v] /\ Return(p) \in [Slot -> ProcRecord]
      BY ZenonT(60), <1>1, <1>2, <1>3, <2>1, <2>2, ReturnedFacts
    <2> QED
      BY <1>3, <1>4, <1>5, <2>1, <2>2, <2>3
  <1>9. /\ s \in ProcRecord /\ LocalsOK(p, s) /\ s.state = "RUNNING" /\ Label(s) = "user"
        /\ \A l \in Lock : ~HoldsAt(p, s, l)
    BY <1>1, <1>2, ReturnedFacts
  <1> HIDE DEF s, w
  <1>10. LocalsOK(v, w) /\ Label(w) = Label(proc[v])
    BY <1>3, <1>4, <1>6 DEF LocalsOK, Label
  <1>11. TwoSlotStep(p, c, s, v, w)
    BY <1>1, <1>2, <1>3, <1>5, <1>6, <1>7, <1>8, <1>9, <1>10
    DEF TwoSlotStep, MayBecome, SchedInv, TypeOK
  <1>12. ForksOK'
    BY <1>3, <1>6, <1>9, <1>10, <1>11, TwoSlotForks
  <1>13. lock' = lock /\ \A l \in Lock : HoldsAt(p, s, l) <=> HoldsAt(p, r, l)
    BY <1>1, <1>5, <1>9 DEF HoldsAt
  <1> QED
    BY <1>3, <1>11, <1>12, <1>13, TwoSlotStepNoLock

LEMMA ReparentChildSched ==
    ASSUME SchedInv, NEW p \in Slot, NEW c \in CPU, reparent(p, c), calls' = calls,
           Children(p) # {}
    PROVE  SchedInv'
  <1> DEFINE r == proc[p]
             k == Least(Children(p))
             t == [r EXCEPT !.pc = "wakeup", !.i = 1, !.arg = initproc, !.next = "reparent"]
  <1>1. cpu[c] = p /\ ~(c = Boot /\ clock # Off) /\ r.pc = "reparent"
    BY DEF reparent, At
  <1>2. r \in ProcRecord /\ LocalsOK(p, r) /\ r.state = "RUNNING"
    BY <1>1, Running
  <1>3. k \in Slot
    BY LeastSlot DEF Children
  <1>4. /\ proc' = [CallWakeup(p, initproc, "reparent") EXCEPT ![k].parent = initproc]
        /\ UNCHANGED <<cpu, lock, clock, locked, ticked>>
    BY DEF reparent
  <1> HIDE DEF k
  <1>5. CallWakeup(p, initproc, "reparent") = [proc EXCEPT ![p] = t]
    BY <1>2 DEF CallWakeup, SchedInv, TypeOK
  <1>6. /\ t.pc = "wakeup" /\ t.arg = initproc /\ t.next = "reparent" /\ t.state = "RUNNING"
        /\ t.chan = r.chan /\ t.parent = r.parent /\ t.lk = r.lk /\ t.back = r.back
    BY <1>2 DEF ProcRecord
  <1>7. t \in ProcRecord
    BY <1>2, Values, Constants DEF ProcRecord
  <1> HIDE DEF t
  <1>8. CASE k = p
    <2> DEFINE s == [t EXCEPT !.parent = initproc]
    <2>1. proc' = [proc EXCEPT ![p] = s]
      BY <1>4, <1>5, <1>7, <1>8 DEF SchedInv, TypeOK
    <2>2. /\ s.pc = "wakeup" /\ s.arg = initproc /\ s.next = "reparent" /\ s.state = "RUNNING"
          /\ s.chan = r.chan /\ s.lk = r.lk /\ s.back = r.back
      BY <1>6, <1>7 DEF ProcRecord
    <2>3. s \in ProcRecord
      BY <1>7, Constants DEF ProcRecord
    <2> HIDE DEF s
    <2>4. LocalsOK(p, s) /\ Label(s) \notin {"parent", "runnable"}
      BY <1>1, <1>2, <2>2 DEF LocalsOK, Label
    <2>5. OwnStep(p, c, s)
      BY <1>1, <1>4, <2>1, <2>2, <2>3, <2>4 DEF OwnStep, MayBecome, SchedInv, TypeOK
    <2>6. \A l \in Lock : HoldsAt(p, s, l) <=> HoldsAt(p, r, l)
      BY <1>1, <2>2 DEF HoldsAt
    <2> QED
      BY <1>4, <2>5, <2>6, OwnStepNoLock
  <1>9. CASE k # p
    <2> DEFINE w == [proc[k] EXCEPT !.parent = initproc]
    <2>1. proc' = [proc EXCEPT ![p] = t, ![k] = w]
      BY <1>3, <1>4, <1>5, <1>9 DEF SchedInv, TypeOK
    <2>2. proc[k] \in ProcRecord /\ LocalsOK(k, proc[k])
      BY <1>3 DEF SchedInv, TypeOK
    <2>3. /\ w.pc = proc[k].pc /\ w.state = proc[k].state /\ w.back = proc[k].back
          /\ w.chan = proc[k].chan /\ w.arg = proc[k].arg /\ w.next = proc[k].next
          /\ w.lk = proc[k].lk
      BY <2>2 DEF ProcRecord
    <2>4. w \in ProcRecord
      BY <2>2, Constants DEF ProcRecord
    <2>5. ~(proc[k].pc = "wakeup" /\ proc[k].next = "zombie")
      <3> SUFFICES ASSUME proc[k].pc = "wakeup", proc[k].next = "zombie" PROVE FALSE
        OBVIOUS
      <3>1. wait_lock \in Lock /\ HoldsAt(p, r, wait_lock) /\ HoldsAt(k, proc[k], wait_lock)
        BY <1>1, Constants DEF HoldsAt, CondLock
      <3>2. lock[wait_lock] = c
        BY <1>1, <3>1, Running
      <3>3. proc[k].state # "UNUSED"
        BY <2>2 DEF LocalsOK
      <3> QED
        BY <1>1, <1>3, <1>9, <3>1, <3>2, <3>3, HolderRuns
    <2> HIDE DEF w
    <2>6. LocalsOK(p, t) /\ Label(t) \notin {"parent", "runnable"}
      BY <1>1, <1>2, <1>6 DEF LocalsOK, Label
    <2>7. LocalsOK(k, w) /\ Label(w) = Label(proc[k])
      BY <2>2, <2>3, <2>5 DEF LocalsOK, Label
    <2>8. TwoSlotStep(p, c, t, k, w)
      BY <1>1, <1>4, <1>6, <1>7, <2>1, <2>3, <2>4, <2>6, <2>7
      DEF TwoSlotStep, MayBecome, SchedInv, TypeOK
    <2>9. ForksOK'
      BY <1>3, <1>9, <2>3, <2>6, <2>7, <2>8, TwoSlotForks
    <2>10. \A l \in Lock : HoldsAt(p, t, l) <=> HoldsAt(p, r, l)
      BY <1>1, <1>6 DEF HoldsAt
    <2> QED
      BY <1>3, <1>4, <1>9, <2>8, <2>9, <2>10, TwoSlotStepNoLock
  <1> QED
    BY <1>8, <1>9

LEMMA UnusedFacts ==
    /\ Unused \in ProcRecord /\ Unused.state = "UNUSED" /\ Label(Unused) = "user"
    /\ \A q \in Slot : LocalsOK(q, Unused)
  <1>1. Unused \in ProcRecord
    BY Values DEF ProcRecord, Unused
  <1>2. /\ Unused.state = "UNUSED" /\ Unused.pc = "user" /\ Unused.back = ""
        /\ Unused.arg = Off /\ Unused.next = "" /\ Unused.lk = Off
    BY DEF Unused
  <1> QED
    BY <1>1, <1>2 DEF Label, LocalsOK

LEMMA ScanReapsSched ==
    ASSUME SchedInv, NEW p \in Slot, NEW c \in CPU, scan(p, c), calls' = calls,
           NextChild(p) # {}, proc[Least(NextChild(p))].state = "ZOMBIE"
    PROVE  SchedInv'
  <1> DEFINE r == proc[p]
             v == Least(NextChild(p))
             s == Returned(r)
  <1>1. cpu[c] = p /\ ~(c = Boot /\ clock # Off) /\ r.pc = "scan"
    BY DEF scan, At
  <1>2. r \in ProcRecord /\ LocalsOK(p, r) /\ r.state = "RUNNING"
    BY <1>1, Running
  <1>3. v \in Slot \ {p} /\ lock[v] = Off
    <2>1. v \in Slot \ {p}
      BY <1>2, LeastSlot DEF NextChild, Children
    <2>2. Acquires(p) = v
      BY <1>1, AcquiresAt
    <2> QED
      BY <2>1, <2>2, Constants DEF scan, At, Free
  <1>4. /\ proc' = [Return(p) EXCEPT ![v] = Unused] /\ Drops(wait_lock)
        /\ UNCHANGED <<cpu, clock, locked, ticked>>
    BY DEF scan
  <1> HIDE DEF v
  <1>5. proc' = [proc EXCEPT ![p] = s, ![v] = Unused]
    BY <1>3, <1>4 DEF Return, Returned, SchedInv, TypeOK
  <1>6. /\ s \in ProcRecord /\ LocalsOK(p, s) /\ s.state = "RUNNING" /\ Label(s) = "user"
        /\ \A l \in Lock : ~HoldsAt(p, s, l)
    BY <1>1, <1>2, ReturnedFacts
  <1> HIDE DEF s
  <1>7. TwoSlotStep(p, c, s, v, Unused)
    BY <1>1, <1>3, <1>4, <1>5, <1>6, UnusedFacts
    DEF TwoSlotStep, MayBecome, SchedInv, TypeOK, v
  <1>8. ForksOK'
    BY <1>3, <1>6, <1>7, UnusedFacts, TwoSlotForks DEF v
  <1>9. /\ lock' \in [Lock -> CPU \cup {Off}]
        /\ \A l \in Lock : lock'[l] = c <=> HoldsAt(p, s, l)
        /\ \A l \in Lock, d \in CPU \ {c} : lock'[l] = d <=> lock[l] = d
    <2>1. lock \in [Lock -> CPU \cup {Off}] /\ wait_lock \in Lock
      BY Constants DEF SchedInv, TypeOK, CondLock
    <2>2. \A l \in Lock : lock[l] = c <=> l = wait_lock
      BY <1>1, Running DEF HoldsAt
    <2> QED
      BY <1>4, <1>6, <2>1, <2>2, Constants DEF Drops
  <1> QED
    BY <1>3, <1>7, <1>8, <1>9, TwoSlotStepKeepsSched

-----------------------------------------------------------------------------
LEMMA StepSched ==
    ASSUME SchedInv, NEW p \in Slot, NEW c \in CPU, Step(p, c), calls' = calls
    PROVE  SchedInv'
  <1>1. CASE yield(p, c)
    BY <1>1, YieldKilledSched, YieldSchedSched
  <1>2. CASE wakeup(p, c)
    BY <1>2, WakeupVisitSched, WakeupEndSched
  <1>3. CASE usertrap(p, c)
    BY <1>3, UsertrapKilledSched, UsertrapCallsSched, UsertrapKillsSched DEF usertrap
  <1>4. CASE kfork(p, c)
    <2>1. CASE {q \in Slot : proc[q].state = "UNUSED"} = {}
      BY <1>4, <2>1, kforkFailsSched DEF kfork
    <2>2. CASE {q \in Slot : proc[q].state = "UNUSED"} # {}
      BY <1>4, <2>2, kforkSched
    <2> QED
      BY <2>1, <2>2
  <1>5. CASE kkill(p, c)
    BY <1>5, KillNobodySched, KillSelfSched, KillOtherSched
  <1>6. CASE reparent(p, c)
    BY <1>6, ReparentChildSched, ReparentEndSched
  <1>7. CASE scan(p, c)
    BY <1>7, ScanReapsSched, ScanPassesSched, ScanEndsSched, ScanSleepsSched
  <1>8. CASE ticks(p, c)
    BY <1>8, TicksDoneSched, TicksSleepSched
  <1>9. CASE whilelocked(p, c)
    BY <1>9, LockedSleepSched, LockedTakeSched
  <1> QED
    BY <1>1, <1>2, <1>3, <1>4, <1>5, <1>6, <1>7, <1>8, <1>9, ResumeSched, schedSched,
       InterruptSched, sleepSched, relockSched, setparentSched, setrunnableSched, kexitSched,
       zombieSched, kwaitSched, sys_pauseSched, acquiresleepSched, releasesleepSched,
       unlockSched DEF Step

LEMMA InitSched == Init => SchedInv
  <1> SUFFICES ASSUME Init PROVE SchedInv
    OBVIOUS
  <1> DEFINE r == [Unused EXCEPT !.state = "RUNNABLE", !.pc = "sched", !.back = "user"]
  <1>1. /\ r.state = "RUNNABLE" /\ r.pc = "sched" /\ r.back = "user" /\ r.arg = Off
        /\ r.next = "" /\ r.lk = Off
    BY DEF Unused
  <1>2. r \in ProcRecord
    BY Values DEF ProcRecord, Unused
  <1>3. \A q \in Slot : proc[q] = IF q = initproc THEN r ELSE Unused
    BY DEF Init
  <1>4. proc \in [Slot -> ProcRecord]
    BY <1>2, UnusedFacts DEF Init
  <1> HIDE DEF r
  <1>5. LocalsOK(initproc, r) /\ Label(r) = "user"
    BY <1>1 DEF LocalsOK, Label
  <1>6. \A q \in Slot : /\ LocalsOK(q, proc[q]) /\ Label(proc[q]) = "user"
                        /\ proc[q].state # "RUNNING"
    BY <1>1, <1>3, <1>5, UnusedFacts
  <1>7. TypeOK
    <2>1. Off \in 0 .. NPROC + 1
      BY ProcSizes DEF Off
    <2> QED
      BY <1>4, <2>1 DEF Init, TypeOK
  <1>8. ForksOK
    BY <1>6 DEF ForksOK
  <1>9. LocksExact /\ ClockOK /\ CpusOK
    BY <1>6, Constants DEF Init, LocksExact, ClockOK, CpusOK
  <1> QED
    BY <1>6, <1>7, <1>8, <1>9 DEF SchedInv

(***************************************************************************)
(* The inductive invariant of the process table holds in every state, for  *)
(* any number of CPUs and table slots: who holds which spinlock at which   *)
(* statement of proc.c, which interrupts are off, what the scheduler and   *)
(* sched hand to each other through p->lock, and what a half-made child of *)
(* kfork looks like to the others.                                         *)
(***************************************************************************)
THEOREM SchedInvariant == Spec => []SchedInv
  <1>1. Init => SchedInv
    BY InitSched
  <1>2. SchedInv /\ [Next]_vars => SchedInv'
    <2> SUFFICES ASSUME SchedInv, [Next]_vars PROVE SchedInv'
      OBVIOUS
    <2>1. CASE UNCHANGED vars
      BY <2>1 DEF vars, SchedInv, TypeOK, ForksOK, LocksExact, ClockOK, CpusOK
    <2>2. CASE Next
      <3>1. calls' = calls
        BY <2>2 DEF Next
      <3>2. CASE clockwakeup
        BY <3>1, <3>2, ClockVisitSched, ClockEndSched
      <3>3. ASSUME NEW c \in CPU, NEW p \in Slot, scheduler(c, p) \/ Step(p, c)
            PROVE  SchedInv'
        BY <3>1, <3>3, schedulerSched, StepSched
      <3> QED
        BY <2>2, <3>1, <3>2, <3>3, clockintrSched DEF Next
    <2> QED
      BY <2>1, <2>2
  <1> QED
    BY <1>1, <1>2, PTL DEF Spec

(***************************************************************************)
(* Every process runs on one CPU at most, and a CPU runs no process that   *)
(* kwait has freed, although sleep, yield and kexit make the process       *)
(* RUNNABLE, SLEEPING or ZOMBIE while the CPU is still on its kernel       *)
(* stack.                                                                  *)
(***************************************************************************)
THEOREM OneCpuPerProcess == Spec => []RunsOnce
  <1>1. SchedInv => RunsOnce
    <2> SUFFICES ASSUME SchedInv PROVE RunsOnce
      OBVIOUS
    <2>1. ASSUME NEW c \in CPU, cpu[c] # Off, proc[cpu[c]].state # "RUNNING"
          PROVE  proc[cpu[c]].pc = "sched" /\ lock[cpu[c]] = c /\ proc[cpu[c]].state # "UNUSED"
      <3>1. cpu[c] \in Slot
        BY <2>1 DEF SchedInv, TypeOK
      <3>2. proc[cpu[c]].pc = "sched" /\ proc[cpu[c]].state # "UNUSED"
        BY <2>1 DEF SchedInv, CpusOK
      <3> QED
        BY <2>1, <3>1, <3>2, Constants DEF SchedInv, LocksExact, HoldsAt
    <2>2. \A c, d \in CPU : c # d /\ cpu[c] = cpu[d] => cpu[c] = Off
      BY DEF SchedInv, CpusOK
    <2> QED
      BY <2>1, <2>2 DEF RunsOnce
  <1> QED
    BY <1>1, SchedInvariant, PTL

(***************************************************************************)
(* The checks of sched never panic: a CPU that calls it from sleep, yield  *)
(* or kexit holds the lock of its process and no other spinlock.           *)
(***************************************************************************)
THEOREM SchedNeverPanics == Spec => []SchedLocks
  <1>1. SchedInv => SchedLocks
    <2> SUFFICES ASSUME SchedInv, NEW c \in CPU, cpu[c] # Off, proc[cpu[c]].pc = "sched"
                 PROVE  Held(c) = {cpu[c]}
      BY DEF SchedLocks
    <2>1. cpu[c] \in Slot
      BY DEF SchedInv, TypeOK
    <2>2. ~(c = Boot /\ clock # Off)
      BY DEF SchedInv, ClockOK, NoLocks
    <2>3. \A l \in Lock : lock[l] = c <=> l = cpu[c]
      BY <2>1, <2>2, Running DEF HoldsAt
    <2> QED
      BY <2>1, <2>3, Constants DEF Held
  <1> QED
    BY <1>1, SchedInvariant, PTL

(* The locks have an order: who holds the lock of a slot wants no lock, and *)
(* who holds the lock of a condition wants at most the lock of a slot.      *)
LEMMA LockOrder ==
    ASSUME SchedInv, NEW c \in CPU
    PROVE  /\ Wanted(c) \in Lock \cup {Off}
           /\ \A l \in Slot : lock[l] = c => Wanted(c) = Off
           /\ \A l \in CondLock : lock[l] = c => Wanted(c) \in Slot \cup {Off}
  <1> DEFINE p == cpu[c]  r == proc[p]
  <1>1. CASE c = Boot /\ clock # Off
    <2>1. Wanted(c) \in Slot \cup {Off}
      <3>1. CASE Visit(cpu[c], clock) = {}
        BY <1>1, <3>1 DEF Wanted
      <3>2. CASE Visit(cpu[c], clock) # {}
        <4>1. Least(Visit(cpu[c], clock)) \in Slot
          BY <3>2, LeastSlot DEF Visit
        <4> QED
          BY <1>1, <3>2, <4>1 DEF Wanted
      <3> QED
        BY <3>1, <3>2
    <2>2. \A l \in Slot : lock[l] # c
      <3> SUFFICES ASSUME NEW l \in Slot, lock[l] = c PROVE FALSE
        OBVIOUS
      <3>1. p # Off /\ HoldsAt(p, r, l)
        BY <1>1, Constants DEF SchedInv, LocksExact
      <3>2. r.pc \in NoLocks
        BY <1>1, <3>1 DEF SchedInv, ClockOK
      <3> QED
        BY <3>1, <3>2 DEF HoldsAt, NoLocks
    <2> QED
      BY <2>1, <2>2, Constants
  <1>2. CASE ~(c = Boot /\ clock # Off) /\ p = Off
    <2>1. Wanted(c) = Off
      BY <1>2 DEF Wanted
    <2> QED
      BY <2>1
  <1>3. CASE ~(c = Boot /\ clock # Off) /\ p # Off
    <2>1. p \in Slot
      BY <1>3 DEF SchedInv, TypeOK
    <2>2. r \in ProcRecord /\ LocalsOK(p, r) /\ \A l \in Lock : lock[l] = c <=> HoldsAt(p, r, l)
      BY <1>3, <2>1, Running
    <2>3. Wanted(c) = Acquires(p)
      BY <1>3 DEF Wanted
    <2>4. r.pc = "wakeup" => Acquires(p) \in Slot \cup {Off}
      <3>1. Visit(p, r.i) # {} => Least(Visit(p, r.i)) \in Slot
        BY LeastSlot DEF Visit
      <3> QED
        BY <2>1, <3>1, AcquiresAt
    <2>5. r.pc = "scan" => Acquires(p) \in Slot \cup {Off}
      <3>1. NextChild(p) # {} => Least(NextChild(p)) \in Slot
        BY LeastSlot DEF NextChild, Children
      <3> QED
        BY <2>1, <3>1, AcquiresAt
    <2>6. r.pc \in {"runnable", "kill"} => r.arg \in Slot
      BY <2>2 DEF LocalsOK, Label
    <2>7. r.pc = "relock" => r.lk \in CondLock
      BY <2>2, Values DEF LocalsOK, Label
    <2>8. /\ r.pc \in {"zombie", "sleep", "ticks", "reparent", "locked", "unlock"} =>
                Acquires(p) \in Slot \cup {Off}
          /\ r.pc = "sched" => Acquires(p) = Off
      BY <2>1, AcquiresAt
    <2>9. Acquires(p) \in Lock \cup {Off}
      <3>1. r.pc \in Place
        BY <2>2 DEF ProcRecord
      <3>2. CASE r.pc \in {"user", "yield", "fork", "parent", "exit", "wait", "pause",
                           "acquiresleep", "releasesleep"}
        BY ZenonT(60), <2>1, <3>2, AcquiresAt, Constants, Values
      <3>3. CASE r.pc \in {"runnable", "kill", "relock"}
        BY <2>1, <2>6, <2>7, <3>3, AcquiresAt, Constants
      <3>4. CASE r.pc \in {"wakeup", "scan", "zombie", "sleep", "ticks", "reparent", "locked",
                           "unlock", "sched"}
        BY <2>4, <2>5, <2>8, <3>4, Constants
      <3> QED
        BY <3>1, <3>2, <3>3, <3>4 DEF Place, NoLocks
    <2>10. ASSUME NEW l \in Slot, lock[l] = c PROVE Acquires(p) = Off
      <3>1. l \in Lock /\ l \notin CondLock /\ HoldsAt(p, r, l)
        BY <2>2, <2>10, Constants DEF CondLock
      <3>2. r.pc = "sched"
        BY <2>2, <3>1, Values DEF HoldsAt, LocalsOK, Label
      <3> QED
        BY <2>8, <3>2
    <2>11. ASSUME NEW l \in CondLock, lock[l] = c PROVE Acquires(p) \in Slot \cup {Off}
      <3>1. l \in Lock /\ HoldsAt(p, r, l)
        BY <2>2, <2>11, Constants
      <3> QED
        BY <2>4, <2>5, <2>8, <3>1 DEF HoldsAt
    <2> QED
      BY <2>3, <2>9, <2>10, <2>11
  <1> QED
    BY <1>1, <1>2, <1>3

(***************************************************************************)
(* No set of CPUs spins in acquire on locks that they hold themselves:     *)
(* whatever kfork, kexit, kwait, kkill, sleep, wakeup, the sleeplocks and  *)
(* the clock handler take while they hold another lock respects one order  *)
(* of the locks.                                                           *)
(***************************************************************************)
THEOREM NoCpusSpinForever == Spec => []NoSpinDeadlock
  <1>1. SchedInv => NoSpinDeadlock
    <2> SUFFICES ASSUME SchedInv, NEW S \in (SUBSET CPU) \ {{}},
                        \A c \in S : Wanted(c) # Off /\ lock[Wanted(c)] \in S
                 PROVE  FALSE
      BY DEF NoSpinDeadlock
    <2>1. PICK c \in S : TRUE
      OBVIOUS
    <2>2. \A d \in S : d \in CPU /\ Wanted(d) \in Slot \cup CondLock
      BY LockOrder, Constants
    <2>3. \A d \in S : Wanted(d) \notin Slot
      BY <2>2, LockOrder
    <2>4. \A d \in S : Wanted(d) \in CondLock
      BY <2>2, <2>3
    <2>5. \A d \in S : Wanted(lock[Wanted(d)]) \in Slot \cup {Off}
      BY <2>2, <2>4, LockOrder
    <2> QED
      BY <2>1, <2>3, <2>5
  <1> QED
    BY <1>1, SchedInvariant, PTL
-----------------------------------------------------------------------------
(* No process sleeps through the event it waits for, given the facts about   *)
(* locks above.                                                              *)

(* Who is at a place that holds the lock of a condition holds it, alone.   *)
LEMMA HoldsCond ==
    ASSUME SchedInv, NEW q \in Slot, NEW l \in CondLock, HoldsAt(q, proc[q], l)
    PROVE  \E d \in CPU : cpu[d] = q /\ lock[l] = d
  <1>1. l \in Lock /\ l # q
    BY Constants DEF CondLock
  <1>2. proc[q].pc # "sched" /\ proc[q].state # "UNUSED"
    BY <1>1 DEF SchedInv, LocalsOK, HoldsAt
  <1> QED
    BY <1>1, <1>2, HolderRuns

LEMMA Exclusive ==
    ASSUME SchedInv, NEW p \in Slot, NEW q \in Slot, NEW l \in CondLock,
           HoldsAt(p, proc[p], l), HoldsAt(q, proc[q], l)
    PROVE  p = q
  BY HoldsCond

(* A loop of wakeup under way that goes on at label holds its lock.        *)
LEMMA WakerHolds ==
    ASSUME SchedInv, NEW p \in Slot, proc[p].pc = "wakeup"
    PROVE  /\ proc[p].next = "unlock" => HoldsAt(p, proc[p], slk) /\ lock[slk] # Off
           /\ proc[p].next # "unlock" => HoldsAt(p, proc[p], wait_lock) /\ lock[wait_lock] # Off
  <1>1. /\ proc[p].next = "unlock" => HoldsAt(p, proc[p], slk)
        /\ proc[p].next # "unlock" => HoldsAt(p, proc[p], wait_lock)
    BY DEF HoldsAt
  <1>2. \A l \in CondLock : HoldsAt(p, proc[p], l) => lock[l] # Off
    BY HoldsCond, Constants
  <1> QED
    BY <1>1, <1>2, Values

(***************************************************************************)
(* A step that puts nobody to sleep, makes or moves no zombie and takes no *)
(* process into or out of wakeup; Plain: and gives nobody its tick.        *)
(***************************************************************************)
Critical == {"sleep", "zombie", "wakeup", "scan"}

PlainProc ==
    /\ \A q \in Slot :
         /\ proc'[q].state = "SLEEPING" => proc[q].state = "SLEEPING" /\ proc'[q].lk = proc[q].lk
         /\ proc'[q].state = "ZOMBIE" => proc[q].state = "ZOMBIE" /\ proc'[q].parent = proc[q].parent
         /\ proc'[q].pc \in Critical =>
              /\ proc'[q].pc = proc[q].pc /\ proc'[q].lk = proc[q].lk /\ proc'[q].i = proc[q].i
              /\ proc'[q].next = proc[q].next /\ proc'[q].parent = proc[q].parent
         /\ proc[q].pc = "wakeup" => proc'[q].pc = "wakeup"
    /\ locked # Off => locked' # Off

Plain == PlainProc /\ ticked' \subseteq ticked /\ clock' = clock

LEMMA PlainWait ==
    ASSUME SchedInv, SleepInv, PlainProc
    PROVE  SleeplockOK' /\ WaitOK'
  <1>1. \A q \in Slot, l \in CondLock : AsleepOn(q, l)' => AsleepOn(q, l)
    BY DEF PlainProc, AsleepOn
  <1>2. \A q \in Slot, l \in After : WillWake(q, l) => WillWake(q, l)'
    <2> SUFFICES ASSUME NEW q \in Slot, NEW l \in After,
                        NEW p \in Slot, proc[p].pc = "wakeup", proc[p].next = l, proc[p].i <= q
                 PROVE  \E x \in Slot : proc'[x].pc = "wakeup" /\ proc'[x].next = l /\ proc'[x].i <= q
      BY DEF WillWake
    <2>1. proc'[p].pc = "wakeup" /\ proc'[p].next = l /\ proc'[p].i <= q
      BY DEF PlainProc, Critical
    <2> QED
      BY <2>1
  <1>3. \A q \in Slot, z \in Slot : z \in Children(q)' /\ proc'[z].state = "ZOMBIE" =>
           z \in Children(q) /\ proc[z].state = "ZOMBIE"
    BY DEF PlainProc, Children
  <1>5. SleeplockOK'
    BY <1>1, <1>2, Values DEF SleepInv, SleeplockOK, PlainProc, Critical
  <1>6. WaitOK'
    <2>1. ASSUME NEW q \in Slot, AsleepOn(q, wait_lock)'
          PROVE  NoZombie(Children(q))' \/ (q = initproc /\ WillWake(q, "reparent")')
      <3>1. CASE NoZombie(Children(q))
        BY <1>3, <3>1 DEF NoZombie, Children
      <3>2. CASE ~NoZombie(Children(q))
        BY <1>1, <1>2, <2>1, <3>2, Values DEF SleepInv, WaitOK
      <3> QED
        BY <3>1, <3>2
    <2>2. ASSUME NEW p \in Slot
          PROVE  /\ proc'[p].pc = "zombie" /\ proc'[p].parent # Off =>
                      ~AsleepOn(proc[p].parent, wait_lock)'
                 /\ proc'[p].pc = "wakeup" /\ proc'[p].next = "zombie" /\ proc'[p].parent # Off =>
                      (AsleepOn(proc[p].parent, wait_lock)' => proc'[p].i <= proc'[p].parent)
                 /\ proc'[p].pc = "scan" => NoZombie({z \in Children(p) : z < proc[p].i})'
                 /\ proc'[p].pc = "sleep" /\ proc'[p].lk = wait_lock => NoZombie(Children(p))'
      <3>1. proc[p].parent \in Slot \cup {Off}
        BY DEF SchedInv, TypeOK, ProcRecord
      <3>2. proc'[p].pc \in Critical =>
              /\ proc'[p].pc = proc[p].pc /\ proc'[p].lk = proc[p].lk /\ proc'[p].i = proc[p].i
              /\ proc'[p].next = proc[p].next /\ proc'[p].parent = proc[p].parent
        BY DEF PlainProc
      <3>3. proc'[p].pc = "zombie" /\ proc'[p].parent # Off => ~AsleepOn(proc[p].parent, wait_lock)'
        BY <1>1, <3>1, <3>2, Values DEF SleepInv, WaitOK, Critical, AsleepOn
      <3>4. proc'[p].pc = "wakeup" /\ proc'[p].next = "zombie" /\ proc'[p].parent # Off =>
              (AsleepOn(proc[p].parent, wait_lock)' => proc'[p].i <= proc'[p].parent)
        BY <1>1, <3>1, <3>2, Values DEF SleepInv, WaitOK, Critical, AsleepOn
      <3>5. proc'[p].pc = "scan" => NoZombie({z \in Children(p) : z < proc[p].i})'
        BY <1>3, <3>2 DEF SleepInv, WaitOK, Critical, NoZombie, Children
      <3>6. proc'[p].pc = "sleep" /\ proc'[p].lk = wait_lock => NoZombie(Children(p))'
        BY <1>3, <3>2 DEF SleepInv, WaitOK, Critical, NoZombie, Children
      <3> QED
        BY <3>3, <3>4, <3>5, <3>6
    <2> QED
      BY <2>1, <2>2 DEF WaitOK
  <1> QED
    BY <1>5, <1>6

LEMMA PlainKeeps ==
    ASSUME SchedInv, SleepInv, Plain
    PROVE  SleepInv'
  <1>1. \A q \in Slot, l \in CondLock : AsleepOn(q, l)' => AsleepOn(q, l)
    BY DEF Plain, PlainProc, AsleepOn
  <1>2. TicksOK'
    BY <1>1, Values DEF SleepInv, TicksOK, Plain, PlainProc, Critical
  <1> QED
    BY <1>2, PlainWait DEF SleepInv, Plain

(* A plain step of p alone.                                                *)
LEMMA OwnPlain ==
    ASSUME SchedInv, SleepInv, NEW p \in Slot,
           \A q \in Slot \ {p} : proc'[q] = proc[q],
           proc'[p].state \notin {"SLEEPING", "ZOMBIE"}, proc'[p].pc \notin Critical,
           proc[p].pc # "wakeup", ticked' \subseteq ticked, clock' = clock,
           locked # Off => locked' # Off
    PROVE  SleepInv'
  <1>1. Plain
    BY DEF Plain, PlainProc
  <1> QED
    BY <1>1, PlainKeeps

(* The record of p when a step of p on c begins.                           *)
LEMMA Stepping ==
    ASSUME SchedInv, NEW p \in Slot, NEW c \in CPU, cpu[c] = p
    PROVE  /\ proc \in [Slot -> ProcRecord] /\ proc[p] \in ProcRecord /\ LocalsOK(p, proc[p])
           /\ proc[p].pc # "sched" => proc[p].state = "RUNNING"
  BY Running DEF SchedInv, TypeOK

LEMMA ReturnsPlain ==
    ASSUME SchedInv, SleepInv, NEW p \in Slot, NEW c \in CPU, cpu[c] = p,
           proc[p].pc \notin {"wakeup", "yield", "sched"}, proc' = Return(p),
           ticked' \subseteq ticked, clock' = clock, locked' = locked
    PROVE  SleepInv'
  <1>1. proc \in [Slot -> ProcRecord] /\ proc[p].state = "RUNNING"
        /\ proc[p] \in ProcRecord /\ LocalsOK(p, proc[p])
    BY Stepping
  <1>2. proc' = [proc EXCEPT ![p] = Returned(proc[p])]
    BY DEF Return, Returned
  <1>3. proc'[p].state = "RUNNING" /\ proc'[p].pc = "user"
    <2>1. proc'[p] = Returned(proc[p])
      BY <1>1, <1>2
    <2> DEFINE r == proc[p]
    <2>2. r \in ProcRecord /\ LocalsOK(p, r) /\ r.state = "RUNNING"
      BY <1>1
    <2> HIDE DEF r
    <2>3. Returned(r).state = "RUNNING" /\ Returned(r).pc = "user"
      BY <2>2, ReturnedFacts
    <2> QED
      BY <2>1, <2>3 DEF r
  <1>4. \A q \in Slot \ {p} : proc'[q] = proc[q]
    BY <1>1, <1>2
  <1> QED
    BY <1>3, <1>4, OwnPlain DEF Critical

(* The steps that only move p on, to a place that is not critical.         *)
LEMMA MovesPlain ==
    ASSUME SchedInv, SleepInv, NEW p \in Slot, NEW c \in CPU, cpu[c] = p,
           \/ Resume(p, c) \/ yield(p, c) \/ usertrap(p, c) \/ kexit(p, c)
           \/ sys_pause(p, c) \/ acquiresleep(p, c) \/ Interrupt(p, c)
           \/ whilelocked(p, c) /\ locked = Off
    PROVE  SleepInv'
  <1>1. /\ proc \in [Slot -> ProcRecord] /\ proc[p] \in ProcRecord /\ LocalsOK(p, proc[p])
        /\ proc[p].pc # "sched" => proc[p].state = "RUNNING"
    BY Stepping
  <1>2. \A q \in Slot \ {p} : proc'[q] = proc[q]
    BY <1>1 DEF Resume, yield, usertrap, kexit, sys_pause, acquiresleep, Interrupt, whilelocked, Goto
  <1>3. proc[p].back \in NoLocks \cup {""}
    BY <1>1 DEF ProcRecord
  <1>4. CASE Resume(p, c)
    <2>1. proc'[p].state = "RUNNING" /\ proc'[p].pc = proc[p].back
      BY <1>1, <1>4 DEF Resume, ProcRecord
    <2>2. proc[p].pc = "sched" /\ UNCHANGED <<clock, locked, ticked>>
      BY <1>4 DEF Resume, At
    <2> QED
      BY <1>2, <1>3, <2>1, <2>2, OwnPlain DEF Critical, NoLocks
  <1>5. CASE yield(p, c)
    <2>1. proc[p].pc = "yield" /\ UNCHANGED <<clock, locked, ticked>>
      BY <1>5 DEF yield, At
    <2>2. proc'[p].state \in {"RUNNING", "RUNNABLE"} /\ proc'[p].pc \in {"exit", "sched"}
      <3>1. \/ proc' = [proc EXCEPT ![p].pc = "exit"]
            \/ proc' = [proc EXCEPT ![p].state = "RUNNABLE", ![p].pc = "sched"]
        BY <1>5 DEF yield, Goto
      <3>2. \/ proc'[p] = [proc[p] EXCEPT !.pc = "exit"]
            \/ proc'[p] = [proc[p] EXCEPT !.state = "RUNNABLE", !.pc = "sched"]
        BY <1>1, <3>1
      <3> QED
        BY <1>1, <2>1, <3>2 DEF ProcRecord
    <2> QED
      BY <1>2, <2>1, <2>2, OwnPlain DEF Critical
  <1>6. CASE usertrap(p, c)
    <2>1. proc[p].pc = "user" /\ UNCHANGED <<clock, locked, ticked>>
      BY <1>6 DEF usertrap, At
    <2>2. \A l \in Calls(p) \ {"kill"} : l \notin Critical
      BY ProcSizes DEF Calls, Critical, SchedInv, TypeOK
    <2>3. proc'[p].state = "RUNNING" /\ proc'[p].pc \in {"exit", "kill"} \cup (Calls(p) \ {"kill"})
      <3>1. \/ \E l \in {"exit"} \cup (Calls(p) \ {"kill"}) : proc' = [proc EXCEPT ![p].pc = l]
            \/ \E v \in Slot : proc' = [proc EXCEPT ![p].pc = "kill", ![p].arg = v]
        BY <1>6 DEF usertrap, Goto
      <3>2. \/ \E l \in {"exit"} \cup (Calls(p) \ {"kill"}) : proc'[p] = [proc[p] EXCEPT !.pc = l]
            \/ \E v \in Slot : proc'[p] = [proc[p] EXCEPT !.pc = "kill", !.arg = v]
        BY <1>1, <3>1
      <3> QED
        BY <1>1, <2>1, <3>2 DEF ProcRecord
    <2>4. proc'[p].pc \notin Critical
      BY <2>2, <2>3 DEF Critical
    <2> QED
      BY <1>2, <2>1, <2>3, <2>4, OwnPlain
  <1>7. CASE kexit(p, c)
    <2>1. proc[p].pc = "exit" /\ UNCHANGED <<clock, locked, ticked>>
      BY <1>7 DEF kexit, At
    <2>2. proc'[p].state = "RUNNING" /\ proc'[p].pc = "reparent"
      BY <1>1, <1>7, <2>1 DEF kexit, Goto, ProcRecord
    <2> QED
      BY <1>2, <2>1, <2>2, OwnPlain DEF Critical
  <1>8. CASE sys_pause(p, c)
    <2>1. proc[p].pc = "pause" /\ UNCHANGED <<clock, locked>> /\ ticked' \subseteq ticked
      BY <1>8 DEF sys_pause, At
    <2>2. proc'[p].state = "RUNNING" /\ proc'[p].pc = "ticks"
      BY <1>1, <1>8, <2>1 DEF sys_pause, ProcRecord
    <2> QED
      BY <1>2, <2>1, <2>2, OwnPlain DEF Critical
  <1>9. CASE acquiresleep(p, c)
    <2>1. proc[p].pc = "acquiresleep" /\ UNCHANGED <<clock, locked, ticked>>
      BY <1>9 DEF acquiresleep, At
    <2>2. proc'[p].state = "RUNNING" /\ proc'[p].pc = "locked"
      BY <1>1, <1>9, <2>1 DEF acquiresleep, Goto, ProcRecord
    <2> QED
      BY <1>2, <2>1, <2>2, OwnPlain DEF Critical
  <1>10. CASE Interrupt(p, c)
    <2>1. UNCHANGED <<clock, locked, ticked>> /\ proc[p].pc # "yield" /\ c # Boot /\ IntrOn(c)
      BY <1>10 DEF Interrupt
    <2>2. proc[p].pc \in NoLocks
      BY <2>1, Interruptible, Constants
    <2>3. proc'[p].state = "RUNNING" /\ proc'[p].pc = "yield"
      BY <1>1, <1>10, <2>2 DEF Interrupt, ProcRecord, NoLocks
    <2> QED
      BY <1>2, <2>1, <2>2, <2>3, OwnPlain DEF Critical, NoLocks
  <1>11. CASE whilelocked(p, c) /\ locked = Off
    <2>1. proc[p].pc = "locked" /\ UNCHANGED <<clock, ticked>>
      BY <1>11 DEF whilelocked, At
    <2>2. proc'[p].state = "RUNNING" /\ proc'[p].pc = "releasesleep"
      BY ZenonT(60), <1>1, <1>11, <2>1 DEF whilelocked, Goto, ProcRecord
    <2> QED
      BY <1>2, <1>11, <2>1, <2>2, OwnPlain DEF Critical
  <1> QED
    BY <1>4, <1>5, <1>6, <1>7, <1>8, <1>9, <1>10, <1>11

(* The steps of a scheduler, and the switch to it.                         *)
LEMMA SwitchPlain ==
    ASSUME SchedInv, SleepInv, NEW p \in Slot, NEW c \in CPU,
           scheduler(c, p) \/ sched(p, c)
    PROVE  SleepInv'
  <1>1. proc \in [Slot -> ProcRecord] /\ proc[p] \in ProcRecord /\ LocalsOK(p, proc[p])
    BY DEF SchedInv, TypeOK
  <1>2. CASE scheduler(c, p)
    <2>1. \A q \in Slot \ {p} : proc'[q] = proc[q]
      BY <1>1, <1>2 DEF scheduler
    <2>2. proc'[p].state = "RUNNING" /\ proc'[p].pc = proc[p].pc
      BY <1>1, <1>2 DEF scheduler, ProcRecord
    <2>3. proc[p].pc = "sched" /\ UNCHANGED <<clock, locked, ticked>>
      BY <1>1, <1>2 DEF scheduler, LocalsOK
    <2> QED
      BY <2>1, <2>2, <2>3, OwnPlain DEF Critical
  <1>3. CASE sched(p, c)
    <2>1. Plain
      BY <1>3 DEF sched, Plain, PlainProc
    <2> QED
      BY <2>1, PlainKeeps
  <1> QED
    BY <1>2, <1>3

(* A plain step that also changes the record of v.                         *)
LEMMA TwoSlotPlain ==
    ASSUME SchedInv, SleepInv, NEW p \in Slot, NEW v \in Slot,
           \A q \in Slot \ {p, v} : proc'[q] = proc[q],
           proc'[p].state \notin {"SLEEPING", "ZOMBIE"}, proc'[p].pc \notin Critical,
           proc[p].pc # "wakeup",
           proc'[v].state = "SLEEPING" => proc[v].state = "SLEEPING" /\ proc'[v].lk = proc[v].lk,
           proc'[v].state = "ZOMBIE" => proc[v].state = "ZOMBIE" /\ proc'[v].parent = proc[v].parent,
           \/ proc'[v].pc = proc[v].pc /\ proc'[v].lk = proc[v].lk /\ proc'[v].i = proc[v].i
              /\ proc'[v].next = proc[v].next /\ proc'[v].parent = proc[v].parent
           \/ proc'[v].pc \notin Critical /\ proc[v].pc # "wakeup",
           ticked' \subseteq ticked, clock' = clock, locked' = locked
    PROVE  SleepInv'
  <1>1. Plain
    BY DEF Plain, PlainProc
  <1> QED
    BY <1>1, PlainKeeps

LEMMA CallsPlain ==
    ASSUME SchedInv, SleepInv, NEW p \in Slot, NEW c \in CPU, cpu[c] = p,
           \/ kfork(p, c) \/ setparent(p, c) \/ setrunnable(p, c) \/ kkill(p, c)
    PROVE  SleepInv'
  <1> DEFINE r == proc[p]
             v == r.arg
             t == Returned(r)
  <1>1. /\ proc \in [Slot -> ProcRecord] /\ r \in ProcRecord /\ LocalsOK(p, r)
        /\ r.pc # "sched" => r.state = "RUNNING"
    BY Stepping
  <1>2. UNCHANGED <<clock, locked, ticked>>
    BY DEF kfork, setparent, setrunnable, kkill
  <1>3. Return(p) = [proc EXCEPT ![p] = t]
    BY DEF Return, Returned
  <1>4. r.state = "RUNNING" /\ r.pc \notin {"wakeup", "yield", "sched"} =>
          t \in ProcRecord /\ t.state = "RUNNING" /\ t.pc = "user"
    BY <1>1, ReturnedFacts
  <1>5. CASE kfork(p, c)
    <2> DEFINE S == {q \in Slot : proc[q].state = "UNUSED"}
               n == Least(S)
               w == [Unused EXCEPT !.state = "USED", !.pc = "sched", !.back = "user"]
    <2>1. r.pc = "fork" /\ r.state = "RUNNING"
      BY <1>1, <1>5 DEF kfork, At
    <2>2. CASE S = {}
      <3>1. proc' = Return(p)
        BY <1>5, <2>2 DEF kfork
      <3> QED
        BY <1>2, <2>1, <3>1, ReturnsPlain
    <2>3. CASE S # {}
      <3>1. n \in Slot /\ proc[n].state = "UNUSED"
        BY <2>3, LeastSlot
      <3>2. proc' = [proc EXCEPT ![n] = w, ![p].pc = "parent", ![p].arg = n]
        BY <1>5, <2>3 DEF kfork
      <3> HIDE DEF n, S
      <3>3. w.state = "USED" /\ w.pc = "sched"
        BY DEF Unused
      <3> HIDE DEF w
      <3>4. n # p /\ proc[n].pc # "wakeup"
        BY <2>1, <3>1 DEF SchedInv, LocalsOK
      <3>5. /\ proc'[n] = w /\ \A q \in Slot \ {p, n} : proc'[q] = proc[q]
            /\ proc'[p] = [r EXCEPT !.pc = "parent", !.arg = n]
        BY <1>1, <3>1, <3>2, <3>4
      <3>6. proc'[p].state = "RUNNING" /\ proc'[p].pc = "parent"
        BY <1>1, <2>1, <3>5 DEF ProcRecord
      <3> QED
        BY <1>2, <2>1, <3>1, <3>3, <3>4, <3>5, <3>6, TwoSlotPlain DEF Critical
    <2> QED
      BY <2>2, <2>3
  <1>6. CASE setparent(p, c)
    <2>1. r.pc = "parent" /\ r.state = "RUNNING"
      BY <1>1, <1>6 DEF setparent, At
    <2>2. v \in Slot /\ v # p /\ proc[v].state = "USED" /\ proc[v] \in ProcRecord
      BY <1>1, <2>1 DEF LocalsOK, Label, SchedInv, ForksOK
    <2>3. proc[v].pc = "sched"
      BY <2>2 DEF SchedInv, LocalsOK
    <2>4. proc' = [proc EXCEPT ![v].parent = p, ![p].pc = "runnable"]
      BY <1>6 DEF setparent
    <2> HIDE DEF v
    <2>5. /\ proc'[v] = [proc[v] EXCEPT !.parent = p] /\ proc'[p] = [r EXCEPT !.pc = "runnable"]
          /\ \A q \in Slot \ {p, v} : proc'[q] = proc[q]
      BY <1>1, <2>2, <2>4
    <2>6. proc'[p].state = "RUNNING" /\ proc'[p].pc = "runnable"
      BY <1>1, <2>1, <2>5 DEF ProcRecord
    <2>7. proc'[v].state = "USED" /\ proc'[v].pc = "sched"
      BY <2>2, <2>3, <2>5 DEF ProcRecord
    <2>8. proc'[v].pc \notin Critical /\ proc'[p].pc \notin Critical
      BY <2>6, <2>7 DEF Critical
    <2> QED
      BY <1>2, <2>1, <2>2, <2>3, <2>5, <2>6, <2>7, <2>8, TwoSlotPlain
  <1>7. CASE setrunnable(p, c)
    <2>1. r.pc = "runnable" /\ r.state = "RUNNING"
      BY <1>1, <1>7 DEF setrunnable, At
    <2>2. v \in Slot /\ v # p /\ proc[v].state = "USED" /\ proc[v] \in ProcRecord
      BY <1>1, <2>1 DEF LocalsOK, Label, SchedInv, ForksOK
    <2>3. proc[v].pc = "sched"
      BY <2>2 DEF SchedInv, LocalsOK
    <2>4. proc' = [Return(p) EXCEPT ![v].state = "RUNNABLE"]
      BY <1>7 DEF setrunnable
    <2> HIDE DEF v, t
    <2>5. /\ proc'[v] = [proc[v] EXCEPT !.state = "RUNNABLE"] /\ proc'[p] = t
          /\ \A q \in Slot \ {p, v} : proc'[q] = proc[q]
      BY <1>1, <1>3, <2>2, <2>4
    <2>6. proc'[p].state = "RUNNING" /\ proc'[p].pc = "user"
      BY <1>4, <2>1, <2>5
    <2>7. proc'[v].state = "RUNNABLE" /\ proc'[v].pc = "sched"
      BY <2>2, <2>3, <2>5 DEF ProcRecord
    <2> QED
      BY <1>2, <2>1, <2>2, <2>3, <2>5, <2>6, <2>7, TwoSlotPlain DEF Critical
  <1>8. CASE kkill(p, c)
    <2>1. r.pc = "kill" /\ r.state = "RUNNING"
      BY <1>1, <1>8 DEF kkill, At
    <2>2. v \in Slot /\ proc[v] \in ProcRecord
      BY <1>1, <2>1 DEF LocalsOK, Label
    <2>3. CASE proc[v].state = "UNUSED"
      <3>1. proc' = Return(p)
        BY <1>8, <2>3 DEF kkill
      <3> QED
        BY <1>2, <2>1, <3>1, ReturnsPlain
    <2>4. CASE proc[v].state # "UNUSED"
      <3>1. proc' = [Return(p) EXCEPT ![v].killed = TRUE,
                                      ![v].state = IF @ = "SLEEPING" THEN "RUNNABLE" ELSE @]
        BY <1>8, <2>4 DEF kkill
      <3>2. t \in ProcRecord /\ t.state = "RUNNING" /\ t.pc = "user"
        BY <1>4, <2>1
      <3> HIDE DEF v, t
      <3> DEFINE P == [proc EXCEPT ![p] = t]
      <3>3. P \in [Slot -> ProcRecord]
        BY <1>1, <3>2
      <3>4. /\ \A q \in Slot \ {p, v} : proc'[q] = proc[q]
            /\ v # p => proc'[p] = t
            /\ proc'[v] = [P[v] EXCEPT !.killed = TRUE,
                             !.state = IF P[v].state = "SLEEPING" THEN "RUNNABLE" ELSE P[v].state]
        BY <1>1, <1>3, <2>2, <3>1, <3>2, <3>3
      <3>5. /\ P[v] \in ProcRecord
            /\ v # p => P[v] = proc[v]
            /\ v = p => P[v] = t
        BY <1>1, <2>2, <3>3
      <3> HIDE DEF P
      <3>6. /\ proc'[v].pc = P[v].pc /\ proc'[v].lk = P[v].lk /\ proc'[v].i = P[v].i
            /\ proc'[v].next = P[v].next /\ proc'[v].parent = P[v].parent
            /\ proc'[v].state = IF P[v].state = "SLEEPING" THEN "RUNNABLE" ELSE P[v].state
        BY <3>4, <3>5 DEF ProcRecord
      <3>7. proc'[p].state = "RUNNING" /\ proc'[p].pc = "user"
        BY <3>2, <3>4, <3>5, <3>6
      <3>8. CASE v = p
        BY <1>2, <2>1, <3>4, <3>7, <3>8, OwnPlain DEF Critical
      <3>9. CASE v # p
        <4>1. proc'[v].state = "SLEEPING" => FALSE
          BY <3>6
        <4>2. /\ proc'[v].pc = proc[v].pc /\ proc'[v].lk = proc[v].lk /\ proc'[v].i = proc[v].i
              /\ proc'[v].next = proc[v].next /\ proc'[v].parent = proc[v].parent
              /\ proc'[v].state = "ZOMBIE" => proc[v].state = "ZOMBIE"
          BY <3>5, <3>6, <3>9
        <4>3. proc'[p].pc \notin Critical
          BY <3>7 DEF Critical
        <4> QED
          BY <1>2, <2>1, <2>2, <3>4, <3>7, <4>1, <4>2, <4>3, TwoSlotPlain
      <3> QED
        BY <3>8, <3>9
    <2> QED
      BY <2>3, <2>4
  <1> QED
    BY <1>5, <1>6, <1>7, <1>8

LEMMA IndexRange ==
    ASSUME NEW r \in ProcRecord
    PROVE  r.i \in Int /\ 1 <= r.i
  <1>1. r.i \in 1 .. NPROC + 1
    BY DEF ProcRecord
  <1> QED
    BY <1>1, ProcSizes

(***************************************************************************)
(* A step of p that takes it, still running, to a place where it has to    *)
(* know something: about to sleep, in kwait's scan or at the start of the  *)
(* wakeup of its parent.                                                   *)
(***************************************************************************)
LEMMA MoveKeeps ==
    ASSUME SchedInv, SleepInv, NEW p \in Slot, proc[p].state = "RUNNING", proc[p].pc # "wakeup",
           proc'[p].state = "RUNNING", proc'[p].parent = proc[p].parent,
           \A x \in Slot \ {p} : proc'[x] = proc[x], UNCHANGED <<clock, locked, ticked>>,
           proc'[p].pc # "zombie",
           proc'[p].pc = "sleep" /\ proc'[p].lk = tickslock => p \notin ticked,
           proc'[p].pc = "sleep" /\ proc'[p].lk = slk => locked # Off,
           proc'[p].pc = "sleep" /\ proc'[p].lk = wait_lock => NoZombie(Children(p)),
           proc'[p].pc = "scan" => NoZombie({z \in Children(p) : z < proc'[p].i}),
           proc'[p].pc = "wakeup" /\ proc'[p].next = "zombie" /\ proc[p].parent # Off =>
              proc'[p].i <= proc[p].parent
    PROVE  SleepInv'
  <1>1. \A x \in Slot : /\ proc'[x].state = proc[x].state /\ proc'[x].parent = proc[x].parent
                        /\ x # p => proc'[x] = proc[x]
    OBVIOUS
  <1>2. \A x \in Slot, l \in CondLock : AsleepOn(x, l)' <=> AsleepOn(x, l)
    BY <1>1 DEF AsleepOn
  <1>3. \A x \in Slot, l \in After : WillWake(x, l) => WillWake(x, l)'
    BY DEF WillWake
  <1>4. \A x \in Slot : Children(x)' = Children(x)
    BY <1>1 DEF Children
  <1>5. TicksOK'
    BY <1>1, <1>2, Values DEF SleepInv, TicksOK
  <1>6. SleeplockOK'
    BY <1>1, <1>2, <1>3, Values DEF SleepInv, SleeplockOK
  <1>7. \A x \in Slot : AsleepOn(x, wait_lock)' =>
          NoZombie(Children(x))' \/ (x = initproc /\ WillWake(x, "reparent")')
    BY <1>1, <1>2, <1>3, <1>4, Values DEF SleepInv, WaitOK, NoZombie, Children
  <1>8. ASSUME NEW x \in Slot
        PROVE  /\ proc'[x].pc = "zombie" /\ proc'[x].parent # Off =>
                    ~AsleepOn(proc[x].parent, wait_lock)'
               /\ proc'[x].pc = "wakeup" /\ proc'[x].next = "zombie" /\ proc'[x].parent # Off =>
                    (AsleepOn(proc[x].parent, wait_lock)' => proc'[x].i <= proc'[x].parent)
               /\ proc'[x].pc = "scan" => NoZombie({z \in Children(x) : z < proc[x].i})'
               /\ proc'[x].pc = "sleep" /\ proc'[x].lk = wait_lock => NoZombie(Children(x))'
    <2>1. CASE x = p
      BY <1>1, <1>4, <2>1 DEF NoZombie, Children
    <2>2. CASE x # p
      <3>1. proc[x].parent \in Slot \cup {Off} /\ proc'[x] = proc[x]
        BY <1>1, <2>2 DEF SchedInv, TypeOK, ProcRecord
      <3>2. proc[x].parent # Off =>
              (AsleepOn(proc[x].parent, wait_lock)' <=> AsleepOn(proc[x].parent, wait_lock))
        BY <1>1, <3>1 DEF AsleepOn
      <3>3. /\ NoZombie(Children(x))' <=> NoZombie(Children(x))
            /\ NoZombie({z \in Children(x) : z < proc[x].i})' <=>
                 NoZombie({z \in Children(x) : z < proc[x].i})
        BY <1>1, <1>4, <3>1 DEF NoZombie, Children
      <3> QED
        BY <3>1, <3>2, <3>3 DEF SleepInv, WaitOK
    <2> QED
      BY <2>1, <2>2
  <1>9. WaitOK'
    BY <1>7, <1>8 DEF WaitOK
  <1> QED
    BY <1>5, <1>6, <1>9 DEF SleepInv

-----------------------------------------------------------------------------
(* kwait.                                                                  *)

LEMMA ScanSleep ==
    ASSUME SchedInv, SleepInv, NEW p \in Slot, NEW c \in CPU, scan(p, c)
    PROVE  SleepInv'
  <1> DEFINE r == proc[p]
             q == Least(NextChild(p))
  <1>1. cpu[c] = p /\ r.pc = "scan" /\ UNCHANGED <<cpu, clock, locked, ticked>>
    BY DEF scan, At
  <1>2. /\ proc \in [Slot -> ProcRecord] /\ r \in ProcRecord /\ LocalsOK(p, r)
        /\ r.state = "RUNNING"
    BY <1>1, Stepping
  <1>3. CASE NextChild(p) # {} /\ proc[q].state = "ZOMBIE"
    <2>1. q \in Slot /\ q # p
      BY <1>2, <1>3, LeastSlot DEF NextChild, Children
    <2>2. proc' = [Return(p) EXCEPT ![q] = Unused]
      BY <1>3 DEF scan
    <2>3. proc[q].pc = "sched"
      BY <1>3, <2>1 DEF SchedInv, LocalsOK
    <2> HIDE DEF q
    <2>4. Return(p) = [proc EXCEPT ![p] = Returned(r)]
      BY DEF Return, Returned
    <2>5. /\ proc'[p] = Returned(r) /\ proc'[q] = Unused
          /\ \A x \in Slot \ {p, q} : proc'[x] = proc[x]
      BY <1>2, <2>1, <2>2, <2>4
    <2>6. Returned(r).state = "RUNNING" /\ Returned(r).pc = "user"
      BY <1>2, ReturnedFacts
    <2>7. Unused.state = "UNUSED" /\ Unused.pc = "user"
      BY DEF Unused
    <2>8. proc'[p].pc \notin Critical /\ proc'[q].pc \notin Critical
      BY <2>5, <2>6, <2>7 DEF Critical
    <2> QED
      BY <1>1, <2>1, <2>3, <2>5, <2>6, <2>7, <2>8, TwoSlotPlain
  <1>4. CASE NextChild(p) = {} /\ (~r.kids \/ r.killed)
    <2>1. proc' = Return(p)
      BY <1>4 DEF scan
    <2> QED
      BY <1>1, <2>1, ReturnsPlain
  <1>6. NoZombie({z \in Children(p) : z < r.i})
    BY <1>1 DEF SleepInv, WaitOK
  <1>7. CASE NextChild(p) # {} /\ proc[q].state # "ZOMBIE"
    <2>1. proc' = [proc EXCEPT ![p].i = q + 1, ![p].kids = TRUE]
      BY <1>7 DEF scan
    <2>2. q \in Slot /\ \A z \in NextChild(p) : q <= z
      BY <1>7, LeastSlot DEF NextChild, Children
    <2> HIDE DEF q
    <2>3. proc'[p] = [r EXCEPT !.i = q + 1, !.kids = TRUE] /\ \A x \in Slot \ {p} : proc'[x] = proc[x]
      BY <1>2, <2>1
    <2>4. /\ proc'[p].pc = "scan" /\ proc'[p].state = "RUNNING" /\ proc'[p].parent = r.parent
          /\ proc'[p].i = q + 1
      BY <1>1, <1>2, <2>3 DEF ProcRecord
    <2>5. \A z \in Children(p) : z < q + 1 => z < r.i \/ z = q
      <3>1. r.i \in Int /\ \A z \in Slot : z \in Int
        BY <1>2, Constants, IndexRange
      <3> QED
        BY <2>2, <3>1 DEF NextChild, Children
    <2>6. NoZombie({z \in Children(p) : z < proc'[p].i})
      BY <1>6, <1>7, <2>4, <2>5 DEF NoZombie, q
    <2> QED
      BY <1>1, <1>2, <2>3, <2>4, <2>6, MoveKeeps
  <1>8. CASE NextChild(p) = {} /\ r.kids /\ ~r.killed
    <2>1. proc' = [proc EXCEPT ![p].pc = "sleep", ![p].lk = wait_lock, ![p].next = "scan"]
      BY <1>8 DEF scan
    <2>2. /\ proc'[p] = [r EXCEPT !.pc = "sleep", !.lk = wait_lock, !.next = "scan"]
          /\ \A x \in Slot \ {p} : proc'[x] = proc[x]
      BY <1>2, <2>1
    <2>3. /\ proc'[p].pc = "sleep" /\ proc'[p].state = "RUNNING" /\ proc'[p].parent = r.parent
          /\ proc'[p].lk = wait_lock
      BY <1>2, <2>2 DEF ProcRecord
    <2>4. NoZombie(Children(p))
      <3>1. r.i \in Int /\ \A z \in Slot : z \in Int
        BY <1>2, Constants, IndexRange
      <3>2. \A z \in Children(p) : z < r.i
        BY <1>8, <3>1 DEF NextChild, Children
      <3> QED
        BY <1>6, <3>2 DEF NoZombie
    <2> QED
      BY <1>1, <1>2, <2>2, <2>3, <2>4, Constants, MoveKeeps
  <1> QED
    BY <1>3, <1>4, <1>7, <1>8

LEMMA MovesSleep ==
    ASSUME SchedInv, SleepInv, NEW p \in Slot, NEW c \in CPU, cpu[c] = p,
           \/ kwait(p, c) \/ relock(p, c) \/ ticks(p, c) \/ unlock(p, c)
           \/ whilelocked(p, c) /\ locked # Off
           \/ reparent(p, c) /\ Children(p) = {}
    PROVE  SleepInv'
  <1> DEFINE r == proc[p]
  <1>1. /\ proc \in [Slot -> ProcRecord] /\ r \in ProcRecord /\ LocalsOK(p, r)
        /\ r.pc # "sched" => r.state = "RUNNING"
    BY Stepping
  <1>2. \A z \in Slot : ~(z < 1)
    BY Constants
  <1>3. CASE kwait(p, c)
    <2>1. r.pc = "wait" /\ r.state = "RUNNING" /\ UNCHANGED <<clock, locked, ticked>>
      BY <1>1, <1>3 DEF kwait, At
    <2>2. /\ proc'[p] = [r EXCEPT !.pc = "scan", !.i = 1, !.kids = FALSE]
          /\ \A x \in Slot \ {p} : proc'[x] = proc[x]
      BY <1>1, <1>3 DEF kwait
    <2>3. /\ proc'[p].pc = "scan" /\ proc'[p].state = "RUNNING" /\ proc'[p].i = 1
          /\ proc'[p].parent = r.parent
      BY <1>1, <2>1, <2>2 DEF ProcRecord
    <2>4. NoZombie({z \in Children(p) : z < proc'[p].i})
      BY <1>2, <2>3 DEF NoZombie, Children
    <2> QED
      BY <2>1, <2>2, <2>3, <2>4, MoveKeeps
  <1>4. CASE relock(p, c)
    <2>1. r.pc = "relock" /\ r.state = "RUNNING" /\ UNCHANGED <<clock, locked, ticked>>
      BY <1>1, <1>4 DEF relock, At
    <2>2. r.next \in {"scan", "ticks", "locked"}
      BY <1>1, <2>1 DEF LocalsOK, Label
    <2>3. /\ proc'[p] = [r EXCEPT !.pc = r.next, !.i = 1, !.kids = FALSE]
          /\ \A x \in Slot \ {p} : proc'[x] = proc[x]
      BY <1>1, <1>4 DEF relock
    <2>4. /\ proc'[p].pc = r.next /\ proc'[p].state = "RUNNING" /\ proc'[p].i = 1
          /\ proc'[p].parent = r.parent
      BY <1>1, <2>1, <2>3 DEF ProcRecord
    <2>5. NoZombie({z \in Children(p) : z < proc'[p].i})
      BY <1>2, <2>4 DEF NoZombie, Children
    <2> QED
      BY <2>1, <2>2, <2>3, <2>4, <2>5, MoveKeeps
  <1>5. CASE ticks(p, c)
    <2>1. r.pc = "ticks" /\ r.state = "RUNNING" /\ UNCHANGED <<clock, locked>>
      BY <1>1, <1>5 DEF ticks, At
    <2>2. CASE p \in ticked \/ r.killed
      <3>1. proc' = Return(p) /\ ticked' \subseteq ticked
        BY <1>5, <2>2 DEF ticks
      <3> QED
        BY <2>1, <3>1, ReturnsPlain
    <2>3. CASE ~(p \in ticked \/ r.killed)
      <3>1. proc' = [proc EXCEPT ![p].pc = "sleep", ![p].next = "ticks"] /\ ticked' = ticked
        BY <1>5, <2>3 DEF ticks
      <3>2. /\ proc'[p] = [r EXCEPT !.pc = "sleep", !.next = "ticks"]
            /\ \A x \in Slot \ {p} : proc'[x] = proc[x]
        BY <1>1, <3>1
      <3>3. /\ proc'[p].pc = "sleep" /\ proc'[p].state = "RUNNING" /\ proc'[p].lk = r.lk
            /\ proc'[p].parent = r.parent
        BY <1>1, <2>1, <3>2 DEF ProcRecord
      <3>4. r.lk = tickslock
        BY <1>1, <2>1 DEF LocalsOK
      <3> QED
        BY <2>1, <2>3, <3>1, <3>2, <3>3, <3>4, Constants, MoveKeeps
    <2> QED
      BY <2>2, <2>3
  <1>6. CASE unlock(p, c)
    <2>1. r.pc = "unlock" /\ UNCHANGED <<clock, locked, ticked>> /\ proc' = Return(p)
      BY <1>6 DEF unlock, At
    <2> QED
      BY <2>1, ReturnsPlain
  <1>7. CASE whilelocked(p, c) /\ locked # Off
    <2>1. r.pc = "locked" /\ r.state = "RUNNING" /\ UNCHANGED <<clock, locked, ticked>>
      BY <1>1, <1>7 DEF whilelocked, At
    <2>2. /\ proc'[p] = [r EXCEPT !.pc = "sleep", !.lk = slk, !.next = "locked"]
          /\ \A x \in Slot \ {p} : proc'[x] = proc[x]
      BY <1>1, <1>7 DEF whilelocked
    <2>3. /\ proc'[p].pc = "sleep" /\ proc'[p].state = "RUNNING" /\ proc'[p].lk = slk
          /\ proc'[p].parent = r.parent
      BY <1>1, <2>1, <2>2 DEF ProcRecord
    <2> QED
      BY <1>7, <2>1, <2>2, <2>3, Constants, MoveKeeps
  <1>8. CASE reparent(p, c) /\ Children(p) = {}
    <2>1. r.pc = "reparent" /\ r.state = "RUNNING" /\ UNCHANGED <<clock, locked, ticked>>
      BY <1>1, <1>8 DEF reparent, At
    <2>2. /\ proc'[p] = [r EXCEPT !.pc = "wakeup", !.i = 1, !.arg = r.parent, !.next = "zombie"]
          /\ \A x \in Slot \ {p} : proc'[x] = proc[x]
      BY <1>1, <1>8 DEF reparent, CallWakeup
    <2>3. /\ proc'[p].pc = "wakeup" /\ proc'[p].state = "RUNNING" /\ proc'[p].i = 1
          /\ proc'[p].parent = r.parent
      BY <1>1, <2>1, <2>2 DEF ProcRecord
    <2>4. r.parent # Off => 1 <= r.parent
      <3>1. r.parent \in Slot \cup {Off}
        BY <1>1 DEF ProcRecord
      <3> QED
        BY <3>1, Constants
    <2> QED
      BY <2>1, <2>2, <2>3, <2>4, MoveKeeps
  <1> QED
    BY <1>3, <1>4, <1>5, <1>6, <1>7, <1>8

(* releasesleep: who sleeps on the sleeplock is to be reached by the loop  *)
(* that starts here, and nobody is about to sleep on it.                   *)
LEMMA ReleaseSleep ==
    ASSUME SchedInv, SleepInv, NEW p \in Slot, NEW c \in CPU, releasesleep(p, c)
    PROVE  SleepInv'
  <1> DEFINE r == proc[p]
  <1>1. /\ cpu[c] = p /\ r.pc = "releasesleep" /\ UNCHANGED <<clock, ticked>> /\ lock[slk] = Off
    BY AcquiresAt, Constants DEF releasesleep, At, Free
  <1>2. /\ proc \in [Slot -> ProcRecord] /\ r \in ProcRecord /\ LocalsOK(p, r)
        /\ r.state = "RUNNING"
    BY <1>1, Stepping
  <1>3. /\ proc'[p] = [r EXCEPT !.pc = "wakeup", !.i = 1, !.arg = slk, !.next = "unlock"]
        /\ \A x \in Slot \ {p} : proc'[x] = proc[x]
    BY <1>2 DEF releasesleep, CallWakeup
  <1>4. /\ proc'[p].pc = "wakeup" /\ proc'[p].state = "RUNNING" /\ proc'[p].i = 1
        /\ proc'[p].parent = r.parent /\ proc'[p].next = "unlock"
    BY <1>2, <1>3 DEF ProcRecord
  <1>5. \A x \in Slot : /\ proc'[x].state = proc[x].state /\ proc'[x].parent = proc[x].parent
                        /\ x # p => proc'[x] = proc[x]
    BY <1>2, <1>3, <1>4
  <1>6. \A x \in Slot, l \in CondLock : AsleepOn(x, l)' <=> AsleepOn(x, l)
    BY <1>2, <1>4, <1>5 DEF AsleepOn
  <1>7. \A x \in Slot, l \in After : WillWake(x, l) => WillWake(x, l)'
    BY <1>1, <1>5 DEF WillWake
  <1>8. \A x \in Slot : Children(x)' = Children(x)
    BY <1>5 DEF Children
  <1>9. TicksOK'
    BY <1>1, <1>4, <1>5, <1>6, Values DEF SleepInv, TicksOK
  <1>10. SleeplockOK'
    <2>1. \A x \in Slot : WillWake(x, "unlock")'
      BY <1>4, Constants DEF WillWake
    <2>2. \A x \in Slot : ~(proc[x].pc = "sleep" /\ proc[x].lk = slk)
      <3> SUFFICES ASSUME NEW x \in Slot, proc[x].pc = "sleep", proc[x].lk = slk PROVE FALSE
        OBVIOUS
      <3>1. HoldsAt(x, proc[x], slk)
        BY DEF HoldsAt
      <3>2. \A l \in CondLock : HoldsAt(x, proc[x], l) => lock[l] # Off
        BY HoldsCond, Constants
      <3> QED
        BY <1>1, <3>1, <3>2, Values
    <2> QED
      BY <1>4, <1>5, <2>1, <2>2 DEF SleeplockOK
  <1>11. WaitOK'
    <2>1. \A x \in Slot : AsleepOn(x, wait_lock)' =>
            NoZombie(Children(x))' \/ (x = initproc /\ WillWake(x, "reparent")')
      BY <1>5, <1>6, <1>7, <1>8, Values DEF SleepInv, WaitOK, NoZombie, Children
    <2>2. ASSUME NEW x \in Slot
          PROVE  /\ proc'[x].pc = "zombie" /\ proc'[x].parent # Off =>
                      ~AsleepOn(proc[x].parent, wait_lock)'
                 /\ proc'[x].pc = "wakeup" /\ proc'[x].next = "zombie" /\ proc'[x].parent # Off =>
                      (AsleepOn(proc[x].parent, wait_lock)' => proc'[x].i <= proc'[x].parent)
                 /\ proc'[x].pc = "scan" => NoZombie({z \in Children(x) : z < proc[x].i})'
                 /\ proc'[x].pc = "sleep" /\ proc'[x].lk = wait_lock => NoZombie(Children(x))'
      <3>1. CASE x = p
        BY <1>4, <3>1
      <3>2. CASE x # p
        <4>1. proc[x].parent \in Slot \cup {Off} /\ proc'[x] = proc[x]
          BY <1>2, <1>5, <3>2 DEF ProcRecord
        <4>2. proc[x].parent # Off =>
                (AsleepOn(proc[x].parent, wait_lock)' <=> AsleepOn(proc[x].parent, wait_lock))
          BY ZenonT(60), <1>5, <1>6, <4>1, Values DEF AsleepOn
        <4>3. /\ NoZombie(Children(x))' <=> NoZombie(Children(x))
              /\ NoZombie({z \in Children(x) : z < proc[x].i})' <=>
                   NoZombie({z \in Children(x) : z < proc[x].i})
          BY <1>5, <1>8, <4>1 DEF NoZombie, Children
        <4> QED
          BY <4>1, <4>2, <4>3 DEF SleepInv, WaitOK
      <3> QED
        BY <3>1, <3>2
    <2> QED
      BY <2>1, <2>2 DEF WaitOK
  <1> QED
    BY <1>9, <1>10, <1>11 DEF SleepInv

(* sleep: with the lock of the condition held, the condition is known, and *)
(* nobody is in the loop that would have had to wake p.                    *)
LEMMA SleepSleep ==
    ASSUME SchedInv, SleepInv, NEW p \in Slot, NEW c \in CPU, sleep(p, c)
    PROVE  SleepInv'
  <1> DEFINE r == proc[p]
             s == [r EXCEPT !.state = "SLEEPING", !.pc = "sched", !.back = "relock",
                            !.chan = IF r.lk = wait_lock THEN p ELSE r.lk]
  <1>1. cpu[c] = p /\ r.pc = "sleep" /\ UNCHANGED <<clock, locked, ticked>>
    BY DEF sleep, At
  <1>2. /\ proc \in [Slot -> ProcRecord] /\ r \in ProcRecord /\ LocalsOK(p, r)
        /\ r.state = "RUNNING"
    BY <1>1, Stepping
  <1>3. proc'[p] = s /\ \A x \in Slot \ {p} : proc'[x] = proc[x]
    BY <1>2 DEF sleep
  <1>4. /\ proc'[p].pc = "sched" /\ proc'[p].state = "SLEEPING" /\ proc'[p].parent = r.parent
        /\ proc'[p].lk = r.lk
    BY <1>2, <1>3 DEF ProcRecord
  <1>5. \A x \in Slot : /\ proc'[x].state = "ZOMBIE" <=> proc[x].state = "ZOMBIE"
                        /\ proc'[x].parent = proc[x].parent
                        /\ x # p => proc'[x] = proc[x]
    BY <1>2, <1>3, <1>4
  <1>6. \A x \in Slot, l \in CondLock : AsleepOn(x, l)' => AsleepOn(x, l) \/ (x = p /\ l = r.lk)
    BY <1>2, <1>4, <1>5 DEF AsleepOn
  <1>7. \A x \in Slot, l \in After : WillWake(x, l) => WillWake(x, l)'
    BY <1>1, <1>5 DEF WillWake
  <1>8. /\ \A x \in Slot : Children(x)' = Children(x)
        /\ \A x \in Slot : NoZombie(Children(x))' <=> NoZombie(Children(x))
    BY <1>5 DEF Children, NoZombie
  <1>9. TicksOK'
    BY ZenonT(60), <1>1, <1>4, <1>5, <1>6, Values DEF SleepInv, TicksOK
  <1>10. SleeplockOK'
    BY ZenonT(60), <1>1, <1>4, <1>5, <1>6, <1>7, Values DEF SleepInv, SleeplockOK
  <1>11. WaitOK'
    <2>1. \A x \in Slot : AsleepOn(x, wait_lock)' =>
            NoZombie(Children(x))' \/ (x = initproc /\ WillWake(x, "reparent")')
      BY <1>1, <1>6, <1>7, <1>8, Values DEF SleepInv, WaitOK
    <2>2. ASSUME NEW x \in Slot
          PROVE  /\ proc'[x].pc = "zombie" /\ proc'[x].parent # Off =>
                      ~AsleepOn(proc[x].parent, wait_lock)'
                 /\ proc'[x].pc = "wakeup" /\ proc'[x].next = "zombie" /\ proc'[x].parent # Off =>
                      (AsleepOn(proc[x].parent, wait_lock)' => proc'[x].i <= proc'[x].parent)
                 /\ proc'[x].pc = "scan" => NoZombie({z \in Children(x) : z < proc[x].i})'
                 /\ proc'[x].pc = "sleep" /\ proc'[x].lk = wait_lock => NoZombie(Children(x))'
      <3>1. CASE x = p
        BY <1>4, <3>1
      <3>2. CASE x # p
        <4>1. proc[x].parent \in Slot \cup {Off} /\ proc'[x] = proc[x]
          BY <1>2, <1>5, <3>2 DEF ProcRecord
        <4>2. proc[x].pc = "zombie" \/ (proc[x].pc = "wakeup" /\ proc[x].next = "zombie")
                => r.lk # wait_lock
          <5> SUFFICES ASSUME HoldsAt(x, proc[x], wait_lock), r.lk = wait_lock PROVE FALSE
            BY DEF HoldsAt
          <5>1. HoldsAt(p, r, wait_lock)
            BY <1>1 DEF HoldsAt
          <5> QED
            BY <3>2, <5>1, Exclusive, Values
        <4>3. proc[x].parent # Off /\ r.lk # wait_lock =>
                (AsleepOn(proc[x].parent, wait_lock)' => AsleepOn(proc[x].parent, wait_lock))
          BY <1>4, <1>5, <4>1 DEF AsleepOn
        <4>4. /\ NoZombie(Children(x))' <=> NoZombie(Children(x))
              /\ NoZombie({z \in Children(x) : z < proc[x].i})' <=>
                   NoZombie({z \in Children(x) : z < proc[x].i})
          BY <1>5, <1>8, <4>1 DEF NoZombie, Children
        <4> QED
          BY <4>1, <4>2, <4>3, <4>4 DEF SleepInv, WaitOK
      <3> QED
        BY <3>1, <3>2
    <2> QED
      BY <2>1, <2>2 DEF WaitOK
  <1> QED
    BY <1>9, <1>10, <1>11 DEF SleepInv

-----------------------------------------------------------------------------
(* The loops of wakeup.                                                    *)

(* A sleeper that the loop from i has yet to reach is one of its slots.    *)
LEMMA VisitLeast ==
    ASSUME NEW p, NEW i \in Int, NEW x \in Slot, x # p, i <= x
    PROVE  /\ x \in Visit(p, i) /\ Least(Visit(p, i)) <= x
           /\ Least(Visit(p, i)) \in Slot /\ Least(Visit(p, i)) # p
           /\ x # Least(Visit(p, i)) => Least(Visit(p, i)) + 1 <= x
  <1> DEFINE q == Least(Visit(p, i))
  <1>1. x \in Visit(p, i) /\ Visit(p, i) \subseteq Slot
    BY Constants DEF Visit
  <1>2. q \in Visit(p, i) /\ q <= x
    BY <1>1, LeastSlot
  <1>3. q \in Slot /\ q # p /\ q \in Int /\ x \in Int
    BY <1>2, Constants DEF Visit
  <1> QED
    BY <1>1, <1>2, <1>3

(* A process sleeps on the channel that goes with the lock it gave up.     *)
LEMMA SleeperChan ==
    ASSUME SchedInv, NEW x \in Slot, NEW l \in CondLock, AsleepOn(x, l)
    PROVE  proc[x].chan = IF l = wait_lock THEN x ELSE l
  <1>1. LocalsOK(x, proc[x]) /\ proc[x].state = "SLEEPING" /\ proc[x].lk = l
    BY DEF SchedInv, AsleepOn
  <1> QED
    BY <1>1 DEF LocalsOK

LEMMA WakeupEndSleep ==
    ASSUME SchedInv, SleepInv, NEW p \in Slot, NEW c \in CPU, wakeup(p, c),
           Visit(p, proc[p].i) = {}
    PROVE  SleepInv'
  <1> DEFINE r == proc[p]
  <1>1. cpu[c] = p /\ r.pc = "wakeup" /\ UNCHANGED <<clock, locked, ticked>>
    BY DEF wakeup, At
  <1>2. /\ proc \in [Slot -> ProcRecord] /\ r \in ProcRecord /\ LocalsOK(p, r)
        /\ r.state = "RUNNING"
    BY <1>1, Stepping
  <1>3. proc'[p] = [r EXCEPT !.pc = r.next] /\ \A x \in Slot \ {p} : proc'[x] = proc[x]
    BY <1>2 DEF wakeup, Goto
  <1>4. /\ proc'[p].pc = r.next /\ proc'[p].state = "RUNNING" /\ proc'[p].parent = r.parent
        /\ r.next \in {"unlock", "reparent", "zombie"}
    BY <1>1, <1>2, <1>3 DEF ProcRecord, LocalsOK
  <1>5. \A x \in Slot : /\ proc'[x].state = proc[x].state /\ proc'[x].parent = proc[x].parent
                        /\ x # p => proc'[x] = proc[x]
    BY <1>2, <1>3, <1>4
  <1>6. \A x \in Slot, l \in CondLock : AsleepOn(x, l)' <=> AsleepOn(x, l)
    BY <1>2, <1>4, <1>5 DEF AsleepOn
  <1>7. \A x \in Slot : x # p => ~(r.i <= x)
    <2>1. r.i \in Int
      BY <1>2, IndexRange
    <2> QED
      BY <2>1, VisitLeast
  <1>8. ASSUME NEW x \in Slot, NEW l \in CondLock, AsleepOn(x, l), NEW k \in After, WillWake(x, k)
        PROVE  WillWake(x, k)'
    <2>1. x # p
      BY <1>2, <1>8 DEF AsleepOn
    <2> QED
      BY <1>5, <1>7, <1>8, <2>1 DEF WillWake
  <1>9. /\ \A x \in Slot : Children(x)' = Children(x)
        /\ \A x \in Slot : NoZombie(Children(x))' <=> NoZombie(Children(x))
    BY <1>5 DEF Children, NoZombie
  <1>10. TicksOK'
    BY <1>1, <1>4, <1>5, <1>6, Values DEF SleepInv, TicksOK
  <1>11. SleeplockOK'
    BY <1>1, <1>4, <1>5, <1>6, <1>8, Values DEF SleepInv, SleeplockOK
  <1>12. WaitOK'
    <2>1. \A x \in Slot : AsleepOn(x, wait_lock)' =>
            NoZombie(Children(x))' \/ (x = initproc /\ WillWake(x, "reparent")')
      BY <1>6, <1>8, <1>9, Values DEF SleepInv, WaitOK
    <2>2. ASSUME NEW x \in Slot
          PROVE  /\ proc'[x].pc = "zombie" /\ proc'[x].parent # Off =>
                      ~AsleepOn(proc[x].parent, wait_lock)'
                 /\ proc'[x].pc = "wakeup" /\ proc'[x].next = "zombie" /\ proc'[x].parent # Off =>
                      (AsleepOn(proc[x].parent, wait_lock)' => proc'[x].i <= proc'[x].parent)
                 /\ proc'[x].pc = "scan" => NoZombie({z \in Children(x) : z < proc[x].i})'
                 /\ proc'[x].pc = "sleep" /\ proc'[x].lk = wait_lock => NoZombie(Children(x))'
      <3>1. proc[x].parent \in Slot \cup {Off}
        BY <1>2 DEF ProcRecord
      <3>2. proc[x].parent # Off =>
              (AsleepOn(proc[x].parent, wait_lock)' <=> AsleepOn(proc[x].parent, wait_lock))
        BY <1>2, <1>4, <1>5, <3>1 DEF AsleepOn
      <3>3. CASE x = p
        <4>1. r.next = "zombie" /\ r.parent # Off => ~AsleepOn(r.parent, wait_lock)
          <5> SUFFICES ASSUME r.next = "zombie", r.parent # Off, AsleepOn(r.parent, wait_lock)
                       PROVE  FALSE
            OBVIOUS
          <5>1. r.i <= r.parent
            BY <1>1 DEF SleepInv, WaitOK
          <5>2. r.parent \in Slot /\ r.parent # p
            BY <1>2, <3>1, <3>3 DEF AsleepOn
          <5> QED
            BY <1>7, <5>1, <5>2
        <4> QED
          BY <1>4, <3>2, <3>3, <4>1
      <3>4. CASE x # p
        <4>1. proc'[x] = proc[x]
          BY <1>5, <3>4
        <4>2. /\ NoZombie(Children(x))' <=> NoZombie(Children(x))
              /\ NoZombie({z \in Children(x) : z < proc[x].i})' <=>
                   NoZombie({z \in Children(x) : z < proc[x].i})
          BY <1>5, <1>9, <4>1 DEF NoZombie, Children
        <4> QED
          BY <3>1, <3>2, <4>1, <4>2 DEF SleepInv, WaitOK
      <3> QED
        BY <3>3, <3>4
    <2> QED
      BY <2>1, <2>2 DEF WaitOK
  <1> QED
    BY <1>10, <1>11, <1>12 DEF SleepInv

LEMMA WakeupVisitSleep ==
    ASSUME SchedInv, SleepInv, NEW p \in Slot, NEW c \in CPU, wakeup(p, c),
           Visit(p, proc[p].i) # {}
    PROVE  SleepInv'
  <1> DEFINE r == proc[p]
             q == Least(Visit(p, r.i))
             w == Woken(q, r.arg)[q]
  <1>1. /\ cpu[c] = p /\ r.pc = "wakeup" /\ UNCHANGED <<clock, locked, ticked>>
    BY DEF wakeup, At
  <1>2. /\ proc \in [Slot -> ProcRecord] /\ r \in ProcRecord /\ LocalsOK(p, r)
        /\ r.state = "RUNNING" /\ r.i \in Int
    BY <1>1, Stepping, IndexRange
  <1>3. q \in Slot /\ q # p /\ lock[q] = Off
    <2>1. q \in Slot /\ q # p
      BY LeastSlot DEF Visit
    <2>2. Acquires(p) = q
      BY <1>1, AcquiresAt
    <2> QED
      BY <2>1, <2>2, Constants DEF wakeup, At, Free
  <1>4. proc' = [Woken(q, r.arg) EXCEPT ![p].i = q + 1]
    BY DEF wakeup
  <1>5. \A x \in Slot : x # p /\ r.i <= x => q <= x /\ (x # q => q + 1 <= x)
    BY <1>2, VisitLeast
  <1> HIDE DEF q
  <1>6. /\ Woken(q, r.arg) = [proc EXCEPT ![q] = w] /\ w \in ProcRecord
        /\ w.pc = proc[q].pc /\ w.next = proc[q].next /\ w.lk = proc[q].lk
        /\ w.parent = proc[q].parent /\ w.i = proc[q].i
        /\ \/ proc[q].state = "SLEEPING" /\ proc[q].chan = r.arg /\ w.state = "RUNNABLE"
           \/ ~(proc[q].state = "SLEEPING" /\ proc[q].chan = r.arg) /\ w = proc[q]
    BY <1>3, WokenFacts
  <1> HIDE DEF w
  <1>7. /\ proc'[p] = [r EXCEPT !.i = q + 1] /\ proc'[q] = w
        /\ \A x \in Slot \ {p, q} : proc'[x] = proc[x]
    BY <1>2, <1>3, <1>4, <1>6
  <1>8. /\ proc'[p].pc = "wakeup" /\ proc'[p].state = "RUNNING" /\ proc'[p].parent = r.parent
        /\ proc'[p].next = r.next /\ proc'[p].i = q + 1 /\ proc'[p].lk = r.lk
    BY <1>1, <1>2, <1>7 DEF ProcRecord
  <1>9. \A x \in Slot : /\ proc'[x].state = "ZOMBIE" <=> proc[x].state = "ZOMBIE"
                        /\ proc'[x].state = "SLEEPING" => proc[x].state = "SLEEPING"
                        /\ proc'[x].parent = proc[x].parent /\ proc'[x].pc = proc[x].pc
                        /\ proc'[x].lk = proc[x].lk /\ proc'[x].next = proc[x].next
                        /\ x # p => proc'[x].i = proc[x].i
    <2>1. ASSUME NEW x \in Slot \ {p, q}
          PROVE  proc'[x] = proc[x]
      BY <1>7
    <2>2. /\ w.state = "ZOMBIE" <=> proc[q].state = "ZOMBIE"
          /\ w.state = "SLEEPING" => proc[q].state = "SLEEPING"
      BY <1>6
    <2>3. /\ proc'[q].pc = proc[q].pc /\ proc'[q].next = proc[q].next /\ proc'[q].lk = proc[q].lk
          /\ proc'[q].parent = proc[q].parent /\ proc'[q].i = proc[q].i
          /\ proc'[q].state = "ZOMBIE" <=> proc[q].state = "ZOMBIE"
          /\ proc'[q].state = "SLEEPING" => proc[q].state = "SLEEPING"
      BY <1>6, <1>7, <2>2
    <2>4. /\ proc'[p].pc = r.pc /\ proc'[p].state = r.state /\ proc'[p].parent = r.parent
          /\ proc'[p].next = r.next /\ proc'[p].lk = r.lk
      BY <1>1, <1>2, <1>8
    <2> QED
      BY <2>1, <2>3, <2>4
  <1>10. \A x \in Slot, l \in CondLock : AsleepOn(x, l)' =>
            AsleepOn(x, l) /\ x # p /\ ~(x = q /\ proc[x].chan = r.arg)
    BY <1>6, <1>7, <1>8, <1>9 DEF AsleepOn
  <1>11. \A x \in Slot, l \in CondLock : AsleepOn(x, l) =>
            proc[x].chan = IF l = wait_lock THEN x ELSE l
    BY SleeperChan
  <1>12. ASSUME NEW x \in Slot, NEW l \in CondLock, AsleepOn(x, l)', NEW k \in After,
                WillWake(x, k),
                r.next = k => r.arg = IF l = wait_lock THEN x ELSE l
         PROVE  WillWake(x, k)'
    <2>1. PICK y \in Slot : proc[y].pc = "wakeup" /\ proc[y].next = k /\ proc[y].i <= x
      BY <1>12 DEF WillWake
    <2>2. CASE y # p
      BY <1>9, <2>1, <2>2 DEF WillWake
    <2>3. CASE y = p
      <3>1. x # p /\ x # q
        BY <1>10, <1>11, <1>12, <2>1, <2>3
      <3>2. q + 1 <= x
        BY <1>5, <2>1, <2>3, <3>1
      <3> QED
        BY <1>8, <2>1, <2>3, <3>2 DEF WillWake
    <2> QED
      BY <2>2, <2>3
  <1>13. /\ \A x \in Slot : Children(x)' = Children(x)
         /\ \A x \in Slot : NoZombie(Children(x))' <=> NoZombie(Children(x))
    BY <1>9 DEF Children, NoZombie
  <1>14. /\ r.next = "unlock" => r.arg = slk
         /\ r.next = "reparent" => r.arg = initproc
         /\ r.next = "zombie" => r.arg = r.parent
    BY <1>1, <1>2 DEF LocalsOK
  <1>15. TicksOK'
    BY <1>1, <1>9, <1>10, Values DEF SleepInv, TicksOK
  <1>16. SleeplockOK'
    <2>1. ASSUME NEW x \in Slot, AsleepOn(x, slk)'
          PROVE  locked' # Off \/ WillWake(x, "unlock")'
      <3>1. AsleepOn(x, slk)
        BY <1>10, <2>1, Values
      <3>2. r.next = "unlock" => r.arg = IF slk = wait_lock THEN x ELSE slk
        BY <1>14, Constants
      <3> QED
        BY <1>1, <1>12, <2>1, <3>1, <3>2, Values DEF SleepInv, SleeplockOK
    <2> QED
      BY <1>1, <1>9, <2>1 DEF SleepInv, SleeplockOK
  <1>17. WaitOK'
    <2>1. ASSUME NEW x \in Slot, AsleepOn(x, wait_lock)'
          PROVE  NoZombie(Children(x))' \/ (x = initproc /\ WillWake(x, "reparent")')
      <3>1. AsleepOn(x, wait_lock)
        BY <1>10, <2>1, Values
      <3>2. CASE NoZombie(Children(x))
        BY <1>13, <3>2
      <3>3. CASE ~NoZombie(Children(x))
        <4>1. x = initproc /\ WillWake(x, "reparent")
          BY <3>1, <3>3 DEF SleepInv, WaitOK
        <4> QED
          BY <1>12, <1>14, <2>1, <4>1, Values
      <3> QED
        BY <3>2, <3>3
    <2>2. ASSUME NEW x \in Slot
          PROVE  /\ proc'[x].pc = "zombie" /\ proc'[x].parent # Off =>
                      ~AsleepOn(proc[x].parent, wait_lock)'
                 /\ proc'[x].pc = "wakeup" /\ proc'[x].next = "zombie" /\ proc'[x].parent # Off =>
                      (AsleepOn(proc[x].parent, wait_lock)' => proc'[x].i <= proc'[x].parent)
                 /\ proc'[x].pc = "scan" => NoZombie({z \in Children(x) : z < proc[x].i})'
                 /\ proc'[x].pc = "sleep" /\ proc'[x].lk = wait_lock => NoZombie(Children(x))'
      <3>1. proc[x].parent \in Slot \cup {Off}
        BY <1>2 DEF ProcRecord
      <3>2. proc[x].parent # Off =>
              (AsleepOn(proc[x].parent, wait_lock)' => AsleepOn(proc[x].parent, wait_lock))
        BY <1>9, <3>1 DEF AsleepOn
      <3>3. CASE x = p
        <4>1. ASSUME r.next = "zombie", r.parent # Off, AsleepOn(r.parent, wait_lock)'
              PROVE  q + 1 <= r.parent
          <5>1. proc'[p].parent = r.parent
            BY <1>8
          <5>2. r.parent \in Slot /\ AsleepOn(r.parent, wait_lock)
                /\ r.parent # p /\ ~(r.parent = q /\ proc[r.parent].chan = r.arg)
            <6>1. r.parent \in Slot
              BY <3>1, <3>3, <4>1
            <6>2. proc'[r.parent].state = "SLEEPING" /\ proc'[r.parent].lk = wait_lock
              BY <4>1, <5>1 DEF AsleepOn
            <6>3. r.parent # p
              BY <1>8, <6>2
            <6>4. proc[r.parent].state = "SLEEPING" /\ proc[r.parent].lk = wait_lock
              BY <1>9, <6>1, <6>2
            <6>5. r.parent = q => proc[q].chan # r.arg
              BY <1>6, <1>7, <6>2
            <6> QED
              BY <6>1, <6>3, <6>4, <6>5 DEF AsleepOn
          <5>3. r.i <= r.parent
            BY <1>1, <4>1, <5>2 DEF SleepInv, WaitOK
          <5>4. r.parent # q
            BY <1>11, <1>14, <4>1, <5>2, Values
          <5> QED
            BY <1>5, <5>2, <5>3, <5>4
        <4> QED
          BY <1>8, <3>3, <4>1
      <3>4. CASE x # p
        <4>1. /\ proc'[x].pc = proc[x].pc /\ proc'[x].parent = proc[x].parent
              /\ proc'[x].lk = proc[x].lk /\ proc'[x].next = proc[x].next
              /\ proc'[x].i = proc[x].i
          BY <1>9, <3>4
        <4>2. /\ NoZombie(Children(x))' <=> NoZombie(Children(x))
              /\ NoZombie({z \in Children(x) : z < proc[x].i})' <=>
                   NoZombie({z \in Children(x) : z < proc[x].i})
          BY <1>9, <1>13, <4>1 DEF NoZombie, Children
        <4> QED
          BY <3>1, <3>2, <4>1, <4>2 DEF SleepInv, WaitOK
      <3> QED
        BY <3>3, <3>4
    <2> QED
      BY <2>1, <2>2 DEF WaitOK
  <1> QED
    BY <1>15, <1>16, <1>17 DEF SleepInv

LEMMA ClockSleep ==
    ASSUME SchedInv, SleepInv, clockintr \/ clockwakeup
    PROVE  SleepInv'
  <1> DEFINE p == cpu[Boot]
  <1>1. proc \in [Slot -> ProcRecord] /\ cpu \in [CPU -> Slot \cup {Off}] /\ Boot \in CPU
    BY Constants DEF SchedInv, TypeOK
  <1>2. clock # Off => \A x \in Slot : AsleepOn(x, tickslock) => x # p
    <2> SUFFICES ASSUME clock # Off, NEW x \in Slot, AsleepOn(x, tickslock), x = p PROVE FALSE
      OBVIOUS
    <2>1. proc[p].pc \in NoLocks
      BY <1>1, Constants DEF SchedInv, ClockOK
    <2>2. proc[p].pc = "sched"
      BY <1>1 DEF SchedInv, LocalsOK, AsleepOn
    <2> QED
      BY <2>1, <2>2 DEF NoLocks
  <1>3. clock \in Int
    BY ProcSizes DEF SchedInv, TypeOK
  <1>4. CASE clockintr
    <2>1. /\ UNCHANGED <<proc, locked>> /\ clock' = 1 /\ lock[tickslock] = Off
      BY <1>4 DEF clockintr
    <2>2. PlainProc
      BY <2>1 DEF PlainProc
    <2>3. \A x \in Slot : ~(proc[x].pc = "sleep" /\ proc[x].lk = tickslock)
      <3> SUFFICES ASSUME NEW x \in Slot, proc[x].pc = "sleep", proc[x].lk = tickslock PROVE FALSE
        OBVIOUS
      <3>1. HoldsAt(x, proc[x], tickslock)
        BY DEF HoldsAt
      <3>2. \A l \in CondLock : HoldsAt(x, proc[x], l) => lock[l] # Off
        BY HoldsCond, Constants
      <3> QED
        BY <2>1, <3>1, <3>2, Values
    <2>4. clock' # Off /\ \A x \in Slot : clock' <= x
      BY <2>1, Constants DEF Off
    <2>5. TicksOK'
      BY <2>1, <2>3, <2>4 DEF TicksOK
    <2> QED
      BY <2>2, <2>5, PlainWait DEF SleepInv
  <1>5. CASE clockwakeup /\ Visit(p, clock) # {}
    <2> DEFINE q == Least(Visit(p, clock))
               w == Woken(q, tickslock)[q]
    <2>1. /\ clock # Off /\ lock[q] = Off /\ proc' = Woken(q, tickslock) /\ clock' = q + 1
          /\ UNCHANGED <<locked, ticked>>
      BY <1>5 DEF clockwakeup
    <2>2. q \in Slot
      BY <1>5, LeastSlot DEF Visit
    <2>3. \A x \in Slot : x # p /\ clock <= x => (x # q => q + 1 <= x)
      BY <1>3, VisitLeast
    <2> HIDE DEF q
    <2>4. /\ proc' = [proc EXCEPT ![q] = w]
          /\ w.pc = proc[q].pc /\ w.next = proc[q].next /\ w.lk = proc[q].lk
          /\ w.parent = proc[q].parent /\ w.i = proc[q].i
          /\ \/ proc[q].state = "SLEEPING" /\ proc[q].chan = tickslock /\ w.state = "RUNNABLE"
             \/ ~(proc[q].state = "SLEEPING" /\ proc[q].chan = tickslock) /\ w = proc[q]
      BY <2>1, <2>2, WokenFacts
    <2> HIDE DEF w
    <2>5. proc'[q] = w /\ \A x \in Slot \ {q} : proc'[x] = proc[x]
      BY <1>1, <2>2, <2>4
    <2>6. PlainProc
      BY <2>1, <2>4, <2>5 DEF PlainProc
    <2>7. clock' # Off
      BY <2>1, <2>2, Constants DEF Off
    <2>8. ASSUME NEW x \in Slot, AsleepOn(x, tickslock)', x \in ticked
          PROVE  clock' <= x
      <3>1. AsleepOn(x, tickslock)
        BY <2>4, <2>5, <2>8 DEF AsleepOn
      <3>2. clock <= x /\ x # p
        BY <1>2, <2>1, <2>8, <3>1 DEF SleepInv, TicksOK
      <3>3. proc[x].chan = tickslock
        BY <3>1, SleeperChan, Values, Constants
      <3>4. x # q
        BY <2>4, <2>5, <2>8, <3>1, <3>3 DEF AsleepOn
      <3> QED
        BY <2>1, <2>3, <3>2, <3>4
    <2>9. TicksOK'
      <3>1. \A x \in Slot : proc'[x].pc = proc[x].pc /\ proc'[x].lk = proc[x].lk
        BY <2>4, <2>5
      <3> QED
        BY <2>1, <2>7, <2>8, <3>1 DEF SleepInv, TicksOK
    <2> QED
      BY <2>6, <2>9, PlainWait DEF SleepInv
  <1>6. CASE clockwakeup /\ Visit(p, clock) = {}
    <2>1. /\ clock # Off /\ clock' = Off /\ UNCHANGED <<locked, ticked>>
      BY <1>6 DEF clockwakeup
    <2>2. \A x \in Slot : AsleepOn(x, tickslock) => x \notin ticked
      <3> SUFFICES ASSUME NEW x \in Slot, AsleepOn(x, tickslock), x \in ticked PROVE FALSE
        OBVIOUS
      <3>1. x # p /\ clock <= x
        BY <1>2, <2>1 DEF SleepInv, TicksOK
      <3> QED
        BY <1>3, <1>6, <3>1, VisitLeast
    <2>3. \/ proc' = proc
          \/ /\ p \in Slot /\ proc[p].pc \in NoLocks
             /\ proc' = [proc EXCEPT ![p].pc = "yield", ![p].back = proc[p].pc]
      BY <1>1, <1>6, <2>1 DEF clockwakeup, SchedInv, ClockOK
    <2>4. ASSUME p \in Slot, proc[p].pc \in NoLocks,
                 proc' = [proc EXCEPT ![p].pc = "yield", ![p].back = proc[p].pc]
          PROVE  /\ \A x \in Slot : proc'[x].state = proc[x].state /\ proc'[x].lk = proc[x].lk
                                    /\ proc'[x].parent = proc[x].parent
                 /\ proc'[p].pc = "yield" /\ \A x \in Slot \ {p} : proc'[x] = proc[x]
      <3> DEFINE r == proc[p]
      <3>1. /\ proc'[p] = [r EXCEPT !.pc = "yield", !.back = r.pc] /\ r \in ProcRecord
            /\ \A x \in Slot \ {p} : proc'[x] = proc[x]
        BY <1>1, <2>4
      <3>2. /\ proc'[p].pc = "yield" /\ proc'[p].state = r.state /\ proc'[p].lk = r.lk
            /\ proc'[p].parent = r.parent
        BY <3>1 DEF ProcRecord
      <3> QED
        BY <3>1, <3>2
    <2>5. PlainProc
      BY <2>1, <2>3, <2>4 DEF PlainProc, Critical, NoLocks
    <2>6. TicksOK'
      <3>1. \A x \in Slot : AsleepOn(x, tickslock)' => AsleepOn(x, tickslock)
        BY <2>3, <2>4 DEF AsleepOn
      <3>2. \A x \in Slot : proc'[x].pc = "sleep" /\ proc'[x].lk = tickslock =>
               proc[x].pc = "sleep" /\ proc[x].lk = tickslock
        BY <2>3, <2>4
      <3> QED
        BY <2>1, <2>2, <3>1, <3>2 DEF SleepInv, TicksOK
    <2> QED
      BY <2>5, <2>6, PlainWait DEF SleepInv
  <1> QED
    BY <1>4, <1>5, <1>6

-----------------------------------------------------------------------------
(* kexit.                                                                  *)

(* Under wait_lock, nobody else is at a place that holds it.               *)
LEMMA WaitLockMine ==
    ASSUME SchedInv, NEW p \in Slot, proc[p].pc \in {"zombie", "reparent"},
           NEW x \in Slot \ {p}
    PROVE  /\ proc[x].pc # "zombie" /\ proc[x].pc # "scan"
           /\ ~(proc[x].pc = "wakeup" /\ proc[x].next # "unlock")
           /\ ~(proc[x].pc = "sleep" /\ proc[x].lk = wait_lock)
  <1>1. HoldsAt(p, proc[p], wait_lock)
    BY DEF HoldsAt
  <1>2. ~HoldsAt(x, proc[x], wait_lock)
    BY <1>1, Exclusive, Values
  <1> QED
    BY <1>2 DEF HoldsAt

LEMMA ZombieSleep ==
    ASSUME SchedInv, SleepInv, NEW p \in Slot, NEW c \in CPU, zombie(p, c)
    PROVE  SleepInv'
  <1> DEFINE r == proc[p]
  <1>1. cpu[c] = p /\ r.pc = "zombie" /\ UNCHANGED <<clock, locked, ticked>>
    BY DEF zombie, At
  <1>2. /\ proc \in [Slot -> ProcRecord] /\ r \in ProcRecord /\ LocalsOK(p, r)
        /\ r.state = "RUNNING"
    BY <1>1, Stepping
  <1>3. /\ proc'[p] = [r EXCEPT !.state = "ZOMBIE", !.pc = "sched"]
        /\ \A x \in Slot \ {p} : proc'[x] = proc[x]
    BY <1>2 DEF zombie
  <1>4. /\ proc'[p].pc = "sched" /\ proc'[p].state = "ZOMBIE" /\ proc'[p].parent = r.parent
    BY <1>2, <1>3 DEF ProcRecord
  <1>5. \A x \in Slot : proc'[x].parent = proc[x].parent /\ (x # p => proc'[x] = proc[x])
    BY <1>3, <1>4
  <1>6. \A x \in Slot, l \in CondLock : AsleepOn(x, l)' <=> AsleepOn(x, l)
    BY <1>2, <1>4, <1>5 DEF AsleepOn
  <1>7. \A x \in Slot, l \in After : WillWake(x, l) => WillWake(x, l)'
    BY <1>1, <1>5 DEF WillWake
  <1>8. \A x \in Slot : Children(x)' = Children(x)
    BY <1>5 DEF Children
  <1>9. TicksOK'
    BY <1>1, <1>4, <1>5, <1>6, Values DEF SleepInv, TicksOK
  <1>10. SleeplockOK'
    BY <1>1, <1>4, <1>5, <1>6, <1>7, Values DEF SleepInv, SleeplockOK
  <1>11. WaitOK'
    <2>1. ASSUME NEW x \in Slot, AsleepOn(x, wait_lock)'
          PROVE  NoZombie(Children(x))' \/ (x = initproc /\ WillWake(x, "reparent")')
      <3>1. AsleepOn(x, wait_lock)
        BY <1>6, <2>1, Values
      <3>2. r.parent # x
        BY <1>1, <3>1, Constants DEF SleepInv, WaitOK
      <3>3. NoZombie(Children(x)) => NoZombie(Children(x))'
        BY <1>5, <1>8, <3>2 DEF NoZombie, Children
      <3> QED
        BY <1>7, <3>1, <3>3, Values DEF SleepInv, WaitOK
    <2>2. ASSUME NEW x \in Slot
          PROVE  proc'[x].pc # "zombie" /\ proc'[x].pc # "scan"
                 /\ ~(proc'[x].pc = "wakeup" /\ proc'[x].next = "zombie")
                 /\ ~(proc'[x].pc = "sleep" /\ proc'[x].lk = wait_lock)
      BY <1>1, <1>4, <1>5, WaitLockMine
    <2> QED
      BY <2>1, <2>2 DEF WaitOK
  <1> QED
    BY <1>9, <1>10, <1>11 DEF SleepInv

LEMMA ReparentChildSleep ==
    ASSUME SchedInv, SleepInv, NEW p \in Slot, NEW c \in CPU, reparent(p, c), Children(p) # {}
    PROVE  SleepInv'
  <1> DEFINE r == proc[p]
             k == Least(Children(p))
             t == [r EXCEPT !.pc = "wakeup", !.i = 1, !.arg = initproc, !.next = "reparent"]
  <1>1. cpu[c] = p /\ r.pc = "reparent" /\ UNCHANGED <<clock, locked, ticked>>
    BY DEF reparent, At
  <1>2. /\ proc \in [Slot -> ProcRecord] /\ r \in ProcRecord /\ LocalsOK(p, r)
        /\ r.state = "RUNNING"
    BY <1>1, Stepping
  <1>3. k \in Slot
    BY LeastSlot DEF Children
  <1>4. proc' = [CallWakeup(p, initproc, "reparent") EXCEPT ![k].parent = initproc]
    BY DEF reparent
  <1> HIDE DEF k
  <1>5. CallWakeup(p, initproc, "reparent") = [proc EXCEPT ![p] = t]
    BY <1>2 DEF CallWakeup
  <1>6. t \in ProcRecord
    BY <1>2, Values, Constants DEF ProcRecord
  <1>7. t.pc = "wakeup" /\ t.next = "reparent" /\ t.i = 1 /\ t.state = "RUNNING" /\ t.parent = r.parent
    BY <1>2 DEF ProcRecord
  <1> HIDE DEF t
  <1>8. /\ \A x \in Slot \ {p, k} : proc'[x] = proc[x]
        /\ p # k => proc'[p] = t /\ proc'[k] = [proc[k] EXCEPT !.parent = initproc]
        /\ p = k => proc'[p] = [t EXCEPT !.parent = initproc]
    BY <1>2, <1>3, <1>4, <1>5, <1>6
  <1>9. /\ proc'[p].pc = "wakeup" /\ proc'[p].next = "reparent" /\ proc'[p].i = 1
        /\ proc'[p].state = "RUNNING" /\ proc'[p].parent \in {r.parent, initproc}
    BY <1>6, <1>7, <1>8 DEF ProcRecord
  <1>10. \A x \in Slot \ {p} :
            /\ proc'[x].pc = proc[x].pc /\ proc'[x].next = proc[x].next /\ proc'[x].i = proc[x].i
            /\ proc'[x].state = proc[x].state /\ proc'[x].lk = proc[x].lk
            /\ proc'[x].parent \in {proc[x].parent, initproc}
    <2>1. ASSUME p # k
          PROVE  /\ proc'[k].pc = proc[k].pc /\ proc'[k].next = proc[k].next
                 /\ proc'[k].i = proc[k].i /\ proc'[k].state = proc[k].state
                 /\ proc'[k].lk = proc[k].lk /\ proc'[k].parent = initproc
      <3>1. proc[k] \in ProcRecord
        BY <1>2, <1>3
      <3> QED
        BY <1>8, <2>1, <3>1 DEF ProcRecord
    <2> QED
      BY <1>8, <2>1
  <1>11. \A x \in Slot, l \in CondLock : AsleepOn(x, l)' <=> AsleepOn(x, l)
    BY <1>2, <1>9, <1>10 DEF AsleepOn
  <1>12. \A x \in Slot, l \in After : WillWake(x, l) => WillWake(x, l)'
    BY <1>1, <1>10 DEF WillWake
  <1>13. TicksOK'
    BY <1>1, <1>9, <1>10, <1>11, Values DEF SleepInv, TicksOK
  <1>14. SleeplockOK'
    BY <1>1, <1>9, <1>10, <1>11, <1>12, Values DEF SleepInv, SleeplockOK
  <1>15. WaitOK'
    <2>1. ASSUME NEW x \in Slot, AsleepOn(x, wait_lock)'
          PROVE  NoZombie(Children(x))' \/ (x = initproc /\ WillWake(x, "reparent")')
      <3>1. CASE x = initproc
        BY <1>9, <3>1, Constants DEF WillWake
      <3>2. CASE x # initproc
        <4>1. NoZombie(Children(x))
          BY <1>11, <2>1, <3>2, Values DEF SleepInv, WaitOK
        <4>2. \A z \in Slot : z \in Children(x)' => z \in Children(x)
          BY <1>9, <1>10, <3>2 DEF Children
        <4>3. \A z \in Slot : proc'[z].state = proc[z].state
          BY <1>2, <1>9, <1>10
        <4> QED
          BY <4>1, <4>2, <4>3 DEF NoZombie, Children
      <3> QED
        BY <3>1, <3>2
    <2>2. ASSUME NEW x \in Slot
          PROVE  proc'[x].pc # "zombie" /\ proc'[x].pc # "scan"
                 /\ ~(proc'[x].pc = "wakeup" /\ proc'[x].next = "zombie")
                 /\ ~(proc'[x].pc = "sleep" /\ proc'[x].lk = wait_lock)
      BY <1>1, <1>9, <1>10, WaitLockMine
    <2> QED
      BY <2>1, <2>2 DEF WaitOK
  <1> QED
    BY <1>13, <1>14, <1>15 DEF SleepInv

-----------------------------------------------------------------------------
LEMMA StepSleep ==
    ASSUME SchedInv, SleepInv, NEW p \in Slot, NEW c \in CPU, Step(p, c)
    PROVE  SleepInv'
  <1>1. CASE sched(p, c)
    BY <1>1, SwitchPlain
  <1>2. cpu[c] = p
    BY DEF Step, Resume, sched, Interrupt, yield, sleep, relock, wakeup, usertrap, kfork, setparent,
       setrunnable, kkill, kexit, reparent, zombie, kwait, scan, sys_pause, ticks, acquiresleep,
       whilelocked, releasesleep, unlock, At
  <1>3. CASE \/ Resume(p, c) \/ yield(p, c) \/ usertrap(p, c) \/ kexit(p, c)
             \/ sys_pause(p, c) \/ acquiresleep(p, c) \/ Interrupt(p, c)
    BY <1>2, <1>3, MovesPlain
  <1>4. CASE kfork(p, c) \/ setparent(p, c) \/ setrunnable(p, c) \/ kkill(p, c)
    BY <1>2, <1>4, CallsPlain
  <1>5. CASE kwait(p, c) \/ relock(p, c) \/ ticks(p, c) \/ unlock(p, c)
    BY <1>2, <1>5, MovesSleep
  <1>6. CASE whilelocked(p, c)
    BY <1>2, <1>6, MovesPlain, MovesSleep
  <1>7. CASE reparent(p, c)
    BY <1>2, <1>7, MovesSleep, ReparentChildSleep
  <1>8. CASE wakeup(p, c)
    BY <1>8, WakeupEndSleep, WakeupVisitSleep
  <1> QED
    BY <1>1, <1>3, <1>4, <1>5, <1>6, <1>7, <1>8, ScanSleep, ReleaseSleep, SleepSleep, ZombieSleep
    DEF Step

LEMMA InitSleep == Init => SleepInv
  <1> SUFFICES ASSUME Init PROVE SleepInv
    OBVIOUS
  <1> DEFINE r == [Unused EXCEPT !.state = "RUNNABLE", !.pc = "sched", !.back = "user"]
  <1>1. r.state = "RUNNABLE" /\ r.pc = "sched" /\ Unused.state = "UNUSED" /\ Unused.pc = "user"
    BY DEF Unused
  <1> HIDE DEF r
  <1>2. \A q \in Slot : /\ proc[q].state \in {"RUNNABLE", "UNUSED"}
                        /\ proc[q].pc \in {"sched", "user"}
    BY <1>1 DEF Init, r
  <1> QED
    BY <1>2 DEF SleepInv, TicksOK, SleeplockOK, WaitOK, AsleepOn

(***************************************************************************)
(* The stronger invariant with what is true of every sleeping process      *)
(* (SleepInv) holds in every state: the condition it sleeps on in kwait,   *)
(* sys_pause or acquiresleep is false, or the call that made it true has   *)
(* yet to pass the sleeper in its wakeup.                                  *)
(***************************************************************************)
THEOREM KProcInvariant == Spec => []KProcInv
  <1>1. Init => SleepInv
    BY InitSleep
  <1>2. SchedInv /\ SleepInv /\ [Next]_vars => SleepInv'
    <2> SUFFICES ASSUME SchedInv, SleepInv, [Next]_vars PROVE SleepInv'
      OBVIOUS
    <2>1. CASE UNCHANGED vars
      <3>1. Plain
        BY <2>1 DEF vars, Plain, PlainProc
      <3> QED
        BY <3>1, PlainKeeps
    <2>2. CASE Next
      <3>1. CASE clockintr \/ clockwakeup
        BY <3>1, ClockSleep
      <3>2. ASSUME NEW c \in CPU, NEW p \in Slot, scheduler(c, p) \/ Step(p, c)
            PROVE  SleepInv'
        BY <3>2, SwitchPlain, StepSleep
      <3> QED
        BY <2>2, <3>1, <3>2 DEF Next
    <2> QED
      BY <2>1, <2>2
  <1> QED
    BY <1>1, <1>2, SchedInvariant, PTL DEF Spec, KProcInv

(***************************************************************************)
(* No process sleeps through the event it waits for, whatever the number   *)
(* of CPUs and processes: sleep gives the condition's lock up only when it *)
(* has p->lock, and wakeup takes every p->lock in turn.                    *)
(***************************************************************************)
THEOREM NoSleeperForgotten == Spec => []NoMissedWakeup
  <1>1. KProcInv => NoMissedWakeup
    <2> SUFFICES ASSUME SchedInv, SleepInv, NEW p \in Slot,
                        proc[p].state = "SLEEPING", lock[proc[p].lk] = Off
                 PROVE  /\ proc[p].lk = wait_lock => \A q \in Children(p) : proc[q].state # "ZOMBIE"
                        /\ proc[p].lk = tickslock => p \notin ticked
                        /\ proc[p].lk = slk => locked # Off
      BY DEF KProcInv, NoMissedWakeup
    <2>1. ASSUME proc[p].lk = wait_lock
          PROVE  \A q \in Children(p) : proc[q].state # "ZOMBIE"
      <3>1. ~WillWake(p, "reparent")
        BY <2>1, WakerHolds DEF WillWake
      <3> QED
        BY <2>1, <3>1 DEF SleepInv, WaitOK, NoZombie, AsleepOn
    <2>2. ASSUME proc[p].lk = tickslock PROVE p \notin ticked
      <3>1. clock = Off
        BY <2>2, Constants DEF SchedInv, LocksExact, CondLock
      <3> QED
        BY <2>2, <3>1 DEF SleepInv, TicksOK, AsleepOn
    <2>3. ASSUME proc[p].lk = slk PROVE locked # Off
      <3>1. ~WillWake(p, "unlock")
        BY <2>3, WakerHolds DEF WillWake
      <3> QED
        BY <2>3, <3>1 DEF SleepInv, SleeplockOK, AsleepOn
    <2> QED
      BY <2>1, <2>2, <2>3
  <1> QED
    BY <1>1, KProcInvariant, PTL
=============================================================================
