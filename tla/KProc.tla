------------------------------- MODULE KProc -------------------------------
(***************************************************************************)
(* The process table of xv6 at the grain of its spinlocks: fork, exit,     *)
(* wait, kill, pause, sleeplocks, sleep and wakeup, the per-CPU schedulers *)
(* and the clock (kernel/proc.c, sysproc.c, sleeplock.c, spinlock.c,       *)
(* trap.c).  A step is an acquire with the code up to the next acquire;    *)
(* releases are part of the step before.  A process holds its locks        *)
(* through the CPU it runs on, since interrupts are off meanwhile.         *)
(***************************************************************************)
EXTENDS Integers, FiniteSets

CONSTANTS NPROC, NCPU,
          Programs    \* sets of calls, other than fork and wait

ASSUME ProcSizes == /\ NPROC \in Nat \ {0} /\ NCPU \in Nat \ {0}
                    /\ Programs \subseteq SUBSET {"exit", "kill", "pause", "acquiresleep"}

Slot == 1 .. NPROC
CPU  == 1 .. NCPU
initproc == 1
Boot == 1             \* cpuid() == 0: the CPU that counts ticks

\* Spinlocks: p->lock is the slot's number.  A channel is the number of a slot
\* (kwait) or of the lock that goes with it (&ticks, the sleeplock).
wait_lock == -1
tickslock == -2
slk       == -3       \* lk->lk of the sleeplock
Lock == Slot \cup {wait_lock, tickslock, slk}
Off  == 0             \* no lock, no channel, no process, lock held by nobody

VARIABLES proc,       \* the fields of each slot, and where its process is
          cpu,        \* cpu[c]: the process c runs, or Off in the scheduler
          lock,       \* the CPU that holds each lock
          clock,      \* Off, or the slot that clockintr's wakeup looks at next
          locked,     \* the sleeplock: the slot of its holder
          ticked,     \* processes in pause whose tick has come
          calls       \* the calls the programs of this run make; never changes

vars == <<proc, cpu, lock, clock, locked, ticked, calls>>

\* i, kids: locals of the loops.  arg: kfork's np, kkill's victim, wakeup's chan.  next: where wakeup or sleep returns.
\* back: where the process goes on after sched.  lk: the lock sleep gave up.
Unused == [state |-> "UNUSED", chan |-> Off, killed |-> FALSE, parent |-> Off, pc |-> "user",
           i |-> 1, kids |-> FALSE, arg |-> Off, next |-> "", back |-> "", lk |-> Off]

\* userinit.
Init ==
  /\ proc = [q \in Slot |-> IF q = initproc
                            THEN [Unused EXCEPT !.state = "RUNNABLE", !.pc = "sched", !.back = "user"]
                            ELSE Unused]
  /\ cpu = [c \in CPU |-> Off]
  /\ lock = [l \in Lock |-> Off]
  /\ clock = Off /\ locked = Off /\ ticked = {}
  /\ calls \in Programs
-----------------------------------------------------------------------------
Held(c) == {l \in Lock : lock[l] = c}
Goto(p, l) == [proc EXCEPT ![p].pc = l]
\* The system call returns; its locals are gone.
Return(p) == [proc EXCEPT ![p] = [proc[p] EXCEPT !.pc = "user", !.i = 1, !.kids = FALSE, !.arg = Off, !.next = "", !.lk = Off]]
Children(p) == {q \in Slot : proc[q].parent = p}
Least(S) == CHOOSE q \in S : \A r \in S : q <= r

\* push_off, pop_off: no interrupt is taken while the CPU holds a lock.
IntrOnAlways(c) == TRUE
IntrOn(c) == Held(c) = {}

\* The slots wakeup visits from i on: all but the caller's.
Visit(p, i) == {q \in Slot : q >= i /\ q # p}

\* The child kwait looks at next.
NextChild(p) == {q \in Children(p) : q >= proc[p].i}

\* kwait looks at a child under its lock: it may still be in exit or swtch.
ChildLockNone(q) == Off
ChildLock(q) == q

\* The lock that the next step of p acquires first (Off: none).
Acquires(p) ==
  LET r == proc[p] IN
  CASE r.pc \in {"user", "yield", "zombie", "sleep"} -> p
    [] r.pc \in {"parent", "exit", "wait"}       -> wait_lock
    [] r.pc = "pause"                            -> tickslock
    [] r.pc \in {"acquiresleep", "releasesleep"} -> slk
    [] r.pc \in {"runnable", "kill"}             -> r.arg
    [] r.pc = "relock"                           -> r.lk
    [] r.pc = "wakeup" /\ Visit(p, r.i) # {}     -> Least(Visit(p, r.i))
    [] r.pc = "scan" /\ NextChild(p) # {}        -> ChildLock(Least(NextChild(p)))
    [] r.pc = "scan" /\ NextChild(p) = {} /\ r.kids -> p
    [] r.pc = "ticks" /\ p \notin ticked         -> p
    [] OTHER                                     -> Off

Free(l) == l # Off => lock[l] = Off

\* p runs on c at label l, with the lock it asks for free; an interrupt
\* handler keeps the CPU from p until it is done.
At(p, c, l) ==
  /\ cpu[c] = p /\ proc[p].pc = l /\ ~(c = Boot /\ clock # Off)
  /\ Free(Acquires(p))

\* acquire and release of the locks a step leaves changed.
Takes(l, c) == lock' = [lock EXCEPT ![l] = c]
Drops(l)    == lock' = [lock EXCEPT ![l] = Off]
-----------------------------------------------------------------------------
(* The schedulers and sched.                                               *)

\* scheduler: c finds p RUNNABLE under p->lock and switches to it.
scheduler(c, p) ==
  /\ cpu[c] = Off /\ ~(c = Boot /\ clock # Off)
  /\ lock[p] = Off /\ proc[p].state = "RUNNABLE"
  /\ proc' = [proc EXCEPT ![p].state = "RUNNING"]
  /\ cpu' = [cpu EXCEPT ![c] = p]
  /\ Takes(p, c)
  /\ UNCHANGED <<clock, locked, ticked>>

\* The end of sched for p: forkret, yield and sleep release p->lock; sleep
\* also clears chan.
Resume(p, c) ==
  /\ At(p, c, "sched") /\ proc[p].state = "RUNNING" /\ lock[p] = c
  /\ proc' = [proc EXCEPT ![p].pc = proc[p].back, ![p].back = "", ![p].chan = Off]
  /\ Drops(p)
  /\ UNCHANGED <<cpu, clock, locked, ticked>>

\* sched gives the CPU to the scheduler, which releases p->lock.
sched(p, c) ==
  /\ At(p, c, "sched") /\ proc[p].state # "RUNNING"
  /\ cpu' = [cpu EXCEPT ![c] = Off]
  /\ Drops(p)
  /\ UNCHANGED <<proc, clock, locked, ticked>>

\* A timer interrupt on another CPU than the first: kerneltrap or usertrap
\* calls yield.
Interrupt(p, c) ==
  /\ c # Boot /\ cpu[c] = p /\ IntrOn(c) /\ proc[p].pc # "yield"
  /\ proc' = [proc EXCEPT ![p].pc = "yield", ![p].back = proc[p].pc]
  /\ UNCHANGED <<cpu, lock, clock, locked, ticked>>

\* clockintr on the first CPU: ticks++ under tickslock, then wakeup(&ticks),
\* which visits every slot but that of the process it interrupted.
clockintr ==
  /\ clock = Off /\ IntrOn(Boot) /\ lock[tickslock] = Off
  /\ cpu[Boot] # Off => proc[cpu[Boot]].pc # "yield"
  /\ ticked' = {q \in Slot : proc[q].lk = tickslock}
  /\ clock' = 1 /\ Takes(tickslock, Boot)
  /\ UNCHANGED <<proc, cpu, locked>>

Woken(q, chan) == IF proc[q].state = "SLEEPING" /\ proc[q].chan = chan
                  THEN [proc EXCEPT ![q].state = "RUNNABLE"] ELSE proc

clockwakeup ==
  LET p == cpu[Boot] IN
  /\ clock # Off
  /\ \/ /\ Visit(p, clock) # {}
        /\ LET q == Least(Visit(p, clock)) IN
           /\ lock[q] = Off
           /\ proc' = Woken(q, tickslock)
           /\ clock' = q + 1
        /\ UNCHANGED lock
     \/ /\ Visit(p, clock) = {}
        /\ proc' = IF p = Off THEN proc
                   ELSE [proc EXCEPT ![p].pc = "yield", ![p].back = proc[p].pc]
        /\ clock' = Off /\ Drops(tickslock)
  /\ UNCHANGED <<cpu, locked, ticked>>

\* yield; a trap from user space first looks at killed.
yield(p, c) ==
  /\ At(p, c, "yield")
  /\ \/ /\ proc[p].back = "user" /\ proc[p].killed
        /\ proc' = Goto(p, "exit")
        /\ UNCHANGED lock
     \/ /\ ~(proc[p].back = "user" /\ proc[p].killed)
        /\ proc' = [proc EXCEPT ![p].state = "RUNNABLE", ![p].pc = "sched"]
        /\ Takes(p, c)
  /\ UNCHANGED <<cpu, clock, locked, ticked>>
-----------------------------------------------------------------------------
(* sleep and wakeup.                                                       *)

\* sleep(chan, lk): take p->lock, give up lk, SLEEPING, sched.
sleepEarly(p, c) ==   \* lk is given up before p->lock is taken
  LET r == proc[p] IN
  /\ cpu[c] = p /\ r.pc = "sleep" /\ ~(c = Boot /\ clock # Off)
  /\ \/ lock[r.lk] = c /\ Drops(r.lk) /\ UNCHANGED proc
     \/ /\ lock[r.lk] # c /\ lock[p] = Off
        /\ proc' = [proc EXCEPT ![p] = [r EXCEPT !.state = "SLEEPING", !.pc = "sched", !.back = "relock",
                                                 !.chan = IF r.lk = wait_lock THEN p ELSE r.lk]]
        /\ Takes(p, c)
  /\ UNCHANGED <<cpu, clock, locked, ticked>>
sleep(p, c) ==
  LET r == proc[p] IN
  /\ At(p, c, "sleep")
  /\ proc' = [proc EXCEPT ![p] = [r EXCEPT !.state = "SLEEPING", !.pc = "sched", !.back = "relock",
                                           !.chan = IF r.lk = wait_lock THEN p ELSE r.lk]]
  /\ lock' = [lock EXCEPT ![p] = c, ![r.lk] = Off]
  /\ UNCHANGED <<cpu, clock, locked, ticked>>

relock(p, c) ==
  /\ At(p, c, "relock")
  /\ proc' = [proc EXCEPT ![p].pc = proc[p].next, ![p].i = 1, ![p].kids = FALSE]
  /\ Takes(proc[p].lk, c)
  /\ UNCHANGED <<cpu, clock, locked, ticked>>

\* One slot of wakeup(chan); the caller goes on at next.
wakeup(p, c) ==
  LET r == proc[p]  todo == Visit(p, r.i) IN
  /\ At(p, c, "wakeup")
  /\ proc' = IF todo = {} THEN Goto(p, r.next)
             ELSE [Woken(Least(todo), r.arg) EXCEPT ![p].i = Least(todo) + 1]
  /\ UNCHANGED <<cpu, lock, clock, locked, ticked>>

\* Call wakeup(chan), then go on at l.
CallWakeup(p, chan, l) == [proc EXCEPT ![p].pc = "wakeup", ![p].i = 1, ![p].arg = chan, ![p].next = l]
-----------------------------------------------------------------------------
(* The system calls.                                                       *)

\* What a program may ask for: init only forks and waits (user/init.c).  Nobody
\* kills init here; KSys lets a program kill it, and kexit panics then.
Calls(p) == {"fork", "wait"} \cup IF p = initproc THEN {} ELSE calls

\* usertrap: killed is looked at on the way out of one call and on the way in
\* to the next, which is one step here: a program does nothing in between.
usertrap(p, c) ==
  /\ At(p, c, "user")
  /\ \/ proc[p].killed /\ proc' = Goto(p, "exit")
     \/ /\ ~proc[p].killed
        /\ \E l \in Calls(p) \ {"kill"} : proc' = Goto(p, l)
     \/ /\ ~proc[p].killed /\ "kill" \in Calls(p)
        /\ \E v \in Slot \ {initproc} : proc' = [proc EXCEPT ![p].pc = "kill", ![p].arg = v]
  /\ UNCHANGED <<cpu, lock, clock, locked, ticked>>

\* allocproc takes the first UNUSED slot, holding its lock until kfork has
\* filled it; without one, fork fails.
kfork(p, c) ==
  LET S == {q \in Slot : proc[q].state = "UNUSED"} IN
  /\ At(p, c, "fork")
  /\ \/ S = {} /\ proc' = Return(p)
     \/ /\ S # {} /\ lock[Least(S)] = Off
        /\ proc' = [proc EXCEPT ![Least(S)] = [Unused EXCEPT !.state = "USED", !.pc = "sched", !.back = "user"],
                                ![p].pc = "parent", ![p].arg = Least(S)]
  /\ UNCHANGED <<cpu, lock, clock, locked, ticked>>

\* np->parent = p under wait_lock.
setparent(p, c) ==
  /\ At(p, c, "parent")
  /\ proc' = [proc EXCEPT ![proc[p].arg].parent = p, ![p].pc = "runnable"]
  /\ UNCHANGED <<cpu, lock, clock, locked, ticked>>

setrunnable(p, c) ==
  /\ At(p, c, "runnable")
  /\ proc' = [Return(p) EXCEPT ![proc[p].arg].state = "RUNNABLE"]
  /\ UNCHANGED <<cpu, lock, clock, locked, ticked>>

\* kkill: a process that sleeps becomes RUNNABLE.  A pid of no process is
\* that of an UNUSED slot.
kkill(p, c) ==
  LET v == proc[p].arg IN
  /\ At(p, c, "kill")
  /\ proc' = IF proc[v].state = "UNUSED" THEN Return(p)
             ELSE [Return(p) EXCEPT ![v].killed = TRUE,
                                    ![v].state = IF @ = "SLEEPING" THEN "RUNNABLE" ELSE @]
  /\ UNCHANGED <<cpu, lock, clock, locked, ticked>>

\* kexit takes wait_lock and calls reparent: each child goes to init, which
\* is woken; then the parent is woken.
kexit(p, c) ==
  /\ At(p, c, "exit")
  /\ proc' = Goto(p, "reparent")
  /\ Takes(wait_lock, c)
  /\ UNCHANGED <<cpu, clock, locked, ticked>>

reparent(p, c) ==
  /\ At(p, c, "reparent")
  /\ proc' = IF Children(p) = {} THEN CallWakeup(p, proc[p].parent, "zombie")
             ELSE [CallWakeup(p, initproc, "reparent") EXCEPT ![Least(Children(p))].parent = initproc]
  /\ UNCHANGED <<cpu, lock, clock, locked, ticked>>

\* p->lock, ZOMBIE, release wait_lock, sched.
zombieHolding(p, c) ==   \* wait_lock is kept over sched
  /\ At(p, c, "zombie")
  /\ proc' = [proc EXCEPT ![p].state = "ZOMBIE", ![p].pc = "sched"]
  /\ Takes(p, c)
  /\ UNCHANGED <<cpu, clock, locked, ticked>>
zombie(p, c) ==
  /\ At(p, c, "zombie")
  /\ proc' = [proc EXCEPT ![p].state = "ZOMBIE", ![p].pc = "sched"]
  /\ lock' = [lock EXCEPT ![p] = c, ![wait_lock] = Off]
  /\ UNCHANGED <<cpu, clock, locked, ticked>>

kwait(p, c) ==
  /\ At(p, c, "wait")
  /\ proc' = [proc EXCEPT ![p].pc = "scan", ![p].i = 1, ![p].kids = FALSE]
  /\ Takes(wait_lock, c)
  /\ UNCHANGED <<cpu, clock, locked, ticked>>

\* One child of kwait's scan, looked at under its lock; at the end of the
\* scan p returns or sleeps on itself.
scan(p, c) ==
  LET r == proc[p]  q == Least(NextChild(p)) IN
  /\ At(p, c, "scan")
  /\ \/ /\ NextChild(p) # {} /\ proc[q].state = "ZOMBIE"
        /\ proc' = [Return(p) EXCEPT ![q] = Unused]
        /\ Drops(wait_lock)
     \/ /\ NextChild(p) # {} /\ proc[q].state # "ZOMBIE"
        /\ proc' = [proc EXCEPT ![p].i = q + 1, ![p].kids = TRUE]
        /\ UNCHANGED lock
     \/ /\ NextChild(p) = {} /\ (~r.kids \/ r.killed)
        /\ proc' = Return(p)
        /\ Drops(wait_lock)
     \/ /\ NextChild(p) = {} /\ r.kids /\ ~r.killed
        /\ proc' = [proc EXCEPT ![p].pc = "sleep", ![p].lk = wait_lock, ![p].next = "scan"]
        /\ UNCHANGED lock
  /\ UNCHANGED <<cpu, clock, locked, ticked>>
\* sys_pause for one tick.
sys_pause(p, c) ==
  /\ At(p, c, "pause")
  /\ proc' = [proc EXCEPT ![p].pc = "ticks", ![p].lk = tickslock]
  /\ ticked' = ticked \ {p}
  /\ Takes(tickslock, c)
  /\ UNCHANGED <<cpu, clock, locked>>

ticks(p, c) ==
  LET done == p \in ticked \/ proc[p].killed IN
  /\ At(p, c, "ticks")
  /\ proc' = IF done THEN Return(p)
             ELSE [proc EXCEPT ![p].pc = "sleep", ![p].next = "ticks"]
  /\ IF done THEN Drops(tickslock) ELSE UNCHANGED lock
  /\ ticked' = IF done THEN ticked \ {p} ELSE ticked
  /\ UNCHANGED <<cpu, clock, locked>>

\* acquiresleep, the section it guards, and releasesleep.
acquiresleep(p, c) ==
  /\ At(p, c, "acquiresleep")
  /\ proc' = Goto(p, "locked")
  /\ Takes(slk, c)
  /\ UNCHANGED <<cpu, clock, locked, ticked>>

whilelocked(p, c) ==
  /\ At(p, c, "locked")
  /\ \/ /\ locked # Off
        /\ proc' = [proc EXCEPT ![p].pc = "sleep", ![p].lk = slk, ![p].next = "locked"]
        /\ UNCHANGED <<lock, locked>>
     \/ /\ locked = Off
        /\ proc' = Goto(p, "releasesleep")
        /\ locked' = p /\ Drops(slk)
  /\ UNCHANGED <<cpu, clock, ticked>>

releasesleep(p, c) ==
  /\ At(p, c, "releasesleep")
  /\ proc' = CallWakeup(p, slk, "unlock")
  /\ locked' = Off /\ Takes(slk, c)
  /\ UNCHANGED <<cpu, clock, ticked>>

unlock(p, c) ==
  /\ At(p, c, "unlock")
  /\ proc' = Return(p)
  /\ Drops(slk)
  /\ UNCHANGED <<cpu, clock, locked, ticked>>

Step(p, c) ==
  \/ Resume(p, c) \/ sched(p, c) \/ Interrupt(p, c) \/ yield(p, c)
  \/ sleep(p, c) \/ relock(p, c) \/ wakeup(p, c)
  \/ usertrap(p, c)
  \/ kfork(p, c) \/ setparent(p, c) \/ setrunnable(p, c) \/ kkill(p, c)
  \/ kexit(p, c) \/ reparent(p, c) \/ zombie(p, c) \/ kwait(p, c) \/ scan(p, c)
  \/ sys_pause(p, c) \/ ticks(p, c)
  \/ acquiresleep(p, c) \/ whilelocked(p, c) \/ releasesleep(p, c) \/ unlock(p, c)

Next ==
  /\ clockintr \/ clockwakeup \/ \E c \in CPU, p \in Slot : scheduler(c, p) \/ Step(p, c)
  /\ UNCHANGED calls

Spec == Init /\ [][Next]_vars
-----------------------------------------------------------------------------
\* kwait frees a process only once it is off its CPU, and no process is on two
\* CPUs: what a CPU runs is RUNNING, or on its way through sched with its lock
\* held by that very CPU.
RunsOnce ==
  /\ \A c \in CPU : cpu[c] # Off =>
       \/ proc[cpu[c]].state = "RUNNING"
       \/ proc[cpu[c]].pc = "sched" /\ lock[cpu[c]] = c /\ proc[cpu[c]].state # "UNUSED"
  /\ \A c, d \in CPU : c # d /\ cpu[c] = cpu[d] => cpu[c] = Off

\* What sched panics about when it looks at locks: p->lock is held, and it is the
\* only lock held by the CPU.
SchedLocks == \A c \in CPU : cpu[c] # Off /\ proc[cpu[c]].pc = "sched" => Held(c) = {cpu[c]}

\* No wakeup is missed between the test and the sleep: with the condition's
\* lock free, a process asleep in wait has no zombie child, one asleep in pause
\* has not had its tick, one asleep in acquiresleep finds the lock held.
NoMissedWakeup ==
  \A p \in Slot : LET r == proc[p] IN
    r.state = "SLEEPING" /\ lock[r.lk] = Off =>
      /\ r.lk = wait_lock => \A q \in Children(p) : proc[q].state # "ZOMBIE"
      /\ r.lk = tickslock => p \notin ticked
      /\ r.lk = slk       => locked # Off

\* No CPUs spin on each other: in every set of CPUs that hold locks and
\* wait for one, some member waits for a lock held outside the set.
Wanted(c) == IF c = Boot /\ clock # Off
             THEN IF Visit(cpu[c], clock) = {} THEN Off ELSE Least(Visit(cpu[c], clock))
             ELSE IF cpu[c] = Off THEN Off ELSE Acquires(cpu[c])
NoSpinDeadlock ==
  \A S \in (SUBSET CPU) \ {{}} : \E c \in S : Wanted(c) = Off \/ lock[Wanted(c)] \notin S
-----------------------------------------------------------------------------
(* The inductive invariant of the four properties.                         *)

\* Where a process holds no lock, so that an interrupt may find it there.
NoLocks == {"user", "fork", "parent", "runnable", "kill", "exit", "wait", "pause",
            "acquiresleep", "releasesleep", "relock"}
CondLock == {wait_lock, tickslock, slk}
State == {"UNUSED", "USED", "RUNNABLE", "RUNNING", "SLEEPING", "ZOMBIE"}
Place == NoLocks \cup {"yield", "sched", "sleep", "wakeup", "reparent", "zombie", "scan",
                       "ticks", "locked", "unlock"}
After == {"", "reparent", "zombie", "unlock", "scan", "ticks", "locked"}
ProcRecord ==
  [state : State, chan : Slot \cup CondLock \cup {Off}, killed : BOOLEAN,
   parent : Slot \cup {Off}, pc : Place, i : 1 .. NPROC + 1, kids : BOOLEAN,
   arg : Slot \cup {Off, slk}, next : After, back : NoLocks \cup {""},
   lk : CondLock \cup {Off}]

TypeOK ==
  /\ proc \in [Slot -> ProcRecord]
  /\ cpu \in [CPU -> Slot \cup {Off}]
  /\ lock \in [Lock -> CPU \cup {Off}]
  /\ clock \in 0 .. NPROC + 1
  /\ locked \in Slot \cup {Off}
  /\ ticked \subseteq Slot
  /\ calls \in Programs

\* Where r is, or will be after yield or sched.
Label(r) == IF r.pc \in {"yield", "sched"} THEN r.back ELSE r.pc

\* The locals of process q: who does not run is in sched, who is in sched or
\* yield knows where to go on, and sleep and wakeup were called from one of
\* the places that call them.
LocalsOK(q, r) ==
  /\ r.state # "RUNNING" => r.pc = "sched" \/ (r.state = "UNUSED" /\ r.pc = "user")
  /\ r.pc \in {"yield", "sched"} /\ r.state # "ZOMBIE" => r.back # ""
  /\ r.pc \notin {"yield", "sched"} \/ r.state = "ZOMBIE" => r.back \in {"", "user"}
  /\ Label(r) \in {"kill", "parent", "runnable"} => r.arg \in Slot
  /\ Label(r) \in {"sleep", "relock"} =>
       \/ r.lk = wait_lock /\ r.next = "scan"
       \/ r.lk = tickslock /\ r.next = "ticks"
       \/ r.lk = slk /\ r.next = "locked"
  /\ r.pc = "ticks" => r.lk = tickslock
  /\ r.pc = "wakeup" => \/ r.next = "unlock" /\ r.arg = slk
                        \/ r.next = "reparent" /\ r.arg = initproc
                        \/ r.next = "zombie" /\ r.arg = r.parent
  /\ r.state = "SLEEPING" => /\ r.back = "relock"
                             /\ r.chan = IF r.lk = wait_lock THEN q ELSE r.lk

\* The slot kfork is filling is nobody else's.
ForksOK ==
  /\ \A p \in Slot : Label(proc[p]) \in {"parent", "runnable"} => proc[proc[p].arg].state = "USED"
  /\ \A p, q \in Slot :
       /\ Label(proc[p]) \in {"parent", "runnable"} /\ Label(proc[q]) \in {"parent", "runnable"}
       /\ proc[p].arg = proc[q].arg
       => p = q

\* The CPU that runs q holds l.
HoldsAt(q, r, l) ==
  \/ r.pc = "sched" /\ l = q
  \/ r.pc \in {"reparent", "zombie", "scan"} /\ l = wait_lock
  \/ r.pc = "ticks" /\ l = tickslock
  \/ r.pc \in {"locked", "unlock"} /\ l = slk
  \/ r.pc = "sleep" /\ l = r.lk
  \/ r.pc = "wakeup" /\ l = IF r.next = "unlock" THEN slk ELSE wait_lock

\* A CPU holds the locks of the process it runs, and of clockintr.
LocksExact ==
  \A c \in CPU, l \in Lock :
    lock[l] = c <=> \/ cpu[c] # Off /\ HoldsAt(cpu[c], proc[cpu[c]], l)
                    \/ c = Boot /\ clock # Off /\ l = tickslock

\* clockintr interrupts nobody who holds a lock.
ClockOK == clock # Off /\ cpu[Boot] # Off => proc[cpu[Boot]].pc \in NoLocks

CpusOK ==
  /\ \A c \in CPU : cpu[c] # Off => proc[cpu[c]].state = "RUNNING" \/
       (proc[cpu[c]].pc = "sched" /\ proc[cpu[c]].state \in {"RUNNABLE", "SLEEPING", "ZOMBIE"})
  /\ \A c, d \in CPU : cpu[c] = cpu[d] /\ cpu[c] # Off => c = d
  /\ \A q \in Slot : proc[q].state = "RUNNING" => \E c \in CPU : cpu[c] = q

SchedInv == /\ TypeOK
            /\ \A q \in Slot : LocalsOK(q, proc[q])
            /\ ForksOK /\ LocksExact /\ ClockOK /\ CpusOK

\* q sleeps on the condition that lk protects.
AsleepOn(q, l) == proc[q].state = "SLEEPING" /\ proc[q].lk = l

\* A loop of wakeup that goes on at label has yet to reach the sleeper q.
WillWake(q, label) ==
  \E p \in Slot : proc[p].pc = "wakeup" /\ proc[p].next = label /\ proc[p].i <= q

\* Pause: clockintr's loop has yet to reach the sleepers whose tick has come,
\* and who is about to sleep has not had its tick.
TicksOK ==
  /\ \A q \in Slot : AsleepOn(q, tickslock) /\ q \in ticked => clock # Off /\ clock <= q
  /\ \A q \in Slot : proc[q].pc = "sleep" /\ proc[q].lk = tickslock => q \notin ticked

\* The sleeplock: who sleeps finds it held, or releasesleep's loop reaches it.
SleeplockOK ==
  /\ \A q \in Slot : AsleepOn(q, slk) => locked # Off \/ WillWake(q, "unlock")
  /\ \A q \in Slot : proc[q].pc = "sleep" /\ proc[q].lk = slk => locked # Off

NoZombie(S) == \A z \in S : proc[z].state # "ZOMBIE"

\* wait: a sleeper with a zombie child is init, about to be woken by reparent;
\* who exits wakes its parent before it is a zombie; and kwait, under
\* wait_lock, has passed over no zombie.
WaitOK ==
  /\ \A q \in Slot : AsleepOn(q, wait_lock) =>
       NoZombie(Children(q)) \/ (q = initproc /\ WillWake(q, "reparent"))
  /\ \A p \in Slot : LET r == proc[p] IN
       /\ r.pc = "zombie" /\ r.parent # Off => ~AsleepOn(r.parent, wait_lock)
       /\ r.pc = "wakeup" /\ r.next = "zombie" /\ r.parent # Off =>
            (AsleepOn(r.parent, wait_lock) => r.i <= r.parent)
       /\ r.pc = "scan" => NoZombie({z \in Children(p) : z < r.i})
       /\ r.pc = "sleep" /\ r.lk = wait_lock => NoZombie(Children(p))

SleepInv == TicksOK /\ SleeplockOK /\ WaitOK

KProcInv == SchedInv /\ SleepInv
=============================================================================
