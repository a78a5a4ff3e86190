# Monitors and IPC: TLA+ models, checks and proofs

The repository holds three small systems programs in two phases (`a2-phase1`,
superseded, and `a2-phase2`, modelled here): a Hoare monitor built from message passing
with a readers/writers program on it (Part B), mutex system calls added to xv6 with a
user-level thread test (Part A), and a UDP chat program on real-time threads (Part C).
Parts B and C keep their queues in the list library of an earlier assignment. The rest
of the tree is xv6 itself, kernel and user programs, and most of it is modelled too: it
is what the mutex calls run on.

All paths below are under `src/a2-phase2/` unless they say otherwise, and kernel and
user files are those of `xv6-A2/`.

## 1. Inventory

| Part | State | Operations | Interacts through | What is hard | What makes it correct |
|---|---|---|---|---|---|
| List library (`list_*.c`, `list.h`) | static arrays of nodes and lists, two free chains | create, append, first, remove, count, cursor moves, concat, free, trim, search | called by MonServer and s-chat | long sequences of legal calls; exhaustion of the pool; node reuse | a list returns its items in the order they came |
| Monitor (`Monitor.c`) | owner, lock flag, entry, urgent and condition queues | MonInit, MonEnter, MonLeave, MonWait, MonSignal; one server process | Send/Receive/Reply, one message per call | order of messages, who is resumed, calls before MonInit | mutual exclusion, immediate transfer, FIFO, nobody forgotten |
| Readers/writers (`reader_writer*.c`) | `numReaders`, `busyWriting` | StartRead, StopRead, StartWrite, StopWrite | the monitor | a condition tested before a wait and used after it; starvation | writers work alone, everyone works |
| Kernel mutexes (`kernel/proc.c`) | mutex table, spinlocks, process states | mtx_create, mtx_lock, mtx_unlock, sleep, wakeup, kill, exit | spinlocks and wait channels | lost wakeups, lock order, killed holders | exclusion, no lost wakeup, owner and locked agree |
| User threads (`user/uthread*`) | thread table, saved contexts | thread_init, _create, _yield, _exit, _schedule, _switch | one process; mutex calls block all its threads | slot reuse, a full table, starvation | a thread continues where it stopped, everyone runs |
| s-chat (`s-chat.c`) | two lists on one pool, two semaphores, peer address, shutdown flag | four threads and mainp | semaphores; UDP between two copies | bursts, loss, duplication, reordering, lines that do not fit, exit while lines are queued | what appears was sent, no line is lost or doubled inside the programs, every line that fits appears |
| Processes (`kernel/proc.c`, `sysproc.c`, `spinlock.c`, `sleeplock.c`) | process table, CPUs, wait_lock, ticks | fork, exit, wait, kill, pause, sleep, wakeup, yield, scheduler, clock interrupt | spinlocks, channels, context switches | a parent and a child on two CPUs, interrupts with locks held | nothing runs twice, every zombie is collected, no missed wakeup |
| Pipes (`kernel/pipe.c`) | ring, two open flags | alloc, close, read, write | descriptors shared by fork | both sides asleep, the last close | a sleeper's condition has not come; ends match descriptors |
| Log and buffers (`kernel/log.c`, `bio.c`) | cache with reference counts, header, counters | begin_op, end_op, log_write, commit, recover, bread, brelse, bpin | disk writes | crash between any two writes, eviction, a full log | groups of operations are atomic |
| File system (`kernel/fs.c`, `file.c`, `sysfile.c`) | bit map, inodes, directories, inode and file tables | the file system calls | inode locks, the log | two calls on one path, unlinked open files, lock order, out of space | image consistent, references exact, no deadlock |
| Memory (`kernel/vm.c`, `kalloc.c`, `exec.c`) | free list, page tables | fork's copy, sbrk, faults, copyin/out, exec, exit | process calls | failure half way, lazily mapped pages | every page is accounted for |
| Devices (`kernel/virtio_disk.c`, `uart.c`, `console.c`) | descriptors and rings; input ring; tx_busy | disk requests, console reads and writes, interrupt handlers | rings shared with the device, interrupts | completions out of order and in the handler, indices that wrap | right data, every call returns, line discipline |
| User programs (`user/*.c`) | a program's variables | usertests, sh, init, grind, primes, find, ... | system calls | orders of processes nobody tried | the tests pass in every order |

`PROJECT.json` lists every component, those left out too, and under `hazards` what
is hard to test at the line where it bites.

## 2. Modules

| Module | Models | Notes |
|---|---|---|
| `ListPool` | the list library operations the programs use | pure operators from a pool record to a pool record |
| `Monitor` | `Monitor.c` on `ListPool` | server handlers, client calls, the inductive invariant |
| `HoareMonitor` | what the monitor promises | abstract: FIFO sequences |
| `MonitorRefinement` | mapping of `Monitor` to `HoareMonitor` | reads each queue off the nodes; the inductive invariant of shallow use |
| `ReaderWriter` | `reader_writer_monitor.c`, `reader_writer.c` on `Monitor` | composition |
| `KMutex` | the mutex system calls with sleep/wakeup, scheduler, kill, exit | one step per lock operation; the inductive invariant |
| `SChat` | `s-chat.c`, several copies and the network, on `ListPool` | one step per RT Threads call |
| `UThread` | `uthread.c`, `uthread_switch.S`, main of `mtxtest.c` | |
| `KProc` | process table, sleeplocks, schedulers, clock | one step per spinlock; the inductive invariant |
| `KLog`, `AtomicLog` | `log.c` and `bio.c`; what they promise | refinement, crashes; the inductive invariant |
| `FsOps` | block, inode and directory layers of `fs.c` | operators on an image |
| `KFs` | inode and file tables, file system calls | on `FsOps`; transactions as `AtomicLog` promises them |
| `VmOps` | `vm.c`, `kalloc.c`, memory of `exec.c` and `proc.c` | operators on an address space and a count of free pages |
| `KSys` | processes that run programs: process, pipe, memory and exec calls | composes `KFs` and `VmOps` |
| `UserCode` | the instructions a program is made of | |
| `UserTests`, `MemTests`, `UserPrograms` | `usertests.c`; `sh.c`, `init.c`, `grind.c`, `primes.c`, `find.c`, ... | programs for `KSys` |
| `UserLib` | parser of `sh.c`, matcher of `grep.c`, `umalloc.c` | functions with reference definitions |
| `VirtioDisk`, `Terminal`, `LineDiscipline`, `Devices` | `virtio_disk.c`; `console.c` and `uart.c`; what a console promises; both as `devintr` serves them | the inductive invariants of both |
| `MonitorProofs`, `UThreadProofs`, `KMutexProofs`, `KProcProofs`, `KLogProofs`, `DevicesProofs`, `KFsProofs`, `KSysProofs` | TLAPS proofs about the module each is named for (`MonitorProofs` also about `MonitorRefinement` and `ReaderWriter`, `KLogProofs` about the mapping to `AtomicLog`, `DevicesProofs` about `VirtioDisk` and `Terminal`) | section 6 |
| `MC*` | constants, and for `KFs` and `KSys` the calls and tests to run | |

Operators that begin with the comment `Mutant:` are wrong variants of the operator
that follows them. No specification uses them; they show that a property can fail.

### How the models correspond to the code

*ListPool.* A pool record has one function per field of `pool_nodes[]` and
`pool_lists[]`, so that index arithmetic, stale fields and the -1 of a missing
neighbour are as in C. `ListAppend` keeps the code's order of stores: on an empty
list the new node becomes the tail first and is then linked behind itself
(`list_adders.c:140-147`). A node that is its own predecessor is never taken for the
head by `ListRemove` (`list_removers.c:83`), so a list that has held two items is left
with a head on a freed node. Much of what the runs show follows from this.

*Monitor.* Each `case` of MonServer's switch is an action (`ServeEnter`, ...), run to
its end, because the server is a single process; the loop of MON_INIT is one step per
turn. A client call is `Call` or `MonInit`, and the client stays blocked (`"sent"`, then
`"held"` when the server keeps the reply back) until `Reply`. `Receive` may take any
sent message. The -1 replies are ignored by the client functions and so by the model.
A NULL item dereferenced by the server sets `crashed`, which ends everything: the
processes are threads of one Unix process. MonInit's test for a server and its assignment of
`MonServer_pid` are one step; two first calls that overtake each other there are left out. `Send` to a server that does not exist
returns NULL, and the client function then returns to its caller.

*ReaderWriter.* `pc` is the next statement of a process; each step is the code between
two monitor calls, and the call itself is `Monitor`'s `Call`. `CallsInitialize` chooses
between mainp as it is (FALSE) and one that initialises the monitor (TRUE).

*KMutex.* Each process has a CPU. A step is one acquire, or the code up to the next
acquire, release or unprotected store. `sleep` takes `p->lock`, releases the mutex's
spinlock and goes to sleep; the scheduler's part is `Schedule`. `mtx_create`'s three
stores are three steps, because they are not made under the lock that the other two
calls use. Calls with an id outside the table return at once and change nothing; the
guard `m \in Mutex` leaves them out. The variable `use`, fixed at the start, restricts the
callers (not the kernel): `disciplined` ones unlock only what they hold.

*SChat.* One step is the code of a thread between two RT Threads calls. A semaphore is
the FIFO of threads that called RttP. A line is its writer, its number (for timestamp and
text) and its length; sending adds the ten-byte header, receiving cuts to MAXLINE bytes and
drops what is then too short. listener_thread stores no zero behind the text it copies
(`s-chat.c:150-154`), so what display_thread prints with `%s` is the text and perhaps a
`tail`: none if malloc's memory held zeros, any otherwise. Lines are shorter than MAXLINE:
a read of MAXLINE bytes makes keyboard_input write behind its buffer (line 78). Packets
shorter than the header are not sent, since only s-chat programs send. Polls that find
nothing are no steps. Failures of socket set-up are left out. `session`, fixed at the start,
says who types how many lines and how long, whether somebody may type "exit", whether the
network is reliable and whether malloc's memory holds zeros.

*UThread.* A context is the flow of control it would continue. Threads may create, yield
and exit in any order; main is that of `mtxtest.c`. `thread_create` on a full table stops
the model (`overrun`), since the code then writes past the array.

*KProc.* A step is one acquire and the code up to the next; a CPU that waits for a lock
is at that acquire. Locks belong to the CPU, `push_off` keeps its interrupts off, and the
clock may interrupt a CPU whenever they are on, in the scheduler too. init forks and
waits and, unlike in `KSys`, is never killed. The test of `killed` is part of the step that follows it.

*KLog.* A block holds the number of the operation that wrote it, so that a stale copy shows. Disk writes are
steps of their own; a crash may come between any two, in `recover_from_log` as well, and
loses the cache. begin_op adds the length of the log and the reservations, as the code does. A panic ends everything. Processes also read blocks outside operations, which moves the LRU list.

*FsOps and KFs.* The unit of a file's size is one directory entry and a block holds one;
what is a name in a directory is a character in a file. `FsOps` has the code of `bmap`,
`writei`, `dirlink` and the like on an image, failures for want of blocks included. `KFs`
has one step per stretch of code under an inode lock, `namex` one per path element, and
`iput` three, since it gives `itable.lock` up in between. What `create` allocates (an inode,
blocks of the directory) is part of the step that holds the directory's lock, so that calls
in other directories do not come between ialloc and balloc. `begin_op` counts operations
(`MaxOps`) and not the blocks already logged, so it may let in what log.c keeps waiting and
never the reverse; `NoFsDeadlock` supposes instead that the log is full whenever any
operation runs. The image on disk becomes the cached one when the last operation ends, as
`KLog` shows. `panic` names the panic reached: those of ilock, iget, sys_unlink and bfree. A
crash resets memory; `fsinit` then runs ireclaim as the code does, an operation for
each orphan with iget, ilock, iunlock and iput, before anybody else, and the machine may
stop again in between.

*VmOps and KSys.* A page table has two levels instead of three; a page is a few units. A
program is a sequence of instructions, each a system call or a piece of C between two of
them, taken from the test's or the program's source with smaller repetition counts.
User buffers are readable or writable as a whole or not at all. A step is the part of a
call under one lock. Steps no other process can see (`Local`) are taken at once, which
leaves out only other orders of independent steps. RUNNABLE and RUNNING are one state:
`KProc` has the scheduler. kfork sets the child's parent in the step that takes
the slot (in `KProc` later, under wait_lock). kill(0) finds an unused slot, whose `killed`
allocproc keeps, as in `proc.c`. A failing copyout of wait's status leaves the zombie where
it is. A test checks what it checks in C; where a program only prints,
`MCKSys` adds a check of what it leaves behind.

*UserLib.* `parsecmd` works on tokens; `nulterminate` has nothing to do. As in the code,
`a & b` is an error ("leftovers"), `>>` opens like `>` without truncating and does not
append, and words after a redirection are still arguments.

*Devices.* The device fetches requests and completes them in any order, at any moment,
also while the handler runs; the PLIC serves one interrupt of a device at a time. The
console echoes from the handler, without `tx_lock`, while a process is in `uartwrite`. A copy
to or from the user may fail in `consoleread` and `consolewrite`: the character taken is then
lost, and the rest of a write is not made.

## 3. Runs that pass

| Run | Instance | Shows |
|---|---|---|
| `monitor` | 3 clients, 1 condition, 4 nodes, 3 lists; any calls at any time; and the executions in which no queue holds two | TypeOK, MutualExclusion; for shallow queues NoCrash, HeldIsQueued and the refinement of HoareMonitor |
| `rw_one_each` | 1 reader, 1 writer, fair | writer alone, conditions hold on resumption, everyone works |
| `kmutex` | 3 processes; any use without kills, and disciplined use with kills | NoLostWakeup for both; MutexExclusion, OwnerOnlyIfLocked and SleeperIsWoken for disciplined use |
| `schat` | 2 programs, four sessions, paced; lossy and reliable networks, clean and used memory, an exit | OneCopy, DisplayedWasSent; over a reliable network ReceivedOnce and LineIsDisplayed |
| `uthread_any` | 4 slots, 5 creations, fair | ContextsInPlace, EveryThreadRuns |
| `kproc` | 3 slots, 2 CPUs, programs that kill, pause or take a sleeplock | RunsOnce, SchedLocks, NoMissedWakeup, NoSpinDeadlock |
| `klog` | 2 processes, 3 blocks, log of 3, 3 buffers, 3 operations, 1 read outside, 1 crash | refinement of AtomicLog, PanicOnlyWhenFull, SleepersAwaited |
| `kfs` | 2 processes, 5 inodes, 13 blocks, the five uses below | CrashConsistent, OrphansReclaimed, RefsExact, IputNeverBlocks, PanicOnlyByDotDot, NoFsDeadlock |
| `ksys_files` | the file, process and pipe tests of usertests, one per behaviour | TestsPass, SleepersWake, ParentLives, no deadlock |
| `ksys_programs` | the memory tests and the other programs, one per behaviour | TestsPass, PagesConserved, PipeEndsExact, no deadlock; the assumptions on `UserLib` |
| `devices` | 3 disk requests on 8 descriptors; 3 keys and 2 reads; 2 keys, a read and 2 characters written | TransfersExact, refinement of LineDiscipline, EveryCallReturns, no deadlock |

Bounds. Three clients are the fewest with which one is in the monitor and two share a
queue, where the list library goes wrong. One condition is enough because condition
queues do not refer to each other; four nodes and three lists are the fewest that satisfy
`PoolsSuffice` (section 6), so that an operation may find no other one free; the MonInit arguments lie on both sides of MAX_CONDS
and the condition arguments on both sides of the range. One reader and one writer are the
most with which the readers/writers program never has two processes in a queue. Three
processes give a mutex a holder and two waiters, so that a woken waiter can meet a
newcomer. s-chat's lines have the longest length that fits and one more; MAXLINE is 12
instead of 1024 because only its distance to the header matters. ReceivedOnce and LineIsDisplayed are
about the lines that fit; the others are dropped on receipt (section 4). A lossy network makes
no, one or two copies of a datagram and delivers them in any order. Five creations on
four slots reuse slots and also overrun the table.

Three slots and two CPUs give a parent and a child that run at once and a third process
that is preempted, killed or orphaned; that reparent's wakeup of init matters needs a
fourth slot and is left to `ksys_files`. The log and the buffer cache have one size, as in
`param.h:10-11`: what is logged pins nearly every buffer before the log is full, so that bget's
panic is reached, and `PanicOnlyWhenFull` says when. An operation of one block is the smallest
that shows a group; what an operation of several blocks adds, atomicity within it, is the
same commit, and the theorem about it has operations of any size.

`kfs` has five uses, fixed at the start in `MCKFs`; in each, process 1 first makes what the
others find. In two, with crashes (one at any step, and one more during recovery), three
calls create, link, write, truncate, unlink and close files `a` and `d/a` and remove
and make `d`; the disk is nearly full in one of them. Without crashes, three calls link, remove,
look up, enter and make names in `d`, and in `d/..`, when `d` holds a file or a directory, and
four enter and remove `d` and `d/e` and open `..`. Thirteen blocks hold a root with entries
behind its indirect block and directories with a third entry, so that link and create in
`d` succeed in some executions and fail for want of inodes or blocks in others. Two locks
are then held in every combination the code has (a directory and its entry, an entry made
through `..`), with an operation that waits for the log. Every inode has an entry in the
inode table: a table too small for the files that are open is another matter (section 4). ilock's
panic is reached in the use with `..`, which shows that `PanicOnlyByDotDot` says something;
none of the others is. The tests of usertests run
with the repetition counts of `UserTests` and `MemTests`, each chosen so that the limit the
test is about (a full directory block, a file at its maximum, the last inode, page,
descriptor or process) is met. The ring indices of the disk and of the console start one
before they wrap. Three requests of three descriptors exceed eight, so that one waits.

`use = "shallow"` and `Paced` select executions: the first leaves out the steps that put a
second process into a queue, so that what it shows, and the theorems about it, says nothing of
the damage to longer queues; `Paced` lets a line or a datagram come only when the list it
will join is empty. They describe the load under which the list library is exact. The
runs of section 4 describe what lies beyond.

Deadlock is checked in `kproc`, `ksys_files`, `ksys_programs` and `devices`, where the
machine always has something to do or says that it is finished. It is not where the
system may stop: all clients may be blocked in the monitor (or simply not call), all
processes may have exited, all lines may have been displayed, all calls may have been made.

## 4. Disagreements with the documents

`monitor_queue` states what a document of the repository says, and TLC finds an execution
of the code against it: partB.design.txt:82 has the server grant the monitor to the first
process of a queue; the server dereferences NULL once a queue has held two. The quotations
are in `PROJECT.json` under `findings`.

The modules state further properties that documents or comments claim and TLC refutes on
the instance given here. They are not among the runs because each needs one of its own.

| Property | Instance | Claim | Execution |
|---|---|---|---|
| `ReaderWriter!WriterAloneIfServed` | 3 readers, 2 writers, `CallsInitialize = TRUE` | partB.design.txt:240 "Writers get exclusive access (no readers or other writers)" | a writer resumed through a damaged queue does not test its condition again (`if` at reader_writer_monitor.c:87, against the `while` of partB.design.txt:223), and writes beside another |
| `ReaderWriter!WriterAlone` | `rw_one_each` with `CallsInitialize = FALSE`, under `RWSpec` | the same | mainp never calls Initialize, every call finds no server (Monitor.c:291) and returns |
| `ReaderWriter!EveryoneWorks` | `rw_one_each` with two writers and no reader | partB.design.txt:232 has StopWrite do "MonSignal(OKtoWrite);  // Wake waiting writer" | StopWrite signals OKtoRead only (reader_writer_monitor.c:105); the second writer waits for ever |
| `Monitor!SignalWakesAWaiter` | that of `monitor_queue` | partB.design.txt:317 "MonSignal() wakes exactly one waiting process" | a damaged condition queue hands the monitor to a process that waits for something else |
| `KMutex!OwnerMatchesLocked` | `kmutex` | partA.design.txt:154-155 "All mutex state changes occur within spinlock protection", "Prevents inconsistent intermediate states" | mtx_create holds another lock than mtx_unlock; an unlock between lines 723 and 724 of proc.c leaves an unlocked mutex with an owner |
| `KMutex!OnlyOwnerUnlocks` | `kmutex` | partA.design.txt:82 "Only the owning process can unlock a mutex" | sys_mtx_unlock does not look at the owner |
| `KMutex!WaiterGetsMutex` | 2 processes, disciplined, no kills, `FairSpinlockSpec` | partA.design.txt:78 "First-come-first-served scheduling" | a woken waiter is overtaken again and again |
| `SChat!DisplayedWasSent` | `schat` with `Paced = FALSE` | partC.testplan.txt:124 "Timestamps and payload text match what was typed by the peer." | once a list has held two lines its head is a freed node that the other list reuses: a line typed at the program's own keyboard is displayed |
| `SChat!DisplayedAsTyped` | `schat`, under `Spec` | the same | the text is stored without a zero (s-chat.c:150-154) in memory from malloc and printed with %s (:177) |
| `SChat!EveryLineAppears` | `schat` | partC.design.txt:26 "Every line typed appears on both terminals" | recvfrom takes MAXLINE bytes (s-chat.c:140), header included; a longer line is cut and dropped |
| `SChat!NoCrash` | `schat` with `Paced = FALSE` | partC.design.txt:105 "Messages are correctly displayed on both platforms without crashes." | two lines in one list leave its head on a freed node (list_removers.c:83); the next dequeue returns NULL, which s-chat.c:176 or :203 dereferences |
| `SChat!ExitEndsBoth` | `schat` with one session: one typist, 2 lines, exits, reliable | partC.design.txt:94 "Typing 'exit' on one side causes both programs to terminate gracefully" | the peer prints the line and goes on |
| `SChat!DoneAfterSending` | `schat` | partC.design.txt:26 "Every line typed appears on both terminals" | mainp kills the speaker (s-chat.c:314) while a line is queued |
| `SChat!SendsToPeer` | three programs, the third naming the first | partC.design.txt:12-13 "Two users ... communicate" | a datagram of the third replaces the first's cliaddr |
| `UThread!MainReturns` | `uthread_any` with `EndingSpec` | mtxtest.c:72 "If we return here, all threads exited or no runnable threads remain" | the last thread_exit ends the process with exit(-1) |
| `KFs!NoPanic` | `kfs` | the code's own panic("ilock: no type") | a process's current directory and then its parent are removed; namex of ".." takes the parent's number from the removed directory, and ilock (fs.c:316) finds the inode free |
| `KFs!NoPanic` | `kfs` with 4 inodes, `NINODE = 3`, `NFILE = 4`, `NOFILE = 2`, one process | param.h:5 "maximum number of active i-nodes", 50, below NFILE 100 | iget finds no entry for one more open file and panics (fs.c:268) |
| `KLog!NoLogPanic` | 4 blocks, 4 processes, `LOGBLOCKS = NBUF = 3`, no operations, 4 reads | the code's own panic("bget: no buffers"); param.h:1 and :11 | more processes than buffers (64 and 30 in the code) hold one each while they wait for the disk; `klog` reaches the panic too, when logged blocks pin two of three buffers and the other is held |

Further observations made while modelling, without a property:

- usertests.c:2341 expects of fsfull "answer: balloc panics, so this test is not useful";
  balloc returns 0 and the test passes in `ksys_files`.
- Creating a file in a removed directory leaks the inode; the model notes such inodes as
  `strays` and leaves them out when it compares names with link counts.
- sys_sbrk grows a process lazily without a check against TRAPFRAME (sysproc.c:50-74).
- When alloc3_desc gives up, its free_desc wakes the other waiters, which fail and wake in
  turn, until the device completes a request.
- uartputc_sync writes to the UART without tx_lock; the FIFO of the device makes it harmless.
- A consoleread that is killed returns -1 after it has consumed characters.
- Of a kill that comes between a call's `killed` test and sleep's acquire of `p->lock` the
  victim learns only when something else wakes it. `KProc` has the interleaving.
- kill(0) succeeds and marks an unused slot, whose next process is then killed at its first
  system call (proc.c:614).
- logstress.c has a buffer of 500 bytes and writes 2000.

## 5. Fairness

*ReaderWriter*: weak fairness of every process's code and of the server's reception of
each client's message. The UBC Pthreads kernel runs every ready process, the sleeps are
finite, and messages are queued in order of arrival. *KMutex*: weak fairness of every
process inside the kernel (its CPU runs, the scheduler's loop visits every process), and
holders unlock in the end, which is the caller's duty; it is assumed of the disciplined
behaviours only. `FairSpinlockSpec` adds strong fairness of the acquire in mtx_lock, which
real spinlocks do not promise: the starvation found is that of the mutex and not of the
spinlock. *SChat*: weak fairness of each thread and of mainp, in the reliable session; the
design document names round-robin scheduling, and every sleep ends. Nobody has to type.
*UThread*: threads reach their next thread call; `EndingSpec` adds that they exit in the
end. *Devices*: the device fetches and completes what it is given, interrupts are served,
and processes that can go on do. Nobody has to press a key.

The specifications of `KProc`, `KLog`, `KFs` and `KSys` have no fairness: their properties
say that nobody sleeps, or waits for a lock, with nothing left to come (SleepersAwaited,
NoMissedWakeup, SleepersWake, NoSpinDeadlock, NoFsDeadlock, and TLC's own deadlock check).

## 6. What is proved

Eight modules hold proofs, checked by TLAPS to the last leaf. Each theorem is about every
value of the constants: any number of processes, CPUs, clients, mutexes, blocks, any table
and pool size and any bound on calls, within the assumptions below. Every inductive
invariant was also checked by TLC, as an invariant of the run it belongs to, before it was
proved.

| Module | Theorem | States |
|---|---|---|
| `MonitorProofs` | `TypeCorrect` | `TypeOK`: no operation of MonServer indexes outside a pool array |
| | `MonitorMutualExclusion` | `MutualExclusion` |
| | `NeverCrashes` | `NoCrashIfShallow` |
| | `NobodyForgotten` | `HeldIsQueuedIfShallow` |
| | `RefinesHoareMonitor` | `ImplementsHoareMonitor` |
| | `WriterWorksAlone`, `ConditionHolds` | `WriterAloneIfServed`, `ConditionHoldsOnResume`: any readers and writers, shallow queues |
| | `WriterWorksAloneOneEach` | both, of one reader and one writer, whatever the queues do |
| `UThreadProofs` | `ContextsNeverMixed` | `ContextsInPlace` |
| `KMutexProofs` | `WakeupsNotLost` | `NoLostWakeup` |
| | `MutualExclusion`, `OwnersRecorded` | `MutexExclusion`, `OwnerOnlyIfLocked` (disciplined use) |
| | `OwnerUnlocks` | an action property: only the recorded owner unlocks (disciplined use) |
| | `TypeCorrect`, `SchedNeverPanics` | `TypeOK`; sleep enters sched with no other spinlock |
| `KProcProofs` | `OneCpuPerProcess` | `RunsOnce` |
| | `SchedNeverPanics` | `SchedLocks` |
| | `NoCpusSpinForever` | `NoSpinDeadlock` |
| | `NoSleeperForgotten` | `NoMissedWakeup` |
| `KLogProofs` | `NobodySleepsForNothing` | `SleepersAwaited` |
| | `LogNeverFull` | `OnlyBgetPanics`: of the panics only bget's can be reached |
| | `BuffersAccounted` | `PanicOnlyWhenFull`, for every `NBUF` above 1 |
| | `LogIsAtomic` | `ImplementsAtomicLog` |
| `DevicesProofs` | `TransfersAreExact` | `TransfersExact` |
| | `ConsoleIsLineDiscipline` | `ImplementsLineDiscipline` |
| `KFsProofs` | `RefsExactHolds` | `RefsExact`, for any calls of any processes |
| `KSysProofs` | `SysRefsExact` | `RefsExact`, for any programs |
| | `ParentLivesHolds` | `ParentLives` |
| | `PipeEndsExactHolds` | `PipeEndsExact`, of entries of the file table; with `SysRefsExact` of descriptors |
| | `ParentsWakeHolds`, `ReadersWakeHolds` | `ParentsWake`, `ReadersWake` |
| | `WritersWakeHolds`, `SleepersWakeHolds` | `WritersWake`, and `SleepersWake`, which is all three, of programs that pass read a number and write a sequence |

### Assumptions

- `ListPool`, `Monitor`: the pool is not empty; NULL is not a list, a client or the PID -1;
  a client is not the PID -1.
- `PoolsSuffice` (`MonitorRefinement`): `MAX_CONDS + 2 <= MAX_LISTS < MAX_NODES`; the code
  has 8, 20 and 1000. The number of clients is not bounded: with more clients than nodes
  the queues still do not fill the pool, since in shallow use a list holds one item.
- `ReaderWriterAssumption`: the clients are the readers (finitely many), the writers and
  mainp. The theorems about `ReaderWriter` suppose besides that the monitor has room for the
  program's two conditions and that MonMsg has the arguments it passes (`ProgramArguments`).
  `WriterWorksAlone` and `ConditionHolds` suppose `[]ShallowQueues`, as the refinement of
  `HoareMonitor` does, and need it: without it the list library loses links and TLC finds a
  writer that is not alone (section 4). `WriterWorksAloneOneEach` does not suppose it.
- `KMutexAssumption`, `ProcSizes`, `UThreadAssumption`: tables are not empty, arguments are
  integers, bounds are numbers.
- `LogSizes`, `Processes` (`KLog`): one operation's reservation fits the log
  (`MAXOPBLOCKS <= LOGBLOCKS`; the code has 10 and 30), operations write no more than they
  reserve (the callers' duty: `filewrite` cuts its writes to size), there are finitely many
  processes and at least one.
- `VirtioSizes`, `TerminalSizes` (`VirtioDisk`, `Terminal`): at least three descriptors;
  the indices wrap at a multiple of the ring's size, and the console's after more than one
  round. The code has 8 descriptors with 16-bit indices and 128 characters with 32-bit
  indices. `DiskUsers`: a process is a positive number, for 0 is the null `info[].b`.
  `WorkloadStarts`: the indices start within their width.
- `FsConstants`, `SysConstants` (`KFs`, `KSys`): processes are finitely many positive
  numbers, 1 (init) and 2 among them; NFILE, NOFILE, NPIPE and PIPESIZE are natural numbers,
  of whatever size.
- `WritersWakeHolds`, and with it `SleepersWakeHolds`, supposes that a program passes `read` a number and `write` a sequence
  of units over some set (`Arguments`), which C's types say; TLC finds it true of every
  program that the two KSys runs have.
- `BuffersAccounted` supposes `NBUF > 1`; the code has 30.

### Monitor

`MutualExclusion` is not inductive: a step that resumes a process puts it into the
monitor, so the process resumed must not be one that is running somewhere else, and
nobody else may be inside. `MonitorInv` adds what is needed:

1. `PoolOK`: a node in use has a predecessor (perhaps itself) and a list with a positive
   count has a head and a tail. This is all that survives of the list structure, and it
   is enough for no operation to use the index -1. That the head is the first item is
   *not* an invariant.
2. `Queued`: only blocked clients are items of nodes, each of one node. So a dequeue from
   any list, damaged or not, resumes a blocked client and leaves no second entry of it.
3. A client that is inside and not blocked by the server is `current_owner`, and an owner
   implies a locked monitor.
4. A client that is leaving is no longer inside, and the sender of the MonInit being
   served is still waiting for its reply.

The lemmas follow the code: one for each list operation (`ListCreateOK`, `ListAppendOK`,
`PopFirstOK`, with `AppendQueued` and `PopQueued` for the items), one for `Reply`, one for
each handler, and `NextMonitorInv` puts them together.

In shallow use more holds, and `ShallowInv` says it. The nodes that are not free are the
heads of the lists that hold an item, linked to themselves (`PoolExact`); each queue
variable has a list of its own and the other lists are empty (`ListsExact`); and the free
nodes, like the free lists, form a chain that visits each of them once (`Chained`, a
statement about a bijection with `1 .. n`, so that no recursion is needed). Allocation takes
the first link and freeing puts one in front (`ChainTake`, `ChainPut`). That
allocation never fails is a count: the nodes in use are at most one for each list and lists
are fewer than nodes; the lists in use are at most `MAX_CONDS + 2`. The contents of a
list are then empty or its one item, which is what `RefinesHoareMonitor` needs to map each
handler to a step of `HoareMonitor`, or to none.

### Readers and writers

`WriterAloneIfServed` is about where the processes are, the code tests two counters, and
signals cross the server on their way. `RWInv` is `sendFailed`, or else `ShallowInv` and
`Core`, whose parts say:

1. `SetUp`: mainp sets the monitor up before the others exist; the message of a blocked
   process is that of the call it is in.
2. `QueuesOk`: who is in a wait queue is blocked in the call that queue is for.
3. `OwnerOk`: at most one process is in the monitor (running in a monitor procedure, or
   with a call other than MonEnter on its way), and it is `current_owner`.
4. `NumbersOk`: `numReaders` is the number of readers past StartRead's increment and before
   StopRead's decrement (`Counted`), `busyWriting` says whether a writer is between its two
   assignments (`AtWriting`), such a writer is the only one, and nobody is `Counted` then.
5. `SignalsOk`: a signal of OKtoRead on its way means that nobody is at writing, one of
   OKtoWrite that nobody is counted either, and the process it wakes still finds that.

Parts 3 and 5 carry the argument: between the signal and the resumption nobody else is in
the monitor, so nobody changes the numbers. Each handler of MonServer is one of the steps of
`HoareMonitor` that `RefinesHoareMonitor` makes it; `ServedOk` says what serving a call does to
`Core`, `CalledFits` what making one does. For `WriterWorksAloneOneEach`,
`OneEachRoom` shows that the queue a handler appends to is empty: the process already in it,
the caller and the owner would be three. Besides the run, TLC checked `RWInv` for two readers
and two writers over the steps that keep the queues shallow.

### User-level threads

`ContextsInPlace` needs of the rest only that the table has its type and that the running
slot is not free (`ThreadInv`): `thread_create` then never fills the slot that
`thread_switch` will save into. That the round-robin search returns a RUNNABLE slot
(`NextThreadRunnable`) rests on a least element of a set of numbers.

### Kernel mutexes

`LocksInv` ties each label of a process to the spinlocks it holds (the table's, a
mutex's, its own p->lock). With that, `SleepersReached` strengthens `NoLostWakeup` to
processes that are still between the release of the mutex's spinlock in sleep and
the state SLEEPING: whenever such a mutex is unlocked, the process that holds its spinlock
is on the way to wakeup or in its loop at or before the sleeper. `WaitersOK` excludes
that mtx_create fills a slot somebody waits for. `DisciplineInv`, needed for the three
theorems about disciplined use, says who has a claim to a mutex (`Claims`): its holder, the
one that gives it back, and the one that creates it locked are together at most one
process, `locked` is then 1, and the owner on record is that process.

### Processes

`SchedInv` says for every lock which CPU holds it, from the places of the processes and
of clockintr (`LocksExact`, both directions), what the locals of a process are at each place
(`LocalsOK`), that a slot being filled by kfork is no one else's (`ForksOK`), and that cpu
and the RUNNING processes agree (`CpusOK`). `RunsOnce` and `SchedLocks` follow directly.
`NoSpinDeadlock` follows from the order of the locks (`LockOrder`): a CPU that holds the lock
of a slot waits for no lock, for its process is in sched; and one that holds the lock of a
condition (wait_lock, tickslock, the sleeplock's lk) waits at most for the lock of a slot.
In a set of CPUs that hold what the others wait for, somebody would have to be last.

`SleepInv`, on top of that, is about the three conditions: a sleeper whose event has come is
still ahead of the loop of wakeup or clockwakeup (`WillWake`, `TicksOK`), who is about to
sleep still holds the lock of a condition that has not come (`SleeplockOK`, `WaitOK`), and
kwait's scan has passed over no zombie. The case that makes `WaitOK` long is a process
that exits while its parent is in kwait, and the orphans that reparent gives to init.

### The log and the buffer cache

`ControlInv` is about places and counters: `outstanding` is the number of processes in an
operation, `committing` says that one process commits and none is in an operation, and
whoever sleeps in begin_op is awaited by one or the other. That the log has room is
`Reserved`: each block a running operation may still log is a ticket (a process and a
number), and the log's length plus the number of tickets never exceeds LOGBLOCKS. begin_op
creates at most MAXOPBLOCKS tickets after it has tested for them; each log_write hands one
in.

`BufferInv` is about reference counts: no block has two buffers (`CacheOK`), and a buffer's
count is the number of processes that use it plus one if it is pinned by log_write
(`RefCounts`). When bget panics, every buffer is in use, so each is pinned for a logged block
or held by a process; the blocks in use are as many as the buffers, for no block has two.
That is `PanicOnlyWhenFull`, and a count that a missed bunpin or brelse would break. It cannot
be strengthened to "bget never panics": with as many buffers as log blocks a log that is nearly full is
enough (section 4). The second buffer of a turn of write_log or install_trans is that of
a pinned block and is always there.

`ContentInv` is about the copies of a block: only a pinned buffer differs from the disk
(`Clean`); the first `tail` blocks of the log hold what the buffers of the logged blocks
hold; the header on disk is empty except from write_head to erase, when it is lh; and
during recovery what is already installed agrees with the log. Together they are `LogInv`.

`LogIsAtomic` maps the view of the running operations to the cached home blocks and the
durable image to what recovery would make of the disk. Then log_write is the only step that
changes the view, write_head the only one that changes the durable image (to the view),
a crash sets the view back to it, and every other step, those of install_trans, erase
and of the recovery included, changes neither: that is where `ContentInv` is needed.

### The disk driver and the console

`TransfersExact` speaks of requests that have returned; `DiskInv` says where the others are.
A request in flight owns the three descriptors of its chain, none of them free and none
anybody else's (`ChainsOK`). Between publish and the handler it is in exactly one place: an
entry between the device's index and the driver's in the avail ring, the hands of the
device, or an entry between the handler's index and the device's in the used ring
(`RingsOK`; no entry is there twice). Each step moves one request on. That a new entry
never overwrites one still to be read is a count: a request needs a descriptor, so the
entries are fewer than the ring has places (`RoomInRing`). Entries and indices are
remainders of remainders, and that a window of at most NUM places has no place twice rests on
WRAP being a multiple of NUM (`WindowEntries`).

`TerminalInv` says that r, w and e are in that order and at most INPUT_BUF_SIZE apart (the
sum of the two distances, which is what survives the wrap), and that the characters from w
to e hold no end of a line: without that, Ctrl-U, which erases back to a newline, could
stop short of w. With both, each key and each read changes the two windows as
`LineDiscipline` says.

### The file system's references

`FsSpec` lets every process make any call with any path, descriptor and mode, and the machine
crash or recover at any step; the calls the run lists are a part of these. `RefsExact` speaks
of moments at which no call runs. In between, a call holds references of its own, and `FsIInv`
says how many: for each label, `Uses` names the inodes in the call's locals that it must still
put. The `ref` of an inode is then the number of uses of all calls, plus the files and the
current directories that are it (`RefInv`); the `ref` of a file is the number of descriptors
that hold it (`FileInv`). Each step moves references from one of these places to another, so
that a lemma for one call is a statement about the labels before and after it (`Legal`,
`FileStep`), and one lemma says what moving a reference does to the counts. The invariant also
says that the holder of an inode's lock is at a label that has it locked (`LockInv`) and that
nothing but ireclaim runs before recovery has ended (`BootInv`). TLC checked these parts on
`kfs` and `ksys_files`.

### Processes with programs, and pipes

The theorems on `KSys` are about `SysSpec(init, prog)`, for any two programs that init and the
first process run, any they execute and any they fork into. None depends on what a program is:
the invariants are about the process table, the descriptors and the pipes.

`TreeInv`: init lives, and every slot in use but init's has a parent that lives. Each step of
the system is one of a few kinds for the table: nobody is born or dies (`Calm`), somebody falls
asleep (`Dozes`), is born (`Born`), exits (`Dies`) or is freed by kwait (`Reaped`). A lemma for
each action says which; what follows is about the kinds alone.

`SysFsInv` is `FsIInv` with what connects it to processes: a slot that is free or a zombie has
no descriptor, directory or call (`GoneInv`). kexit becomes a zombie only after it has closed
all its files, which is why a zombie cannot keep a pipe open.

`PipeInv`: each pipe in use has a file for each end that is open and each such file is the only
one of its end. So readopen and writeopen are the existence of a file, and by `FileInv` of a
descriptor.

A sleeper is not forgotten because each step that makes its condition true wakes its channel in
the same step. For a reader (`ReadersInv`) the steps are pipewrite, the close of the other end
and pipealloc, which might take the pipe and fill it anew beneath the sleeper: it takes none
that has an open end, and a reader sleeps only while the writing end is open. The same for
writers needs the pipe's data to be a sequence of at most PIPESIZE units and a writer's
position to be within what it writes (`DataInv`), since a writer sleeps in the middle of a
write and the room left is a difference of the two. A parent in kwait (`ParentsInv`) has
children and no zombie among them; a step that makes a zombie wakes its parent, and when the
zombie is an orphan that reparent gives to init, it is init that must be woken.

While `WritersWake` was proved, TLC showed that the model let `read` with a negative count take
from a pipe what is not there (argptest passes -1). The loop in `piperead` (pipe.c:117) copies
nothing then, and the model now does the same.

### Only model-checked

- Liveness (`EveryoneWorks`, `SleeperIsWoken`, `LineIsDisplayed`, `EveryThreadRuns`,
  `EveryCallReturns`): fairness and ENABLED are out of the prover's reach.
- `TestsPass`: particular programs. What the recursive definitions of `UserLib` compute, and
  the programs of `UserTests`, `MemTests` and `UserPrograms`, are checked as they stand.
- `CrashConsistent`, `OrphansReclaimed`: every block and link of an image is counted by folds
  over inodes and directories, whose contents the prover would have to unfold by induction.
- `PanicOnlyByDotDot`, `IputNeverBlocks`, `NoFsDeadlock`: they rest on the shape of the directory tree
  (no cycles but `.` and `..`, an unlinked directory is empty) and so on induction over paths.
- `PagesConserved`: a sum over address spaces, pipes and argument lists, defined by a fold.
- `SChat`: its properties hold of a load (`Paced`) and not in general.

## 7. Not modelled

- `a2-phase1`: an earlier state of the same tree. Its kernel and user programs are the
  same but for proc.c, proc.h, syscall.c and uthread.c, which lack or differ in what phase
  2 adds; Monitor.c, s-chat.c and reader_writer.c are incomplete there.
- The list operations no program calls (cursor moves, ListAdd, ListInsert, ListPrepend,
  ListConcat, ListFree, ListTrim, ListSearch).
- Start-up and register code (`start.c`, `main.c`, `plic.c`, `trampoline.S`, `kernelvec.S`,
  page tables of the kernel), `printf.c`, `string.c`, `ulib.c`: no state that outlives a
  call, or state of the machine below the model.
- The trace call (a mask and a printf), and all formatting.
- Of usertests: `forkforkfork`; repetition counts of the others
  are smaller than in C. Of grep: the read loop.
- Memory exhaustion in the malloc of MonServer and s-chat, socket set-up, preemption
  inside a list operation of s-chat or of the monitor's clients.

## 8. Plan

Done, in this order: ListPool and Monitor; HoareMonitor and the refinement; ReaderWriter;
KMutex; SChat; UThread; the proof of MonitorInv; KProc; KLog with AtomicLog; FsOps and KFs;
VmOps and KSys with the user programs; Devices.

The inductive invariants of UThread, KMutex, KProc, MonitorRefinement, KLog, VirtioDisk,
Terminal, KFs, KSys and ReaderWriter and the proofs of section 6 came after that. Left:

1. UThread composed with KMutex (`mtxtest`): a mutex call blocks every thread.
2. `ListCursor`: the remaining list operations against sequences.
