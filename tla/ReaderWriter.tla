---------------------------- MODULE ReaderWriter ----------------------------
(***************************************************************************)
(* The readers and writers program of Part B: the monitor procedures of    *)
(* reader_writer_monitor.c, called by the reader and writer processes that *)
(* mainp of reader_writer.c creates, on the monitor of module Monitor.     *)
(*                                                                         *)
(* A process's pc is its next statement; it executes when the process is   *)
(* not blocked in a monitor call.  Each step is the code from the return   *)
(* of one monitor call to the next monitor call.                           *)
(***************************************************************************)
EXTENDS Monitor, FiniteSets

CONSTANTS Reader, Writer,
          mainp,            \* the process that creates the others
          CallsInitialize   \* TRUE: mainp calls Initialize first.  The code's
                            \* mainp does not; the design document assumes it.

ASSUME ReaderWriterAssumption ==
    /\ Client = Reader \cup Writer \cup {mainp}
    /\ Reader \cap Writer = {}
    /\ IsFiniteSet(Reader)
    /\ mainp \notin Reader \cup Writer
    /\ CallsInitialize \in BOOLEAN

VARIABLES pc, numReaders, busyWriting

rwVars == <<pc, numReaders, busyWriting>>

OKtoWrite == 1
OKtoRead  == 0
numConds  == 2

Enter      == [type |-> "MonEnter",  arg |-> 0]
Leave      == [type |-> "MonLeave",  arg |-> 0]
Wait(k)    == [type |-> "MonWait",   arg |-> k]
Signal(k)  == [type |-> "MonSignal", arg |-> k]

RWInit ==
    /\ Init
    /\ pc = [c \in Client |-> IF c # mainp THEN "uncreated"
                              ELSE IF CallsInitialize THEN "Initialize" ELSE "Create"]
    /\ numReaders = 0
    /\ busyWriting = 0

(* Process c is at statement `from' and makes the call of message m.       *)
Step(c, from, m, to) ==
    /\ pc[c] = from
    /\ Call(c, m)
    /\ pc' = [pc EXCEPT ![c] = to]

-----------------------------------------------------------------------------
Initialize ==
    /\ pc[mainp] = "Initialize"
    /\ MonInit(mainp, [type |-> "MonInit", arg |-> numConds])
    /\ pc' = [pc EXCEPT ![mainp] = "Create"]
    /\ UNCHANGED <<numReaders, busyWriting>>

CreateProcesses ==
    /\ ~crashed
    /\ pc[mainp] = "Create"
    /\ stage[mainp] = "running"
    /\ pc' = [c \in Client |-> IF c = mainp THEN "done" ELSE "idle"]
    /\ UNCHANGED <<vars, numReaders, busyWriting>>

(* numReaders++; MonSignal(OKtoRead);                                      *)
CountReader(c, from) ==
    /\ numReaders' = numReaders + 1
    /\ Step(c, from, Signal(OKtoRead), "StartRead.signalled")
    /\ UNCHANGED busyWriting

StartRead(c) ==
    \/ Step(c, "idle", Enter, "StartRead.entered") /\ UNCHANGED <<numReaders, busyWriting>>
    \/ /\ busyWriting # 0
       /\ Step(c, "StartRead.entered", Wait(OKtoRead), "StartRead.woken")
       /\ UNCHANGED <<numReaders, busyWriting>>
    \/ busyWriting = 0 /\ CountReader(c, "StartRead.entered")
    \/ CountReader(c, "StartRead.woken")
    \/ Step(c, "StartRead.signalled", Leave, "reading") /\ UNCHANGED <<numReaders, busyWriting>>

(* Mutant: the last reader signals nobody.                                 *)
StopReadSilent(c) ==
    \/ Step(c, "reading", Enter, "StopRead.entered") /\ UNCHANGED <<numReaders, busyWriting>>
    \/ /\ numReaders' = numReaders - 1
       /\ Step(c, "StopRead.entered", Leave, "idle")
       /\ UNCHANGED busyWriting

(* Mutant: the last reader signals before it has counted itself out.       *)
StopReadSignalFirst(c) ==
    \/ Step(c, "reading", Enter, "StopRead.entered") /\ UNCHANGED <<numReaders, busyWriting>>
    \/ /\ numReaders = 1
       /\ Step(c, "StopRead.entered", Signal(OKtoWrite), "StopRead.signalled")
       /\ UNCHANGED <<numReaders, busyWriting>>
    \/ /\ numReaders # 1
       /\ Step(c, "StopRead.entered", Leave, "idle")
       /\ numReaders' = numReaders - 1
       /\ UNCHANGED busyWriting
    \/ /\ Step(c, "StopRead.signalled", Leave, "idle")
       /\ numReaders' = numReaders - 1
       /\ UNCHANGED busyWriting

StopRead(c) ==
    \/ Step(c, "reading", Enter, "StopRead.entered") /\ UNCHANGED <<numReaders, busyWriting>>
    \/ /\ numReaders' = numReaders - 1
       /\ \/ numReaders' = 0 /\ Step(c, "StopRead.entered", Signal(OKtoWrite), "StopRead.signalled")
          \/ numReaders' # 0 /\ Step(c, "StopRead.entered", Leave, "idle")
       /\ UNCHANGED busyWriting
    \/ Step(c, "StopRead.signalled", Leave, "idle") /\ UNCHANGED <<numReaders, busyWriting>>

(* Mutant: a writer does not look for readers.                             *)
BusyIgnoringReaders == busyWriting # 0

(* There are readers or a writer.                                          *)
Busy == numReaders # 0 \/ busyWriting # 0

(* busyWriting = 1; MonLeave();                                            *)
BeginWriting(c, from) ==
    /\ busyWriting' = 1
    /\ Step(c, from, Leave, "writing")
    /\ UNCHANGED numReaders

StartWrite(c) ==
    \/ Step(c, "idle", Enter, "StartWrite.entered") /\ UNCHANGED <<numReaders, busyWriting>>
    \/ /\ Busy
       /\ Step(c, "StartWrite.entered", Wait(OKtoWrite), "StartWrite.woken")
       /\ UNCHANGED <<numReaders, busyWriting>>
    \/ ~Busy /\ BeginWriting(c, "StartWrite.entered")
    \/ BeginWriting(c, "StartWrite.woken")

StopWrite(c) ==
    \/ Step(c, "writing", Enter, "StopWrite.entered") /\ UNCHANGED <<numReaders, busyWriting>>
    \/ /\ busyWriting' = 0
       /\ Step(c, "StopWrite.entered", Signal(OKtoRead), "StopWrite.signalled")
       /\ UNCHANGED numReaders
    \/ Step(c, "StopWrite.signalled", Leave, "idle") /\ UNCHANGED <<numReaders, busyWriting>>

-----------------------------------------------------------------------------
reader(c) == StartRead(c) \/ StopRead(c)

writer(c) == StartWrite(c) \/ StopWrite(c)

Process ==
    \/ Initialize \/ CreateProcesses
    \/ \E c \in Reader : reader(c)
    \/ \E c \in Writer : writer(c)

RWNext == Process \/ (ServerStep /\ UNCHANGED rwVars)

RWSpec == RWInit /\ [][RWNext]_<<vars, rwVars>>

(***************************************************************************)
(* Fairness: the scheduler runs every process that can run (each Sleep is  *)
(* finite), and the server receives every message that was sent.           *)
(***************************************************************************)
RWFairness ==
    /\ WF_<<vars, rwVars>>(Initialize \/ CreateProcesses)
    /\ \A c \in Reader : WF_<<vars, rwVars>>(reader(c))
    /\ \A c \in Writer : WF_<<vars, rwVars>>(writer(c))
    /\ \A c \in Client : WF_<<vars, rwVars>>(Serve(c) /\ UNCHANGED rwVars)
    /\ WF_<<vars, rwVars>>((InitCondition \/ InitReply) /\ UNCHANGED rwVars)

RWFairSpec == RWSpec /\ RWFairness

-----------------------------------------------------------------------------
(* A process that has returned from StartRead or StartWrite and has not    *)
(* called StopRead or StopWrite.                                           *)
Working(c) == pc[c] \in {"reading", "writing"} /\ stage[c] = "running"

(***************************************************************************)
(* A writer works alone: no reader and no other writer works with it.      *)
(***************************************************************************)
WriterAlone ==
    \A w \in Writer, c \in Client : Working(w) /\ Working(c) => c = w

(***************************************************************************)
(* When every call found the server, a writer works alone.                 *)
(***************************************************************************)
WriterAloneIfServed == ~sendFailed => WriterAlone

(***************************************************************************)
(* A process resumed from MonWait finds what it waited for still true when *)
(* it runs, which is what lets StartRead and StartWrite test their         *)
(* condition with `if' and not with `while': a reader finds no writer, a   *)
(* writer finds neither readers nor a writer.                              *)
(***************************************************************************)
ConditionHoldsOnResume ==
    ~sendFailed => \A c \in Client : stage[c] = "running" =>
        /\ pc[c] = "StartRead.woken"  => busyWriting = 0
        /\ pc[c] = "StartWrite.woken" => busyWriting = 0 /\ numReaders = 0

(***************************************************************************)
(* Every reader and every writer gets to work again and again: nobody      *)
(* waits for ever in a monitor procedure.                                  *)
(***************************************************************************)
EveryoneWorks == \A c \in Reader \cup Writer : []<>Working(c)

=============================================================================
