------------------------------- MODULE KSys -------------------------------
(***************************************************************************)
(* Processes that run programs on the xv6 kernel: fork, exit, wait, kill,  *)
(* pause, pipes, sbrk and exec (kernel/proc.c, pipe.c, sysproc.c, exec.c), *)
(* composed with the file system of KFs and the memory of VmOps.  A        *)
(* program is a sequence of instructions, each a system call or a step of  *)
(* the C code between two of them.  A step of the model is the part of a   *)
(* system call that runs under one lock; RUNNABLE and RUNNING are one      *)
(* state here.                                                             *)
(***************************************************************************)
EXTENDS KFs, VmOps, UserCode

CONSTANTS NPIPE,      \* names for pipes, as many as can exist at once
          PIPESIZE,
          NFRAMES,    \* pages of memory at boot
          MAXPATH,    \* in units
          Programs,   \* Programs[n]: what the executable file of content n runs
          Image       \* its segments: a sequence of [pages, w]

ASSUME SysConstants == {1, 2} \subseteq Proc /\ NPIPE \in Nat /\ PIPESIZE \in Nat

VARIABLES proc,       \* the process table
          code,       \* the instructions each process has still to run
          env,        \* the program variables of each process
          pipe, nfree, space, nextpid,
          failed      \* a test has found what it did not expect

sysvars == <<proc, code, env, pipe, nfree, space, nextpid, failed>>

InitProc == 1
FreeProc == [state |-> "UNUSED", parent |-> 0, pid |-> 0, killed |-> FALSE,
             xstate |-> 0, chan |-> <<"", 0>>, pos |-> -1, argv |-> 0]
FreePipe == [on |-> FALSE, data |-> <<>>, readopen |-> FALSE, writeopen |-> FALSE]

\* Every program starts with these variables; the digits stand for themselves.
Env0 == [v \in {"0", "1", "2", "fd", "fd2", "fd3", "r", "x", "pid", "pid2",
                "pid3", "n", "a", "b", "done", "buf", "path", "stack"} |->
          CASE v = "1" -> 1 [] v = "2" -> 2 [] v \in {"buf", "path", "stack"} -> <<>>
            [] OTHER -> 0]

BootSpace == kexec(On(NFRAMES, allocproc(NFRAMES).a), Image, 0).a

\* userinit has started init, and init has started the program under test.
SysInit(init, prog) ==
  /\ FsInit({1, 2})
  /\ proc = [p \in Proc |-> CASE p = 1 -> [FreeProc EXCEPT !.state = "RUN", !.pid = 1]
                              [] p = 2 -> [FreeProc EXCEPT !.state = "RUN", !.pid = 2,
                                                           !.parent = 1]
                              [] OTHER -> FreeProc]
  /\ code = [p \in Proc |-> CASE p = 1 -> init [] p = 2 -> prog [] OTHER -> <<>>]
  /\ env = [p \in Proc |-> Env0]
  /\ pipe = [k \in 1 .. NPIPE |-> FreePipe]
  /\ space = [p \in Proc |-> IF p <= 2 THEN BootSpace ELSE NoSpace]
  /\ nfree = NFRAMES - 2 * PagesOf(BootSpace)
  /\ nextpid = 3 /\ failed = FALSE
-----------------------------------------------------------------------------
(* Running *)

I(p) == Head(code[p])
Val(p, v) == env[p][v]
Alive == ~failed /\ ~panicked

UserAddr(p, at) == Val(p, at[1]) + at[2]
\* The space after copying n units to or from the address that at names,
\* with free pages left.
CopyOutOf(free, p, at, n) ==
  IF at[1] = "" THEN On(free, space[p]) ELSE copyout(On(free, space[p]), UserAddr(p, at), n)
CopyOut(p, at, n) == CopyOutOf(nfree, p, at, n)
CopyIn(p, at, n)  == IF at[1] = "" THEN On(nfree, space[p])
                     ELSE copyin(On(nfree, space[p]), UserAddr(p, at), n)
Memory(p, s) == nfree' = s.free /\ space' = [space EXCEPT ![p] = s.a]

\* panic in vm.c or kalloc.c, where VmOps says so.
PanicIf(b) == IF b THEN "vm" ELSE panic
Units(p) == IF "var" \notin DOMAIN I(p) THEN I(p).units
            ELSE IF I(p).var = "buf" THEN Val(p, "buf") ELSE << <<Val(p, I(p).var), 0>> >>
PathArg(p) == IF "var" \in DOMAIN I(p) THEN Val(p, I(p).var) ELSE I(p).path
AtUser(p) == proc[p].state = "RUN" /\ code[p] # <<>> /\ call[p] = Idle /\ Alive

LocalOps == {"let", "add", "count", "follows", "take", "inum", "mod", "is", "same", "if",
             "ifeq", "while",
             "getpid", "push", "peek", "pop", "enter1", "leave", "match", "call", "rand"}
PathOps  == {"open", "link", "unlink", "mkdir", "mknod", "chdir"}
\* p is at the start of a system call, or at a trap, with killed set.
Killed(p) == AtUser(p) /\ proc[p].killed /\ proc[p].pos = -1
Returning(p) == /\ Alive /\ Pc(p) = "idle" /\ call[p] # Idle
                /\ ~(call[p].op = "exec" /\ call[p].r = 0)
Op(p, o) == code[p] # <<>> /\ I(p).op = o /\ AtUser(p) /\ ~Killed(p)

\* The file of p's descriptor argument, 0 if argfd refuses it.
argfd(p) == LET d == Val(p, I(p).fd) IN IF d \in Fd THEN ofile[p][d] ELSE 0
OnPipe(p) == argfd(p) # 0 /\ file[argfd(p)].type = "PIPE"

\* Steps that no other process can see: SysNext takes them first, one process
\* at a time, which leaves out only other orders of independent steps.
Local(p) ==
  \/ Returning(p) \/ Killed(p)
  \/ AtUser(p) /\ \/ I(p).op \in LocalOps \cup PathOps
                  \/ I(p).op \in {"read", "write", "fstat"} /\ I(p).at[1] = "" /\ ~OnPipe(p)
                  \/ I(p).op = "exit" /\ proc[p].pos = 0 /\ cwd[p] # 0 /\ \A d \in Fd : ofile[p][d] = 0
  \/ Alive /\ call[p].ip = 0 /\ Pc(p) \in PathOps \cup {"create", "exec"}
LocalProcs == {p \in Proc : Local(p)}

\* The call at the head of p's code returns n, with b in the program's buffer.
Ret(p, v, n) == /\ code' = [code EXCEPT ![p] = Tail(@)]
                /\ env' = [env EXCEPT ![p][v] = n]

Program(p) ==
  LET i == I(p)
      Next1(c) == code' = [code EXCEPT ![p] = c \o Tail(@)]
      test == CASE i.op = "is" -> Val(p, i.v) \in i.S
                [] i.op = "same" -> Val(p, i.v) = Val(p, i.w)
                [] i.op = "follows" -> \A k \in DOMAIN Val(p, "buf") :
                                         Val(p, "buf")[k][1] = Val(p, i.v) + k - 1
                [] OTHER -> TRUE
  IN /\ AtUser(p) /\ ~Killed(p) /\ i.op \in LocalOps
     /\ CASE i.op = "let" -> Ret(p, i.v, i.n)
          [] i.op = "add" -> Ret(p, i.v, Val(p, i.w) + i.n)
          [] i.op = "mod" -> Ret(p, i.v, Val(p, i.w) % Val(p, i.u))
          [] i.op = "take" -> Ret(p, i.v, Val(p, "buf")[1][1])
          [] i.op = "inum" -> Ret(p, i.v, Val(p, "buf")[1][2])
          [] i.op = "count" ->
               Ret(p, i.v, Val(p, i.v) +
                     Cardinality({k \in DOMAIN Val(p, "buf") : Val(p, "buf")[k][1] \in i.S}))
          [] i.op = "follows" -> Ret(p, i.v, Val(p, i.v) + Len(Val(p, "buf")))
          [] i.op = "getpid" -> Ret(p, i.v, proc[p].pid)
          [] i.op = "push" -> Ret(p, "stack", <<Val(p, i.v)>> \o Val(p, "stack"))
          [] i.op = "peek" -> Ret(p, i.v, Head(Val(p, "stack")))
          [] i.op = "pop" -> Ret(p, "stack", Tail(Val(p, "stack")))
          [] i.op = "enter1" -> Ret(p, "path", Append(Val(p, "path"), Val(p, i.v)))
          [] i.op = "leave" -> Ret(p, "path", Front(Val(p, "path")))
          [] i.op = "match" -> Ret(p, i.v, Val(p, i.v) +
                                   IF Last(Val(p, "path")) = i.name THEN 1 ELSE 0)
          [] i.op = "rand" -> \E n \in i.S : Ret(p, i.v, n)
          [] i.op = "call" -> Next1(Programs[i.f]) /\ UNCHANGED env
          [] i.op \in {"is", "same"} -> Next1(<<>>) /\ UNCHANGED env
          [] i.op = "if" -> Next1(IF Val(p, i.v) \in i.S THEN i.t ELSE i.e) /\ UNCHANGED env
          [] i.op = "ifeq" -> Next1(IF Val(p, i.v) = Val(p, i.w) THEN i.t ELSE i.e)
                              /\ UNCHANGED env
          [] OTHER -> Next1(IF Val(p, i.v) \in i.S THEN Append(i.body, i) ELSE <<>>)
                      /\ UNCHANGED env
     /\ failed' = ~test
     /\ UNCHANGED <<fsvars, proc, pipe, nfree, space, nextpid>>

\* kexit is called: by exit, and by usertrap for a killed process, which does not
\* return to its program.  From here on killed is not looked at.
CallsKexit(p) ==
  /\ \/ Killed(p) /\ code' = [code EXCEPT ![p] = <<Exit(-1)>>]
     \/ Op(p, "exit") /\ proc[p].pos = -1 /\ UNCHANGED code
  /\ proc' = [proc EXCEPT ![p].pos = 0]
  /\ UNCHANGED <<fsvars, env, pipe, nfree, space, nextpid, failed>>

\* The end of a system call of KFs.
Return(p) ==
  LET c == call[p]
  IN /\ Returning(p)
     /\ Go(p, Idle)
     /\ IF I(p).op = "exit" THEN UNCHANGED <<code, env>>
        ELSE /\ code' = [code EXCEPT ![p] = Tail(@)]
             /\ env' = [env EXCEPT ![p][I(p).v] = IF c.op = "close" THEN 0 ELSE c.r,
                          ![p]["buf"] = IF c.op \in {"read", "fstat"} THEN c.units ELSE @]
     /\ nfree' = nfree + proc[p].argv
     /\ proc' = [proc EXCEPT ![p].argv = 0]
     /\ UNCHANGED <<fs, itable, disk, cwd, outst, boot, crashes, panic, file, ofile>>
     /\ UNCHANGED <<pipe, space, nextpid, failed>>
-----------------------------------------------------------------------------
(* kernel/proc.c *)

Wake(pr, ch) == [q \in Proc |-> IF pr[q].state = "SLEEPING" /\ pr[q].chan = ch
                                THEN [pr[q] EXCEPT !.state = "RUN"] ELSE pr[q]]
Sleep(pr, p, ch, pos) == [pr EXCEPT ![p].state = "SLEEPING", ![p].chan = ch, ![p].pos = pos]
Done1(pr, p) == [pr EXCEPT ![p].pos = -1]

\* allocproc leaves killed as the slot had it, freeproc clears it.
kfork(p) ==
  LET i == I(p)
      U == {q \in Proc : proc[q].state = "UNUSED"}
      q == Min(U)
      s == ForkSpace(nfree, space[p])
  IN /\ Op(p, "fork")
     /\ nextpid' = IF U = {} THEN nextpid ELSE nextpid + 1
     /\ nfree' = IF U = {} THEN nfree ELSE s.free
     /\ IF U = {} \/ ~s.ok
        THEN /\ Ret(p, i.v, -1)
             /\ panic' = PanicIf(U # {} /\ s.panic)
             /\ proc' = IF U = {} THEN proc ELSE [proc EXCEPT ![q].killed = FALSE]
             /\ UNCHANGED <<space, file, ofile, cwd, itable>>
        ELSE /\ proc' = [proc EXCEPT ![q] = [FreeProc EXCEPT !.state = "RUN", !.pid = nextpid,
                                                    !.parent = p, !.killed = proc[q].killed]]
             /\ code' = [code EXCEPT ![p] = Tail(@), ![q] = i.child \o Tail(code[p])]
             /\ env' = [env EXCEPT ![p][i.v] = nextpid, ![q] = [env[p] EXCEPT ![i.v] = 0]]
             /\ space' = [space EXCEPT ![q] = s.a]
             /\ file' = [f \in File |-> [file[f] EXCEPT !.ref =
                           @ + Cardinality({d \in Fd : ofile[p][d] = f})]]
             /\ ofile' = [ofile EXCEPT ![q] = ofile[p]]
             /\ cwd' = [cwd EXCEPT ![q] = cwd[p]]
             /\ itable' = Ref(itable, cwd[p], 1)
             /\ UNCHANGED panic
     /\ UNCHANGED <<fs, disk, outst, call, boot, crashes, pipe, failed>>

\* Mutant: the children stay with their dead parent.
reparentNot(pr, p) == pr
\* Mutant: init is not told of the children that it gets.
reparentSilent(pr, p) ==
  [q \in Proc |-> IF pr[q].parent = p THEN [pr[q] EXCEPT !.parent = InitProc] ELSE pr[q]]
reparent(pr, p) ==
  LET kids == {q \in Proc : pr[q].parent = p}
      r == [q \in Proc |-> IF q \in kids THEN [pr[q] EXCEPT !.parent = InitProc] ELSE pr[q]]
  IN IF kids = {} THEN pr ELSE Wake(r, <<"wait", InitProc>>)

\* The end of kexit, under wait_lock; the files and the directory are closed.
kexit(p) ==
  /\ Op(p, "exit") /\ proc[p].pos = 0 /\ p # InitProc
  /\ \A d \in Fd : ofile[p][d] = 0
  /\ cwd[p] = 0
  /\ proc' = [Wake(reparent(proc, p), <<"wait", proc[p].parent>>)
                EXCEPT ![p].state = "ZOMBIE", ![p].xstate = I(p).n, ![p].pos = -1]
  /\ code' = [code EXCEPT ![p] = <<>>]
  /\ env' = [env EXCEPT ![p] = Env0]
  /\ UNCHANGED <<fsvars, pipe, nfree, space, nextpid, failed>>

kwait(p) ==
  LET i == I(p)
      kids == {q \in Proc : proc[q].parent = p}
      Z == {q \in kids : proc[q].state = "ZOMBIE"}
      z == Min(Z)
      s == CopyOut(p, i.at, 1)
      t == freeproc(On(s.free, space[z]))
  IN /\ Op(p, "wait")
     /\ IF Z # {} /\ s.ok
        THEN /\ code' = [code EXCEPT ![p] = Tail(@)]
             /\ env' = [env EXCEPT ![p][i.v] = proc[z].pid, ![p][i.x] = proc[z].xstate]
             /\ proc' = Done1([proc EXCEPT ![z] = FreeProc], p)
             /\ nfree' = t.free /\ space' = [space EXCEPT ![p] = s.a, ![z] = NoSpace]
             /\ panic' = PanicIf(t.panic)
        ELSE IF Z # {}               \* the child stays a zombie
        THEN Ret(p, i.v, -1) /\ proc' = Done1(proc, p) /\ Memory(p, s) /\ UNCHANGED panic
        ELSE IF kids = {} \/ proc[p].killed
        THEN Ret(p, i.v, -1) /\ proc' = Done1(proc, p) /\ UNCHANGED <<nfree, space, panic>>
        ELSE proc' = Sleep(proc, p, <<"wait", p>>, 0)
             /\ UNCHANGED <<code, env, nfree, space, panic>>
     /\ UNCHANGED <<fs, disk, itable, file, ofile, cwd, outst, call, boot, crashes>>
     /\ UNCHANGED <<pipe, nextpid, failed>>

KillProc(pr, q) == [pr EXCEPT ![q].killed = TRUE,
                    ![q].state = IF @ = "SLEEPING" THEN "RUN" ELSE @]

\* An unused slot has pid 0, which kill(0) finds.
kkill(p) ==
  LET T == {q \in Proc : proc[q].pid = Val(p, I(p).pid)}
  IN /\ Op(p, "kill")
     /\ proc' = IF T = {} THEN proc ELSE KillProc(proc, Min(T))
     /\ Ret(p, I(p).v, IF T = {} THEN -1 ELSE 0)
     /\ UNCHANGED <<fsvars, pipe, nfree, space, nextpid, failed>>

\* sys_pause: sleeps until enough ticks have come.
sys_pause(p) ==
  /\ Op(p, "pause")
  /\ \/ /\ proc[p].pos = -1
        /\ proc' = Sleep(proc, p, <<"ticks", 0>>, 0)
        /\ UNCHANGED <<code, env>>
     \/ /\ proc[p].pos = 0
        /\ proc' = Done1(proc, p)
        /\ Ret(p, I(p).v, IF proc[p].killed THEN -1 ELSE 0)
  /\ UNCHANGED <<fsvars, pipe, nfree, space, nextpid, failed>>

\* clockintr: the process sleeping longest enough is woken.
clockintr(p) ==
  /\ Alive
  /\ proc[p].state = "SLEEPING" /\ proc[p].chan = <<"ticks", 0>>
  /\ proc' = [proc EXCEPT ![p].state = "RUN"]
  /\ UNCHANGED <<fsvars, code, env, pipe, nfree, space, nextpid, failed>>
-----------------------------------------------------------------------------
(* kernel/pipe.c *)

sys_pipe(p) ==
  LET i  == I(p)
      ff == {f \in File : file[f].ref = 0}
      fd == {d \in Fd : ofile[p][d] = 0}
      kk == {k \in 1 .. NPIPE : ~pipe[k].on}
      f0 == Min(ff)    f1 == Min(ff \ {f0})
      d0 == Min(fd)    d1 == Min(fd \ {d0})
      s  == CopyOutOf(nfree - 1, p, i.at, 2)      \* the pipe has its page by then
      End(w) == [FreeFile EXCEPT !.ref = 1, !.type = "PIPE", !.ip = Min(kk),
                                 !.readable = ~w, !.writable = w]
  IN /\ Op(p, "pipe")
     /\ kk # {}       \* NPIPE bounds the pipes that exist at once
     /\ IF Cardinality(ff) < 2 \/ Cardinality(fd) < 2 \/ nfree = 0 \/ ~s.ok
        THEN /\ Ret(p, i.v, -1)
             /\ IF nfree = 0 \/ Cardinality(ff) < 2 \/ Cardinality(fd) < 2
                THEN UNCHANGED <<nfree, space>>
                ELSE nfree' = s.free + 1 /\ space' = [space EXCEPT ![p] = s.a]
             /\ UNCHANGED <<file, ofile, pipe>>
        ELSE /\ file' = [file EXCEPT ![f0] = End(FALSE), ![f1] = End(TRUE)]
             /\ ofile' = [ofile EXCEPT ![p][d0] = f0, ![p][d1] = f1]
             /\ pipe' = [pipe EXCEPT ![Min(kk)] = [on |-> TRUE, data |-> <<>>,
                                       readopen |-> TRUE, writeopen |-> TRUE]]
             /\ code' = [code EXCEPT ![p] = Tail(@)]
             /\ env' = [env EXCEPT ![p][i.v] = 0, ![p][i.rd] = d0, ![p][i.wr] = d1]
             /\ nfree' = s.free /\ space' = [space EXCEPT ![p] = s.a]
     /\ UNCHANGED <<fs, disk, itable, cwd, outst, call, boot, crashes, panic>>
     /\ UNCHANGED <<proc, nextpid, failed>>

\* pipeclose wakes those who wait for the other end.
pipeclose(pr, k, writable) == Wake(pr, <<IF writable THEN "nread" ELSE "nwrite", k>>)

\* Mutant: the two ends are mistaken for each other.
ClosedOther(pi, w) == [pi EXCEPT !.writeopen = @ /\ w, !.readopen = @ /\ ~w]
Closed(pi, w) == [pi EXCEPT !.writeopen = @ /\ ~w, !.readopen = @ /\ w]

\* fileclose of a pipe end, by close or by kexit.
ClosePipe(p, d) ==
  LET f == ofile[p][d]
      k == file[f].ip
      w == file[f].writable
      last == file[f].ref = 1
      pi == Closed(pipe[k], w)
      gone == ~pi.readopen /\ ~pi.writeopen
  IN /\ ofile' = [ofile EXCEPT ![p][d] = 0]
     /\ file' = [file EXCEPT ![f] = IF last THEN FreeFile
                                  ELSE [file[f] EXCEPT !.ref = @ - 1]]
     /\ pipe' = IF ~last THEN pipe ELSE [pipe EXCEPT ![k] = IF gone THEN FreePipe ELSE pi]
     /\ nfree' = IF last /\ gone THEN nfree + 1 ELSE nfree
     /\ proc' = IF last THEN pipeclose(proc, k, w) ELSE proc
     /\ UNCHANGED <<fs, disk, itable, cwd, outst, call, boot, crashes, panic>>
     /\ UNCHANGED <<space, nextpid, failed>>

close_pipe(p) == /\ Op(p, "close") /\ OnPipe(p)
                 /\ ClosePipe(p, Val(p, I(p).fd)) /\ Ret(p, I(p).v, 0)

\* Mutant: no wakeup of the readers when the writer goes to sleep.
WakeFullNot(pr, k) == pr
WakeFull(pr, k) == Wake(pr, <<"nread", k>>)

pipewrite(p) ==
  LET i  == I(p)
      k  == file[argfd(p)].ip
      j  == IF proc[p].pos = -1 THEN 0 ELSE proc[p].pos
      s  == CopyIn(p, i.at, Len(Units(p)))
      n  == IF s.ok THEN Len(Units(p)) ELSE 0
      m  == Min({n - j, PIPESIZE - Len(pipe[k].data)})
      new == pipe[k].data \o SubSeq(Units(p), j + 1, j + m)
  IN /\ Op(p, "write") /\ OnPipe(p) /\ file[argfd(p)].writable
     /\ IF j < n /\ (~pipe[k].readopen \/ proc[p].killed)
        THEN /\ Ret(p, i.v, -1) /\ proc' = Done1(proc, p)
             /\ UNCHANGED <<pipe, nfree, space>>
        ELSE /\ pipe' = [pipe EXCEPT ![k].data = new]
             /\ Memory(p, s)
             /\ IF j + m < n
                THEN /\ proc' = Sleep(WakeFull(proc, k), p, <<"nwrite", k>>, j + m)
                     /\ UNCHANGED <<code, env>>
                ELSE /\ proc' = Done1(Wake(proc, <<"nread", k>>), p)
                     /\ Ret(p, i.v, n)
     /\ UNCHANGED <<fsvars, nextpid, failed>>

\* Mutant: the writers that wait for room are not woken.
WakeEmptiedNot(pr, k) == pr
WakeEmptied(pr, k) == Wake(pr, <<"nwrite", k>>)

\* A unit that copyout cannot deliver is lost.
piperead(p) ==
  LET i == I(p)
      k == file[argfd(p)].ip
      d == pipe[k].data
      n == IF i.n > 0 THEN i.n ELSE 0
      s == CopyOut(p, i.at, n)
      m == IF s.ok THEN Min({n, Len(d)}) ELSE 0
      taken == IF s.ok THEN m ELSE Min({1, n, Len(d)})
  IN /\ Op(p, "read") /\ OnPipe(p) /\ file[argfd(p)].readable
     /\ IF d = <<>> /\ pipe[k].writeopen
        THEN /\ UNCHANGED <<pipe, nfree, space>>
             /\ IF proc[p].killed THEN Ret(p, i.v, -1) /\ proc' = Done1(proc, p)
                ELSE proc' = Sleep(proc, p, <<"nread", k>>, 0) /\ UNCHANGED <<code, env>>
        ELSE /\ pipe' = [pipe EXCEPT ![k].data = SubSeq(d, taken + 1, Len(d))]
             /\ IF d = <<>> THEN UNCHANGED <<nfree, space>> ELSE Memory(p, s)
             /\ proc' = Done1(WakeEmptied(proc, k), p)
             /\ code' = [code EXCEPT ![p] = Tail(@)]
             /\ env' = [env EXCEPT ![p][i.v] = m, ![p]["buf"] = SubSeq(d, 1, m)]
     /\ UNCHANGED <<fsvars, nextpid, failed>>
-----------------------------------------------------------------------------
(* Memory: sbrk, loads and stores, exec *)

Sbrk1(p) ==
  LET i == I(p)
      n == IF i.to THEN i.n - space[p].sz ELSE i.n
      s == sys_sbrk(On(nfree, space[p]), n, i.lazy)
  IN /\ Op(p, "sbrk")
     /\ Memory(p, s) /\ panic' = PanicIf(s.panic)
     /\ Ret(p, i.v, IF s.ok THEN space[p].sz ELSE -1)
     /\ UNCHANGED <<fs, disk, itable, file, ofile, cwd, outst, call, boot, crashes>>
     /\ UNCHANGED <<proc, pipe, nextpid, failed>>

\* usertrap: a page fault that vmfault does not serve kills the process.
usertrap(p) ==
  LET i == I(p)
      a == UserAddr(p, i.at)
      s == Touch(On(nfree, space[p]), a, i.op = "store")
      t == IF i.op = "store" THEN [s EXCEPT !.a.map[a \div PGSIZE].v = i.x] ELSE s
  IN /\ AtUser(p) /\ I(p).op \in {"store", "load"} /\ ~Killed(p)
     /\ IF s.ok
        THEN /\ Memory(p, t)
             /\ code' = [code EXCEPT ![p] = Tail(@)]
             /\ env' = IF i.op = "store" THEN env
                       ELSE [env EXCEPT ![p][i.v] = s.a.map[a \div PGSIZE].v]
             /\ UNCHANGED proc
        ELSE /\ proc' = [proc EXCEPT ![p].killed = TRUE]
             /\ UNCHANGED <<nfree, space, code, env>>
     /\ panic' = PanicIf(s.panic)
     /\ UNCHANGED <<fs, disk, itable, file, ofile, cwd, outst, call, boot, crashes>>
     /\ UNCHANGED <<pipe, nextpid, failed>>

\* argstr of a path argument.
ArgStr(p) == LET s == I(p).str
             IN IF s[1] = "" THEN s[3] < MAXPATH
                ELSE copyinstr(space[p], Val(p, s[1]) + s[2], s[3], MAXPATH)

\* sys_exec: a page for each argument; the file system's part of kexec follows.
ExecStart(p) ==
  LET i == I(p)
  IN /\ Op(p, "exec")
     /\ IF ~ArgStr(p) \/ i.badarg \/ nfree < i.argc
        THEN /\ Ret(p, i.v, -1) /\ UNCHANGED <<call, nfree, proc>>
        ELSE /\ Go(p, [Idle EXCEPT !.pc = "begin", !.op = "exec", !.path = i.path])
             /\ nfree' = nfree - i.argc
             /\ proc' = [proc EXCEPT ![p].argv = i.argc]
             /\ UNCHANGED <<code, env>>
     /\ UNCHANGED <<fs, disk, itable, file, ofile, cwd, outst, boot, crashes, panic>>
     /\ UNCHANGED <<pipe, space, nextpid, failed>>

\* The memory part of kexec, with the inode read; then the pages of argv go.
ExecEnd(p) ==
  LET u == call[p].units
      i == I(p)
      elf == u # <<>> /\ u[1][1] \in DOMAIN Programs
      s == kexec(On(nfree, space[p]), Image, i.args)
  IN /\ Alive
     /\ Pc(p) = "idle" /\ call[p].op = "exec" /\ call[p].r = 0
     /\ Go(p, Idle)
     /\ IF elf /\ s.ok
        THEN /\ code' = [code EXCEPT ![p] = Programs[u[1][1]]]
             /\ env' = [env EXCEPT ![p] = Env0]
             /\ space' = [space EXCEPT ![p] = s.a]
        ELSE Ret(p, i.v, -1) /\ UNCHANGED space
     /\ nfree' = (IF elf THEN s.free ELSE nfree) + proc[p].argv
     /\ panic' = PanicIf(elf /\ s.panic)
     /\ proc' = [proc EXCEPT ![p].argv = 0]
     /\ UNCHANGED <<fs, disk, itable, file, ofile, cwd, outst, boot, crashes>>
     /\ UNCHANGED <<pipe, nextpid, failed>>
-----------------------------------------------------------------------------
(* The calls of KFs, and those that fail before they get there *)

\* Reading and writing a device (the console): all of it at once.
device(p) ==
  LET i == I(p)
      n == IF i.op = "write" /\ CopyIn(p, i.at, Len(Units(p))).ok THEN Len(Units(p)) ELSE 0
  IN /\ AtUser(p) /\ i.op \in {"read", "write"} /\ ~Killed(p)
     /\ argfd(p) # 0 /\ file[argfd(p)].type = "DEVICE"
     /\ Ret(p, i.v, n)
     /\ UNCHANGED <<fsvars, proc, pipe, nfree, space, nextpid, failed>>

Refused(p) ==
  LET i == I(p)
      f == argfd(p)
  IN /\ AtUser(p) /\ ~Killed(p)
     /\ CASE i.op \in PathOps -> ~ArgStr(p)
          [] i.op \in {"close", "dup"} -> f = 0
          [] i.op = "read" -> IF f = 0 THEN TRUE ELSE ~file[f].readable
          [] i.op = "write" -> IF f = 0 THEN TRUE ELSE ~file[f].writable
          [] i.op = "fstat" -> IF f = 0 THEN TRUE ELSE file[f].type = "PIPE"
          [] OTHER -> FALSE
     /\ Ret(p, i.v, -1)
     /\ UNCHANGED <<fsvars, proc, pipe, nfree, space, nextpid, failed>>

PathCall(p) ==
  LET i == I(p)
  IN /\ ArgStr(p)
     /\ CASE i.op = "open" -> sys_open(p, PathArg(p), i.mode)
          [] i.op = "link" -> sys_link(p, i.path, i.new)
          [] i.op = "unlink" -> sys_unlink(p, i.path)
          [] i.op = "mkdir" -> sys_mkdir(p, i.path)
          [] i.op = "mknod" -> sys_mknod(p, i.path, "DEV")
          [] OTHER -> sys_chdir(p, i.path)
     /\ UNCHANGED <<nfree, space>>

FileCall(p) ==
  LET i  == I(p)
      fd == Val(p, i.fd)
      si == CopyIn(p, i.at, Len(Units(p)))
      so == CopyOut(p, i.at, i.n)
      st == CopyOut(p, i.at, 1)
  IN /\ argfd(p) # 0
     /\ CASE i.op = "read" ->
               sys_read(p, fd, i.n, IF so.ok THEN {} ELSE {"badbuf"}) /\ Memory(p, so)
          [] i.op = "write" ->
               sys_write(p, fd, IF si.ok THEN Units(p) ELSE <<BadUnit>>) /\ Memory(p, si)
          [] i.op = "fstat" ->
               sys_fstat(p, fd, IF st.ok THEN {} ELSE {"badbuf"}) /\ Memory(p, st)
          [] i.op = "dup" -> sys_dup(p, fd) /\ UNCHANGED <<nfree, space>>
          [] OTHER -> sys_close(p, fd) /\ UNCHANGED <<nfree, space>>

FsCall(p) ==
  /\ AtUser(p) /\ ~Killed(p)
  /\ \/ I(p).op \in PathOps /\ PathCall(p)
     \/ I(p).op \in {"read", "write", "fstat", "dup", "close"} /\ FileCall(p)
  /\ UNCHANGED <<proc, code, env, pipe, nextpid, failed>>

\* The start of kexit: init must not exit.  Then its loop over the open files,
\* and its iput of the directory.
ExitStep(p) ==
  LET open1 == {d \in Fd : ofile[p][d] # 0}
      d == Min(open1)
  IN /\ Op(p, "exit") /\ proc[p].pos = 0
     /\ IF p = InitProc
        THEN /\ panic' = "init exiting"
             /\ UNCHANGED <<fs, disk, itable, file, ofile, cwd, outst, call, boot, crashes>>
             /\ UNCHANGED sysvars
        ELSE IF open1 # {} /\ file[ofile[p][d]].type = "PIPE"
        THEN ClosePipe(p, d) /\ UNCHANGED <<code, env>>
        ELSE /\ IF open1 # {} THEN sys_close(p, d) ELSE exit_cwd(p)
             /\ UNCHANGED sysvars

FsInside(p) == ~failed /\ FsStep(p) /\ UNCHANGED sysvars

SysStep(p) ==
  \/ Program(p) \/ CallsKexit(p) \/ Return(p)
  \/ kfork(p) \/ kexit(p) \/ kwait(p) \/ kkill(p) \/ sys_pause(p) \/ clockintr(p)
  \/ sys_pipe(p) \/ close_pipe(p) \/ pipewrite(p) \/ piperead(p)
  \/ Sbrk1(p) \/ usertrap(p) \/ ExecStart(p) \/ ExecEnd(p)
  \/ device(p) \/ Refused(p) \/ FsCall(p) \/ ExitStep(p) \/ FsInside(p)

SysNext == \E p \in (IF LocalProcs = {} THEN Proc ELSE {Min(LocalProcs)}) : SysStep(p)

SysSpec(init, prog) == SysInit(init, prog) /\ [][SysNext]_<<fsvars, sysvars>>
-----------------------------------------------------------------------------
(* Properties *)

\* Only init is left, and its wait has found nobody.
Finished ==
  /\ \A p \in Proc \ {InitProc} : proc[p].state = "UNUSED"
  /\ code[InitProc] = <<>>

\* Every test of the repository's test programs succeeds, whatever the order
\* of the processes' steps: no check inside fails, the test exits with 0, and
\* the kernel does not panic.
TestsPass ==
  /\ ~failed /\ NoPanic
  /\ \A p \in Proc : (proc[p].pid = 2 /\ proc[p].state = "ZOMBIE") => proc[p].xstate = 0

Asleep(p, on) == proc[p].state = "SLEEPING" /\ proc[p].chan[1] = on /\ Alive

\* A reader sleeps only while the pipe is empty and someone can still write to
\* it: piperead's test, which every write and the last close wake it to repeat.
ReadersWake ==
  \A p \in Proc : Asleep(p, "nread") =>
    LET k == proc[p].chan[2] IN pipe[k].data = <<>> /\ pipe[k].writeopen

\* A writer sleeps only while the pipe is full and someone can still read it.
WritersWake ==
  \A p \in Proc : Asleep(p, "nwrite") =>
    LET k == proc[p].chan[2] IN Len(pipe[k].data) = PIPESIZE /\ pipe[k].readopen

\* A parent sleeps in wait only while it has children and none is a zombie,
\* init also when a dead process leaves it zombies (reparent).
ParentsWake ==
  \A p \in Proc : Asleep(p, "wait") =>
    /\ \E q \in Proc : proc[q].parent = p
    /\ \A q \in Proc : proc[q].parent = p => proc[q].state # "ZOMBIE"

\* Nobody sleeps in piperead, pipewrite or kwait for what has come already.
SleepersWake == ReadersWake /\ WritersWake /\ ParentsWake

\* Every process but init has a parent that is there to wait for it, also when
\* its first one has exited (reparent).
ParentLives ==
  \A p \in Proc \ {InitProc} : proc[p].state # "UNUSED" =>
    proc[p].parent # 0 /\ proc[proc[p].parent].state \notin {"UNUSED", "ZOMBIE"}

\* Every page is free or belongs to one address space, pipe or argument list:
\* what usertests' countfree compares before and after, at every moment.
PagesConserved ==
  ~panicked =>
    nfree + MapThenSumSet(LAMBDA p : PagesOf(space[p]) + proc[p].argv, Proc)
          + Cardinality({k \in 1 .. NPIPE : pipe[k].on}) = NFRAMES

\* An end of a pipe is open as long as an entry of the file table refers to it (and
\* RefsExact counts the descriptors of an entry), so that the last close is seen at
\* the other end.
PipeEndsExact ==
  ~panicked =>
    \A k \in 1 .. NPIPE : \A w \in BOOLEAN :
      (IF w THEN pipe[k].writeopen ELSE pipe[k].readopen) =
        \E f \in File : file[f].type = "PIPE" /\ file[f].ip = k /\ file[f].writable = w
=============================================================================
