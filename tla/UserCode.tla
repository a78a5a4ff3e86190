------------------------------ MODULE UserCode ------------------------------
(***************************************************************************)
(* The language in which programs are written for KSys: system calls as   *)
(* user/user.h declares them, and the C code between two of them.  A       *)
(* program is a sequence of instructions.  The first argument of a call is *)
(* the variable that takes its result, and a descriptor or process         *)
(* argument is a variable.                                                 *)
(***************************************************************************)
EXTENDS Integers, Sequences, SequencesExt, TLC

(* Instructions, named for the calls they make *)

Fork(v, child)  == [op |-> "fork", v |-> v, child |-> child]
Wait(v, x)      == [op |-> "wait", v |-> v, x |-> x, at |-> <<"", 0>>]
Exit(n)         == [op |-> "exit", n |-> n]
Kill(v, pid)    == [op |-> "kill", v |-> v, pid |-> pid]
Pause(v)        == [op |-> "pause", v |-> v]
Pipe(v, r, w)   == [op |-> "pipe", v |-> v, rd |-> r, wr |-> w, at |-> <<"", 0>>]
PipeAt(v, a, k) == [Pipe(v, "a", "b") EXCEPT !.at = <<a, k>>]
ReadAt(v, fd, n, a, k) == [op |-> "read", v |-> v, fd |-> fd, n |-> n, at |-> <<a, k>>]
Read(v, fd, n)  == ReadAt(v, fd, n, "", 0)
WriteVar(v, fd, w) == [op |-> "write", v |-> v, fd |-> fd, at |-> <<"", 0>>, var |-> w]
WriteAt(v, fd, s, a, k) == [op |-> "write", v |-> v, fd |-> fd, at |-> <<a, k>>,
                            units |-> [j \in 1 .. Len(s) |-> <<s[j], 0>>]]
Write(v, fd, s) == WriteAt(v, fd, s, "", 0)
Close(v, fd)    == [op |-> "close", v |-> v, fd |-> fd]
Dup(v, fd)      == [op |-> "dup", v |-> v, fd |-> fd]
Fstat(v, fd)    == [op |-> "fstat", v |-> v, fd |-> fd, at |-> <<"", 0>>]
\* Calls with a path; str is the address and length of a path argument that
\* is not in the program's data.
OpenAt(v, path, mode, str) == [op |-> "open", v |-> v, path |-> path, mode |-> mode, str |-> str]
Ok == <<"", 0, 1>>
Open(v, path, mode) == OpenAt(v, path, mode, Ok)
OpenVar(v)      == Open(v, <<>>, {}) @@ [var |-> "path"]     \* open(path, O_RDONLY)
Link(v, old, new, str) == [op |-> "link", v |-> v, path |-> old, new |-> new, str |-> str]
Unlink(v, path) == [op |-> "unlink", v |-> v, path |-> path, str |-> Ok]
UnlinkAt(v, str) == [Unlink(v, <<"x">>) EXCEPT !.str = str]
Mkdir(v, path)  == [op |-> "mkdir", v |-> v, path |-> path, str |-> Ok]
Mknod(v, path)  == [op |-> "mknod", v |-> v, path |-> path, str |-> Ok]
Chdir(v, path)  == [op |-> "chdir", v |-> v, path |-> path, str |-> Ok]
\* argc arguments, of args units in all; badarg: one of them is no string.
ExecArgs(v, path, str, argc, args, badarg) ==
  [op |-> "exec", v |-> v, path |-> path, str |-> str, argc |-> argc, args |-> args,
   badarg |-> badarg]
Exec(v, path)   == ExecArgs(v, path, Ok, 1, 1, FALSE)
Sbrk(v, n)      == [op |-> "sbrk", v |-> v, n |-> n, lazy |-> FALSE, to |-> FALSE]
SbrkLazy(v, n)  == [Sbrk(v, n) EXCEPT !.lazy = TRUE]
SbrkTo(v, n)    == [Sbrk(v, n) EXCEPT !.to = TRUE]      \* sbrk(n - sbrk(0))
Store(a, k, x)  == [op |-> "store", at |-> <<a, k>>, x |-> x]
Load(v, a, k)   == [op |-> "load", v |-> v, at |-> <<a, k>>]
\* The program's own steps.
Let(v, n)       == [op |-> "let", v |-> v, n |-> n]
Add(v, w, n)    == [op |-> "add", v |-> v, w |-> w, n |-> n]     \* v = w + n
Is(v, S)        == [op |-> "is", v |-> v, S |-> S]               \* else exit(1)
Equal(v, w)     == [op |-> "same", v |-> v, w |-> w]
Count(v, S)     == [op |-> "count", v |-> v, S |-> S]   \* v += units of buf in S
Follows(v)      == [op |-> "follows", v |-> v]   \* buf is v, v + 1, ...: v += their number
Take(v)         == [op |-> "take", v |-> v]                      \* v = buf[0]
TakeInum(v)         == [op |-> "inum", v |-> v]                      \* v = buf[0].inum
Mod(v, w, u)    == [op |-> "mod", v |-> v, w |-> w, u |-> u]     \* v = w % u
Getpid(v)       == [op |-> "getpid", v |-> v]
Push(v)         == [op |-> "push", v |-> v]      \* save a local variable
Peek(v)         == [op |-> "peek", v |-> v]      \* read it back
Pop             == [op |-> "pop"]
Enter1(v)       == [op |-> "enter1", v |-> v]    \* path = path/v
Leave           == [op |-> "leave"]              \* path without its last element
Match(v, name)  == [op |-> "match", v |-> v, name |-> name]  \* v += path ends in name
Call(f)         == [op |-> "call", f |-> f]      \* the function Programs[f]
Choose(v, S)    == [op |-> "rand", v |-> v, S |-> S]         \* v = rand()
Spin            == [op |-> "spin"]                               \* for(;;) ;
If(v, S, then, else) == [op |-> "if", v |-> v, S |-> S, t |-> then, e |-> else]
IfEq(v, w, then, else) == [op |-> "ifeq", v |-> v, w |-> w, t |-> then, e |-> else]
While(v, S, body) == [op |-> "while", v |-> v, S |-> S, body |-> body]
Forever(body)   == While("0", {0}, body)
Rep(n, body)    == FlattenSeq([k \in 1 .. n |-> body])

\* A call that the program expects to succeed, to fail, or to return n: it
\* prints a message and calls exit(1) otherwise.
NotNeg == 0 .. 999
Must(i)      == <<i, Is(i.v, NotNeg)>>
MustFail(i)  == <<i, Is(i.v, {-1})>>
MustBe(i, n) == <<i, Is(i.v, {n})>>
Forked(v, child) == Must(Fork(v, child))
CloseOpen(path, mode) == <<Open("fd", path, mode), Close("r", "fd")>>
\* A loop over names or numbers, body(x) for each x of s.
For(s, body(_)) == FlattenSeq([k \in 1 .. Len(s) |-> body(s[k])])
Upto(n) == [k \in 1 .. n |-> k - 1]

\* Ways to open: fcntl.h.
RD == {}
WR == {"WRONLY"}
RW == {"RDWR"}
CR == {"CREATE"}
CRW == {"CREATE", "RDWR"}
CWR == {"CREATE", "WRONLY"}
CWT == {"CREATE", "WRONLY", "TRUNC"}
=============================================================================
