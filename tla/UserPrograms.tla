---------------------------- MODULE UserPrograms ----------------------------
(***************************************************************************)
(* Other programs of user/, for KSys: the shell's runcmd, init, primes,    *)
(* find, ls, grind, the small utilities and the stress programs.  What     *)
(* they print is left out; numbers of rounds are smaller, as noted.        *)
(***************************************************************************)
EXTENDS UserCode, UserLib

CONSTANT SZ0          \* the size of a program as exec makes it

WriteBuf(v, fd) == WriteVar(v, fd, "buf")

\* echo.c, with the arguments that exectest gives it.
echo == <<Write("r", "1", <<"O", "K">>), Write("r", "1", <<"n">>), Exit(0)>>

\* cat.c without arguments: from descriptor 0 to 1.
cat == <<Read("n", "0", 2), While("n", 1 .. 2, <<WriteBuf("r", "1"), Equal("r", "n"), Read("n", "0", 2)>>),
         Is("n", {0}), Exit(0)>>

\* wc.c on a file; only the characters are counted.
wc(f) == <<Open("fd", f, RD), If("fd", {-1}, <<Exit(1)>>, <<>>), Let("a", 0), Read("n", "fd", 2),
           While("n", 1 .. 2, <<Add("a", "a", 1), Read("n", "fd", 2)>>), Is("n", {0}), Close("r", "fd")>>

\* mkdir.c, ln.c and rm.c, which stop at the first failure.
mkdir(s) == For(s, LAMBDA f : <<If("r", {-1}, <<>>, <<Mkdir("r", f)>>)>>)
ln(old, new) == <<Link("r", old, new, Ok)>>
rm(s) == For(s, LAMBDA f : <<If("r", {-1}, <<>>, <<Unlink("r", f)>>)>>)
kill(pid) == <<Kill("r", pid)>>
-----------------------------------------------------------------------------
(* sh.c: runcmd on commands of UserLib *)

\* fork1 panics when fork fails.
fork1(child) == Forked("pid", child)

RECURSIVE runcmd(_)
runcmd(c) ==
  CASE c.type = "EXEC" -> <<If("0", IF c.argv = <<>> THEN {0} ELSE {}, <<Exit(1)>>, <<>>),
                            ExecArgs("r", SubSeq(c.argv, 1, 1), Ok, Len(c.argv), Len(c.argv), FALSE), Exit(0)>>
    [] c.type = "REDIR" -> <<Close("r", c.fd), Open("fd", c.file, c.mode),
                             If("fd", {-1}, <<Exit(1)>>, <<>>)>> \o runcmd(c.cmd)
    [] c.type = "LIST" -> fork1(runcmd(c.left)) \o <<Wait("r", "x")>> \o runcmd(c.right)
    [] c.type = "PIPE" ->
         Must(Pipe("r", "fd", "fd2"))
         \o fork1(<<Close("r", "1"), Dup("r", "fd2"), Close("r", "fd"), Close("r", "fd2")>> \o runcmd(c.left))
         \o fork1(<<Close("r", "0"), Dup("r", "fd"), Close("r", "fd"), Close("r", "fd2")>> \o runcmd(c.right))
         \o <<Close("r", "fd"), Close("r", "fd2"), Wait("r", "x"), Wait("r", "x"), Exit(0)>>
    [] c.type = "BACK" -> fork1(runcmd(c.cmd)) \o <<Exit(0)>>
    [] c.type = "PANIC" -> <<Exit(1)>>          \* of parsecmd, in the child

\* main of sh.c on the lines s, each a sequence of tokens.
sh(s) ==
  <<Open("fd", <<"console">>, RW),
    While("fd", 0 .. 2, <<Open("fd", <<"console">>, RW)>>), If("fd", NotNeg, <<Close("r", "fd")>>, <<>>)>>
  \o For(s, LAMBDA line : IF line = <<>> THEN <<>>
                          ELSE IF line[1] = "cd" /\ Len(line) > 1 THEN <<Chdir("r", <<line[2]>>)>>
                          ELSE fork1(runcmd(parsecmd(line))) \o <<Wait("r", "x")>>)
-----------------------------------------------------------------------------
\* init.c, with sh started twice.
initmain ==
  <<Open("fd", <<"console">>, RW),
    If("fd", {-1}, <<Mknod("r", <<"console">>), Open("fd", <<"console">>, RW)>>, <<>>),
    Dup("r", "0"), Dup("r", "0")>>
  \o Rep(2, Forked("pid", <<Exec("r", <<"sh">>), Exit(1)>>)
            \o <<Let("done", 0), While("done", {0}, Must(Wait("r", "x"))
                 \o <<Add("a", "r", 0), IfEq("a", "pid", <<Let("done", 1)>>, <<>>)>>)>>)

zombie == <<Fork("pid", <<>>), If("pid", 1 .. 99, <<Pause("r")>>, <<>>), Exit(0)>>

\* forktest.c; the limit is the process table.
forktest == <<Fork("pid", <<Exit(0)>>),
    While("pid", 1 .. 99, <<Add("n", "n", 1), Fork("pid", <<Exit(0)>>)>>),
    While("n", 1 .. 99, Must(Wait("r", "x")) \o <<Add("n", "n", -1)>>)>> \o MustFail(Wait("r", "x"))

\* stressfs.c with two processes, and one write each.
stressfs ==
  <<Fork("pid", <<>>), If("pid", {0}, <<Let("done", 1)>>, <<>>)>>
  \o LET work(f) == <<Open("fd", f, CRW), Write("r", "fd", <<"a">>), Close("r", "fd"),
                      Open("fd", f, RD), Read("r", "fd", 1), Close("r", "fd")>>
     IN <<If("done", {1}, work(<<"stressfs1">>), work(<<"stressfs0">>)), Wait("r", "x"), Exit(0)>>

\* logstress.c with two files and one write to each.
logstress ==
  For(<< <<"f1">>, <<"f2">> >>, LAMBDA f :
    Forked("pid", Must(Open("fd", f, CRW)) \o MustBe(Write("n", "fd", <<"a", "b">>), 2) \o <<Exit(0)>>))
  \o Rep(2, <<Wait("r", "x"), Is("x", {0})>>)

\* forphan.c and dorphan.c: an inode without a name, until the crash.
Sit == <<Forever(<<Pause("r")>>)>>
forphan == Must(Open("fd", <<"file0">>, CWR)) \o Must(Fstat("r", "fd")) \o Must(Unlink("r", <<"file0">>))
           \o MustFail(Open("fd2", <<"file0">>, RD)) \o Sit
dorphan == MustBe(Mkdir("r", <<"dd">>), 0) \o MustBe(Chdir("r", <<"dd">>), 0)
           \o Must(Unlink("r", <<"..", "dd">>)) \o Sit
-----------------------------------------------------------------------------
\* primes.c looks at no result of pipe and fork: after a pipe that failed its
\* descriptors are what the array p held, and a fork that failed is a parent.
Pipe2(r, w) == <<Pipe("r", r, w), If("r", {-1}, <<Choose(r, -1 .. 15), Choose(w, -1 .. 15)>>, <<>>)>>
\* The stage for the kth prime of P; the pipe it reads is in fd.
RECURSIVE sieve(_, _)
sieve(P, k) ==
  <<Read("n", "fd", 1), If("n", {-1, 0}, <<Close("r", "fd")>>,
    IF k > Len(P) THEN <<Is("0", {})>>
    ELSE <<Take("a"), Is("a", {P[k]})>> \o Pipe2("fd2", "fd3")
         \o <<Fork("pid", <<Close("r", "fd3"), Add("fd", "fd2", 0)>> \o sieve(P, k + 1) \o <<Exit(0)>>),
              Close("r", "fd2"), Read("n", "fd", 1),
              While("n", {1}, <<Take("b"), Mod("x", "b", "a"),
                                If("x", {0}, <<>>, <<WriteVar("r", "fd3", "b")>>), Read("n", "fd", 1)>>),
              Close("r", "fd"), Close("r", "fd3"), Wait("r", "x"), Exit(0)>>)>>

\* main of primes.c: the numbers up to N (35 in the program).
primes(N) ==
  LET P == SelectSeq([i \in 1 .. N |-> i], LAMBDA i : i > 1 /\ \A d \in 2 .. i - 1 : i % d # 0)
  IN Pipe2("fd", "fd2")
     \o <<Fork("pid", <<Close("r", "fd2")>> \o sieve(P, 1) \o <<Exit(0)>>), Close("r", "fd")>>
     \o For([i \in 1 .. N - 1 |-> i + 1], LAMBDA i : <<Write("r", "fd2", <<i>>)>>)
     \o <<Close("r", "fd2"), Wait("r", "x"), Exit(0)>>
-----------------------------------------------------------------------------
\* find.c: the function find on the path in the variable path; a counts.
find(target) ==
  <<OpenVar("fd"), If("fd", {-1}, <<>>,
    <<Push("fd"), Fstat("r", "fd"), Take("x"),
      If("x", {"FILE"}, <<Match("a", target)>>, <<>>),
      If("x", {"DIR"},
         <<Read("n", "fd", 1),
           While("n", {1}, <<Take("b"), TakeInum("x"), If("x", {0}, <<Let("b", ".")>>, <<>>),
             If("b", {".", ".."}, <<>>, <<Enter1("b"), Call("find"), Leave, Peek("fd")>>),
             Read("n", "fd", 1)>>)>>, <<>>),
      Peek("fd"), Pop, Close("r", "fd")>>)>>

\* ls.c on a directory: stat of each entry; a counts those it can stat.
ls(dir) ==
  <<Open("fd", dir, RD), If("fd", {-1}, <<>>,
    <<Fstat("r", "fd"), Read("n", "fd", 1),
      While("n", {1}, <<Take("b"), TakeInum("x"),
        If("x", {0}, <<>>, <<Enter1("b"), OpenVar("fd2"), Leave,
          If("fd2", {-1}, <<>>, <<Fstat("r", "fd2"), Close("r", "fd2"), Add("a", "a", 1)>>)>>),
        Read("n", "fd", 1)>>),
      Close("r", "fd")>>)>>
-----------------------------------------------------------------------------
(* grind.c *)

\* rand() % 23 as any number of S.
rand(v, S) == <<Choose(v, S)>>

Kids(child) == Forked("pid", child \o <<Exit(0)>>)
OpenClose(path) == <<Open("fd2", path, CRW), Close("r", "fd2")>>
grindir == "grindir"

\* "echo hi | cat", with pipes aa = (fd2, fd3) and bb = (a, b).
pipeline ==
  Must(Pipe("r", "fd2", "fd3")) \o Must(Pipe("r", "a", "b"))
  \o Forked("pid", <<Close("r", "a"), Close("r", "b"), Close("r", "fd2"), Close("r", "1")>>
       \o MustBe(Dup("r", "fd3"), 1) \o <<Close("r", "fd3"), Exec("r", <<grindir, "..", "echo">>), Exit(2)>>)
  \o Forked("pid2", <<Close("r", "fd3"), Close("r", "a"), Close("r", "0")>> \o MustBe(Dup("r", "fd2"), 0)
       \o <<Close("r", "fd2"), Close("r", "1")>> \o MustBe(Dup("r", "b"), 1)
       \o <<Close("r", "b"), Exec("r", <<"/", "cat">>), Exit(6)>>)
  \o <<Close("r", "fd2"), Close("r", "fd3"), Close("r", "b"), Let("x", 0)>>
  \o For(<<"O", "K", "n">>, LAMBDA c : MustBe(Read("n", "a", 1), 1) \o <<Take("x"), Is("x", {c})>>)
  \o <<Close("r", "a"), Wait("r", "x"), Is("x", {0}), Wait("r", "x"), Is("x", {0})>>

\* The cases of go, by the value of what; in cases 14 and 19 the child forks once.
case(what) ==
  LET up == <<grindir, "..">>
  IN CASE what = 1 -> OpenClose(up \o <<"a">>)
       [] what = 2 -> OpenClose(up \o up \o <<"b">>)
       [] what = 3 -> <<Unlink("r", up \o <<"a">>)>>
       [] what = 4 -> MustBe(Chdir("r", <<grindir>>), 0) \o <<Unlink("r", <<"..", "b">>), Chdir("r", <<"/">>)>>
       [] what = 5 -> <<Close("r", "fd"), Open("fd", <<"/">> \o up \o <<"a">>, CRW)>>
       [] what = 6 -> <<Close("r", "fd"), Open("fd", <<"/", ".", grindir, ".", "..", "b">>, CRW)>>
       [] what = 7 -> <<Write("r", "fd", <<"z">>)>>
       [] what = 8 -> <<Read("r", "fd", 1)>>
       [] what = 9 -> <<Mkdir("r", up \o <<"a">>)>> \o OpenClose(<<"a", "..", "a", ".", "a">>)
                      \o <<Unlink("r", <<"a", "a">>)>>
       [] what = 10 -> <<Mkdir("r", <<"/", "..", "b">>)>> \o OpenClose(up \o <<"b", "b">>)
                       \o <<Unlink("r", <<"b", "b">>)>>
       [] what = 11 -> <<Unlink("r", <<"b">>), Link("r", <<"..", grindir, ".", "..", "a">>, <<"..", "b">>, Ok)>>
       [] what = 12 -> <<Unlink("r", <<"..", grindir, "..", "a">>),
                         Link("r", <<"..", ".", "b">>, <<"/">> \o up \o <<"a">>, Ok)>>
       [] what = 13 -> Kids(<<>>) \o <<Wait("r", "x")>>
       [] what = 14 -> Kids(<<Fork("r", <<>>)>>) \o <<Wait("r", "x")>>
       [] what = 15 -> <<Sbrk("r", 3)>>
       [] what = 16 -> <<SbrkTo("r", SZ0)>>
       [] what = 17 -> Kids(OpenClose(<<"a">>)) \o MustBe(Chdir("r", <<"..", grindir, "..">>), 0)
                       \o <<Kill("r", "pid"), Wait("r", "x")>>
       [] what = 18 -> Kids(<<Getpid("pid"), Kill("r", "pid")>>) \o <<Wait("r", "x")>>
       [] what = 19 -> Must(Pipe("r", "fd2", "fd3"))
                       \o Kids(<<Fork("r", <<>>)>> \o MustBe(Write("r", "fd3", <<"x">>), 1)
                               \o MustBe(Read("r", "fd2", 1), 1))
                       \o <<Close("r", "fd2"), Close("r", "fd3"), Wait("r", "x")>>
       [] what = 20 -> Kids(<<Unlink("r", <<"a">>), Mkdir("r", <<"a">>), Chdir("r", <<"a">>),
                              Unlink("r", <<"..", "a">>), Open("fd", <<"x">>, CRW), Unlink("r", <<"x">>)>>)
                       \o <<Wait("r", "x")>>
       [] what = 21 -> <<Unlink("r", <<"c">>)>> \o Must(Open("fd2", <<"c">>, CRW))
                       \o MustBe(Write("r", "fd2", <<"x">>), 1) \o Must(Fstat("r", "fd2"))
                       \o <<Close("r", "fd2"), Unlink("r", <<"c">>)>>
       [] what = 22 -> pipeline
       [] OTHER -> <<>>

\* go with one round for each set of sets.
go(sets) ==
  <<Let("fd", -1), Mkdir("r", <<grindir>>)>> \o MustBe(Chdir("r", <<grindir>>), 0) \o <<Chdir("r", <<"/">>)>>
  \o For(sets, LAMBDA S : rand("n", S)
               \o FoldSet(LAMBDA what, c : c \o <<If("n", {what}, case(what), <<>>)>>, <<>>, S))

\* iter: two children; when one fails both are killed.
iter(s1, s2) ==
  <<Unlink("r", <<"a">>), Unlink("r", <<"b">>)>>
  \o Forked("pid", go(s1) \o <<Exit(0)>>) \o Forked("pid2", go(s2) \o <<Exit(0)>>)
  \o <<Wait("r", "x"), If("x", {0}, <<>>, <<Kill("r", "pid"), Kill("r", "pid2")>>), Wait("r", "x")>>
=============================================================================
