------------------------------ MODULE UserTests ------------------------------
(***************************************************************************)
(* user/usertests.c: the tests of processes, pipes and files, as programs  *)
(* for KSys.  The order of the calls and what each test expects of them    *)
(* are those of the C functions; repetitions, lengths of text and numbers  *)
(* of children are smaller, as noted.  A unit stands for a block where a   *)
(* test writes blocks and for a character where it writes text.            *)
(***************************************************************************)
EXTENDS UserCode

CONSTANTS MAXFILE,    \* blocks of the largest file
          MaxWrite,   \* blocks of the largest transaction of filewrite
          NINODE,     \* entries of the inode table
          Full,       \* files of MAXFILE blocks that fill the disk
          Inodes,     \* more files than there are inodes
          BadAddr     \* an address no process has

\* run and runtests: each test in a process of its own, a child of init, which
\* waits for it; a test that returns exits with 0.
run(f) == f \o <<Exit(0)>>
runner == <<Wait("r", "x"), While("r", NotNeg, <<Wait("r", "x")>>)>>

\* wait(&xstatus), and the test exits with the child's status.
WaitOk == <<Wait("r", "x"), Is("x", {0})>>
Text(n) == [k \in 1 .. n |-> "t"]
-----------------------------------------------------------------------------
truncate1 == LET f == <<"truncfile">> IN
  <<Unlink("r", f), Open("fd", f, CWT), Write("r", "fd", <<"a", "b">>), Close("r", "fd"),
    Open("fd2", f, RD)>> \o MustBe(Read("n", "fd2", 9), 2)
  \o <<Open("fd", f, {"WRONLY", "TRUNC"}), Open("fd3", f, RD)>>
  \o MustBe(Read("n", "fd3", 9), 0) \o MustBe(Read("n", "fd2", 9), 0)
  \o <<Write("r", "fd", <<"a", "b", "c">>)>>
  \o MustBe(Read("n", "fd3", 9), 3) \o MustBe(Read("n", "fd2", 9), 1)
  \o <<Unlink("r", f), Close("r", "fd"), Close("r", "fd2"), Close("r", "fd3")>>

truncate2 == LET f == <<"truncfile">> IN
  <<Unlink("r", f), Open("fd", f, CWT), Write("r", "fd", <<"a", "b">>),
    Open("fd2", f, {"WRONLY", "TRUNC"})>> \o MustFail(Write("n", "fd", <<"x">>))
  \o <<Unlink("r", f), Close("r", "fd"), Close("r", "fd2")>>

\* Two rounds against two; each text in one transaction.
truncate3 == LET f == <<"truncfile">> IN
  CloseOpen(f, CWT)
  \o Forked("pid", Rep(1, Must(Open("fd", f, WR)) \o MustBe(Write("n", "fd", <<"1", "2">>), 2)
                          \o <<Close("r", "fd"), Open("fd", f, RD), Read("n", "fd", 9),
                               Close("r", "fd")>>) \o <<Exit(0)>>)
  \o Rep(2, Must(Open("fd", f, CWT)) \o MustBe(Write("n", "fd", <<"x">>), 1)
            \o <<Close("r", "fd")>>)
  \o WaitOk \o <<Unlink("r", f)>>

RemoveCwd(d) == Must(Mkdir("r", <<d>>)) \o Must(Chdir("r", <<d>>))
                \o Must(Unlink("r", <<"..", d>>))

iputtest == RemoveCwd("iputdir") \o Must(Chdir("r", <<"/">>))

exitiputtest == Forked("pid", RemoveCwd("iputdir") \o <<Exit(0)>>) \o WaitOk

openiputtest ==
  Must(Mkdir("r", <<"oidir">>))
  \o Forked("pid", MustFail(Open("fd", <<"oidir">>, RW)) \o <<Exit(0)>>)
  \o <<Pause("r")>> \o Must(Unlink("r", <<"oidir">>)) \o WaitOk

opentest == Must(Open("fd", <<"echo">>, RD)) \o <<Close("r", "fd")>>
            \o MustFail(Open("fd", <<"doesnotexist">>, RD))

writetest == LET f == <<"small">> IN
  Must(Open("fd", f, CRW))
  \o Rep(2, MustBe(Write("n", "fd", <<"a", "a">>), 2) \o MustBe(Write("n", "fd", <<"b", "b">>), 2))
  \o <<Close("r", "fd")>> \o Must(Open("fd", f, RD)) \o MustBe(Read("n", "fd", 8), 8)
  \o <<Close("r", "fd")>> \o Must(Unlink("r", f))

writebig == LET f == <<"big">> IN
  Must(Open("fd", f, CRW))
  \o For(Upto(MAXFILE), LAMBDA i : MustBe(Write("n", "fd", <<i>>), 1))
  \o <<Close("r", "fd")>> \o Must(Open("fd", f, RD))
  \o <<Read("n", "fd", 1), While("n", {1}, <<Follows("a"), Read("n", "fd", 1)>>),
       Is("n", {0}), Is("a", {MAXFILE}), Close("r", "fd")>>
  \o Must(Unlink("r", f))

createtest == LET N == <<"a0", "a1", "a2", "a3">> IN
  For(N, LAMBDA f : CloseOpen(<<f>>, CRW)) \o For(N, LAMBDA f : <<Unlink("r", <<f>>)>>)

dirtest == Must(Mkdir("r", <<"dir0">>)) \o Must(Chdir("r", <<"dir0">>))
           \o Must(Chdir("r", <<"..">>)) \o Must(Unlink("r", <<"dir0">>))

exectest == LET f == <<"echo-ok">> IN
  <<Unlink("r", f)>>
  \o Forked("pid", <<Close("r", "1")>> \o MustBe(Open("fd", f, CWR), 1)
                   \o MustFail(ExecArgs("r", <<"echo">>, Ok, 2, 2, FALSE)) \o <<Is("r", {0})>>)
  \o <<Wait("r", "x"), Equal("r", "pid"), Is("x", {0})>>
  \o Must(Open("fd", f, RD)) \o MustBe(Read("n", "fd", 2), 2)
  \o <<Unlink("r", f), Count("a", {"O"}), Count("b", {"K"}), Is("a", {1}), Is("b", {1})>>
-----------------------------------------------------------------------------
\* Two writes of a pipe and a half.
pipe1 ==
  MustBe(Pipe("r", "fd", "fd2"), 0)
  \o Forked("pid", <<Close("r", "fd")>> \o MustBe(Write("n", "fd2", <<0, 1, 2>>), 3)
                   \o MustBe(Write("n", "fd2", <<3, 4, 5>>), 3) \o <<Exit(0)>>)
  \o <<Close("r", "fd2"), Read("n", "fd", 1), Follows("a"),
       Read("n", "fd", 2), Follows("a"), Read("n", "fd", 4),
       While("n", 1 .. 4, <<Follows("a"), Read("n", "fd", 4)>>),
       Is("a", {6}), Close("r", "fd")>> \o WaitOk

killstatus == Rep(2, Forked("pid", <<Spin>>)
                     \o <<Pause("r"), Kill("r", "pid"), Wait("r", "x"), Is("x", {-1})>>)

preempt ==
  Forked("pid", <<Spin>>) \o Forked("pid2", <<Spin>>) \o <<Pipe("r", "fd", "fd2")>>
  \o Forked("pid3", <<Close("r", "fd")>> \o MustBe(Write("n", "fd2", <<"x">>), 1)
                    \o <<Close("r", "fd2"), Spin>>)
  \o <<Close("r", "fd2")>> \o MustBe(Read("n", "fd", 9), 1)
  \o <<Close("r", "fd"), Kill("r", "pid"), Kill("r", "pid2"), Kill("r", "pid3"),
       Wait("r", "x"), Wait("r", "x"), Wait("r", "x")>>

exitwait == For(Upto(3), LAMBDA i : Forked("pid", <<Exit(i)>>)
                         \o <<Wait("r", "x"), Equal("r", "pid"), Is("x", {i})>>)

reparent == Rep(2, Forked("pid", Forked("pid2", <<>>) \o <<Exit(0)>>)
                   \o <<Wait("r", "x"), Equal("r", "pid")>>)

twochildren == Rep(2, Forked("pid", <<Exit(0)>>) \o Forked("pid2", <<Exit(0)>>)
                      \o <<Wait("r", "x"), Wait("r", "x")>>)

\* One grandchild at a time for each child.
forkfork ==
  Rep(2, Forked("pid", Forked("pid2", <<Exit(0)>>) \o <<Wait("r", "x"), Exit(0)>>))
  \o WaitOk \o WaitOk

reparent2 == Forked("pid", <<Fork("n", <<>>), Fork("n", <<>>), Exit(0)>>)
             \o <<Wait("r", "x")>>

\* Until the process table is full.
forktest ==
  <<Fork("pid", <<Exit(0)>>), While("pid", 1 .. 999, <<Add("n", "n", 1), Fork("pid", <<Exit(0)>>)>>),
    Is("n", 1 .. 999), While("n", 1 .. 999, Must(Wait("r", "x")) \o <<Add("n", "n", -1)>>)>>
  \o MustFail(Wait("r", "x"))
-----------------------------------------------------------------------------
sharedfd == LET f == <<"sharedfd">> IN
  <<Unlink("r", f)>> \o Must(Open("fd", f, CRW))
  \o Forked("pid", Rep(2, MustBe(Write("n", "fd", <<"c", "c">>), 2)) \o <<Exit(0)>>)
  \o Rep(2, MustBe(Write("n", "fd", <<"p", "p">>), 2)) \o WaitOk
  \o <<Close("r", "fd")>> \o Must(Open("fd", f, RD))
  \o <<Read("n", "fd", 2), While("n", {1, 2}, <<Count("a", {"c"}), Count("b", {"p"}), Read("n", "fd", 2)>>),
       Close("r", "fd"), Unlink("r", f), Is("a", {4}), Is("b", {4})>>

\* Two processes, each with a file of its own.
fourfiles == LET N == <<"f0", "f1">> IN
  For(N, LAMBDA f : <<Unlink("r", <<f>>)>>
        \o Forked("pid", Must(Open("fd", <<f>>, CRW))
                         \o MustBe(Write("n", "fd", <<f, f>>), 2) \o <<Exit(0)>>))
  \o WaitOk \o WaitOk
  \o For(N, LAMBDA f : <<Open("fd", <<f>>, RD), Let("a", 0), Read("n", "fd", 9),
                         While("n", 1 .. 9, <<Count("a", {f}), Read("n", "fd", 9)>>),
                         Close("r", "fd"), Is("a", {2}), Unlink("r", <<f>>)>>)

\* Two processes: one makes four files and deletes the second, one makes one.
createdelete ==
  LET N == << <<"p0", "p1", "p2">>, <<"q0">> >>
      name(i, n) == IF i < Len(n) THEN <<n[i + 1]>> ELSE <<"none">>
  IN For(N, LAMBDA n :
        Forked("pid", For(Upto(Len(n)), LAMBDA i :
                            Must(Open("fd", name(i, n), CRW)) \o <<Close("r", "fd")>>
                            \o IF i = 2 THEN Must(Unlink("r", name(1, n))) ELSE <<>>)
                      \o <<Exit(0)>>))
     \o WaitOk \o WaitOk
     \o For(Upto(3), LAMBDA i : For(N, LAMBDA n :
          IF i = 1 \/ i >= Len(n) THEN MustFail(Open("fd", name(i, n), RD))
          ELSE Must(Open("fd", name(i, n), RD)) \o <<Close("r", "fd")>>))
     \o For(Upto(3), LAMBDA i : For(N, LAMBDA n : <<Unlink("r", name(i, n))>>))

unlinkread == LET f == <<"unlinkread">> IN
  Must(Open("fd", f, CRW)) \o <<Write("n", "fd", <<"h", "e">>), Close("r", "fd")>>
  \o Must(Open("fd", f, RW)) \o MustBe(Unlink("r", f), 0)
  \o <<Open("fd2", f, CRW), Write("n", "fd2", <<"y">>), Close("r", "fd2")>>
  \o MustBe(Read("n", "fd", 9), 2) \o <<Count("a", {"h"}), Is("a", {1})>>
  \o MustBe(Write("n", "fd", Text(3)), 3) \o <<Close("r", "fd"), Unlink("r", f)>>

linktest == LET a == <<"lf1">>  b == <<"lf2">> IN
  <<Unlink("r", a), Unlink("r", b)>> \o Must(Open("fd", a, CRW))
  \o MustBe(Write("n", "fd", <<"h", "e">>), 2) \o <<Close("r", "fd")>>
  \o Must(Link("r", a, b, Ok)) \o <<Unlink("r", a)>> \o MustFail(Open("fd", a, RD))
  \o Must(Open("fd", b, RD)) \o MustBe(Read("n", "fd", 9), 2) \o <<Close("r", "fd")>>
  \o MustFail(Link("r", b, b, Ok)) \o <<Unlink("r", b)>> \o MustFail(Link("r", b, a, Ok))
  \o MustFail(Link("r", <<".">>, a, Ok))

\* N = 5; opens and unlinks twice each.
concreate ==
  LET N == <<"C0", "C1", "C2", "C3", "C4">>
      f(i) == <<N[i + 1]>>
      make(i) == Must(Open("fd", f(i), CRW)) \o <<Close("r", "fd")>>
      link(i) == <<Link("r", <<"C0">>, f(i), Ok)>>
      look(i) == Rep(2, CloseOpen(f(i), RD))
      drop(i) == Rep(2, <<Unlink("r", f(i))>>)
  IN For(Upto(5), LAMBDA i :
        <<Unlink("r", f(i))>>
        \o Forked("pid", (IF i % 5 = 1 THEN link(i) ELSE make(i)) \o <<Exit(0)>>)
        \o (IF i % 3 = 1 THEN link(i) ELSE make(i)) \o WaitOk)
     \o <<Open("fd", <<".">>, RD), Read("n", "fd", 1),
          While("n", {1}, <<Count("a", ToSet(N)), Read("n", "fd", 1)>>),
          Close("r", "fd"), Is("a", {5})>>
     \o For(Upto(5), LAMBDA i :
        Forked("pid", (IF i % 3 = 0 THEN look(i) ELSE drop(i)) \o <<Exit(0)>>)
        \o (IF i % 3 = 1 THEN look(i) ELSE drop(i)) \o <<Wait("r", "x")>>)

\* The first five of each process's pseudo-random choices: x % 3.
linkunlink ==
  LET x == <<"x">>
      act(c) == CASE c = 0 -> CloseOpen(x, CRW)
                  [] c = 1 -> <<Link("r", <<"echo">>, x, Ok)>>
                  [] OTHER -> <<Unlink("r", x)>>
  IN <<Unlink("r", x)>> \o Forked("pid", For(<<0, 1, 2>>, act) \o <<Exit(0)>>)
     \o For(<<2, 1, 0>>, act) \o <<Wait("r", "x")>>
-----------------------------------------------------------------------------
subdir ==
  LET dd == <<"dd">>  ff == <<"ff">>  xx == <<"xx">> IN
  <<Unlink("r", ff)>> \o MustBe(Mkdir("r", dd), 0)
  \o Must(Open("fd", dd \o ff, CRW)) \o <<Write("n", "fd", <<"f", "f">>), Close("r", "fd")>>
  \o MustFail(Unlink("r", dd)) \o MustBe(Mkdir("r", <<"/", "dd", "dd">>), 0)
  \o Must(Open("fd", dd \o dd \o ff, CRW)) \o <<Write("n", "fd", <<"F", "F">>), Close("r", "fd")>>
  \o Must(Open("fd", <<"dd", "dd", "..", "ff">>, RD)) \o MustBe(Read("n", "fd", 9), 2)
  \o <<Count("a", {"f"}), Is("a", {2}), Close("r", "fd")>>
  \o MustBe(Link("r", dd \o dd \o ff, <<"dd", "dd", "ffff">>, Ok), 0)
  \o MustBe(Unlink("r", dd \o dd \o ff), 0) \o MustFail(Open("fd", dd \o dd \o ff, RD))
  \o For(<<dd, <<"dd", "..", "..", "dd">>, <<"dd", "..", "..", "..", "dd">>, <<".", "..">> >>,
         LAMBDA d : MustBe(Chdir("r", d), 0))
  \o Must(Open("fd", <<"dd", "dd", "ffff">>, RD)) \o MustBe(Read("n", "fd", 9), 2)
  \o <<Close("r", "fd")>>
  \o MustFail(Open("fd", dd \o dd \o ff, RD)) \o MustFail(Open("fd", dd \o ff \o ff, CRW))
  \o MustFail(Open("fd", dd \o xx \o ff, CRW)) \o MustFail(Open("fd", dd, CR))
  \o MustFail(Open("fd", dd, RW)) \o MustFail(Open("fd", dd, WR))
  \o MustFail(Link("r", dd \o ff \o ff, dd \o dd \o xx, Ok))
  \o MustFail(Link("r", dd \o xx \o ff, dd \o dd \o xx, Ok))
  \o MustFail(Link("r", dd \o ff, <<"dd", "dd", "ffff">>, Ok))
  \o For(<<dd \o ff \o ff, dd \o xx \o ff, <<"dd", "dd", "ffff">> >>, LAMBDA d : MustFail(Mkdir("r", d)))
  \o MustFail(Unlink("r", dd \o xx \o ff)) \o MustFail(Unlink("r", dd \o ff \o ff))
  \o MustFail(Chdir("r", dd \o ff)) \o MustFail(Chdir("r", dd \o xx))
  \o MustBe(Unlink("r", <<"dd", "dd", "ffff">>), 0) \o MustBe(Unlink("r", dd \o ff), 0)
  \o MustFail(Unlink("r", dd)) \o Must(Unlink("r", dd \o dd)) \o Must(Unlink("r", dd))

\* Sizes from one block to two more than a transaction takes.
bigwrite == LET f == <<"bigwrite">> IN
  <<Unlink("r", f)>>
  \o For(Upto(MaxWrite + 3), LAMBDA sz :
       Must(Open("fd", f, CRW)) \o Rep(2, MustBe(Write("n", "fd", Text(sz)), sz))
       \o <<Close("r", "fd"), Unlink("r", f)>>)

bigfile == LET f == <<"bigfile.dat">> IN
  <<Unlink("r", f)>> \o Must(Open("fd", f, CRW))
  \o For(Upto(4), LAMBDA i : MustBe(Write("n", "fd", <<i, i>>), 2))
  \o <<Close("r", "fd")>> \o Must(Open("fd", f, RD))
  \o For(Upto(8), LAMBDA i : MustBe(Read("n", "fd", 1), 1)
                             \o <<Let("a", 0), Count("a", {i \div 2}), Is("a", {1})>>)
  \o MustBe(Read("n", "fd", 1), 0) \o <<Close("r", "fd"), Unlink("r", f)>>

\* "N14" is a name of DIRSIZ characters, and "N15" has one more.
fourteen == LET a == <<"N14">>  b == <<"N15">> IN
  MustBe(Mkdir("r", a), 0) \o MustBe(Mkdir("r", a \o b), 0)
  \o Must(Open("fd", b \o b \o b, CR)) \o <<Close("r", "fd")>>
  \o Must(Open("fd", a \o a \o a, RD)) \o <<Close("r", "fd")>>
  \o MustFail(Mkdir("r", a \o a)) \o MustFail(Mkdir("r", b \o a))
  \o For(<<b \o a, a \o a, a \o a \o a, b \o b \o b, a \o b, a>>, LAMBDA f : <<Unlink("r", f)>>)

rmdot == LET d == <<"dots">> IN
  MustBe(Mkdir("r", d), 0) \o MustBe(Chdir("r", d), 0)
  \o MustFail(Unlink("r", <<".">>)) \o MustFail(Unlink("r", <<"..">>))
  \o MustBe(Chdir("r", <<"/">>), 0) \o MustFail(Unlink("r", <<"dots", ".">>))
  \o MustFail(Unlink("r", <<"dots", "..">>)) \o MustBe(Unlink("r", d), 0)

dirfile == LET f == <<"dirfile">>  x == <<"dirfile", "xx">> IN
  Must(Open("fd", f, CR)) \o <<Close("r", "fd")>> \o MustFail(Chdir("r", f))
  \o MustFail(Open("fd", x, RD)) \o MustFail(Open("fd", x, CR)) \o MustFail(Mkdir("r", x))
  \o MustFail(Unlink("r", x)) \o MustFail(Link("r", <<"README">>, x, Ok))
  \o MustBe(Unlink("r", f), 0) \o MustFail(Open("fd", <<".">>, RW))
  \o <<Open("fd", <<".">>, RD)>> \o MustFail(Write("n", "fd", <<"x">>)) \o <<Close("r", "fd")>>

iref == LET d == <<"irefd">> IN
  Rep(NINODE + 1, MustBe(Mkdir("r", d), 0) \o MustBe(Chdir("r", d), 0)
                  \o <<Mkdir("r", <<>>), Link("r", <<"README">>, <<>>, Ok)>>
                  \o CloseOpen(<<>>, CR) \o CloseOpen(<<"xx">>, CR) \o <<Unlink("r", <<"xx">>)>>)
  \o Rep(NINODE + 1, <<Chdir("r", <<"..">>), Unlink("r", d)>>) \o <<Chdir("r", <<"/">>)>>

\* Four names instead of 500.
bigdir == LET N == <<"x0", "x1", "x2", "x3">> IN
  <<Unlink("r", <<"bd">>)>> \o Must(Open("fd", <<"bd">>, CR)) \o <<Close("r", "fd")>>
  \o For(N, LAMBDA f : MustBe(Link("r", <<"bd">>, <<f>>, Ok), 0)) \o <<Unlink("r", <<"bd">>)>>
  \o For(N, LAMBDA f : MustBe(Unlink("r", <<f>>), 0))

\* Two children, one round each.
manywrites ==
  For(Upto(2), LAMBDA ci : LET f == IF ci = 0 THEN <<"ba">> ELSE <<"bb">> IN
    Forked("pid", <<Unlink("r", f)>>
      \o Must(Open("fd", f, CRW)) \o MustBe(Write("n", "fd", Text(1)), 1)
      \o <<Close("r", "fd")>>
      \o <<Unlink("r", f), Unlink("r", f), Exit(0)>>))
  \o WaitOk \o WaitOk

\* As often as there are blocks.
badwrite == LET f == <<"junk">> IN
  <<Unlink("r", f)>>
  \o Rep(Full * MAXFILE, Must(Open("fd", f, CWR))
                         \o <<WriteAt("n", "fd", <<"x">>, "0", BadAddr), Close("r", "fd"),
                              Unlink("r", f)>>)
  \o Must(Open("fd", f, CWR)) \o MustBe(Write("n", "fd", <<"x">>), 1)
  \o <<Close("r", "fd"), Unlink("r", f)>>

\* Names of a series.
Big == <<"b0", "b1", "b2", "b3", "b4", "b5">>
ZZ  == <<"z0", "z1", "z2", "z3", "z4", "z5", "z6", "z7", "z8", "z9", "z10", "z11">>

diskfull ==
  LET big(i) == <<Big[i + 1]>>  zz(i) == <<ZZ[i + 1]>>
      fill == <<Write("n", "fd", <<"b">>), If("n", {1}, <<>>, <<Let("done", 1), Close("r", "fd")>>)>>
  IN <<Unlink("r", <<"diskfulldir">>)>>
     \o For(Upto(Full), LAMBDA i : <<If("done", {0}, <<Unlink("r", big(i)),
          Open("fd", big(i), CWT), If("fd", NotNeg,
            Rep(MAXFILE, <<If("done", {0}, fill, <<>>)>>) \o <<Close("r", "fd")>>,
            <<Let("done", 1)>>)>>, <<>>)>>)
     \o <<Let("b", 0)>>
     \o For(Upto(3), LAMBDA i : <<If("b", {0}, <<Unlink("r", zz(i)), Open("fd", zz(i), CWT),
          If("fd", NotNeg, <<Close("r", "fd")>>, <<Let("b", 1)>>)>>, <<>>)>>)
     \o MustFail(Mkdir("r", <<"diskfulldir">>)) \o <<Unlink("r", <<"diskfulldir">>)>>
     \o For(Upto(3), LAMBDA i : <<Unlink("r", zz(i))>>)
     \o For(Upto(Full), LAMBDA i : <<Unlink("r", big(i))>>)

outofinodes ==
  LET zz(i) == <<ZZ[i + 1]>>
  IN For(Upto(Inodes), LAMBDA i : <<If("b", {0}, <<Unlink("r", zz(i)), Open("fd", zz(i), CWT),
          If("fd", NotNeg, <<Close("r", "fd")>>, <<Let("b", 1)>>)>>, <<>>)>>)
     \o <<Is("b", {1})>> \o For(Upto(Inodes), LAMBDA i : <<Unlink("r", zz(i))>>)

\* Not in the tables of tests: until the disk is full.
fsfull ==
  LET f(i) == <<Big[i + 1]>>
  IN For(Upto(Full), LAMBDA i : <<If("done", {0}, <<Open("fd", f(i), CRW),
        If("fd", NotNeg, <<Let("a", 0), Write("n", "fd", <<"b">>),
                        While("n", {1}, <<Add("a", "a", 1), Write("n", "fd", <<"b">>)>>),
                        Close("r", "fd"), If("a", {0}, <<Let("done", 1)>>, <<>>)>>,
           <<Let("done", 1)>>)>>, <<>>)>>)
     \o For(Upto(Full), LAMBDA i : <<Unlink("r", f(i))>>)
=============================================================================
