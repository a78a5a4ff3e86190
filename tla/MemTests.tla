------------------------------ MODULE MemTests ------------------------------
(***************************************************************************)
(* user/usertests.c: the tests of user memory, as programs for KSys.  The  *)
(* addresses keep their places: the text at 0, the end of the program and  *)
(* of its stack at SZ0, the kernel at KERNBASE, the trap frame and the     *)
(* trampoline below MAXVA.                                                 *)
(***************************************************************************)
EXTENDS UserCode

CONSTANTS PGSIZE, MAXPATH, SZ0, KERNBASE, MAXVA,
          BIG         \* more than the memory of the machine, and below MAXVA

TRAPFRAME  == MAXVA - 2 * PGSIZE
TRAMPOLINE == MAXVA - PGSIZE
Far == 4 * MAXVA             \* 0xffffffffffffffff
Wild == <<KERNBASE, TRAPFRAME, TRAMPOLINE, MAXVA, Far>>

WaitFor(S) == <<Wait("r", "x"), Is("x", S)>>
ClosePipe == <<Close("r", "fd2"), Close("r", "fd3")>>

copyin == LET f == <<"copyin1">> IN
  For(Wild, LAMBDA a :
    Must(Open("fd", f, CWR)) \o MustFail(WriteAt("n", "fd", <<"x", "x">>, "0", a))
    \o <<Close("r", "fd"), Unlink("r", f), WriteAt("n", "1", <<"x", "x">>, "0", a), Is("n", {-1, 0})>>
    \o Must(Pipe("r", "fd2", "fd3")) \o <<WriteAt("n", "fd3", <<"x", "x">>, "0", a), Is("n", {-1, 0})>>
    \o ClosePipe)

copyout ==
  For(<<0>> \o Wild, LAMBDA a :
    Must(Open("fd", <<"README">>, RD)) \o <<ReadAt("n", "fd", 2, "0", a), Is("n", {-1, 0}), Close("r", "fd")>>
    \o Must(Pipe("r", "fd2", "fd3")) \o MustBe(Write("n", "fd3", <<"x">>), 1)
    \o <<ReadAt("n", "fd2", 2, "0", a), Is("n", {-1, 0})>> \o ClosePipe)

copyinstr1 == For(Wild, LAMBDA a : MustFail(OpenAt("fd", <<"x">>, CWR, <<"0", a, 1>>)))

\* Calls with the string b, which is not one the kernel accepts.
BadString(b) ==
  MustFail([Unlink("r", <<"x">>) EXCEPT !.str = b]) \o MustFail(OpenAt("fd", <<"x">>, CWR, b))
  \o MustFail(Link("r", <<"x">>, <<"x">>, b)) \o MustFail(ExecArgs("r", <<"x">>, b, 1, 1, FALSE))

copyinstr2 ==
  BadString(<<"", 0, MAXPATH>>)
  \o Forked("pid", MustFail(ExecArgs("r", <<"echo">>, Ok, 3, 3 * PGSIZE, TRUE)) \o <<Exit(747)>>)
  \o WaitFor({747})

copyinstr3 == <<Sbrk("r", 2 * PGSIZE), Sbrk("a", 0), Store("a", -1, 1)>> \o BadString(<<"a", -1, 1>>)

rwsbrk ==
  Must(Sbrk("a", 2 * PGSIZE)) \o Must(Sbrk("r", -2 * PGSIZE))
  \o Must(Open("fd", <<"rwsbrk">>, CWR)) \o MustFail(WriteAt("n", "fd", <<"x">>, "a", PGSIZE))
  \o <<Close("r", "fd"), Unlink("r", <<"rwsbrk">>)>>
  \o Must(Open("fd", <<"README">>, RD)) \o MustFail(ReadAt("n", "fd", 1, "a", PGSIZE))
  \o <<Close("r", "fd")>>

\* malloc gets its memory from sbrk; what is freed is used again.
mem ==
  <<Fork("pid", <<SbrkTo("a", SZ0), While("a", NotNeg, <<Sbrk("a", PGSIZE), If("a", NotNeg,
        <<Store("a", 0, 1), Load("r", "a", 0), Is("r", {1})>>, <<>>)>>), Exit(0)>>)>>
  \o <<Wait("r", "x"), Is("x", {0, -1})>>

sbrkbasic ==
  Forked("pid", <<Sbrk("a", BIG), If("a", {-1}, <<Exit(0)>>, <<>>)>>
                \o For(Upto(BIG \div PGSIZE), LAMBDA i : <<Store("a", i * PGSIZE, 99)>>) \o <<Exit(1)>>)
  \o WaitFor({0, -1})
  \o <<Sbrk("a", 0)>>
  \o Rep(PGSIZE + 1, <<Sbrk("b", 1), Equal("b", "a"), Store("b", 0, 1), Add("a", "b", 1)>>)
  \o Forked("pid", <<>>)
  \o <<Sbrk("b", 1), Sbrk("b", 1), Add("a", "a", 1), Equal("b", "a"),
       If("pid", {0}, <<Exit(0)>>, <<>>)>> \o WaitFor({0})

sbrkmuch == LET top == SZ0 + 5 * PGSIZE IN
  <<Sbrk("a", 0), SbrkTo("b", top), Equal("a", "b"), Store("0", top - 1, 99)>>
  \o Must(Sbrk("r", -PGSIZE)) \o MustBe(Sbrk("r", 0), top - PGSIZE)
  \o MustBe(Sbrk("r", PGSIZE), top - PGSIZE) \o MustBe(Sbrk("r", 0), top)
  \o <<Load("n", "0", top - 1), Is("n", {0})>> \o MustBe(SbrkTo("r", SZ0), top)

\* A child makes one access, which the kernel answers by killing it.
Killed(access) == Forked("pid", <<access, Exit(1)>>) \o WaitFor({-1})

kernmem   == For(<<KERNBASE, KERNBASE + PGSIZE>>, LAMBDA a : Killed(Load("r", "0", a)))
MAXVAplus == For(<<MAXVA, 2 * MAXVA, Far>>, LAMBDA a : Killed(Store("0", a, 99)))
stacktest == Killed(Load("r", "0", SZ0 - 2 * PGSIZE))
nowrite   == For(<<0>> \o Wild, LAMBDA a :
               Forked("pid", <<Store("0", a, 10), Exit(0)>>) \o <<Wait("r", "x"), Is("x", {-1})>>)

\* Two children try to get more memory than there is.
sbrkfail ==
  MustBe(Pipe("r", "fd2", "fd3"), 0)
  \o For(<<"pid", "pid2">>, LAMBDA v :
       <<Fork(v, <<SbrkTo("r", BIG), If("r", {-1}, <<Write("n", "fd3", <<"0">>)>>, <<Write("n", "fd3", <<"1">>)>>),
                   Forever(<<Pause("r")>>)>>),
         If(v, NotNeg, <<Read("n", "fd2", 1)>>, <<>>)>>)
  \o <<Sbrk("a", PGSIZE)>>
  \o For(<<"pid", "pid2">>, LAMBDA v : <<If(v, NotNeg, <<Kill("r", v), Wait("r", "x")>>, <<>>)>>)
  \o <<Is("a", NotNeg)>>
  \o Forked("pid", <<Sbrk("a", 10 * BIG), If("a", {-1}, <<Exit(0)>>, <<>>), Exit(1)>>) \o WaitFor({0})

sbrkarg ==
  <<Sbrk("a", PGSIZE), Open("fd", <<"sbrk">>, CWR), Unlink("r", <<"sbrk">>), Is("fd", NotNeg)>>
  \o Must(WriteAt("n", "fd", <<"x">>, "a", 0)) \o <<Close("r", "fd"), Sbrk("a", PGSIZE)>>
  \o MustBe(PipeAt("r", "a", 0), 0)

validatetest == For(Upto(SZ0 \div PGSIZE + 2), LAMBDA i :
                  MustFail(Link("r", <<"nosuchfile">>, <<"x">>, <<"0", i * PGSIZE, 1>>)))

bsstest == <<Load("r", "0", PGSIZE), Is("r", {0})>>

bigargtest == LET f == <<"bigarg-ok">> IN
  <<Unlink("r", f)>>
  \o Forked("pid", <<ExecArgs("r", <<"echo">>, Ok, 3, 3 * PGSIZE, FALSE)>>
                   \o CloseOpen(f, CR) \o <<Exit(0)>>)
  \o WaitFor({0}) \o Must(Open("fd", f, RD)) \o <<Close("r", "fd"), Unlink("r", f)>>

argptest == Must(Open("fd", <<"init">>, RD))
            \o <<Sbrk("a", 0), ReadAt("n", "fd", -1, "a", -1), Close("r", "fd")>>

pgbug == <<ExecArgs("r", <<"x">>, <<"0", Far, 1>>, 0, 0, FALSE), PipeAt("r", "0", Far)>>

\* The first child has no memory left to run in.
sbrkbugs ==
  Forked("pid", <<SbrkTo("r", 0), Load("r", "0", 0), Exit(0)>>) \o <<Wait("r", "x")>>
  \o Forked("pid", <<SbrkTo("r", PGSIZE - 1), Exit(0)>>) \o <<Wait("r", "x")>>
  \o Forked("pid", <<SbrkTo("r", SZ0 + 2 * PGSIZE + 2), Sbrk("r", -1), Exit(0)>>)
  \o <<Wait("r", "x")>>

\* A path in the last page, of which a part has been given back.
sbrklast ==
  <<Sbrk("r", PGSIZE), Sbrk("r", 1), Sbrk("r", -2), Sbrk("a", 0), Store("a", -2, 1),
    OpenAt("fd", <<"x">>, CRW, <<"a", -2, 1>>), WriteAt("n", "fd", <<"x">>, "a", -2), Close("r", "fd"),
    OpenAt("fd", <<"x">>, RW, <<"a", -2, 1>>), Store("a", -2, 0)>>
  \o MustBe(ReadAt("n", "fd", 1, "a", -2), 1) \o <<Count("b", {"x"}), Is("b", {1})>>
  \o <<Close("r", "fd"), Unlink("r", <<"x">>)>>

\* The argument is negative and larger than the size.
sbrk8000 == <<Sbrk("r", -2 * MAXVA), Sbrk("a", 0), Load("r", "a", -1), Store("a", -1, 1)>>

badarg == Rep(12, <<ExecArgs("r", <<"echo">>, Ok, 1, 1, TRUE)>>)

lazy_alloc == LET N == <<1, 3, 5>> IN
  Must(SbrkLazy("a", 6 * PGSIZE)) \o For(N, LAMBDA k : <<Store("a", k * PGSIZE, k)>>)
  \o For(N, LAMBDA k : <<Load("r", "a", k * PGSIZE), Is("r", {k})>>)

lazy_unmap == LET N == <<1, 4>> IN
  Must(SbrkLazy("a", 6 * PGSIZE)) \o For(N, LAMBDA k : <<Store("a", k * PGSIZE, k)>>)
  \o For(N, LAMBDA k :
       Forked("pid", <<SbrkLazy("r", -6 * PGSIZE), Store("a", k * PGSIZE, k), Exit(0)>>)
       \o WaitFor({-1}))

lazy_copy ==
  <<Sbrk("a", 0), SbrkLazy("r", 4 * PGSIZE), OpenAt("fd", <<"x">>, RD, <<"a", 2 * PGSIZE, 1>>),
    Sbrk("a", 0), SbrkTo("r", -1), Equal("r", "a")>>
  \o For(<<TRAPFRAME - PGSIZE, TRAPFRAME, TRAMPOLINE, MAXVA, 2 * MAXVA>>, LAMBDA b :
       Must(Open("fd", <<"README">>, RD)) \o MustFail(ReadAt("n", "fd", 1, "0", b)) \o <<Close("r", "fd")>>
       \o Must(Open("fd", <<"junk">>, {"CREATE", "RDWR", "TRUNC"}))
       \o MustFail(WriteAt("n", "fd", <<"x">>, "0", b)) \o <<Close("r", "fd")>>)
  \o <<Unlink("r", <<"junk">>)>>

execout ==
  For(Upto(10), LAMBDA avail :
    Forked("pid", <<Let("a", 0), While("a", NotNeg, <<Sbrk("a", PGSIZE), If("a", NotNeg, <<Store("a", PGSIZE - 1, 1)>>, <<>>)>>)>>
                  \o Rep(avail, <<Sbrk("r", -PGSIZE)>>)
                  \o <<Close("r", "1"), ExecArgs("r", <<"echo">>, Ok, 2, 2, FALSE), Exit(0)>>)
    \o <<Wait("r", "x")>>)

\* countfree: the number of pages there are, in v.
countfree(v) ==
  <<Let(v, 0), Sbrk("fd2", 0), Sbrk("fd3", PGSIZE),
    While("fd3", NotNeg, <<Add(v, v, 1), Sbrk("fd3", PGSIZE)>>), SbrkTo("fd3", SZ0)>>

\* drivetests: a test may not lose a page.
drivetests(f) ==
  countfree("done") \o Forked("pid", f \o <<Exit(0)>>) \o <<Wait("r", "x"), Is("x", {0, -1})>>
  \o countfree("b") \o <<Equal("b", "done")>>
=============================================================================
