------------------------------- MODULE MCKSys -------------------------------
(***************************************************************************)
(* The programs of UserTests on the kernel of KSys: each initial state is  *)
(* one program, started by init.                                           *)
(***************************************************************************)
EXTENDS KSys

CONSTANTS NPROC, Tests, Full, Inodes, BadAddr, MCProgs

T == INSTANCE UserTests
U == INSTANCE UserPrograms WITH SZ0 <- 4 * PGSIZE, MAXARGS <- 4, CHUNK <- 4, HEAPMAX <- 12

VARIABLE test         \* the name of the program that runs
vars == <<fsvars, sysvars, test>>

MCProc == 1 .. NPROC
MCLong == [N15 |-> "N14"]
MCFiles == << <<"README", << <<"r", 0>> >> >>, <<"echo", << <<"ELFecho", 0>> >> >> >>
MCImage == << [pages |-> 1, w |-> FALSE], [pages |-> 1, w |-> TRUE] >>
MCPrograms == [ELFecho |-> U!echo, ELFcat |-> U!cat, ELFsh |-> U!sh(<<>>) \o <<Exit(0)>>,
               find |-> U!find("b")]

Console == <<Mknod("r", <<"console">>), Open("fd", <<"console">>, RW), Dup("r", "fd"),
             Dup("r", "fd")>>

FileTests ==
  [truncate1 |-> T!truncate1, truncate2 |-> T!truncate2, truncate3 |-> T!truncate3,
   iputtest |-> T!iputtest, exitiputtest |-> T!exitiputtest, openiputtest |-> T!openiputtest,
   opentest |-> T!opentest, writetest |-> T!writetest, writebig |-> T!writebig,
   createtest |-> T!createtest, dirtest |-> T!dirtest, exectest |-> Console \o T!exectest,
   pipe1 |-> T!pipe1, killstatus |-> T!killstatus, preempt |-> T!preempt,
   exitwait |-> T!exitwait, reparent |-> T!reparent, twochildren |-> T!twochildren,
   forkfork |-> T!forkfork, reparent2 |-> T!reparent2,
   forktest |-> T!forktest, sharedfd |-> T!sharedfd, fourfiles |-> T!fourfiles,
   createdelete |-> T!createdelete, unlinkread |-> T!unlinkread, linktest |-> T!linktest,
   concreate |-> T!concreate, linkunlink |-> T!linkunlink, subdir |-> T!subdir,
   bigwrite |-> T!bigwrite, bigfile |-> T!bigfile, fourteen |-> T!fourteen,
   rmdot |-> T!rmdot, dirfile |-> T!dirfile, iref |-> T!iref, bigdir |-> T!bigdir,
   manywrites |-> T!manywrites, badwrite |-> T!badwrite, diskfull |-> T!diskfull,
   outofinodes |-> T!outofinodes, fsfull |-> T!fsfull]
FileTestNames == DOMAIN FileTests

M == INSTANCE MemTests WITH SZ0 <- 4 * PGSIZE, KERNBASE <- 10 * PGSIZE, MAXVA <- MAXPG * PGSIZE,
                            BIG <- (NFRAMES + 2) * PGSIZE

MoreFiles == MCFiles \o << <<"init", << <<"i", 0>> >> >>,
                            <<"cat", << <<"ELFcat", 0>> >> >>, <<"sh", << <<"ELFsh", 0>> >> >> >>

MemTests ==
  [copyin |-> Console \o M!copyin, copyout |-> M!copyout, copyinstr1 |-> M!copyinstr1,
   copyinstr2 |-> M!copyinstr2, copyinstr3 |-> M!copyinstr3, rwsbrk |-> M!rwsbrk,
   mem |-> M!mem, sbrkbasic |-> M!sbrkbasic, sbrkmuch |-> M!sbrkmuch, kernmem |-> M!kernmem,
   MAXVAplus |-> M!MAXVAplus, stacktest |-> M!stacktest, nowrite |-> M!nowrite,
   sbrkfail |-> M!sbrkfail, sbrkarg |-> M!sbrkarg, validatetest |-> M!validatetest,
   bsstest |-> M!bsstest, bigargtest |-> M!bigargtest, argptest |-> M!argptest,
   pgbug |-> M!pgbug, sbrkbugs |-> M!sbrkbugs, sbrklast |-> M!sbrklast,
   sbrk8000 |-> M!sbrk8000, badarg |-> M!badarg, lazy_alloc |-> M!lazy_alloc,
   lazy_unmap |-> M!lazy_unmap, lazy_copy |-> M!lazy_copy, execout |-> Console \o M!execout,
   drivetests |-> M!drivetests(M!sbrkmuch),
   forktest0 |-> U!forktest]
MemTestNames == DOMAIN MemTests

\* Other programs, with what they leave behind checked where they do not.
A == <<"a">>
B == <<"b">>
Files(s) == U!For(s, LAMBDA f : CloseOpen(f, CRW))
OutIs(text) == Must(Open("fd", <<"out">>, RD)) \o MustBe(Read("n", "fd", 9), Len(text)) \o Must(Close("r", "fd"))
Stopped(f) == Forked("pid", f) \o <<Pause("r")>> \o U!kill("pid") \o Must(Wait("r", "x"))
Programs1 ==
  [primes |-> U!primes(4),
   pipeline |-> Console \o U!sh(<< <<"echo", "|", "cat", ">", "out">> >>) \o OutIs(<<"O", "K", "n">>),
   list |-> Console \o U!sh(<< <<"cd", "/">>, <<"nothing", ";", "cat", "<", "echo", ">">>, <<>>,
                               <<"nothing", ";", "cat", "<", "echo">>, <<"echo", "x", "&">> >>),
   find |-> U!mkdir(<<A, <<"a", "d">>>>) \o Files(<< <<"b">>, <<"a", "b">>, <<"a", "d", "b">>, <<"a", "d", "c">> >>)
            \o <<Let("path", <<".">>), Let("a", 0), Call("find"), Is("a", {3})>>,
   ls |-> U!mkdir(<<A>>) \o U!ln(<<"README">>, <<"a", "r">>) \o U!rm(<< <<"echo">> >>)
          \o <<Let("path", <<"a">>)>> \o U!ls(A) \o <<Is("a", {3})>> \o U!wc(<<"a", "r">>) \o <<Is("a", {1})>>,
   init |-> U!zombie,
   forphan |-> Stopped(U!forphan), dorphan |-> Stopped(U!dorphan),
   stressfs |-> U!stressfs, logstress |-> U!logstress,
   grind |-> U!go(<<1 .. 21>>), grind22 |-> Console \o U!go(<< {22} >>), grind3 |-> U!iter(<< {9} >>, << {11} >>)]
MoreTests == MemTests @@ Programs1
MoreTestNames == DOMAIN MoreTests

\* The shell's parser, grep's matcher and the allocator against their references.
ASSUME ParserIsRight    == U!ParserInvertsWriting(2)
ASSUME MatcherIsRight   == U!MatchFindsLanguage(4)
ASSUME AllocatorIsRight == U!StaysTiled(U!Heap0, 6)

Init == \E t \in Tests :
          test = t /\ SysInit((IF t = "init" THEN U!initmain ELSE <<>>) \o T!runner, T!run(MCProgs[t]))

\* The machine is idle for good.
Terminated == Finished /\ UNCHANGED vars

Next == Terminated \/ (SysNext /\ UNCHANGED test)

Spec == Init /\ [][Next]_vars
=============================================================================
