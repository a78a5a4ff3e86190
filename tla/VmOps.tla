------------------------------- MODULE VmOps -------------------------------
(***************************************************************************)
(* User memory: kernel/vm.c, kernel/kalloc.c and the memory parts of       *)
(* kernel/proc.c, kernel/exec.c and kernel/sysproc.c, as operators on a    *)
(* record s with                                                           *)
(*   free    the number of pages on kmem.freelist                          *)
(*   a       an address space: sz, whether there is a root page table      *)
(*           (root), the lower page tables (tabs) and the leaf entries     *)
(*           (map: page |-> [v, u, w], v being what the page holds)        *)
(*   ok      FALSE once an allocation or a check has failed                *)
(*   panic   TRUE once the kernel has panicked                             *)
(* A page has PGSIZE units, and a page table FAN entries on each of two    *)
(* levels (the machine has 512 on three).                                  *)
(***************************************************************************)
EXTENDS Integers, Sequences, FiniteSets, SequencesExt, Functions, TLC

CONSTANTS PGSIZE, FAN, USERSTACK

ASSUME VmSizes == PGSIZE \in Nat \ {0} /\ FAN \in Nat \ {0, 1} /\ USERSTACK \in Nat \ {0}

MAXPG      == FAN * FAN          \* MAXVA / PGSIZE
TRAMPOLINE == MAXPG - 1
TRAPFRAME  == MAXPG - 2
Pages(x)   == (x + PGSIZE - 1) \div PGSIZE     \* PGROUNDUP, in pages
PageSeq(i, j) == [k \in 1 .. IF j > i THEN j - i ELSE 0 |-> i + k - 1]

NoSpace == [sz |-> 0, root |-> FALSE, tabs |-> {}, map |-> <<>>]
On(free, a) == [free |-> free, a |-> a, ok |-> TRUE, panic |-> FALSE]
Fail(s) == [s EXCEPT !.ok = FALSE]
\* The next step of a sequence that stops at the first failure, and what the
\* code undoes when a step has failed.
AndThen(s, Step(_)) == IF s.ok THEN Step(s) ELSE s
OnFail(s, Undo(_)) == IF s.ok THEN s ELSE Undo(s)
-----------------------------------------------------------------------------
(* Page tables *)

walk(s, pg) ==       \* with alloc = 1
  IF pg >= MAXPG THEN [s EXCEPT !.panic = TRUE]
  ELSE IF pg \div FAN \in s.a.tabs THEN s
  ELSE IF s.free = 0 THEN Fail(s)
  ELSE [s EXCEPT !.free = @ - 1, !.a.tabs = @ \cup {pg \div FAN}]

Mapped(a, pg) == pg \in DOMAIN a.map
walkaddr(a, pg) == pg < MAXPG /\ Mapped(a, pg) /\ a.map[pg].u

mappages(s, pg, pte) ==
  AndThen(walk(s, pg), LAMBDA w : IF w.panic \/ Mapped(w.a, pg) THEN [w EXCEPT !.panic = TRUE]
                               ELSE [w EXCEPT !.a.map = @ @@ (pg :> pte)])

\* A fresh page, mapped at pg; the page is freed again if that fails.
MapNew(s, pg, pte) ==
  IF s.free = 0 THEN Fail(s)
  ELSE OnFail(mappages([s EXCEPT !.free = @ - 1], pg, pte), LAMBDA m : [m EXCEPT !.free = @ + 1])
NewPage(w) == [v |-> 0, u |-> TRUE, w |-> w]

uvmunmap(s, pg, n, do_free) ==
  LET gone == {g \in DOMAIN s.a.map : pg <= g /\ g < pg + n}
  IN [s EXCEPT !.a.map = Restrict(@, DOMAIN s.a.map \ gone),
               !.free = IF do_free THEN @ + Cardinality(gone) ELSE @,
               !.panic = @ \/ (n > 0 /\ pg + n > MAXPG)]

uvmdealloc(s, oldsz, newsz) ==
  IF newsz >= oldsz THEN s
  ELSE uvmunmap(s, Pages(newsz), Pages(oldsz) - Pages(newsz), TRUE)

\* Mutant: the pages allocated before the failure are kept.
uvmallocLeaky(s, oldsz, newsz, w) ==
  LET Grow(t, pg) == IF t.ok THEN MapNew(t, pg, NewPage(w)) ELSE t
  IN IF newsz < oldsz THEN s
     ELSE FoldLeft(Grow, s, PageSeq(Pages(oldsz), Pages(newsz)))

uvmalloc(s, oldsz, newsz, w) ==
  LET Grow(t, pg) ==
        IF ~t.ok THEN t
        ELSE OnFail(MapNew(t, pg, NewPage(w)), LAMBDA m : uvmdealloc(m, pg * PGSIZE, oldsz))
  IN IF newsz < oldsz THEN s
     ELSE FoldLeft(Grow, s, PageSeq(Pages(oldsz), Pages(newsz)))

freewalk(s) ==
  IF DOMAIN s.a.map # {} THEN [s EXCEPT !.panic = TRUE]
  ELSE [s EXCEPT !.free = @ + Cardinality(s.a.tabs) + 1, !.a = NoSpace]

uvmfree(s, sz) == freewalk(uvmunmap(s, 0, Pages(sz), TRUE))

uvmcopy(s, old) ==
  LET Copy(t, pg) ==
        IF ~t.ok \/ ~Mapped(old, pg) THEN t
        ELSE OnFail(MapNew(t, pg, old.map[pg]), LAMBDA m : uvmunmap(m, 0, pg, TRUE))
  IN FoldLeft(Copy, s, PageSeq(0, Pages(old.sz)))

uvmclear(s, pg) == [s EXCEPT !.a.map[pg].u = FALSE]

\* A lazily allocated page is given a frame when it is first used.
vmfault(s, addr) ==
  IF addr >= s.a.sz \/ Mapped(s.a, addr \div PGSIZE) THEN Fail(s)
  ELSE IF addr >= MAXPG * PGSIZE THEN [s EXCEPT !.panic = TRUE]     \* ismapped: walk
  ELSE MapNew(s, addr \div PGSIZE, NewPage(TRUE))
-----------------------------------------------------------------------------
(* Copying between kernel and user, n units from addr *)

Span(addr, n) == PageSeq(addr \div PGSIZE, Pages(addr + n))
FaultIn(s, pg) == IF walkaddr(s.a, pg) THEN s ELSE vmfault(s, pg * PGSIZE)

copyin(s, addr, n) ==
  LET In(t, pg) == IF t.ok THEN FaultIn(t, pg) ELSE t
  IN FoldLeft(In, s, Span(addr, n))

copyout(s, addr, n) ==
  LET Out(t, pg) == IF ~t.ok \/ pg >= MAXPG THEN Fail(t)
                    ELSE AndThen(FaultIn(t, pg), LAMBDA f : IF f.a.map[pg].w THEN f ELSE Fail(f))
  IN FoldLeft(Out, s, Span(addr, n))

\* A string of n units and its 0; copyinstr does not call vmfault.
copyinstr(a, addr, n, max) ==
  n < max /\ \A k \in 1 .. Len(Span(addr, n + 1)) : walkaddr(a, Span(addr, n + 1)[k])
-----------------------------------------------------------------------------
(* Processes' memory *)

proc_freepagetable(s, sz) ==
  uvmfree(uvmunmap(uvmunmap(s, TRAMPOLINE, 1, FALSE), TRAPFRAME, 1, FALSE), sz)

\* The root page, the trampoline and the trapframe.
proc_pagetable(s) ==
  LET Kernel(w) == [v |-> 0, u |-> FALSE, w |-> w]
      Root(t) == [t EXCEPT !.free = @ - 1, !.a = [NoSpace EXCEPT !.root = TRUE]]
      Undo(t) == uvmfree(uvmunmap(t, TRAMPOLINE, 1, FALSE), 0)   \* whether mapped or not
  IN IF s.free = 0 THEN Fail(s)
     ELSE OnFail(AndThen(mappages(Root(s), TRAMPOLINE, Kernel(FALSE)),
                      LAMBDA t : mappages(t, TRAPFRAME, Kernel(TRUE))), Undo)

\* allocproc's memory: a page for the trapframe and a page table.
allocproc(free) ==
  IF free = 0 THEN Fail(On(free, NoSpace))
  ELSE OnFail(proc_pagetable(On(free - 1, NoSpace)), LAMBDA s : [s EXCEPT !.free = @ + 1])

\* Mutant: the trapframe's page is kept.
freeprocKeeping(s) == proc_freepagetable(s, s.a.sz)
freeproc(s) == LET t == proc_freepagetable(s, s.a.sz) IN [t EXCEPT !.free = @ + 1]

\* kfork's memory: the child's space, or nothing.
ForkSpace(free, old) ==
  AndThen(allocproc(free),
       LAMBDA s : OnFail(AndThen(uvmcopy(s, old), LAMBDA t : [t EXCEPT !.a.sz = old.sz]), freeproc))

growproc(s, n) ==
  IF n > 0 THEN AndThen(uvmalloc(s, s.a.sz, s.a.sz + n, TRUE), LAMBDA g : [g EXCEPT !.a.sz = s.a.sz + n])
  ELSE IF s.a.sz + n < 0 THEN s      \* the sum wraps: uvmdealloc does nothing
  ELSE [uvmdealloc(s, s.a.sz, s.a.sz + n) EXCEPT !.a.sz = s.a.sz + n]

sys_sbrk(s, n, lazy) ==
  IF ~lazy \/ n < 0 THEN growproc(s, n) ELSE [s EXCEPT !.a.sz = @ + n]

\* kexec: a new space from the segments img (a sequence of [pages, w]), the
\* stack behind a guard page, and the arguments, args units long in all.
Grown(t, pages, w) == AndThen(uvmalloc(t, t.a.sz, t.a.sz + pages * PGSIZE, w),
                           LAMBDA g : [g EXCEPT !.a.sz = @ + pages * PGSIZE])
FreeOld(new, old) == [new EXCEPT !.free = old.free, !.panic = @ \/ old.panic]
kexec(s, img, args) ==
  LET Load(t, seg) == IF t.ok THEN Grown(t, seg.pages, seg.w) ELSE t
      Stack(t) == Grown(t, USERSTACK + 1, TRUE)
      Guard(t) == uvmclear(t, Pages(t.a.sz) - USERSTACK - 1)
      Args(t)  == IF args > USERSTACK * PGSIZE THEN Fail(t) ELSE t
      bad(t)   == [(IF t.a.root THEN proc_freepagetable(t, t.a.sz) ELSE t) EXCEPT !.a = s.a]
      Build(t) == AndThen(AndThen(AndThen(FoldLeft(Load, t, img), Stack), Guard), Args)
      Commit(t) == FreeOld(t, proc_freepagetable(On(t.free, s.a), s.a.sz))
  IN AndThen(OnFail(AndThen(proc_pagetable(On(s.free, NoSpace)), Build), bad), Commit)

\* A load or store of the program: a page fault is served or kills.
Touch(s, addr, store) ==
  LET pg == addr \div PGSIZE
  IN IF walkaddr(s.a, pg) /\ (~store \/ s.a.map[pg].w) THEN s
     ELSE vmfault(s, addr)

\* The pages an address space keeps from the free list, its trapframe too.
PagesOf(a) ==
  IF ~a.root THEN 0
  ELSE 2 + Cardinality(a.tabs) + Cardinality(DOMAIN a.map \ {TRAMPOLINE, TRAPFRAME})
=============================================================================
