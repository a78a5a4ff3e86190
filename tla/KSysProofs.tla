----------------------------- MODULE KSysProofs -----------------------------
(***************************************************************************)
(* Proofs about KSys, for any two programs that init and the first process *)
(* run, any programs they execute, and any number of processes and pipes:  *)
(* the family tree, the file system beneath the processes, the ends of the *)
(* pipes, and that no sleeper in kwait, piperead or pipewrite is forgotten.*)
(***************************************************************************)
EXTENDS KFsProofs, KSys
-----------------------------------------------------------------------------
(* The process table *)

ProcFields == {"state", "parent", "pid", "killed", "xstate", "chan", "pos", "argv"}
States == {"UNUSED", "RUN", "SLEEPING", "ZOMBIE"}
IsProc(x) == x = [y \in ProcFields |-> x[y]] /\ x.state \in States
Procs(pr) == pr = [q \in Proc |-> pr[q]] /\ \A q \in Proc : IsProc(pr[q])
Live(x) == x.state \in {"RUN", "SLEEPING"}

\* Every process but init has a live parent, and init lives.
TreeOk(pr) ==
  /\ Procs(pr) /\ Live(pr[InitProc])
  /\ \A q \in Proc : pr[q].state = "UNUSED" => pr[q].parent = 0
  /\ \A q \in Proc \ {InitProc} :
       pr[q].state # "UNUSED" => pr[q].parent \in Proc /\ Live(pr[pr[q].parent])
TreeInv == TreeOk(proc)

\* Nobody is born, dies, is freed or falls asleep.
Calm(pr, pw) ==
  /\ Procs(pw)
  /\ \A q \in Proc : /\ pw[q].parent = pr[q].parent
                     /\ pw[q].state = "UNUSED" <=> pr[q].state = "UNUSED"
                     /\ pw[q].state = "ZOMBIE" <=> pr[q].state = "ZOMBIE"
                     /\ pw[q].state = "SLEEPING" => pr[q].state = "SLEEPING" /\ pw[q].chan = pr[q].chan

\* The same, but p goes to sleep on ch.
Dozes(pr, pw, p, ch) ==
  /\ Procs(pw) /\ pr[p].state = "RUN" /\ pw[p].state = "SLEEPING" /\ pw[p].chan = ch
  /\ \A q \in Proc : pw[q].parent = pr[q].parent
  /\ \A q \in Proc \ {p} : /\ pw[q].state = "UNUSED" <=> pr[q].state = "UNUSED"
                           /\ pw[q].state = "ZOMBIE" <=> pr[q].state = "ZOMBIE"
                           /\ pw[q].state = "SLEEPING" => pr[q].state = "SLEEPING" /\ pw[q].chan = pr[q].chan

LEMMA CalmSame == ASSUME NEW pr, Procs(pr) PROVE Calm(pr, pr)
BY DEF Calm

LEMMA CalmTwice ==
  ASSUME NEW pr, NEW pw, NEW px, Calm(pr, pw), Calm(pw, px)
  PROVE  Calm(pr, px)
BY DEF Calm

LEMMA WakeIs ==
  ASSUME NEW pr, NEW ch, Procs(pr)
  PROVE  /\ Calm(pr, Wake(pr, ch))
         /\ \A q \in Proc : ~(Wake(pr, ch)[q].state = "SLEEPING" /\ Wake(pr, ch)[q].chan = ch)
         /\ \A q \in Proc : pr[q].state # "SLEEPING" => Wake(pr, ch)[q] = pr[q]
<1> DEFINE w == Wake(pr, ch)
<1>1. w = [q \in Proc |-> w[q]]
  BY DEF Wake
<1>2. ASSUME NEW q \in Proc
      PROVE  /\ IsProc(w[q]) /\ w[q].parent = pr[q].parent
             /\ w[q].state = "UNUSED" <=> pr[q].state = "UNUSED"
             /\ w[q].state = "ZOMBIE" <=> pr[q].state = "ZOMBIE"
             /\ w[q].state = "SLEEPING" => pr[q].state = "SLEEPING" /\ w[q].chan = pr[q].chan
             /\ ~(w[q].state = "SLEEPING" /\ w[q].chan = ch)
             /\ pr[q].state # "SLEEPING" => w[q] = pr[q]
  <2>1. IsProc(pr[q])
    BY DEF Procs
  <2>2. CASE pr[q].state = "SLEEPING" /\ pr[q].chan = ch
    <3>1. w[q] = [pr[q] EXCEPT !.state = "RUN"]
      BY <2>2 DEF Wake
    <3> HIDE DEF w
    <3> QED BY <2>1, <2>2, <3>1 DEF IsProc, ProcFields, States
  <2>3. CASE ~(pr[q].state = "SLEEPING" /\ pr[q].chan = ch)
    <3>1. w[q] = pr[q]
      BY <2>3 DEF Wake
    <3> HIDE DEF w
    <3> QED BY <2>1, <2>3, <3>1
  <2> QED BY <2>2, <2>3
<1> HIDE DEF w
<1>3. Calm(pr, w)
  BY <1>1, <1>2 DEF Calm, Procs
<1> QED BY <1>2, <1>3 DEF w

\* The entry of p becomes x.
With(pr, p, x) == [pr EXCEPT ![p] = x]

\* A field of one process that is none of state, parent and chan.
LEMMA FieldCalm ==
  ASSUME NEW pr, NEW p \in Proc, NEW x, Procs(pr), IsProc(x),
         x.state = pr[p].state, x.parent = pr[p].parent, x.chan = pr[p].chan
  PROVE  Calm(pr, With(pr, p, x))
<1> DEFINE w == With(pr, p, x)
<1>1. w = [q \in Proc |-> w[q]] /\ w[p] = x /\ \A q \in Proc \ {p} : w[q] = pr[q]
  BY DEF Procs, With
<1> HIDE DEF w
<1>2. \A q \in Proc : IsProc(w[q])
  BY <1>1 DEF Procs
<1>3. Calm(pr, w)
  BY <1>1, <1>2 DEF Calm, Procs
<1> QED BY <1>3 DEF w

LEMMA DoneCalm ==
  ASSUME NEW pr, NEW p \in Proc, Procs(pr)
  PROVE  Calm(pr, Done1(pr, p))
<1> DEFINE n == -1
           x == [pr[p] EXCEPT !.pos = n]
<1>1. Done1(pr, p) = With(pr, p, x)
  BY DEF Done1, Procs, With
<1> HIDE DEF n
<1>2. IsProc(pr[p])
  BY DEF Procs
<1>3. IsProc(x) /\ x.state = pr[p].state /\ x.parent = pr[p].parent /\ x.chan = pr[p].chan
  BY <1>2 DEF IsProc, ProcFields
<1> HIDE DEF x
<1> QED BY <1>1, <1>3, FieldCalm

\* p may go on: it is killed, or a tick has come.
LEMMA RunsCalm ==
  ASSUME NEW pr, NEW p \in Proc, NEW x, Procs(pr), IsProc(x), x.parent = pr[p].parent,
         x.chan = pr[p].chan, x.state = IF pr[p].state = "SLEEPING" THEN "RUN" ELSE pr[p].state
  PROVE  Calm(pr, With(pr, p, x))
<1> DEFINE w == With(pr, p, x)
<1>1. w = [q \in Proc |-> w[q]] /\ w[p] = x /\ \A q \in Proc \ {p} : w[q] = pr[q]
  BY DEF Procs, With
<1> HIDE DEF w
<1>2. \A q \in Proc : IsProc(w[q])
  BY <1>1 DEF Procs
<1>3. Calm(pr, w)
  BY <1>1, <1>2 DEF Calm, Procs
<1> QED BY <1>3 DEF w

LEMMA KillCalm ==
  ASSUME NEW pr, NEW p \in Proc, Procs(pr)
  PROVE  Calm(pr, KillProc(pr, p))
<1> DEFINE s == IF pr[p].state = "SLEEPING" THEN "RUN" ELSE pr[p].state
           t == TRUE
           x == [pr[p] EXCEPT !.killed = t, !.state = s]
<1>1. KillProc(pr, p) = With(pr, p, x)
  BY DEF KillProc, Procs, With
<1>2. IsProc(pr[p])
  BY DEF Procs
<1>3. s \in States
  BY <1>2 DEF IsProc, States
<1>4. IsProc(x) /\ x.parent = pr[p].parent /\ x.chan = pr[p].chan /\ x.state = s
  <2> HIDE DEF s, t
  <2>1. x = [pr[p] EXCEPT !.killed = t, !.state = s]
    OBVIOUS
  <2> HIDE DEF x
  <2>2. IsProc(x)
    BY <1>2, <1>3, <2>1 DEF IsProc, ProcFields
  <2>3. x.parent = pr[p].parent /\ x.chan = pr[p].chan /\ x.state = s
    BY <1>2, <2>1 DEF IsProc, ProcFields
  <2> QED BY <2>2, <2>3
<1> HIDE DEF x
<1> QED BY <1>1, <1>4, RunsCalm

\* sleep, after the others have been woken.
LEMMA SleepDozes ==
  ASSUME NEW pr, NEW pw, NEW p \in Proc, NEW ch, NEW n, Procs(pr), Calm(pr, pw), pr[p].state = "RUN"
  PROVE  Dozes(pr, Sleep(pw, p, ch, n), p, ch)
<1> DEFINE x == [pw[p] EXCEPT !.state = "SLEEPING", !.chan = ch, !.pos = n]
           w == Sleep(pw, p, ch, n)
<1>1. Procs(pw)
  BY DEF Calm
<1>2. w = [pw EXCEPT ![p] = x]
  BY <1>1 DEF Sleep, Procs
<1>3. IsProc(x) /\ x.state = "SLEEPING" /\ x.chan = ch /\ x.parent = pw[p].parent
  BY <1>1 DEF Procs, IsProc, ProcFields, States
<1> HIDE DEF x, w
<1>4. w = [q \in Proc |-> w[q]] /\ w[p] = x /\ \A q \in Proc \ {p} : w[q] = pw[q]
  BY <1>1, <1>2 DEF Procs
<1>5. Procs(w)
  BY <1>1, <1>3, <1>4 DEF Procs
<1> QED BY <1>3, <1>4, <1>5 DEF Dozes, Calm, w

LEMMA CalmTree ==
  ASSUME NEW pr, NEW pw, TreeOk(pr), Calm(pr, pw)
  PROVE  TreeOk(pw)
<1>1. \A q \in Proc : Live(pr[q]) <=> Live(pw[q])
  BY DEF TreeOk, Calm, Procs, IsProc, Live, States
<1>2. InitProc \in Proc
  BY SysConstants DEF InitProc
<1> QED BY <1>1, <1>2 DEF TreeOk, Calm

LEMMA DozeTree ==
  ASSUME NEW pr, NEW pw, NEW p \in Proc, NEW ch, TreeOk(pr), Dozes(pr, pw, p, ch)
  PROVE  TreeOk(pw)
<1>1. \A q \in Proc : Live(pr[q]) <=> Live(pw[q])
  BY DEF TreeOk, Dozes, Procs, IsProc, Live, States
<1>2. InitProc \in Proc
  BY SysConstants DEF InitProc
<1>3. \A q \in Proc : pw[q].state = "UNUSED" <=> pr[q].state = "UNUSED"
  BY DEF Dozes
<1> QED BY <1>1, <1>2, <1>3 DEF TreeOk, Dozes

\* The new process q of kfork.
Born(pr, pw, p, q) ==
  /\ Procs(pw) /\ pr[p].state = "RUN" /\ pr[q].state = "UNUSED"
  /\ pw[q].state = "RUN" /\ pw[q].parent = p
  /\ \A r \in Proc \ {q} : pw[r] = pr[r]

LEMMA BornTree ==
  ASSUME NEW pr, NEW pw, NEW p \in Proc, NEW q \in Proc, TreeOk(pr), Born(pr, pw, p, q)
  PROVE  TreeOk(pw)
<1>1. Live(pw[q]) /\ Live(pr[p]) /\ q # p
  BY DEF Born, Live
<1>2. \A r \in Proc : Live(pr[r]) => Live(pw[r])
  BY <1>1 DEF Born
<1>3. InitProc \in Proc
  BY SysConstants DEF InitProc
<1>4. \A r \in Proc : pw[r].state = "UNUSED" => r # q
  BY DEF Born
<1> QED BY <1>1, <1>2, <1>3, <1>4 DEF TreeOk, Born

\* The end of p: its children are init's, and whoever waits for it wakes.
Dies(pr, pw, p) ==
  /\ Procs(pw) /\ pw[p].state = "ZOMBIE" /\ pr[p].state = "RUN"
  /\ \A q \in Proc : pw[q].parent = IF pr[q].parent = p THEN InitProc ELSE pr[q].parent
  /\ \A q \in Proc \ {p} :
       /\ pw[q].state = "UNUSED" <=> pr[q].state = "UNUSED"
       /\ pw[q].state = "ZOMBIE" <=> pr[q].state = "ZOMBIE"
       /\ pw[q].state = "SLEEPING" => pr[q].state = "SLEEPING" /\ pw[q].chan = pr[q].chan
       /\ ~(pw[q].state = "SLEEPING" /\ pw[q].chan = <<"wait", pr[p].parent>>)
       /\ (\E r \in Proc : pr[r].parent = p) =>
            ~(pw[q].state = "SLEEPING" /\ pw[q].chan = <<"wait", InitProc>>)

LEMMA DiesTree ==
  ASSUME NEW pr, NEW pw, NEW p \in Proc, TreeOk(pr), Dies(pr, pw, p), p # InitProc
  PROVE  TreeOk(pw)
<1>1. \A q \in Proc \ {p} : Live(pr[q]) <=> Live(pw[q])
  BY DEF TreeOk, Dies, Procs, IsProc, Live, States
<1>2. InitProc \in Proc /\ 0 \notin Proc
  BY SysConstants, FsConstants DEF InitProc
<1>3. \A q \in Proc : pw[q].state = "UNUSED" => pw[q].parent = 0
  BY <1>2 DEF TreeOk, Dies
<1>4. ASSUME NEW q \in Proc \ {InitProc}, pw[q].state # "UNUSED"
      PROVE  pw[q].parent \in Proc /\ Live(pw[pw[q].parent])
  <2>1. pr[q].state # "UNUSED"
    BY <1>4 DEF Dies
  <2>2. pr[q].parent \in Proc /\ Live(pr[pr[q].parent])
    BY <2>1 DEF TreeOk
  <2>3. pw[q].parent = IF pr[q].parent = p THEN InitProc ELSE pr[q].parent
    BY DEF Dies
  <2> QED BY <1>1, <1>2, <2>2, <2>3 DEF TreeOk
<1> QED BY <1>1, <1>2, <1>3, <1>4 DEF TreeOk, Dies

\* kwait of p frees its child z.
Reaped(pr, pw, p, z) ==
  /\ Procs(pw) /\ pr[p].state = "RUN" /\ pr[z].state = "ZOMBIE" /\ pr[z].parent = p
  /\ pw[z].state = "UNUSED" /\ pw[z].parent = 0
  /\ \A q \in Proc \ {z} : /\ pw[q].state = pr[q].state /\ pw[q].parent = pr[q].parent
                           /\ pw[q].chan = pr[q].chan

LEMMA ReapedTree ==
  ASSUME NEW pr, NEW pw, NEW p \in Proc, NEW z \in Proc, TreeOk(pr), Reaped(pr, pw, p, z)
  PROVE  TreeOk(pw)
<1>1. ~Live(pr[z]) /\ \A q \in Proc \ {z} : Live(pr[q]) <=> Live(pw[q])
  BY DEF Reaped, Live
<1>2. InitProc \in Proc /\ InitProc # z
  BY <1>1, SysConstants DEF InitProc, TreeOk
<1> QED BY <1>1, <1>2 DEF TreeOk, Reaped
-----------------------------------------------------------------------------
(* What each call does to the process table *)

LEMMA OpRuns ==
  ASSUME NEW p, NEW o, Op(p, o)
  PROVE  proc[p].state = "RUN" /\ call[p] = Idle /\ Alive
BY DEF Op, AtUser

LEMMA SpaceRuns ==
  ASSUME NEW p, AtUser(p)
  PROVE  proc[p].state = "RUN" /\ call[p] = Idle /\ Alive
BY DEF AtUser

LEMMA FreeIs == IsProc(FreeProc) /\ FreeProc.state = "UNUSED" /\ FreeProc.parent = 0
BY DEF IsProc, FreeProc, ProcFields, States

\* reparent gives p's children to init, and wakes it if there are any.
LEMMA ReparentIs ==
  ASSUME NEW pr, NEW p, Procs(pr)
  PROVE  LET w == reparent(pr, p)
         IN /\ Procs(w)
            /\ \A q \in Proc : w[q].parent = IF pr[q].parent = p THEN InitProc ELSE pr[q].parent
            /\ \A q \in Proc :
                 /\ w[q].state = "UNUSED" <=> pr[q].state = "UNUSED"
                 /\ w[q].state = "ZOMBIE" <=> pr[q].state = "ZOMBIE"
                 /\ w[q].state = "SLEEPING" => pr[q].state = "SLEEPING" /\ w[q].chan = pr[q].chan
                 /\ (\E r \in Proc : pr[r].parent = p) =>
                      ~(w[q].state = "SLEEPING" /\ w[q].chan = <<"wait", InitProc>>)
<1> DEFINE kids == {q \in Proc : pr[q].parent = p}
           r == [q \in Proc |-> IF q \in kids THEN [pr[q] EXCEPT !.parent = InitProc] ELSE pr[q]]
           w == reparent(pr, p)
           ch == <<"wait", InitProc>>
<1>1. CASE kids = {}
  <2>1. w = pr
    BY <1>1 DEF reparent
  <2>2. \A q \in Proc : pr[q].parent # p
    BY <1>1
  <2> HIDE DEF w, kids
  <2> QED BY <2>1, <2>2 DEF w
<1>2. CASE kids # {}
  <2>1. w = Wake(r, ch)
    BY <1>2 DEF reparent
  <2>2. ASSUME NEW q \in Proc
        PROVE  /\ IsProc(r[q]) /\ r[q].state = pr[q].state /\ r[q].chan = pr[q].chan
               /\ r[q].parent = IF pr[q].parent = p THEN InitProc ELSE pr[q].parent
    <3>1. IsProc(pr[q])
      BY DEF Procs
    <3>2. CASE pr[q].parent = p
      <4>1. r[q] = [pr[q] EXCEPT !.parent = InitProc]
        BY <3>2
      <4> HIDE DEF r
      <4> QED BY <3>1, <3>2, <4>1 DEF IsProc, ProcFields
    <3>3. CASE pr[q].parent # p
      <4>1. r[q] = pr[q]
        BY <3>3
      <4> HIDE DEF r
      <4> QED BY <3>1, <3>3, <4>1
    <3> QED BY <3>2, <3>3
  <2>3. Procs(r)
    BY <2>2 DEF Procs
  <2> HIDE DEF r, kids, ch
  <2>4. Calm(r, w) /\ \A q \in Proc : ~(w[q].state = "SLEEPING" /\ w[q].chan = ch)
    BY <2>1, <2>3, WakeIs
  <2> HIDE DEF w
  <2>5. Procs(w)
    BY <2>4 DEF Calm
  <2>6. \A q \in Proc : w[q].parent = IF pr[q].parent = p THEN InitProc ELSE pr[q].parent
    BY <2>2, <2>4 DEF Calm
  <2>7. \A q \in Proc :
                 /\ w[q].state = "UNUSED" <=> pr[q].state = "UNUSED"
                 /\ w[q].state = "ZOMBIE" <=> pr[q].state = "ZOMBIE"
                 /\ w[q].state = "SLEEPING" => pr[q].state = "SLEEPING" /\ w[q].chan = pr[q].chan
                 /\ ~(w[q].state = "SLEEPING" /\ w[q].chan = ch)
    BY <2>2, <2>4 DEF Calm
  <2> QED BY <2>5, <2>6, <2>7 DEF ch, w
<1> QED BY <1>1, <1>2

LEMMA kexitProc ==
  ASSUME NEW p \in Proc, Procs(proc), kexit(p)
  PROVE  Dies(proc, proc', p) /\ p # InitProc
<1> DEFINE v == reparent(proc, p)
           ch == <<"wait", proc[p].parent>>
           w == Wake(v, ch)
           n == I(p).n
           s == "ZOMBIE"
           m == -1
           x == [w[p] EXCEPT !.state = s, !.xstate = n, !.pos = m]
<1>1. proc' = [w EXCEPT ![p].state = s, ![p].xstate = n, ![p].pos = m] /\ p # InitProc
  BY DEF kexit
<1>2. proc[p].state = "RUN"
  BY OpRuns DEF kexit
<1> HIDE DEF n, m
<1>3. /\ Procs(v)
      /\ \A q \in Proc : v[q].parent = IF proc[q].parent = p THEN InitProc ELSE proc[q].parent
      /\ \A q \in Proc :
                 /\ v[q].state = "UNUSED" <=> proc[q].state = "UNUSED"
                 /\ v[q].state = "ZOMBIE" <=> proc[q].state = "ZOMBIE"
                 /\ v[q].state = "SLEEPING" => proc[q].state = "SLEEPING" /\ v[q].chan = proc[q].chan
                 /\ (\E r \in Proc : proc[r].parent = p) =>
                      ~(v[q].state = "SLEEPING" /\ v[q].chan = <<"wait", InitProc>>)
  BY ReparentIs
<1> HIDE DEF v
<1>4. Calm(v, w) /\ \A q \in Proc : ~(w[q].state = "SLEEPING" /\ w[q].chan = ch)
  BY <1>3, WakeIs
<1> HIDE DEF w
<1>5. Procs(w)
  BY <1>4 DEF Calm
<1>6. proc' = With(w, p, x)
  BY <1>1, <1>5 DEF With, Procs
<1>7. IsProc(x) /\ x.state = "ZOMBIE" /\ x.parent = w[p].parent
  <2>1. IsProc(w[p]) /\ s \in States /\ s = "ZOMBIE"
    BY <1>5 DEF Procs, States
  <2> HIDE DEF s
  <2>2. x = [w[p] EXCEPT !.state = s, !.xstate = n, !.pos = m]
    OBVIOUS
  <2> HIDE DEF x
  <2> QED BY <2>1, <2>2 DEF IsProc, ProcFields
<1> HIDE DEF x
<1>8. proc' = [q \in Proc |-> proc'[q]] /\ proc'[p] = x /\ \A q \in Proc \ {p} : proc'[q] = w[q]
  BY <1>5, <1>6 DEF Procs, With
<1>9. Procs(proc')
  BY <1>5, <1>7, <1>8 DEF Procs
<1>10. \A q \in Proc : proc'[q].parent = IF proc[q].parent = p THEN InitProc ELSE proc[q].parent
  BY <1>3, <1>4, <1>7, <1>8 DEF Calm
<1>11. \A q \in Proc \ {p} :
       /\ proc'[q].state = "UNUSED" <=> proc[q].state = "UNUSED"
       /\ proc'[q].state = "ZOMBIE" <=> proc[q].state = "ZOMBIE"
       /\ proc'[q].state = "SLEEPING" => proc[q].state = "SLEEPING" /\ proc'[q].chan = proc[q].chan
       /\ ~(proc'[q].state = "SLEEPING" /\ proc'[q].chan = ch)
       /\ (\E r \in Proc : proc[r].parent = p) =>
            ~(proc'[q].state = "SLEEPING" /\ proc'[q].chan = <<"wait", InitProc>>)
  BY <1>3, <1>4, <1>8 DEF Calm
<1> QED BY <1>1, <1>2, <1>7, <1>8, <1>9, <1>10, <1>11 DEF Dies, ch

LEMMA kwaitProc ==
  ASSUME NEW p \in Proc, Procs(proc), kwait(p)
  PROVE  \/ Calm(proc, proc')
         \/ \E z \in Proc : Reaped(proc, proc', p, z)
         \/ /\ Dozes(proc, proc', p, <<"wait", p>>)
            /\ \E q \in Proc : proc[q].parent = p
            /\ \A q \in Proc : proc[q].parent = p => proc[q].state # "ZOMBIE"
<1> DEFINE kids == {q \in Proc : proc[q].parent = p}
           Z == {q \in kids : proc[q].state = "ZOMBIE"}
           z == Min(Z)
           ch == <<"wait", p>>
<1>1. proc[p].state = "RUN"
  BY OpRuns DEF kwait
<1>2. \/ Z # {} /\ proc' = Done1([proc EXCEPT ![z] = FreeProc], p)
      \/ proc' = Done1(proc, p)
      \/ Z = {} /\ kids # {} /\ proc' = Sleep(proc, p, ch, 0)
  BY DEF kwait
<1>3. CASE Z # {} /\ proc' = Done1([proc EXCEPT ![z] = FreeProc], p)
  <2>1. z \in Proc /\ proc[z].parent = p /\ proc[z].state = "ZOMBIE"
    <3>1. Z \subseteq Nat
      BY FsConstants
    <3>2. z \in Z
      <4> HIDE DEF Z
      <4> QED BY <1>3, <3>1, MinIn
    <3> QED BY <3>2
  <2> HIDE DEF z, Z
  <2> DEFINE v == With(proc, z, FreeProc)
  <2>2. v = [q \in Proc |-> v[q]] /\ v[z] = FreeProc /\ \A q \in Proc \ {z} : v[q] = proc[q]
    BY <2>1 DEF Procs, With
  <2>3. proc' = Done1(v, p)
    BY <1>3 DEF With
  <2> HIDE DEF v
  <2>4. Procs(v)
    BY <2>2, FreeIs DEF Procs
  <2>5. Calm(v, proc') /\ \A q \in Proc : proc'[q].state = v[q].state /\ proc'[q].chan = v[q].chan
    <3>1. Calm(v, Done1(v, p))
      BY <2>4, DoneCalm
    <3>2. \A q \in Proc : Done1(v, p)[q].state = v[q].state /\ Done1(v, p)[q].chan = v[q].chan
      BY <2>4 DEF Done1, Procs
    <3> QED BY <2>3, <3>1, <3>2
  <2>6. Procs(proc')
    BY <2>5 DEF Calm
  <2>7. proc'[z].state = "UNUSED" /\ proc'[z].parent = 0
    BY <2>1, <2>2, <2>5, FreeIs DEF Calm
  <2>8. Reaped(proc, proc', p, z)
    BY <1>1, <2>1, <2>2, <2>5, <2>6, <2>7 DEF Reaped, Calm
  <2> QED BY <2>1, <2>8
<1>4. CASE proc' = Done1(proc, p)
  BY <1>4, DoneCalm
<1>5. CASE Z = {} /\ kids # {} /\ proc' = Sleep(proc, p, ch, 0)
  <2>1. Calm(proc, proc)
    BY CalmSame
  <2>2. Dozes(proc, Sleep(proc, p, ch, 0), p, ch)
    <3> HIDE DEF ch
    <3> QED BY <1>1, <2>1, SleepDozes
  <2> QED BY <1>5, <2>2
<1> QED BY <1>2, <1>3, <1>4, <1>5

LEMMA kkillProc ==
  ASSUME NEW p \in Proc, Procs(proc), kkill(p)
  PROVE  Calm(proc, proc')
<1> DEFINE T == {q \in Proc : proc[q].pid = Val(p, I(p).pid)}
<1>1. proc' = IF T = {} THEN proc ELSE KillProc(proc, Min(T))
  BY DEF kkill
<1>2. CASE T = {}
  BY <1>1, <1>2, CalmSame
<1>3. CASE T # {}
  <2>1. Min(T) \in Proc
    <3>1. T \subseteq Nat /\ T \subseteq Proc
      BY FsConstants
    <3> HIDE DEF T
    <3> QED BY <1>3, <3>1, MinIn
  <2> QED BY <1>1, <1>3, <2>1, KillCalm
<1> QED BY <1>2, <1>3

LEMMA sys_pauseProc ==
  ASSUME NEW p \in Proc, Procs(proc), sys_pause(p)
  PROVE  Calm(proc, proc') \/ Dozes(proc, proc', p, <<"ticks", 0>>)
<1> DEFINE ch == <<"ticks", 0>>
<1>1. proc[p].state = "RUN"
  BY OpRuns DEF sys_pause
<1>2. proc' = Sleep(proc, p, ch, 0) \/ proc' = Done1(proc, p)
  BY DEF sys_pause
<1>3. Calm(proc, proc)
  BY CalmSame
<1> HIDE DEF ch
<1>4. CASE proc' = Sleep(proc, p, ch, 0)
  BY <1>1, <1>3, <1>4, SleepDozes DEF ch
<1>5. CASE proc' = Done1(proc, p)
  BY <1>5, DoneCalm
<1> QED BY <1>2, <1>4, <1>5

LEMMA clockintrProc ==
  ASSUME NEW p \in Proc, Procs(proc), clockintr(p)
  PROVE  Calm(proc, proc') /\ Live(proc[p])
<1> DEFINE s == "RUN"
           x == [proc[p] EXCEPT !.state = s]
<1>1. proc' = With(proc, p, x) /\ proc[p].state = "SLEEPING" /\ IsProc(proc[p])
  BY DEF clockintr, With, Procs
<1>2. s \in States /\ s = "RUN"
  BY DEF States
<1> HIDE DEF s
<1>3. IsProc(x) /\ x.state = s /\ x.parent = proc[p].parent /\ x.chan = proc[p].chan
  BY <1>1, <1>2 DEF IsProc, ProcFields
<1> HIDE DEF x
<1> QED BY <1>1, <1>2, <1>3, RunsCalm DEF Live

\* argv, killed and pos are set in place.
LEMMA FieldsProc ==
  ASSUME NEW p \in Proc, NEW v, Procs(proc),
         \/ proc' = [proc EXCEPT ![p].argv = v]
         \/ proc' = [proc EXCEPT ![p].killed = v]
         \/ proc' = [proc EXCEPT ![p].pos = v]
  PROVE  Calm(proc, proc')
<1> DEFINE x == [proc[p] EXCEPT !.argv = v]
           y == [proc[p] EXCEPT !.killed = v]
           z == [proc[p] EXCEPT !.pos = v]
<1>1. proc' = With(proc, p, x) \/ proc' = With(proc, p, y) \/ proc' = With(proc, p, z)
  BY DEF With, Procs
<1>2. IsProc(proc[p])
  BY DEF Procs
<1>3. IsProc(x) /\ x.state = proc[p].state /\ x.parent = proc[p].parent /\ x.chan = proc[p].chan
  BY <1>2 DEF IsProc, ProcFields
<1>4. IsProc(y) /\ y.state = proc[p].state /\ y.parent = proc[p].parent /\ y.chan = proc[p].chan
  BY <1>2 DEF IsProc, ProcFields
<1>5. IsProc(z) /\ z.state = proc[p].state /\ z.parent = proc[p].parent /\ z.chan = proc[p].chan
  BY <1>2 DEF IsProc, ProcFields
<1> HIDE DEF x, y, z
<1> QED BY <1>1, <1>3, <1>4, <1>5, FieldCalm

LEMMA kforkProc ==
  ASSUME NEW p \in Proc, Procs(proc), kfork(p)
  PROVE  \/ Calm(proc, proc') /\ UNCHANGED <<file, ofile, cwd, itable>>
         \/ \E q \in Proc : /\ Born(proc, proc', p, q)
                            /\ file' = [f \in File |-> [file[f] EXCEPT !.ref =
                                          @ + Cardinality({d \in Fd : ofile[p][d] = f})]]
                            /\ ofile' = [ofile EXCEPT ![q] = ofile[p]]
                            /\ cwd' = [cwd EXCEPT ![q] = cwd[p]]
                            /\ itable' = Ref(itable, cwd[p], 1)
<1> DEFINE U == {q \in Proc : proc[q].state = "UNUSED"}
           q == Min(U)
           k == proc[q].killed
           no == FALSE
           x == [FreeProc EXCEPT !.state = "RUN", !.pid = nextpid, !.parent = p, !.killed = k]
<1>1. \/ proc' = proc /\ UNCHANGED <<file, ofile, cwd, itable>>
      \/ U # {} /\ proc' = [proc EXCEPT ![q].killed = no] /\ UNCHANGED <<file, ofile, cwd, itable>>
      \/ /\ U # {} /\ proc' = [proc EXCEPT ![q] = x]
         /\ file' = [f \in File |-> [file[f] EXCEPT !.ref =
                                          @ + Cardinality({d \in Fd : ofile[p][d] = f})]]
         /\ ofile' = [ofile EXCEPT ![q] = ofile[p]]
         /\ cwd' = [cwd EXCEPT ![q] = cwd[p]]
         /\ itable' = Ref(itable, cwd[p], 1)
  BY DEF kfork
<1> HIDE DEF no, k
<1>3. ASSUME U # {}
      PROVE  q \in Proc /\ proc[q].state = "UNUSED"
  <2>1. U \subseteq Nat
    BY FsConstants
  <2>2. q \in U
    <3> HIDE DEF U
    <3> QED BY <1>3, <2>1, MinIn
  <2> QED BY <2>2
<1>4. ASSUME U # {}, proc' = [proc EXCEPT ![q].killed = no]
      PROVE  Calm(proc, proc')
  <2> HIDE DEF q, U
  <2> QED BY <1>3, <1>4, FieldsProc
<1>2. ASSUME U # {}, proc' = [proc EXCEPT ![q] = x]
      PROVE  q \in Proc /\ Born(proc, proc', p, q)
  <2>1. q \in Proc /\ proc[q].state = "UNUSED"
    BY <1>2, <1>3
  <2> HIDE DEF q, U
  <2>2. IsProc(x) /\ x.state = "RUN" /\ x.parent = p
    BY DEF IsProc, FreeProc, ProcFields, States
  <2> HIDE DEF x
  <2>3. proc' = [r \in Proc |-> proc'[r]] /\ proc'[q] = x /\ \A r \in Proc \ {q} : proc'[r] = proc[r]
    BY <1>2, <2>1 DEF Procs
  <2>4. Procs(proc')
    BY <2>2, <2>3 DEF Procs
  <2>5. proc[p].state = "RUN"
    BY OpRuns DEF kfork
  <2> QED BY <2>1, <2>2, <2>3, <2>4, <2>5 DEF Born
<1> HIDE DEF q, x, U
<1> QED BY <1>1, <1>2, <1>4, CalmSame
-----------------------------------------------------------------------------
(* What the calls on pipes do to the process table *)

NoSleeper(pr, ch) == \A q \in Proc : ~(pr[q].state = "SLEEPING" /\ pr[q].chan = ch)

LEMMA WakeDoneIs ==
  ASSUME NEW p \in Proc, NEW ch, Procs(proc)
  PROVE  Calm(proc, Done1(Wake(proc, ch), p)) /\ NoSleeper(Done1(Wake(proc, ch), p), ch)
<1> DEFINE w == Wake(proc, ch)
           v == Done1(w, p)
<1>1. Calm(proc, w) /\ NoSleeper(w, ch)
  BY WakeIs DEF NoSleeper
<1> HIDE DEF w
<1>2. Calm(w, v)
  <2>1. Procs(w)
    BY <1>1 DEF Calm
  <2> QED BY <2>1, DoneCalm
<1> HIDE DEF v
<1>3. Calm(proc, v)
  BY <1>1, <1>2, CalmTwice
<1>4. NoSleeper(v, ch)
  BY <1>1, <1>2 DEF NoSleeper, Calm
<1> QED BY <1>3, <1>4 DEF v, w

\* A writer that changes the pipe has woken its readers.
LEMMA pipewriteProc ==
  ASSUME NEW p \in Proc, Procs(proc), pipewrite(p)
  PROVE  LET k == file[argfd(p)].ip
         IN \/ Calm(proc, proc') /\ pipe' = pipe
            \/ /\ Calm(proc, proc') \/ Dozes(proc, proc', p, <<"nwrite", k>>)
               /\ NoSleeper(proc', <<"nread", k>>)
               /\ \E d : pipe' = [pipe EXCEPT ![k].data = d]
<1> DEFINE i  == I(p)
           k  == file[argfd(p)].ip
           j  == IF proc[p].pos = -1 THEN 0 ELSE proc[p].pos
           s  == CopyIn(p, i.at, Len(Units(p)))
           n  == IF s.ok THEN Len(Units(p)) ELSE 0
           m  == Min({n - j, PIPESIZE - Len(pipe[k].data)})
           new == pipe[k].data \o SubSeq(Units(p), j + 1, j + m)
           ch == <<"nwrite", k>>
           cr == <<"nread", k>>
<1>1. proc[p].state = "RUN"
  BY OpRuns DEF pipewrite
<1>2. \/ proc' = Done1(proc, p) /\ pipe' = pipe
      \/ proc' = Sleep(Wake(proc, cr), p, ch, j + m) /\ pipe' = [pipe EXCEPT ![k].data = new]
      \/ proc' = Done1(Wake(proc, cr), p) /\ pipe' = [pipe EXCEPT ![k].data = new]
  BY DEF pipewrite, WakeFull
<1>3. ch # cr
  OBVIOUS
<1> HIDE DEF ch, cr, new, m, j
<1>4. CASE proc' = Done1(proc, p) /\ pipe' = pipe
  BY <1>4, DoneCalm
<1>5. CASE proc' = Sleep(Wake(proc, cr), p, ch, j + m) /\ pipe' = [pipe EXCEPT ![k].data = new]
  <2> DEFINE w == Wake(proc, cr)
             v == Sleep(w, p, ch, j + m)
  <2>1. Calm(proc, w) /\ NoSleeper(w, cr)
    BY WakeIs DEF NoSleeper
  <2>2. Procs(w)
    BY <2>1 DEF Calm
  <2>3. v = Sleep(w, p, ch, j + m)
    OBVIOUS
  <2>4. proc' = v
    BY <1>5
  <2> HIDE DEF w, v
  <2>5. Dozes(proc, v, p, ch)
    BY <1>1, <2>1, <2>3, SleepDozes
  <2>6. \A q \in Proc \ {p} : v[q] = w[q]
    BY <2>2, <2>3 DEF Sleep, Procs
  <2>7. v[p].chan = ch
    BY <2>5 DEF Dozes
  <2>8. NoSleeper(v, cr)
    BY <1>3, <2>1, <2>6, <2>7 DEF NoSleeper
  <2>9. Dozes(proc, proc', p, ch) /\ NoSleeper(proc', cr)
    BY <2>4, <2>5, <2>8
  <2> QED BY <1>5, <2>9 DEF ch, cr
<1>6. CASE proc' = Done1(Wake(proc, cr), p) /\ pipe' = [pipe EXCEPT ![k].data = new]
  <2>1. Calm(proc, proc') /\ NoSleeper(proc', cr)
    BY <1>6, WakeDoneIs
  <2> QED BY <1>6, <2>1 DEF cr
<1> QED BY <1>2, <1>4, <1>5, <1>6

LEMMA pipereadProc ==
  ASSUME NEW p \in Proc, Procs(proc), piperead(p)
  PROVE  LET k == file[argfd(p)].ip
         IN \/ Calm(proc, proc') /\ pipe' = pipe
            \/ /\ Dozes(proc, proc', p, <<"nread", k>>) /\ pipe' = pipe
               /\ pipe[k].data = <<>> /\ pipe[k].writeopen
            \/ /\ Calm(proc, proc') /\ NoSleeper(proc', <<"nwrite", k>>)
               /\ \E d : pipe' = [pipe EXCEPT ![k].data = d]
               /\ ~(pipe[k].data = <<>> /\ pipe[k].writeopen)
<1> DEFINE i == I(p)
           k == file[argfd(p)].ip
           d == pipe[k].data
           n == IF i.n > 0 THEN i.n ELSE 0
           s == CopyOut(p, i.at, n)
           m == IF s.ok THEN Min({n, Len(d)}) ELSE 0
           taken == IF s.ok THEN m ELSE Min({1, n, Len(d)})
           new == SubSeq(d, taken + 1, Len(d))
           cw == <<"nwrite", k>>
           ch == <<"nread", k>>
<1>1. proc[p].state = "RUN"
  BY OpRuns DEF piperead
<1>2. \/ proc' = Done1(proc, p) /\ pipe' = pipe
      \/ proc' = Sleep(proc, p, ch, 0) /\ pipe' = pipe /\ d = <<>> /\ pipe[k].writeopen
      \/ /\ proc' = Done1(Wake(proc, cw), p) /\ pipe' = [pipe EXCEPT ![k].data = new]
         /\ ~(d = <<>> /\ pipe[k].writeopen)
  BY DEF piperead, WakeEmptied
<1> HIDE DEF ch, cw, new
<1>4. CASE proc' = Done1(proc, p) /\ pipe' = pipe
  BY <1>4, DoneCalm
<1>5. CASE proc' = Sleep(proc, p, ch, 0) /\ pipe' = pipe /\ d = <<>> /\ pipe[k].writeopen
  <2>1. Calm(proc, proc)
    BY CalmSame
  <2>2. Dozes(proc, proc', p, ch)
    BY <1>1, <1>5, <2>1, SleepDozes
  <2> QED BY <1>5, <2>2 DEF ch
<1>6. CASE /\ proc' = Done1(Wake(proc, cw), p) /\ pipe' = [pipe EXCEPT ![k].data = new]
           /\ ~(d = <<>> /\ pipe[k].writeopen)
  <2>1. Calm(proc, proc') /\ NoSleeper(proc', cw)
    BY <1>6, WakeDoneIs
  <2> QED BY <1>6, <2>1 DEF cw
<1> QED BY <1>2, <1>4, <1>5, <1>6

LEMMA ClosePipeProc ==
  ASSUME NEW p, NEW d, Procs(proc), ClosePipe(p, d)
  PROVE  /\ Calm(proc, proc')
         /\ file[ofile[p][d]].ref = 1 =>
              NoSleeper(proc', <<IF file[ofile[p][d]].writable THEN "nread" ELSE "nwrite",
                                 file[ofile[p][d]].ip>>)
<1> DEFINE f == ofile[p][d]
           k == file[f].ip
           w == file[f].writable
           ch == <<IF w THEN "nread" ELSE "nwrite", k>>
<1>1. proc' = IF file[f].ref = 1 THEN Wake(proc, ch) ELSE proc
  BY DEF ClosePipe, pipeclose
<1> HIDE DEF ch
<1>2. Calm(proc, Wake(proc, ch)) /\ NoSleeper(Wake(proc, ch), ch)
  BY WakeIs DEF NoSleeper
<1>3. Calm(proc, proc') /\ (file[f].ref = 1 => NoSleeper(proc', ch))
  BY <1>1, <1>2, CalmSame
<1> QED BY <1>3 DEF ch
-----------------------------------------------------------------------------
(* The family tree *)

\* What p goes to sleep on: a wait for children finds some, and no zombie.
Waits(p, ch) ==
  \/ ch = <<"ticks", 0>>
  \/ pipewrite(p) /\ \E k : ch = <<"nwrite", k>>
  \/ piperead(p) /\ \E k : ch = <<"nread", k>>
  \/ /\ ch = <<"wait", p>>
     /\ \E q \in Proc : proc[q].parent = p
     /\ \A q \in Proc : proc[q].parent = p => proc[q].state # "ZOMBIE"

\* What the steps of a process p do to the table of processes.
Turns(p) == \/ Calm(proc, proc')
            \/ \E ch : Dozes(proc, proc', p, ch) /\ Waits(p, ch)
            \/ \E q \in Proc : Born(proc, proc', p, q) \/ Reaped(proc, proc', p, q)
            \/ Dies(proc, proc', p) /\ p # InitProc /\ kexit(p)

LEMMA SysTurns ==
  ASSUME NEW p \in Proc, Procs(proc), SysStep(p)
  PROVE  Turns(p)
<1>1. ASSUME proc' = proc PROVE Turns(p)
  BY <1>1, CalmSame DEF Turns
<1>2. ASSUME \/ Program(p) \/ sys_pipe(p) \/ Sbrk1(p) \/ device(p)
             \/ Refused(p) \/ FsCall(p) \/ FsInside(p)
      PROVE  proc' = proc
  BY <1>2 DEF Program, sys_pipe, Sbrk1, device, Refused, FsCall, FsInside, sysvars
<1>3. CASE CallsKexit(p) \/ Return(p) \/ usertrap(p) \/ ExecStart(p) \/ ExecEnd(p)
  <2>1. \/ proc' = proc \/ \E v : proc' = [proc EXCEPT ![p].argv = v]
        \/ \E v : proc' = [proc EXCEPT ![p].killed = v]
        \/ \E v : proc' = [proc EXCEPT ![p].pos = v]
    BY <1>3 DEF CallsKexit, Return, usertrap, ExecStart, ExecEnd
  <2> QED BY <1>1, <2>1, FieldsProc DEF Turns
<1>4. CASE kfork(p)
  <2>1. Calm(proc, proc') \/ \E q \in Proc : Born(proc, proc', p, q)
    BY <1>4, kforkProc
  <2> QED BY <1>1, <2>1 DEF Turns
<1>5. CASE kexit(p) \/ kkill(p) \/ clockintr(p)
  BY <1>5, kexitProc, kkillProc, clockintrProc DEF Turns
<1>10. CASE kwait(p)
  BY <1>10, kwaitProc DEF Turns, Waits
<1>11. CASE sys_pause(p)
  BY <1>11, sys_pauseProc DEF Turns, Waits
<1>6. CASE close_pipe(p)
  BY <1>6, ClosePipeProc DEF close_pipe, Turns
<1>7. CASE ExitStep(p)
  <2>1. proc' = proc \/ \E d : ClosePipe(p, d)
    BY <1>7 DEF ExitStep, sysvars
  <2> QED BY <1>1, <2>1, ClosePipeProc DEF Turns
<1>8. CASE pipewrite(p)
  BY <1>8, pipewriteProc DEF Turns, Waits
<1>9. CASE piperead(p)
  BY <1>9, pipereadProc DEF Turns, Waits
<1> QED BY <1>1, <1>2, <1>3, <1>4, <1>5, <1>6, <1>7, <1>8, <1>9, <1>10, <1>11 DEF SysStep

LEMMA TreeStep ==
  ASSUME NEW p \in Proc, TreeInv, SysStep(p)
  PROVE  TreeInv'
<1>1. Turns(p)
  BY SysTurns DEF TreeInv, TreeOk
<1> QED BY <1>1, CalmTree, DozeTree, BornTree, ReapedTree, DiesTree DEF Turns, TreeInv

LEMMA NextProc ==
  ASSUME SysNext
  PROVE  \E p \in Proc : SysStep(p)
<1>1. LocalProcs \subseteq Proc /\ LocalProcs \subseteq Nat
  BY FsConstants DEF LocalProcs
<1>2. LocalProcs # {} => Min(LocalProcs) \in Proc
  BY <1>1, MinIn
<1> QED BY <1>2 DEF SysNext

LEMMA TreeInit ==
  ASSUME NEW init, NEW prog, SysInit(init, prog)
  PROVE  TreeInv
<1> DEFINE s == "RUN"
           one == 1
           two == 2
           x == [FreeProc EXCEPT !.state = s, !.pid = one]
           y == [FreeProc EXCEPT !.state = s, !.pid = two, !.parent = one]
<1>1. proc = [p \in Proc |-> CASE p = 1 -> x [] p = 2 -> y [] OTHER -> FreeProc]
  BY DEF SysInit
<1>2. IsProc(x) /\ x.state = "RUN" /\ IsProc(y) /\ y.state = "RUN" /\ y.parent = 1
  BY FreeIs DEF IsProc, ProcFields, States
<1> HIDE DEF x, y
<1>3. 1 \in Proc /\ 2 \in Proc
  BY SysConstants
<1>4. proc[1] = x /\ proc[2] = y /\ \A p \in Proc \ {1, 2} : proc[p] = FreeProc
  BY <1>1, <1>3
<1>5. Procs(proc)
  BY <1>1, <1>2, <1>4, FreeIs DEF Procs
<1> QED BY <1>2, <1>3, <1>4, <1>5, FreeIs DEF TreeInv, TreeOk, Live, InitProc

LEMMA TreeShows == TreeInv => ParentLives
BY FsConstants DEF TreeInv, TreeOk, ParentLives, Live

\* reparent gives the children of an exiting process to init, and kwait frees only
\* zombies: whoever is not init and not free has a living parent, for any programs.
THEOREM ParentLivesHolds ==
  ASSUME NEW init, NEW prog
  PROVE  SysSpec(init, prog) => []ParentLives
<1>1. SysInit(init, prog) => TreeInv
  BY TreeInit
<1>2. TreeInv /\ [SysNext]_<<fsvars, sysvars>> => TreeInv'
  <2>1. TreeInv /\ UNCHANGED <<fsvars, sysvars>> => TreeInv'
    BY DEF TreeInv, sysvars
  <2>2. TreeInv /\ SysNext => TreeInv'
    BY NextProc, TreeStep
  <2> QED BY <2>1, <2>2
<1> QED BY <1>1, <1>2, TreeShows, PTL DEF SysSpec
-----------------------------------------------------------------------------
(* The file system under the processes *)

\* Who has exited, or was never born, holds no file, directory or call.
GoneInv == \A q \in Proc : ~Live(proc[q]) =>
             call[q] = Idle /\ cwd[q] = 0 /\ \A d \in Fd : ofile[q][d] = 0

SysFsInv == FsIInv /\ booted /\ TreeInv /\ GoneInv

FdsOnly(q) == \A r \in Proc \ {q} : ofile'[r] = ofile[r]
CallsSame == UNCHANGED <<itable, cwd, call>>

LEMMA StandsLegal ==
  ASSUME FsShape, CallInv, LockInv, NEW p \in Proc, CallsSame
  PROVE  Legal(p, 0, 0)
<1>1. /\ call' = [call EXCEPT ![p] = call'[p]] /\ cwd' = [cwd EXCEPT ![p] = cwd'[p]]
      /\ IsCall(call'[p]) /\ CallOk(call'[p]) /\ TableOk(itable')
  BY DEF FsShape, CallInv, CallsSame
<1>2. ASSUME NEW i \in Inum
      PROVE  itable'[i].ref = itable[i].ref + Hit(0, i) - Hit(0, i)
               + Uses(call'[p], cwd'[p], i) - Uses(call[p], cwd[p], i)
  <2>1. itable[i].ref \in Int /\ Hit(0, i) = 0 /\ Uses(call[p], cwd[p], i) \in Int
    BY InumZero DEF FsShape, TableOk, Entry1, Uses, LabelUses, Hit
  <2> QED BY <2>1 DEF CallsSame
<1>3. \A i \in Inum : HolderOk(p, call'[p], i)
  BY HolderKept DEF CallsSame
<1> QED BY <1>1, <1>2, <1>3 DEF Legal

LEMMA PutFds ==
  ASSUME FileInv, NEW p \in Proc, NEW d, NEW h, ofile' = [ofile EXCEPT ![p][d] = h]
  PROVE  FdsOnly(p)
BY DEF FdsOnly, FileInv, FileShape

LEMMA FsStepFds ==
  ASSUME FileInv, NEW p \in Proc, FsStep(p)
  PROVE  FdsOnly(p)
<1>1. CASE ofile' = ofile
  BY <1>1 DEF FdsOnly
<1>2. CASE opentail(p) \/ create2(p) \/ open(p)
  <2>1. OpenTail(p, itable) \/ PutAndFail(p)
    BY <1>2 DEF opentail, create2, open
  <2>2. ofile' = ofile \/ \E d, h : ofile' = [ofile EXCEPT ![p][d] = h]
    BY <2>1 DEF OpenTail, PutAndFail, Same
  <2> QED BY <1>1, <2>2, PutFds
<1>3. CASE chdir(p)
  BY <1>1, <1>3 DEF chdir, PutAndFail, Same
<1>4. ASSUME begin_op(p) \/ end_op(p) \/ iput(p) \/ ifree(p) \/ idrop(p) \/ read(p) \/ write(p)
      PROVE  ofile' = ofile
  BY <1>4 DEF begin_op, end_op, iput, ifree, idrop, read, write
<1>6. ASSUME ilockNoType(p) \/ bfreePanics(p) \/ unlinkPanics(p)
      PROVE  ofile' = ofile
  BY <1>6 DEF ilockNoType, bfreePanics, unlinkPanics, Panics
<1>5. ASSUME \/ namex(p) \/ NotFound(p) \/ link(p) \/ link2(p) \/ linkbad(p)
             \/ unlink(p) \/ unlink2(p) \/ putdp(p) \/ unlink3(p)
             \/ create(p) \/ mktail(p) \/ exec(p) \/ fstat(p) \/ reclaim(p)
      PROVE  ofile' = ofile
  <2>1. Same
    BY <1>5 DEF namex, NotFound, link, link2, linkbad, unlink, unlink2, putdp, unlink3,
                create, mktail, exec, fstat, reclaim
  <2> QED BY <2>1 DEF Same
<1> QED BY <1>1, <1>2, <1>3, <1>4, <1>5, <1>6 DEF FsStep

LEMMA SomeCallFds ==
  ASSUME FileInv, NEW p \in Proc, SomeCall(p)
  PROVE  FdsOnly(p)
<1>1. ofile' = ofile \/ \E d, h : ofile' = [ofile EXCEPT ![p][d] = h]
  <2>1. ASSUME NEW fd \in Fd, sys_dup(p, fd) \/ sys_close(p, fd)
        PROVE  ofile' = ofile \/ \E d, h : ofile' = [ofile EXCEPT ![p][d] = h]
    BY <2>1 DEF sys_dup, sys_close
  <2>2. ASSUME NEW c, Enter(p, c) PROVE ofile' = ofile
    BY <2>2 DEF Enter, Same
  <2> QED BY <2>1, <2>2 DEF SomeCall, sys_open, sys_mkdir, sys_mknod, sys_link, sys_unlink, sys_chdir,
                            sys_exec, sys_read, sys_write, sys_fstat, exit_cwd
<1>2. CASE ofile' = ofile
  BY <1>2 DEF FdsOnly
<1> QED BY <1>1, <1>2, PutFds

\* fork: the child shares the files and the directory of its parent.
LEMMA kforkFiles ==
  ASSUME FileInv, NEW p \in Proc, NEW q \in Proc, p # q, \A d \in Fd : ofile[q][d] = 0,
         file' = [f \in File |-> [file[f] EXCEPT !.ref =
                      @ + Cardinality({d \in Fd : ofile[p][d] = f})]],
         ofile' = [ofile EXCEPT ![q] = ofile[p]]
  PROVE  FileStep(0, 0)
<1> DEFINE D(f) == {d \in Fd : ofile[p][d] = f}
<1>1. ASSUME NEW f \in File
      PROVE  /\ Cardinality(D(f)) \in Nat
             /\ Cardinality(FdsOf(ofile', f)) = Cardinality(FdsOf(ofile, f)) + Cardinality(D(f))
  <2> DEFINE E == {q} \X D(f)
             A == FdsOf(ofile, f)
             B == FdsOf(ofile', f)
  <2>1. IsFiniteSet(D(f))
    BY Tables, FS_Subset
  <2>2. Cardinality(D(f)) \in Nat
    BY <2>1, FS_CardinalityType
  <2>3. IsFiniteSet(E) /\ Cardinality(E) = Cardinality(D(f))
    <3> HIDE DEF D
    <3>1. IsFiniteSet({q}) /\ Cardinality({q}) = 1
      BY FS_Singleton
    <3>2. IsFiniteSet(E) /\ Cardinality(E) = Cardinality({q}) * Cardinality(D(f))
      BY <2>1, <3>1, FS_Product
    <3> QED BY <2>2, <3>1, <3>2
  <2>4. IsFiniteSet(A)
    <3>1. A \in SUBSET (Proc \X Fd)
      BY DEF FdsOf
    <3> HIDE DEF A
    <3> QED BY <3>1, Tables, FS_Subset
  <2>5. A \cap E = {}
    <3> SUFFICES ASSUME NEW x \in A, x \in E PROVE FALSE
      OBVIOUS
    <3>1. x[1] = q /\ x[2] \in Fd
      OBVIOUS
    <3>2. ofile[x[1]][x[2]] = f
      BY DEF FdsOf
    <3> QED BY <3>1, <3>2, Tables
  <2>6. B = A \cup E
    <3>1. ofile'[q] = ofile[p] /\ \A r \in Proc \ {q} : ofile'[r] = ofile[r]
      BY DEF FileInv, FileShape
    <3>2. ASSUME NEW x \in Proc \X Fd
          PROVE  x \in B <=> x \in A \/ x \in E
      <4>1. x = <<x[1], x[2]>> /\ x[1] \in Proc /\ x[2] \in Fd
        OBVIOUS
      <4>2. x \in B <=> ofile'[x[1]][x[2]] = f
        BY DEF FdsOf
      <4>3. x \in A <=> ofile[x[1]][x[2]] = f
        BY DEF FdsOf
      <4>4. x \in E <=> x[1] = q /\ ofile[p][x[2]] = f
        BY <4>1
      <4>5. CASE x[1] = q
        BY <3>1, <4>1, <4>2, <4>3, <4>4, <4>5, Tables
      <4>6. CASE x[1] # q
        BY <3>1, <4>1, <4>2, <4>3, <4>4, <4>6
      <4> QED BY <4>5, <4>6
    <3>3. A \subseteq Proc \X Fd /\ B \subseteq Proc \X Fd /\ E \subseteq Proc \X Fd
      BY DEF FdsOf
    <3> HIDE DEF A, B, E
    <3> QED BY <3>2, <3>3
  <2>7. Cardinality(A \cup E) = Cardinality(A) + Cardinality(E)
    <3> HIDE DEF A, E
    <3>1. Cardinality(A \cup E) = Cardinality(A) + Cardinality(E) - Cardinality(A \cap E)
      BY <2>3, <2>4, FS_Union
    <3>2. Cardinality(A \cap E) = 0
      BY <2>5, FS_EmptySet
    <3>3. Cardinality(A) \in Nat /\ Cardinality(E) \in Nat
      BY <2>3, <2>4, FS_CardinalityType
    <3> QED BY <3>1, <3>2, <3>3
  <2> HIDE DEF D, E
  <2> QED BY <2>2, <2>3, <2>6, <2>7
<1>2. ASSUME NEW f \in File
      PROVE  /\ GoodFile(file'[f]) /\ Use(file'[f]) = Use(file[f])
             /\ file'[f].ref = Cardinality(FdsOf(ofile', f))
  <2> DEFINE n == Cardinality(D(f))
  <2>1. GoodFile(file[f]) /\ file[f].ref = Cardinality(FdsOf(ofile, f)) /\ file[f].ref \in Nat
    BY FdsFinite DEF FileInv, FileShape
  <2>2. file'[f] = [file[f] EXCEPT !.ref = @ + n]
    OBVIOUS
  <2>3. n \in Nat /\ Cardinality(FdsOf(ofile', f)) = file[f].ref + n
    BY <1>1, <2>1
  <2>4. file[f].ref = 0 => n = 0
    <3> SUFFICES ASSUME file[f].ref = 0 PROVE n = 0
      OBVIOUS
    <3>1. FdsOf(ofile, f) \in SUBSET (Proc \X Fd)
      BY DEF FdsOf
    <3>2. FdsOf(ofile, f) = {}
      <4> HIDE DEF FdsOf
      <4> QED BY <2>1, <3>1, Tables, FS_Subset, FS_EmptySet
    <3>3. D(f) = {}
      <4> SUFFICES ASSUME NEW d \in Fd, ofile[p][d] = f PROVE FALSE
        OBVIOUS
      <4>1. <<p, d>> \in FdsOf(ofile, f)
        BY DEF FdsOf
      <4> QED BY <3>2, <4>1
    <3> QED BY <3>3, FS_EmptySet
  <2> HIDE DEF n, D
  <2>5. /\ IsFile(file'[f]) /\ file'[f].ref = file[f].ref + n
        /\ file'[f].type = file[f].type /\ file'[f].ip = file[f].ip
    <3>1. IsFile(file[f])
      BY <2>1 DEF GoodFile
    <3> DEFINE v == file[f].ref + n
    <3>2. file'[f] = [file[f] EXCEPT !.ref = v]
      BY <2>2
    <3> HIDE DEF v
    <3>3. IsFile(file'[f]) /\ file'[f].ref = v /\ file'[f].type = file[f].type /\ file'[f].ip = file[f].ip
      BY <3>1, <3>2 DEF IsFile, FileFields
    <3> QED BY <3>3 DEF v
  <2>6. file'[f].ref = 0 <=> file[f].ref = 0
    BY <2>1, <2>3, <2>4, <2>5
  <2> QED BY <2>1, <2>3, <2>5, <2>6 DEF GoodFile, Use
<1>3. ofile' \in [Proc -> [Fd -> File \cup {0}]]
  BY DEF FileInv, FileShape
<1>4. file' = [f \in File |-> file'[f]]
  OBVIOUS
<1>5. FileInv'
  BY <1>2, <1>3, <1>4 DEF FileInv, FileShape
<1>6. FilesMore(0, 0)
  BY <1>2, FilesSame
<1> QED BY <1>5, <1>6 DEF FileStep

LEMMA kforkLegal ==
  ASSUME FsShape, CallInv, LockInv, NEW q \in Proc, NEW w, call[q] = Idle, cwd[q] = 0,
         call' = call, cwd' = [cwd EXCEPT ![q] = w], itable' = Ref(itable, w, 1)
  PROVE  Legal(q, 0, 0)
<1>1. /\ cwd' = [cwd EXCEPT ![q] = cwd'[q]] /\ cwd'[q] = w /\ call'[q] = Idle
      /\ call' = [call EXCEPT ![q] = call'[q]] /\ IsCall(call'[q]) /\ CallOk(call'[q])
  BY DEF FsShape, CallInv
<1>2. /\ TableOk(itable')
      /\ \A i \in Inum : /\ itable'[i].ref = itable[i].ref + (IF i = w THEN 1 ELSE 0)
                         /\ itable'[i].holder = itable[i].holder
  BY RefTable DEF FsShape
<1>3. ASSUME NEW i \in Inum
      PROVE  itable'[i].ref = itable[i].ref + Hit(0, i) - Hit(0, i)
               + Uses(call'[q], cwd'[q], i) - Uses(call[q], cwd[q], i)
  <2>1. Idle.pc = "idle"
    BY DEF Idle
  <2>2. \A v : /\ CwdAt("idle", Idle, v) = v /\ IpAt("idle", Idle) = 0
               /\ DpAt("idle", Idle) = 0 /\ LpAt("idle", Idle) = 0
    BY DEF CwdAt, IpAt, DpAt, LpAt, ChdirDone, IpLabels, NameLabels
  <2>3. \A v : LabelUses("idle", Idle, v, i) = Hit(v, i)
    BY <2>2, InumZero DEF LabelUses, Hit
  <2>4. Uses(Idle, w, i) = Hit(w, i) /\ Uses(Idle, 0, i) = 0
    BY <2>1, <2>3, UsesNow, InumZero DEF Putting
  <2>5. itable[i].ref \in Int /\ Hit(0, i) = 0 /\ Hit(w, i) = IF i = w THEN 1 ELSE 0
    BY InumZero DEF FsShape, TableOk, Entry1, Hit
  <2> QED BY <1>1, <1>2, <2>4, <2>5
<1>4. \A i \in Inum : HolderOk(q, call'[q], i)
  BY <1>1, <1>2, HolderKept
<1> QED BY <1>1, <1>2, <1>3, <1>4 DEF Legal


\* Descriptor d of p comes to refer to g, 0 if to none.
PutFd(o, p, d, g) == [o EXCEPT ![p][d] = g]

LEMMA PutFdIs ==
  ASSUME NEW o \in [Proc -> [Fd -> File \cup {0}]], NEW p \in Proc, NEW d \in Fd,
         NEW g \in File \cup {0}
  PROVE  LET v == PutFd(o, p, d, g)
         IN /\ v \in [Proc -> [Fd -> File \cup {0}]]
            /\ v[p][d] = g /\ \A e \in Fd \ {d} : v[p][e] = o[p][e]
            /\ \A q \in Proc \ {p} : v[q] = o[q]
            /\ \A f : Cardinality(FdsOf(v, f)) =
                        Cardinality(FdsOf(o, f)) - Hit(o[p][d], f) + Hit(g, f)
<1> DEFINE v == PutFd(o, p, d, g)
           S == Proc \X Fd
           a == [x \in S |-> o[x[1]][x[2]]]
           b == [x \in S |-> v[x[1]][x[2]]]
           x0 == <<p, d>>
<1>1. /\ v \in [Proc -> [Fd -> File \cup {0}]]
      /\ v[p][d] = g /\ \A e \in Fd \ {d} : v[p][e] = o[p][e]
      /\ \A q \in Proc \ {p} : v[q] = o[q]
  BY DEF PutFd
<1> HIDE DEF v
<1>2. x0 \in S /\ a[x0] = o[p][d] /\ b[x0] = g
  BY <1>1
<1>3. \A x \in S \ {x0} : b[x] = a[x]
  <2> SUFFICES ASSUME NEW x \in S, x # x0 PROVE b[x] = a[x]
    OBVIOUS
  <2>1. x = <<x[1], x[2]>> /\ x[1] \in Proc /\ x[2] \in Fd
    OBVIOUS
  <2>2. x[1] # p \/ x[2] # d
    BY <2>1
  <2> QED BY <1>1, <2>1, <2>2
<1>4. IsFiniteSet(S)
  BY Tables
<1>5. ASSUME NEW f
      PROVE  Cardinality(FdsOf(v, f)) = Cardinality(FdsOf(o, f)) - Hit(o[p][d], f) + Hit(g, f)
  <2>1. FdsOf(o, f) = {x \in S : a[x] = f} /\ FdsOf(v, f) = {x \in S : b[x] = f}
    BY DEF FdsOf
  <2> HIDE DEF S, a, b, x0
  <2>2. CountIn(S, b, f) = CountIn(S, a, f) - Hit(a[x0], f) + Hit(b[x0], f)
    BY ONLY <1>2, <1>3, <1>4, CountMoved
  <2>3. CountIn(S, a, f) = Cardinality(FdsOf(o, f)) /\ CountIn(S, b, f) = Cardinality(FdsOf(v, f))
    BY <2>1 DEF CountIn
  <2> QED BY <1>2, <2>2, <2>3
<1> QED BY <1>1, <1>5 DEF v

\* pipe: two free files become the ends of a pipe, two descriptors refer to them.
TwoFiles(p, d0, d1, f0, f1, x0, x1) ==
  /\ file' = [file EXCEPT ![f0] = x0, ![f1] = x1]
  /\ ofile' = [ofile EXCEPT ![p][d0] = f0, ![p][d1] = f1]

LEMMA TwoFilesStep ==
  ASSUME FileInv, NEW p \in Proc, NEW d0 \in Fd, NEW d1 \in Fd, NEW f0 \in File, NEW f1 \in File,
         NEW x0, NEW x1,
         d0 # d1, f0 # f1, ofile[p][d0] = 0, ofile[p][d1] = 0, file[f0].ref = 0, file[f1].ref = 0,
         GoodFile(x0), GoodFile(x1), x0.ref = 1, x1.ref = 1, Use(x0) = 0, Use(x1) = 0,
         TwoFiles(p, d0, d1, f0, f1, x0, x1)
  PROVE  FileStep(0, 0) /\ FdsOnly(p)
<1> DEFINE o1 == PutFd(ofile, p, d0, f0)
           o2 == PutFd(o1, p, d1, f1)
<1>1. ofile \in [Proc -> [Fd -> File \cup {0}]]
  BY DEF FileInv, FileShape
<1>2. /\ o1 \in [Proc -> [Fd -> File \cup {0}]] /\ o1[p][d1] = 0
      /\ \A f : Cardinality(FdsOf(o1, f)) = Cardinality(FdsOf(ofile, f)) - Hit(0, f) + Hit(f0, f)
      /\ \A q \in Proc \ {p} : o1[q] = ofile[q]
  BY <1>1, PutFdIs
<1>3. ofile' = o2
  BY <1>1 DEF TwoFiles, PutFd
<1> HIDE DEF o1
<1>4. /\ o2 \in [Proc -> [Fd -> File \cup {0}]]
      /\ \A f : Cardinality(FdsOf(o2, f)) = Cardinality(FdsOf(o1, f)) - Hit(0, f) + Hit(f1, f)
      /\ \A q \in Proc \ {p} : o2[q] = o1[q]
  BY <1>2, PutFdIs
<1> HIDE DEF o2
<1>5. /\ file' = [f \in File |-> file'[f]] /\ file'[f0] = x0 /\ file'[f1] = x1
      /\ \A f \in File \ {f0, f1} : file'[f] = file[f]
  BY DEF FileInv, FileShape, TwoFiles
<1>6. ASSUME NEW f \in File
      PROVE  file'[f].ref = Cardinality(FdsOf(ofile', f)) /\ GoodFile(file'[f])
             /\ Use(file'[f]) = Use(file[f])
  <2>1. file[f].ref = Cardinality(FdsOf(ofile, f)) /\ Cardinality(FdsOf(ofile, f)) \in Nat
        /\ GoodFile(file[f])
    BY FdsFinite DEF FileInv, FileShape
  <2>2. Cardinality(FdsOf(ofile', f)) = file[f].ref + Hit(f0, f) + Hit(f1, f)
    <3>1. Hit(0, f) = 0 /\ Hit(f0, f) \in Nat /\ Hit(f1, f) \in Nat
      BY Tables DEF Hit
    <3> QED BY <1>2, <1>3, <1>4, <2>1, <3>1
  <2>3. CASE f = f0
    <3>1. Use(file[f]) = 0
      BY <2>1, <2>3 DEF GoodFile, Use
    <3> QED BY <1>5, <2>2, <2>3, <3>1 DEF Hit
  <2>4. CASE f = f1
    <3>1. Use(file[f]) = 0
      BY <2>1, <2>4 DEF GoodFile, Use
    <3> QED BY <1>5, <2>2, <2>4, <3>1 DEF Hit
  <2>5. CASE f # f0 /\ f # f1
    <3>1. file'[f] = file[f] /\ Hit(f0, f) = 0 /\ Hit(f1, f) = 0
      BY <1>5, <2>5 DEF Hit
    <3> QED BY <2>1, <2>2, <3>1
  <2> QED BY <2>3, <2>4, <2>5
<1>7. FileInv'
  BY <1>3, <1>4, <1>5, <1>6 DEF FileInv, FileShape
<1>8. FilesMore(0, 0)
  BY <1>6, FilesSame
<1>9. FdsOnly(p)
  BY <1>2, <1>3, <1>4 DEF FdsOnly
<1> QED BY <1>7, <1>8, <1>9 DEF FileStep

LEMMA MinTwo ==
  ASSUME NEW S, S \subseteq Nat, IsFiniteSet(S), Cardinality(S) >= 2
  PROVE  /\ Min(S) \in S
         /\ Min(S \ {Min(S)}) \in S /\ Min(S \ {Min(S)}) # Min(S)
<1>1. S # {}
  BY FS_EmptySet
<1>2. Min(S) \in S
  BY <1>1, MinIn
<1>3. Cardinality(S \ {Min(S)}) = Cardinality(S) - 1 /\ Cardinality(S) \in Nat
  BY <1>2, FS_RemoveElement, FS_CardinalityType
<1>4. S \ {Min(S)} # {}
  BY <1>3, FS_EmptySet
<1>5. Min(S \ {Min(S)}) \in S \ {Min(S)}
  BY <1>4, MinIn
<1> QED BY <1>2, <1>5

PipeEnd(k, w) == [FreeFile EXCEPT !.ref = 1, !.type = "PIPE", !.ip = k,
                                  !.readable = ~w, !.writable = w]
LEMMA PipeEndIs ==
  ASSUME NEW k, NEW w \in BOOLEAN
  PROVE  LET x == PipeEnd(k, w)
         IN /\ GoodFile(x) /\ x.ref = 1 /\ x.type = "PIPE" /\ x.ip = k /\ x.writable = w
            /\ Use(x) = 0
<1> DEFINE x == PipeEnd(k, w)
           n == 1
           t == "PIPE"
           r == ~w
<1>1. x = [FreeFile EXCEPT !.ref = n, !.type = t, !.ip = k, !.readable = r, !.writable = w]
  BY DEF PipeEnd
<1>2. n = 1 /\ t = "PIPE"
  OBVIOUS
<1> HIDE DEF x, n, t, r
<1>3. IsFile(x) /\ x.ref = n /\ x.type = t /\ x.ip = k /\ x.writable = w
  BY <1>1 DEF FreeFile, IsFile, FileFields
<1>4. GoodFile(x) /\ Use(x) = 0
  BY <1>2, <1>3 DEF GoodFile, Use
<1> QED BY <1>2, <1>3, <1>4 DEF x

\* What sys_pipe does when it succeeds.
PipedAs(p, d0, d1, f0, f1, k) ==
  /\ d0 # d1 /\ f0 # f1 /\ ofile[p][d0] = 0 /\ ofile[p][d1] = 0
  /\ file[f0].ref = 0 /\ file[f1].ref = 0 /\ ~pipe[k].on
  /\ TwoFiles(p, d0, d1, f0, f1, PipeEnd(k, FALSE), PipeEnd(k, TRUE))
  /\ pipe' = [pipe EXCEPT ![k] = [on |-> TRUE, data |-> <<>>, readopen |-> TRUE,
                                  writeopen |-> TRUE]]
Piped(p) == \E d0, d1 \in Fd, f0, f1 \in File, k \in 1 .. NPIPE : PipedAs(p, d0, d1, f0, f1, k)

LEMMA sys_pipeFiles ==
  ASSUME NEW p \in Proc, sys_pipe(p)
  PROVE  UNCHANGED <<file, ofile, pipe>> \/ Piped(p)
<1> DEFINE ff == {f \in File : file[f].ref = 0}
           fd == {d \in Fd : ofile[p][d] = 0}
           kk == {k \in 1 .. NPIPE : ~pipe[k].on}
           f0 == Min(ff)
           f1 == Min(ff \ {f0})
           d0 == Min(fd)
           d1 == Min(fd \ {d0})
           k == Min(kk)
           s == CopyOutOf(nfree - 1, p, I(p).at, 2)
           bad == Cardinality(ff) < 2 \/ Cardinality(fd) < 2 \/ nfree = 0 \/ ~s.ok
<1>1. CASE bad
  BY <1>1 DEF sys_pipe
<1>2. CASE ~bad
  <2>1. IsFiniteSet(ff) /\ IsFiniteSet(fd) /\ ff \subseteq Nat /\ fd \subseteq Nat
    BY Tables, FS_Subset
  <2>2. Cardinality(ff) >= 2 /\ Cardinality(fd) >= 2
    <3>1. Cardinality(ff) \in Nat /\ Cardinality(fd) \in Nat
      BY <2>1, FS_CardinalityType
    <3> HIDE DEF ff, fd
    <3> QED BY <1>2, <3>1
  <2>3. f0 \in ff /\ f1 \in ff /\ f1 # f0
    <3> HIDE DEF ff
    <3> QED BY <2>1, <2>2, MinTwo
  <2>4. d0 \in fd /\ d1 \in fd /\ d1 # d0
    <3> HIDE DEF fd
    <3> QED BY <2>1, <2>2, MinTwo
  <2>5. kk # {} /\ kk \subseteq Nat
    BY DEF sys_pipe
  <2>6. k \in kk
    <3> HIDE DEF kk
    <3> QED BY <2>5, MinIn
  <2>7. TwoFiles(p, d0, d1, f0, f1, PipeEnd(k, FALSE), PipeEnd(k, TRUE))
    BY <1>2 DEF sys_pipe, TwoFiles, PipeEnd
  <2>8. pipe' = [pipe EXCEPT ![k] = [on |-> TRUE, data |-> <<>>, readopen |-> TRUE,
                                    writeopen |-> TRUE]]
    BY <1>2 DEF sys_pipe
  <2>9. /\ f0 \in File /\ f1 \in File /\ d0 \in Fd /\ d1 \in Fd /\ k \in 1 .. NPIPE
        /\ file[f0].ref = 0 /\ file[f1].ref = 0 /\ ofile[p][d0] = 0 /\ ofile[p][d1] = 0
        /\ ~pipe[k].on
    BY <2>3, <2>4, <2>6
  <2> HIDE DEF f0, f1, d0, d1, k
  <2>10. Piped(p)
    BY <2>3, <2>4, <2>7, <2>8, <2>9 DEF Piped, PipedAs
  <2> QED BY <2>10
<1> QED BY <1>1, <1>2

LEMMA PipedFiles ==
  ASSUME FileInv, NEW p \in Proc, Piped(p)
  PROVE  FileStep(0, 0) /\ FdsOnly(p)
<1>1. PICK d0 \in Fd, d1 \in Fd, f0 \in File, f1 \in File, k \in 1 .. NPIPE :
        /\ d0 # d1 /\ f0 # f1 /\ ofile[p][d0] = 0 /\ ofile[p][d1] = 0
        /\ file[f0].ref = 0 /\ file[f1].ref = 0
        /\ TwoFiles(p, d0, d1, f0, f1, PipeEnd(k, FALSE), PipeEnd(k, TRUE))
  BY DEF Piped, PipedAs
<1> DEFINE x0 == PipeEnd(k, FALSE)
           x1 == PipeEnd(k, TRUE)
<1>2. GoodFile(x0) /\ GoodFile(x1) /\ x0.ref = 1 /\ x1.ref = 1 /\ Use(x0) = 0 /\ Use(x1) = 0
  BY PipeEndIs
<1>3. TwoFiles(p, d0, d1, f0, f1, x0, x1)
  BY <1>1
<1> HIDE DEF x0, x1
<1> QED BY ONLY FileInv, p \in Proc, d0 \in Fd, d1 \in Fd, f0 \in File, f1 \in File,
                <1>1, <1>2, <1>3, TwoFilesStep

\* fileclose of a pipe end.
LEMMA ClosePipeFiles ==
  ASSUME FileInv, NEW p \in Proc, NEW d \in Fd, ClosePipe(p, d),
         ofile[p][d] # 0, file[ofile[p][d]].type = "PIPE"
  PROVE  FileStep(0, 0) /\ FdsOnly(p)
<1> DEFINE g == ofile[p][d]
           x == IF file[g].ref = 1 THEN FreeFile ELSE [file[g] EXCEPT !.ref = @ - 1]
<1>1. FileTo(g, x) /\ FdTo(p, d, 0)
  BY DEF ClosePipe, FileTo, FdTo
<1>2. g \in File /\ GoodFile(file[g]) /\ file[g].ref = Cardinality(FdsOf(ofile, g))
  BY DEF FileInv, FileShape
<1>3. file[g].ref \in Nat /\ file[g].ref # 0
  BY <1>2, FdsFinite DEF GoodFile
<1>4. GoodFile(x) /\ x.ref = file[g].ref - 1 /\ Use(x) = 0
  <2>1. CASE file[g].ref # 1
    <3> DEFINE v == file[g].ref - 1
    <3>1. x = [file[g] EXCEPT !.ref = v] /\ v \in Nat /\ v # 0
      BY <1>3, <2>1
    <3> HIDE DEF x, v
    <3>2. x.ref = v /\ x.type = "PIPE" /\ IsFile(x)
      BY <1>2, <3>1 DEF GoodFile, IsFile, FileFields
    <3> QED BY <3>1, <3>2 DEF GoodFile, Use, v
  <2>2. CASE file[g].ref = 1
    <3>1. x = FreeFile
      BY <2>2
    <3> HIDE DEF x
    <3> QED BY <2>2, <3>1 DEF GoodFile, IsFile, FileFields, Use, FreeFile
  <2> QED BY <2>1, <2>2
<1>5. Use(file[g]) = 0
  BY DEF Use
<1>6. FileStep(0, 0)
  <2>1. ofile[p][d] \in {0, g} /\ 0 \in {0, g}
    OBVIOUS
  <2>2. Hit(ofile[p][d], g) = 1 /\ Hit(0, g) = 0
    BY DEF Hit
  <2> HIDE DEF g, x
  <2>3. x.ref = file[g].ref - Hit(ofile[p][d], g) + Hit(0, g)
    BY <1>3, <1>4, <2>2
  <2>4. FileStep(Use(file[g]), Use(x))
    BY ONLY FileInv, p \in Proc, d \in Fd, <1>1, <1>2, <1>4, <2>1, <2>3, FileMoved
  <2> QED BY <1>4, <1>5, <2>4
<1>7. FdsOnly(p)
  BY <1>1, PutFds DEF FdTo
<1> QED BY <1>6, <1>7
-----------------------------------------------------------------------------
(* The steps of a process, as the file system sees them *)

\* q, who lives, steps in the file system; or nothing changes there but files.
Moves(q) == /\ Kept(q) /\ FdsOnly(q) /\ boot' = boot
            /\ Live(proc[q]) \/ Live(proc'[q]) \/ UNCHANGED <<call, cwd, ofile>>

LEMMA IdlePc == Idle.pc = "idle" /\ Idle.op = ""
BY DEF Idle

LEMMA InsideBusy ==
  ASSUME NEW p, FsStep(p)
  PROVE  Pc(p) # "idle" \/ UNCHANGED <<itable, cwd, call, file, ofile, boot>>
<1>1. ASSUME begin_op(p) \/ end_op(p) \/ iput(p) \/ ifree(p) \/ idrop(p)
             \/ read(p) \/ write(p) \/ namex(p)
      PROVE  Pc(p) # "idle"
  BY <1>1 DEF begin_op, end_op, iput, ifree, idrop, read, write, namex, At
<1>4. ASSUME NotFound(p)
      PROVE  Pc(p) # "idle"
  BY <1>4 DEF NotFound, Pc
<1>5. ASSUME ilockNoType(p) \/ bfreePanics(p) \/ unlinkPanics(p)
      PROVE  UNCHANGED <<itable, cwd, call, file, ofile, boot>>
  BY <1>5 DEF ilockNoType, bfreePanics, unlinkPanics, Panics
<1>2. ASSUME \/ link(p) \/ link2(p) \/ linkbad(p) \/ unlink(p) \/ unlink2(p) \/ putdp(p)
             \/ unlink3(p) \/ create(p) \/ mktail(p) \/ exec(p) \/ fstat(p) \/ reclaim(p)
      PROVE  Pc(p) # "idle"
  BY <1>2 DEF link, link2, linkbad, unlink, unlink2, putdp, unlink3,
              create, mktail, exec, fstat, reclaim, At
<1>3. ASSUME opentail(p) \/ create2(p) \/ open(p) \/ chdir(p)
      PROVE  Pc(p) # "idle"
  BY <1>3 DEF opentail, create2, open, chdir, At
<1> QED BY <1>1, <1>2, <1>3, <1>4, <1>5 DEF FsStep

LEMMA StandsMoves ==
  ASSUME SysFsInv, NEW p \in Proc, UNCHANGED <<itable, cwd, call, file, ofile, boot>>
  PROVE  Moves(p)
<1>1. Kept(p)
  BY StandsKept DEF SysFsInv, FsIInv
<1> QED BY <1>1 DEF Moves, FdsOnly

\* Steps of the programs, the processes, the pipes' data and the memory.
LEMMA QuietMoves ==
  ASSUME SysFsInv, NEW p \in Proc,
         \/ Program(p) \/ CallsKexit(p) \/ kexit(p) \/ kwait(p) \/ kkill(p) \/ sys_pause(p)
         \/ clockintr(p) \/ pipewrite(p) \/ piperead(p) \/ Sbrk1(p) \/ usertrap(p) \/ device(p)
         \/ Refused(p)
  PROVE  Moves(p)
<1>1. ASSUME \/ Program(p) \/ CallsKexit(p) \/ kexit(p) \/ kkill(p) \/ sys_pause(p)
             \/ clockintr(p) \/ pipewrite(p) \/ piperead(p) \/ device(p) \/ Refused(p)
      PROVE  UNCHANGED fsvars
  BY <1>1 DEF Program, CallsKexit, kexit, kkill, sys_pause, clockintr, pipewrite, piperead,
              device, Refused
<1>2. ASSUME kwait(p) \/ Sbrk1(p) \/ usertrap(p)
      PROVE  UNCHANGED <<itable, cwd, call, file, ofile, boot>>
  BY <1>2 DEF kwait, Sbrk1, usertrap
<1>3. UNCHANGED <<itable, cwd, call, file, ofile, boot>>
  BY <1>1, <1>2 DEF fsvars
<1> QED BY <1>3, StandsMoves

\* The end of a call, and the start of exec.
LEMMA ReturnMoves ==
  ASSUME SysFsInv, NEW p \in Proc, Return(p) \/ ExecEnd(p)
  PROVE  Moves(p)
<1>1. /\ Go(p, Idle) /\ Pc(p) = "idle" /\ UNCHANGED <<itable, cwd, file, ofile, boot>>
      /\ call[p] # Idle
  <2>1. CASE Return(p)
    BY <2>1 DEF Return, Returning
  <2>2. CASE ExecEnd(p)
    <3>1. /\ Go(p, Idle) /\ Pc(p) = "idle" /\ UNCHANGED <<itable, cwd, file, ofile, boot>>
          /\ call[p].op = "exec"
      BY <2>2 DEF ExecEnd
    <3>2. Idle.op = ""
      BY DEF Idle
    <3> QED BY <3>1, <3>2
  <2> QED BY <2>1, <2>2
<1>2. Kept(p)
  BY <1>1, ReturnKept DEF SysFsInv, FsIInv
<1>3. Live(proc[p])
  BY <1>1 DEF SysFsInv, GoneInv
<1> QED BY <1>1, <1>2, <1>3 DEF Moves, FdsOnly

LEMMA ExecStartMoves ==
  ASSUME SysFsInv, NEW p \in Proc, ExecStart(p)
  PROVE  Moves(p)
<1> DEFINE d == [Idle EXCEPT !.pc = "begin", !.op = "exec", !.path = I(p).path]
<1>1. /\ call' = call \/ Go(p, d)
      /\ UNCHANGED <<itable, cwd, file, ofile, boot>>
  BY DEF ExecStart
<1>2. proc[p].state = "RUN" /\ Pc(p) = "idle"
  <2>1. proc[p].state = "RUN" /\ call[p] = Idle
    BY OpRuns DEF ExecStart
  <2> QED BY <2>1, IdlePc DEF Pc
<1>3. IsCall(d) /\ d.pc = "begin" /\ d.op = "exec" /\ d.mode = {}
  BY DEF IsCall, CallFields, Idle
<1> HIDE DEF d
<1>4. CASE Go(p, d)
  <2>1. /\ d.op \in Creators \cup {"link", "unlink", "chdir", "exec", "write"}
        /\ "CREATE" \notin d.mode /\ d.op # "chdir"
    BY <1>3
  <2>2. FsShape /\ CallInv /\ LockInv /\ FileInv
    BY DEF SysFsInv, FsIInv
  <2>3. Kept(p)
    BY <1>1, <1>2, <1>3, <1>4, <2>1, <2>2, BeginKept
  <2> QED BY <1>1, <1>2, <2>3 DEF Moves, FdsOnly, Live
<1>5. CASE call' = call
  BY <1>1, <1>5, StandsMoves
<1> QED BY <1>1, <1>4, <1>5

\* The calls of the file system.
LEMMA SomeCallMoves ==
  ASSUME SysFsInv, NEW p \in Proc, SomeCall(p), Live(proc[p])
  PROVE  Moves(p)
<1>1. FsShape /\ CallInv /\ LockInv /\ FileInv
  BY DEF SysFsInv, FsIInv
<1>2. Kept(p) /\ boot' = boot
  BY <1>1, CallKept
<1>3. FdsOnly(p)
  BY <1>1, SomeCallFds
<1> QED BY <1>2, <1>3 DEF Moves

LEMMA FsCallSome ==
  ASSUME NEW p, FsCall(p)
  PROVE  SomeCall(p) /\ proc[p].state = "RUN"
<1>1. ASSUME PathCall(p) PROVE SomeCall(p)
  BY <1>1 DEF PathCall, SomeCall
<1>2. ASSUME FileCall(p) PROVE SomeCall(p)
  <2> DEFINE fd == Val(p, I(p).fd)
  <2>1. fd \in Fd
    BY <1>2 DEF FileCall, argfd
  <2>2. \/ \E n, m : sys_read(p, fd, n, m)
        \/ \E u : sys_write(p, fd, u)
        \/ \E m : sys_fstat(p, fd, m)
        \/ sys_dup(p, fd) \/ sys_close(p, fd)
    BY <1>2 DEF FileCall
  <2> HIDE DEF fd
  <2> QED BY <2>1, <2>2 DEF SomeCall
<1> QED BY <1>1, <1>2 DEF FsCall, AtUser

LEMMA FsCallMoves ==
  ASSUME SysFsInv, NEW p \in Proc, FsCall(p)
  PROVE  Moves(p)
BY FsCallSome, SomeCallMoves DEF Live

LEMMA InsideMoves ==
  ASSUME SysFsInv, NEW p \in Proc, FsInside(p)
  PROVE  Moves(p)
<1>1. FsShape /\ CallInv /\ LockInv /\ FileInv /\ FsStep(p)
  BY DEF SysFsInv, FsIInv, FsInside
<1>2. Kept(p) /\ boot' = boot /\ FdsOnly(p)
  BY <1>1, FsStepKept, FsStepFds
<1>3. CASE Pc(p) # "idle"
  <2>1. call[p] # Idle
    BY <1>3, IdlePc DEF Pc
  <2>2. Live(proc[p])
    BY <2>1 DEF SysFsInv, GoneInv
  <2> QED BY <1>2, <2>2 DEF Moves
<1>4. CASE UNCHANGED <<itable, cwd, call, file, ofile, boot>>
  BY <1>4, StandsMoves
<1> QED BY <1>1, <1>3, <1>4, InsideBusy

LEMMA ClosePipeMoves ==
  ASSUME SysFsInv, NEW p \in Proc, NEW d \in Fd, ClosePipe(p, d),
         ofile[p][d] # 0, file[ofile[p][d]].type = "PIPE", Live(proc[p])
  PROVE  Moves(p)
<1>1. FsShape /\ CallInv /\ LockInv /\ FileInv
  BY DEF SysFsInv, FsIInv
<1>2. FileStep(0, 0) /\ FdsOnly(p)
  BY <1>1, ClosePipeFiles
<1>3. CallsSame /\ boot' = boot
  BY DEF ClosePipe, CallsSame
<1>4. Legal(p, 0, 0)
  BY <1>1, <1>3, StandsLegal
<1>5. Kept(p)
  BY <1>2, <1>4 DEF Kept
<1> QED BY <1>2, <1>3, <1>5 DEF Moves

LEMMA close_pipeMoves ==
  ASSUME SysFsInv, NEW p \in Proc, close_pipe(p)
  PROVE  Moves(p)
<1> DEFINE d == Val(p, I(p).fd)
<1>1. argfd(p) # 0 /\ file[argfd(p)].type = "PIPE" /\ ClosePipe(p, d)
  BY DEF close_pipe, OnPipe
<1>2. d \in Fd /\ argfd(p) = ofile[p][d]
  BY <1>1 DEF argfd
<1>3. Live(proc[p])
  BY OpRuns DEF close_pipe, Live
<1> HIDE DEF d
<1> QED BY <1>1, <1>2, <1>3, ClosePipeMoves

LEMMA ExitStepMoves ==
  ASSUME SysFsInv, NEW p \in Proc, ExitStep(p)
  PROVE  Moves(p)
<1> DEFINE open1 == {d \in Fd : ofile[p][d] # 0}
           d == Min(open1)
<1>1. Live(proc[p])
  BY OpRuns DEF ExitStep, Live
<1>2. CASE p = InitProc
  <2>1. UNCHANGED <<itable, cwd, call, file, ofile, boot>>
    BY <1>2 DEF ExitStep
  <2> QED BY <2>1, StandsMoves
<1>3. CASE p # InitProc /\ open1 # {}
  <2>1. d \in open1
    <3>1. open1 \subseteq Nat
      BY Tables
    <3> HIDE DEF open1
    <3> QED BY <1>3, <3>1, MinIn
  <2>2. d \in Fd /\ ofile[p][d] # 0
    BY <2>1
  <2>3. IF file[ofile[p][d]].type = "PIPE" THEN ClosePipe(p, d) ELSE sys_close(p, d)
    BY <1>3 DEF ExitStep
  <2> HIDE DEF d
  <2>4. CASE file[ofile[p][d]].type = "PIPE"
    BY <1>1, <2>2, <2>3, <2>4, ClosePipeMoves
  <2>5. CASE file[ofile[p][d]].type # "PIPE"
    <3>1. SomeCall(p)
      BY <2>2, <2>3, <2>5 DEF SomeCall
    <3> QED BY <1>1, <3>1, SomeCallMoves
  <2> QED BY <2>4, <2>5
<1>4. CASE p # InitProc /\ open1 = {}
  <2>1. exit_cwd(p)
    BY <1>4 DEF ExitStep
  <2>2. SomeCall(p)
    BY <2>1 DEF SomeCall
  <2> QED BY <1>1, <2>2, SomeCallMoves
<1> QED BY <1>2, <1>3, <1>4

LEMMA sys_pipeMoves ==
  ASSUME SysFsInv, NEW p \in Proc, sys_pipe(p)
  PROVE  Moves(p)
<1>1. FsShape /\ CallInv /\ LockInv /\ FileInv
  BY DEF SysFsInv, FsIInv
<1>2. CallsSame /\ boot' = boot
  BY DEF sys_pipe, CallsSame
<1>3. Live(proc[p])
  BY OpRuns DEF sys_pipe, Live
<1>4. CASE UNCHANGED <<file, ofile>>
  BY <1>2, <1>4, StandsMoves DEF CallsSame
<1>5. CASE Piped(p)
  <2>1. FileStep(0, 0) /\ FdsOnly(p)
    BY <1>1, <1>5, PipedFiles
  <2>2. Legal(p, 0, 0)
    BY <1>1, <1>2, StandsLegal
  <2> QED BY <1>2, <1>3, <2>1, <2>2 DEF Moves, Kept
<1> QED BY <1>4, <1>5, sys_pipeFiles

\* fork is a step of the child.
LEMMA kforkMoves ==
  ASSUME SysFsInv, NEW p \in Proc, kfork(p)
  PROVE  \E q \in Proc : Moves(q)
<1>1. FsShape /\ CallInv /\ LockInv /\ FileInv /\ GoneInv /\ Procs(proc)
  BY DEF SysFsInv, FsIInv, TreeInv, TreeOk
<1>2. call' = call /\ boot' = boot
  BY DEF kfork
<1>3. CASE UNCHANGED <<file, ofile, cwd, itable>>
  <2>1. Moves(p)
    BY <1>2, <1>3, StandsMoves
  <2> QED BY <2>1
<1>4. ASSUME NEW q \in Proc, Born(proc, proc', p, q),
             file' = [f \in File |-> [file[f] EXCEPT !.ref =
                        @ + Cardinality({d \in Fd : ofile[p][d] = f})]],
             ofile' = [ofile EXCEPT ![q] = ofile[p]], cwd' = [cwd EXCEPT ![q] = cwd[p]],
             itable' = Ref(itable, cwd[p], 1)
      PROVE  Moves(q)
  <2>1. proc[p].state = "RUN" /\ proc[q].state = "UNUSED" /\ p # q /\ Live(proc'[q])
    BY <1>4 DEF Born, Live
  <2>2. call[q] = Idle /\ cwd[q] = 0 /\ \A d \in Fd : ofile[q][d] = 0
    BY <1>1, <2>1 DEF GoneInv, Live
  <2>3. FileStep(0, 0)
    BY <1>1, <1>4, <2>1, <2>2, kforkFiles
  <2>4. Legal(q, 0, 0)
    <3> DEFINE w == cwd[p]
    <3>1. cwd' = [cwd EXCEPT ![q] = w] /\ itable' = Ref(itable, w, 1)
      BY <1>4
    <3> HIDE DEF w
    <3> QED BY <1>1, <1>2, <2>2, <3>1, kforkLegal
  <2>5. FdsOnly(q)
    BY <1>1, <1>4 DEF FdsOnly, FileInv, FileShape
  <2> QED BY <1>2, <2>1, <2>3, <2>4, <2>5 DEF Moves, Kept
<1> QED BY <1>1, <1>3, <1>4, kforkProc

LEMMA SysMoves ==
  ASSUME SysFsInv, NEW p \in Proc, SysStep(p)
  PROVE  \E q \in Proc : Moves(q)
<1>1. CASE kfork(p)
  BY <1>1, kforkMoves
<1>2. ASSUME \/ Program(p) \/ CallsKexit(p) \/ kexit(p) \/ kwait(p) \/ kkill(p) \/ sys_pause(p)
             \/ clockintr(p) \/ pipewrite(p) \/ piperead(p) \/ Sbrk1(p) \/ usertrap(p) \/ device(p)
             \/ Refused(p)
      PROVE  Moves(p)
  BY <1>2, QuietMoves
<1>3. ASSUME Return(p) \/ ExecEnd(p) PROVE Moves(p)
  BY <1>3, ReturnMoves
<1>4. ASSUME ExecStart(p) PROVE Moves(p)
  BY <1>4, ExecStartMoves
<1>5. ASSUME FsCall(p) PROVE Moves(p)
  BY <1>5, FsCallMoves
<1>6. ASSUME FsInside(p) PROVE Moves(p)
  BY <1>6, InsideMoves
<1>7. ASSUME close_pipe(p) PROVE Moves(p)
  BY <1>7, close_pipeMoves
<1>8. ASSUME ExitStep(p) PROVE Moves(p)
  BY <1>8, ExitStepMoves
<1>9. ASSUME sys_pipe(p) PROVE Moves(p)
  BY <1>9, sys_pipeMoves
<1> QED BY <1>1, <1>2, <1>3, <1>4, <1>5, <1>6, <1>7, <1>8, <1>9 DEF SysStep

\* kexit comes when the files are closed, the directory put and no call runs.
LEMMA GoneStep ==
  ASSUME SysFsInv, NEW p \in Proc, SysStep(p)
  PROVE  GoneInv'
<1> SUFFICES ASSUME NEW r \in Proc, ~Live(proc'[r])
             PROVE  call'[r] = Idle /\ cwd'[r] = 0 /\ \A d \in Fd : ofile'[r][d] = 0
  BY DEF GoneInv
<1>1. Turns(p)
  BY SysTurns DEF SysFsInv, TreeInv, TreeOk
<1>2. Procs(proc)
  BY DEF SysFsInv, TreeInv, TreeOk
<1>3. \/ ~Live(proc[r])
      \/ r = p /\ kexit(p)
  <2>1. ASSUME Live(proc[r]), Calm(proc, proc') PROVE FALSE
    BY <2>1, <1>2 DEF Calm, Live, Procs, IsProc, States
  <2>2. ASSUME Live(proc[r]), NEW ch, Dozes(proc, proc', p, ch) PROVE FALSE
    BY <2>2, <1>2 DEF Dozes, Live, Procs, IsProc, States
  <2>3. ASSUME Live(proc[r]), NEW q \in Proc, Born(proc, proc', p, q) \/ Reaped(proc, proc', p, q)
        PROVE  FALSE
    BY <2>3 DEF Born, Reaped, Live
  <2>4. ASSUME Live(proc[r]), r # p, Dies(proc, proc', p) PROVE FALSE
    BY <2>4, <1>2 DEF Dies, Live, Procs, IsProc, States
  <2> QED BY <1>1, <2>1, <2>2, <2>3, <2>4 DEF Turns
<1>4. CASE r = p /\ kexit(p)
  <2>1. UNCHANGED <<call, cwd, ofile>>
    BY <1>4 DEF kexit, fsvars
  <2>2. call[p] = Idle /\ cwd[p] = 0 /\ \A d \in Fd : ofile[p][d] = 0
    BY <1>4, OpRuns DEF kexit
  <2> QED BY <1>4, <2>1, <2>2
<1>5. CASE ~Live(proc[r])
  <2>1. call[r] = Idle /\ cwd[r] = 0 /\ \A d \in Fd : ofile[r][d] = 0
    BY <1>5 DEF SysFsInv, GoneInv
  <2>2. PICK q \in Proc : Moves(q)
    BY SysMoves
  <2>3. CASE UNCHANGED <<call, cwd, ofile>>
    BY <2>1, <2>3
  <2>4. CASE r # q
    <3>1. PICK y, z : Legal(q, y, z)
      BY <2>2 DEF Moves, Kept
    <3>2. call'[r] = call[r] /\ cwd'[r] = cwd[r]
      BY <2>4, <3>1 DEF Legal, SysFsInv, FsIInv, FsShape
    <3>3. ofile'[r] = ofile[r]
      BY <2>2, <2>4 DEF Moves, FdsOnly
    <3> QED BY <2>1, <3>2, <3>3
  <2> QED BY <1>5, <2>2, <2>3, <2>4 DEF Moves
<1> QED BY <1>3, <1>4, <1>5

LEMMA SysFsStep ==
  ASSUME SysFsInv, NEW p \in Proc, SysStep(p)
  PROVE  SysFsInv'
<1>1. PICK q \in Proc : Kept(q) /\ boot' = boot
  BY SysMoves DEF Moves
<1>5. booted /\ booted'
  BY <1>1 DEF SysFsInv, booted
<1>2. FsIInv' /\ booted'
  BY <1>1, <1>5, KeptStep DEF SysFsInv
<1>3. TreeInv'
  BY TreeStep DEF SysFsInv
<1>4. GoneInv'
  BY GoneStep
<1> QED BY <1>2, <1>3, <1>4 DEF SysFsInv

LEMMA SysFsInit ==
  ASSUME NEW init, NEW prog, SysInit(init, prog)
  PROVE  SysFsInv
<1> DEFINE live == {1, 2}
<1>1. FsInit(live) /\ live \in SUBSET Proc
  BY SysConstants DEF SysInit
<1>2. /\ call = [q \in Proc |-> Idle] /\ booted
      /\ cwd = [q \in Proc |-> IF q \in live THEN ROOTINO ELSE 0]
      /\ ofile = [q \in Proc |-> [d \in Fd |-> 0]]
  BY <1>1 DEF FsInit, booted
<1>3. FsIInv
  <2> HIDE DEF live
  <2> QED BY <1>1, FsInitInv
<1>4. TreeInv
  BY TreeInit
<1>5. GoneInv
  <2>1. Live(proc[1]) /\ Live(proc[2])
    <3> DEFINE s == "RUN"
               one == 1
               two == 2
               x == [FreeProc EXCEPT !.state = s, !.pid = one]
               y == [FreeProc EXCEPT !.state = s, !.pid = two, !.parent = one]
    <3>1. proc[1] = x /\ proc[2] = y
      BY SysConstants DEF SysInit
    <3>2. s = "RUN"
      OBVIOUS
    <3> HIDE DEF s, one, two
    <3> QED BY <3>1, <3>2 DEF FreeProc, Live
  <2> QED BY <1>2, <2>1 DEF GoneInv
<1> QED BY <1>2, <1>3, <1>4, <1>5 DEF SysFsInv

\* The invariant of the file system holds beneath the processes too: kfork, kexit,
\* sys_pipe and fileclose of a pipe keep the reference counts as the calls of KFs do.
THEOREM SysFsInvariant ==
  ASSUME NEW init, NEW prog
  PROVE  SysSpec(init, prog) => []SysFsInv
<1>1. SysInit(init, prog) => SysFsInv
  BY SysFsInit
<1>2. SysFsInv /\ [SysNext]_<<fsvars, sysvars>> => SysFsInv'
  <2>1. ASSUME SysFsInv, UNCHANGED <<fsvars, sysvars>>
        PROVE  SysFsInv'
    <3>1. FsIInv'
      BY <2>1, StutterInv DEF SysFsInv
    <3>2. booted' /\ TreeInv' /\ GoneInv'
      BY <2>1 DEF SysFsInv, TreeInv, GoneInv, fsvars, sysvars, booted
    <3> QED BY <3>1, <3>2 DEF SysFsInv
  <2>2. SysFsInv /\ SysNext => SysFsInv'
    BY NextProc, SysFsStep
  <2> QED BY <2>1, <2>2
<1> QED BY <1>1, <1>2, PTL DEF SysSpec

\* In the whole system, while no process is inside a call of the file system, every
\* ref in itable and in ftable is the number of what refers to the entry (idup and
\* filedup in kfork, fileclose and iput in kexit).
THEOREM SysRefsExact ==
  ASSUME NEW init, NEW prog
  PROVE  SysSpec(init, prog) => []RefsExact
<1>1. SysFsInv => RefsExact
  BY FsRefsExact DEF SysFsInv
<1> QED BY <1>1, SysFsInvariant, PTL
-----------------------------------------------------------------------------
(* The ends of the pipes *)

PipeFields == {"on", "data", "readopen", "writeopen"}
IsPipe(x) == /\ x = [y \in PipeFields |-> x[y]]
             /\ x.readopen \in BOOLEAN /\ x.writeopen \in BOOLEAN
             /\ x.on <=> x.readopen \/ x.writeopen
Pipes(pi) == pi = [k \in 1 .. NPIPE |-> pi[k]] /\ \A k \in 1 .. NPIPE : IsPipe(pi[k])

\* File f of the table t is the writing (w) or reading end of pipe k.
EndOf(t, f, k, w) == t[f].type = "PIPE" /\ t[f].ip = k /\ t[f].writable = w

\* An end is open when one file is that end, and no two files are.
PipesOk(pi, t) ==
  /\ Pipes(pi)
  /\ \A f \in File : t[f].type = "PIPE" => t[f].ip \in 1 .. NPIPE /\ t[f].writable \in BOOLEAN
  /\ \A k \in 1 .. NPIPE : /\ pi[k].readopen <=> \E f \in File : EndOf(t, f, k, FALSE)
                           /\ pi[k].writeopen <=> \E f \in File : EndOf(t, f, k, TRUE)
  /\ \A f, g \in File : \A k \in 1 .. NPIPE : \A w \in BOOLEAN :
       EndOf(t, f, k, w) /\ EndOf(t, g, k, w) => f = g

\* No file becomes or ceases to be the end of a pipe.
SameEnds(t, u) ==
  \A f \in File : /\ u[f].type = "PIPE" <=> t[f].type = "PIPE"
                  /\ t[f].type = "PIPE" => u[f].ip = t[f].ip /\ u[f].writable = t[f].writable
SamePipes(pi, pj) ==
  Pipes(pj) /\ \A k \in 1 .. NPIPE : /\ pj[k].readopen <=> pi[k].readopen
                                     /\ pj[k].writeopen <=> pi[k].writeopen

LEMMA PipesKept ==
  ASSUME NEW pi, NEW pj, NEW t, NEW u, PipesOk(pi, t), SameEnds(t, u), SamePipes(pi, pj)
  PROVE  PipesOk(pj, u)
<1>1. ASSUME NEW f \in File, NEW k, NEW w
      PROVE  EndOf(u, f, k, w) <=> EndOf(t, f, k, w)
  BY DEF SameEnds, EndOf
<1>2. Pipes(pj)
  BY DEF SamePipes
<1>3. \A f \in File : u[f].type = "PIPE" => u[f].ip \in 1 .. NPIPE /\ u[f].writable \in BOOLEAN
  BY DEF SameEnds, PipesOk
<1>4. \A k \in 1 .. NPIPE : /\ pj[k].readopen <=> \E f \in File : EndOf(u, f, k, FALSE)
                            /\ pj[k].writeopen <=> \E f \in File : EndOf(u, f, k, TRUE)
  BY <1>1 DEF PipesOk, SamePipes
<1>5. \A f, g \in File : \A k \in 1 .. NPIPE : \A w \in BOOLEAN :
        EndOf(u, f, k, w) /\ EndOf(u, g, k, w) => f = g
  BY <1>1 DEF PipesOk
<1> QED BY <1>2, <1>3, <1>4, <1>5 DEF PipesOk

LEMMA EndsAlike == \A t : SameEnds(t, t)
BY DEF SameEnds

LEMMA PipesAlike == \A pi : Pipes(pi) => SamePipes(pi, pi)
BY DEF SamePipes

\* pipewrite and piperead change what is in the pipe.
PutData(pi, k, d) == [pi EXCEPT ![k].data = d]
LEMMA DataPipes ==
  ASSUME NEW pi, NEW k, NEW d, Pipes(pi)
  PROVE  SamePipes(pi, PutData(pi, k, d))
<1> DEFINE pj == PutData(pi, k, d)
<1>1. pj = [l \in 1 .. NPIPE |-> pj[l]]
  BY DEF PutData, Pipes
<1>2. ASSUME NEW l \in 1 .. NPIPE
      PROVE  IsPipe(pj[l]) /\ pj[l].readopen = pi[l].readopen /\ pj[l].writeopen = pi[l].writeopen
  <2>1. IsPipe(pi[l])
    BY DEF Pipes
  <2>2. CASE l = k
    <3>1. pj[l] = [pi[l] EXCEPT !.data = d]
      BY <2>2 DEF PutData, Pipes
    <3> HIDE DEF pj
    <3> QED BY <2>1, <3>1 DEF IsPipe, PipeFields
  <2>3. CASE l # k
    <3>1. pj[l] = pi[l]
      BY <2>3 DEF PutData, Pipes
    <3> HIDE DEF pj
    <3> QED BY <2>1, <3>1
  <2> QED BY <2>2, <2>3
<1> HIDE DEF pj
<1>3. SamePipes(pi, pj)
  BY <1>1, <1>2 DEF SamePipes, Pipes
<1> QED BY <1>3 DEF pj


LEMMA FieldEnds ==
  ASSUME FileInv, NEW k, NEW v, \/ file' = [file EXCEPT ![k].off = v]
                                \/ file' = [file EXCEPT ![k].ref = v]
  PROVE  SameEnds(file, file')
<1> SUFFICES ASSUME NEW f \in File
             PROVE  /\ file'[f].type = file[f].type /\ file'[f].ip = file[f].ip
                    /\ file'[f].writable = file[f].writable
  BY DEF SameEnds
<1>1. IsFile(file[f]) /\ file = [g \in File |-> file[g]]
  BY DEF FileInv, FileShape, GoodFile
<1>2. CASE f = k
  <2>1. file'[f] = [file[f] EXCEPT !.off = v] \/ file'[f] = [file[f] EXCEPT !.ref = v]
    BY <1>1, <1>2
  <2> QED BY <1>1, <2>1 DEF IsFile, FileFields
<1>3. CASE f # k
  BY <1>1, <1>3
<1> QED BY <1>2, <1>3

\* A file that is no pipe end becomes another one.
LEMMA OtherEnds ==
  ASSUME FileInv, NEW g \in File, NEW x, FileTo(g, x), file[g].type # "PIPE", x.type # "PIPE"
  PROVE  SameEnds(file, file')
BY DEF SameEnds, FileTo, FileInv, FileShape

LEMMA OpenedEnds ==
  ASSUME FileInv, NEW p \in Proc, NEW c, NEW t,
         LET ff == {f \in File : file[f].ref = 0}
         IN ff # {} /\ file' = [file EXCEPT ![Min(ff)] =
                   [ref |-> 1, type |-> IF t = "DEV" THEN "DEVICE" ELSE "INODE",
                    readable |-> "WRONLY" \notin c.mode,
                    writable |-> c.mode \cap {"WRONLY", "RDWR"} # {},
                    ip |-> c.ip, off |-> 0]]
  PROVE  SameEnds(file, file')
<1> DEFINE ff == {f \in File : file[f].ref = 0}
           g == Min(ff)
           new == [ref |-> 1, type |-> IF t = "DEV" THEN "DEVICE" ELSE "INODE",
                   readable |-> "WRONLY" \notin c.mode,
                   writable |-> c.mode \cap {"WRONLY", "RDWR"} # {},
                   ip |-> c.ip, off |-> 0]
<1>1. file' = [file EXCEPT ![g] = new] /\ ff # {}
  OBVIOUS
<1>2. g \in ff
  <2>1. ff \subseteq Nat
    BY Tables
  <2> HIDE DEF ff
  <2> QED BY <1>1, <2>1, MinIn
<1>3. g \in File /\ file[g].type = "NONE"
  BY <1>2 DEF FileInv, FileShape, GoodFile
<1>4. new.type # "PIPE"
  OBVIOUS
<1> HIDE DEF g, new
<1>5. FileTo(g, new)
  BY <1>1 DEF FileTo
<1> QED BY <1>3, <1>4, <1>5, OtherEnds

LEMMA FsStepEnds ==
  ASSUME FileInv, NEW p \in Proc, FsStep(p)
  PROVE  SameEnds(file, file')
<1>1. CASE file' = file
  BY <1>1, EndsAlike
<1>2. CASE opentail(p) \/ create2(p) \/ open(p)
  <2>1. OpenTail(p, itable) \/ PutAndFail(p)
    BY <1>2 DEF opentail, create2, open
  <2>2. \/ file' = file
        \/ LET ff == {f \in File : file[f].ref = 0}
           IN ff # {} /\ file' = [file EXCEPT ![Min(ff)] =
                   [ref |-> 1, type |-> IF fs.din[call[p].ip].type = "DEV" THEN "DEVICE" ELSE "INODE",
                    readable |-> "WRONLY" \notin call[p].mode,
                    writable |-> call[p].mode \cap {"WRONLY", "RDWR"} # {},
                    ip |-> call[p].ip, off |-> 0]]
    BY <2>1 DEF OpenTail, PutAndFail, Same
  <2> QED BY <1>1, <2>2, OpenedEnds
<1>3. CASE chdir(p)
  BY <1>1, <1>3 DEF chdir, PutAndFail, Same
<1>4. ASSUME begin_op(p) \/ end_op(p) \/ iput(p) \/ ifree(p) \/ idrop(p)
      PROVE  file' = file
  BY <1>4 DEF begin_op, end_op, iput, ifree, idrop
<1>7. ASSUME ilockNoType(p) \/ bfreePanics(p) \/ unlinkPanics(p)
      PROVE  file' = file
  BY <1>7 DEF ilockNoType, bfreePanics, unlinkPanics, Panics
<1>5. CASE read(p) \/ write(p)
  <2>1. \E v : file' = [file EXCEPT ![call[p].f].off = v]
    BY <1>5 DEF read, write
  <2> QED BY <2>1, FieldEnds
<1>6. ASSUME \/ namex(p) \/ NotFound(p) \/ link(p) \/ link2(p) \/ linkbad(p)
             \/ unlink(p) \/ unlink2(p) \/ putdp(p) \/ unlink3(p)
             \/ create(p) \/ mktail(p) \/ exec(p) \/ fstat(p) \/ reclaim(p)
      PROVE  file' = file
  <2>1. Same
    BY <1>6 DEF namex, NotFound, link, link2, linkbad, unlink, unlink2, putdp, unlink3,
                create, mktail, exec, fstat, reclaim
  <2> QED BY <2>1 DEF Same
<1> QED BY <1>1, <1>2, <1>3, <1>4, <1>5, <1>6, <1>7 DEF FsStep

LEMMA CloseEnds ==
  ASSUME FileInv, NEW p \in Proc, NEW fd \in Fd, sys_close(p, fd)
  PROVE  SameEnds(file, file')
<1> DEFINE g == ofile[p][fd]
           x == IF file[g].ref > 1 THEN [file[g] EXCEPT !.ref = @ - 1] ELSE FreeFile
<1>1. FileTo(g, x) /\ g # 0 /\ file[g].type # "PIPE"
  BY DEF sys_close, FileTo
<1>2. g \in File /\ IsFile(file[g])
  BY <1>1 DEF FileInv, FileShape, GoodFile
<1>3. x.type # "PIPE"
  <2>1. CASE file[g].ref > 1
    BY <1>1, <1>2, <2>1 DEF IsFile, FileFields
  <2>2. CASE ~(file[g].ref > 1)
    BY <2>2 DEF FreeFile
  <2> QED BY <2>1, <2>2
<1> HIDE DEF g, x
<1> QED BY <1>1, <1>2, <1>3, OtherEnds

LEMMA SomeCallEnds ==
  ASSUME FileInv, NEW p \in Proc, SomeCall(p)
  PROVE  SameEnds(file, file')
<1>1. ASSUME NEW c, Enter(p, c) PROVE file' = file
  BY <1>1 DEF Enter, Same
<1>2. ASSUME NEW fd \in Fd, sys_dup(p, fd)
      PROVE  SameEnds(file, file')
  <2>1. file' = file \/ \E v : file' = [file EXCEPT ![ofile[p][fd]].ref = v]
    BY <1>2 DEF sys_dup
  <2> QED BY <2>1, EndsAlike, FieldEnds
<1>3. ASSUME NEW fd \in Fd, sys_close(p, fd)
      PROVE  SameEnds(file, file')
  BY <1>3, CloseEnds
<1>4. \/ file' = file
      \/ \E fd \in Fd : sys_dup(p, fd) \/ sys_close(p, fd)
  BY <1>1 DEF SomeCall, sys_open, sys_mkdir, sys_mknod, sys_link, sys_unlink, sys_chdir,
              sys_exec, sys_read, sys_write, sys_fstat, exit_cwd
<1> QED BY <1>2, <1>3, <1>4, EndsAlike

LEMMA kforkEnds ==
  ASSUME FileInv, NEW p \in Proc, kfork(p)
  PROVE  SameEnds(file, file')
<1>1. \/ file' = file
      \/ file' = [f \in File |-> [file[f] EXCEPT !.ref =
                    @ + Cardinality({d \in Fd : ofile[p][d] = f})]]
  BY DEF kfork
<1>2. CASE file' = [f \in File |-> [file[f] EXCEPT !.ref =
                    @ + Cardinality({d \in Fd : ofile[p][d] = f})]]
  <2>1. ASSUME NEW f \in File
        PROVE  /\ file'[f].type = file[f].type /\ file'[f].ip = file[f].ip
               /\ file'[f].writable = file[f].writable
    <3> DEFINE v == file[f].ref + Cardinality({d \in Fd : ofile[p][d] = f})
    <3>1. file'[f] = [file[f] EXCEPT !.ref = v] /\ IsFile(file[f])
      BY <1>2 DEF FileInv, FileShape, GoodFile
    <3> HIDE DEF v
    <3> QED BY <3>1 DEF IsFile, FileFields
  <2> QED BY <2>1 DEF SameEnds
<1> QED BY <1>1, <1>2, EndsAlike


PipeInv == PipesOk(pipe, file)

\* pipealloc: two free files become the two ends of a pipe that had none.
LEMMA PipedEnds ==
  ASSUME FileInv, PipeInv, NEW p \in Proc, Piped(p)
  PROVE  PipeInv'
<1>0. PICK d0 \in Fd, d1 \in Fd, f0 \in File, f1 \in File, k \in 1 .. NPIPE :
        PipedAs(p, d0, d1, f0, f1, k)
  BY DEF Piped
<1>1. /\ d0 # d1 /\ f0 # f1 /\ file[f0].ref = 0 /\ file[f1].ref = 0 /\ ~pipe[k].on
      /\ TwoFiles(p, d0, d1, f0, f1, PipeEnd(k, FALSE), PipeEnd(k, TRUE))
      /\ pipe' = [pipe EXCEPT ![k] = [on |-> TRUE, data |-> <<>>, readopen |-> TRUE,
                                      writeopen |-> TRUE]]
  BY <1>0 DEF PipedAs
<1> DEFINE x0 == PipeEnd(k, FALSE)
           x1 == PipeEnd(k, TRUE)
           y == [on |-> TRUE, data |-> <<>>, readopen |-> TRUE, writeopen |-> TRUE]
<1>2. /\ x0.type = "PIPE" /\ x0.ip = k /\ x0.writable = FALSE
      /\ x1.type = "PIPE" /\ x1.ip = k /\ x1.writable = TRUE
  BY PipeEndIs
<1>3. IsPipe(y) /\ y.readopen /\ y.writeopen
  BY DEF IsPipe, PipeFields
<1>4. file' = [file EXCEPT ![f0] = x0, ![f1] = x1]
  BY <1>1 DEF TwoFiles
<1>5. pipe' = [pipe EXCEPT ![k] = y]
  BY <1>1
<1> HIDE DEF x0, x1, y
<1>6. /\ file'[f0] = x0 /\ file'[f1] = x1
      /\ \A f \in File \ {f0, f1} : file'[f] = file[f]
  BY <1>1, <1>4 DEF FileInv, FileShape
<1>7. file[f0].type = "NONE" /\ file[f1].type = "NONE"
  BY <1>1 DEF FileInv, FileShape, GoodFile
<1>8. /\ pipe' = [l \in 1 .. NPIPE |-> pipe'[l]] /\ pipe'[k] = y
      /\ \A l \in 1 .. NPIPE \ {k} : pipe'[l] = pipe[l]
  BY <1>5 DEF PipeInv, PipesOk, Pipes
<1>9. Pipes(pipe')
  BY <1>3, <1>8 DEF Pipes, PipeInv, PipesOk
<1>10. \A f \in File : ~EndOf(file, f, k, FALSE) /\ ~EndOf(file, f, k, TRUE)
  BY <1>1 DEF PipeInv, PipesOk, Pipes, IsPipe
<1>11. ASSUME NEW f \in File, NEW l \in 1 .. NPIPE, NEW w \in BOOLEAN
       PROVE  EndOf(file', f, l, w) <=>
                IF l = k THEN f = IF w THEN f1 ELSE f0 ELSE EndOf(file, f, l, w)
  <2>1. CASE f = f0
    BY <1>1, <1>2, <1>6, <1>7, <2>1 DEF EndOf
  <2>2. CASE f = f1
    BY <1>1, <1>2, <1>6, <1>7, <2>2 DEF EndOf
  <2>3. CASE f # f0 /\ f # f1
    <3>1. EndOf(file', f, l, w) <=> EndOf(file, f, l, w)
      BY <1>6, <2>3 DEF EndOf
    <3>2. ~EndOf(file, f, k, w)
      BY <1>10
    <3> QED BY <2>3, <3>1, <3>2
  <2> QED BY <2>1, <2>2, <2>3
<1>12. \A f \in File : file'[f].type = "PIPE" => file'[f].ip \in 1 .. NPIPE /\ file'[f].writable \in BOOLEAN
  BY <1>2, <1>6 DEF PipeInv, PipesOk
<1>13. ASSUME NEW l \in 1 .. NPIPE
       PROVE  /\ pipe'[l].readopen <=> \E f \in File : EndOf(file', f, l, FALSE)
              /\ pipe'[l].writeopen <=> \E f \in File : EndOf(file', f, l, TRUE)
  <2>1. CASE l = k
    BY <1>3, <1>8, <1>11, <2>1
  <2>2. CASE l # k
    <3>1. /\ pipe[l].readopen <=> \E f \in File : EndOf(file, f, l, FALSE)
          /\ pipe[l].writeopen <=> \E f \in File : EndOf(file, f, l, TRUE)
      BY DEF PipeInv, PipesOk
    <3> QED BY <1>8, <1>11, <2>2, <3>1
  <2> QED BY <2>1, <2>2
<1>14. \A f, g \in File : \A l \in 1 .. NPIPE : \A w \in BOOLEAN :
         EndOf(file', f, l, w) /\ EndOf(file', g, l, w) => f = g
  BY <1>11 DEF PipeInv, PipesOk
<1> QED BY <1>9, <1>12, <1>13, <1>14 DEF PipeInv, PipesOk

LEMMA ClosedIs ==
  ASSUME NEW x, IsPipe(x), NEW w \in BOOLEAN
  PROVE  LET y == Closed(x, w)
         IN /\ y = [z \in PipeFields |-> y[z]] /\ y.on = x.on
            /\ y.readopen \in BOOLEAN /\ y.writeopen \in BOOLEAN
            /\ y.readopen <=> x.readopen /\ w
            /\ y.writeopen <=> x.writeopen /\ ~w
<1> DEFINE a == x.writeopen /\ ~w
           b == x.readopen /\ w
           y == [x EXCEPT !.writeopen = a, !.readopen = b]
<1>1. Closed(x, w) = y
  BY DEF Closed
<1>2. a \in BOOLEAN /\ b \in BOOLEAN
  OBVIOUS
<1> HIDE DEF a, b
<1>3. y = [z \in PipeFields |-> y[z]] /\ y.on = x.on /\ y.readopen = b /\ y.writeopen = a
  BY DEF IsPipe, PipeFields
<1> HIDE DEF y
<1> QED BY <1>1, <1>2, <1>3 DEF a, b

\* fileclose of the last descriptor of a pipe's end closes that end.
LEMMA ClosePipeEnds ==
  ASSUME FileInv, PipeInv, NEW p \in Proc, NEW d \in Fd, ClosePipe(p, d),
         ofile[p][d] # 0, file[ofile[p][d]].type = "PIPE"
  PROVE  PipeInv'
<1> DEFINE g == ofile[p][d]
           k == file[g].ip
           w == file[g].writable
           pi == Closed(pipe[k], w)
           gone == ~pi.readopen /\ ~pi.writeopen
           y == IF gone THEN FreePipe ELSE pi
<1>1. g \in File /\ IsFile(file[g])
  BY DEF FileInv, FileShape, GoodFile
<1>2. CASE file[g].ref # 1
  <2>1. file' = [file EXCEPT ![g] = [file[g] EXCEPT !.ref = @ - 1]] /\ pipe' = pipe
    BY <1>2 DEF ClosePipe
  <2>2. \E v : file' = [file EXCEPT ![g].ref = v]
    <3> DEFINE v == file[g].ref - 1
    <3>1. file' = [file EXCEPT ![g].ref = v]
      BY <2>1, <1>1 DEF FileInv, FileShape
    <3> HIDE DEF v
    <3> QED BY <3>1
  <2>3. SameEnds(file, file')
    BY <2>2, FieldEnds
  <2>4. SamePipes(pipe, pipe')
    BY <2>1, PipesAlike DEF PipeInv, PipesOk
  <2> QED BY <2>3, <2>4, PipesKept DEF PipeInv
<1>3. CASE file[g].ref = 1
  <2>1. file' = [file EXCEPT ![g] = FreeFile] /\ pipe' = [pipe EXCEPT ![k] = y]
    BY <1>3 DEF ClosePipe
  <2>2. k \in 1 .. NPIPE /\ w \in BOOLEAN
    BY <1>1 DEF PipeInv, PipesOk
  <2>3. IsPipe(pipe[k])
    BY <2>2 DEF PipeInv, PipesOk, Pipes
  <2>4. /\ pi = [z \in PipeFields |-> pi[z]] /\ pi.on = pipe[k].on
        /\ pi.readopen \in BOOLEAN /\ pi.writeopen \in BOOLEAN
        /\ pi.readopen <=> pipe[k].readopen /\ w
        /\ pi.writeopen <=> pipe[k].writeopen /\ ~w
    <3> DEFINE x == pipe[k]
    <3> HIDE DEF x, w
    <3>1. x = pipe[k] /\ IsPipe(x)
      BY <2>3 DEF x
    <3> QED BY <2>2, <3>1, ClosedIs DEF x
  <2>5. /\ IsPipe(y)
        /\ y.readopen <=> pipe[k].readopen /\ w
        /\ y.writeopen <=> pipe[k].writeopen /\ ~w
    <3> HIDE DEF pi, k, w
    <3>1. CASE gone
      <4>1. y = FreePipe
        BY <3>1
      <4>2. IsPipe(FreePipe) /\ ~FreePipe.readopen /\ ~FreePipe.writeopen
        BY DEF FreePipe, IsPipe, PipeFields
      <4> QED BY <2>4, <3>1, <4>1, <4>2
    <3>2. CASE ~gone
      <4>1. y = pi
        BY <3>2
      <4>2. pi.on
        BY <2>3, <2>4, <3>2 DEF IsPipe
      <4>3. IsPipe(pi)
        BY <2>4, <4>2, <3>2 DEF IsPipe
      <4> QED BY <2>4, <4>1, <4>3
    <3> QED BY <3>1, <3>2
  <2> HIDE DEF y, pi
  <2>6. file'[g] = FreeFile /\ \A f \in File \ {g} : file'[f] = file[f]
    BY <2>1, <1>1 DEF FileInv, FileShape
  <2>7. /\ pipe' = [l \in 1 .. NPIPE |-> pipe'[l]] /\ pipe'[k] = y
        /\ \A l \in 1 .. NPIPE \ {k} : pipe'[l] = pipe[l]
    BY <2>1, <2>2 DEF PipeInv, PipesOk, Pipes
  <2>8. Pipes(pipe')
    <3> HIDE DEF k, w
    <3>1. \A l \in 1 .. NPIPE : IsPipe(pipe[l])
      BY DEF PipeInv, PipesOk, Pipes
    <3>2. \A l \in 1 .. NPIPE : IsPipe(pipe'[l])
      BY <2>5, <2>7, <3>1
    <3> QED BY <2>7, <3>2 DEF Pipes
  <2>9. FreeFile.type = "NONE"
    BY DEF FreeFile
  <2>10. EndOf(file, g, k, w)
    BY DEF EndOf
  <2> HIDE DEF k, w
  <2>11. ASSUME NEW f \in File, NEW l \in 1 .. NPIPE, NEW v \in BOOLEAN
         PROVE  EndOf(file', f, l, v) <=> EndOf(file, f, l, v) /\ ~(l = k /\ v = w)
    <3>1. CASE f = g
      <4>1. ~EndOf(file', f, l, v)
        BY <2>6, <2>9, <3>1 DEF EndOf
      <4>2. EndOf(file, f, l, v) => l = k /\ v = w
        BY <2>10, <3>1 DEF EndOf
      <4> QED BY <4>1, <4>2
    <3>2. CASE f # g
      <4>1. EndOf(file', f, l, v) <=> EndOf(file, f, l, v)
        BY <2>6, <3>2 DEF EndOf
      <4>2. ~EndOf(file, f, k, w)
        BY <1>1, <2>2, <2>10, <3>2 DEF PipeInv, PipesOk
      <4> QED BY <4>1, <4>2
    <3> QED BY <3>1, <3>2
  <2>12. \A f \in File : file'[f].type = "PIPE" => file'[f].ip \in 1 .. NPIPE /\ file'[f].writable \in BOOLEAN
    BY <2>6, <2>9 DEF PipeInv, PipesOk
  <2>13. ASSUME NEW l \in 1 .. NPIPE
         PROVE  /\ pipe'[l].readopen <=> \E f \in File : EndOf(file', f, l, FALSE)
                /\ pipe'[l].writeopen <=> \E f \in File : EndOf(file', f, l, TRUE)
    <3>1. /\ pipe[l].readopen <=> \E f \in File : EndOf(file, f, l, FALSE)
          /\ pipe[l].writeopen <=> \E f \in File : EndOf(file, f, l, TRUE)
      BY DEF PipeInv, PipesOk
    <3>2. /\ (\E f \in File : EndOf(file', f, l, FALSE)) <=>
               (\E f \in File : EndOf(file, f, l, FALSE)) /\ ~(l = k /\ w = FALSE)
          /\ (\E f \in File : EndOf(file', f, l, TRUE)) <=>
               (\E f \in File : EndOf(file, f, l, TRUE)) /\ ~(l = k /\ w = TRUE)
      BY <2>11
    <3>3. CASE l = k
      <4>1. pipe'[l] = y
        BY <2>7, <3>3
      <4>2. (w = TRUE \/ w = FALSE) /\ ~(TRUE = FALSE)
        BY <2>2
      <4>3. CASE w = TRUE
        BY <2>5, <3>1, <3>2, <3>3, <4>1, <4>3
      <4>4. CASE w = FALSE
        BY <2>5, <3>1, <3>2, <3>3, <4>1, <4>4
      <4> QED BY <4>2, <4>3, <4>4
    <3>4. CASE l # k
      BY <2>7, <3>1, <3>2, <3>4
    <3> QED BY <3>3, <3>4
  <2>14. \A f, h \in File : \A l \in 1 .. NPIPE : \A v \in BOOLEAN :
           EndOf(file', f, l, v) /\ EndOf(file', h, l, v) => f = h
    BY <2>11 DEF PipeInv, PipesOk
  <2> QED BY <2>8, <2>12, <2>13, <2>14 DEF PipeInv, PipesOk
<1> QED BY <1>2, <1>3

\* The steps that change neither the ends nor the pipes but for their data.
LEMMA PipesStand ==
  ASSUME PipeInv, SameEnds(file, file'),
         pipe' = pipe \/ \E k, d : pipe' = [pipe EXCEPT ![k].data = d]
  PROVE  PipeInv'
<1>1. Pipes(pipe)
  BY DEF PipeInv, PipesOk
<1>2. SamePipes(pipe, pipe')
  <2>1. CASE pipe' = pipe
    BY <1>1, <2>1, PipesAlike
  <2>2. ASSUME NEW k, NEW d, pipe' = [pipe EXCEPT ![k].data = d]
        PROVE  SamePipes(pipe, pipe')
    <3>1. pipe' = PutData(pipe, k, d)
      BY <2>2 DEF PutData
    <3> QED BY <1>1, <3>1, DataPipes
  <2> QED BY <2>1, <2>2
<1> QED BY <1>2, PipesKept DEF PipeInv

LEMMA PipeStep ==
  ASSUME FileInv, PipeInv, Procs(proc), NEW p \in Proc, SysStep(p)
  PROVE  PipeInv'
<1>1. ASSUME \/ Program(p) \/ CallsKexit(p) \/ Return(p) \/ kexit(p) \/ kwait(p) \/ kkill(p)
             \/ sys_pause(p) \/ clockintr(p) \/ Sbrk1(p) \/ usertrap(p) \/ ExecStart(p)
             \/ ExecEnd(p) \/ device(p) \/ Refused(p)
      PROVE  PipeInv'
  <2>1. ASSUME \/ Program(p) \/ CallsKexit(p) \/ kexit(p) \/ kkill(p) \/ sys_pause(p)
               \/ clockintr(p) \/ device(p) \/ Refused(p)
        PROVE  UNCHANGED <<file, pipe>>
    BY <2>1 DEF Program, CallsKexit, kexit, kkill, sys_pause, clockintr, device, Refused, fsvars
  <2>2. ASSUME Return(p) \/ kwait(p) \/ Sbrk1(p) \/ usertrap(p) \/ ExecStart(p) \/ ExecEnd(p)
        PROVE  UNCHANGED <<file, pipe>>
    BY <2>2 DEF Return, kwait, Sbrk1, usertrap, ExecStart, ExecEnd
  <2>3. UNCHANGED <<file, pipe>>
    BY <1>1, <2>1, <2>2
  <2> QED BY <2>3, EndsAlike, PipesStand
<1>2. CASE pipewrite(p)
  <2>1. file' = file /\ (pipe' = pipe \/ \E d : pipe' = [pipe EXCEPT ![file[argfd(p)].ip].data = d])
    BY <1>2 DEF pipewrite, fsvars
  <2> QED BY <2>1, EndsAlike, PipesStand
<1>3. CASE piperead(p)
  <2>1. file' = file /\ (pipe' = pipe \/ \E d : pipe' = [pipe EXCEPT ![file[argfd(p)].ip].data = d])
    BY <1>3 DEF piperead, fsvars
  <2> QED BY <2>1, EndsAlike, PipesStand
<1>4. CASE kfork(p)
  <2>1. pipe' = pipe
    BY <1>4 DEF kfork
  <2> QED BY <1>4, <2>1, kforkEnds, PipesStand
<1>5. CASE FsCall(p)
  <2>1. pipe' = pipe
    BY <1>5 DEF FsCall
  <2> QED BY <1>5, <2>1, FsCallSome, SomeCallEnds, PipesStand
<1>6. CASE FsInside(p)
  <2>1. pipe' = pipe /\ FsStep(p)
    BY <1>6 DEF FsInside, sysvars
  <2> QED BY <2>1, FsStepEnds, PipesStand
<1>7. CASE sys_pipe(p)
  <2>1. CASE UNCHANGED <<file, ofile, pipe>>
    BY <2>1, EndsAlike, PipesStand
  <2>2. CASE Piped(p)
    BY <2>2, PipedEnds
  <2> QED BY <1>7, <2>1, <2>2, sys_pipeFiles
<1>8. CASE close_pipe(p)
  <2> DEFINE d == Val(p, I(p).fd)
  <2>1. argfd(p) # 0 /\ file[argfd(p)].type = "PIPE" /\ ClosePipe(p, d)
    BY <1>8 DEF close_pipe, OnPipe
  <2>2. d \in Fd /\ argfd(p) = ofile[p][d]
    BY <2>1 DEF argfd
  <2> HIDE DEF d
  <2> QED BY <2>1, <2>2, ClosePipeEnds
<1>9. CASE ExitStep(p)
  <2> DEFINE open1 == {d \in Fd : ofile[p][d] # 0}
             d == Min(open1)
  <2>1. CASE p = InitProc
    <3>1. UNCHANGED <<file, pipe>>
      BY <1>9, <2>1 DEF ExitStep, sysvars
    <3> QED BY <3>1, EndsAlike, PipesStand
  <2>2. CASE p # InitProc /\ open1 = {}
    <3>1. exit_cwd(p) /\ pipe' = pipe
      BY <1>9, <2>2 DEF ExitStep, sysvars
    <3>2. SomeCall(p)
      BY <3>1 DEF SomeCall
    <3> QED BY <3>1, <3>2, SomeCallEnds, PipesStand
  <2>3. CASE p # InitProc /\ open1 # {}
    <3>1. d \in open1
      <4>1. open1 \subseteq Nat
        BY Tables
      <4> HIDE DEF open1
      <4> QED BY <2>3, <4>1, MinIn
    <3>2. d \in Fd /\ ofile[p][d] # 0
      BY <3>1
    <3>3. IF file[ofile[p][d]].type = "PIPE" THEN ClosePipe(p, d)
          ELSE sys_close(p, d) /\ pipe' = pipe
      BY <1>9, <2>3 DEF ExitStep, sysvars
    <3> HIDE DEF d
    <3>4. CASE file[ofile[p][d]].type = "PIPE"
      BY <3>2, <3>3, <3>4, ClosePipeEnds
    <3>5. CASE file[ofile[p][d]].type # "PIPE"
      BY <3>2, <3>3, <3>5, CloseEnds, PipesStand
    <3> QED BY <3>4, <3>5
  <2> QED BY <2>1, <2>2, <2>3
<1> QED BY <1>1, <1>2, <1>3, <1>4, <1>5, <1>6, <1>7, <1>8, <1>9 DEF SysStep

LEMMA PipeInit ==
  ASSUME NEW init, NEW prog, SysInit(init, prog)
  PROVE  PipeInv
<1>1. pipe = [k \in 1 .. NPIPE |-> FreePipe] /\ file = [f \in File |-> FreeFile]
  BY DEF SysInit, FsInit
<1>2. IsPipe(FreePipe) /\ ~FreePipe.readopen /\ ~FreePipe.writeopen /\ FreeFile.type = "NONE"
  BY DEF FreePipe, IsPipe, PipeFields, FreeFile
<1>3. \A f \in File : \A k, w : ~EndOf(file, f, k, w)
  BY <1>1, <1>2 DEF EndOf
<1> QED BY <1>1, <1>2, <1>3 DEF PipeInv, PipesOk, Pipes

LEMMA PipeShows == PipeInv => PipeEndsExact
<1> SUFFICES ASSUME PipeInv, NEW k \in 1 .. NPIPE, NEW w \in BOOLEAN
             PROVE  (IF w THEN pipe[k].writeopen ELSE pipe[k].readopen) =
                      \E f \in File : file[f].type = "PIPE" /\ file[f].ip = k /\ file[f].writable = w
  BY DEF PipeEndsExact
<1>1. /\ pipe[k].readopen \in BOOLEAN /\ pipe[k].writeopen \in BOOLEAN
      /\ pipe[k].readopen <=> \E f \in File : EndOf(file, f, k, FALSE)
      /\ pipe[k].writeopen <=> \E f \in File : EndOf(file, f, k, TRUE)
  BY DEF PipeInv, PipesOk, Pipes, IsPipe
<1>2. CASE w = TRUE
  BY <1>1, <1>2 DEF EndOf
<1>3. CASE w = FALSE
  BY <1>1, <1>3 DEF EndOf
<1> QED BY <1>2, <1>3

\* pipeclose is called once for each end: readopen and writeopen of a pipe are set
\* as long as a descriptor of some process refers to that end, and no longer.
THEOREM PipeEndsExactHolds ==
  ASSUME NEW init, NEW prog
  PROVE  SysSpec(init, prog) => []PipeEndsExact
<1>1. SysInit(init, prog) => SysFsInv /\ PipeInv
  BY SysFsInit, PipeInit
<1>2. SysFsInv /\ PipeInv /\ SysFsInv' /\ [SysNext]_<<fsvars, sysvars>> => PipeInv'
  <2>1. PipeInv /\ UNCHANGED <<fsvars, sysvars>> => PipeInv'
    BY DEF PipeInv, fsvars, sysvars
  <2>2. SysFsInv /\ PipeInv /\ SysNext => PipeInv'
    BY NextProc, PipeStep DEF SysFsInv, FsIInv, TreeInv, TreeOk
  <2> QED BY <2>1, <2>2
<1>3. SysSpec(init, prog) => [][SysNext]_<<fsvars, sysvars>> /\ SysInit(init, prog)
  BY DEF SysSpec
<1> QED BY <1>1, <1>2, <1>3, SysFsInvariant, PipeShows, PTL
-----------------------------------------------------------------------------
(* Who sleeps is woken *)

\* Who waits for children is their parent, and none of them has died.
ParentsOk(pr) ==
  \A p \in Proc : pr[p].state = "SLEEPING" =>
    /\ \E a, b : pr[p].chan = <<a, b>>
    /\ \A r : pr[p].chan = <<"wait", r>> =>
         /\ r = p
         /\ \E q \in Proc : pr[q].parent = p
         /\ \A q \in Proc : pr[q].parent = p => pr[q].state # "ZOMBIE"
ParentsInv == ParentsOk(proc)

LEMMA CalmParents ==
  ASSUME NEW pr, NEW pw, ParentsOk(pr), Calm(pr, pw)
  PROVE  ParentsOk(pw)
BY DEF ParentsOk, Calm

LEMMA BornParents ==
  ASSUME NEW pr, NEW pw, NEW p \in Proc, NEW q \in Proc, TreeOk(pr), ParentsOk(pr),
         Born(pr, pw, p, q)
  PROVE  ParentsOk(pw)
<1>1. pr[q].parent = 0 /\ 0 \notin Proc
  BY FsConstants DEF TreeOk, Born
<1>2. \A r \in Proc : pw[r].state = "SLEEPING" => pw[r] = pr[r] /\ r # q /\ r # p
  BY DEF Born
<1>3. \A r \in Proc : pw[r].state = "ZOMBIE" => pw[r] = pr[r]
  BY DEF Born
<1> SUFFICES ASSUME NEW r \in Proc, pw[r].state = "SLEEPING"
             PROVE  /\ \E a, b : pw[r].chan = <<a, b>>
                    /\ \A s : pw[r].chan = <<"wait", s>> =>
                         /\ s = r
                         /\ \E x \in Proc : pw[x].parent = r
                         /\ \A x \in Proc : pw[x].parent = r => pw[x].state # "ZOMBIE"
  BY DEF ParentsOk
<1>4. pr[r].state = "SLEEPING" /\ pw[r].chan = pr[r].chan
  BY <1>2
<1>5. \A x \in Proc : pr[x].parent = r => pw[x].parent = r
  BY <1>1 DEF Born
<1> QED BY <1>3, <1>4, <1>5 DEF ParentsOk

LEMMA ReapedParents ==
  ASSUME NEW pr, NEW pw, NEW p \in Proc, NEW z \in Proc, TreeOk(pr), ParentsOk(pr),
         Reaped(pr, pw, p, z)
  PROVE  ParentsOk(pw)
<1>1. 0 \notin Proc /\ pw[z].parent = 0 /\ pr[z].parent = p
  BY FsConstants DEF Reaped
<1> SUFFICES ASSUME NEW r \in Proc, pw[r].state = "SLEEPING"
             PROVE  /\ \E a, b : pw[r].chan = <<a, b>>
                    /\ \A s : pw[r].chan = <<"wait", s>> =>
                         /\ s = r
                         /\ \E x \in Proc : pw[x].parent = r
                         /\ \A x \in Proc : pw[x].parent = r => pw[x].state # "ZOMBIE"
  BY DEF ParentsOk
<1>2. r # z /\ r # p /\ pr[r].state = "SLEEPING" /\ pw[r].chan = pr[r].chan
  BY DEF Reaped
<1>3. \A x \in Proc : pr[x].parent = r => pw[x].parent = r
  BY <1>1, <1>2 DEF Reaped
<1>4. \A x \in Proc : pw[x].parent = r => pr[x].parent = r /\ pw[x].state = pr[x].state
  BY <1>1 DEF Reaped
<1> QED BY <1>2, <1>3, <1>4 DEF ParentsOk

LEMMA DiesParents ==
  ASSUME NEW pr, NEW pw, NEW p \in Proc, TreeOk(pr), ParentsOk(pr), Dies(pr, pw, p), p # InitProc
  PROVE  ParentsOk(pw)
<1> SUFFICES ASSUME NEW r \in Proc, pw[r].state = "SLEEPING"
             PROVE  /\ \E a, b : pw[r].chan = <<a, b>>
                    /\ \A s : pw[r].chan = <<"wait", s>> =>
                         /\ s = r
                         /\ \E x \in Proc : pw[x].parent = r
                         /\ \A x \in Proc : pw[x].parent = r => pw[x].state # "ZOMBIE"
  BY DEF ParentsOk
<1>1. r # p /\ pr[r].state = "SLEEPING" /\ pw[r].chan = pr[r].chan
  BY DEF Dies
<1>2. \E a, b : pr[r].chan = <<a, b>>
  BY <1>1 DEF ParentsOk
<1>3. ASSUME NEW s, pw[r].chan = <<"wait", s>>
      PROVE  /\ s = r
             /\ \E x \in Proc : pw[x].parent = r
             /\ \A x \in Proc : pw[x].parent = r => pw[x].state # "ZOMBIE"
  <2>1. /\ s = r
        /\ \E x \in Proc : pr[x].parent = r
        /\ \A x \in Proc : pr[x].parent = r => pr[x].state # "ZOMBIE"
    BY ZenonT(60), <1>1, <1>3 DEF ParentsOk
  <2>2. r # pr[p].parent
    BY <1>1, <1>3, <2>1 DEF Dies
  <2>3. \A x \in Proc : pw[x].parent = r <=> pr[x].parent = r
    <3>1. CASE r = InitProc
      <4>1. ~\E x \in Proc : pr[x].parent = p
        BY <1>1, <1>3, <2>1, <3>1 DEF Dies
      <4> QED BY <4>1 DEF Dies
    <3>2. CASE r # InitProc
      BY <1>1, <3>2 DEF Dies
    <3> QED BY <3>1, <3>2
  <2>4. \A x \in Proc : pw[x].parent = r => pw[x].state # "ZOMBIE"
    BY <2>1, <2>2, <2>3 DEF Dies
  <2> QED BY <2>1, <2>3, <2>4
<1> QED BY <1>1, <1>2, <1>3

LEMMA DozeParents ==
  ASSUME ParentsInv, NEW p \in Proc, NEW ch, Dozes(proc, proc', p, ch), Waits(p, ch)
  PROVE  ParentsInv'
<1> SUFFICES ASSUME NEW r \in Proc, proc'[r].state = "SLEEPING"
             PROVE  /\ \E a, b : proc'[r].chan = <<a, b>>
                    /\ \A s : proc'[r].chan = <<"wait", s>> =>
                         /\ s = r
                         /\ \E x \in Proc : proc'[x].parent = r
                         /\ \A x \in Proc : proc'[x].parent = r => proc'[x].state # "ZOMBIE"
  BY DEF ParentsInv, ParentsOk
<1>1. \A x \in Proc : proc'[x].parent = proc[x].parent
  BY DEF Dozes
<1>2. \A x \in Proc : proc'[x].state = "ZOMBIE" => proc[x].state = "ZOMBIE"
  BY DEF Dozes
<1>3. CASE r # p
  <2>1. proc[r].state = "SLEEPING" /\ proc'[r].chan = proc[r].chan
    BY <1>3 DEF Dozes
  <2> QED BY <1>1, <1>2, <2>1 DEF ParentsInv, ParentsOk
<1>4. CASE r = p
  <2>1. proc'[r].chan = ch
    BY <1>4 DEF Dozes
  <2>2. \E a, b : ch = <<a, b>>
    BY DEF Waits
  <2>3. ASSUME NEW s, ch = <<"wait", s>>
        PROVE  /\ s = p
               /\ \E x \in Proc : proc[x].parent = p
               /\ \A x \in Proc : proc[x].parent = p => proc[x].state # "ZOMBIE"
    BY <2>3 DEF Waits
  <2> QED BY <1>1, <1>2, <1>4, <2>1, <2>2, <2>3
<1> QED BY <1>3, <1>4

LEMMA ParentsStep ==
  ASSUME TreeInv, ParentsInv, NEW p \in Proc, SysStep(p)
  PROVE  ParentsInv'
<1>1. Turns(p)
  BY SysTurns DEF TreeInv, TreeOk
<1>2. CASE Calm(proc, proc')
  BY <1>2, CalmParents DEF ParentsInv
<1>3. ASSUME NEW ch, Dozes(proc, proc', p, ch), Waits(p, ch)
      PROVE  ParentsInv'
  BY <1>3, DozeParents
<1>4. ASSUME NEW q \in Proc, Born(proc, proc', p, q)
      PROVE  ParentsInv'
  BY <1>4, BornParents DEF ParentsInv, TreeInv
<1>5. ASSUME NEW q \in Proc, Reaped(proc, proc', p, q)
      PROVE  ParentsInv'
  BY <1>5, ReapedParents DEF ParentsInv, TreeInv
<1>6. CASE Dies(proc, proc', p) /\ p # InitProc
  BY <1>6, DiesParents DEF ParentsInv, TreeInv
<1> QED BY <1>1, <1>2, <1>3, <1>4, <1>5, <1>6 DEF Turns

LEMMA NoneAsleep ==
  ASSUME NEW init, NEW prog, SysInit(init, prog)
  PROVE  \A q \in Proc : proc[q].state # "SLEEPING"
<1> DEFINE s == "RUN"
           one == 1
           two == 2
           x == [FreeProc EXCEPT !.state = s, !.pid = one]
           y == [FreeProc EXCEPT !.state = s, !.pid = two, !.parent = one]
<1>1. proc = [p \in Proc |-> CASE p = 1 -> x [] p = 2 -> y [] OTHER -> FreeProc]
  BY DEF SysInit
<1>2. s = "RUN"
  OBVIOUS
<1> HIDE DEF s, one, two
<1>3. x.state # "SLEEPING" /\ y.state # "SLEEPING" /\ FreeProc.state # "SLEEPING"
  BY <1>2 DEF FreeProc
<1> HIDE DEF x, y
<1> QED BY <1>1, <1>3

LEMMA ParentsShow == ParentsInv => ParentsWake
<1> SUFFICES ASSUME ParentsInv, NEW p \in Proc, Asleep(p, "wait")
             PROVE  /\ \E q \in Proc : proc[q].parent = p
                    /\ \A q \in Proc : proc[q].parent = p => proc[q].state # "ZOMBIE"
  BY DEF ParentsWake
<1>1. proc[p].state = "SLEEPING" /\ proc[p].chan[1] = "wait"
  BY DEF Asleep
<1>2. PICK a, b : proc[p].chan = <<a, b>>
  BY <1>1 DEF ParentsInv, ParentsOk
<1>3. proc[p].chan = <<"wait", b>>
  BY <1>1, <1>2
<1> QED BY <1>1, <1>3 DEF ParentsInv, ParentsOk

\* kwait does not sleep through a child's exit: who sleeps there has children and no
\* zombie among them, also when reparent gives init the zombies of another parent.
THEOREM ParentsWakeHolds ==
  ASSUME NEW init, NEW prog
  PROVE  SysSpec(init, prog) => []ParentsWake
<1>1. SysInit(init, prog) => TreeInv /\ ParentsInv
  BY TreeInit, NoneAsleep DEF ParentsInv, ParentsOk
<1>2. TreeInv /\ ParentsInv /\ [SysNext]_<<fsvars, sysvars>> => TreeInv' /\ ParentsInv'
  <2>1. TreeInv /\ ParentsInv /\ UNCHANGED <<fsvars, sysvars>> => TreeInv' /\ ParentsInv'
    BY DEF TreeInv, ParentsInv, sysvars
  <2>2. TreeInv /\ ParentsInv /\ SysNext => TreeInv' /\ ParentsInv'
    BY NextProc, TreeStep, ParentsStep
  <2> QED BY <2>1, <2>2
<1> QED BY <1>1, <1>2, ParentsShow, PTL DEF SysSpec


ReaderAsleep(pr, q, k) == pr[q].state = "SLEEPING" /\ pr[q].chan = <<"nread", k>>
ReadersInv == \A q \in Proc : \A k : ReaderAsleep(proc, q, k) =>
                k \in 1 .. NPIPE /\ pipe[k].data = <<>> /\ pipe[k].writeopen

\* No reader falls asleep.
NoMoreReaders == \A q \in Proc : \A k : ReaderAsleep(proc', q, k) => ReaderAsleep(proc, q, k)

LEMMA CalmReaders ==
  ASSUME Calm(proc, proc')
  PROVE  NoMoreReaders
BY DEF Calm, NoMoreReaders, ReaderAsleep

LEMMA DozeReaders ==
  ASSUME NEW p \in Proc, NEW ch, Dozes(proc, proc', p, ch), \A k : ch # <<"nread", k>>
  PROVE  NoMoreReaders
<1> SUFFICES ASSUME NEW q \in Proc, NEW k, ReaderAsleep(proc', q, k)
             PROVE  ReaderAsleep(proc, q, k)
  BY DEF NoMoreReaders
<1>1. q # p
  BY DEF Dozes, ReaderAsleep
<1> QED BY <1>1 DEF Dozes, ReaderAsleep

LEMMA TurnsReaders ==
  ASSUME NEW p \in Proc, Turns(p), ~piperead(p)
  PROVE  NoMoreReaders
<1>1. CASE Calm(proc, proc')
  BY <1>1, CalmReaders
<1>2. ASSUME NEW ch, Dozes(proc, proc', p, ch), Waits(p, ch)
      PROVE  NoMoreReaders
  <2>1. \A k : ch # <<"nread", k>>
    BY <1>2 DEF Waits
  <2> QED BY <1>2, <2>1, DozeReaders
<1>3. ASSUME NEW q \in Proc, Born(proc, proc', p, q) \/ Reaped(proc, proc', p, q)
      PROVE  NoMoreReaders
  BY <1>3 DEF Born, Reaped, NoMoreReaders, ReaderAsleep
<1>4. CASE Dies(proc, proc', p)
  BY <1>4 DEF Dies, NoMoreReaders, ReaderAsleep
<1> QED BY <1>1, <1>2, <1>3, <1>4 DEF Turns

\* A pipe that changes has no reader asleep, before or after.
LEMMA ReadersKept ==
  ASSUME ReadersInv, NoMoreReaders, Pipes(pipe), NEW k, NEW y,
         pipe' = [pipe EXCEPT ![k] = y],
         \/ NoSleeper(proc', <<"nread", k>>)
         \/ ~(pipe[k].data = <<>> /\ pipe[k].writeopen)
         \/ y.data = pipe[k].data /\ y.writeopen = pipe[k].writeopen
  PROVE  ReadersInv'
<1> SUFFICES ASSUME NEW q \in Proc, NEW l, ReaderAsleep(proc', q, l)
             PROVE  l \in 1 .. NPIPE /\ pipe'[l].data = <<>> /\ pipe'[l].writeopen
  BY DEF ReadersInv
<1>1. ReaderAsleep(proc, q, l) /\ l \in 1 .. NPIPE /\ pipe[l].data = <<>> /\ pipe[l].writeopen
  BY DEF NoMoreReaders, ReadersInv
<1>2. CASE l # k
  <2>1. pipe'[l] = pipe[l]
    BY <1>1, <1>2 DEF Pipes
  <2> QED BY <1>1, <2>1
<1>3. CASE l = k
  <2>1. ~NoSleeper(proc', <<"nread", k>>)
    BY <1>3 DEF NoSleeper, ReaderAsleep
  <2>2. y.data = pipe[k].data /\ y.writeopen = pipe[k].writeopen
    BY <1>1, <1>3, <2>1
  <2>3. pipe'[l] = y
    BY <1>1, <1>3 DEF Pipes
  <2> QED BY <1>1, <1>3, <2>2, <2>3
<1> QED BY <1>2, <1>3

LEMMA ReadersStand ==
  ASSUME ReadersInv, NoMoreReaders, pipe' = pipe
  PROVE  ReadersInv'
BY DEF ReadersInv, NoMoreReaders

LEMMA pipewriteReaders ==
  ASSUME ReadersInv, Pipes(pipe), Procs(proc), NEW p \in Proc, pipewrite(p)
  PROVE  ReadersInv'
<1> DEFINE k == file[argfd(p)].ip
<1>1. \/ Calm(proc, proc') /\ pipe' = pipe
      \/ /\ Calm(proc, proc') \/ Dozes(proc, proc', p, <<"nwrite", k>>)
         /\ NoSleeper(proc', <<"nread", k>>)
         /\ \E d : pipe' = [pipe EXCEPT ![k].data = d]
  BY pipewriteProc
<1> HIDE DEF k
<1>2. NoMoreReaders
  <2>1. \A l : <<"nwrite", k>> # <<"nread", l>>
    OBVIOUS
  <2> QED BY <1>1, <2>1, CalmReaders, DozeReaders
<1>3. CASE pipe' = pipe
  BY <1>2, <1>3, ReadersStand
<1>4. ASSUME NEW d, pipe' = [pipe EXCEPT ![k].data = d], NoSleeper(proc', <<"nread", k>>)
      PROVE  ReadersInv'
  <2>1. \E y : pipe' = [pipe EXCEPT ![k] = y]
    <3>1. pipe' = [pipe EXCEPT ![k] = [pipe[k] EXCEPT !.data = d]]
      BY <1>4 DEF Pipes
    <3> QED BY <3>1
  <2> QED BY <1>2, <1>4, <2>1, ReadersKept
<1> QED BY <1>1, <1>3, <1>4

LEMMA pipereadReaders ==
  ASSUME ReadersInv, FileInv, PipeInv, Procs(proc), NEW p \in Proc, piperead(p)
  PROVE  ReadersInv'
<1> DEFINE f == argfd(p)
           k == file[f].ip
<1>1. \/ Calm(proc, proc') /\ pipe' = pipe
      \/ /\ Dozes(proc, proc', p, <<"nread", k>>) /\ pipe' = pipe
         /\ pipe[k].data = <<>> /\ pipe[k].writeopen
      \/ /\ Calm(proc, proc') /\ NoSleeper(proc', <<"nwrite", k>>)
         /\ \E d : pipe' = [pipe EXCEPT ![k].data = d]
         /\ ~(pipe[k].data = <<>> /\ pipe[k].writeopen)
  BY pipereadProc
<1>2. k \in 1 .. NPIPE
  <2>1. f # 0 /\ file[f].type = "PIPE"
    BY DEF piperead, OnPipe
  <2>2. f \in File
    BY <2>1 DEF argfd, FileInv, FileShape
  <2> QED BY <2>1, <2>2 DEF PipeInv, PipesOk
<1> HIDE DEF k
<1>3. CASE Calm(proc, proc') /\ pipe' = pipe
  BY <1>3, CalmReaders, ReadersStand
<1>4. CASE /\ Dozes(proc, proc', p, <<"nread", k>>) /\ pipe' = pipe
           /\ pipe[k].data = <<>> /\ pipe[k].writeopen
  <2> SUFFICES ASSUME NEW q \in Proc, NEW l, ReaderAsleep(proc', q, l)
               PROVE  l \in 1 .. NPIPE /\ pipe'[l].data = <<>> /\ pipe'[l].writeopen
    BY DEF ReadersInv
  <2>1. CASE q = p
    <3>1. <<"nread", l>> = <<"nread", k>>
      BY <1>4, <2>1 DEF Dozes, ReaderAsleep
    <3>2. l = k
      BY <3>1
    <3> QED BY <1>2, <1>4, <3>2
  <2>2. CASE q # p
    <3>1. ReaderAsleep(proc, q, l)
      BY <1>4, <2>2 DEF Dozes, ReaderAsleep
    <3> QED BY <1>4, <3>1 DEF ReadersInv
  <2> QED BY <2>1, <2>2
<1>5. CASE /\ Calm(proc, proc')
           /\ \E d : pipe' = [pipe EXCEPT ![k].data = d]
           /\ ~(pipe[k].data = <<>> /\ pipe[k].writeopen)
  <2>1. Pipes(pipe)
    BY DEF PipeInv, PipesOk
  <2>2. \E y : pipe' = [pipe EXCEPT ![k] = y]
    <3>1. PICK d : pipe' = [pipe EXCEPT ![k].data = d]
      BY <1>5
    <3>2. pipe' = [pipe EXCEPT ![k] = [pipe[k] EXCEPT !.data = d]]
      BY <2>1, <3>1 DEF Pipes
    <3> QED BY <3>2
  <2>3. NoMoreReaders
    BY <1>5, CalmReaders
  <2> QED BY <1>5, <2>1, <2>2, <2>3, ReadersKept
<1> QED BY <1>1, <1>3, <1>4, <1>5

LEMMA ClosePipeReaders ==
  ASSUME ReadersInv, FileInv, PipeInv, Procs(proc), NEW p \in Proc, NEW d \in Fd,
         ClosePipe(p, d), ofile[p][d] # 0, file[ofile[p][d]].type = "PIPE"
  PROVE  ReadersInv'
<1> DEFINE g == ofile[p][d]
           k == file[g].ip
           w == file[g].writable
           pi == Closed(pipe[k], w)
           gone == ~pi.readopen /\ ~pi.writeopen
           y == IF gone THEN FreePipe ELSE pi
<1>1. g \in File /\ k \in 1 .. NPIPE /\ w \in BOOLEAN /\ Pipes(pipe) /\ IsPipe(pipe[k])
  BY DEF FileInv, FileShape, PipeInv, PipesOk, Pipes
<1>2. Calm(proc, proc') /\ NoMoreReaders
  BY ClosePipeProc, CalmReaders
<1>3. CASE file[g].ref # 1
  <2>1. pipe' = pipe
    BY <1>3 DEF ClosePipe
  <2> QED BY <1>2, <2>1, ReadersStand
<1>4. CASE file[g].ref = 1
  <2>1. pipe' = [pipe EXCEPT ![k] = y]
    BY <1>4 DEF ClosePipe
  <2>2. NoSleeper(proc', <<IF w THEN "nread" ELSE "nwrite", k>>)
    BY <1>4, ClosePipeProc
  <2>3. /\ pi.writeopen <=> pipe[k].writeopen /\ ~w
        /\ pi.writeopen \in BOOLEAN /\ pipe[k].writeopen \in BOOLEAN
    <3> DEFINE x == pipe[k]
    <3>1. IsPipe(x)
      BY <1>1
    <3> HIDE DEF x, w
    <3>2. /\ Closed(x, w).writeopen <=> x.writeopen /\ ~w
          /\ Closed(x, w).writeopen \in BOOLEAN /\ x.writeopen \in BOOLEAN
      BY <1>1, <3>1, ClosedIs DEF IsPipe
    <3> QED BY <3>2 DEF x
  <2>4. pi.data = pipe[k].data
    <3>1. pi = [pipe[k] EXCEPT !.writeopen = pipe[k].writeopen /\ ~w, !.readopen = pipe[k].readopen /\ w]
      BY DEF Closed
    <3> DEFINE a == pipe[k].writeopen /\ ~w
               b == pipe[k].readopen /\ w
               x == pipe[k]
    <3>2. pi = [x EXCEPT !.writeopen = a, !.readopen = b] /\ IsPipe(x)
      BY <1>1, <3>1
    <3> HIDE DEF a, b, x, pi
    <3>3. pi.data = x.data
      BY <3>2 DEF IsPipe, PipeFields
    <3> QED BY <3>3 DEF x
  <2> HIDE DEF k, w, pi
  <2>5. CASE w
    <3>1. NoSleeper(proc', <<"nread", k>>)
      BY <2>2, <2>5
    <3> HIDE DEF y
    <3> QED BY <1>1, <1>2, <2>1, <3>1, ReadersKept
  <2>6. CASE ~w
    <3>1. CASE gone
      <4>1. ~pipe[k].writeopen
        BY <2>3, <2>6, <3>1
      <4> HIDE DEF y
      <4> QED BY <1>1, <1>2, <2>1, <4>1, ReadersKept
    <3>2. CASE ~gone
      <4>1. y = pi
        BY <3>2
      <4>2. pi.writeopen = pipe[k].writeopen
        BY <2>3, <2>6
      <4> HIDE DEF y
      <4>3. y.data = pipe[k].data /\ y.writeopen = pipe[k].writeopen
        BY <2>4, <4>1, <4>2
      <4> QED BY <1>1, <1>2, <2>1, <4>3, ReadersKept
    <3> QED BY <3>1, <3>2
  <2> QED BY <2>5, <2>6
<1> QED BY <1>3, <1>4

LEMMA sys_pipeReaders ==
  ASSUME ReadersInv, PipeInv, NEW p \in Proc, sys_pipe(p)
  PROVE  ReadersInv'
<1>1. NoMoreReaders
  BY DEF sys_pipe, NoMoreReaders
<1>2. CASE pipe' = pipe
  BY <1>1, <1>2, ReadersStand
<1>3. CASE Piped(p)
  <2>1. PICK k \in 1 .. NPIPE : ~pipe[k].on /\ \E y : pipe' = [pipe EXCEPT ![k] = y]
    BY <1>3 DEF Piped, PipedAs
  <2>2. Pipes(pipe) /\ ~pipe[k].writeopen
    BY <2>1 DEF PipeInv, PipesOk, Pipes, IsPipe
  <2> QED BY <1>1, <2>1, <2>2, ReadersKept
<1> QED BY <1>2, <1>3, sys_pipeFiles

LEMMA ReadersStep ==
  ASSUME ReadersInv, FileInv, PipeInv, Procs(proc), NEW p \in Proc, SysStep(p)
  PROVE  ReadersInv'
<1>1. Pipes(pipe)
  BY DEF PipeInv, PipesOk
<1>2. CASE piperead(p)
  BY <1>2, pipereadReaders
<1>3. CASE pipewrite(p)
  BY <1>1, <1>3, pipewriteReaders
<1>4. CASE sys_pipe(p)
  BY <1>4, sys_pipeReaders
<1>5. CASE close_pipe(p)
  <2> DEFINE d == Val(p, I(p).fd)
  <2>1. argfd(p) # 0 /\ file[argfd(p)].type = "PIPE" /\ ClosePipe(p, d)
    BY <1>5 DEF close_pipe, OnPipe
  <2>2. d \in Fd /\ argfd(p) = ofile[p][d]
    BY <2>1 DEF argfd
  <2> HIDE DEF d
  <2> QED BY <2>1, <2>2, ClosePipeReaders
<1>6. CASE pipe' = pipe /\ ~piperead(p)
  BY <1>6, SysTurns, TurnsReaders, ReadersStand
<1>7. CASE ExitStep(p)
  <2> DEFINE open1 == {d \in Fd : ofile[p][d] # 0}
             d == Min(open1)
  <2>1. CASE pipe' = pipe /\ ~piperead(p)
    BY <1>6, <2>1
  <2>2. CASE p # InitProc /\ open1 # {} /\ file[ofile[p][d]].type = "PIPE"
    <3>1. d \in open1
      <4>1. open1 \subseteq Nat
        BY Tables
      <4> HIDE DEF open1
      <4> QED BY <2>2, <4>1, MinIn
    <3>2. d \in Fd /\ ofile[p][d] # 0
      BY <3>1
    <3>3. ClosePipe(p, d)
      BY <1>7, <2>2 DEF ExitStep
    <3> HIDE DEF d
    <3> QED BY <2>2, <3>2, <3>3, ClosePipeReaders
  <2>3. CASE ~(p # InitProc /\ open1 # {} /\ file[ofile[p][d]].type = "PIPE")
    <3>1. pipe' = pipe
      BY <1>7, <2>3 DEF ExitStep, sysvars
    <3> QED BY <1>2, <2>1, <3>1
  <2> QED BY <2>2, <2>3
<1>8. ASSUME \/ Program(p) \/ CallsKexit(p) \/ Return(p) \/ kfork(p) \/ kexit(p) \/ kwait(p)
             \/ kkill(p) \/ sys_pause(p) \/ clockintr(p) \/ Sbrk1(p) \/ usertrap(p)
             \/ ExecStart(p) \/ ExecEnd(p) \/ device(p) \/ Refused(p) \/ FsCall(p) \/ FsInside(p)
      PROVE  pipe' = pipe
  <2>1. ASSUME \/ Program(p) \/ CallsKexit(p) \/ Return(p) \/ kfork(p) \/ kexit(p) \/ kwait(p)
               \/ kkill(p) \/ sys_pause(p) \/ clockintr(p)
        PROVE  pipe' = pipe
    BY <2>1 DEF Program, CallsKexit, Return, kfork, kexit, kwait, kkill, sys_pause, clockintr
  <2>2. ASSUME \/ Sbrk1(p) \/ usertrap(p) \/ ExecStart(p) \/ ExecEnd(p) \/ device(p)
               \/ Refused(p) \/ FsCall(p) \/ FsInside(p)
        PROVE  pipe' = pipe
    BY <2>2 DEF Sbrk1, usertrap, ExecStart, ExecEnd, device, Refused, FsCall, FsInside, sysvars
  <2> QED BY <1>8, <2>1, <2>2
<1> QED BY <1>2, <1>3, <1>4, <1>5, <1>6, <1>7, <1>8 DEF SysStep

LEMMA ReadersShow == ParentsInv /\ ReadersInv => ReadersWake
<1> SUFFICES ASSUME ParentsInv, ReadersInv, NEW p \in Proc, Asleep(p, "nread")
             PROVE  pipe[proc[p].chan[2]].data = <<>> /\ pipe[proc[p].chan[2]].writeopen
  BY DEF ReadersWake
<1>1. proc[p].state = "SLEEPING" /\ proc[p].chan[1] = "nread"
  BY DEF Asleep
<1>2. PICK a, b : proc[p].chan = <<a, b>>
  BY <1>1 DEF ParentsInv, ParentsOk
<1>3. proc[p].chan = <<"nread", b>> /\ proc[p].chan[2] = b
  BY <1>1, <1>2
<1> QED BY <1>1, <1>3 DEF ReadersInv, ReaderAsleep

\* piperead does not sleep through a pipewrite or the last close of the writing end.
THEOREM ReadersWakeHolds ==
  ASSUME NEW init, NEW prog
  PROVE  SysSpec(init, prog) => []ReadersWake
<1>1. SysInit(init, prog) => SysFsInv /\ PipeInv /\ ParentsInv /\ ReadersInv
  BY SysFsInit, PipeInit, NoneAsleep DEF ParentsInv, ParentsOk, ReadersInv, ReaderAsleep
<1>2. /\ SysFsInv /\ SysFsInv' /\ PipeInv /\ ParentsInv /\ ReadersInv
      /\ [SysNext]_<<fsvars, sysvars>>
      => PipeInv' /\ ParentsInv' /\ ReadersInv'
  <2>1. PipeInv /\ ParentsInv /\ ReadersInv /\ UNCHANGED <<fsvars, sysvars>>
          => PipeInv' /\ ParentsInv' /\ ReadersInv'
    BY DEF PipeInv, ParentsInv, ReadersInv, fsvars, sysvars
  <2>2. ASSUME SysFsInv, PipeInv, ParentsInv, ReadersInv, SysNext
        PROVE  PipeInv' /\ ParentsInv' /\ ReadersInv'
    <3>1. FileInv /\ Procs(proc) /\ TreeInv
      BY <2>2 DEF SysFsInv, FsIInv, TreeInv, TreeOk
    <3> QED BY <2>2, <3>1, NextProc, PipeStep, ParentsStep, ReadersStep
  <2> QED BY <2>1, <2>2
<1> QED BY <1>1, <1>2, SysFsInvariant, ReadersShow, PTL DEF SysSpec
-----------------------------------------------------------------------------
(* What is in the pipes *)

\* How far pipewrite has got, -1 outside it.
Positions == Nat \cup {-1}
PosOk(pr) == \A q \in Proc : pr[q].pos \in Positions

LEMMA PosWith ==
  ASSUME NEW pr, NEW p \in Proc, NEW x, Procs(pr), PosOk(pr), x.pos \in Positions
  PROVE  PosOk(With(pr, p, x))
<1> SUFFICES ASSUME NEW q \in Proc PROVE With(pr, p, x)[q].pos \in Positions
  BY DEF PosOk
<1>1. CASE q = p
  <2>1. With(pr, p, x)[q] = x
    BY <1>1 DEF With, Procs
  <2> QED BY <2>1
<1>2. CASE q # p
  <2>1. With(pr, p, x)[q] = pr[q]
    BY <1>2 DEF With, Procs
  <2> QED BY <2>1 DEF PosOk
<1> QED BY <1>1, <1>2

LEMMA PosWake ==
  ASSUME NEW pr, NEW ch, Procs(pr), PosOk(pr)
  PROVE  PosOk(Wake(pr, ch))
<1> SUFFICES ASSUME NEW q \in Proc PROVE Wake(pr, ch)[q].pos \in Positions
  BY DEF PosOk
<1>1. IsProc(pr[q]) /\ pr[q].pos \in Positions
  BY DEF Procs, PosOk
<1>2. Wake(pr, ch)[q] = pr[q] \/ Wake(pr, ch)[q] = [pr[q] EXCEPT !.state = "RUN"]
  BY DEF Wake
<1>3. [pr[q] EXCEPT !.state = "RUN"].pos = pr[q].pos
  BY <1>1 DEF IsProc, ProcFields
<1> QED BY <1>1, <1>2, <1>3

LEMMA PosDone ==
  ASSUME NEW pr, NEW p \in Proc, Procs(pr), PosOk(pr)
  PROVE  PosOk(Done1(pr, p))
<1> DEFINE n == -1
           x == [pr[p] EXCEPT !.pos = n]
<1>1. Done1(pr, p) = With(pr, p, x)
  BY DEF Done1, Procs, With
<1>2. IsProc(pr[p]) /\ n \in Positions
  BY DEF Procs, Positions
<1> HIDE DEF n
<1>3. x.pos \in Positions
  BY <1>2 DEF IsProc, ProcFields
<1> HIDE DEF x
<1> QED BY <1>1, <1>3, PosWith

LEMMA PosSleep ==
  ASSUME NEW pr, NEW p \in Proc, NEW ch, NEW n \in Nat, Procs(pr), PosOk(pr)
  PROVE  PosOk(Sleep(pr, p, ch, n))
<1> DEFINE x == [pr[p] EXCEPT !.state = "SLEEPING", !.chan = ch, !.pos = n]
<1>1. Sleep(pr, p, ch, n) = With(pr, p, x)
  BY DEF Sleep, Procs, With
<1>2. IsProc(pr[p]) /\ n \in Positions
  BY DEF Procs, Positions
<1>3. x.pos = n
  BY <1>2 DEF IsProc, ProcFields
<1> HIDE DEF x
<1> QED BY <1>1, <1>2, <1>3, PosWith

LEMMA PosFields ==
  ASSUME NEW pr, NEW p \in Proc, Procs(pr), PosOk(pr), NEW a, NEW b
  PROVE  /\ PosOk(With(pr, p, [pr[p] EXCEPT !.argv = a]))
         /\ PosOk(With(pr, p, [pr[p] EXCEPT !.killed = a]))
         /\ PosOk(With(pr, p, [pr[p] EXCEPT !.state = a]))
         /\ PosOk(With(pr, p, [pr[p] EXCEPT !.killed = a, !.state = b]))
<1>1. IsProc(pr[p]) /\ pr[p].pos \in Positions
  BY DEF Procs, PosOk
<1>2. /\ [pr[p] EXCEPT !.argv = a].pos = pr[p].pos
      /\ [pr[p] EXCEPT !.killed = a].pos = pr[p].pos
      /\ [pr[p] EXCEPT !.state = a].pos = pr[p].pos
  BY <1>1 DEF IsProc, ProcFields
<1>3. [pr[p] EXCEPT !.killed = a, !.state = b].pos = pr[p].pos
  BY <1>1 DEF IsProc, ProcFields
<1> QED BY <1>1, <1>2, <1>3, PosWith

LEMMA PosReparent ==
  ASSUME NEW pr, NEW p, Procs(pr), PosOk(pr)
  PROVE  PosOk(reparent(pr, p))
<1> DEFINE kids == {q \in Proc : pr[q].parent = p}
           r == [q \in Proc |-> IF q \in kids THEN [pr[q] EXCEPT !.parent = InitProc] ELSE pr[q]]
<1>1. ASSUME NEW q \in Proc
      PROVE  IsProc(r[q]) /\ r[q].pos \in Positions
  <2>1. IsProc(pr[q]) /\ pr[q].pos \in Positions
    BY DEF Procs, PosOk
  <2>2. r[q] = pr[q] \/ r[q] = [pr[q] EXCEPT !.parent = InitProc]
    OBVIOUS
  <2> HIDE DEF r
  <2> QED BY <2>1, <2>2 DEF IsProc, ProcFields
<1>2. Procs(r) /\ PosOk(r)
  <2>1. r = [q \in Proc |-> r[q]]
    OBVIOUS
  <2> HIDE DEF r
  <2> QED BY <1>1, <2>1 DEF Procs, PosOk
<1>3. reparent(pr, p) = pr \/ reparent(pr, p) = Wake(r, <<"wait", InitProc>>)
  BY DEF reparent
<1> HIDE DEF r
<1> QED BY <1>2, <1>3, PosWake


LEMMA kforkPos ==
  ASSUME NEW p \in Proc, Procs(proc), PosOk(proc), kfork(p)
  PROVE  PosOk(proc')
<1> DEFINE U == {q \in Proc : proc[q].state = "UNUSED"}
           q == Min(U)
           k == proc[q].killed
           no == FALSE
           x == [FreeProc EXCEPT !.state = "RUN", !.pid = nextpid, !.parent = p, !.killed = k]
<1>1. \/ proc' = proc
      \/ U # {} /\ proc' = [proc EXCEPT ![q].killed = no]
      \/ U # {} /\ proc' = [proc EXCEPT ![q] = x]
  BY DEF kfork
<1> HIDE DEF k, no
<1>2. U # {} => q \in Proc
  <2>1. U \subseteq Nat /\ U \subseteq Proc
    BY FsConstants
  <2> HIDE DEF U
  <2> QED BY <2>1, MinIn
<1>3. x.pos \in Positions
  BY DEF FreeProc, Positions
<1> HIDE DEF q, x, U
<1>4. CASE U # {} /\ proc' = [proc EXCEPT ![q].killed = no]
  <2>1. proc' = With(proc, q, [proc[q] EXCEPT !.killed = no])
    BY <1>2, <1>4 DEF With, Procs
  <2>2. q \in Proc
    BY <1>2, <1>4
  <2>3. PosOk(With(proc, q, [proc[q] EXCEPT !.killed = no]))
    BY <2>2, PosFields
  <2> QED BY <2>1, <2>3
<1> QED BY <1>1, <1>2, <1>3, <1>4, PosWith DEF With

LEMMA PosOthers ==
  ASSUME NEW p \in Proc, Procs(proc), PosOk(proc),
         \/ kfork(p) \/ kexit(p) \/ kwait(p) \/ kkill(p) \/ sys_pause(p) \/ clockintr(p)
         \/ CallsKexit(p) \/ Return(p) \/ usertrap(p) \/ ExecStart(p) \/ ExecEnd(p)
  PROVE  PosOk(proc')
<1>1. CASE kfork(p)
  BY <1>1, kforkPos
<1>2. CASE kexit(p)
  <2> DEFINE v == reparent(proc, p)
             w == Wake(v, <<"wait", proc[p].parent>>)
             n == I(p).n
             s == "ZOMBIE"
             m == -1
  <2>1. proc' = [w EXCEPT ![p].state = s, ![p].xstate = n, ![p].pos = m] /\ m \in Positions
    BY <1>2 DEF kexit, Positions
  <2>2. Procs(v) /\ PosOk(v)
    BY ReparentIs, PosReparent
  <2> HIDE DEF v, n, s, m
  <2>3. Procs(w) /\ PosOk(w)
    BY <2>2, WakeIs, PosWake DEF Calm
  <2> HIDE DEF w
  <2> DEFINE x == [w[p] EXCEPT !.state = s, !.xstate = n, !.pos = m]
  <2>4. proc' = With(w, p, x)
    BY <2>1, <2>3 DEF With, Procs
  <2>5. x.pos = m
    <3>1. IsProc(w[p]) /\ x = [w[p] EXCEPT !.state = s, !.xstate = n, !.pos = m]
      BY <2>3 DEF Procs
    <3> HIDE DEF x
    <3> QED BY <3>1 DEF IsProc, ProcFields
  <2> HIDE DEF x
  <2>6. PosOk(With(w, p, x))
    <3>1. x.pos \in Positions
      BY <2>1, <2>5
    <3> QED BY <2>3, <3>1, PosWith
  <2> QED BY <2>4, <2>6
<1>3. CASE kwait(p)
  <2> DEFINE kids == {q \in Proc : proc[q].parent = p}
             Z == {q \in kids : proc[q].state = "ZOMBIE"}
             z == Min(Z)
             v == With(proc, z, FreeProc)
             ch == <<"wait", p>>
  <2>1. \/ Z # {} /\ proc' = Done1(v, p)
        \/ proc' = Done1(proc, p) \/ proc' = Sleep(proc, p, ch, 0)
    BY <1>3 DEF kwait, With
  <2>2. Z # {} => z \in Proc
    <3>1. Z \subseteq Nat /\ Z \subseteq Proc
      BY FsConstants
    <3> HIDE DEF Z
    <3> QED BY <3>1, MinIn
  <2> HIDE DEF z, Z
  <2>3. z \in Proc => Procs(v) /\ PosOk(v)
    <3>1. z \in Proc => v = [q \in Proc |-> v[q]] /\ v[z] = FreeProc /\ \A q \in Proc \ {z} : v[q] = proc[q]
      BY DEF With, Procs
    <3>2. FreeProc.pos \in Positions
      BY DEF FreeProc, Positions
    <3> HIDE DEF v
    <3> QED BY <3>1, <3>2, FreeIs DEF Procs, PosOk
  <2> HIDE DEF v, ch
  <2> QED BY <2>1, <2>2, <2>3, PosDone, PosSleep
<1>4. CASE kkill(p)
  <2> DEFINE T == {q \in Proc : proc[q].pid = Val(p, I(p).pid)}
             q == Min(T)
             s == IF proc[q].state = "SLEEPING" THEN "RUN" ELSE proc[q].state
             t == TRUE
  <2>1. \/ proc' = proc
        \/ T # {} /\ proc' = KillProc(proc, q)
    <3>1. proc' = IF T = {} THEN proc ELSE KillProc(proc, q)
      BY <1>4 DEF kkill
    <3> HIDE DEF T, q
    <3> QED BY <3>1
  <2>2. T # {} => q \in Proc
    <3>1. T \subseteq Nat /\ T \subseteq Proc
      BY FsConstants
    <3> HIDE DEF T
    <3> QED BY <3>1, MinIn
  <2> HIDE DEF q, T
  <2>3. KillProc(proc, q) = With(proc, q, [proc[q] EXCEPT !.killed = t, !.state = s])
    BY DEF KillProc, With, Procs
  <2> HIDE DEF s, t
  <2>4. CASE q \in Proc
    <3>1. PosOk(With(proc, q, [proc[q] EXCEPT !.killed = t, !.state = s]))
      BY <2>4, PosFields
    <3> QED BY <2>1, <2>3, <3>1
  <2> QED BY <2>1, <2>2, <2>4
<1>5. CASE sys_pause(p)
  <2> DEFINE ch == <<"ticks", 0>>
  <2>1. proc' = Sleep(proc, p, ch, 0) \/ proc' = Done1(proc, p)
    BY <1>5 DEF sys_pause
  <2> HIDE DEF ch
  <2> QED BY <2>1, PosDone, PosSleep
<1>6. CASE clockintr(p)
  <2> DEFINE s == "RUN"
  <2>1. proc' = With(proc, p, [proc[p] EXCEPT !.state = s])
    BY <1>6 DEF clockintr, With, Procs
  <2> HIDE DEF s
  <2> QED BY <2>1, PosFields
<1>7. CASE Return(p) \/ usertrap(p) \/ ExecStart(p) \/ ExecEnd(p)
  <2>1. \/ proc' = proc \/ \E v : proc' = [proc EXCEPT ![p].argv = v]
        \/ \E v : proc' = [proc EXCEPT ![p].killed = v]
    BY <1>7 DEF Return, usertrap, ExecStart, ExecEnd
  <2>2. \/ proc' = proc \/ \E v : proc' = With(proc, p, [proc[p] EXCEPT !.argv = v])
        \/ \E v : proc' = With(proc, p, [proc[p] EXCEPT !.killed = v])
    BY <2>1 DEF With, Procs
  <2> QED BY <2>2, PosFields
<1>8. CASE CallsKexit(p)
  <2> DEFINE n == 0
             x == [proc[p] EXCEPT !.pos = n]
  <2>1. proc' = With(proc, p, x) /\ n \in Positions
    BY <1>8 DEF CallsKexit, With, Procs, Positions
  <2> HIDE DEF n
  <2>2. x.pos = n
    BY DEF Procs, IsProc, ProcFields
  <2> HIDE DEF x
  <2> QED BY <2>1, <2>2, PosWith
<1> QED BY <1>1, <1>2, <1>3, <1>4, <1>5, <1>6, <1>7, <1>8

\* What a program passes to read is a number, and to write a sequence.
Arguments(S) ==
  \A p \in Proc : AtUser(p) => /\ I(p).op = "read" => I(p).n \in Int
                               /\ I(p).op = "write" => Units(p) \in Seq(S)

PipeData(S, d) == d \in Seq(S) /\ Len(d) <= PIPESIZE
DataOk(S, pi) == \A k \in 1 .. NPIPE : PipeData(S, pi[k].data)

LEMMA MinPair ==
  ASSUME NEW a \in Int, NEW b \in Int
  PROVE  /\ Min({a, b}) \in Int /\ Min({a, b}) <= a /\ Min({a, b}) <= b
         /\ Min({a, b}) = a \/ Min({a, b}) = b
<1>1. \E x \in {a, b} : \A y \in {a, b} : x <= y
  OBVIOUS
<1>2. Min({a, b}) \in {a, b} /\ \A y \in {a, b} : Min({a, b}) <= y
  BY <1>1 DEF Min
<1> QED BY <1>2

LEMMA MinTriple ==
  ASSUME NEW a \in Int, NEW b \in Int, NEW c \in Int
  PROVE  Min({a, b, c}) \in {a, b, c} /\ \A y \in {a, b, c} : Min({a, b, c}) <= y
<1>1. \E x \in {a, b, c} : \A y \in {a, b, c} : x <= y
  OBVIOUS
<1> QED BY <1>1 DEF Min

\* pipewrite copies as much as there is room for, and sleeps only on a full pipe.
Room(d, n, j) == Min({n - j, PIPESIZE - Len(d)})
Filled(d, u, j, m) == d \o SubSeq(u, j + 1, j + m)
Copied(S, d, new, j, m, n) ==
  /\ PipeData(S, new)
  /\ Len(d) = PIPESIZE => Len(new) = PIPESIZE
  /\ j + m < n => Len(new) = PIPESIZE /\ j + m \in Nat /\ j < n

LEMMA WriteFits ==
  ASSUME NEW S, NEW u, NEW d, NEW j, NEW n, u \in Seq(S), PipeData(S, d), j \in Nat,
         n = 0 \/ n = Len(u)
  PROVE  Copied(S, d, Filled(d, u, j, Room(d, n, j)), j, Room(d, n, j), n)
<1> DEFINE m == Room(d, n, j)
           new == Filled(d, u, j, m)
<1>0. m = Min({n - j, PIPESIZE - Len(d)}) /\ new = d \o SubSeq(u, j + 1, j + m)
  BY DEF Room, Filled
<1> HIDE DEF m, new
<1>1. d \in Seq(S) /\ Len(d) \in Nat /\ Len(d) <= PIPESIZE /\ PIPESIZE \in Nat /\ Len(u) \in Nat
  BY SysConstants DEF PipeData
<1>2. n \in Nat /\ n <= Len(u) /\ n - j \in Int /\ PIPESIZE - Len(d) \in Int
  BY <1>1
<1>3. m \in Int /\ m <= n - j /\ m <= PIPESIZE - Len(d) /\ (m = n - j \/ m = PIPESIZE - Len(d))
  BY <1>0, <1>2, MinPair
<1> DEFINE t == SubSeq(u, j + 1, j + m)
<1>4. t \in Seq(S) /\ Len(t) = IF m > 0 THEN m ELSE 0
  <2>1. \A i \in (j + 1) .. (j + m) : u[i] \in S
    BY <1>1, <1>2, <1>3
  <2> DEFINE a == j + 1
             b == j + m
  <2>2. a \in Int /\ b \in Int
    BY <1>3
  <2> HIDE DEF a, b
  <2>3. \A i \in a .. b : u[i] \in S
    BY <2>1 DEF a, b
  <2>4. SubSeq(u, a, b) \in Seq(S) /\ Len(SubSeq(u, a, b)) = IF a <= b THEN b - a + 1 ELSE 0
    BY ONLY <2>2, <2>3, SubSeqProperties
  <2>5. t = SubSeq(u, a, b)
    BY DEF a, b
  <2> HIDE DEF t
  <2>6. (IF a <= b THEN b - a + 1 ELSE 0) = IF m > 0 THEN m ELSE 0
    BY ONLY <1>3, j \in Nat DEF a, b
  <2> QED BY ONLY <2>4, <2>5, <2>6
<1> HIDE DEF t
<1>5. new = d \o t
  BY <1>0 DEF t
<1>6. new \in Seq(S) /\ Len(new) = Len(d) + Len(t)
  BY <1>1, <1>4, <1>5, ConcatProperties
<1>7. Len(new) <= PIPESIZE /\ (Len(d) = PIPESIZE => Len(new) = PIPESIZE)
  BY <1>1, <1>3, <1>4, <1>6
<1>8. j + m < n => Len(new) = PIPESIZE /\ j + m \in Nat /\ j < n
  <2> DEFINE a == Len(d)
             b == Len(t)
  <2>1. a \in Nat /\ a <= PIPESIZE /\ PIPESIZE \in Nat /\ b = IF m > 0 THEN m ELSE 0
    BY <1>1, <1>4
  <2>2. j \in Nat /\ n \in Nat /\ m \in Int /\ m <= PIPESIZE - a /\ (m = n - j \/ m = PIPESIZE - a)
    BY <1>2, <1>3
  <2> HIDE DEF a, b
  <2>3. j + m < n => a + b = PIPESIZE /\ j + m \in Nat /\ j < n
    BY ONLY <2>1, <2>2
  <2> QED BY <1>6, <2>3 DEF a, b
<1> QED BY <1>6, <1>7, <1>8 DEF PipeData, Copied, m, new

LEMMA ReadFits ==
  ASSUME NEW S, NEW d, PipeData(S, d), NEW t \in Nat, t <= Len(d)
  PROVE  PipeData(S, SubSeq(d, t + 1, Len(d)))
<1>1. d \in Seq(S) /\ Len(d) \in Nat /\ Len(d) <= PIPESIZE /\ PIPESIZE \in Nat
  BY SysConstants DEF PipeData
<1> DEFINE e == SubSeq(d, t + 1, Len(d))
<1>2. e \in Seq(S) /\ Len(e) = Len(d) - t
  <2>1. \A i \in (t + 1) .. Len(d) : i \in 1 .. Len(d)
    BY <1>1
  <2> QED BY <1>1, <2>1
<1> HIDE DEF e
<1>3. PipeData(S, e)
  BY <1>1, <1>2 DEF PipeData
<1> QED BY <1>3 DEF e


LEMMA DataKept ==
  ASSUME NEW S, NEW pi, NEW k, NEW y, Pipes(pi), DataOk(S, pi), PipeData(S, y.data)
  PROVE  DataOk(S, [pi EXCEPT ![k] = y])
<1> SUFFICES ASSUME NEW l \in 1 .. NPIPE
             PROVE  PipeData(S, [pi EXCEPT ![k] = y][l].data)
  BY DEF DataOk
<1>1. [pi EXCEPT ![k] = y][l] = IF l = k THEN y ELSE pi[l]
  BY DEF Pipes
<1> QED BY <1>1 DEF DataOk

LEMMA DataPut ==
  ASSUME NEW k \in 1 .. NPIPE, NEW d, Pipes(pipe)
  PROVE  /\ [pipe EXCEPT ![k].data = d] = [pipe EXCEPT ![k] = [pipe[k] EXCEPT !.data = d]]
         /\ [pipe[k] EXCEPT !.data = d].data = d
         /\ [pipe[k] EXCEPT !.data = d].readopen = pipe[k].readopen
<1>1. IsPipe(pipe[k])
  BY DEF Pipes
<1> QED BY <1>1 DEF Pipes, IsPipe, PipeFields

LEMMA EmptyFits == \A S : PipeData(S, <<>>)
BY SysConstants, EmptySeq DEF PipeData

\* The pipe of a descriptor.
LEMMA OnPipeIs ==
  ASSUME FileInv, PipeInv, NEW p \in Proc, OnPipe(p)
  PROVE  file[argfd(p)].ip \in 1 .. NPIPE
<1>1. argfd(p) # 0 /\ file[argfd(p)].type = "PIPE"
  BY DEF OnPipe
<1>2. argfd(p) \in File
  BY <1>1 DEF argfd, FileInv, FileShape
<1> QED BY <1>1, <1>2 DEF PipeInv, PipesOk

\* A writer falls asleep only on a full pipe that someone can read.
LEMMA pipewriteData ==
  ASSUME NEW S, Arguments(S), FileInv, PipeInv, Procs(proc), PosOk(proc), DataOk(S, pipe),
         NEW p \in Proc, pipewrite(p)
  PROVE  LET k == file[argfd(p)].ip
         IN /\ PosOk(proc')
            /\ \/ pipe' = pipe /\ Calm(proc, proc')
               \/ \E d : /\ pipe' = [pipe EXCEPT ![k].data = d] /\ PipeData(S, d)
                         /\ Len(pipe[k].data) = PIPESIZE => Len(d) = PIPESIZE
                         /\ \/ Calm(proc, proc')
                            \/ /\ Dozes(proc, proc', p, <<"nwrite", k>>)
                               /\ Len(d) = PIPESIZE /\ pipe[k].readopen
<1> DEFINE i  == I(p)
           u  == Units(p)
           k  == file[argfd(p)].ip
           j  == IF proc[p].pos = -1 THEN 0 ELSE proc[p].pos
           s  == CopyIn(p, i.at, Len(u))
           n  == IF s.ok THEN Len(u) ELSE 0
           e  == pipe[k].data
           m  == Min({n - j, PIPESIZE - Len(e)})
           new == e \o SubSeq(u, j + 1, j + m)
           ch == <<"nwrite", k>>
           cr == <<"nread", k>>
           stop == j < n /\ (~pipe[k].readopen \/ proc[p].killed)
<1>1. AtUser(p) /\ i.op = "write" /\ OnPipe(p) /\ proc[p].state = "RUN"
  BY DEF pipewrite, Op, AtUser
<1>2. k \in 1 .. NPIPE
  BY <1>1, OnPipeIs
<1>3. u \in Seq(S) /\ PipeData(S, e) /\ j \in Nat
  BY <1>1, <1>2 DEF Arguments, DataOk, PosOk, Positions
<1>4. \/ stop /\ proc' = Done1(proc, p) /\ pipe' = pipe
      \/ /\ ~stop /\ pipe' = [pipe EXCEPT ![k].data = new]
         /\ \/ j + m < n /\ proc' = Sleep(Wake(proc, cr), p, ch, j + m)
            \/ proc' = Done1(Wake(proc, cr), p)
  BY DEF pipewrite, WakeFull
<1>5. /\ PipeData(S, new)
      /\ Len(e) = PIPESIZE => Len(new) = PIPESIZE
      /\ j + m < n => Len(new) = PIPESIZE /\ j + m \in Nat /\ j < n
  <2>1. n = 0 \/ n = Len(u)
    OBVIOUS
  <2>2. m = Room(e, n, j) /\ new = Filled(e, u, j, m)
    BY DEF Room, Filled
  <2>3. u \in Seq(S) /\ PipeData(S, e) /\ j \in Nat
    BY <1>3
  <2> HIDE DEF u, j, n, e, m, new
  <2>4. Copied(S, e, new, j, m, n)
    BY ONLY <2>1, <2>2, <2>3, WriteFits
  <2> QED BY <2>4 DEF Copied
<1>6. Procs(Wake(proc, cr)) /\ PosOk(Wake(proc, cr)) /\ Calm(proc, Wake(proc, cr))
  BY WakeIs, PosWake DEF Calm
<1> HIDE DEF i, u, j, s, n, m, new, ch, cr
<1>7. CASE stop /\ proc' = Done1(proc, p) /\ pipe' = pipe
  BY <1>7, DoneCalm, PosDone
<1>8. CASE pipe' = [pipe EXCEPT ![k].data = new] /\ proc' = Done1(Wake(proc, cr), p)
  <2>1. Calm(proc, proc') /\ PosOk(proc')
    BY <1>6, <1>8, WakeDoneIs, PosDone
  <2> QED BY <1>5, <1>8, <2>1
<1>9. CASE /\ ~stop /\ pipe' = [pipe EXCEPT ![k].data = new]
           /\ j + m < n /\ proc' = Sleep(Wake(proc, cr), p, ch, j + m)
  <2>1. pipe[k].readopen /\ Len(new) = PIPESIZE /\ j + m \in Nat
    BY <1>5, <1>9
  <2> DEFINE w == Wake(proc, cr)
             o == j + m
  <2>2. Procs(w) /\ PosOk(w) /\ Calm(proc, w) /\ o \in Nat /\ proc' = Sleep(w, p, ch, o)
    BY <1>6, <1>9, <2>1
  <2> HIDE DEF w, o
  <2>3. Dozes(proc, proc', p, ch) /\ PosOk(proc')
    BY <1>1, <2>2, SleepDozes, PosSleep
  <2> QED BY <1>5, <1>9, <2>1, <2>3 DEF ch
<1> QED BY <1>4, <1>7, <1>8, <1>9

LEMMA pipereadData ==
  ASSUME NEW S, Arguments(S), FileInv, PipeInv, Procs(proc), PosOk(proc), DataOk(S, pipe),
         NEW p \in Proc, piperead(p)
  PROVE  PosOk(proc') /\ DataOk(S, pipe')
<1> DEFINE i == I(p)
           k == file[argfd(p)].ip
           d == pipe[k].data
           n == IF i.n > 0 THEN i.n ELSE 0
           s == CopyOut(p, i.at, n)
           m == IF s.ok THEN Min({n, Len(d)}) ELSE 0
           taken == IF s.ok THEN m ELSE Min({1, n, Len(d)})
           new == SubSeq(d, taken + 1, Len(d))
           cw == <<"nwrite", k>>
           ch == <<"nread", k>>
<1>1. AtUser(p) /\ i.op = "read" /\ OnPipe(p)
  BY DEF piperead, Op
<1>2. k \in 1 .. NPIPE /\ Pipes(pipe)
  BY <1>1, OnPipeIs DEF PipeInv, PipesOk
<1>3. PipeData(S, d) /\ i.n \in Int
  BY <1>1, <1>2 DEF Arguments, DataOk
<1>4. \/ proc' = Done1(proc, p) /\ pipe' = pipe
      \/ proc' = Sleep(proc, p, ch, 0) /\ pipe' = pipe
      \/ proc' = Done1(Wake(proc, cw), p) /\ pipe' = [pipe EXCEPT ![k].data = new]
  BY DEF piperead, WakeEmptied
<1>5. PipeData(S, new)
  <2>1. Len(d) \in Nat
    BY <1>3 DEF PipeData
  <2> HIDE DEF d, s
  <2>2. taken \in Nat /\ taken <= Len(d)
    <3> DEFINE a == n
               b == Len(d)
    <3>0. a \in Nat /\ b \in Nat /\ a \in Int /\ b \in Int
      BY <1>3, <2>1
    <3> HIDE DEF a, b
    <3>1. Min({a, b}) \in Nat /\ Min({a, b}) <= b
      BY <3>0, MinPair
    <3>2. Min({1, a, b}) \in Nat /\ Min({1, a, b}) <= b
      BY <3>0, MinTriple
    <3> QED BY <3>0, <3>1, <3>2 DEF a, b
  <2> HIDE DEF taken
  <2> QED BY <1>3, <2>2, ReadFits
<1> HIDE DEF ch, cw, new, i
<1>6. PosOk(proc')
  <2>1. Procs(Wake(proc, cw)) /\ PosOk(Wake(proc, cw))
    BY WakeIs, PosWake DEF Calm
  <2> QED BY <1>4, <2>1, PosDone, PosSleep
<1>7. CASE pipe' = [pipe EXCEPT ![k].data = new]
  <2> DEFINE y == [pipe[k] EXCEPT !.data = new]
  <2> HIDE DEF k
  <2>1. pipe' = [pipe EXCEPT ![k] = y] /\ y.data = new
    BY <1>2, <1>7, DataPut
  <2> HIDE DEF y
  <2>2. PipeData(S, y.data)
    BY <1>5, <2>1
  <2>3. DataOk(S, [pipe EXCEPT ![k] = y])
    BY <1>2, <2>2, DataKept
  <2> QED BY <1>6, <2>1, <2>3
<1> QED BY <1>4, <1>6, <1>7
-----------------------------------------------------------------------------
(* Writers *)

WriterAsleep(pr, q, k) == pr[q].state = "SLEEPING" /\ pr[q].chan = <<"nwrite", k>>
FullPipe(x) == Len(x.data) = PIPESIZE /\ x.readopen
WritersInv == \A q \in Proc : \A k : WriterAsleep(proc, q, k) =>
                k \in 1 .. NPIPE /\ FullPipe(pipe[k])

\* No writer falls asleep.
NoMoreWriters == \A q \in Proc : \A k : WriterAsleep(proc', q, k) => WriterAsleep(proc, q, k)

LEMMA CalmWriters ==
  ASSUME Calm(proc, proc')
  PROVE  NoMoreWriters
BY DEF Calm, NoMoreWriters, WriterAsleep

LEMMA DozeWriters ==
  ASSUME NEW p \in Proc, NEW ch, Dozes(proc, proc', p, ch), \A k : ch # <<"nwrite", k>>
  PROVE  NoMoreWriters
<1> SUFFICES ASSUME NEW q \in Proc, NEW k, WriterAsleep(proc', q, k)
             PROVE  WriterAsleep(proc, q, k)
  BY DEF NoMoreWriters
<1>1. q # p
  BY DEF Dozes, WriterAsleep
<1> QED BY <1>1 DEF Dozes, WriterAsleep

LEMMA TurnsWriters ==
  ASSUME NEW p \in Proc, Turns(p), ~pipewrite(p)
  PROVE  NoMoreWriters
<1>1. CASE Calm(proc, proc')
  BY <1>1, CalmWriters
<1>2. ASSUME NEW ch, Dozes(proc, proc', p, ch), Waits(p, ch)
      PROVE  NoMoreWriters
  <2>1. \A k : ch # <<"nwrite", k>>
    BY <1>2 DEF Waits
  <2> QED BY <1>2, <2>1, DozeWriters
<1>3. ASSUME NEW q \in Proc, Born(proc, proc', p, q) \/ Reaped(proc, proc', p, q)
      PROVE  NoMoreWriters
  BY <1>3 DEF Born, Reaped, NoMoreWriters, WriterAsleep
<1>4. CASE Dies(proc, proc', p)
  BY <1>4 DEF Dies, NoMoreWriters, WriterAsleep
<1> QED BY <1>1, <1>2, <1>3, <1>4 DEF Turns

LEMMA WritersKept ==
  ASSUME WritersInv, NoMoreWriters, Pipes(pipe), NEW k, NEW y,
         pipe' = [pipe EXCEPT ![k] = y],
         \/ NoSleeper(proc', <<"nwrite", k>>)
         \/ FullPipe(pipe[k]) => FullPipe(y)
  PROVE  WritersInv'
<1> SUFFICES ASSUME NEW q \in Proc, NEW l, WriterAsleep(proc', q, l)
             PROVE  l \in 1 .. NPIPE /\ FullPipe(pipe'[l])
  BY DEF WritersInv
<1>1. WriterAsleep(proc, q, l) /\ l \in 1 .. NPIPE /\ FullPipe(pipe[l])
  BY DEF NoMoreWriters, WritersInv
<1>2. CASE l # k
  <2>1. pipe'[l] = pipe[l]
    BY <1>1, <1>2 DEF Pipes
  <2> QED BY <1>1, <2>1
<1>3. CASE l = k
  <2>1. ~NoSleeper(proc', <<"nwrite", k>>)
    BY <1>3 DEF NoSleeper, WriterAsleep
  <2>2. FullPipe(y)
    BY <1>1, <1>3, <2>1
  <2>3. pipe'[l] = y
    BY <1>1, <1>3 DEF Pipes
  <2> QED BY <1>1, <2>2, <2>3
<1> QED BY <1>2, <1>3

LEMMA WritersStand ==
  ASSUME WritersInv, NoMoreWriters, pipe' = pipe
  PROVE  WritersInv'
BY DEF WritersInv, NoMoreWriters

\* What is in the pipes, and how far writers have got.
DataInv(S) == PosOk(proc) /\ DataOk(S, pipe)

LEMMA pipewriteWriters ==
  ASSUME NEW S, Arguments(S), FileInv, PipeInv, Procs(proc), DataInv(S), WritersInv,
         NEW p \in Proc, pipewrite(p)
  PROVE  DataInv(S)' /\ WritersInv'
<1> DEFINE k == file[argfd(p)].ip
<1>1. PosOk(proc) /\ DataOk(S, pipe) /\ Pipes(pipe)
  BY DEF DataInv, PipeInv, PipesOk
<1>2. k \in 1 .. NPIPE
  BY OnPipeIs DEF pipewrite
<1>3. /\ PosOk(proc')
      /\ \/ pipe' = pipe /\ Calm(proc, proc')
         \/ \E d : /\ pipe' = [pipe EXCEPT ![k].data = d] /\ PipeData(S, d)
                   /\ Len(pipe[k].data) = PIPESIZE => Len(d) = PIPESIZE
                   /\ \/ Calm(proc, proc')
                      \/ /\ Dozes(proc, proc', p, <<"nwrite", k>>)
                         /\ Len(d) = PIPESIZE /\ pipe[k].readopen
  BY <1>1, pipewriteData
<1> HIDE DEF k
<1>4. CASE pipe' = pipe /\ Calm(proc, proc')
  <2>1. DataInv(S)'
    BY <1>1, <1>3, <1>4 DEF DataInv
  <2> QED BY <1>4, <2>1, CalmWriters, WritersStand
<1>5. ASSUME NEW d, pipe' = [pipe EXCEPT ![k].data = d], PipeData(S, d),
             Len(pipe[k].data) = PIPESIZE => Len(d) = PIPESIZE,
             \/ Calm(proc, proc')
             \/ /\ Dozes(proc, proc', p, <<"nwrite", k>>)
                /\ Len(d) = PIPESIZE /\ pipe[k].readopen
      PROVE  DataInv(S)' /\ WritersInv'
  <2> DEFINE y == [pipe[k] EXCEPT !.data = d]
  <2>1. pipe' = [pipe EXCEPT ![k] = y] /\ y.data = d /\ y.readopen = pipe[k].readopen
    BY <1>1, <1>2, <1>5, DataPut
  <2> HIDE DEF y
  <2>2. FullPipe(pipe[k]) => FullPipe(y)
    BY <1>5, <2>1 DEF FullPipe
  <2>3. DataInv(S)'
    <3>1. PipeData(S, y.data)
      BY <1>5, <2>1
    <3>2. DataOk(S, [pipe EXCEPT ![k] = y])
      BY <1>1, <3>1, DataKept
    <3> QED BY <1>3, <2>1, <3>2 DEF DataInv
  <2>4. CASE Calm(proc, proc')
    BY <1>1, <2>1, <2>2, <2>3, <2>4, CalmWriters, WritersKept
  <2>5. CASE /\ Dozes(proc, proc', p, <<"nwrite", k>>)
             /\ Len(d) = PIPESIZE /\ pipe[k].readopen
    <3>1. FullPipe(y) /\ pipe'[k] = y /\ \A l \in 1 .. NPIPE : l # k => pipe'[l] = pipe[l]
      BY <1>1, <1>2, <2>1, <2>5 DEF FullPipe, Pipes
    <3>2. ASSUME NEW q \in Proc, NEW l, WriterAsleep(proc', q, l)
          PROVE  l \in 1 .. NPIPE /\ FullPipe(pipe'[l])
      <4>1. CASE q = p
        <5>1. <<"nwrite", l>> = <<"nwrite", k>>
          BY <2>5, <3>2, <4>1 DEF Dozes, WriterAsleep
        <5>2. l = k
          BY <5>1
        <5> QED BY <1>2, <3>1, <5>2
      <4>2. CASE q # p
        <5>1. WriterAsleep(proc, q, l)
          BY <2>5, <3>2, <4>2 DEF Dozes, WriterAsleep
        <5>2. l \in 1 .. NPIPE /\ FullPipe(pipe[l])
          BY <5>1 DEF WritersInv
        <5> QED BY <3>1, <5>2
      <4> QED BY <4>1, <4>2
    <3>3. WritersInv'
      BY <3>2 DEF WritersInv
    <3> QED BY <2>3, <3>3
  <2> QED BY <1>5, <2>4, <2>5
<1> QED BY <1>3, <1>4, <1>5

LEMMA pipereadWriters ==
  ASSUME NEW S, Arguments(S), FileInv, PipeInv, Procs(proc), DataInv(S), WritersInv,
         NEW p \in Proc, piperead(p)
  PROVE  DataInv(S)' /\ WritersInv'
<1> DEFINE k == file[argfd(p)].ip
<1>1. PosOk(proc) /\ DataOk(S, pipe) /\ Pipes(pipe)
  BY DEF DataInv, PipeInv, PipesOk
<1>2. k \in 1 .. NPIPE
  BY OnPipeIs DEF piperead
<1>3. DataInv(S)'
  BY <1>1, pipereadData DEF DataInv
<1>4. \/ Calm(proc, proc') /\ pipe' = pipe
      \/ Dozes(proc, proc', p, <<"nread", k>>) /\ pipe' = pipe
      \/ /\ Calm(proc, proc') /\ NoSleeper(proc', <<"nwrite", k>>)
         /\ \E d : pipe' = [pipe EXCEPT ![k].data = d]
  BY pipereadProc
<1> HIDE DEF k
<1>5. NoMoreWriters
  <2>1. \A l : <<"nread", k>> # <<"nwrite", l>>
    OBVIOUS
  <2> QED BY <1>4, <2>1, CalmWriters, DozeWriters
<1>6. CASE pipe' = pipe
  BY <1>3, <1>5, <1>6, WritersStand
<1>7. ASSUME NEW d, pipe' = [pipe EXCEPT ![k].data = d], NoSleeper(proc', <<"nwrite", k>>)
      PROVE  WritersInv'
  <2>1. \E y : pipe' = [pipe EXCEPT ![k] = y]
    BY <1>1, <1>2, <1>7, DataPut
  <2> QED BY <1>1, <1>5, <1>7, <2>1, WritersKept
<1> QED BY <1>3, <1>4, <1>6, <1>7

LEMMA ClosePipeWriters ==
  ASSUME NEW S, FileInv, PipeInv, Procs(proc), DataInv(S), WritersInv, NEW p \in Proc, NEW d \in Fd,
         ClosePipe(p, d), ofile[p][d] # 0, file[ofile[p][d]].type = "PIPE"
  PROVE  DataInv(S)' /\ WritersInv'
<1> DEFINE g == ofile[p][d]
           k == file[g].ip
           w == file[g].writable
           pi == Closed(pipe[k], w)
           gone == ~pi.readopen /\ ~pi.writeopen
           y == IF gone THEN FreePipe ELSE pi
<1>1. g \in File /\ k \in 1 .. NPIPE /\ w \in BOOLEAN /\ Pipes(pipe) /\ IsPipe(pipe[k])
  BY DEF FileInv, FileShape, PipeInv, PipesOk, Pipes
<1>2. PosOk(proc) /\ DataOk(S, pipe)
  BY DEF DataInv
<1>3. Calm(proc, proc') /\ NoMoreWriters
  BY ClosePipeProc, CalmWriters
<1>4. PosOk(proc')
  <2> DEFINE ch == <<IF w THEN "nread" ELSE "nwrite", k>>
  <2>1. proc' = IF file[g].ref = 1 THEN Wake(proc, ch) ELSE proc
    BY DEF ClosePipe, pipeclose
  <2> HIDE DEF ch
  <2> QED BY <1>2, <2>1, PosWake
<1>5. CASE file[g].ref # 1
  <2>1. pipe' = pipe
    BY <1>5 DEF ClosePipe
  <2> QED BY <1>2, <1>3, <1>4, <2>1, WritersStand DEF DataInv
<1>6. CASE file[g].ref = 1
  <2>1. pipe' = [pipe EXCEPT ![k] = y]
    BY <1>6 DEF ClosePipe
  <2>2. NoSleeper(proc', <<IF w THEN "nread" ELSE "nwrite", k>>)
    BY <1>6, ClosePipeProc
  <2>3. /\ pi.readopen <=> pipe[k].readopen /\ w
        /\ pi.readopen \in BOOLEAN /\ pipe[k].readopen \in BOOLEAN
    <3> DEFINE x == pipe[k]
    <3>1. IsPipe(x)
      BY <1>1
    <3> HIDE DEF x, w
    <3>2. /\ Closed(x, w).readopen <=> x.readopen /\ w
          /\ Closed(x, w).readopen \in BOOLEAN /\ x.readopen \in BOOLEAN
      BY <1>1, <3>1, ClosedIs DEF IsPipe
    <3> QED BY <3>2 DEF x
  <2>4. pi.data = pipe[k].data
    <3> DEFINE a == pipe[k].writeopen /\ ~w
               b == pipe[k].readopen /\ w
               x == pipe[k]
    <3>1. pi = [x EXCEPT !.writeopen = a, !.readopen = b] /\ IsPipe(x)
      BY <1>1 DEF Closed
    <3> HIDE DEF a, b, x, pi
    <3>2. pi.data = x.data
      BY <3>1 DEF IsPipe, PipeFields
    <3> QED BY <3>2 DEF x
  <2>5. FreePipe.data = <<>>
    BY DEF FreePipe
  <2> HIDE DEF k, w, pi
  <2>6. DataInv(S)'
    <3>1. PipeData(S, pipe[k].data)
      BY <1>1, <1>2 DEF DataOk
    <3>2. PipeData(S, y.data)
      BY <2>4, <2>5, <3>1, EmptyFits
    <3> HIDE DEF y
    <3>3. DataOk(S, [pipe EXCEPT ![k] = y])
      BY <1>1, <1>2, <3>2, DataKept
    <3> QED BY <1>4, <2>1, <3>3 DEF DataInv
  <2>7. CASE ~w
    <3>1. NoSleeper(proc', <<"nwrite", k>>)
      BY <2>2, <2>7
    <3> HIDE DEF y
    <3> QED BY <1>1, <1>3, <2>1, <2>6, <3>1, WritersKept
  <2>8. CASE w
    <3>1. FullPipe(pipe[k]) => FullPipe(y)
      BY <2>3, <2>4, <2>8 DEF FullPipe
    <3> HIDE DEF y
    <3> QED BY <1>1, <1>3, <2>1, <2>6, <3>1, WritersKept
  <2> QED BY <1>1, <2>7, <2>8
<1> QED BY <1>5, <1>6

LEMMA sys_pipeWriters ==
  ASSUME NEW S, PipeInv, DataInv(S), WritersInv, NEW p \in Proc, sys_pipe(p)
  PROVE  DataInv(S)' /\ WritersInv'
<1>1. NoMoreWriters /\ proc' = proc /\ PosOk(proc) /\ DataOk(S, pipe)
  BY DEF sys_pipe, NoMoreWriters, DataInv
<1>2. CASE pipe' = pipe
  BY <1>1, <1>2, WritersStand DEF DataInv
<1>3. CASE Piped(p)
  <2>1. PICK k \in 1 .. NPIPE : ~pipe[k].on /\
          pipe' = [pipe EXCEPT ![k] = [on |-> TRUE, data |-> <<>>, readopen |-> TRUE,
                                       writeopen |-> TRUE]]
    BY <1>3 DEF Piped, PipedAs
  <2> DEFINE y == [on |-> TRUE, data |-> <<>>, readopen |-> TRUE, writeopen |-> TRUE]
  <2>2. Pipes(pipe) /\ ~FullPipe(pipe[k])
    BY <2>1 DEF PipeInv, PipesOk, Pipes, IsPipe, FullPipe
  <2>3. y.data = <<>> /\ pipe' = [pipe EXCEPT ![k] = y]
    BY <2>1
  <2> HIDE DEF y
  <2>4. PipeData(S, y.data)
    BY <2>3, EmptyFits
  <2>5. DataOk(S, [pipe EXCEPT ![k] = y])
    BY <1>1, <2>2, <2>4, DataKept
  <2>6. DataInv(S)'
    BY <1>1, <2>3, <2>5 DEF DataInv
  <2> QED BY <1>1, <2>2, <2>3, <2>6, WritersKept
<1> QED BY <1>2, <1>3, sys_pipeFiles


LEMMA PipeKeptWriters ==
  ASSUME NEW S, Procs(proc), DataInv(S), WritersInv, NEW p \in Proc, SysStep(p), ~pipewrite(p),
         pipe' = pipe, PosOk(proc')
  PROVE  DataInv(S)' /\ WritersInv'
<1>1. NoMoreWriters
  BY SysTurns, TurnsWriters
<1> QED BY <1>1, WritersStand DEF DataInv

LEMMA WritersStep ==
  ASSUME NEW S, Arguments(S), FileInv, PipeInv, Procs(proc), DataInv(S), WritersInv,
         NEW p \in Proc, SysStep(p)
  PROVE  DataInv(S)' /\ WritersInv'
<1>1. PosOk(proc)
  BY DEF DataInv
<1>2. CASE piperead(p)
  BY <1>2, pipereadWriters
<1>3. CASE pipewrite(p)
  BY <1>3, pipewriteWriters
<1>4. CASE sys_pipe(p)
  BY <1>4, sys_pipeWriters
<1>5. CASE close_pipe(p)
  <2> DEFINE d == Val(p, I(p).fd)
  <2>1. argfd(p) # 0 /\ file[argfd(p)].type = "PIPE" /\ ClosePipe(p, d)
    BY <1>5 DEF close_pipe, OnPipe
  <2>2. d \in Fd /\ argfd(p) = ofile[p][d]
    BY <2>1 DEF argfd
  <2> HIDE DEF d
  <2> QED BY <2>1, <2>2, ClosePipeWriters
<1>6. CASE ExitStep(p)
  <2> DEFINE open1 == {d \in Fd : ofile[p][d] # 0}
             d == Min(open1)
  <2>1. CASE p # InitProc /\ open1 # {} /\ file[ofile[p][d]].type = "PIPE"
    <3>1. d \in open1
      <4>1. open1 \subseteq Nat
        BY Tables
      <4> HIDE DEF open1
      <4> QED BY <2>1, <4>1, MinIn
    <3>2. d \in Fd /\ ofile[p][d] # 0
      BY <3>1
    <3>3. ClosePipe(p, d)
      BY <1>6, <2>1 DEF ExitStep
    <3> HIDE DEF d
    <3> QED BY <2>1, <3>2, <3>3, ClosePipeWriters
  <2>2. CASE ~(p # InitProc /\ open1 # {} /\ file[ofile[p][d]].type = "PIPE")
    <3>1. pipe' = pipe /\ proc' = proc
      BY <1>6, <2>2 DEF ExitStep, sysvars
    <3> HIDE DEF d, open1
    <3> QED BY <1>1, <1>3, <3>1, PipeKeptWriters
  <2> QED BY <2>1, <2>2
<1>7. CASE \/ kfork(p) \/ kexit(p) \/ kwait(p) \/ kkill(p) \/ sys_pause(p) \/ clockintr(p)
           \/ CallsKexit(p) \/ Return(p) \/ usertrap(p) \/ ExecStart(p) \/ ExecEnd(p)
  <2>1. PosOk(proc')
    BY <1>1, <1>7, PosOthers
  <2>2. pipe' = pipe
    <3>1. ASSUME kfork(p) \/ kexit(p) \/ kwait(p) \/ kkill(p) \/ sys_pause(p) \/ clockintr(p)
          PROVE  pipe' = pipe
      BY <3>1 DEF kfork, kexit, kwait, kkill, sys_pause, clockintr
    <3>2. ASSUME CallsKexit(p) \/ Return(p) \/ usertrap(p) \/ ExecStart(p) \/ ExecEnd(p)
          PROVE  pipe' = pipe
      BY <3>2 DEF CallsKexit, Return, usertrap, ExecStart, ExecEnd
    <3> QED BY <1>7, <3>1, <3>2
  <2> QED BY <1>3, <2>1, <2>2, PipeKeptWriters
<1>8. CASE \/ Program(p) \/ Sbrk1(p) \/ device(p) \/ Refused(p)
           \/ FsCall(p) \/ FsInside(p)
  <2>1. pipe' = pipe /\ proc' = proc
    BY <1>8 DEF Program, Sbrk1, device, Refused, FsCall, FsInside, sysvars
  <2> QED BY <1>1, <1>3, <2>1, PipeKeptWriters
<1> QED BY <1>2, <1>3, <1>4, <1>5, <1>6, <1>7, <1>8 DEF SysStep

LEMMA DataInit ==
  ASSUME NEW S, NEW init, NEW prog, SysInit(init, prog)
  PROVE  DataInv(S) /\ WritersInv
<1>1. WritersInv
  BY NoneAsleep DEF WritersInv, WriterAsleep
<1>2. DataOk(S, pipe)
  <2>1. \A k \in 1 .. NPIPE : pipe[k] = FreePipe
    BY DEF SysInit
  <2>2. FreePipe.data = <<>>
    BY DEF FreePipe
  <2> QED BY <2>1, <2>2, EmptyFits DEF DataOk
<1>3. PosOk(proc)
  <2> DEFINE s == "RUN"
             one == 1
             two == 2
             x == [FreeProc EXCEPT !.state = s, !.pid = one]
             y == [FreeProc EXCEPT !.state = s, !.pid = two, !.parent = one]
  <2>1. proc = [p \in Proc |-> CASE p = 1 -> x [] p = 2 -> y [] OTHER -> FreeProc]
    BY DEF SysInit
  <2>2. FreeProc.pos \in Positions /\ IsProc(FreeProc)
    BY FreeIs DEF FreeProc, Positions
  <2> HIDE DEF s, one, two
  <2>3. x.pos = FreeProc.pos /\ y.pos = FreeProc.pos
    BY <2>2 DEF IsProc, ProcFields
  <2> HIDE DEF x, y
  <2>4. \A p \in Proc : proc[p] \in {x, y, FreeProc}
    BY <2>1
  <2> QED BY <2>2, <2>3, <2>4 DEF PosOk
<1> QED BY <1>1, <1>2, <1>3 DEF DataInv

LEMMA WritersShow == ParentsInv /\ WritersInv => WritersWake
<1> SUFFICES ASSUME ParentsInv, WritersInv, NEW p \in Proc, Asleep(p, "nwrite")
             PROVE  Len(pipe[proc[p].chan[2]].data) = PIPESIZE /\ pipe[proc[p].chan[2]].readopen
  BY DEF WritersWake
<1>1. proc[p].state = "SLEEPING" /\ proc[p].chan[1] = "nwrite"
  BY DEF Asleep
<1>2. PICK a, b : proc[p].chan = <<a, b>>
  BY <1>1 DEF ParentsInv, ParentsOk
<1>3. proc[p].chan = <<"nwrite", b>> /\ proc[p].chan[2] = b
  BY <1>1, <1>2
<1> QED BY <1>1, <1>3 DEF WritersInv, WriterAsleep, FullPipe

\* pipewrite does not sleep through a piperead or the last close of the reading end,
\* as long as programs call read with a number and write with a sequence.
THEOREM WritersWakeHolds ==
  ASSUME NEW init, NEW prog, NEW S
  PROVE  SysSpec(init, prog) /\ []Arguments(S) => []WritersWake
<1>1. SysInit(init, prog) => SysFsInv /\ PipeInv /\ ParentsInv /\ DataInv(S) /\ WritersInv
  BY SysFsInit, PipeInit, NoneAsleep, DataInit DEF ParentsInv, ParentsOk
<1>2. /\ SysFsInv /\ SysFsInv' /\ Arguments(S) /\ PipeInv /\ ParentsInv /\ DataInv(S) /\ WritersInv
      /\ [SysNext]_<<fsvars, sysvars>>
      => PipeInv' /\ ParentsInv' /\ DataInv(S)' /\ WritersInv'
  <2>1. PipeInv /\ ParentsInv /\ DataInv(S) /\ WritersInv /\ UNCHANGED <<fsvars, sysvars>>
          => PipeInv' /\ ParentsInv' /\ DataInv(S)' /\ WritersInv'
    BY DEF PipeInv, ParentsInv, DataInv, WritersInv, fsvars, sysvars
  <2>2. ASSUME SysFsInv, Arguments(S), PipeInv, ParentsInv, DataInv(S), WritersInv, SysNext
        PROVE  PipeInv' /\ ParentsInv' /\ DataInv(S)' /\ WritersInv'
    <3>1. FileInv /\ Procs(proc) /\ TreeInv
      BY <2>2 DEF SysFsInv, FsIInv, TreeInv, TreeOk
    <3> QED BY <2>2, <3>1, NextProc, PipeStep, ParentsStep, WritersStep
  <2> QED BY <2>1, <2>2
<1> QED BY <1>1, <1>2, SysFsInvariant, WritersShow, PTL DEF SysSpec

\* No wakeup of pipe.c or of kexit is lost: nobody sleeps in piperead, pipewrite or
\* kwait for what has come already, for any programs and any number of processes.
THEOREM SleepersWakeHolds ==
  ASSUME NEW init, NEW prog, NEW S
  PROVE  SysSpec(init, prog) /\ []Arguments(S) => []SleepersWake
<1>1. ReadersWake /\ WritersWake /\ ParentsWake => SleepersWake
  BY DEF SleepersWake
<1>2. SysSpec(init, prog) => []ReadersWake
  BY ReadersWakeHolds
<1>3. SysSpec(init, prog) => []ParentsWake
  BY ParentsWakeHolds
<1>4. SysSpec(init, prog) /\ []Arguments(S) => []WritersWake
  BY WritersWakeHolds
<1> QED BY <1>1, <1>2, <1>3, <1>4, PTL
=============================================================================
