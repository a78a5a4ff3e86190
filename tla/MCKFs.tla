------------------------------- MODULE MCKFs -------------------------------
(***************************************************************************)
(* Processes that make any of a set of calls, a few together, after        *)
(* process 1 has made what the others find on the disk.                    *)
(***************************************************************************)
EXTENDS KFs

VARIABLES use,        \* one of Uses, for good
          todo,       \* what process 1 has still to make
          calls

vars == <<fsvars, use, todo, calls>>

A    == <<"a">>
D    == <<"d">>
DA   == <<"d", "a">>
DB   == <<"d", "b">>
DE   == <<"d", "e">>
Up   == <<"..">>
DEB  == <<"d", "e", "b">>

NoLongNames == <<>>
NoFiles == <<>>

\* Which calls, how many in all, whether the machine may crash, and the files and
\* directories to make first.  Files run out of inodes and blocks, in a disk that
\* is nearly full and in one that is not.
Uses ==
  [menu : {"files"}, calls : {3}, crash : {TRUE}, first : {<<D>>, <<D, DE, DEB>>}]
    \cup [menu : {"names"}, calls : {3}, crash : {FALSE}, first : {<<A, D, DB>>, <<A, D, DE>>}]
    \cup [menu : {"cwd"}, calls : {4}, crash : {FALSE}, first : {<<D, DE>>}]

MCInit ==
  /\ FsInit(Proc) /\ use \in Uses
  /\ todo = use.first /\ calls = 0

Make(p, path) == IF path \in {A, DB, DEB} THEN sys_open(p, path, {"CREATE"}) ELSE sys_mkdir(p, path)

\* Process 1 makes the next thing and closes what it has opened.
SetUp ==
  /\ \A p \in Proc : Pc(p) = "idle"
  /\ IF ofile[1][0] # 0 THEN sys_close(1, 0) /\ UNCHANGED todo
     ELSE todo # <<>> /\ Make(1, Head(todo)) /\ todo' = Tail(todo)
  /\ calls = 0 /\ crashes = 0 /\ UNCHANGED <<use, calls>>

\* Files come and go, are written, and are open when they are unlinked.
FilesCall(p) ==
  \/ \E m \in {{"CREATE", "RDWR"}, {"RDWR", "TRUNC"}} : sys_open(p, A, m)
  \/ \E x \in {A, D, DA} : sys_unlink(p, x)
  \/ sys_open(p, DA, {"CREATE", "WRONLY"}) \/ sys_link(p, A, DA) \/ sys_mkdir(p, D)
  \/ \E fd \in Fd : \/ sys_close(p, fd)
                    \/ sys_write(p, fd, << <<"x", 0>>, <<"y", 0>>, <<"z", 0>> >>)

\* Names are made and removed in directories that others look through, enter and
\* remove, upwards too.
NamesCall(p) ==
  \/ \E x \in {A, D, DB, DE, Up \o D} : sys_unlink(p, x)
  \/ sys_link(p, A, DA) \/ sys_link(p, DB, Up \o DA)
  \/ sys_chdir(p, DE)
  \/ sys_open(p, Up, {}) \/ sys_mkdir(p, DE)

\* A process goes up from a directory that is removed under it.
CwdCall(p) ==
  \/ \E x \in {D, DE} : sys_chdir(p, x) \/ sys_unlink(p, <<"/">> \o x)
  \/ sys_open(p, Up, {})

\* After a crash only recovery is of interest.
Call(p) ==
  /\ todo = <<>> /\ crashes = 0 /\ calls < use.calls /\ calls' = calls + 1
  /\ CASE use.menu = "files" -> FilesCall(p)
       [] use.menu = "names" -> NamesCall(p)
       [] OTHER -> CwdCall(p)
  /\ UNCHANGED <<use, todo>>

Step(p) == (ireclaim(p) \/ FsStep(p)) /\ UNCHANGED <<use, todo, calls>>
\* The second crash comes during recovery.
Fault == /\ (use.crash /\ Crash /\ (crashes > 0 => ~booted)) \/ forkret
         /\ UNCHANGED <<use, todo, calls>>

Next == SetUp \/ Fault \/ \E p \in Proc : Call(p) \/ Step(p)

Spec == MCInit /\ [][Next]_vars
=============================================================================
