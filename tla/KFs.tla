-------------------------------- MODULE KFs --------------------------------
(***************************************************************************)
(* The inode table, the open file table and the file system calls of xv6:  *)
(* kernel/fs.c (inodes, names), kernel/file.c and kernel/sysfile.c.  One   *)
(* step is the code of a process between two lock operations: the code     *)
(* that runs while an inode's sleeplock is held is one step, and so are    *)
(* the parts of iput.  Transactions are kernel/log.c as KLog shows it: the *)
(* image on disk changes only when the last outstanding operation ends.    *)
(***************************************************************************)
EXTENDS FsOps

CONSTANTS Proc,       \* processes
          NFILE, NOFILE,
          NINODE,     \* entries of the inode table
          MaxOps,     \* LOGBLOCKS \div MAXOPBLOCKS, operations in the log
          MaxWrite,   \* units a transaction of filewrite may write
          MkFiles,    \* the files on the disk at boot
          Long,       \* Long[n]: what skipelem makes of a name over DIRSIZ
          Crashes     \* bound on crashes

ASSUME FsConstants ==
  /\ IsFiniteSet(Proc) /\ Proc \subseteq Nat \ {0}
  /\ NFILE \in Nat /\ NOFILE \in Nat

None == 0             \* processes are numbered from 1

VARIABLES fs,         \* the image as the buffer cache shows it
          disk,       \* the image that a crash leaves, if there are crashes
          itable,     \* itable[i]: the table entry of inode i, free if ref = 0
          file,       \* the open file table
          ofile, cwd, \* of each process
          outst,      \* log.outstanding
          call,       \* the file system call each process is in
          boot,       \* the inode ireclaim looks at next; NInodes + 1: none
          crashes,
          panic       \* what the kernel stopped with, "" as long as it runs

fsvars == <<fs, disk, itable, file, ofile, cwd, outst, call, boot, crashes, panic>>

booted == boot = NInodes + 2

\* Entries of the inode table in use: one more than it has, and iget has found
\* no empty one.
InUse == Cardinality({i \in Inum : itable[i].ref > 0})
panicked == panic # "" \/ (NInodes > NINODE /\ InUse > NINODE)

FreeEntry == [ref |-> 0, valid |-> FALSE, holder |-> None]
FreeFile  == [ref |-> 0, type |-> "NONE", readable |-> FALSE,
              writable |-> FALSE, ip |-> 0, off |-> 0]
Idle == [pc |-> "idle", op |-> "", path |-> <<>>, new |-> <<>>, mode |-> {},
         type |-> "FILE", par |-> FALSE, k |-> "", ip |-> 0, dp |-> 0, lp |-> 0,
         nm |-> "", puts |-> <<>>, next |-> "", f |-> 0, units |-> <<>>,
         n |-> 0, r |-> 0]

File == 1 .. NFILE
Fd   == 0 .. NOFILE - 1

\* After fsinit, each live process is in the root directory.
FsInit(live) ==
  /\ fs = Mkfs(MkFiles) /\ disk = fs
  /\ itable = [i \in Inum |-> IF i # ROOTINO THEN FreeEntry
               ELSE [ref |-> Cardinality(live), valid |-> TRUE, holder |-> None]]
  /\ file = [f \in File |-> FreeFile]
  /\ ofile = [p \in Proc |-> [d \in Fd |-> 0]]
  /\ cwd = [p \in Proc |-> IF p \in live THEN ROOTINO ELSE 0]
  /\ outst = 0 /\ call = [p \in Proc |-> Idle]
  /\ boot = NInodes + 2 /\ crashes = 0 /\ panic = ""
-----------------------------------------------------------------------------
(* The state of a call *)

Pc(p) == call[p].pc
Go(p, c) == call' = [call EXCEPT ![p] = c]
\* Before the processes start only the call of ireclaim runs.
At(p, l) == /\ Pc(p) = l /\ (IF l = "idle" THEN booted ELSE TRUE)
            /\ ~panicked

\* panic(msg): everything stops.
Panics(msg) ==
  /\ ~panicked /\ panic' = msg
  /\ UNCHANGED <<fs, disk, itable, file, ofile, cwd, outst, call, boot, crashes>>

\* iput of each of the inodes in turn, then label l.
Then(c, puts, l) == IF puts = <<>> THEN [c EXCEPT !.pc = l]
                    ELSE [c EXCEPT !.pc = "iput", !.puts = puts, !.next = l]

Fails(c) == [c EXCEPT !.r = -1]

Ref(t, i, n) == [t EXCEPT ![i].ref = @ + n]

-----------------------------------------------------------------------------
(* kernel/log.c as seen from here *)

\* namex starts at the root or at the current directory.
StartAt(p, path) == IF path # <<>> /\ path[1] = "/" THEN ROOTINO ELSE cwd[p]
Elements(path) == IF path # <<>> /\ path[1] = "/" THEN Tail(path) ELSE path

\* namex(path, par): sets ip (and nm), continues at k with ip = 0 on failure.
Namex(p, c, path, par, k) ==
  LET i == StartAt(p, path)
      d == [c EXCEPT !.path = Elements(path), !.par = par, !.k = k, !.ip = i]
  IN /\ itable' = Ref(itable, i, 1)
     /\ Go(p, CASE Elements(path) # <<>> -> [d EXCEPT !.pc = "namex"]
                [] Elements(path) = <<>> /\ ~par -> [d EXCEPT !.pc = k]
                [] OTHER -> Then([d EXCEPT !.ip = 0], <<i>>, k))

\* Room in the log for one more operation.  log.c adds the blocks that the running
\* ones have logged already, so it lets in at most what is let in here, and may keep
\* a call waiting longer (see Blocked).  Which label follows begin_op, by system
\* call; iget and idup of namex's start are part of the step.
begin_op(p) ==
  LET c == call[p]
  IN /\ At(p, "begin")
     /\ outst < MaxOps
     /\ outst' = outst + 1
     /\ CASE c.op \in {"link", "open", "chdir", "exec"} /\ "CREATE" \notin c.mode ->
               Namex(p, c, c.path, FALSE, c.op)
          [] c.op = "unlink" -> Namex(p, c, c.path, TRUE, "unlink")
          [] c.op \in {"mkdir", "mknod"} \/ "CREATE" \in c.mode ->
               Namex(p, c, c.path, TRUE, "create")
          [] c.op \in {"write", "reclaim"} ->
               itable' = itable /\ Go(p, [c EXCEPT !.pc = c.op])
          [] OTHER -> itable' = itable /\ Go(p, Then(c, <<c.ip>>, "end"))
     /\ UNCHANGED <<fs, disk, file, ofile, cwd, boot, crashes, panic>>

\* Mutant: a commit that does not wait for the other operations.
CommitAtOnce(n) == TRUE

\* The last outstanding operation commits.
Commits(n) == n = 0

\* end_op, and what the system calls do after it.
end_op(p) ==
  LET c == call[p]
      more == c.op = "write" /\ c.r # -1 /\ c.n < Len(c.units)
  IN /\ At(p, "end")
     /\ outst' = outst - 1
     /\ disk' = IF Crashes > 0 /\ Commits(outst - 1) THEN fs ELSE disk
     /\ cwd' = IF c.op = "chdir" /\ c.r = 0 THEN [cwd EXCEPT ![p] = c.ip]
               ELSE IF c.op = "exitcwd" THEN [cwd EXCEPT ![p] = 0] ELSE cwd
     /\ Go(p, [c EXCEPT !.pc = IF more THEN "begin" ELSE "idle"])
     /\ UNCHANGED <<fs, itable, file, ofile, boot, crashes, panic>>
-----------------------------------------------------------------------------
(* Inode locks and references *)

\* The inode whose sleeplock the next step of p takes; it is part of the step.
Wants(p) ==
  LET c == call[p]
  IN CASE c.pc \in {"namex", "link", "link2", "unlink", "unlink2", "create",
                    "create2", "open", "chdir", "exec", "reclaim"} -> c.ip
       [] c.pc = "linkbad" -> c.lp
       [] c.pc \in {"read", "write", "fstat"} -> file[c.f].ip
       [] OTHER -> 0

\* acquiresleep(&ip->lock), and the inode is read if it is not valid.
ilock(p) == /\ Wants(p) # 0
            /\ itable[Wants(p)].holder = None
            /\ fs.din[Wants(p)].type # "none"

\* ilock reads a free inode: panic("ilock: no type").
ilockNoType(p) ==
  /\ Wants(p) # 0
  /\ itable[Wants(p)].holder = None
  /\ fs.din[Wants(p)].type = "none"
  /\ Panics("ilock: no type")

\* ilock(i) held beyond the step, and a lock and unlock within it.
Held(t, i, p)  == [t EXCEPT ![i].valid = TRUE, ![i].holder = p]
Visit(t, i)    == [t EXCEPT ![i].valid = TRUE]
iunlock(t, i)  == [t EXCEPT ![i].holder = None]

\* Mutant: the link count is not looked at again when the last reference goes.
LastUseUnlinkedOnly(i) == itable[i].valid /\ fs.din[i].nlink = 0

\* ref == 1 && valid && nlink == 0: the inode is to be freed.
LastUse(i) == itable[i].ref = 1 /\ itable[i].valid /\ fs.din[i].nlink = 0

\* iput, up to the end of its first critical section of itable.lock.
iput(p) ==
  LET c == call[p]
      i == Head(c.puts)
      d == [c EXCEPT !.puts = Tail(@)]
  IN /\ At(p, "iput")
     /\ IF LastUse(i)
        THEN /\ itable[i].holder = None     \* acquiresleep
             /\ itable' = Held(itable, i, p)
             /\ Go(p, [c EXCEPT !.pc = "ifree"])
        ELSE /\ itable' = Ref(itable, i, -1)
             /\ Go(p, Then(d, d.puts, c.next))
     /\ UNCHANGED <<fs, disk, file, ofile, cwd, outst, boot, crashes, panic>>

\* itrunc finds one of i's blocks free already.
FreesFreeBlock(i) == ~(BlocksOf(fs, i) \subseteq fs.used)

\* The end of sys_open comes to itrunc.
Truncates(p) ==
  /\ "TRUNC" \in call[p].mode /\ fs.din[call[p].ip].type = "FILE"
  /\ \E f \in File : file[f].ref = 0
  /\ \E d \in Fd : ofile[p][d] = 0

bfreePanics(p) ==
  /\ \/ Pc(p) = "ifree" /\ FreesFreeBlock(Head(call[p].puts))
     \/ /\ Pc(p) = "opentail" \/ (Pc(p) \in {"create2", "open"} /\ ilock(p))
        /\ Truncates(p) /\ FreesFreeBlock(call[p].ip)
  /\ Panics("freeing free block")

\* itrunc, type = 0, iupdate, valid = 0, releasesleep.
ifree(p) ==
  LET i == Head(call[p].puts)
  IN /\ At(p, "ifree") /\ ~FreesFreeBlock(i)
     /\ fs' = [itrunc(fs, i) EXCEPT !.din[i].type = "none", !.strays = @ \ {i}]
     /\ itable' = iunlock([itable EXCEPT ![i].valid = FALSE], i)
     /\ Go(p, [call[p] EXCEPT !.pc = "idrop"])
     /\ UNCHANGED <<disk, file, ofile, cwd, outst, boot, crashes, panic>>

\* The second critical section of itable.lock: ref--.
idrop(p) ==
  LET c == call[p]
      d == [c EXCEPT !.puts = Tail(@)]
  IN /\ At(p, "idrop")
     /\ itable' = Ref(itable, Head(c.puts), -1)
     /\ Go(p, Then(d, d.puts, c.next))
     /\ UNCHANGED <<fs, disk, file, ofile, cwd, outst, boot, crashes, panic>>

UNCH == UNCHANGED <<disk, cwd, outst, boot, crashes, panic>>
Same == UNCH /\ UNCHANGED <<file, ofile>>

Cut(n) == IF n \in DOMAIN Long THEN Long[n] ELSE n

\* Mutant: the next directory is entered before the reference is taken.
NextRefLate(t, i) == t
\* dirlookup's iget keeps the next inode in the table while ip is let go.
NextRef(t, i) == Ref(t, i, 1)

\* One turn of namex's loop: skipelem, ilock, dirlookup, iunlock.
namex(p) ==
  LET c    == call[p]
      nm   == Cut(Head(c.path))
      rest == Tail(c.path)
      nx   == IF fs.din[c.ip].type # "DIR" THEN 0 ELSE dirlookup(fs, c.ip, nm)
      t    == Visit(itable, c.ip)
  IN /\ At(p, "namex") /\ ilock(p)
     /\ IF fs.din[c.ip].type = "DIR" /\ c.par /\ rest = <<>>
        THEN itable' = t /\ Go(p, [c EXCEPT !.pc = c.k, !.nm = nm])
        ELSE IF nx = 0
        THEN itable' = t /\ Go(p, Then([c EXCEPT !.ip = 0], <<c.ip>>, c.k))
        ELSE /\ itable' = NextRef(t, nx)
             /\ Go(p, Then([c EXCEPT !.ip = nx, !.path = rest], <<c.ip>>,
                           IF rest = <<>> THEN c.k ELSE "namex"))
     /\ UNCHANGED fs /\ Same

\* The path did not lead anywhere: the system call fails.
NotFound(p) ==
  LET c == call[p]
  IN /\ c.ip = 0 /\ c.pc \in {"link", "unlink", "create", "open", "chdir", "exec"}
     /\ ~panicked
     /\ Go(p, [Fails(c) EXCEPT !.pc = "end"])
     /\ UNCHANGED <<fs, itable>> /\ Same
-----------------------------------------------------------------------------
(* sys_link *)

\* Bookkeeping for the properties: i was entered in dp after dp's removal.
Noted(f, dp, i) ==
  IF fs.din[dp].nlink = 0 \/ dp \in fs.strays
  THEN [f EXCEPT !.strays = @ \cup {i, dp}] ELSE f

\* Mutant: sys_link still holds the inode when it looks up the new name.
UpdatedKeeping(t, i, p) == Held(t, i, p)
\* ilock, iupdate and iunlock of the inode that gets a link.
Updated(t, i, p) == Visit(t, i)

link(p) ==
  LET c == call[p]
  IN /\ At(p, "link") /\ ilock(p)
     /\ IF fs.din[c.ip].type = "DIR"
        THEN /\ fs' = fs /\ itable' = Visit(itable, c.ip)
             /\ Go(p, Then(Fails(c), <<c.ip>>, "end"))
        ELSE /\ fs' = [fs EXCEPT !.din[c.ip].nlink = @ + 1]
             /\ LET i == StartAt(p, c.new)
                    d == [c EXCEPT !.lp = c.ip, !.path = Elements(c.new),
                                   !.par = TRUE, !.k = "link2", !.ip = i]
                IN /\ itable' = Ref(Updated(itable, c.ip, p), i, 1)
                   /\ Go(p, IF Elements(c.new) # <<>> THEN [d EXCEPT !.pc = "namex"]
                            ELSE Then([d EXCEPT !.ip = 0], <<i>>, "link2"))
     /\ Same

link2(p) ==
  LET c == call[p]
      l == dirlink(fs, c.ip, c.nm, c.lp)
  IN /\ At(p, "link2")
     /\ IF c.ip = 0
        THEN /\ Go(p, [c EXCEPT !.pc = "linkbad"])
             /\ UNCHANGED <<fs, itable>>
        ELSE /\ ilock(p)
             /\ fs' = IF l.ok THEN Noted(l.f, c.ip, c.lp) ELSE l.f
             /\ itable' = Visit(itable, c.ip)
             /\ Go(p, IF l.ok THEN Then(c, <<c.ip, c.lp>>, "end")
                      ELSE Then(c, <<c.ip>>, "linkbad"))
     /\ Same

linkbad(p) ==
  LET c == call[p]
  IN /\ At(p, "linkbad") /\ ilock(p)
     /\ fs' = [fs EXCEPT !.din[c.lp].nlink = @ - 1]
     /\ itable' = Visit(itable, c.lp)
     /\ Go(p, Then(Fails(c), <<c.lp>>, "end"))
     /\ Same
-----------------------------------------------------------------------------
(* sys_unlink *)

unlink(p) ==
  LET c  == call[p]
      ip == dirlookup(fs, c.ip, c.nm)
      t  == Visit(itable, c.ip)
  IN /\ At(p, "unlink") /\ ilock(p)
     /\ IF c.nm \in {".", ".."} \/ ip = 0
        THEN itable' = t /\ Go(p, Then(Fails(c), <<c.ip>>, "end"))
        ELSE /\ itable' = Ref(Held(t, c.ip, p), ip, 1)
             /\ Go(p, [c EXCEPT !.pc = "unlink2", !.dp = c.ip, !.ip = ip])
     /\ UNCHANGED fs /\ Same

\* The name's entry is overwritten with zero.
ZeroEntry(f, dp, nm) == writei(f, dp, dirpos(f, dp, nm) - 1, <<ZeroUnit>>)

\* What unlink's second part leaves: the entry is zero, and a directory that
\* goes no longer counts in its parent.
Cleared(f, dp, ip, nm) ==
  LET g == ZeroEntry(f, dp, nm).f
  IN IF f.din[ip].type = "DIR" THEN [g EXCEPT !.din[dp].nlink = @ - 1] ELSE g

\* The two things that unlink trusts, tested in its second part.
unlinkPanics(p) ==
  LET c == call[p]
  IN /\ Pc(p) = "unlink2" /\ ilock(p)
     /\ \/ fs.din[c.ip].nlink < 1 /\ Panics("unlink: nlink < 1")
        \/ /\ fs.din[c.ip].nlink >= 1
           /\ fs.din[c.ip].type = "DIR" => isdirempty(fs, c.ip)
           /\ ZeroEntry(fs, c.dp, c.nm).n # 1
           /\ Panics("unlink: writei")

unlink2(p) ==
  LET c == call[p]
      t == Held(itable, c.ip, p)
  IN /\ At(p, "unlink2") /\ ilock(p) /\ fs.din[c.ip].nlink >= 1
     /\ IF fs.din[c.ip].type = "DIR" /\ ~isdirempty(fs, c.ip)
        THEN /\ fs' = fs /\ itable' = Visit(itable, c.ip)
             /\ Go(p, Then(Fails(c), <<c.ip>>, "putdp"))
        ELSE /\ ZeroEntry(fs, c.dp, c.nm).n = 1
             /\ fs' = Cleared(fs, c.dp, c.ip, c.nm)
             /\ itable' = iunlock(t, c.dp)
             /\ Go(p, Then(c, <<c.dp>>, "unlink3"))
     /\ Same

putdp(p) ==
  LET c == call[p]
  IN /\ At(p, "putdp")
     /\ itable' = iunlock(itable, c.dp)
     /\ Go(p, Then(c, <<c.dp>>, "end"))
     /\ UNCHANGED fs /\ Same

unlink3(p) ==
  LET c == call[p]
  IN /\ At(p, "unlink3")
     /\ fs' = [fs EXCEPT !.din[c.ip].nlink = @ - 1]
     /\ itable' = iunlock(itable, c.ip)
     /\ Go(p, Then(c, <<c.ip>>, "end"))
     /\ Same
-----------------------------------------------------------------------------
(* create, sys_open, sys_mkdir, sys_mknod *)

\* A further directory entry, if those before it could be written.
AlsoLinked(d, dp, nm, i) == IF d.ok THEN dirlink(d.f, dp, nm, i) ELSE d

\* With all entries written a new directory counts in its parent; otherwise
\* nlink is 0 again.
NewLinks(d, dp, i, type) ==
  IF ~d.ok THEN [d EXCEPT !.f.din[i].nlink = 0]
  ELSE IF type = "DIR" THEN [d EXCEPT !.f.din[dp].nlink = @ + 1] ELSE d

DotEntries(d, dp, i) == AlsoLinked(AlsoLinked(d, i, ".", i), i, "..", dp)

\* What create makes of a new inode i named nm in dp.
NewInode(f, dp, i, type, nm) ==
  LET new == [f |-> [ialloc(f, i, type) EXCEPT !.din[i].nlink = 1], ok |-> TRUE]
  IN NewLinks(AlsoLinked(IF type = "DIR" THEN DotEntries(new, dp, i) ELSE new, dp, nm, i),
              dp, i, type)

\* After create: open goes on with the inode locked, mkdir and mknod put it.
Created(c) == IF c.op = "open" THEN "opentail" ELSE "mktail"

\* The name is new: nw is what NewInode makes of inode i.
CreateNew(p, c, dp, i, nw) ==
  /\ fs' = IF nw.ok THEN Noted(nw.f, dp, i) ELSE nw.f
  /\ IF nw.ok
     THEN /\ itable' = Held(Visit(Ref(itable, i, 1), dp), i, p)
          /\ Go(p, Then([c EXCEPT !.dp = dp, !.ip = i], <<dp>>, Created(c)))
     ELSE /\ itable' = Held(Visit(Ref(itable, i, 1), i), dp, p)
          /\ Go(p, Then([Fails(c) EXCEPT !.dp = dp], <<i>>, "putdp"))

create(p) ==
  LET c  == call[p]
      dp == c.ip
      ip == dirlookup(fs, dp, c.nm)
      t  == Visit(itable, dp)
  IN /\ At(p, "create") /\ ilock(p)
     /\ IF ip # 0
        THEN /\ itable' = Ref(t, ip, 1)
             /\ Go(p, Then([c EXCEPT !.dp = dp, !.ip = ip], <<dp>>, "create2"))
             /\ UNCHANGED fs
        ELSE IF FreeInum(fs) = 0
        THEN /\ itable' = t /\ Go(p, Then(Fails(c), <<dp>>, "end"))
             /\ UNCHANGED fs
        ELSE CreateNew(p, c, dp, FreeInum(fs), NewInode(fs, dp, FreeInum(fs), c.type, c.nm))
     /\ Same

mktail(p) ==
  LET c == call[p]
  IN /\ At(p, "mktail")
     /\ itable' = iunlock(itable, c.ip)
     /\ Go(p, Then(c, <<c.ip>>, "end"))
     /\ UNCHANGED fs /\ Same

\* The end of sys_open, with ip locked (t is the inode table by then).
OpenTail(p, t) ==
  LET c   == call[p]
      ff  == {f \in File : file[f].ref = 0}
      fd  == {d \in Fd : ofile[p][d] = 0}
      typ == fs.din[c.ip].type
  IN /\ itable' = iunlock(Visit(t, c.ip), c.ip)
     /\ IF typ = "BADDEV" \/ ff = {} \/ fd = {}
        THEN /\ Go(p, Then(Fails(c), <<c.ip>>, "end"))
             /\ UNCHANGED <<fs, file, ofile>>
        ELSE /\ file' = [file EXCEPT ![Min(ff)] =
                   [ref |-> 1, type |-> IF typ = "DEV" THEN "DEVICE" ELSE "INODE",
                    readable |-> "WRONLY" \notin c.mode,
                    writable |-> c.mode \cap {"WRONLY", "RDWR"} # {},
                    ip |-> c.ip, off |-> 0]]
             /\ ofile' = [ofile EXCEPT ![p][Min(fd)] = Min(ff)]
             /\ Truncates(p) => ~FreesFreeBlock(c.ip)
             /\ fs' = IF Truncates(p) THEN itrunc(fs, c.ip) ELSE fs
             /\ Go(p, [c EXCEPT !.pc = "end", !.r = Min(fd)])
     /\ UNCH

opentail(p) == At(p, "opentail") /\ OpenTail(p, itable)

\* Gives up the inode ip that it looked at.
PutAndFail(p) == /\ itable' = Visit(itable, call[p].ip)
                 /\ Go(p, Then(Fails(call[p]), <<call[p].ip>>, "end"))
                 /\ UNCHANGED fs /\ Same

create2(p) ==
  /\ At(p, "create2") /\ ilock(p)
  /\ IF call[p].op = "open" /\ fs.din[call[p].ip].type # "DIR"
     THEN OpenTail(p, itable) ELSE PutAndFail(p)

open(p) ==
  /\ At(p, "open") /\ ilock(p)
  /\ IF fs.din[call[p].ip].type = "DIR" /\ call[p].mode # {}
     THEN PutAndFail(p) ELSE OpenTail(p, itable)

chdir(p) ==
  LET c == call[p]
  IN /\ At(p, "chdir") /\ ilock(p)
     /\ IF fs.din[c.ip].type # "DIR" THEN PutAndFail(p)
        ELSE /\ itable' = Visit(itable, c.ip)
             /\ Go(p, Then(c, <<cwd[p]>>, "end"))
             /\ UNCHANGED fs /\ Same

\* kexec reads the program from the inode; what it reads decides.
exec(p) ==
  LET c == call[p]
  IN /\ At(p, "exec") /\ ilock(p)
     /\ itable' = Visit(itable, c.ip)
     /\ Go(p, Then([c EXCEPT !.units = Content(fs, c.ip)], <<c.ip>>, "end"))
     /\ UNCHANGED fs /\ Same
-----------------------------------------------------------------------------
(* kernel/file.c: files that are inodes *)

read(p) ==
  LET c == call[p]
      i == file[c.f].ip
      u == readi(fs, i, file[c.f].off, c.n)
      bad == "badbuf" \in c.mode /\ u # <<>>
  IN /\ At(p, "read") /\ ilock(p)
     /\ itable' = Visit(itable, i)
     /\ file' = [file EXCEPT ![c.f].off = IF bad THEN @ ELSE @ + Len(u)]
     /\ Go(p, [c EXCEPT !.pc = "idle", !.r = IF bad THEN -1 ELSE Len(u), !.units = u])
     /\ UNCHANGED <<fs, ofile>> /\ UNCH

\* Mutant: the offset is set from a value read before the lock was taken.
NewOffsetLost(off, w) == w
NewOffset(off, w) == off + w

\* One turn of filewrite's loop; the transaction ends at "end".
write(p) ==
  LET c  == call[p]
      i  == file[c.f].ip
      n1 == Min({Len(c.units) - c.n, MaxWrite})
      w  == writei(fs, i, file[c.f].off, SubSeq(c.units, c.n + 1, c.n + n1))
      ok == w.n = n1
  IN /\ At(p, "write") /\ ilock(p)
     /\ fs' = w.f
     /\ itable' = Visit(itable, i)
     /\ file' = [file EXCEPT ![c.f].off = IF w.n > 0 THEN NewOffset(@, w.n) ELSE @]
     /\ Go(p, [c EXCEPT !.pc = "end", !.n = IF ok THEN @ + n1 ELSE @,
                        !.r = IF ok THEN c.n + n1 ELSE -1])
     /\ UNCHANGED ofile /\ UNCH

fstat(p) ==
  LET c == call[p]
      i == file[c.f].ip
      d == fs.din[i]
  IN /\ At(p, "fstat") /\ ilock(p)
     /\ itable' = Visit(itable, i)
     /\ Go(p, [c EXCEPT !.pc = "idle", !.r = IF "badbuf" \in c.mode THEN -1 ELSE 0,
                        !.units = << <<d.type, d.nlink>>, <<d.size, i>> >>])
     /\ UNCHANGED fs /\ Same
\* ireclaim's ilock and iunlock, which read the inode, so that iput frees it.
reclaim(p) ==
  LET c == call[p]
  IN /\ At(p, "reclaim") /\ ilock(p)
     /\ itable' = Visit(itable, c.ip)
     /\ Go(p, Then(c, <<c.ip>>, "end"))
     /\ UNCHANGED fs /\ Same
-----------------------------------------------------------------------------
(* The system calls *)

\* A system call begins; c says where.
Enter(p, c) == /\ At(p, "idle") /\ Go(p, c)
               /\ UNCHANGED <<fs, itable>> /\ Same

sys_open(p, path, mode) ==
  Enter(p, [Idle EXCEPT !.pc = "begin", !.op = "open", !.path = path, !.mode = mode])
sys_mkdir(p, path) ==
  Enter(p, [Idle EXCEPT !.pc = "begin", !.op = "mkdir", !.path = path, !.type = "DIR"])
sys_mknod(p, path, type) ==
  Enter(p, [Idle EXCEPT !.pc = "begin", !.op = "mknod", !.path = path, !.type = type])
sys_link(p, old, new) ==
  Enter(p, [Idle EXCEPT !.pc = "begin", !.op = "link", !.path = old, !.new = new])
sys_unlink(p, path) ==
  Enter(p, [Idle EXCEPT !.pc = "begin", !.op = "unlink", !.path = path])
sys_chdir(p, path) ==
  Enter(p, [Idle EXCEPT !.pc = "begin", !.op = "chdir", !.path = path])
sys_exec(p, path) ==
  Enter(p, [Idle EXCEPT !.pc = "begin", !.op = "exec", !.path = path])
\* argfd: the descriptor is open, on a file of one of these types.
OnFile(p, fd, types) == ofile[p][fd] # 0 /\ file[ofile[p][fd]].type \in types

\* mode is {"badbuf"} when copyout to the caller's buffer fails.
sys_read(p, fd, n, mode) ==
  /\ OnFile(p, fd, {"INODE"}) /\ file[ofile[p][fd]].readable
  /\ Enter(p, [Idle EXCEPT !.pc = "read", !.op = "read", !.f = ofile[p][fd], !.n = n,
                           !.mode = mode])
sys_write(p, fd, units) ==
  /\ OnFile(p, fd, {"INODE"}) /\ file[ofile[p][fd]].writable
  /\ Enter(p, [Idle EXCEPT !.pc = IF units = <<>> THEN "idle" ELSE "begin",
                           !.op = "write", !.f = ofile[p][fd], !.units = units])
sys_fstat(p, fd, mode) ==
  /\ OnFile(p, fd, {"INODE", "DEVICE"})
  /\ Enter(p, [Idle EXCEPT !.pc = "fstat", !.op = "fstat", !.f = ofile[p][fd], !.mode = mode])

\* filedup and the new descriptor; -1 if there is none.
sys_dup(p, fd) ==
  LET free == {d \in Fd : ofile[p][d] = 0}
  IN /\ At(p, "idle") /\ ofile[p][fd] # 0
     /\ IF free = {} THEN Go(p, [Fails(Idle) EXCEPT !.op = "dup"]) /\ UNCHANGED <<file, ofile>>
        ELSE /\ file' = [file EXCEPT ![ofile[p][fd]].ref = @ + 1]
             /\ ofile' = [ofile EXCEPT ![p][Min(free)] = ofile[p][fd]]
             /\ Go(p, [Idle EXCEPT !.op = "dup", !.r = Min(free)])
     /\ UNCHANGED <<fs, itable>> /\ UNCH

\* Mutant: the last reference is dropped without iput.
LastCloseSilent(f) == [Idle EXCEPT !.pc = "idle", !.op = "close"]
\* fileclose of the last reference to an inode or device: a transaction.
LastClose(f) == [Idle EXCEPT !.pc = "begin", !.op = "close", !.ip = file[f].ip]

\* sys_close, and each turn of kexit's loop, for files that are no pipes.
sys_close(p, fd) ==
  LET f == ofile[p][fd]
  IN /\ At(p, "idle") /\ f # 0 /\ file[f].type # "PIPE"
     /\ ofile' = [ofile EXCEPT ![p][fd] = 0]
     /\ file' = [file EXCEPT ![f] = IF file[f].ref > 1 THEN [file[f] EXCEPT !.ref = @ - 1]
                                  ELSE FreeFile]
     /\ Go(p, IF file[f].ref > 1 THEN [Idle EXCEPT !.op = "close"] ELSE LastClose(f))
     /\ UNCHANGED <<fs, itable>> /\ UNCH

\* The transaction of kexit that puts the current directory.
exit_cwd(p) ==
  /\ cwd[p] # 0
  /\ Enter(p, [Idle EXCEPT !.pc = "begin", !.op = "exitcwd", !.ip = cwd[p]])

\* The steps of a call once it has begun.
FsStep(p) ==
  \/ begin_op(p) \/ end_op(p)
  \/ ilockNoType(p) \/ bfreePanics(p) \/ unlinkPanics(p)
  \/ iput(p) \/ ifree(p) \/ idrop(p) \/ namex(p) \/ NotFound(p)
  \/ link(p) \/ link2(p) \/ linkbad(p)
  \/ unlink(p) \/ unlink2(p) \/ putdp(p) \/ unlink3(p)
  \/ create(p) \/ create2(p) \/ opentail(p) \/ mktail(p) \/ open(p)
  \/ chdir(p) \/ exec(p) \/ read(p) \/ write(p) \/ fstat(p) \/ reclaim(p)
-----------------------------------------------------------------------------
(* Crash and boot *)

\* Everything in memory is lost.
Crash ==
  /\ crashes < Crashes /\ ~panicked
  /\ crashes' = crashes + 1
  /\ fs' = disk /\ boot' = 1 /\ outst' = 0
  /\ itable' = [i \in Inum |-> FreeEntry]
  /\ file' = [f \in File |-> FreeFile]
  /\ ofile' = [p \in Proc |-> [d \in Fd |-> 0]]
  /\ cwd' = [p \in Proc |-> 0]
  /\ call' = [p \in Proc |-> Idle]
  /\ UNCHANGED <<disk, panic>>

\* Mutant: orphans are left as they are.
OrphanIgnored(f, i) == FALSE
\* An inode that is allocated but has no name and, after a boot, no user.
Orphan(f, i) == f.din[i].type # "none" /\ f.din[i].nlink = 0

\* The process that runs fsinit, before the others are there.
Booter == CHOOSE p \in Proc : TRUE

\* fsinit: the head of ireclaim's loop.  An orphan is a call of its own: begin_op,
\* reclaim, iput, end_op.
ireclaim(p) ==
  /\ boot \in Inum /\ p = Booter /\ ~panicked /\ Pc(p) = "idle"
  /\ boot' = boot + 1
  /\ IF Orphan(fs, boot)
     THEN /\ itable' = Ref(itable, boot, 1)
          /\ Go(p, [Idle EXCEPT !.pc = "begin", !.op = "reclaim", !.ip = boot])
     ELSE UNCHANGED <<itable, call>>
  /\ UNCHANGED <<fs, disk, file, ofile, cwd, outst, crashes, panic>>

\* ireclaim is through: the processes start, in the root directory.
forkret ==
  /\ boot = NInodes + 1 /\ ~panicked /\ \A p \in Proc : Pc(p) = "idle"
  /\ boot' = boot + 1
  /\ call' = [p \in Proc |-> Idle]
  /\ cwd' = [p \in Proc |-> ROOTINO]
  /\ itable' = [itable EXCEPT ![ROOTINO].ref = Cardinality(Proc)]
  /\ UNCHANGED <<fs, disk, file, ofile, outst, crashes, panic>>
-----------------------------------------------------------------------------
(* Any process may make any call until it has exited. *)

Path  == Seq(STRING)
OpenMode == SUBSET {"CREATE", "WRONLY", "RDWR", "TRUNC"}
CopyMode == SUBSET {"badbuf"}

AnyCall(p) ==
  /\ cwd[p] # 0
  /\ \/ \E x \in Path, m \in OpenMode : sys_open(p, x, m)
     \/ \E x \in Path : \/ sys_mkdir(p, x) \/ sys_unlink(p, x)
                       \/ sys_chdir(p, x) \/ sys_exec(p, x)
     \/ \E x \in Path, type \in {"DEV", "BADDEV"} : sys_mknod(p, x, type)
     \/ \E x, y \in Path : sys_link(p, x, y)
     \/ \E fd \in Fd, n \in Int, m \in CopyMode : sys_read(p, fd, n, m)
     \/ \E fd \in Fd, u \in Seq(STRING \X {0}) : sys_write(p, fd, u)
     \/ \E fd \in Fd : sys_write(p, fd, <<BadUnit>>)
     \/ \E fd \in Fd, m \in CopyMode : sys_fstat(p, fd, m)
     \/ \E fd \in Fd : sys_dup(p, fd) \/ sys_close(p, fd)
     \/ exit_cwd(p)

FsNext == Crash \/ forkret \/ \E p \in Proc : ireclaim(p) \/ AnyCall(p) \/ FsStep(p)

FsSpec == FsInit(Proc) /\ [][FsNext]_fsvars
-----------------------------------------------------------------------------
(* Properties *)

\* The names, other than "." and "..", in linked directories: [dir, pos, inum].
Names(f) ==
  LET dirs == {d \in Inum \ f.strays : f.din[d].type = "DIR" /\ f.din[d].nlink > 0}
  IN UNION {LET c == Content(f, d)
                K == {k \in DOMAIN c : c[k][2] # 0 /\ c[k][1] \notin {".", ".."}}
            IN {[dir |-> d, pos |-> k, inum |-> c[k][2]] : k \in K} : d \in dirs}

\* Every allocated inode has as many links as names (a directory one more for
\* each subdirectory), so that no name leads to a free inode and no file is
\* freed while it has a name.  Inodes entered in a directory that was already
\* removed are excepted: nothing in create or sys_link looks for that.
LinksMatchNames(f) ==
  LET N == Names(f)
      Of(i) == {n \in N : n.inum = i}
      Subdirs(i) == {n.inum : n \in {m \in N : m.dir = i /\ f.din[m.inum].type = "DIR"}}
  IN \A i \in Inum \ f.strays :
       IF f.din[i].type = "none" THEN Of(i) = {}
       ELSE f.din[i].nlink = Cardinality(Of(i)) + Cardinality(Subdirs(i))
                             + (IF i = ROOTINO THEN 1 ELSE 0)

\* A block marked in the bit map belongs to exactly one inode, and every block
\* of an inode is marked.
BlocksMatchBitmap(f) ==
  LET blocks == [i \in Inum |-> BlocksOf(f, i)]
  IN /\ \A i, j \in Inum : i < j => blocks[i] \cap blocks[j] = {}
     /\ f.used = UNION Range(blocks)

\* Whenever the machine stops, the image on disk has link counts that match the
\* names and a bit map that matches the inodes: what sys_link, sys_unlink,
\* create, filewrite and iput promise by making their changes in transactions.
CrashConsistent == LinksMatchNames(disk) /\ BlocksMatchBitmap(disk)

\* After fsinit no inode is left without a name (and without a user): those
\* that were unlinked while open at the crash have been freed by ireclaim.
OrphansReclaimed ==
  (crashes > 0 /\ booted /\ \A p \in Proc : call[p] = Idle) =>
    \A i \in Inum : (fs.din[i].type # "none" /\ fs.din[i].nlink = 0) => itable[i].ref > 0

\* When no call is in progress, an inode's reference count is the number of
\* open files and current directories that refer to it, and a file's that of
\* the descriptors: no reference is lost on any path through the calls.
RefsExact ==
  (booted /\ ~panicked /\ \A p \in Proc : Pc(p) = "idle") =>
    /\ \A i \in Inum :
         itable[i].ref = Cardinality({f \in File : file[f].type \in {"INODE", "DEVICE"} /\ file[f].ip = i})
                         + Cardinality({p \in Proc : cwd[p] = i})
    /\ \A f \in File :
         file[f].ref = Cardinality({x \in Proc \X Fd : ofile[x[1]][x[2]] = f})

\* fs.c:345: "ip->ref == 1 means no other process can have ip locked, so this
\* acquiresleep() won't block".
IputNeverBlocks ==
  \A p \in Proc : (Pc(p) = "iput" /\ LastUse(Head(call[p].puts))) =>
                   itable[Head(call[p].puts)].holder = None

\* No call panics: ilock never finds a free inode, the inode table never overflows
\* (iget), unlink and itrunc never find what they trust in wrong.
NoPanic == ~panicked

\* The inode named by ".." in a directory that has been removed.
RemovedParent(i) ==
  \E d \in Inum : /\ fs.din[d].type = "DIR" /\ fs.din[d].nlink = 0
                  /\ dirlookup(fs, d, "..") = i

\* Whatever calls are made on shared names, a process finds a free inode only if
\* it goes through ".." of a directory that was removed under it (its parent may be
\* gone); unlink never meets an entry without links or one it cannot clear, and
\* no block is freed twice.  (The table may still be too small for iget.)
PanicOnlyByDotDot ==
  panic # "" => /\ panic = "ilock: no type"
                /\ \E p \in Proc : Wants(p) # 0 /\ RemovedParent(Wants(p))

\* p waits for a place in the log or for the lock of an inode.  For the log the
\* worst is supposed: that it has no room as long as any operation runs.
Blocked(p) ==
  \/ Pc(p) = "begin" /\ outst > 0
  \/ Wants(p) # 0 /\ itable[Wants(p)].holder # None
  \/ Pc(p) = "iput" /\ LastUse(Head(call[p].puts)) /\ itable[Head(call[p].puts)].holder # None

\* Inode locks are taken in an order (a directory before what it contains, one
\* at a time in sys_link and create) in which calls never wait for each other in
\* a circle, nor for a log that is full of calls that wait: one can go on.
NoFsDeadlock ==
  ~panicked =>
    LET busy == {p \in Proc : Pc(p) # "idle"}
    IN busy # {} => \E p \in busy : ~Blocked(p)
=============================================================================
