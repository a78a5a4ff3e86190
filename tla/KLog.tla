-------------------------------- MODULE KLog --------------------------------
(***************************************************************************)
(* The buffer cache (kernel/bio.c) and the write-ahead log (kernel/log.c)  *)
(* under processes that run operations, readers and crashes.  A step is    *)
(* the code between two lock operations or disk writes; a disk write is    *)
(* one step, as virtio_disk_rw returns when it is done.                    *)
(***************************************************************************)
EXTENDS Integers, Sequences, FiniteSets, SequencesExt

CONSTANTS Data,        \* home blocks, positive numbers
          Process,
          LOGBLOCKS, MAXOPBLOCKS, NBUF,
          OpBlocks,    \* blocks an operation really writes, at most
          MaxOps,      \* bound on the operations begun
          MaxReads,    \* bound on the reads outside operations
          MaxCrashes   \* bound on the crashes

ASSUME LogSizes ==
  /\ Data \subseteq Nat \ {0}
  /\ LOGBLOCKS \in Nat \ {0} /\ MAXOPBLOCKS \in 1 .. LOGBLOCKS /\ NBUF \in Nat \ {0, 1}      \* recovery holds two at once
  /\ OpBlocks \in 0 .. MAXOPBLOCKS
  /\ MaxOps \in Nat /\ MaxReads \in Nat /\ MaxCrashes \in Nat

ASSUME Processes == IsFiniteSet(Process) /\ Process # {}

Head0 == 0                          \* the block of the log header
LogBlock(k) == -k                   \* the kth block of the log
NoBlock == LogBlock(LOGBLOCKS + 1)  \* of a buffer that has held none yet
Block == Data \cup {Head0} \cup {LogBlock(k) : k \in 1 .. LOGBLOCKS}
Value == 0 .. MaxOps
Nobody == "nobody"

VARIABLES disk,        \* the content of every block
          cache,       \* the buffers, most recently used first
          lh,          \* log.lh: the logged block numbers, in order
          outstanding, committing, tail,
          pc, blk,     \* of each process: where it is, and the block it uses
          op,          \* the operation a process is in, or 0
          left,        \* blocks its operation may still write
          nops, reads, crashes, panicked

logvars == <<lh, outstanding, committing, tail>>
procvars == <<pc, blk, op, left>>
bounds == <<nops, reads, crashes>>
vars == <<disk, cache, logvars, procvars, bounds, panicked>>

Empty == [blockno |-> NoBlock, valid |-> FALSE, refcnt |-> 0, data |-> 0, holder |-> Nobody]

Init ==
  /\ disk = [b \in Block |-> IF b = Head0 THEN <<>> ELSE 0]
  /\ cache = [k \in 1 .. NBUF |-> Empty]
  /\ lh = <<>> /\ outstanding = 0 /\ committing = FALSE /\ tail = 0
  /\ pc = [p \in Process |-> "idle"] /\ blk = [p \in Process |-> 0]
  /\ op = [p \in Process |-> 0] /\ left = [p \in Process |-> 0]
  /\ nops = 0 /\ reads = 0 /\ crashes = 0 /\ panicked = FALSE
-----------------------------------------------------------------------------
(* bio.c, on a cache c *)

Has(c, b) == \E k \in DOMAIN c : c[k].blockno = b
Pos(c, b) == CHOOSE k \in DOMAIN c : c[k].blockno = b
Buf(c, b) == c[Pos(c, b)]
Unused(c) == {k \in DOMAIN c : c[k].refcnt = 0}

\* The buffer that bget recycles: the least recently used of those unused.
Victim(c) == CHOOSE k \in Unused(c) : \A j \in Unused(c) : j <= k

NoBuffer(c, b) == ~Has(c, b) /\ Unused(c) = {}      \* panic("bget: no buffers")

bget(c, b) ==
  IF Has(c, b) THEN [c EXCEPT ![Pos(c, b)].refcnt = @ + 1]
  ELSE [c EXCEPT ![Victim(c)] = [blockno |-> b, valid |-> FALSE, refcnt |-> 1, data |-> 0,
                                 holder |-> Nobody]]

\* acquiresleep, and the read of bread.
Locked(c, b, p) ==
  LET u == Buf(c, b)
  IN [c EXCEPT ![Pos(c, b)] = [u EXCEPT !.holder = p, !.valid = TRUE,
                                        !.data = IF u.valid THEN @ ELSE disk[b]]]

\* Mutant: a buffer is recycled while it is pinned.
brelseUnpins(c, b) ==
  LET u == [Buf(c, b) EXCEPT !.holder = Nobody, !.refcnt = 0]
  IN <<u>> \o RemoveAt(c, Pos(c, b))

brelse(c, b) ==
  LET u == [Buf(c, b) EXCEPT !.holder = Nobody, !.refcnt = @ - 1]
  IN IF u.refcnt > 0 THEN [c EXCEPT ![Pos(c, b)] = u] ELSE <<u>> \o RemoveAt(c, Pos(c, b))

\* Mutant: installing a block leaves its buffer pinned.
bunpinNot(c, b) == c

bpin(c, b)   == [c EXCEPT ![Pos(c, b)].refcnt = @ + 1]
bunpin(c, b) == [c EXCEPT ![Pos(c, b)].refcnt = @ - 1]

\* bread of b by somebody who writes v into the buffer and lets it go.
Used(c, b, v) ==
  LET c1 == bget(c, b)
  IN brelse([c1 EXCEPT ![Pos(c1, b)].valid = TRUE, ![Pos(c1, b)].data = v], b)

Free(b) == Has(cache, b) => Buf(cache, b).holder = Nobody
Cached(c, b) == IF Has(c, b) /\ Buf(c, b).valid THEN Buf(c, b).data ELSE disk[b]
-----------------------------------------------------------------------------
At(p, l) == ~panicked /\ pc[p] = l
Goto(p, l) == pc' = [pc EXCEPT ![p] = l]

\* Mutant: those who wait in begin_op are not told.
WokenNot(c) == c
\* wakeup(&log)
Woken(c) == [p \in Process |-> IF c[p] = "asleep" THEN "begin" ELSE c[p]]

start_op(p) ==
  /\ At(p, "idle") /\ nops < MaxOps
  /\ nops' = nops + 1 /\ op' = [op EXCEPT ![p] = nops + 1]
  /\ Goto(p, "begin")
  /\ UNCHANGED <<disk, cache, logvars, blk, left, reads, crashes, panicked>>

\* Mutant: the space of the operation itself is not counted.
LogFullLate == Len(lh) + outstanding * MAXOPBLOCKS > LOGBLOCKS
LogFull == Len(lh) + (outstanding + 1) * MAXOPBLOCKS > LOGBLOCKS

begin_op(p) ==
  /\ At(p, "begin")
  /\ IF committing \/ LogFull
     THEN Goto(p, "asleep") /\ UNCHANGED <<outstanding, left>>
     ELSE /\ outstanding' = outstanding + 1
          /\ left' = [left EXCEPT ![p] = OpBlocks]
          /\ Goto(p, "op")
  /\ UNCHANGED <<disk, cache, lh, committing, tail, blk, op, bounds, panicked>>

\* bread, first part, inside an operation or outside; panic if all buffers are
\* in use.
Bread(p, b) ==
  /\ panicked' = NoBuffer(cache, b)
  /\ blk' = [blk EXCEPT ![p] = b]
  /\ IF NoBuffer(cache, b) THEN UNCHANGED <<cache, pc>>
     ELSE cache' = bget(cache, b) /\ Goto(p, "want")
  /\ UNCHANGED <<disk, logvars, op, nops, crashes>>

bread_op(p, b) ==
  /\ At(p, "op") /\ left[p] > 0
  /\ left' = [left EXCEPT ![p] = @ - 1]
  /\ Bread(p, b) /\ UNCHANGED reads

bread_outside(p, b) ==
  /\ At(p, "idle") /\ reads < MaxReads
  /\ reads' = reads + 1
  /\ Bread(p, b) /\ UNCHANGED left

acquiresleep(p) ==
  /\ At(p, "want") /\ Buf(cache, blk[p]).holder = Nobody
  /\ cache' = Locked(cache, blk[p], p)
  /\ Goto(p, "have")
  /\ UNCHANGED <<disk, logvars, blk, op, left, bounds, panicked>>

\* The caller changes b->data; log_write notes and pins the block.
log_write(p) ==
  LET b == blk[p]
      old == \E k \in DOMAIN lh : lh[k] = b
      c == [cache EXCEPT ![Pos(cache, b)].data = op[p]]
      bad == Len(lh) >= LOGBLOCKS \/ outstanding < 1
  IN /\ At(p, "have") /\ op[p] # 0
     /\ panicked' = bad
     /\ lh' = IF bad \/ old THEN lh ELSE Append(lh, b)
     /\ cache' = IF bad \/ old THEN c ELSE bpin(c, b)
     /\ Goto(p, "done")
     /\ UNCHANGED <<disk, outstanding, committing, tail, blk, op, left, bounds>>

release(p) ==
  /\ At(p, "done") \/ (At(p, "have") /\ op[p] = 0)
  /\ cache' = brelse(cache, blk[p])
  /\ Goto(p, IF op[p] = 0 THEN "idle" ELSE "op")
  /\ UNCHANGED <<disk, logvars, blk, op, left, bounds, panicked>>

end_op(p) ==
  /\ At(p, "op")
  /\ outstanding' = outstanding - 1
  /\ op' = [op EXCEPT ![p] = 0]
  /\ panicked' = committing
  /\ IF outstanding = 1
     THEN /\ committing' = TRUE /\ tail' = 0
          /\ Goto(p, IF lh = <<>> THEN "committed" ELSE "write_log")
     ELSE /\ pc' = Woken([pc EXCEPT ![p] = "idle"])
          /\ UNCHANGED <<committing, tail>>
  /\ UNCHANGED <<disk, cache, lh, blk, left, bounds>>
-----------------------------------------------------------------------------
(* commit, one disk write at a time *)

\* Two buffers are in use in each turn of write_log and install_trans.
Turn(from, to) == LET c1 == bget(cache, to) IN ~NoBuffer(cache, to) /\ ~NoBuffer(c1, from)

\* Copying block from to block to, on disk and in the cache.
Copy(p, from, to, next) ==
  LET v  == Cached(cache, from)
      c1 == bget(cache, to)
  IN /\ Free(from) /\ Free(to)
     /\ IF ~Turn(from, to) THEN panicked' = TRUE /\ UNCHANGED <<disk, cache, pc, tail>>
        ELSE /\ disk' = [disk EXCEPT ![to] = v]
             /\ cache' = brelse([Used(c1, from, v) EXCEPT
                                 ![Pos(Used(c1, from, v), to)].valid = TRUE,
                                 ![Pos(Used(c1, from, v), to)].data = v], to)
             /\ panicked' = FALSE
             /\ IF tail + 1 < Len(lh) THEN tail' = tail + 1 /\ UNCHANGED pc
                ELSE tail' = 0 /\ Goto(p, next)
     /\ UNCHANGED <<lh, outstanding, committing, blk, op, left, bounds>>

write_log(p) == At(p, "write_log") /\ Copy(p, lh[tail + 1], LogBlock(tail + 1), "write_head")

\* The header is written from memory: with the block numbers this is the
\* commit, with none it erases the transaction.
WriteHead(p, h, next) ==
  IF NoBuffer(cache, Head0) THEN panicked' = TRUE /\ UNCHANGED <<disk, cache, pc>>
  ELSE /\ disk' = [disk EXCEPT ![Head0] = h]
       /\ cache' = Used(cache, Head0, h)
       /\ panicked' = FALSE /\ Goto(p, next)

write_head(p) ==
  /\ At(p, "write_head")
  /\ WriteHead(p, lh, "install_trans")
  /\ UNCHANGED <<logvars, blk, op, left, bounds>>

install_trans(p) ==
  LET b == lh[tail + 1]
      v == Cached(cache, LogBlock(tail + 1))
      c == Used(cache, LogBlock(tail + 1), v)
  IN /\ At(p, "install_trans") /\ Free(b)
     /\ IF NoBuffer(cache, LogBlock(tail + 1))
        THEN panicked' = TRUE /\ UNCHANGED <<disk, cache, tail, pc>>
        ELSE /\ disk' = [disk EXCEPT ![b] = v]
             /\ cache' = bunpin(Used(c, b, v), b)
             /\ panicked' = FALSE
             /\ IF tail + 1 < Len(lh) THEN tail' = tail + 1 /\ UNCHANGED pc
                ELSE tail' = 0 /\ Goto(p, "erase")
     /\ UNCHANGED <<lh, outstanding, committing, blk, op, left, bounds>>

erase(p) ==
  /\ At(p, "erase")
  /\ lh' = <<>> /\ WriteHead(p, <<>>, "committed")
  /\ UNCHANGED <<outstanding, committing, tail, blk, op, left, bounds>>

\* The end of end_op after a commit.
committed(p) ==
  /\ At(p, "committed")
  /\ committing' = FALSE
  /\ pc' = Woken([pc EXCEPT ![p] = "idle"])
  /\ UNCHANGED <<disk, cache, lh, outstanding, tail, blk, op, left, bounds, panicked>>
-----------------------------------------------------------------------------
(* Crash, and initlog at the next boot *)

crash ==
  /\ crashes < MaxCrashes /\ ~panicked
  /\ crashes' = crashes + 1
  /\ cache' = [k \in 1 .. NBUF |-> Empty]
  /\ lh' = <<>> /\ outstanding' = 0 /\ committing' = FALSE /\ tail' = 0
  /\ pc' = [p \in Process |-> "down"] /\ blk' = [p \in Process |-> 0]
  /\ op' = [p \in Process |-> 0] /\ left' = [p \in Process |-> 0]
  /\ UNCHANGED <<disk, nops, reads, panicked>>

\* recover_from_log: read_head, then one turn of install_trans(1) at a time,
\* then the log is cleared.
Down == ~panicked /\ \A p \in Process : pc[p] = "down"

read_head ==
  /\ Down /\ lh = <<>> /\ disk[Head0] # <<>>
  /\ lh' = disk[Head0] /\ cache' = Used(cache, Head0, disk[Head0])
  /\ UNCHANGED <<disk, outstanding, committing, tail, procvars, bounds, panicked>>

install_recovering ==
  LET k == tail + 1
      c == Used(cache, LogBlock(k), disk[LogBlock(k)])
  IN /\ Down /\ k <= Len(lh)
     /\ disk' = [disk EXCEPT ![lh[k]] = disk[LogBlock(k)]]
     /\ cache' = Used(c, lh[k], disk[LogBlock(k)])
     /\ tail' = k
     /\ UNCHANGED <<lh, outstanding, committing, procvars, bounds, panicked>>

recovered ==
  /\ Down
  /\ IF disk[Head0] = <<>> THEN lh = <<>> ELSE lh # <<>> /\ tail = Len(lh)
  /\ disk' = [disk EXCEPT ![Head0] = <<>>]
  /\ cache' = Used(cache, Head0, <<>>)
  /\ lh' = <<>> /\ tail' = 0
  /\ pc' = [p \in Process |-> "idle"]
  /\ UNCHANGED <<outstanding, committing, blk, op, left, bounds, panicked>>

Operation(p) ==
  \/ start_op(p) \/ begin_op(p) \/ acquiresleep(p) \/ log_write(p) \/ release(p) \/ end_op(p)
  \/ \E b \in Data : bread_op(p, b) \/ bread_outside(p, b)
  \/ write_log(p) \/ write_head(p) \/ install_trans(p) \/ erase(p) \/ committed(p)

Recovery == read_head \/ install_recovering \/ recovered

Next == crash \/ Recovery \/ \E p \in Process : Operation(p)

Spec == Init /\ [][Next]_vars
-----------------------------------------------------------------------------
(* Properties *)

\* The image that recovery would make of the disk.
Durable ==
  [b \in Data |->
     LET L == {k \in DOMAIN disk[Head0] : disk[Head0][k] = b}
     IN IF L = {} THEN disk[b] ELSE disk[LogBlock(CHOOSE k \in L : TRUE)]]

Active == {p \in Process : op[p] # 0 /\ pc[p] \notin {"begin", "asleep"}}

A == INSTANCE AtomicLog WITH
       view <- IF Down THEN Durable ELSE [b \in Data |-> Cached(cache, b)],
       durable <- Durable, active <- Active

\* The log makes groups of operations atomic: whenever the machine stops, also
\* in a commit or in a recovery, the disk recovers to exactly what the
\* operations had done when the last commit's header was written; running
\* operations never see anything but their own and each other's writes.
ImplementsAtomicLog == A!Spec

\* bio.c:88 panics with "bget: no buffers", as if bread always found a buffer;
\* log.c panics likewise when the log is full or log_write comes too late.
NoLogPanic == ~panicked

\* Where a process is between bget and brelse.
UsePc == {"want", "have", "done"}

\* Every buffer in use is accounted for: bget finds none only when the logged
\* blocks and the processes that hold a buffer are as many as the buffers are.
\* So bget, bpin, bunpin and brelse, over any operations, commits and crashes,
\* leave no buffer behind that nobody uses.
PanicOnlyWhenFull ==
  panicked => NBUF <= Len(lh) + Cardinality({p \in Process : pc[p] \in UsePc})

\* A process sleeps in begin_op only while somebody is in an operation or in a
\* commit, and will wake it at the end: none is left asleep with the log idle.
SleepersAwaited ==
  \A p \in Process : pc[p] = "asleep" => (committing \/ Active # {})
-----------------------------------------------------------------------------
(* The inductive invariant: who is where, what is reserved, which buffer is *)
(* referenced by whom, and which copies of a block agree.                   *)

OpPc == {"op", "want", "have", "done"}
CommitPc == {"write_log", "write_head", "install_trans", "erase", "committed"}

IsHeader(h) ==
  /\ h \in Seq(Data) /\ Len(h) <= LOGBLOCKS
  /\ \A j, k \in 1 .. Len(h) : h[j] = h[k] => j = k

Types ==
  /\ pc \in [Process -> {"idle", "begin", "asleep", "down"} \cup OpPc \cup CommitPc]
  /\ blk \in [Process -> Data \cup {0}] /\ op \in [Process -> Value]
  /\ left \in [Process -> 0 .. OpBlocks]
  /\ nops \in 0 .. MaxOps /\ outstanding \in Nat /\ tail \in Nat
  /\ committing \in BOOLEAN /\ panicked \in BOOLEAN

IsDown == \E p \in Process : pc[p] = "down"
Committing(l) == \E p \in Process : pc[p] = l

Places ==
  /\ \A p \in Process : /\ pc[p] \in {"begin", "asleep", "op", "done"} => op[p] # 0
                        /\ pc[p] \in CommitPc \cup {"idle", "down"} => op[p] = 0
                        /\ pc[p] \in UsePc => blk[p] \in Data
                        /\ pc[p] \in {"want", "have"} /\ op[p] # 0 => left[p] < OpBlocks
  /\ IsDown => ~panicked /\ \A p \in Process : pc[p] = "down"

\* committing is set while one process commits, and then no operation runs.
OneCommitter ==
  /\ outstanding = Cardinality(Active)
  /\ committing <=> \E p \in Process : pc[p] \in CommitPc
  /\ committing => outstanding = 0
  /\ \A p, q \in Process : pc[p] \in CommitPc /\ pc[q] \in CommitPc => p = q

\* Who sleeps will be woken: by the end of an operation or of the commit.
Awaited ==
  \A p \in Process : pc[p] = "asleep" => committing \/ outstanding > 0

LogShape ==
  /\ ~IsDown => IsHeader(lh)
  /\ ~IsDown /\ ~committing /\ outstanding = 0 => lh = <<>>
  /\ Committing("committed") => lh = <<>>
  /\ Committing("write_log") \/ Committing("write_head") \/ Committing("install_trans")
       => tail < Len(lh)
  /\ Committing("write_head") => tail = 0

\* The blocks that p may still add to the log; one ticket for each.
ToWrite(p) ==
  IF p \in Active THEN left[p] + (IF pc[p] \in {"want", "have"} THEN 1 ELSE 0) ELSE 0
Tickets == {t \in Process \X (1 .. MAXOPBLOCKS) : t[2] <= ToWrite(t[1])}

\* The log has room for all that the running operations may still write.
Reserved == ~IsDown => Len(lh) + Cardinality(Tickets) <= LOGBLOCKS

ControlInv == Types /\ Places /\ OneCommitter /\ Awaited /\ LogShape /\ Reserved

IsBuffer(u) ==
  /\ u = [blockno |-> u.blockno, valid |-> u.valid, refcnt |-> u.refcnt, data |-> u.data,
          holder |-> u.holder]
  /\ u.blockno \in Block \cup {NoBlock} /\ u.valid \in BOOLEAN /\ u.refcnt \in Nat

\* No block has two buffers.
CacheOK(c) ==
  /\ c = [k \in 1 .. NBUF |-> c[k]]
  /\ \A k \in 1 .. NBUF : IsBuffer(c[k]) /\ (c[k].blockno = NoBlock => c[k].refcnt = 0)
  /\ \A j, k \in 1 .. NBUF : c[j].blockno = c[k].blockno /\ j # k => c[j].blockno = NoBlock

DiskOK ==
  /\ disk = [b \in Block |-> disk[b]] /\ IsHeader(disk[Head0])
  /\ IsDown => \/ lh = <<>> /\ tail = 0
               \/ lh = disk[Head0] /\ tail <= Len(lh)

Ref(c, b) == IF Has(c, b) THEN Buf(c, b).refcnt ELSE 0
Users(b) == {p \in Process : pc[p] \in UsePc /\ blk[p] = b}

\* The logged blocks whose buffers log_write has pinned and install_trans has
\* not unpinned yet.
Unpinned(k) == \/ Committing("install_trans") /\ k <= tail
               \/ Committing("erase") \/ IsDown
Pinned == {b \in Data : \E k \in 1 .. Len(lh) : lh[k] = b /\ ~Unpinned(k)}

RefCounts ==
  \A b \in Block : Ref(cache, b) = Cardinality(Users(b)) + (IF b \in Pinned THEN 1 ELSE 0)

BufferInv == CacheOK(cache) /\ DiskOK /\ (~panicked => RefCounts)

\* The kernel panics only when every buffer is in use: the log's own panics
\* ("too big a transaction", "log_write outside of trans", "log.committing")
\* are unreachable.
OnlyBgetPanics == panicked => Unused(cache) = {}

\* Only pinned buffers differ from the disk.
Clean == \A b \in Block : b \notin Pinned => Cached(cache, b) = disk[b]

\* The first n blocks of the log hold what the logged buffers hold.
LogCopied(n) == \A k \in 1 .. Len(lh) : k <= n => disk[LogBlock(k)] = Cached(cache, lh[k])

ContentInv ==
  /\ \A p \in Process : pc[p] \in {"have", "done"} => Buf(cache, blk[p]).valid
  /\ Clean
  /\ Committing("write_log") => LogCopied(tail)
  /\ Committing("write_head") \/ Committing("install_trans") \/ Committing("erase")
       => LogCopied(Len(lh))
  /\ Committing("install_trans") \/ Committing("erase") => disk[Head0] = lh
  /\ ~(Committing("install_trans") \/ Committing("erase") \/ IsDown) => disk[Head0] = <<>>
  /\ IsDown => \A k \in 1 .. Len(lh) : k <= tail => disk[lh[k]] = disk[LogBlock(k)]

LogInv == ControlInv /\ BufferInv /\ OnlyBgetPanics /\ (~panicked => ContentInv)
=============================================================================
