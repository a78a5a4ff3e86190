----------------------------- MODULE VirtioDisk -----------------------------
(***************************************************************************)
(* kernel/virtio_disk.c: requests of three descriptors each, the avail and *)
(* used rings, and the interrupt handler, beside a device that may finish  *)
(* requests in any order.  A step is what runs under vdisk_lock between    *)
(* two points where the device or another CPU could see a difference.      *)
(* Process p reads and writes block p through a buffer of its own (bread   *)
(* locks the buffer); notification is implied by the ring's index.         *)
(***************************************************************************)
EXTENDS Integers, FiniteSets, FiniteSetsExt

CONSTANTS Disker,     \* the processes that use the disk
          NUM,        \* descriptors, and entries of the rings
          WRAP        \* the 16-bit ring indices wrap here

ASSUME VirtioSizes == NUM \in Nat \ {0, 1, 2} /\ WRAP \in Nat \ {0} /\ WRAP % NUM = 0
ASSUME DiskUsers == Disker \subseteq Nat \ {0}

VARIABLES vd,         \* struct disk, but for the rings' device side
          dev,        \* the device, its disk (platter) and its interrupt line
          req,        \* each process' request: pc, descriptors, buffer
          vlock,      \* vdisk_lock: Nobody, a process or Handler
          vintr,      \* the handler: "off", "claimed", "loop", "leave"
          vleft,      \* requests still to be made
          vpanic

vdvars == <<vd, dev, req, vlock, vintr, vleft, vpanic>>

Desc == 0 .. NUM - 1
FreeDesc == [addr |-> <<"", 0>>, flags |-> {}, next |-> 0]
Nobody == 0
Handler == -1
Garbage == 9        \* the content of a buffer before it is read

\* An idle disk, after start requests (the indices never go back).
VInit(ops, start) ==
  /\ vd = [free |-> Desc, desc |-> [i \in Desc |-> FreeDesc],
           ops |-> [i \in Desc |-> [write |-> FALSE, sector |-> 0]],
           info |-> [i \in Desc |-> [b |-> 0, status |-> 0]],
           ring |-> [i \in Desc |-> 0], idx |-> start, used_idx |-> start]
  /\ dev = [seen |-> start, busy |-> {}, ring |-> [i \in Desc |-> 0], idx |-> start,
            platter |-> [p \in Disker |-> 0], irq |-> FALSE]
  /\ req = [p \in Disker |-> [pc |-> "idle", head |-> 0, data |-> 0, disk |-> FALSE]]
  /\ vlock = Nobody /\ vintr = "off" /\ vleft = ops /\ vpanic = FALSE
-----------------------------------------------------------------------------
(* virtio_disk_rw *)

\* bread or bwrite of p's block: the caller has put the data to write in b.
virtio_disk_rw(p, write) ==
  /\ req[p].pc = "idle" /\ vleft > 0 /\ ~vpanic
  /\ req' = [req EXCEPT ![p] = [@ EXCEPT !.pc = IF write THEN "write" ELSE "read",
                                         !.data = IF write THEN 1 - req[p].data ELSE Garbage]]
  /\ vleft' = vleft - 1
  /\ UNCHANGED <<vd, dev, vlock, vintr, vpanic>>

\* wakeup(&disk.free[0])
WakeFree(r) == [p \in Disker |-> IF r[p].pc \in {"readsleep", "writesleep"}
                 THEN [r[p] EXCEPT !.pc = IF @ = "readsleep" THEN "read" ELSE "write"] ELSE r[p]]

\* Mutant: a descriptor given out is not marked.
alloc_descKept(d, i) == d
alloc_desc(d, i) == [d EXCEPT !.free = @ \ {i}]

\* The three descriptors filled in, info, and the head in the avail ring.
Format(d, p, write, i, j, k) ==
  [d EXCEPT !.ops[i]  = [write |-> write, sector |-> p],
            !.desc[i] = [addr |-> <<"op", i>>, flags |-> {"NEXT"}, next |-> j],
            !.desc[j] = [addr |-> <<"data", p>>, next |-> k,
                         flags |-> {"NEXT"} \cup IF write THEN {} ELSE {"WRITE"}],
            !.desc[k] = [addr |-> <<"status", i>>, flags |-> {"WRITE"}, next |-> 0],
            !.info[i] = [b |-> p, status |-> 255],
            !.ring[d.idx % NUM] = i]

\* alloc3_desc; when it fails, the descriptors it puts back wake the others
\* that wait for descriptors, and p goes to sleep.
Third(S, n) == CHOOSE i \in S : Cardinality({j \in S : j < i}) = n - 1
alloc3_desc(p) ==
  LET write == req[p].pc = "write"
      S == vd.free
      i == Third(S, 1)  j == Third(S, 2)  k == Third(S, 3)
  IN /\ req[p].pc \in {"read", "write"} /\ vlock = Nobody /\ ~vpanic
     /\ IF Cardinality(S) < 3
        THEN /\ req' = [(IF S = {} THEN req ELSE WakeFree(req)) EXCEPT
                          ![p].pc = IF write THEN "writesleep" ELSE "readsleep"]
             /\ UNCHANGED <<vd, vlock>>
        ELSE /\ vd' = Format(alloc_desc(alloc_desc(alloc_desc(vd, i), j), k), p, write, i, j, k)
             /\ req' = [req EXCEPT ![p] = [@ EXCEPT !.pc = "publish", !.head = i, !.disk = TRUE]]
             /\ vlock' = p
     /\ UNCHANGED <<dev, vintr, vleft, vpanic>>

\* avail->idx += 1 after the barrier, the notification, and sleep(b).
publish(p) ==
  /\ req[p].pc = "publish"
  /\ vd' = [vd EXCEPT !.idx = (@ + 1) % WRAP]
  /\ req' = [req EXCEPT ![p].pc = "sleeping"]
  /\ vlock' = Nobody
  /\ UNCHANGED <<dev, vintr, vleft, vpanic>>

\* The descriptors that free_chain, and the device, come by from i on.
Chain(d, i) ==
  LET Nexts(j) == IF "NEXT" \in d[j].flags THEN {d[j].next} ELSE {}
  IN {i} \cup Nexts(i) \cup UNION {Nexts(j) : j \in Nexts(i)}

free_chain(p) ==
  LET c == Chain(vd.desc, req[p].head)
  IN /\ req[p].pc = "woken" /\ vlock = Nobody /\ ~vpanic
     /\ IF req[p].disk
        THEN req' = [req EXCEPT ![p].pc = "sleeping"] /\ UNCHANGED <<vd, vpanic>>
        ELSE /\ vd' = [vd EXCEPT !.info[req[p].head].b = 0, !.free = @ \cup c,
                                 !.desc = [i \in Desc |-> IF i \in c THEN FreeDesc ELSE @[i]]]
             /\ vpanic' = (c \cap vd.free # {})            \* free_desc 2
             /\ req' = [WakeFree(req) EXCEPT ![p] = [@ EXCEPT !.pc = "idle", !.head = 0]]
     /\ UNCHANGED <<dev, vlock, vintr, vleft>>
-----------------------------------------------------------------------------
(* The device *)

fetch ==
  /\ dev.seen # vd.idx
  /\ dev' = [dev EXCEPT !.seen = (@ + 1) % WRAP, !.busy = @ \cup {vd.ring[dev.seen % NUM]}]
  /\ UNCHANGED <<vd, req, vlock, vintr, vleft, vpanic>>

\* The device follows the chain of h, moves the data and reports h.
Part(h, kind) == {i \in Chain(vd.desc, h) : vd.desc[i].addr[1] = kind}
perform(h) ==
  LET op == vd.ops[h]
      b  == vd.desc[CHOOSE i \in Part(h, "data") : TRUE].addr[2]
  IN /\ h \in dev.busy
     /\ dev' = [dev EXCEPT !.busy = @ \ {h}, !.ring[dev.idx % NUM] = h, !.irq = TRUE,
                           !.idx = (@ + 1) % WRAP,
                           !.platter[op.sector] = IF op.write THEN req[b].data ELSE @]
     /\ req' = IF op.write THEN req ELSE [req EXCEPT ![b].data = dev.platter[op.sector]]
     /\ vd' = [vd EXCEPT !.info[vd.desc[CHOOSE i \in Part(h, "status") : TRUE].addr[2]].status = 0]
     /\ UNCHANGED <<vlock, vintr, vleft, vpanic>>
-----------------------------------------------------------------------------
(* virtio_disk_intr, entered with the interrupt claimed *)

vclaim ==             \* plic_claim
  /\ vintr = "off" /\ dev.irq
  /\ vintr' = "claimed"
  /\ UNCHANGED <<vd, dev, req, vlock, vleft, vpanic>>

vack ==
  /\ vintr = "claimed" /\ vlock = Nobody
  /\ vlock' = Handler /\ vintr' = "loop"
  /\ dev' = [dev EXCEPT !.irq = FALSE]
  /\ UNCHANGED <<vd, req, vleft, vpanic>>

vloop ==
  LET id == dev.ring[vd.used_idx % NUM]
      b  == vd.info[id].b
  IN /\ vintr = "loop" /\ ~vpanic
     /\ IF vd.used_idx = dev.idx
        THEN vintr' = "leave" /\ UNCHANGED <<vd, req, vpanic>>
        ELSE /\ vpanic' = (vd.info[id].status # 0 \/ b = 0)
             /\ req' = IF b = 0 THEN req ELSE
                       [req EXCEPT ![b].disk = FALSE,
                                   ![b].pc = IF @ = "sleeping" THEN "woken" ELSE @]
             /\ vd' = [vd EXCEPT !.used_idx = (@ + 1) % WRAP]
             /\ UNCHANGED vintr
     /\ UNCHANGED <<dev, vlock, vleft>>

\* The line stays as it is: what the device finished after the last look at the
\* used ring interrupts again.
vleave ==             \* release, plic_complete
  /\ vintr = "leave"
  /\ vintr' = "off" /\ vlock' = Nobody
  /\ UNCHANGED <<vd, dev, req, vleft, vpanic>>

virtio_disk_intr == vclaim \/ vack \/ vloop \/ vleave
Device == fetch \/ \E h \in dev.busy : perform(h)
Request(p) == (\E w \in BOOLEAN : virtio_disk_rw(p, w)) \/ alloc3_desc(p) \/ publish(p) \/ free_chain(p)
-----------------------------------------------------------------------------
\* A request that has returned has moved exactly its own block: the buffer and
\* the disk agree, whatever else was in flight; no descriptor is freed twice,
\* and no completion finds a status or buffer that is not its own.
TransfersExact ==
  /\ ~vpanic
  /\ \A p \in Disker : req[p].pc = "idle" => req[p].data = dev.platter[p]
-----------------------------------------------------------------------------
(* The inductive invariant: which descriptors a request has, and on which   *)
(* ring, or in whose hands, it is.                                          *)

Index == 0 .. WRAP - 1
InFlight == {p \in Disker : req[p].pc \in {"publish", "sleeping", "woken"}}

\* The n entries of ring r from index a on, and that they differ.
Entry(r, a, t) == r[((a + t) % WRAP) % NUM]
Entries(r, a, n) == {Entry(r, a, t) : t \in 0 .. n - 1}
Once(r, a, n) == \A s, t \in 0 .. n - 1 : Entry(r, a, s) = Entry(r, a, t) => s = t

\* Requests the device has not fetched, and those the handler has not seen.
Avail == (vd.idx - dev.seen) % WRAP
Used == (dev.idx - vd.used_idx) % WRAP
Available == Entries(vd.ring, dev.seen, Avail)
Reported == Entries(dev.ring, vd.used_idx, Used)

Driver == [free : SUBSET Desc,
           desc : [Desc -> [addr : {"", "op", "data", "status"} \X Nat,
                            flags : SUBSET {"NEXT", "WRITE"}, next : Desc]],
           ops : [Desc -> [write : BOOLEAN, sector : Disker \cup {0}]],
           info : [Desc -> [b : Disker \cup {0}, status : {0, 255}]],
           ring : [Desc -> Desc], idx : Index, used_idx : Index]
DeviceState == [seen : Index, busy : SUBSET Desc, ring : [Desc -> Desc], idx : Index,
                platter : [Disker -> Int], irq : BOOLEAN]
RequestState == [pc : {"idle", "read", "write", "readsleep", "writesleep", "publish",
                       "sleeping", "woken"},
                 head : Desc, data : Int, disk : BOOLEAN]
VTypes == vd \in Driver /\ dev \in DeviceState /\ req \in [Disker -> RequestState]

\* vdisk_lock is kept over a step by a process between alloc3_desc and sleep,
\* and by the handler; b->disk is set until the handler has seen the request.
VLocks ==
  /\ \A p \in Disker : /\ vlock = p <=> req[p].pc = "publish"
                       /\ req[p].pc \in {"publish", "sleeping"} => req[p].disk
                       /\ req[p].pc = "woken" => ~req[p].disk
  /\ vlock = Handler <=> vintr \in {"loop", "leave"}

DataDesc(p) == vd.desc[req[p].head].next
StatusDesc(p) == vd.desc[DataDesc(p)].next
Own(p) == {req[p].head, DataDesc(p), StatusDesc(p)}

\* The descriptors of a request: three, taken, nobody else's, and filled in.
ChainOK(p) ==
  LET i == req[p].head  j == DataDesc(p)  k == StatusDesc(p)
  IN /\ i # j /\ i # k /\ j # k /\ Own(p) \cap vd.free = {}
     /\ vd.desc[i].addr = <<"op", i>> /\ "NEXT" \in vd.desc[i].flags
     /\ vd.desc[j].addr = <<"data", p>> /\ "NEXT" \in vd.desc[j].flags
     /\ vd.desc[k].addr = <<"status", i>> /\ "NEXT" \notin vd.desc[k].flags
     /\ vd.ops[i].sector = p /\ vd.info[i].b = p
ChainsOK ==
  /\ \A p \in InFlight : ChainOK(p)
  /\ \A p, q \in InFlight : p # q => Own(p) \cap Own(q) = {}

Sleepers == {p \in Disker : req[p].pc = "sleeping"}

\* A request that sleeps is in one place: available, with the device, or
\* reported; and nothing else is there.
RingsOK ==
  /\ Once(vd.ring, dev.seen, Avail) /\ Once(dev.ring, vd.used_idx, Used)
  /\ Available \cap dev.busy = {} /\ Available \cap Reported = {} /\ dev.busy \cap Reported = {}
  /\ Available \cup dev.busy \cup Reported = {req[p].head : p \in Sleepers}
  /\ \A p \in Disker : req[p].pc = "publish" => vd.ring[vd.idx % NUM] = req[p].head

Performed(p) == \/ req[p].pc \in {"idle", "woken"}
                \/ req[p].pc = "sleeping" /\ req[p].head \in Reported

\* What the device has reported it has done.
DataOK ==
  /\ \A h \in Reported : vd.info[h].status = 0
  /\ \A p \in Disker : Performed(p) => req[p].data = dev.platter[p]

DiskInv == VTypes /\ VLocks /\ ChainsOK /\ RingsOK /\ DataOK /\ ~vpanic
=============================================================================
