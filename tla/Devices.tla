------------------------------ MODULE Devices ------------------------------
(***************************************************************************)
(* The disk and the terminal together, as devintr of kernel/trap.c serves  *)
(* them: the PLIC lets each device have one interrupt in service at a time *)
(* (the handler's "off" state), and the two handlers may run on two CPUs.  *)
(***************************************************************************)
EXTENDS VirtioDisk, Terminal

CONSTANT Workloads    \* of [ops, start, keys, reads, writes]

ASSUME WorkloadStarts ==
  \A l \in Workloads : l.start \in Nat /\ l.start < WRAP /\ l.start < IWRAP

vars == <<vdvars, tvars>>

Init == \E l \in Workloads : VInit(l.ops, l.start) /\ TInit(l.keys, l.reads, l.writes, l.start)

devintr == \/ virtio_disk_intr /\ UNCHANGED tvars
           \/ Uart /\ UNCHANGED vdvars

DiskStep == (Device \/ \E p \in Disker : Request(p)) /\ UNCHANGED tvars
ConsoleStep == (Write \/ consoleread \/ copyoutFails \/ User) /\ UNCHANGED vdvars

Idle == /\ \A p \in Disker : req[p].pc = "idle"
        /\ vleft = 0 /\ writer.pc = "idle" /\ reader.pc \in {"idle", "sleeping"}
        /\ budget.keys = 0 /\ ~ENABLED devintr
Done == Idle /\ UNCHANGED vars

Next == devintr \/ DiskStep \/ ConsoleStep \/ Done

\* Devices serve what they are asked, interrupts are taken, and a process that
\* can run runs; nobody need type, read or write.
Fairness ==
  /\ WF_vars(fetch /\ UNCHANGED tvars)
  /\ \A h \in Desc : WF_vars(h \in dev.busy /\ perform(h) /\ UNCHANGED tvars)
  /\ WF_vars(virtio_disk_intr /\ UNCHANGED tvars)
  /\ \A p \in Disker : WF_vars((alloc3_desc(p) \/ publish(p) \/ free_chain(p)) /\ UNCHANGED tvars)
  /\ WF_vars(Uart /\ UNCHANGED vdvars)
  /\ WF_vars(Write /\ UNCHANGED vdvars)
  /\ WF_vars(consoleread /\ UNCHANGED vdvars)

Spec == Init /\ [][Next]_vars /\ Fairness
-----------------------------------------------------------------------------
\* Every disk request returns, though requests wait for descriptors and for
\* completions and the device may finish while the handler is running; every
\* write to the console returns; and a read returns once a line is there.
EveryCallReturns ==
  /\ \A p \in Disker : req[p].pc # "idle" ~> req[p].pc = "idle"
  /\ writer.pc # "idle" ~> writer.pc = "idle"
  /\ (reader.pc # "idle" /\ cons.r # cons.w) ~> (reader.pc = "idle" \/ cons.r = cons.w)

=============================================================================
