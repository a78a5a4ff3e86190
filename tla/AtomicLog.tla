----------------------------- MODULE AtomicLog -----------------------------
(***************************************************************************)
(* What kernel/log.c promises to the file system: operations change blocks *)
(* of an image in memory, and the image that a crash leaves changes only   *)
(* between operations, to the whole of what they have done.  KFs is built  *)
(* on this promise.                                                        *)
(***************************************************************************)
CONSTANTS Data,       \* the blocks of the file system
          Process, Value

VARIABLES view,       \* the image that the running system sees
          durable,    \* the image that a crash leaves
          active      \* processes between begin_op and end_op

Init == /\ view = durable /\ durable \in [Data -> Value]
        /\ active = {}

Begin(p) == p \notin active /\ active' = active \cup {p} /\ UNCHANGED <<view, durable>>

Write(p, b, v) == /\ p \in active /\ view' = [view EXCEPT ![b] = v]
                  /\ UNCHANGED <<durable, active>>

End(p) == p \in active /\ active' = active \ {p} /\ UNCHANGED <<view, durable>>

Commit == active = {} /\ durable' = view /\ UNCHANGED <<view, active>>

Crash == view' = durable /\ active' = {} /\ UNCHANGED durable

Next == \/ Commit \/ Crash
        \/ \E p \in Process : Begin(p) \/ End(p) \/ \E b \in Data, v \in Value : Write(p, b, v)

Spec == Init /\ [][Next]_<<view, durable, active>>
=============================================================================
