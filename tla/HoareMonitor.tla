---------------------------- MODULE HoareMonitor ----------------------------
(***************************************************************************)
(* What the monitor of Monitor.c promises: a monitor with Hoare signalling *)
(* (immediate transfer to the signalled process) and FIFO queues of        *)
(* blocked processes.  Monitor implements it while no wait queue holds     *)
(* more than one process.                                                  *)
(***************************************************************************)
EXTENDS Sequences, Integers

CONSTANTS Client, NoPid, Cond, Message

VARIABLES
    owner,      \* the process in the monitor, or NoPid
    entry,      \* FIFO of processes blocked in MonEnter
    urgent,     \* FIFO of processes blocked in MonSignal
    waiting,    \* for each condition, FIFO of processes blocked in MonWait
    conditions, \* number of usable conditions
    setup,      \* the process whose MonInit is being served, or NoPid
    stage,      \* "running", "sent" or "held"
    msg         \* the message each blocked process has sent

vars == <<owner, entry, urgent, waiting, conditions, setup, stage, msg>>
queues == <<entry, urgent, waiting>>

NoMsg == [type |-> "none", arg |-> 0]

Init ==
    /\ owner = NoPid
    /\ entry = <<>>
    /\ urgent = <<>>
    /\ waiting = [k \in Cond |-> <<>>]
    /\ conditions = 0
    /\ setup = NoPid
    /\ stage = [c \in Client |-> "running"]
    /\ msg = [c \in Client |-> NoMsg]

Call(c, m) ==
    /\ stage[c] = "running"
    /\ stage' = [stage EXCEPT ![c] = "sent"]
    /\ msg' = [msg EXCEPT ![c] = m]
    /\ UNCHANGED <<owner, queues, conditions, setup>>

Pending(c, type) == setup = NoPid /\ stage[c] = "sent" /\ msg[c].type = type

Resume(R, H) ==
    /\ stage' = [c \in Client |-> IF c \in R THEN "running"
                                  ELSE IF c \in H THEN "held" ELSE stage[c]]
    /\ msg' = [c \in Client |-> IF c \in R THEN NoMsg ELSE msg[c]]

Usable(c, k) == owner = c /\ k \in Cond /\ k < conditions

(* A call that changes nothing: the caller does not own the monitor, the   *)
(* condition does not exist, or nobody waits for the signal.               *)
Ineffective(c) ==
    \/ Pending(c, "MonLeave") /\ owner # c
    \/ Pending(c, "MonWait") /\ ~Usable(c, msg[c].arg)
    \/ Pending(c, "MonSignal") /\ ~Usable(c, msg[c].arg)
    \/ Pending(c, "MonSignal") /\ Usable(c, msg[c].arg) /\ waiting[msg[c].arg] = <<>>

Ignore(c) ==
    /\ Ineffective(c)
    /\ Resume({c}, {})
    /\ UNCHANGED <<owner, queues, conditions, setup>>

Enter(c) ==
    /\ Pending(c, "MonEnter")
    /\ \/ /\ owner = NoPid
          /\ owner' = c
          /\ Resume({c}, {})
          /\ UNCHANGED entry
       \/ /\ owner # NoPid
          /\ entry' = Append(entry, c)
          /\ Resume({}, {c})
          /\ UNCHANGED owner
    /\ UNCHANGED <<urgent, waiting, conditions, setup>>

(* A released monitor goes to the longest-blocked signaller, else to the   *)
(* longest-blocked entrant, else it becomes free.                          *)
Release(R, H) ==
    \/ /\ urgent # <<>>
       /\ owner' = Head(urgent)
       /\ urgent' = Tail(urgent)
       /\ Resume(R \cup {Head(urgent)}, H)
       /\ UNCHANGED entry
    \/ /\ urgent = <<>>
       /\ entry # <<>>
       /\ owner' = Head(entry)
       /\ entry' = Tail(entry)
       /\ Resume(R \cup {Head(entry)}, H)
       /\ UNCHANGED urgent
    \/ /\ urgent = <<>>
       /\ entry = <<>>
       /\ owner' = NoPid
       /\ Resume(R, H)
       /\ UNCHANGED <<urgent, entry>>

Leave(c) ==
    /\ Pending(c, "MonLeave")
    /\ owner = c
    /\ Release({c}, {})
    /\ UNCHANGED <<waiting, conditions, setup>>

Wait(c) ==
    LET k == msg[c].arg
    IN  /\ Pending(c, "MonWait")
        /\ Usable(c, k)
        /\ waiting' = [waiting EXCEPT ![k] = Append(@, c)]
        /\ Release({}, {c})
        /\ UNCHANGED <<conditions, setup>>

Signal(c) ==
    LET k == msg[c].arg
    IN  /\ Pending(c, "MonSignal")
        /\ Usable(c, k)
        /\ waiting[k] # <<>>
        /\ owner' = Head(waiting[k])
        /\ waiting' = [waiting EXCEPT ![k] = Tail(@)]
        /\ urgent' = Append(urgent, c)
        /\ Resume({Head(waiting[k])}, {c})
        /\ UNCHANGED <<entry, conditions, setup>>

Setup(c) ==
    /\ Pending(c, "MonInit")
    /\ setup' = c
    /\ conditions' \in Int
    /\ \A k \in Cond : k < msg[c].arg <=> k < conditions'
    /\ UNCHANGED <<owner, queues, stage, msg>>

SetupDone ==
    /\ setup # NoPid
    /\ setup' = NoPid
    /\ Resume({setup}, {})
    /\ UNCHANGED <<owner, queues, conditions>>

Next ==
    \/ \E c \in Client :
         \/ \E m \in Message : Call(c, m)
         \/ Ignore(c) \/ Enter(c) \/ Leave(c) \/ Wait(c) \/ Signal(c) \/ Setup(c)
    \/ SetupDone

Spec == Init /\ [][Next]_vars

=============================================================================
