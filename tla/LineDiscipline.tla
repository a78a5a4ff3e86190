--------------------------- MODULE LineDiscipline ---------------------------
(***************************************************************************)
(* What the console promises a reader: keys go to a line that can still be *)
(* edited; the end of a line, end-of-file or a full buffer hands the line  *)
(* over; readers get the keys handed over, in order, and a read never goes *)
(* beyond the end of a line.  Keys that do not fit are dropped.            *)
(***************************************************************************)
EXTENDS Integers, Sequences, SequencesExt

CONSTANTS SIZE,       \* keys that fit
          Plain       \* keys that are neither controls nor ends

Ends == {"nl", "D"}

VARIABLES ready, line

Init == ready = <<>> /\ line = <<>>

Key(c) ==
  LET new == Append(line, c)
  IN /\ Len(ready) + Len(line) < SIZE
     /\ IF c \in Ends \/ Len(ready) + Len(new) = SIZE
        THEN ready' = ready \o new /\ line' = <<>>
        ELSE line' = new /\ UNCHANGED ready

Erase    == line # <<>> /\ line' = Front(line) /\ UNCHANGED ready
KillLine == line' = <<>> /\ UNCHANGED ready

Read == \E k \in 1 .. Len(ready) :
          /\ \A j \in 1 .. k - 1 : ready[j] \notin Ends
          /\ ready' = SubSeq(ready, k + 1, Len(ready))
          /\ UNCHANGED line

Next == (\E c \in Plain \cup Ends : Key(c)) \/ Erase \/ KillLine \/ Read

Spec == Init /\ [][Next]_<<ready, line>>
=============================================================================
