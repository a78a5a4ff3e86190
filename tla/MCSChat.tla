------------------------------ MODULE MCSChat -------------------------------
(***************************************************************************)
(* Small instances of SChat for TLC.                                       *)
(***************************************************************************)
EXTENDS SChat

CONSTANTS left, right

(* Two programs that name each other.                                      *)
Two == {left, right}
FacingEachOther == left :> right @@ right :> left

(* Lengths: the longest line that fits (MAXLINE = 12) and one byte more.   *)
Session(t, n, e, r, z) ==
    [typists |-> t, lines |-> n, lengths |-> {2, 3}, exits |-> e, reliable |-> r, zeroed |-> z]

(* Three lines over a reliable network, and two with memory that holds     *)
(* something; two, from both sides or with an exit, over a network that is *)
(* not reliable.                                                           *)
MCSessions == {Session({left}, 3, FALSE, TRUE, TRUE), Session({left}, 2, FALSE, TRUE, FALSE),
               Session(Two, 2, FALSE, FALSE, TRUE), Session({left}, 2, TRUE, FALSE, FALSE)}

=============================================================================
