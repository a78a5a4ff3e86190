------------------------------ MODULE MCKMutex ------------------------------
(***************************************************************************)
(* Small instances of KMutex for TLC.                                      *)
(***************************************************************************)
EXTENDS KMutex

(* Unlocked, and locked by an argument other than 1.                       *)
MCFlags == {0, 2}

(* Ids inside and just outside a table of one or two slots.                *)
MCIds == -1 .. NMUTEX

(* Any use without kills, and disciplined use with kills.                  *)
MCUses == {[disciplined |-> FALSE, kills |-> FALSE], [disciplined |-> TRUE, kills |-> TRUE]}

=============================================================================
