----------------------------- MODULE MCMonitor ------------------------------
(***************************************************************************)
(* Small instances of Monitor for TLC.                                     *)
(***************************************************************************)
EXTENDS MonitorRefinement, TLC

(* Clients are interchangeable: no action names one.                       *)
ClientSymmetry == Permutations(Client)

(* Arguments of MonInit: fewer and more than MAX_CONDS = 1.       *)
MCInitArgs == {0, 2}

(* Conditions just outside and inside the range.                           *)
MCCondArgs == {-1, 0, 1}

=============================================================================
