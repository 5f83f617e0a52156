---------------------------- MODULE MCStatistics ----------------------------
(* Small instances of Statistics for TLC. *)
EXTENDS Statistics, TLC

(* Users, requests and tasks are interchangeable: sound for the runs that  *)
(* check invariants and action properties only.                            *)
Symmetry ==
    Permutations(Users) \cup Permutations(Requests) \cup Permutations(Tasks)
=============================================================================
