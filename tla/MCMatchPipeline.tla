-------------------------- MODULE MCMatchPipeline --------------------------
(* Small instances of MatchPipeline for TLC. *)
EXTENDS MatchPipeline, TLC

(* Users, requests and tasks are interchangeable: sound for the runs that  *)
(* check invariants and action properties only.                            *)
Symmetry ==
    Permutations(Users) \cup Permutations(Requests) \cup Permutations(Tasks)
=============================================================================
