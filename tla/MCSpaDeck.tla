----------------------------- MODULE MCSpaDeck -----------------------------
EXTENDS SpaDeck

CONSTANTS p1, p2, p3, p4

(* Profiles are interchangeable. *)
Symmetry == Permutations({p1, p2, p3, p4})
=============================================================================
