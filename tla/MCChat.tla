------------------------------- MODULE MCChat -------------------------------
(* Small instances of Chat for TLC. *)
EXTENDS Chat, TLC

CONSTANTS u1, u2, u3, i1, i2, s1, s2

(* A match of two users; the third is a stranger. *)
OneMatch == {<<u1, u2>>}

(* Symmetry, broken at the start, for the liveness properties do not allow *)
(* a SYMMETRY: the two processes, the members of the match and the sockets *)
(* can be renamed.                                                         *)
CanonicalInit ==
    /\ Init
    /\ \A x \in Messages : posts[x].at = i1 /\ posts[x].sender # u2
    /\ \A s \in Sockets : sockets[s].user # u3
    /\ ~(sockets[s1].at = i2 /\ sockets[s2].at = i1)
    /\ sockets[s1].at = sockets[s2].at =>
          ~(sockets[s1].user = u2 /\ sockets[s2].user = u1)

CanonicalSpec == CanonicalInit /\ [][Next]_vars /\ Fairness
=============================================================================
