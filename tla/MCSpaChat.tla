----------------------------- MODULE MCSpaChat -----------------------------
(* A small instance of SpaChat for TLC. *)
EXTENDS SpaChat, TLC

CONSTANTS m1, m2, x1, x2, y1

(* One message of each partner, and one of the user to the first. *)
TheirMatches == x1 :> m1 @@ x2 :> m2 @@ y1 :> m1
=============================================================================
