----------------------------- MODULE MCPresence -----------------------------
(* Small instances of Presence for TLC: who connects, and as whom. *)
EXTENDS Presence, TLC

CONSTANTS u1, u2, u3, c1, c2, c3

(* A user on two devices, next to another user. *)
SharedTokens == c1 :> {u1} @@ c2 :> {u1} @@ c3 :> {u2}

(* The client of the other connection has tokens of two users. *)
SwitchedTokens == c1 :> {u1} @@ c2 :> {u1} @@ c3 :> {u2, u3}
=============================================================================
