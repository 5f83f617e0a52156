----------------------------- MODULE MCActivity -----------------------------
(* Small instances of Activity for TLC. *)
EXTENDS Activity, TLC

CONSTANTS r1, r2, r3, a1, a2

(* The script seeds two rows, the requests name either. *)
TwoSeeds == <<a1, a2>>
=============================================================================
