------------------------------ MODULE Delivery ------------------------------
(***************************************************************************)
(* What the users are promised of everything the API pushes to them: an    *)
(* item reaches only the connections it is meant for, one at a time, none  *)
(* before it is recorded, none more often than there are ways to it, and   *)
(* nothing that was recorded or has arrived is taken back.  README.md:245  *)
(* and the docstrings of api/ws_manager.py describe the service so;        *)
(* registries, listeners and Redis are not seen.                           *)
(***************************************************************************)
EXTENDS Integers

CONSTANTS Items, Sockets

VARIABLES
    allowed,        \* how often each item may reach each socket, for ever
    recorded,       \* items that are stored or announced
    arrived         \* how often each item has reached each socket

DeliveryVars == <<allowed, recorded, arrived>>

DeliveryInit ==
    /\ allowed \in [Sockets -> [Items -> {0, 1, 2}]]
    /\ recorded = {}
    /\ arrived = [s \in Sockets |-> [x \in Items |-> 0]]

Record(x) ==
    /\ x \notin recorded
    /\ recorded' = recorded \cup {x}
    /\ UNCHANGED <<allowed, arrived>>

Arrive(s, x) ==
    /\ x \in recorded
    /\ arrived[s][x] < allowed[s][x]
    /\ arrived' = [arrived EXCEPT ![s][x] = @ + 1]
    /\ UNCHANGED <<allowed, recorded>>

DeliveryNext ==
    \E x \in Items : Record(x) \/ \E s \in Sockets : Arrive(s, x)

DeliverySpec == DeliveryInit /\ [][DeliveryNext]_DeliveryVars
=============================================================================
