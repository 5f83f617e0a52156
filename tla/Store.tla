------------------------------- MODULE Store -------------------------------
(***************************************************************************)
(* The state the API and the match processor share: the `swipes` and       *)
(* `matches` tables of PostgreSQL and the RabbitMQ queue `swipe_events`.   *)
(*                                                                         *)
(* A statement of either service is one atomic step: the engines are made  *)
(* without an isolation level (api/database.py:6, processor.py:76), which  *)
(* is READ COMMITTED in PostgreSQL, so a SELECT sees what is committed     *)
(* when it runs, and of two INSERTs of one unique key the second fails.    *)
(***************************************************************************)
EXTENDS Integers, FiniteSets

CONSTANTS
    Users,          \* ids of the rows of the table `users`
    NoSwipe,        \* the value of a request or task that holds no swipe
    FaultKinds,     \* the kinds of failure that may happen
    MaxFaults       \* bound: how many failures a behaviour may have

VARIABLES
    swipes,         \* the table `swipes`
    matches,        \* the table `matches`, a row is <<user1_id, user2_id>>
    queue,          \* messages of `swipe_events` that are ready for delivery
    dropped,        \* history: events a failure took out of the pipeline
    faults          \* how many failures have happened

tables == <<swipes, matches>>

Swipe == [swiper : Users, target : Users, direction : {"like", "pass"}]

(* The kinds of failure: a publish that raises, an API process that dies,  *)
(* a database or broker call of the processor that raises, a processor     *)
(* that dies, and the processor's AMQP connection lost under live tasks.   *)
AllFaults == {"publish", "api", "call", "processor", "connection"}

ASSUME StoreAssumption ==
    /\ NoSwipe \notin Swipe
    /\ FaultKinds \subseteq AllFaults
    /\ MaxFaults \in Nat

Fault(kind) ==
    /\ kind \in FaultKinds
    /\ faults < MaxFaults
    /\ faults' = faults + 1

(* UNIQUE(swiper_id, target_id): a row of the pair exists already. *)
HasSwiped(u, v) == \E s \in swipes : s.swiper = u /\ s.target = v

Liked(u, v) == [swiper |-> u, target |-> v, direction |-> "like"] \in swipes

Mutual(u, v) == u # v /\ Liked(u, v) /\ Liked(v, u)

Matched(u, v) == <<u, v>> \in matches \/ <<v, u>> \in matches

StoreInit ==
    /\ swipes = {}
    /\ matches = {}
    /\ queue = {}
    /\ dropped = {}
    /\ faults = 0

StoreTypeOK ==
    /\ swipes \subseteq Swipe
    /\ matches \subseteq Users \X Users
    /\ queue \subseteq swipes
    /\ dropped \subseteq swipes
    /\ faults \in 0 .. MaxFaults
=============================================================================
