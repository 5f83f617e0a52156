--------------------------- MODULE ActivityLogger ---------------------------
(***************************************************************************)
(* The activity logger (activity-logger/logger.py): a consumer of the      *)
(* group tin4-activity-logger that prints the events of the topics.  Its   *)
(* offsets are committed by the client library from time to time, so after *)
(* a restart some events are printed again.                                *)
(***************************************************************************)
EXTENDS KafkaClient

VARIABLES
    logger,         \* what main() is doing
    position,       \* how many events the consumer has handed out
    offset,         \* the committed offset of the group
    logged          \* the events that were printed

loggerVars == <<logger, position, offset, logged>>

LoggerInit ==
    /\ logger = "connecting"
    /\ position = 0
    /\ offset = 0
    /\ logged = {}

(* Mutant: a group without an offset starts at the latest event. *)
ConnectAtLatest ==
    /\ logger = "connecting"
    /\ logger' = "consuming"
    /\ position' = IF offset = 0 THEN Len(topic) ELSE offset
    /\ UNCHANGED <<offset, logged>>

(* consumer.start() succeeds; the group goes on where it was, or at the    *)
(* earliest event.  After 20 attempts that fail main returns and the       *)
(* container is started again (docker-compose.yml: unless-stopped), which  *)
(* connects again: no state changes.                                       *)
Connect ==
    /\ logger = "connecting"
    /\ logger' = "consuming"
    /\ position' = offset
    /\ UNCHANGED <<offset, logged>>

(* One turn of `async for`: no await parts the message from its line. *)
Consume ==
    /\ logger = "consuming"
    /\ position < Len(topic)
    /\ logged' = logged \cup {topic[position + 1]}
    /\ position' = position + 1
    /\ UNCHANGED <<logger, offset>>

(* The library commits what it has handed out (enable_auto_commit). *)
AutoCommit ==
    /\ logger \in {"consuming", "dead"}
    /\ offset # position
    /\ offset' = position
    /\ UNCHANGED <<logger, position, logged>>

(* The iterator raises, outside the try statement of the loop: the task    *)
(* ends, nobody looks at it, and main waits for a signal.                  *)
IteratorRaises ==
    /\ Fault("iterator")
    /\ logger = "consuming"
    /\ logger' = "dead"
    /\ UNCHANGED <<position, offset, logged>>

(* It dies, or stops on SIGTERM, when consumer.stop() commits; it is       *)
(* started again.                                                          *)
LoggerRestarts ==
    /\ Fault("logger")
    /\ logger' = "connecting"
    /\ offset' \in IF logger = "connecting" THEN {offset} ELSE {offset, position}
    /\ UNCHANGED <<position, logged>>

LoggerNext ==
    \/ (Connect \/ Consume \/ AutoCommit) /\ UNCHANGED faults
    \/ IteratorRaises \/ LoggerRestarts

LoggerTypeOK ==
    /\ logger \in {"connecting", "consuming", "dead"}
    /\ {position, offset} \subseteq 0 .. Len(topic)
    /\ logged \subseteq Requests
=============================================================================
