---------------------------- MODULE KafkaClient ----------------------------
(***************************************************************************)
(* The Kafka client of an API process (api/kafka_client.py; the match      *)
(* processor has a copy, processor.py:89-106) and the tasks that use it    *)
(* (_safe_produce).  The first task that needs the producer makes it and   *)
(* awaits its start; the global `_producer` is set before that await, and  *)
(* is reset when the start fails, whatever it holds by then.               *)
(***************************************************************************)
EXTENDS Integers, Sequences, FiniteSets

CONSTANTS
    Requests,       \* requests to the API, each spawns at most one task
    NoProducer,     \* _producer = None
    Attempts,       \* how often a task tries to start a producer (15 in the code)
    FaultKinds,     \* the kinds of failure that may happen
    MaxFaults       \* bound: how many failures a behaviour may have

(* A producer that does not start, an acknowledgement that is lost, a send *)
(* that raises, an API process that dies, a database call that raises, the *)
(* logger's iterator that raises, and a restart of the logger.             *)
AllFaults == {"start", "ack", "send", "api", "call", "iterator", "logger"}

(* The producer objects: each attempt of each task makes one. *)
Producers == Requests \X (1 .. Attempts)

ASSUME KafkaAssumption ==
    /\ IsFiniteSet(Requests)
    /\ Attempts \in Nat \ {0}
    /\ NoProducer \notin Producers
    /\ FaultKinds \subseteq AllFaults
    /\ MaxFaults \in Nat

VARIABLES
    producer,       \* the global _producer
    objects,        \* the producer objects
    tasks,          \* the task of each request
    topic,          \* the topic `user_activity`, an event is named by its request
    early,          \* history: tasks that were given a producer not started yet
    resent,         \* history: tasks whose event the library has to send again
    faults          \* how many failures have happened

kafkaVars == <<producer, objects, tasks, topic, early, resent>>

Task == [stage : {"none", "new", "starting", "sleeping", "sending", "done"},
         tries : 0 .. Attempts, uses : Producers \cup {NoProducer}]

NoTask == [stage |-> "none", tries |-> 0, uses |-> NoProducer]

Unmade == [p \in Producers |-> "unmade"]

KafkaInit ==
    /\ producer = NoProducer
    /\ objects = Unmade
    /\ tasks = [r \in Requests |-> NoTask]
    /\ topic = <<>>
    /\ early = {}
    /\ resent = {}
    /\ faults = 0

Fault(kind) ==
    /\ kind \in FaultKinds
    /\ faults < MaxFaults
    /\ faults' = faults + 1

Produced(r) == \E k \in DOMAIN topic : topic[k] = r

(* asyncio.create_task(_safe_produce(...)). *)
Spawned(r) == [tasks EXCEPT ![r].stage = "new"]

Finish(r) == tasks' = [tasks EXCEPT ![r].stage = "done"]

(* AIOKafkaProducer(...) and `await _producer.start()`. *)
Start(r, try) ==
    /\ producer' = <<r, try>>
    /\ objects' = [objects EXCEPT ![<<r, try>>] = "starting"]
    /\ tasks' = [tasks EXCEPT ![r].stage = "starting", ![r].tries = try]

-----------------------------------------------------------------------------
(* Mutant: everybody makes a producer until one has started. *)
GetProducerUnlessStarted(r) ==
    /\ tasks[r].stage = "new"
    /\ IF \A p \in Producers : p = producer => objects[p] # "ready"
       THEN Start(r, 1) /\ UNCHANGED early
       ELSE /\ tasks' = [tasks EXCEPT ![r].stage = "sending", ![r].uses = producer]
            /\ UNCHANGED <<producer, objects, early>>
    /\ UNCHANGED <<topic, resent, faults>>

(* Mutant: no event is sent while another task starts the producer. *)
GetProducerOrGiveUp(r) ==
    /\ tasks[r].stage = "new"
    /\ IF producer = NoProducer
       THEN Start(r, 1)
       ELSE /\ IF objects[producer] = "ready"
               THEN tasks' = [tasks EXCEPT ![r].stage = "sending", ![r].uses = producer]
               ELSE Finish(r)
            /\ UNCHANGED <<producer, objects>>
    /\ UNCHANGED <<topic, early, resent, faults>>

(* get_producer: a producer that is there is returned, started or not. *)
GetProducer(r) ==
    /\ tasks[r].stage = "new"
    /\ IF producer = NoProducer
       THEN Start(r, 1) /\ UNCHANGED early
       ELSE /\ tasks' = [tasks EXCEPT ![r].stage = "sending", ![r].uses = producer]
            /\ early' = IF objects[producer] = "ready" THEN early ELSE early \cup {r}
            /\ UNCHANGED <<producer, objects>>
    /\ UNCHANGED <<topic, resent, faults>>

(* The start is over; what is returned is the global, which may be another *)
(* producer by now, or None: then send_and_wait raises.                    *)
Started(r) ==
    /\ tasks[r].stage = "starting"
    /\ objects' = [objects EXCEPT ![<<r, tasks[r].tries>>] = "ready"]
    /\ IF producer = NoProducer
       THEN Finish(r)
       ELSE tasks' = [tasks EXCEPT ![r].stage = "sending", ![r].uses = producer]
    /\ early' = IF producer = NoProducer \/ objects'[producer] = "ready"
                THEN early ELSE early \cup {r}
    /\ UNCHANGED <<producer, topic, resent, faults>>

StartFails(r) ==
    /\ Fault("start")
    /\ tasks[r].stage = "starting"
    /\ objects' = [objects EXCEPT ![<<r, tasks[r].tries>>] = "failed"]
    /\ producer' = NoProducer
    /\ tasks' = [tasks EXCEPT ![r].stage = "sleeping"]
    /\ UNCHANGED <<topic, early, resent>>

(* After three seconds the task tries again, and never looks whether there *)
(* is a producer by now; the last attempt ends in a RuntimeError, which    *)
(* produce logs.                                                           *)
Retry(r) ==
    /\ tasks[r].stage = "sleeping"
    /\ IF tasks[r].tries < Attempts
       THEN Start(r, tasks[r].tries + 1)
       ELSE Finish(r) /\ UNCHANGED <<producer, objects>>
    /\ UNCHANGED <<topic, early, resent, faults>>

(* The broker takes the event and its acknowledgement is lost.  The        *)
(* producer is made without enable_idempotence: the library sends the      *)
(* event again, and the broker takes it for another one.  It goes on so    *)
(* for as long as it keeps a batch; Send or SendFails is the last time.    *)
AckLost(r) ==
    /\ Fault("ack")
    /\ tasks[r].stage = "sending"
    /\ objects[tasks[r].uses] = "ready"
    /\ topic' = Append(topic, r)
    /\ resent' = resent \cup {r}
    /\ UNCHANGED <<producer, objects, tasks, early>>

(* send_and_wait on a producer that has started. *)
Send(r) ==
    /\ tasks[r].stage = "sending"
    /\ objects[tasks[r].uses] = "ready"
    /\ topic' = Append(topic, r)
    /\ Finish(r)
    /\ UNCHANGED <<producer, objects, early, resent, faults>>

(* It raises, before or after the broker took the event; produce logs it   *)
(* and returns.                                                            *)
SendFails(r) ==
    /\ Fault("send")
    /\ tasks[r].stage = "sending"
    /\ \/ objects[tasks[r].uses] = "ready" /\ topic' = Append(topic, r)
       \/ UNCHANGED topic
    /\ Finish(r)
    /\ UNCHANGED <<producer, objects, early, resent>>

(* On a producer that has not started it waits for metadata, and may raise *)
(* or wait for ever; if the producer starts before that, Send goes on.     *)
SendsTooEarly(r) ==
    /\ tasks[r].stage = "sending"
    /\ objects[tasks[r].uses] # "ready"
    /\ Finish(r)
    /\ UNCHANGED <<producer, objects, topic, early, resent, faults>>

(* What the process loses when it dies; the topic is the broker's. *)
ClientDies ==
    /\ producer' = NoProducer
    /\ objects' = Unmade
    /\ tasks' = [r \in Requests |->
                   IF tasks[r].stage = "none" THEN NoTask
                                              ELSE [NoTask EXCEPT !.stage = "done"]]
    /\ UNCHANGED <<topic, early, resent>>

Produce(r) == GetProducer(r) \/ Started(r) \/ Retry(r) \/ Send(r)

KafkaNext ==
    \E r \in Requests :
        \/ Produce(r) \/ StartFails(r)
        \/ AckLost(r) \/ SendFails(r) \/ SendsTooEarly(r)

Ready == {p \in Producers : objects[p] = "ready"}

KafkaTypeOK ==
    /\ producer \in Producers \cup {NoProducer}
    /\ objects \in [Producers -> {"unmade", "starting", "ready", "failed"}]
    /\ tasks \in [Requests -> Task]
    /\ \A r \in Requests : tasks[r].stage = "sending" => tasks[r].uses \in Producers
    /\ topic \in Seq(Requests)
    /\ early \subseteq Requests /\ resent \subseteq Requests
    /\ faults \in 0 .. MaxFaults
=============================================================================
