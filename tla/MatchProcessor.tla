--------------------------- MODULE MatchProcessor ---------------------------
(***************************************************************************)
(* The match processor (match-processor/processor.py).  Every delivery     *)
(* runs on_message in an asyncio task of its own, so up to Prefetch        *)
(* handlers interleave at the awaits of process_swipe, and one step below  *)
(* is what a handler does from one await to the next.                      *)
(***************************************************************************)
EXTENDS Store

CONSTANTS
    Tasks,          \* the asyncio tasks that can run on_message
    Prefetch        \* set_qos(prefetch_count): unacknowledged deliveries

ASSUME ProcessorAssumption ==
    /\ IsFiniteSet(Tasks)
    /\ Prefetch \in Nat \ {0}

VARIABLES
    tasks,          \* the handlers: where they are, with which event
    sent,           \* how often each notice went to the Redis channel
    matchEvents,    \* rows announced on the topic `match_events`
    silenced        \* history: rows whose notices a failure cut off

procVars == <<tasks, sent, matchEvents, silenced>>

Looking == {"reverse", "existing", "insert"}
Announcing == {"notifySwiper", "notifyTarget", "stream"}
Untold == {"notifySwiper", "notifyTarget"}
TaskStage == {"idle", "ack"} \cup Looking \cup Announcing

(* live: the delivery can still be acknowledged on its channel. *)
Task == [stage : TaskStage, event : Swipe \cup {NoSwipe}, live : BOOLEAN]

Idle == [stage |-> "idle", event |-> NoSwipe, live |-> FALSE]

(* What a message on `ws_events` says: row `match` was created, to a user, *)
(* naming the other one.                                                   *)
Notice == [match : Users \X Users, to : Users, other : Users]

ProcInit ==
    /\ tasks = [t \in Tasks |-> Idle]
    /\ sent = [n \in Notice |-> 0]
    /\ matchEvents = {}
    /\ silenced = {}

Live == {t \in Tasks : tasks[t].live}

Row(e) == <<e.swiper, e.target>>

(* What is never told when these handlers end here: the rows they have     *)
(* stored and not announced to both members.                               *)
CutOff(T) == {Row(tasks[t].event) : t \in {x \in T : tasks[x].stage \in Untold}}

GotoStage(t, stage) == tasks' = [tasks EXCEPT ![t].stage = stage]

-----------------------------------------------------------------------------
(* The broker delivers a ready message.  An event that is not a like is    *)
(* acknowledged at once.                                                   *)
FirstStage(e) == IF e.direction = "like" THEN "reverse" ELSE "ack"

(* Mutant: no_ack, the broker forgets a delivery when it is made. *)
DeliverAcked(t, e) ==
    /\ tasks[t].stage = "idle"
    /\ e \in queue
    /\ queue' = queue \ {e}
    /\ tasks' = [tasks EXCEPT
                   ![t] = [stage |-> FirstStage(e), event |-> e, live |-> FALSE]]
    /\ UNCHANGED <<tables, dropped, faults, sent, matchEvents, silenced>>

Deliver(t, e) ==
    /\ tasks[t].stage = "idle"
    /\ e \in queue
    /\ Cardinality(Live) < Prefetch
    /\ queue' = queue \ {e}
    /\ tasks' = [tasks EXCEPT
                   ![t] = [stage |-> FirstStage(e), event |-> e, live |-> TRUE]]
    /\ UNCHANGED <<tables, dropped, faults, sent, matchEvents, silenced>>

(* Mutant: the query misses the direction. *)
ReciprocatedByAnySwipe(e) == HasSwiped(e.target, e.swiper)

(* Has the target liked the swiper?  No mutual like yet: done. *)
Reciprocated(e) == Liked(e.target, e.swiper)

FindReverse(t) ==
    /\ tasks[t].stage = "reverse"
    /\ GotoStage(t, IF Reciprocated(tasks[t].event) THEN "existing" ELSE "ack")
    /\ UNCHANGED <<tables, queue, dropped, faults, sent, matchEvents, silenced>>

(* Is there a row of the pair, in either orientation?  One row: return.    *)
(* Two rows: scalar_one_or_none raises, the handler logs it.               *)
ExistingRows(e) == matches \cap {<<e.swiper, e.target>>, <<e.target, e.swiper>>}

(* Mutant: the members are told before the row is stored. *)
FindExistingAndNotify(t) ==
    /\ tasks[t].stage = "existing"
    /\ GotoStage(t, IF ExistingRows(tasks[t].event) = {} THEN "notifySwiper" ELSE "ack")
    /\ UNCHANGED <<tables, queue, dropped, faults, sent, matchEvents, silenced>>

FindExisting(t) ==
    /\ tasks[t].stage = "existing"
    /\ GotoStage(t, IF ExistingRows(tasks[t].event) = {} THEN "insert" ELSE "ack")
    /\ UNCHANGED <<tables, queue, dropped, faults, sent, matchEvents, silenced>>

(* Mutant: the table has no uq_match. *)
ViolatesUniqueNever(e) == FALSE

(* INSERT and COMMIT.  uq_match is on (user1_id, user2_id) as they stand:  *)
(* it is broken by a row of the same orientation only, and then the        *)
(* IntegrityError ends the handler.                                        *)
ViolatesUnique(e) == Row(e) \in matches

(* Mutant: a handler whose channel is gone stores the row and gives up. *)
InsertOrphaned(t) ==
    LET e == tasks[t].event IN
    /\ tasks[t].stage = "insert"
    /\ IF ViolatesUnique(e)
       THEN GotoStage(t, "ack") /\ UNCHANGED matches
       ELSE /\ GotoStage(t, IF tasks[t].live THEN "notifySwiper" ELSE "ack")
            /\ matches' = matches \cup {Row(e)}
    /\ UNCHANGED <<swipes, queue, dropped, faults, sent, matchEvents, silenced>>

Insert(t) ==
    LET e == tasks[t].event IN
    /\ tasks[t].stage = "insert"
    /\ IF ViolatesUnique(e)
       THEN GotoStage(t, "ack") /\ UNCHANGED matches
       ELSE GotoStage(t, "notifySwiper") /\ matches' = matches \cup {Row(e)}
    /\ UNCHANGED <<swipes, queue, dropped, faults, sent, matchEvents, silenced>>

(* The loop over [(swiper_id, u2), (target_id, u1)]: one Redis publish per *)
(* member of the pair, naming the other member.                            *)
SwiperNotice(e) == [match |-> Row(e), to |-> e.swiper, other |-> e.target]
TargetNotice(e) == [match |-> Row(e), to |-> e.target, other |-> e.swiper]

(* Mutant: only the swiper is notified. *)
NotifySwiperOnly(t) ==
    /\ tasks[t].stage = "notifySwiper"
    /\ sent' = [sent EXCEPT ![SwiperNotice(tasks[t].event)] = @ + 1]
    /\ GotoStage(t, "stream")
    /\ UNCHANGED <<tables, queue, dropped, faults, matchEvents, silenced>>

NotifySwiper(t) ==
    /\ tasks[t].stage = "notifySwiper"
    /\ sent' = [sent EXCEPT ![SwiperNotice(tasks[t].event)] = @ + 1]
    /\ GotoStage(t, "notifyTarget")
    /\ UNCHANGED <<tables, queue, dropped, faults, matchEvents, silenced>>

NotifyTarget(t) ==
    /\ tasks[t].stage = "notifyTarget"
    /\ sent' = [sent EXCEPT ![TargetNotice(tasks[t].event)] = @ + 1]
    /\ GotoStage(t, "stream")
    /\ UNCHANGED <<tables, queue, dropped, faults, matchEvents, silenced>>

(* send_and_wait on the producer, if get_producer returned one.  The topic *)
(* is kept as the set of its rows: a row that the library sends again      *)
(* because an acknowledgement was lost is there twice.                     *)
Stream(t) ==
    /\ tasks[t].stage = "stream"
    /\ matchEvents' \in {matchEvents, matchEvents \cup {Row(tasks[t].event)}}
    /\ GotoStage(t, "ack")
    /\ UNCHANGED <<tables, queue, dropped, faults, sent, silenced>>

(* message.process() acknowledges.  The delivery of a channel that is gone *)
(* was requeued by the broker and the acknowledgement has no effect.       *)
Ack(t) ==
    /\ tasks[t].stage = "ack"
    /\ tasks' = [tasks EXCEPT ![t] = Idle]
    /\ UNCHANGED <<tables, queue, dropped, faults, sent, matchEvents, silenced>>

-----------------------------------------------------------------------------
(* A call of process_swipe raises.  on_message swallows the exception, so  *)
(* the message is acknowledged: an event whose match was still to be found *)
(* is lost with it.                                                        *)
Raise(t) ==
    /\ Fault("call")
    /\ tasks[t].stage \in Looking \cup Announcing
    /\ dropped' = IF tasks[t].live /\ tasks[t].stage \in Looking
                  THEN dropped \cup {tasks[t].event} ELSE dropped
    /\ GotoStage(t, "ack")
    /\ silenced' = silenced \cup CutOff({t})
    /\ UNCHANGED <<tables, queue, sent, matchEvents>>

(* What the broker does when a channel goes: unacknowledged events are     *)
(* ready again.                                                            *)
Requeued == queue \cup {tasks[t].event : t \in Live}

(* The processor dies and is restarted (restart: unless-stopped). *)
ProcessorCrash ==
    /\ Fault("processor")
    /\ queue' = Requeued
    /\ tasks' = [t \in Tasks |-> Idle]
    /\ silenced' = silenced \cup CutOff(Tasks)
    /\ UNCHANGED <<tables, dropped, sent, matchEvents>>

(* The AMQP connection is lost and connect_robust restores the consumer.   *)
(* A running handler goes on, or is cancelled at its await with the        *)
(* channel that delivered to it.                                           *)
ConnectionLost ==
    /\ Fault("connection")
    /\ Live # {}
    /\ queue' = Requeued
    /\ \E cancelled \in SUBSET Live :
          /\ tasks' = [t \in Tasks |->
                         IF t \in cancelled THEN Idle
                         ELSE [stage |-> tasks[t].stage, event |-> tasks[t].event,
                               live |-> FALSE]]
          /\ silenced' = silenced \cup CutOff(cancelled)
    /\ UNCHANGED <<tables, dropped, sent, matchEvents>>

(* What the event loop runs for a delivered message. *)
TaskStep(t) ==
    \/ FindReverse(t) \/ FindExisting(t) \/ Insert(t)
    \/ NotifySwiper(t) \/ NotifyTarget(t) \/ Stream(t)
    \/ Ack(t)

ProcNext ==
    \/ \E t \in Tasks :
          \/ \E e \in queue : Deliver(t, e)
          \/ TaskStep(t)
          \/ Raise(t)
    \/ ProcessorCrash
    \/ ConnectionLost

ProcTypeOK ==
    /\ tasks \in [Tasks -> Task]
    /\ \A t \in Tasks :
          IF tasks[t].stage = "idle" THEN tasks[t] = Idle
                                     ELSE tasks[t].event \in swipes
    /\ \A t \in Tasks :
          tasks[t].stage \in Announcing => Row(tasks[t].event) \in matches
    /\ Cardinality(Live) <= Prefetch
    /\ sent \in [Notice -> Nat]
    /\ matchEvents \subseteq matches /\ silenced \subseteq matches
=============================================================================
