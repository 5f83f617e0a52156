------------------------------ MODULE SwipeApi ------------------------------
(***************************************************************************)
(* POST /api/swipe (api/routers/swipe.py) and the fire-and-forget publish  *)
(* to RabbitMQ it spawns (api/rabbitmq_client.py).  A request is handled   *)
(* by a coroutine that can be suspended at every await, so requests        *)
(* interleave between the duplicate check, the commit and the response.    *)
(***************************************************************************)
EXTENDS Store

CONSTANTS
    Requests        \* the HTTP requests of a behaviour, each is sent once

VARIABLES
    requests,       \* the handler coroutine of every request
    outbox,         \* events whose _safe_publish task has not finished
    streamTasks     \* events handed to _safe_produce("swipe_stream")

apiVars == <<requests, outbox, streamTasks>>

RequestStage == {"unsent", "duplicate", "commit", "committed", "done"}
InHandler == {"duplicate", "commit", "committed"}
Status == {0, 202, 400, 404, 409, 500}
Request ==
    [stage : RequestStage, swipe : Swipe \cup {NoSwipe}, status : Status]

Unsent == [stage |-> "unsent", swipe |-> NoSwipe, status |-> 0]

ApiInit ==
    /\ requests = [r \in Requests |-> Unsent]
    /\ outbox = {}
    /\ streamTasks = {}

Reply(r, status) ==
    requests' = [requests EXCEPT ![r].stage = "done", ![r].status = status]

Goto(r, stage) == requests' = [requests EXCEPT ![r].stage = stage]

-----------------------------------------------------------------------------
(* The request arrives with a valid token.  A direction that is not "like" *)
(* or "pass" and a swipe on oneself are refused.                           *)
ReceiveRefused(r) ==
    /\ requests[r].stage = "unsent"
    /\ \E status \in {400, 404} : Reply(r, status)
    /\ UNCHANGED <<tables, queue, dropped, faults, outbox, streamTasks>>

(* The request passes the checks on its input: the target is another,      *)
(* existing user.  Rows of `users` are never deleted, so the result of     *)
(* that lookup cannot become stale.                                        *)
Receive(r, s) ==
    /\ requests[r].stage = "unsent"
    /\ s.swiper # s.target
    /\ requests' = [requests EXCEPT ![r].stage = "duplicate", ![r].swipe = s]
    /\ UNCHANGED <<tables, queue, dropped, faults, outbox, streamTasks>>

(* The handler looks for an earlier swipe of the pair, before it inserts. *)
CheckDuplicate(r) ==
    LET s == requests[r].swipe IN
    /\ requests[r].stage = "duplicate"
    /\ IF HasSwiped(s.swiper, s.target) THEN Reply(r, 409)
                                        ELSE Goto(r, "commit")
    /\ UNCHANGED <<tables, queue, dropped, faults, outbox, streamTasks>>

(* Mutant: the table has no uq_swipe. *)
CommitSwipeUnchecked(r) ==
    /\ requests[r].stage = "commit"
    /\ Goto(r, "committed")
    /\ swipes' = swipes \cup {requests[r].swipe}
    /\ UNCHANGED <<matches, queue, dropped, faults, outbox, streamTasks>>

(* INSERT and COMMIT.  A row of the pair committed since the check breaks  *)
(* uq_swipe: the IntegrityError is not caught and becomes a 500.           *)
CommitSwipe(r) ==
    LET s == requests[r].swipe IN
    /\ requests[r].stage = "commit"
    /\ IF HasSwiped(s.swiper, s.target)
       THEN Reply(r, 500) /\ UNCHANGED swipes
       ELSE Goto(r, "committed") /\ swipes' = swipes \cup {s}
    /\ UNCHANGED <<matches, queue, dropped, faults, outbox, streamTasks>>

(* Mutant: the handler forgets to publish to RabbitMQ. *)
RespondUnpublished(r) ==
    /\ requests[r].stage = "committed"
    /\ streamTasks' = streamTasks \cup {requests[r].swipe}
    /\ Reply(r, 202)
    /\ UNCHANGED <<tables, queue, dropped, faults, outbox>>

(* The coroutine resumes after the commit: it spawns both publish tasks    *)
(* and answers 202 without waiting for them.                               *)
Respond(r) ==
    LET s == requests[r].swipe IN
    /\ requests[r].stage = "committed"
    /\ outbox' = outbox \cup {s}
    /\ streamTasks' = streamTasks \cup {s}
    /\ Reply(r, 202)
    /\ UNCHANGED <<tables, queue, dropped, faults>>

(* Mutant: the publish is tried again although it went through. *)
PublishAgain(s) ==
    /\ s \in outbox
    /\ queue' = queue \cup {s}
    /\ UNCHANGED <<tables, dropped, faults, requests, outbox, streamTasks>>

(* _safe_publish succeeds: the persistent message is in the durable queue. *)
Publish(s) ==
    /\ s \in outbox
    /\ outbox' = outbox \ {s}
    /\ queue' = queue \cup {s}
    /\ UNCHANGED <<tables, dropped, faults, requests, streamTasks>>

(* get_channel gives up or the publish raises: _safe_publish logs it and   *)
(* returns.  Nothing tries again.                                          *)
PublishFails(s) ==
    /\ Fault("publish")
    /\ s \in outbox
    /\ outbox' = outbox \ {s}
    /\ dropped' = dropped \cup {s}
    /\ UNCHANGED <<tables, queue, requests, streamTasks>>

(* The API process dies: the handlers in flight and the publish tasks are  *)
(* gone, the committed rows are not.                                       *)
ApiCrash ==
    LET dead == {r \in Requests : requests[r].stage \in InHandler}
        committed == {r \in dead : requests[r].stage = "committed"}
    IN
    /\ Fault("api")
    /\ dropped' = dropped \cup outbox \cup {requests[r].swipe : r \in committed}
    /\ outbox' = {}
    /\ requests' = [r \in Requests |->
                      IF r \in dead THEN [requests[r] EXCEPT !.stage = "done"]
                                    ELSE requests[r]]
    /\ UNCHANGED <<tables, queue, streamTasks>>

(* A database call of the handler raises, which becomes a 500.  The call   *)
(* may be the commit, whose answer is lost after the row was stored.       *)
RequestFails(r) ==
    /\ Fault("call")
    /\ requests[r].stage \in InHandler
    /\ Reply(r, 500)
    /\ dropped' = IF requests[r].stage = "committed"
                  THEN dropped \cup {requests[r].swipe} ELSE dropped
    /\ UNCHANGED <<tables, queue, outbox, streamTasks>>

(* What the scheduler of the API runs once a request is received. *)
Handle(r) == CheckDuplicate(r) \/ CommitSwipe(r) \/ Respond(r)

ApiNext ==
    \/ \E r \in Requests :
          \/ ReceiveRefused(r)
          \/ \E s \in Swipe : Receive(r, s)
          \/ Handle(r)
          \/ RequestFails(r)
    \/ \E s \in outbox : Publish(s) \/ PublishFails(s)
    \/ ApiCrash

ApiTypeOK ==
    /\ requests \in [Requests -> Request]
    /\ \A r \in Requests :
          /\ requests[r].stage \in InHandler => requests[r].swipe \in Swipe
          /\ requests[r].stage = "committed" => requests[r].swipe \in swipes
    /\ outbox \subseteq swipes
    /\ streamTasks \subseteq swipes
=============================================================================
