------------------------- MODULE MatchPipelineProofs -------------------------
(***************************************************************************)
(* What is proved of MatchPipeline for every set of users, requests and    *)
(* tasks, every prefetch and any number of failures.                       *)
(***************************************************************************)
EXTENDS MatchPipeline, FiniteSetTheorems, TLAPS

LEMMA LiveFinite ==
    ASSUME NEW S \in SUBSET Tasks
    PROVE  IsFiniteSet(S) /\ Cardinality(S) \in Nat
  BY ProcessorAssumption, FS_Subset, FS_CardinalityType

(* A step that makes no delivery live keeps the prefetch bound.            *)
LEMMA PrefetchKept ==
    ASSUME Cardinality(Live) <= Prefetch, Live' \subseteq Live
    PROVE  Cardinality(Live') <= Prefetch
  <1>1. Live \in SUBSET Tasks BY DEF Live
  <1>2. IsFiniteSet(Live) /\ Cardinality(Live) \in Nat BY <1>1, LiveFinite
  <1>3. Cardinality(Live') <= Cardinality(Live) /\ Cardinality(Live') \in Nat
    BY <1>2, FS_Subset, FS_CardinalityType
  <1>4. QED BY <1>2, <1>3, ProcessorAssumption

(* A delivery fills one place of the prefetch window.                      *)
LEMMA PrefetchFilled ==
    ASSUME NEW t \in Tasks, Cardinality(Live) < Prefetch,
           Live' \subseteq Live \cup {t}
    PROVE  Cardinality(Live') <= Prefetch
  <1>1. Live \in SUBSET Tasks BY DEF Live
  <1>2. IsFiniteSet(Live) /\ Cardinality(Live) \in Nat BY <1>1, LiveFinite
  <1>3. /\ IsFiniteSet(Live \cup {t})
        /\ Cardinality(Live \cup {t}) \in Nat
        /\ Cardinality(Live \cup {t}) <= Cardinality(Live) + 1
    <2>1. /\ IsFiniteSet(Live \cup {t})
          /\ \/ Cardinality(Live \cup {t}) = Cardinality(Live)
             \/ Cardinality(Live \cup {t}) = Cardinality(Live) + 1
      BY <1>2, FS_AddElement
    <2>2. QED BY <1>2, <2>1, FS_CardinalityType
  <1>4. Cardinality(Live') <= Cardinality(Live \cup {t}) /\ Cardinality(Live') \in Nat
    BY <1>3, FS_Subset, FS_CardinalityType
  <1>5. QED BY <1>2, <1>3, <1>4, ProcessorAssumption

-----------------------------------------------------------------------------
(* Faults are counted up to their bound. *)
LEMMA FaultCounted ==
    ASSUME NEW kind, Fault(kind), faults \in 0 .. MaxFaults
    PROVE  faults' \in 0 .. MaxFaults
  BY StoreAssumption DEF Fault

(* What Reply and Goto do to the handlers. *)
LEMMA ReplyMoves ==
    ASSUME requests \in [Requests -> Request],
           NEW r \in Requests, NEW status \in Status, Reply(r, status)
    PROVE  /\ requests' \in [Requests -> Request]
           /\ requests'[r].stage = "done"
           /\ requests'[r].status = status
           /\ requests'[r].swipe = requests[r].swipe
           /\ \A q \in Requests \ {r} : requests'[q] = requests[q]
  BY DEF Reply, Request, RequestStage

LEMMA GotoMoves ==
    ASSUME requests \in [Requests -> Request],
           NEW r \in Requests, NEW stage \in RequestStage, Goto(r, stage)
    PROVE  /\ requests' \in [Requests -> Request]
           /\ requests'[r].stage = stage
           /\ requests'[r].status = requests[r].status
           /\ requests'[r].swipe = requests[r].swipe
           /\ \A q \in Requests \ {r} : requests'[q] = requests[q]
  BY DEF Goto, Request

LEMMA ReceiveMoves ==
    ASSUME requests \in [Requests -> Request],
           NEW r \in Requests, NEW s \in Swipe, Receive(r, s)
    PROVE  /\ requests' \in [Requests -> Request]
           /\ requests'[r].stage = "duplicate"
           /\ requests'[r].status = requests[r].status
           /\ requests'[r].swipe = s
           /\ \A q \in Requests \ {r} : requests'[q] = requests[q]
  BY DEF Receive, Request, RequestStage

LEMMA CrashMoves ==
    ASSUME requests \in [Requests -> Request], ApiCrash
    PROVE  /\ requests' \in [Requests -> Request]
           /\ \A r \in Requests :
                 /\ requests'[r].stage \notin InHandler
                 /\ requests'[r].status = requests[r].status
                 /\ requests'[r].swipe = requests[r].swipe
  BY DEF ApiCrash, Request, RequestStage, InHandler

(* What a step of a handler of the processor does to the handlers. *)
LEMMA GotoStageMoves ==
    ASSUME tasks \in [Tasks -> Task],
           NEW t \in Tasks, NEW stage \in TaskStage, GotoStage(t, stage)
    PROVE  /\ tasks' \in [Tasks -> Task]
           /\ tasks'[t].stage = stage
           /\ tasks'[t].event = tasks[t].event
           /\ tasks'[t].live = tasks[t].live
           /\ \A x \in Tasks \ {t} : tasks'[x] = tasks[x]
           /\ Live' = Live
  <1>1. /\ tasks' \in [Tasks -> Task]
        /\ tasks'[t].stage = stage
        /\ tasks'[t].event = tasks[t].event
        /\ tasks'[t].live = tasks[t].live
        /\ \A x \in Tasks \ {t} : tasks'[x] = tasks[x]
    BY DEF GotoStage, Task
  <1>2. Live' = Live BY <1>1 DEF Live
  <1>3. QED BY <1>1, <1>2

LEMMA DeliverMoves ==
    ASSUME tasks \in [Tasks -> Task], queue \subseteq Swipe,
           NEW t \in Tasks, NEW e, Deliver(t, e)
    PROVE  /\ tasks' \in [Tasks -> Task]
           /\ tasks'[t].stage = FirstStage(e)
           /\ tasks'[t].event = e
           /\ tasks'[t].live = TRUE
           /\ \A x \in Tasks \ {t} : tasks'[x] = tasks[x]
           /\ Live' = Live \cup {t}
           /\ FirstStage(e) \in {"reverse", "ack"}
  <1>1. /\ tasks' \in [Tasks -> Task]
        /\ tasks'[t].stage = FirstStage(e)
        /\ tasks'[t].event = e
        /\ tasks'[t].live = TRUE
        /\ \A x \in Tasks \ {t} : tasks'[x] = tasks[x]
    BY DEF Deliver, FirstStage, Task, TaskStage, Looking
  <1>2. Live' = Live \cup {t} BY <1>1 DEF Live
  <1>3. QED BY <1>1, <1>2 DEF FirstStage

LEMMA AckMoves ==
    ASSUME tasks \in [Tasks -> Task], NEW t \in Tasks, Ack(t)
    PROVE  /\ tasks' \in [Tasks -> Task]
           /\ tasks'[t] = Idle
           /\ \A x \in Tasks \ {t} : tasks'[x] = tasks[x]
           /\ Live' = Live \ {t}
  <1>1. /\ tasks' \in [Tasks -> Task]
        /\ tasks'[t] = Idle
        /\ \A x \in Tasks \ {t} : tasks'[x] = tasks[x]
    BY DEF Ack, Idle, Task, TaskStage
  <1>2. Live' = Live \ {t} BY <1>1 DEF Live, Idle
  <1>3. QED BY <1>1, <1>2

LEMMA ProcessorCrashMoves ==
    ASSUME ProcessorCrash
    PROVE  /\ tasks' \in [Tasks -> Task]
           /\ \A t \in Tasks : tasks'[t] = Idle
           /\ Live' = {}
  <1>1. tasks' \in [Tasks -> Task] /\ \A t \in Tasks : tasks'[t] = Idle
    BY DEF ProcessorCrash, Idle, Task, TaskStage
  <1>2. Live' = {} BY <1>1 DEF Live, Idle
  <1>3. QED BY <1>1, <1>2

LEMMA ConnectionLostMoves ==
    ASSUME tasks \in [Tasks -> Task], ConnectionLost
    PROVE  /\ tasks' \in [Tasks -> Task]
           /\ \A t \in Tasks :
                 \/ tasks'[t] = Idle
                 \/ /\ tasks'[t].stage = tasks[t].stage
                    /\ tasks'[t].event = tasks[t].event
                    /\ tasks'[t].live = FALSE
           /\ \A t \in Tasks : tasks[t] = Idle => tasks'[t] = Idle
           /\ Live' = {}
  <1>1. PICK cancelled \in SUBSET Live :
           tasks' = [t \in Tasks |->
                       IF t \in cancelled THEN Idle
                       ELSE [stage |-> tasks[t].stage, event |-> tasks[t].event,
                             live |-> FALSE]]
    BY DEF ConnectionLost
  <1>2. tasks' \in [Tasks -> Task]
    BY <1>1 DEF Task, Idle, TaskStage
  <1>3. \A t \in Tasks :
           \/ tasks'[t] = Idle
           \/ /\ tasks'[t].stage = tasks[t].stage
              /\ tasks'[t].event = tasks[t].event
              /\ tasks'[t].live = FALSE
    BY <1>1 DEF Task
  <1>4. ASSUME NEW t \in Tasks, tasks[t] = Idle
        PROVE  tasks'[t] = Idle
    <2>1. [stage |-> Idle.stage, event |-> Idle.event, live |-> FALSE] = Idle
      BY DEF Idle
    <2>2. QED BY <1>1, <1>4, <2>1
  <1>5. Live' = {} BY <1>3 DEF Live, Idle
  <1>6. QED BY <1>2, <1>3, <1>4, <1>5

-----------------------------------------------------------------------------
(* A step of the API keeps the types. *)
LEMMA ApiKeepsTypes ==
    ASSUME TypeOK, ApiNext, UNCHANGED procVars
    PROVE  TypeOK'
  <1> USE DEF StoreTypeOK, ApiTypeOK, tables
  <1>a. requests \in [Requests -> Request] BY DEF TypeOK
  <1>b. StoreTypeOK /\ ApiTypeOK BY DEF TypeOK
  <1>1. Live' = Live BY DEF Live, procVars
  <1>2. ASSUME NEW r \in Requests, ReceiveRefused(r)
        PROVE  StoreTypeOK' /\ ApiTypeOK'
    <2>1. PICK status \in {400, 404} : Reply(r, status)
      BY <1>2 DEF ReceiveRefused
    <2>2. QED
      BY <1>2, <1>a, <1>b, <2>1, ReplyMoves DEF ReceiveRefused, Status, InHandler
  <1>3. ASSUME NEW r \in Requests, NEW s \in Swipe, Receive(r, s)
        PROVE  StoreTypeOK' /\ ApiTypeOK'
    <2>1. UNCHANGED <<tables, queue, dropped, faults, outbox, streamTasks>>
      BY <1>3 DEF Receive
    <2>2. QED BY <1>3, <1>a, <1>b, <2>1, ReceiveMoves DEF InHandler
  <1>4. ASSUME NEW r \in Requests, CheckDuplicate(r)
        PROVE  StoreTypeOK' /\ ApiTypeOK'
    <2>1. Reply(r, 409) \/ Goto(r, "commit")
      BY <1>4 DEF CheckDuplicate
    <2>2. requests[r].swipe \in Swipe
      BY <1>4, <1>b DEF CheckDuplicate, InHandler
    <2>3. UNCHANGED <<tables, queue, dropped, faults, outbox, streamTasks>>
      BY <1>4 DEF CheckDuplicate
    <2>4. QED
      BY <1>a, <1>b, <2>1, <2>2, <2>3, ReplyMoves, GotoMoves
         DEF Status, RequestStage, InHandler
  <1>5. ASSUME NEW r \in Requests, CommitSwipe(r)
        PROVE  StoreTypeOK' /\ ApiTypeOK'
    <2>1. requests[r].swipe \in Swipe
      BY <1>5, <1>b DEF CommitSwipe, InHandler
    <2>2. \/ Reply(r, 500) /\ UNCHANGED swipes
          \/ Goto(r, "committed") /\ swipes' = swipes \cup {requests[r].swipe}
      BY <1>5 DEF CommitSwipe
    <2>3. UNCHANGED <<matches, queue, dropped, faults, outbox, streamTasks>>
      BY <1>5 DEF CommitSwipe
    <2>4. QED
      BY <1>a, <1>b, <2>1, <2>2, <2>3, ReplyMoves, GotoMoves
         DEF Status, RequestStage, InHandler
  <1>6. ASSUME NEW r \in Requests, Respond(r)
        PROVE  StoreTypeOK' /\ ApiTypeOK'
    <2>1. Reply(r, 202) /\ requests[r].swipe \in swipes
      BY <1>6, <1>b DEF Respond
    <2>2. QED
      BY <1>6, <1>a, <1>b, <2>1, ReplyMoves DEF Respond, Status, InHandler
  <1>7. ASSUME NEW r \in Requests, RequestFails(r)
        PROVE  StoreTypeOK' /\ ApiTypeOK'
    <2>1. Reply(r, 500) /\ dropped' \subseteq swipes
      BY <1>7, <1>b DEF RequestFails
    <2>2. faults' \in 0 .. MaxFaults
      BY <1>7, <1>b, FaultCounted DEF RequestFails
    <2>3. UNCHANGED <<tables, queue, outbox, streamTasks>>
      BY <1>7 DEF RequestFails
    <2>4. QED
      BY <1>a, <1>b, <2>1, <2>2, <2>3, ReplyMoves DEF Status, InHandler
  <1>8. ASSUME NEW s \in outbox, Publish(s)
        PROVE  StoreTypeOK' /\ ApiTypeOK'
    BY <1>8, <1>b DEF Publish
  <1>9. ASSUME NEW s \in outbox, PublishFails(s)
        PROVE  StoreTypeOK' /\ ApiTypeOK'
    BY <1>9, <1>b, FaultCounted DEF PublishFails
  <1>10. ASSUME ApiCrash
         PROVE  StoreTypeOK' /\ ApiTypeOK'
    <2>1. dropped' \subseteq swipes /\ outbox' = {}
      BY <1>10, <1>b DEF ApiCrash
    <2>2. faults' \in 0 .. MaxFaults
      BY <1>10, <1>b, FaultCounted DEF ApiCrash
    <2>3. UNCHANGED <<tables, queue, streamTasks>>
      BY <1>10 DEF ApiCrash
    <2>4. QED
      BY <1>10, <1>a, <1>b, <2>1, <2>2, <2>3, CrashMoves DEF InHandler
  <1>11. StoreTypeOK' /\ ApiTypeOK'
    BY <1>2, <1>3, <1>4, <1>5, <1>6, <1>7, <1>8, <1>9, <1>10
       DEF ApiNext, Handle
  <1>12. ProcTypeOK'
    <2>1. swipes \subseteq swipes' /\ matches' = matches
      <3>1. ASSUME NEW r \in Requests, CommitSwipe(r)
            PROVE  swipes \subseteq swipes' /\ matches' = matches
        BY <3>1 DEF CommitSwipe
      <3>2. QED
        BY <3>1 DEF ApiNext, ReceiveRefused, Receive, Handle, CheckDuplicate,
                    Respond, RequestFails, Publish, PublishFails, ApiCrash
    <2>2. QED BY <1>1, <2>1 DEF TypeOK, ProcTypeOK, procVars, Idle
  <1>13. QED BY <1>11, <1>12 DEF TypeOK

(* A step of the processor keeps the types. *)
LEMMA ProcKeepsTypes ==
    ASSUME TypeOK, ProcNext, UNCHANGED apiVars
    PROVE  TypeOK'
  <1> USE DEF StoreTypeOK, ProcTypeOK, tables
  <1>a. /\ tasks \in [Tasks -> Task]
        /\ StoreTypeOK /\ ProcTypeOK
        /\ queue \subseteq Swipe
    BY DEF TypeOK
  <1>b. \A t \in Tasks : tasks[t].live => tasks[t].event \in swipes
    BY <1>a DEF Idle
  <1>c. \A T \in SUBSET Tasks : CutOff(T) \subseteq matches
    BY <1>a DEF CutOff, Untold, Announcing
  <1>1. ASSUME NEW t \in Tasks, NEW e \in queue, Deliver(t, e)
        PROVE  StoreTypeOK' /\ ProcTypeOK'
    <2>1. Cardinality(Live') <= Prefetch
      BY <1>1, <1>a, DeliverMoves, PrefetchFilled DEF Deliver
    <2>2. UNCHANGED <<tables, dropped, faults, sent, matchEvents, silenced>> /\ queue' \subseteq queue
      BY <1>1 DEF Deliver
    <2>3. \A x \in Tasks :
             IF tasks'[x].stage = "idle" THEN tasks'[x] = Idle
                                         ELSE tasks'[x].event \in swipes'
      BY <1>1, <1>a, <2>2, DeliverMoves
    <2>4. \A x \in Tasks :
             tasks'[x].stage \in Announcing => Row(tasks'[x].event) \in matches'
      BY <1>1, <1>a, <2>2, DeliverMoves DEF Announcing
    <2>5. QED BY <1>1, <1>a, <2>1, <2>2, <2>3, <2>4, DeliverMoves
  <1>2. ASSUME NEW t \in Tasks, tasks[t].stage # "idle",
               NEW stage \in TaskStage \ {"idle"}, GotoStage(t, stage),
               matches \subseteq matches', matches' \subseteq Users \X Users,
               dropped' \subseteq swipes, faults' \in 0 .. MaxFaults,
               sent' \in [Notice -> Nat], matchEvents' \subseteq matches',
               silenced' \subseteq matches',
               stage \in Announcing => Row(tasks[t].event) \in matches',
               UNCHANGED <<swipes, queue>>
        PROVE  StoreTypeOK' /\ ProcTypeOK'
    <2>1. /\ tasks' \in [Tasks -> Task]
          /\ tasks'[t].stage = stage
          /\ tasks'[t].event = tasks[t].event
          /\ \A x \in Tasks \ {t} : tasks'[x] = tasks[x]
          /\ Live' = Live
      BY <1>2, <1>a, GotoStageMoves
    <2>2. \A x \in Tasks :
             IF tasks'[x].stage = "idle" THEN tasks'[x] = Idle
                                         ELSE tasks'[x].event \in swipes'
      BY <1>2, <1>a, <2>1
    <2>3. \A x \in Tasks :
             tasks'[x].stage \in Announcing => Row(tasks'[x].event) \in matches'
      BY <1>2, <1>a, <2>1
    <2>4. Cardinality(Live') <= Prefetch
      BY <1>a, <2>1
    <2>5. StoreTypeOK'
      BY <1>2, <1>a
    <2>6. QED BY <1>2, <2>1, <2>2, <2>3, <2>4, <2>5
  <1>3. ASSUME NEW t \in Tasks, FindReverse(t)
        PROVE  StoreTypeOK' /\ ProcTypeOK'
    <2>1. GotoStage(t, "existing") \/ GotoStage(t, "ack")
      BY <1>3 DEF FindReverse
    <2>2. tasks[t].stage = "reverse"
          /\ UNCHANGED <<tables, queue, dropped, faults, sent, matchEvents, silenced>>
      BY <1>3 DEF FindReverse
    <2>3. QED BY <1>a, <1>2, <2>1, <2>2 DEF TaskStage, Looking, Announcing
  <1>4. ASSUME NEW t \in Tasks, FindExisting(t)
        PROVE  StoreTypeOK' /\ ProcTypeOK'
    <2>1. GotoStage(t, "insert") \/ GotoStage(t, "ack")
      BY <1>4 DEF FindExisting
    <2>2. tasks[t].stage = "existing"
          /\ UNCHANGED <<tables, queue, dropped, faults, sent, matchEvents, silenced>>
      BY <1>4 DEF FindExisting
    <2>3. QED BY <1>a, <1>2, <2>1, <2>2 DEF TaskStage, Looking, Announcing
  <1>5. ASSUME NEW t \in Tasks, Insert(t)
        PROVE  StoreTypeOK' /\ ProcTypeOK'
    <2>1. tasks[t].event \in Swipe
      BY <1>5, <1>a DEF Insert
    <2>2. Row(tasks[t].event) \in Users \X Users
      BY <2>1 DEF Row, Swipe
    <2>3. \/ GotoStage(t, "ack") /\ matches' = matches
          \/ /\ GotoStage(t, "notifySwiper")
             /\ matches' = matches \cup {Row(tasks[t].event)}
      BY <1>5 DEF Insert
    <2>4. tasks[t].stage = "insert"
          /\ UNCHANGED <<swipes, queue, dropped, faults, sent, matchEvents, silenced>>
      BY <1>5 DEF Insert
    <2>5. CASE GotoStage(t, "ack") /\ matches' = matches
      BY <1>a, <1>2, <2>4, <2>5 DEF TaskStage, Announcing
    <2>6. CASE /\ GotoStage(t, "notifySwiper")
               /\ matches' = matches \cup {Row(tasks[t].event)}
      BY <1>a, <1>2, <2>2, <2>4, <2>6 DEF TaskStage, Announcing
    <2>7. QED BY <2>3, <2>5, <2>6
  <1>6. ASSUME NEW n \in Notice, sent' = [sent EXCEPT ![n] = @ + 1]
        PROVE  sent' \in [Notice -> Nat]
    BY <1>6, <1>a
  <1>7. ASSUME NEW t \in Tasks, NotifySwiper(t)
        PROVE  StoreTypeOK' /\ ProcTypeOK'
    <2>1. /\ tasks[t].stage = "notifySwiper"
          /\ sent' = [sent EXCEPT ![SwiperNotice(tasks[t].event)] = @ + 1]
          /\ GotoStage(t, "notifyTarget")
          /\ UNCHANGED <<tables, queue, dropped, faults, matchEvents, silenced>>
      BY <1>7 DEF NotifySwiper
    <2>2. tasks[t].event \in Swipe BY <1>a, <2>1
    <2>3. sent' \in [Notice -> Nat]
      BY <1>6, <2>1, <2>2 DEF SwiperNotice, Notice, Row, Swipe
    <2>4. QED BY <1>a, <1>2, <2>1, <2>3 DEF TaskStage, Announcing
  <1>8. ASSUME NEW t \in Tasks, NotifyTarget(t)
        PROVE  StoreTypeOK' /\ ProcTypeOK'
    <2>1. /\ tasks[t].stage = "notifyTarget"
          /\ sent' = [sent EXCEPT ![TargetNotice(tasks[t].event)] = @ + 1]
          /\ GotoStage(t, "stream")
          /\ UNCHANGED <<tables, queue, dropped, faults, matchEvents, silenced>>
      BY <1>8 DEF NotifyTarget
    <2>2. tasks[t].event \in Swipe BY <1>a, <2>1
    <2>3. sent' \in [Notice -> Nat]
      BY <1>6, <2>1, <2>2 DEF TargetNotice, Notice, Row, Swipe
    <2>4. QED BY <1>a, <1>2, <2>1, <2>3 DEF TaskStage, Announcing
  <1>9. ASSUME NEW t \in Tasks, Stream(t)
        PROVE  StoreTypeOK' /\ ProcTypeOK'
    <2>1. /\ tasks[t].stage = "stream"
          /\ GotoStage(t, "ack")
          /\ UNCHANGED <<tables, queue, dropped, faults, sent, silenced>>
      BY <1>9 DEF Stream
    <2>2. matchEvents' \subseteq matches'
      BY <1>9, <1>a, <2>1 DEF Stream, Announcing
    <2>3. QED BY <1>a, <1>2, <2>1, <2>2 DEF TaskStage, Announcing
  <1>10. ASSUME NEW t \in Tasks, Ack(t)
         PROVE  StoreTypeOK' /\ ProcTypeOK'
    <2>1. Cardinality(Live') <= Prefetch
      BY <1>10, <1>a, AckMoves, PrefetchKept
    <2>2. UNCHANGED <<tables, queue, dropped, faults, sent, matchEvents, silenced>>
      BY <1>10 DEF Ack
    <2>3. \A x \in Tasks : tasks'[x] = Idle \/ tasks'[x] = tasks[x]
      BY <1>10, <1>a, AckMoves
    <2>4. QED
      <3>1. Idle.stage = "idle" /\ Idle.stage \notin Announcing
        BY DEF Idle, Announcing
      <3>2. QED BY <1>10, <1>a, <2>1, <2>2, <2>3, <3>1, AckMoves
  <1>11. ASSUME NEW t \in Tasks, Raise(t)
         PROVE  StoreTypeOK' /\ ProcTypeOK'
    <2>1. faults' \in 0 .. MaxFaults
      BY <1>11, <1>a, FaultCounted DEF Raise
    <2>2. tasks[t].stage # "idle" /\ dropped' \subseteq swipes
      BY <1>11, <1>a DEF Raise, Looking, Announcing
    <2>3. GotoStage(t, "ack") /\ UNCHANGED <<tables, queue, sent, matchEvents>>
      BY <1>11 DEF Raise
    <2>4. silenced' \subseteq matches
      BY <1>11, <1>a, <1>c DEF Raise
    <2>5. QED BY <1>a, <1>2, <2>1, <2>2, <2>3, <2>4 DEF TaskStage, Announcing
  <1>12. Requeued \subseteq swipes
    BY <1>a, <1>b DEF Requeued, Live
  <1>13. ASSUME Live' = {}
         PROVE  Cardinality(Live') <= Prefetch
    BY <1>13, FS_EmptySet, ProcessorAssumption
  <1>14. ASSUME ProcessorCrash
         PROVE  StoreTypeOK' /\ ProcTypeOK'
    <2>1. faults' \in 0 .. MaxFaults
      BY <1>14, <1>a, FaultCounted DEF ProcessorCrash
    <2>2. queue' = Requeued /\ UNCHANGED <<tables, dropped, sent, matchEvents>>
      BY <1>14 DEF ProcessorCrash
    <2>a. silenced' \subseteq matches
      BY <1>14, <1>a, <1>c DEF ProcessorCrash
    <2>3. QED
      <3>1. Idle.stage = "idle" /\ Idle.stage \notin Announcing
        BY DEF Idle, Announcing
      <3>2. QED
        BY <1>14, <1>a, <1>12, <1>13, <2>1, <2>2, <2>a, <3>1, ProcessorCrashMoves
  <1>15. ASSUME ConnectionLost
         PROVE  StoreTypeOK' /\ ProcTypeOK'
    <2>1. faults' \in 0 .. MaxFaults
      BY <1>15, <1>a, FaultCounted DEF ConnectionLost
    <2>2. queue' = Requeued /\ UNCHANGED <<tables, dropped, sent, matchEvents>>
      BY <1>15 DEF ConnectionLost
    <2>a. silenced' \subseteq matches
      BY <1>15, <1>a, <1>c DEF ConnectionLost, Live
    <2>3. \A t \in Tasks :
             IF tasks'[t].stage = "idle" THEN tasks'[t] = Idle
                                         ELSE tasks'[t].event \in swipes'
      <3>1. \A t \in Tasks :
               tasks[t].stage = "idle" /\ tasks'[t] # Idle => FALSE
        BY <1>15, <1>a, ConnectionLostMoves
      <3>2. ASSUME NEW t \in Tasks, tasks'[t] # Idle
            PROVE  tasks'[t].stage # "idle" /\ tasks'[t].event \in swipes'
        BY <1>15, <1>a, <2>2, <3>1, <3>2, ConnectionLostMoves
      <3>3. Idle.stage = "idle" BY DEF Idle
      <3>4. QED BY <3>2, <3>3
    <2>4. \A t \in Tasks :
             tasks'[t].stage \in Announcing => Row(tasks'[t].event) \in matches'
      <3>1. Idle.stage \notin Announcing BY DEF Idle, Announcing
      <3>2. QED BY <1>15, <1>a, <2>2, <3>1, ConnectionLostMoves
    <2>5. QED
      BY <1>15, <1>a, <1>12, <1>13, <2>1, <2>2, <2>a, <2>3, <2>4, ConnectionLostMoves
  <1>16. StoreTypeOK' /\ ProcTypeOK'
    BY <1>1, <1>3, <1>4, <1>5, <1>7, <1>8, <1>9, <1>10, <1>11, <1>14, <1>15
       DEF ProcNext, TaskStep
  <1>17. ApiTypeOK'
    <2>1. UNCHANGED swipes
      BY DEF ProcNext, TaskStep, Deliver, FindReverse, FindExisting, Insert,
             NotifySwiper, NotifyTarget, Stream, Ack, Raise, ProcessorCrash,
             ConnectionLost
    <2>2. QED BY <2>1 DEF TypeOK, ApiTypeOK, apiVars, InHandler
  <1>18. QED BY <1>16, <1>17 DEF TypeOK

(* Type correctness: the tables, the queue, the requests and the handlers  *)
(* have their types, every event stands for a committed swipe, a row is    *)
(* announced only when it is committed, and no more deliveries are         *)
(* unacknowledged than the prefetch allows.                                *)
THEOREM TypeCorrect == Spec => []TypeOK
  <1>1. Init => TypeOK
    <2> SUFFICES ASSUME Init PROVE TypeOK
      OBVIOUS
    <2> USE DEF Init, StoreInit, ApiInit, ProcInit
    <2>1. StoreTypeOK BY StoreAssumption DEF StoreTypeOK
    <2>2. ApiTypeOK
      BY DEF ApiTypeOK, Unsent, Request, RequestStage, Status, InHandler
    <2>3. Idle \in Task BY DEF Idle, Task, TaskStage
    <2>4. Live = {} BY DEF Live, Idle
    <2>5. Cardinality(Live) <= Prefetch
      BY <2>4, FS_EmptySet, ProcessorAssumption
    <2>6. Idle.stage = "idle" /\ Idle.stage \notin Announcing
      BY DEF Idle, Announcing
    <2>7. ProcTypeOK
      BY <2>3, <2>5, <2>6 DEF ProcTypeOK
    <2>8. QED BY <2>1, <2>2, <2>7 DEF TypeOK
  <1>2. TypeOK /\ [Next]_vars => TypeOK'
    <2> SUFFICES ASSUME TypeOK, [Next]_vars PROVE TypeOK'
      OBVIOUS
    <2>1. CASE ApiNext /\ UNCHANGED procVars BY <2>1, ApiKeepsTypes
    <2>2. CASE ProcNext /\ UNCHANGED apiVars BY <2>2, ProcKeepsTypes
    <2>3. CASE UNCHANGED vars
      <3>1. Live' = Live BY <2>3 DEF vars, procVars, Live
      <3>2. QED
        BY <2>3, <3>1 DEF vars, apiVars, procVars, TypeOK, StoreTypeOK,
                          ApiTypeOK, ProcTypeOK
    <2>4. QED BY <2>1, <2>2, <2>3 DEF Next
  <1>3. QED BY <1>1, <1>2, PTL DEF Spec

-----------------------------------------------------------------------------
(* No step removes a swipe, and rows come from Insert alone. *)
LEMMA TablesGrow ==
    ASSUME [Next]_vars
    PROVE  /\ swipes \subseteq swipes'
           /\ \/ matches' = matches
              \/ \E t \in Tasks :
                    /\ Insert(t)
                    /\ ~ViolatesUnique(tasks[t].event)
                    /\ matches' = matches \cup {Row(tasks[t].event)}
  <1>1. CASE ApiNext /\ UNCHANGED procVars
    <2>1. ASSUME NEW r \in Requests, CommitSwipe(r)
          PROVE  swipes \subseteq swipes' /\ matches' = matches
      BY <2>1 DEF CommitSwipe
    <2>2. QED
      BY <1>1, <2>1
         DEF ApiNext, ReceiveRefused, Receive, Handle, CheckDuplicate, Respond,
             RequestFails, Publish, PublishFails, ApiCrash, tables
  <1>2. CASE ProcNext /\ UNCHANGED apiVars
    <2>1. ASSUME NEW t \in Tasks, Insert(t)
          PROVE  /\ swipes' = swipes
                 /\ \/ matches' = matches
                    \/ /\ ~ViolatesUnique(tasks[t].event)
                       /\ matches' = matches \cup {Row(tasks[t].event)}
      BY <2>1 DEF Insert
    <2>2. QED
      BY <1>2, <2>1
         DEF ProcNext, TaskStep, Deliver, FindReverse, FindExisting,
             NotifySwiper, NotifyTarget, Stream, Ack, Raise, ProcessorCrash,
             ConnectionLost, tables
  <1>3. CASE UNCHANGED vars BY <1>3 DEF vars
  <1>4. QED BY <1>1, <1>2, <1>3 DEF Next

(* How a handler can have come to where it is after a step of the          *)
(* processor: it rests or is about to acknowledge, it did not move, or it  *)
(* took the one step that leads there, with the event it has.              *)
Moved(t, from, to) ==
    /\ tasks[t].stage = from
    /\ tasks'[t].stage = to
    /\ tasks'[t].event = tasks[t].event

LEMMA HandlerOrigin ==
    ASSUME TypeOK, ProcNext, NEW x \in Tasks
    PROVE  \/ tasks'[x].stage \in {"idle", "ack"}
           \/ /\ tasks'[x].stage = tasks[x].stage
              /\ tasks'[x].event = tasks[x].event
           \/ /\ tasks'[x].stage = "reverse"
              /\ tasks'[x].event \in queue
              /\ tasks'[x].event.direction = "like"
           \/ Moved(x, "reverse", "existing") /\ Reciprocated(tasks[x].event)
           \/ /\ Moved(x, "existing", "insert")
              /\ ExistingRows(tasks[x].event) = {}
           \/ /\ Moved(x, "insert", "notifySwiper")
              /\ Insert(x)
              /\ Row(tasks[x].event) \notin matches
           \/ Moved(x, "notifySwiper", "notifyTarget") /\ NotifySwiper(x)
           \/ Moved(x, "notifyTarget", "stream") /\ NotifyTarget(x)
  <1>a. tasks \in [Tasks -> Task] /\ queue \subseteq Swipe
    BY DEF TypeOK, StoreTypeOK, ProcTypeOK
  <1>b. Idle.stage = "idle" BY DEF Idle
  <1> DEFINE Stays == /\ tasks'[x].stage = tasks[x].stage
                      /\ tasks'[x].event = tasks[x].event
  <1>1. ASSUME NEW t \in Tasks, NEW e \in queue, Deliver(t, e)
        PROVE  \/ Stays \/ tasks'[x].stage = "ack"
               \/ /\ tasks'[x].stage = "reverse"
                  /\ tasks'[x].event \in queue
                  /\ tasks'[x].event.direction = "like"
    BY <1>1, <1>a, DeliverMoves DEF FirstStage
  <1>2. ASSUME NEW t \in Tasks, FindReverse(t)
        PROVE  \/ Stays \/ tasks'[x].stage = "ack"
               \/ Moved(x, "reverse", "existing") /\ Reciprocated(tasks[x].event)
    BY <1>2, <1>a, GotoStageMoves DEF FindReverse, Moved, TaskStage, Looking
  <1>3. ASSUME NEW t \in Tasks, FindExisting(t)
        PROVE  \/ Stays \/ tasks'[x].stage = "ack"
               \/ /\ Moved(x, "existing", "insert")
                  /\ ExistingRows(tasks[x].event) = {}
    BY <1>3, <1>a, GotoStageMoves DEF FindExisting, Moved, TaskStage, Looking
  <1>4. ASSUME NEW t \in Tasks, Insert(t)
        PROVE  \/ Stays \/ tasks'[x].stage = "ack"
               \/ /\ Moved(x, "insert", "notifySwiper")
                  /\ Insert(x)
                  /\ Row(tasks[x].event) \notin matches
    BY <1>4, <1>a, GotoStageMoves
       DEF Insert, ViolatesUnique, Moved, TaskStage, Announcing
  <1>5. ASSUME NEW t \in Tasks, NotifySwiper(t)
        PROVE  \/ Stays
               \/ Moved(x, "notifySwiper", "notifyTarget") /\ NotifySwiper(x)
    BY <1>5, <1>a, GotoStageMoves DEF NotifySwiper, Moved, TaskStage, Announcing
  <1>6. ASSUME NEW t \in Tasks, NotifyTarget(t)
        PROVE  \/ Stays
               \/ Moved(x, "notifyTarget", "stream") /\ NotifyTarget(x)
    BY <1>6, <1>a, GotoStageMoves DEF NotifyTarget, Moved, TaskStage, Announcing
  <1>7. ASSUME NEW t \in Tasks, Stream(t) \/ Raise(t)
        PROVE  Stays \/ tasks'[x].stage = "ack"
    BY <1>7, <1>a, GotoStageMoves DEF Stream, Raise, TaskStage
  <1>8. ASSUME NEW t \in Tasks, Ack(t)
        PROVE  Stays \/ tasks'[x].stage = "idle"
    BY <1>8, <1>a, <1>b, AckMoves
  <1>9. ASSUME ProcessorCrash \/ ConnectionLost
        PROVE  Stays \/ tasks'[x].stage = "idle"
    BY <1>9, <1>a, <1>b, ProcessorCrashMoves, ConnectionLostMoves
  <1>10. QED
    BY <1>1, <1>2, <1>3, <1>4, <1>5, <1>6, <1>7, <1>8, <1>9
       DEF ProcNext, TaskStep

-----------------------------------------------------------------------------
(* What the theorem on rows rests on: SwipesOfOthers and HandlersSawLikes. *)
MutualInv == SwipesOfOthers /\ HandlersSawLikes /\ MatchesAreMutual

LEMMA SwipesOfOthersKept ==
    ASSUME TypeOK, SwipesOfOthers, [Next]_vars
    PROVE  SwipesOfOthers'
  <1> USE DEF SwipesOfOthers
  <1>a. requests \in [Requests -> Request] BY DEF TypeOK, ApiTypeOK
  <1>1. ASSUME NEW r \in Requests,
               \/ ReceiveRefused(r) \/ CheckDuplicate(r)
               \/ Respond(r) \/ RequestFails(r)
        PROVE  SwipesOfOthers'
    <2>1. /\ swipes' = swipes
          /\ \/ \E status \in Status : Reply(r, status)
             \/ Goto(r, "commit") /\ requests[r].stage \in InHandler
      BY <1>1 DEF ReceiveRefused, CheckDuplicate, Respond, RequestFails,
                  Status, InHandler, tables
    <2>2. QED
      BY <1>a, <2>1, ReplyMoves, GotoMoves DEF RequestStage, InHandler
  <1>2. ASSUME NEW r \in Requests, NEW s \in Swipe, Receive(r, s)
        PROVE  SwipesOfOthers'
    <2>1. swipes' = swipes /\ s.swiper # s.target
      BY <1>2 DEF Receive, tables
    <2>2. QED BY <1>2, <1>a, <2>1, ReceiveMoves
  <1>3. ASSUME NEW r \in Requests, CommitSwipe(r)
        PROVE  SwipesOfOthers'
    <2>1. /\ requests[r].stage \in InHandler
          /\ \/ Reply(r, 500) /\ UNCHANGED swipes
             \/ Goto(r, "committed") /\ swipes' = swipes \cup {requests[r].swipe}
      BY <1>3 DEF CommitSwipe, InHandler
    <2>2. QED
      BY <1>a, <2>1, ReplyMoves, GotoMoves DEF Status, RequestStage, InHandler
  <1>4. ASSUME NEW s, Publish(s) \/ PublishFails(s)
        PROVE  SwipesOfOthers'
    BY <1>4 DEF Publish, PublishFails, tables
  <1>5. ASSUME ApiCrash PROVE SwipesOfOthers'
    <2>1. swipes' = swipes BY <1>5 DEF ApiCrash, tables
    <2>2. QED BY <1>5, <1>a, <2>1, CrashMoves
  <1>6. ASSUME ProcNext, UNCHANGED apiVars PROVE SwipesOfOthers'
    <2>1. swipes' = swipes
      BY <1>6 DEF ProcNext, TaskStep, Deliver, FindReverse, FindExisting,
                  Insert, NotifySwiper, NotifyTarget, Stream, Ack, Raise,
                  ProcessorCrash, ConnectionLost, tables
    <2>2. QED BY <1>6, <2>1 DEF apiVars
  <1>7. ASSUME UNCHANGED vars PROVE SwipesOfOthers'
    BY <1>7 DEF vars, apiVars
  <1>8. QED
    BY <1>1, <1>2, <1>3, <1>4, <1>5, <1>6, <1>7 DEF Next, ApiNext, Handle

LEMMA HandlersSawLikesKept ==
    ASSUME TypeOK, HandlersSawLikes, [Next]_vars
    PROVE  HandlersSawLikes'
  <1> USE DEF HandlersSawLikes
  <1>1. \A e : Reciprocated(e) => Reciprocated(e)'
    BY TablesGrow DEF Reciprocated, Liked
  <1>2. CASE ProcNext
    <2> SUFFICES ASSUME NEW t \in Tasks
                 PROVE  /\ tasks'[t].stage \in Looking \cup Announcing =>
                              tasks'[t].event.direction = "like"
                        /\ tasks'[t].stage \in {"existing", "insert"} \cup Announcing =>
                              Reciprocated(tasks[t].event)'
      OBVIOUS
    <2>1. \A e : Reciprocated(e) => Liked(e.target, e.swiper)'
      BY TablesGrow DEF Reciprocated, Liked
    <2>2. QED
      BY <1>2, <2>1, HandlerOrigin DEF Moved, Looking, Announcing, Reciprocated
  <1>3. CASE UNCHANGED procVars
    BY <1>3, TablesGrow DEF procVars, Reciprocated, Liked
  <1>4. QED BY <1>2, <1>3 DEF Next, vars

LEMMA RowsInit == Init => MutualInv
  BY DEF Init, StoreInit, ApiInit, ProcInit, MutualInv, SwipesOfOthers,
         HandlersSawLikes, MatchesAreMutual, Unsent, InHandler, Idle,
         Looking, Announcing

LEMMA RowsKept ==
    ASSUME TypeOK, MutualInv, [Next]_vars
    PROVE  MutualInv'
  <1>1. SwipesOfOthers' /\ HandlersSawLikes'
    <2>1. SwipesOfOthers /\ HandlersSawLikes BY DEF MutualInv
    <2>2. SwipesOfOthers' BY <2>1, SwipesOfOthersKept
    <2>3. HandlersSawLikes' BY <2>1, HandlersSawLikesKept
    <2>4. QED BY <2>2, <2>3
  <1>2. \A u, v : Mutual(u, v) => Mutual(u, v)'
    BY TablesGrow DEF Mutual, Liked
  <1>3. ASSUME matches' = matches
        PROVE  MatchesAreMutual'
    BY <1>2, <1>3 DEF MutualInv, MatchesAreMutual
  <1>4. ASSUME NEW t \in Tasks, Insert(t),
               matches' = matches \cup {Row(tasks[t].event)}
        PROVE  MatchesAreMutual'
    <2> DEFINE e == tasks[t].event
    <2>1. tasks[t].stage = "insert" BY <1>4 DEF Insert
    <2>2. e \in swipes /\ e \in Swipe
      BY <2>1 DEF TypeOK, ProcTypeOK, StoreTypeOK
    <2>3. e.direction = "like" /\ Liked(e.target, e.swiper)
      BY <2>1 DEF MutualInv, HandlersSawLikes, Looking, Reciprocated
    <2>4. Liked(e.swiper, e.target)
      BY <2>2, <2>3 DEF Liked, Swipe
    <2>5. Mutual(e.swiper, e.target)
      BY <2>2, <2>3, <2>4 DEF MutualInv, SwipesOfOthers, Mutual
    <2>6. Row(e)[1] = e.swiper /\ Row(e)[2] = e.target BY DEF Row
    <2>7. QED
      BY <1>2, <1>4, <2>5, <2>6 DEF MutualInv, MatchesAreMutual
  <1>5. MatchesAreMutual'
    <2>1. \/ matches' = matches
          \/ \E t \in Tasks :
                Insert(t) /\ matches' = matches \cup {Row(tasks[t].event)}
      BY TablesGrow
    <2>2. QED BY <1>3, <1>4, <2>1
  <1>6. QED BY <1>1, <1>5 DEF MutualInv

(* Every row of the table of matches joins two users who like each other,  *)
(* however handlers overlap, crash and are given their events again        *)
(* (process_swipe looks for the reverse like before it inserts).           *)
THEOREM RowsAreMutual == Spec => []MatchesAreMutual
  <1>1. MutualInv => MatchesAreMutual BY DEF MutualInv
  <1>2. QED BY <1>1, RowsInit, RowsKept, TypeCorrect, PTL DEF Spec

-----------------------------------------------------------------------------
(* One user's like of another is still to be looked at, or was lost. *)
LikeOf(u, v) == [swiper |-> u, target |-> v, direction |-> "like"]

Pending(u, v) == Open(u, v) \/ Dropped(u, v)

(* The API puts every like it commits on its way and takes none off it. *)
LEMMA ApiKeepsPending ==
    ASSUME TypeOK, ApiNext, UNCHANGED procVars, NEW u \in Users, NEW v \in Users,
           Liked(u, v)', Liked(u, v) => Pending(u, v)
    PROVE  Pending(u, v)'
  <1> DEFINE e == LikeOf(u, v)
             Way == \/ \E r \in Requests : requests[r].stage = "committed"
                                            /\ requests[r].swipe = e
                    \/ e \in outbox \cup queue \cup dropped
             Held == \E t \in Live : tasks[t].stage \in Looking /\ tasks[t].event = e
  <1>a. requests \in [Requests -> Request] BY DEF TypeOK, ApiTypeOK
  <1>b. Pending(u, v) <=> Way \/ Held
    BY DEF Pending, Open, Dropped, LikeOf
  <1>c. Pending(u, v)' <=> Way' \/ Held'
    BY DEF Pending, Open, Dropped, LikeOf
  <1>d. Held' <=> Held
    BY DEF procVars, Live
  <1>e. Liked(u, v) <=> e \in swipes BY DEF Liked, LikeOf
  <1>f. e \in swipes' BY DEF Liked, LikeOf
  <1> HIDE DEF e, Held
  <1>1. ASSUME NEW r \in Requests, ReceiveRefused(r) \/ CheckDuplicate(r)
        PROVE  swipes' = swipes /\ (Way => Way')
    <2>1. /\ requests[r].stage \in {"unsent", "duplicate"}
          /\ \/ \E status \in Status : Reply(r, status)
             \/ Goto(r, "commit")
          /\ UNCHANGED <<swipes, outbox, queue, dropped>>
      BY <1>1 DEF ReceiveRefused, CheckDuplicate, Status, tables
    <2>2. QED BY <1>a, <2>1, ReplyMoves, GotoMoves DEF RequestStage
  <1>2. ASSUME NEW r \in Requests, NEW s \in Swipe, Receive(r, s)
        PROVE  swipes' = swipes /\ (Way => Way')
    <2>1. requests[r].stage = "unsent" /\ UNCHANGED <<swipes, outbox, queue, dropped>>
      BY <1>2 DEF Receive, tables
    <2>2. QED BY <1>2, <1>a, <2>1, ReceiveMoves
  <1>3. ASSUME NEW r \in Requests, CommitSwipe(r)
        PROVE  (e \in swipes' => e \in swipes \/ Way') /\ (Way => Way')
    <2>1. /\ requests[r].stage = "commit"
          /\ \/ Reply(r, 500) /\ UNCHANGED swipes
             \/ Goto(r, "committed") /\ swipes' = swipes \cup {requests[r].swipe}
          /\ UNCHANGED <<outbox, queue, dropped>>
      BY <1>3 DEF CommitSwipe
    <2>2. QED BY <1>a, <2>1, ReplyMoves, GotoMoves DEF Status, RequestStage
  <1>4. ASSUME NEW r \in Requests, Respond(r)
        PROVE  swipes' = swipes /\ (Way => Way')
    <2>1. /\ requests[r].stage = "committed" /\ Reply(r, 202)
          /\ outbox' = outbox \cup {requests[r].swipe}
          /\ UNCHANGED <<swipes, queue, dropped>>
      BY <1>4 DEF Respond, tables
    <2>2. QED BY <1>a, <2>1, ReplyMoves DEF Status
  <1>5. ASSUME NEW r \in Requests, RequestFails(r)
        PROVE  swipes' = swipes /\ (Way => Way')
    <2>1. /\ Reply(r, 500)
          /\ dropped' = IF requests[r].stage = "committed"
                        THEN dropped \cup {requests[r].swipe} ELSE dropped
          /\ UNCHANGED <<swipes, queue, outbox>>
      BY <1>5 DEF RequestFails, tables
    <2>2. QED BY <1>a, <2>1, ReplyMoves DEF Status
  <1>6. ASSUME NEW s \in outbox, Publish(s) \/ PublishFails(s)
        PROVE  swipes' = swipes /\ (Way => Way')
    BY <1>6 DEF Publish, PublishFails, tables
  <1>7. ASSUME ApiCrash
        PROVE  swipes' = swipes /\ (Way => Way')
    <2>1. ASSUME NEW r \in Requests, requests[r].stage = "committed"
          PROVE  requests[r].swipe \in dropped'
      BY <1>7, <2>1 DEF ApiCrash, InHandler
    <2>2. outbox \cup dropped \subseteq dropped' /\ UNCHANGED <<swipes, queue>>
      BY <1>7 DEF ApiCrash, tables
    <2>3. QED BY <2>1, <2>2
  <1>8. (e \in swipes' => e \in swipes \/ Way') /\ (Way => Way')
    BY <1>1, <1>2, <1>3, <1>4, <1>5, <1>6, <1>7 DEF ApiNext, Handle
  <1>9. QED BY <1>b, <1>c, <1>d, <1>e, <1>f, <1>8

(* The processor lets go of a pending like only when the other user has    *)
(* not liked, or when the pair has its row.                                *)
LEMMA ProcKeepsPending ==
    ASSUME TypeOK, HandlersSawLikes, ProcNext, UNCHANGED apiVars,
           NEW u \in Users, NEW v \in Users,
           Liked(v, u), Pending(u, v), ~Matched(u, v)'
    PROVE  Pending(u, v)'
  <1> DEFINE e == LikeOf(u, v)
             AtRequest == \E r \in Requests : requests[r].stage = "committed"
                                             /\ requests[r].swipe = e
             Held == \E t \in Live : tasks[t].stage \in Looking /\ tasks[t].event = e
  <1>a. tasks \in [Tasks -> Task] /\ queue \subseteq Swipe
    BY DEF TypeOK, StoreTypeOK, ProcTypeOK
  <1>b. Pending(u, v) <=> AtRequest \/ e \in outbox \cup queue \cup dropped \/ Held
    BY DEF Pending, Open, Dropped, LikeOf
  <1>c. Pending(u, v)' <=>
           AtRequest' \/ e \in outbox' \cup queue' \cup dropped' \/ Held'
    BY DEF Pending, Open, Dropped, LikeOf
  <1>d. (AtRequest' <=> AtRequest) /\ outbox' = outbox
    BY DEF apiVars
  <1>e. e.swiper = u /\ e.target = v /\ e.direction = "like"
    BY DEF LikeOf
  <1> HIDE DEF e, AtRequest
  <1> DEFINE Kept == e \in queue \cup dropped \/ Held =>
                       e \in queue' \cup dropped' \/ Held'
  <1>1. ASSUME NEW t \in Tasks, NEW f \in queue, Deliver(t, f)
        PROVE  Kept
    <2>1. tasks[t].stage = "idle" /\ queue' = queue \ {f} /\ dropped' = dropped
      BY <1>1 DEF Deliver
    <2>2. f = e => t \in Live' /\ tasks'[t].stage = "reverse" /\ tasks'[t].event = e
      BY <1>1, <1>a, <1>e, DeliverMoves DEF FirstStage
    <2>3. ASSUME NEW x \in Live, tasks[x].stage \in Looking, tasks[x].event = e
          PROVE  x \in Live' /\ tasks'[x].stage \in Looking /\ tasks'[x].event = e
      <3>1. x \in Tasks /\ x # t BY <2>1, <2>3 DEF Live, Looking
      <3>2. QED BY <1>1, <1>a, <2>3, <3>1, DeliverMoves
    <2>4. QED BY <2>1, <2>2, <2>3 DEF Looking
  <1>2. ASSUME NEW t \in Tasks, NEW stage \in TaskStage, GotoStage(t, stage),
               queue' = queue, dropped \subseteq dropped',
               tasks[t].stage \in Looking /\ tasks[t].event = e /\ tasks[t].live =>
                   stage \in Looking \/ e \in dropped'
        PROVE  Kept
    BY <1>2, <1>a, GotoStageMoves DEF Live
  <1>3. ASSUME NEW t \in Tasks, FindReverse(t)
        PROVE  Kept
    <2>1. UNCHANGED <<queue, dropped>> BY <1>3 DEF FindReverse
    <2>2. CASE Reciprocated(tasks[t].event)
      <3>1. GotoStage(t, "existing") BY <1>3, <2>2 DEF FindReverse
      <3>2. QED BY <1>2, <2>1, <3>1 DEF TaskStage, Looking
    <2>3. CASE ~Reciprocated(tasks[t].event)
      <3>1. GotoStage(t, "ack") BY <1>3, <2>3 DEF FindReverse
      <3>2. tasks[t].event # e BY <1>e, <2>3 DEF Reciprocated
      <3>3. QED BY <1>2, <2>1, <3>1, <3>2 DEF TaskStage
    <2>4. QED BY <2>2, <2>3
  <1>4. ASSUME NEW t \in Tasks, FindExisting(t)
        PROVE  Kept
    <2>1. UNCHANGED <<queue, dropped, matches>> BY <1>4 DEF FindExisting, tables
    <2>2. CASE ExistingRows(tasks[t].event) = {}
      <3>1. GotoStage(t, "insert") BY <1>4, <2>2 DEF FindExisting
      <3>2. QED BY <1>2, <2>1, <3>1 DEF TaskStage, Looking
    <2>3. CASE ExistingRows(tasks[t].event) # {}
      <3>1. GotoStage(t, "ack") BY <1>4, <2>3 DEF FindExisting
      <3>2. tasks[t].event # e BY <1>e, <2>1, <2>3 DEF ExistingRows, Matched
      <3>3. QED BY <1>2, <2>1, <3>1, <3>2 DEF TaskStage
    <2>4. QED BY <2>2, <2>3
  <1>5. ASSUME NEW t \in Tasks, Insert(t)
        PROVE  Kept
    <2>1. /\ UNCHANGED <<queue, dropped>>
          /\ GotoStage(t, "ack") \/ GotoStage(t, "notifySwiper")
          /\ Row(tasks[t].event) \in matches'
      BY <1>5 DEF Insert, ViolatesUnique
    <2>2. tasks[t].event # e BY <1>e, <2>1 DEF Row, Matched
    <2>3. QED BY <1>2, <2>1, <2>2 DEF TaskStage, Announcing
  <1>6. ASSUME NEW t \in Tasks, NotifySwiper(t) \/ NotifyTarget(t) \/ Stream(t)
        PROVE  Kept
    <2>1. /\ UNCHANGED <<queue, dropped>> /\ tasks[t].stage \notin Looking
          /\ \E stage \in TaskStage : GotoStage(t, stage)
      BY <1>6 DEF NotifySwiper, NotifyTarget, Stream, TaskStage, Looking, Announcing
    <2>2. QED BY <1>2, <2>1
  <1>7. ASSUME NEW t \in Tasks, Ack(t)
        PROVE  Kept
    <2>1. UNCHANGED <<queue, dropped>> /\ tasks[t].stage \notin Looking
      BY <1>7 DEF Ack, Looking
    <2>2. ASSUME NEW x \in Live, tasks[x].stage \in Looking, tasks[x].event = e
          PROVE  x \in Live' /\ tasks'[x].stage \in Looking /\ tasks'[x].event = e
      BY <1>7, <1>a, <2>1, <2>2, AckMoves DEF Live
    <2>3. QED BY <2>1, <2>2
  <1>8. ASSUME NEW t \in Tasks, Raise(t)
        PROVE  Kept
    <2>1. /\ queue' = queue /\ dropped \subseteq dropped' /\ GotoStage(t, "ack")
          /\ tasks[t].live /\ tasks[t].stage \in Looking => tasks[t].event \in dropped'
      BY <1>8 DEF Raise
    <2>2. QED BY <1>2, <2>1 DEF TaskStage
  <1>9. ASSUME ProcessorCrash \/ ConnectionLost
        PROVE  Kept
    <2>1. queue' = Requeued /\ dropped' = dropped
      BY <1>9 DEF ProcessorCrash, ConnectionLost
    <2>2. QED BY <2>1 DEF Requeued
  <1>10. Kept
    BY <1>1, <1>3, <1>4, <1>5, <1>6, <1>7, <1>8, <1>9 DEF ProcNext, TaskStep
  <1>11. QED BY <1>10, <1>b, <1>c, <1>d

(* Nothing but a failure takes a mutual like away from the processor       *)
(* before the pair has its row: the two handlers of a pair cannot each     *)
(* leave the match to the other, whatever they read and in which order     *)
(* (CommitSwipe, then the queue, then FindReverse to Insert).              *)
THEOREM NoMatchIsForgotten == Spec => []NoMatchForgotten
  <1> DEFINE Inv == HandlersSawLikes /\ NoMatchForgotten
  <1>1. Init => Inv
    BY DEF Init, StoreInit, ProcInit, HandlersSawLikes, NoMatchForgotten,
           Mutual, Liked, Idle, Looking, Announcing
  <1>2. TypeOK /\ Inv /\ [Next]_vars => Inv'
    <2> SUFFICES ASSUME TypeOK, Inv, [Next]_vars PROVE Inv'
      OBVIOUS
    <2>1. HandlersSawLikes' BY HandlersSawLikesKept
    <2>2. ASSUME NEW u \in Users, NEW v \in Users,
                 Mutual(u, v)', ~Matched(u, v)'
          PROVE  Pending(u, v)' \/ Pending(v, u)'
      <3>1. ~Matched(u, v) /\ ~Matched(v, u)'
        BY <2>2, TablesGrow DEF Matched
      <3>2. Mutual(u, v) => Pending(u, v) \/ Pending(v, u)
        BY <3>1 DEF NoMatchForgotten, Pending
      <3>3. Liked(u, v)' /\ Liked(v, u)' /\ u # v
        BY <2>2 DEF Mutual
      <3>4. Mutual(u, v) <=> Liked(u, v) /\ Liked(v, u)
        BY <3>3 DEF Mutual
      <3>5. CASE ApiNext /\ UNCHANGED procVars
        BY <3>2, <3>3, <3>4, <3>5, ApiKeepsPending
      <3>6. CASE ProcNext /\ UNCHANGED apiVars
        <4>1. Liked(u, v) /\ Liked(v, u)
          BY <3>3, <3>6 DEF Liked, ProcNext, TaskStep, Deliver, FindReverse,
             FindExisting, Insert, NotifySwiper, NotifyTarget, Stream, Ack,
             Raise, ProcessorCrash, ConnectionLost, tables
        <4>2. QED BY <2>2, <3>1, <3>2, <3>4, <3>6, <4>1, ProcKeepsPending
      <3>7. CASE UNCHANGED vars
        BY <3>2, <3>3, <3>4, <3>7
           DEF vars, apiVars, procVars, Liked, Pending, Open, Dropped, Live
      <3>8. QED BY <3>5, <3>6, <3>7 DEF Next
    <2>3. NoMatchForgotten'
      BY <2>2 DEF NoMatchForgotten, Pending
    <2>4. QED BY <2>1, <2>3
  <1>3. QED BY <1>1, <1>2, TypeCorrect, PTL DEF Spec

-----------------------------------------------------------------------------
(* The two notices of an event, and the steps that send them. *)
LEMMA TwoNotices ==
    ASSUME NEW e \in Swipe, e.swiper # e.target
    PROVE  /\ SwiperNotice(e) \in Notice /\ TargetNotice(e) \in Notice
           /\ SwiperNotice(e) # TargetNotice(e)
           /\ \A n \in {SwiperNotice(e), TargetNotice(e)} :
                 /\ n.match = Row(e)
                 /\ {n.to, n.other} = {Row(e)[1], Row(e)[2]}
           /\ \A n \in Notice :
                 n.match = Row(e) /\ {n.to, n.other} = {Row(e)[1], Row(e)[2]}
                   => n \in {SwiperNotice(e), TargetNotice(e)}
  <1>1. Row(e) \in Users \X Users /\ Row(e)[1] = e.swiper /\ Row(e)[2] = e.target
    BY DEF Row, Swipe
  <1>2. SwiperNotice(e) \in Notice /\ TargetNotice(e) \in Notice
    BY <1>1 DEF SwiperNotice, TargetNotice, Notice, Swipe
  <1>3. /\ SwiperNotice(e).match = Row(e) /\ TargetNotice(e).match = Row(e)
        /\ SwiperNotice(e).to = e.swiper /\ SwiperNotice(e).other = e.target
        /\ TargetNotice(e).to = e.target /\ TargetNotice(e).other = e.swiper
    BY DEF SwiperNotice, TargetNotice
  <1>4. ASSUME NEW n \in Notice, n.match = Row(e),
               {n.to, n.other} = {Row(e)[1], Row(e)[2]}
        PROVE  n \in {SwiperNotice(e), TargetNotice(e)}
    <2>1. \/ n.to = e.swiper /\ n.other = e.target
          \/ n.to = e.target /\ n.other = e.swiper
      BY <1>1, <1>4
    <2>2. n = [match |-> n.match, to |-> n.to, other |-> n.other]
      BY DEF Notice
    <2>3. QED BY <1>4, <2>1, <2>2 DEF SwiperNotice, TargetNotice
  <1>5. QED BY <1>1, <1>2, <1>3, <1>4

(* Handler t sends notice n. *)
Sends(t, n) ==
    \/ NotifySwiper(t) /\ n = SwiperNotice(tasks[t].event)
    \/ NotifyTarget(t) /\ n = TargetNotice(tasks[t].event)

LEMMA SentBy ==
    ASSUME ProcNext
    PROVE  sent' = sent \/ \E t \in Tasks : \E n : Sends(t, n)
  BY DEF ProcNext, TaskStep, Deliver, FindReverse, FindExisting, Insert, Stream,
         Ack, Raise, ProcessorCrash, ConnectionLost, Sends

LEMMA EventsBy ==
    ASSUME ProcNext
    PROVE  \/ matchEvents' = matchEvents
           \/ \E t \in Tasks :
                 /\ tasks[t].stage = "stream"
                 /\ matchEvents' = matchEvents \cup {Row(tasks[t].event)}
                 /\ sent' = sent
  <1>1. ASSUME NEW t \in Tasks, Stream(t)
        PROVE  \/ matchEvents' = matchEvents
               \/ /\ tasks[t].stage = "stream"
                  /\ matchEvents' = matchEvents \cup {Row(tasks[t].event)}
                  /\ sent' = sent
    BY <1>1 DEF Stream
  <1>2. QED
    BY <1>1 DEF ProcNext, TaskStep, Deliver, FindReverse, FindExisting, Insert,
                NotifySwiper, NotifyTarget, Ack, Raise, ProcessorCrash,
                ConnectionLost

(* The row of a handler that announces is announced by no other handler. *)
LEMMA OneAnnouncerKept ==
    ASSUME TypeOK, OneAnnouncer, ProcNext
    PROVE  OneAnnouncer'
  <1> SUFFICES ASSUME NEW t \in Tasks, NEW x \in Tasks,
                      tasks'[t].stage \in Announcing,
                      tasks'[x].stage \in Announcing,
                      Row(tasks'[t].event) = Row(tasks'[x].event),
                      t # x
               PROVE  FALSE
    BY DEF OneAnnouncer, Row
  <1> DEFINE Old(y) == /\ tasks[y].stage \in Announcing
                       /\ tasks'[y].event = tasks[y].event
             New(y) == /\ Insert(y)
                       /\ tasks'[y].stage # tasks[y].stage
                       /\ tasks'[y].event = tasks[y].event
                       /\ Row(tasks[y].event) \notin matches
  <1>1. \A y \in Tasks : tasks'[y].stage \in Announcing => Old(y) \/ New(y)
    BY HandlerOrigin DEF Moved, Announcing
  <1>2. \A y \in Tasks : Old(y) => Row(tasks[y].event) \in matches
    BY DEF TypeOK, ProcTypeOK
  <1>3. ~(Old(t) /\ Old(x)) BY DEF OneAnnouncer
  <1>4. ~(Old(t) /\ New(x)) /\ ~(New(t) /\ Old(x)) BY <1>2
  <1>5. ~(New(t) /\ New(x))
    <2> SUFFICES ASSUME New(t), New(x) PROVE FALSE
      OBVIOUS
    <2>1. \E stage \in TaskStage : GotoStage(t, stage)
      BY DEF Insert, TaskStage, Announcing
    <2>2. tasks'[x] = tasks[x]
      BY <2>1, GotoStageMoves DEF TypeOK, ProcTypeOK
    <2>3. QED BY <2>2
  <1>6. QED BY <1>1, <1>3, <1>4, <1>5

(* The inductive invariant of the notices, over MutualInv. *)
NoticeInv ==
    OneAnnouncer /\ AnnouncerCounts /\ NotifiedOnce /\ AnnouncedAfterNotices

LEMMA NoticesKept ==
    ASSUME TypeOK, MutualInv, NoticeInv, ProcNext, matches \subseteq matches'
    PROVE  NoticeInv'
  <1>a. sent \in [Notice -> Nat] /\ swipes \subseteq Swipe
    BY DEF TypeOK, ProcTypeOK, StoreTypeOK
  <1>b. \A t \in Tasks : tasks[t].stage \in Announcing =>
           /\ tasks[t].event \in Swipe
           /\ tasks[t].event.swiper # tasks[t].event.target
           /\ Row(tasks[t].event) \in matches
    BY DEF TypeOK, ProcTypeOK, StoreTypeOK, MutualInv, SwipesOfOthers, Idle,
           Announcing
  <1>c. OneAnnouncer /\ AnnouncerCounts /\ NotifiedOnce /\ AnnouncedAfterNotices
    BY DEF NoticeInv
  <1>1. OneAnnouncer' BY <1>c, OneAnnouncerKept
  <1>2. ASSUME NEW t \in Tasks, NEW n, Sends(t, n)
        PROVE  /\ n \in Notice /\ sent[n] = 0 /\ sent' = [sent EXCEPT ![n] = 1]
               /\ n.match \in matches /\ n.match = Row(tasks[t].event)
               /\ {n.to, n.other} = {n.match[1], n.match[2]}
               /\ matchEvents' = matchEvents
    <2>1. /\ tasks[t].stage \in Announcing /\ sent[n] = 0
          /\ n \in {SwiperNotice(tasks[t].event), TargetNotice(tasks[t].event)}
      BY <1>2, <1>c
         DEF Sends, NotifySwiper, NotifyTarget, AnnouncerCounts, Announcing
    <2>2. sent' = [sent EXCEPT ![n] = sent[n] + 1] /\ matchEvents' = matchEvents
      BY <1>2 DEF Sends, NotifySwiper, NotifyTarget
    <2>3. 0 + 1 = 1 OBVIOUS
    <2>4. sent' = [sent EXCEPT ![n] = 1] BY <2>1, <2>2, <2>3
    <2>5. QED BY <1>b, <2>1, <2>2, <2>4, TwoNotices
  <1>3. NotifiedOnce'
    <2>1. CASE sent' = sent
      BY <1>c, <2>1 DEF NotifiedOnce
    <2>2. ASSUME NEW t \in Tasks, NEW n, Sends(t, n)
          PROVE  NotifiedOnce'
      BY <1>a, <1>c, <1>2, <2>2 DEF NotifiedOnce
    <2>3. QED BY <2>1, <2>2, SentBy
  <1>4. AnnouncerCounts'
    <2> DEFINE Counts(x) ==
          /\ sent'[SwiperNotice(tasks[x].event)] =
                IF tasks'[x].stage = "notifySwiper" THEN 0 ELSE 1
          /\ sent'[TargetNotice(tasks[x].event)] =
                IF tasks'[x].stage = "stream" THEN 1 ELSE 0
    <2>1. ASSUME NEW t \in Tasks, NEW n, Sends(t, n),
                 NEW x \in Tasks, tasks'[x].stage \in Announcing
          PROVE  Counts(x)
      <3>1. CASE x = t
        <4>1. CASE NotifySwiper(t) /\ n = SwiperNotice(tasks[t].event)
          <5>1. /\ tasks[t].stage = "notifySwiper"
                /\ tasks'[t].stage = "notifyTarget"
            BY <4>1, GotoStageMoves
               DEF NotifySwiper, TypeOK, ProcTypeOK, TaskStage, Announcing
          <5>2. sent[TargetNotice(tasks[t].event)] = 0
            BY <1>c, <5>1 DEF AnnouncerCounts, Announcing
          <5>3. /\ n \in Notice /\ TargetNotice(tasks[t].event) \in Notice
                /\ n # TargetNotice(tasks[t].event)
            BY <1>b, <4>1, <5>1, TwoNotices DEF Announcing
          <5>4. QED BY <1>a, <1>2, <2>1, <3>1, <4>1, <5>1, <5>2, <5>3
        <4>2. CASE NotifyTarget(t) /\ n = TargetNotice(tasks[t].event)
          <5>1. /\ tasks[t].stage = "notifyTarget"
                /\ tasks'[t].stage = "stream"
            BY <4>2, GotoStageMoves
               DEF NotifyTarget, TypeOK, ProcTypeOK, TaskStage, Announcing
          <5>2. sent[SwiperNotice(tasks[t].event)] = 1
            BY <1>c, <5>1 DEF AnnouncerCounts, Announcing
          <5>3. /\ n \in Notice /\ SwiperNotice(tasks[t].event) \in Notice
                /\ n # SwiperNotice(tasks[t].event)
            BY <1>b, <4>2, <5>1, TwoNotices DEF Announcing
          <5>4. QED BY <1>a, <1>2, <2>1, <3>1, <4>2, <5>1, <5>2, <5>3
        <4>3. QED BY <2>1, <4>1, <4>2 DEF Sends
      <3>2. CASE x # t
        <4>1. tasks'[x] = tasks[x] /\ tasks[t].stage \in Announcing
          BY <2>1, <3>2, GotoStageMoves
             DEF Sends, NotifySwiper, NotifyTarget, TypeOK, ProcTypeOK,
                 TaskStage, Announcing
        <4>2. Row(tasks[t].event) # Row(tasks[x].event)
          BY <1>c, <2>1, <3>2, <4>1 DEF OneAnnouncer
        <4>3. n \notin {SwiperNotice(tasks[x].event), TargetNotice(tasks[x].event)}
          BY <1>b, <1>2, <2>1, <4>1, <4>2, TwoNotices
        <4>4. /\ SwiperNotice(tasks[x].event) \in Notice
              /\ TargetNotice(tasks[x].event) \in Notice
          BY <1>b, <2>1, <4>1, TwoNotices
        <4>5. /\ sent'[SwiperNotice(tasks[x].event)] = sent[SwiperNotice(tasks[x].event)]
              /\ sent'[TargetNotice(tasks[x].event)] = sent[TargetNotice(tasks[x].event)]
          BY <1>a, <1>2, <2>1, <4>3, <4>4
        <4>6. QED BY <1>c, <2>1, <4>1, <4>5 DEF AnnouncerCounts
      <3>3. QED BY <3>1, <3>2
    <2>2. ASSUME sent' = sent, ~ \E t \in Tasks : \E n : Sends(t, n),
                 NEW x \in Tasks, tasks'[x].stage \in Announcing
          PROVE  Counts(x)
      <3>1. CASE tasks'[x].stage = tasks[x].stage
        BY <1>c, <2>2, <3>1 DEF AnnouncerCounts
      <3>2. CASE /\ Moved(x, "insert", "notifySwiper")
                 /\ Row(tasks[x].event) \notin matches
        <4>1. tasks[x].event \in Swipe /\ tasks[x].event.swiper # tasks[x].event.target
          BY <3>2 DEF Moved, TypeOK, ProcTypeOK, StoreTypeOK, MutualInv,
                      SwipesOfOthers
        <4>2. \A n \in {SwiperNotice(tasks[x].event), TargetNotice(tasks[x].event)} :
                 n \in Notice /\ n.match \notin matches
          BY <3>2, <4>1, TwoNotices
        <4>3. \A n \in {SwiperNotice(tasks[x].event), TargetNotice(tasks[x].event)} :
                 sent[n] = 0
          BY <1>c, <4>2 DEF NotifiedOnce
        <4>4. QED BY <2>2, <3>2, <4>3 DEF Moved
      <3>3. ~NotifySwiper(x) /\ ~NotifyTarget(x)
        BY <2>2 DEF Sends
      <3>4. \/ tasks'[x].stage = tasks[x].stage
            \/ /\ Moved(x, "insert", "notifySwiper")
               /\ Row(tasks[x].event) \notin matches
        BY <2>2, <3>3, HandlerOrigin DEF Announcing, Moved
      <3>5. QED BY <3>1, <3>2, <3>4
    <2>3. ASSUME NEW x \in Tasks, tasks'[x].stage \in Announcing
          PROVE  tasks'[x].event = tasks[x].event
      BY <2>3, HandlerOrigin DEF Moved, Announcing
    <2>4. \A x \in Tasks : tasks'[x].stage \in Announcing => Counts(x)
      BY <2>1, <2>2, SentBy
    <2>5. QED
      BY <2>3, <2>4 DEF AnnouncerCounts, SwiperNotice, TargetNotice, Row
  <1>5. AnnouncedAfterNotices'
    <2>1. ASSUME NEW t \in Tasks, NEW n, Sends(t, n)
          PROVE  AnnouncedAfterNotices'
      BY <1>a, <1>c, <1>2, <2>1 DEF AnnouncedAfterNotices
    <2>2. CASE sent' = sent /\ matchEvents' = matchEvents
      BY <1>c, <2>2 DEF AnnouncedAfterNotices
    <2>3. ASSUME NEW t \in Tasks, tasks[t].stage = "stream", sent' = sent,
                 matchEvents' = matchEvents \cup {Row(tasks[t].event)}
          PROVE  AnnouncedAfterNotices'
      <3>1. /\ sent[SwiperNotice(tasks[t].event)] = 1
            /\ sent[TargetNotice(tasks[t].event)] = 1
        BY <1>c, <2>3 DEF AnnouncerCounts, Announcing
      <3>2. \A n \in Notice :
               /\ n.match = Row(tasks[t].event)
               /\ {n.to, n.other} = {Row(tasks[t].event)[1], Row(tasks[t].event)[2]}
               => sent[n] = 1
        BY <1>b, <2>3, <3>1, TwoNotices DEF Announcing
      <3>3. QED BY <1>c, <2>3, <3>2 DEF AnnouncedAfterNotices
    <2>4. QED BY <2>1, <2>2, <2>3, SentBy, EventsBy
  <1>6. QED BY <1>1, <1>3, <1>4, <1>5 DEF NoticeInv

(* It holds in every behaviour, with the facts about rows it rests on. *)
LEMMA NoticesInductive == Spec => [](MutualInv /\ NoticeInv)
  <1> DEFINE Inv == MutualInv /\ NoticeInv
  <1>1. Init => Inv
    <2>1. Init => MutualInv BY RowsInit
    <2>2. Init => NoticeInv
      BY DEF Init, ProcInit, NoticeInv, OneAnnouncer, AnnouncerCounts,
             NotifiedOnce, AnnouncedAfterNotices, Idle, Announcing
    <2>3. QED BY <2>1, <2>2
  <1>2. TypeOK /\ Inv /\ [Next]_vars => Inv'
    <2> SUFFICES ASSUME TypeOK, Inv, [Next]_vars PROVE Inv'
      OBVIOUS
    <2>1. MutualInv' BY RowsKept
    <2>2. matches \subseteq matches' BY TablesGrow
    <2>3. CASE ProcNext
      BY <2>1, <2>2, <2>3, NoticesKept
    <2>4. CASE UNCHANGED procVars
      <3>1. NoticeInv'
        BY <2>2, <2>4 DEF procVars, NoticeInv, OneAnnouncer, AnnouncerCounts,
                          NotifiedOnce, AnnouncedAfterNotices
      <3>2. QED BY <2>1, <3>1
    <2>5. QED BY <2>3, <2>4 DEF Next, vars
  <1>3. QED BY <1>1, <1>2, TypeCorrect, PTL DEF Spec

(* Both members of a row are told of it at most once, each about the       *)
(* other: a crash, a redelivery or an orphaned handler never repeats a     *)
(* notice, because the handler that inserts a row is the only one that     *)
(* announces it.                                                           *)
THEOREM NoticesAreSentOnce == Spec => []NotifiedOnce
  <1>1. NoticeInv => NotifiedOnce BY DEF NoticeInv
  <1>2. QED BY <1>1, NoticesInductive, PTL

(* The analytics topic hears of a row after both of its members, whatever  *)
(* fails or is delivered again in between (processor.py:158-183).          *)
THEOREM RowsAreAnnouncedLast == Spec => []AnnouncedAfterNotices
  <1>1. NoticeInv => AnnouncedAfterNotices BY DEF NoticeInv
  <1>2. QED BY <1>1, NoticesInductive, PTL

-----------------------------------------------------------------------------
(* Each row is with the handler that announces it, or both of its members  *)
(* have been told, or a failure ended its handler in between: there is no  *)
(* other way for a handler to leave a row behind.  That is what            *)
(* NotifiedUnlessFailure needs of safety, whatever else fails; the rest of *)
(* it is the fairness of the event loop.                                   *)
Announced(m) ==
    \E t \in Tasks : tasks[t].stage \in Announcing /\ Row(tasks[t].event) = m

RowsAreTold ==
    \A m \in matches : Announced(m) \/ Notified(m[1], m[2]) \/ m \in silenced

(* A step of the processor moves an announcing handler along the loop and  *)
(* out of it only when both notices are sent, or a failure ends it.        *)
LEMMA AnnouncerGoesOn ==
    ASSUME TypeOK, AnnouncerCounts, ProcNext,
           NEW t \in Tasks, tasks[t].stage \in Announcing
    PROVE  \/ /\ tasks'[t].stage \in Announcing
              /\ tasks'[t].event = tasks[t].event
           \/ /\ sent' = sent
              /\ sent[SwiperNotice(tasks[t].event)] = 1
              /\ sent[TargetNotice(tasks[t].event)] = 1
           \/ Row(tasks[t].event) \in silenced'
  <1> USE DEF TypeOK, ProcTypeOK, StoreTypeOK
  <1> DEFINE Goal == \/ /\ tasks'[t].stage \in Announcing
                        /\ tasks'[t].event = tasks[t].event
                     \/ /\ sent' = sent
                        /\ sent[SwiperNotice(tasks[t].event)] = 1
                        /\ sent[TargetNotice(tasks[t].event)] = 1
                     \/ Row(tasks[t].event) \in silenced'
  <1>1. CASE tasks'[t] = tasks[t]
    BY <1>1
  <1>2. CASE NotifySwiper(t) \/ NotifyTarget(t)
    BY <1>2, GotoStageMoves DEF NotifySwiper, NotifyTarget, TaskStage, Announcing
  <1>3. CASE Stream(t)
    BY <1>3 DEF Stream, AnnouncerCounts, Announcing
  <1>4. CASE tasks[t].stage = "stream" /\ sent' = sent
    BY <1>4 DEF AnnouncerCounts, Announcing
  <1>5. \A T \in SUBSET Tasks :
           t \in T /\ tasks[t].stage \in Untold => Row(tasks[t].event) \in CutOff(T)
    BY DEF CutOff
  <1>6. tasks[t].stage \in Untold \/ tasks[t].stage = "stream"
    BY DEF Untold, Announcing
  <1>7. CASE Raise(t)
    BY <1>4, <1>5, <1>6, <1>7 DEF Raise
  <1>8. CASE ProcessorCrash
    BY <1>4, <1>5, <1>6, <1>8 DEF ProcessorCrash
  <1>9. CASE ConnectionLost
    <2>1. PICK cancelled \in SUBSET Live :
             /\ tasks' = [x \in Tasks |->
                            IF x \in cancelled THEN Idle
                            ELSE [stage |-> tasks[x].stage, event |-> tasks[x].event,
                                  live |-> FALSE]]
             /\ silenced' = silenced \cup CutOff(cancelled)
      BY <1>9 DEF ConnectionLost
    <2>2. cancelled \in SUBSET Tasks BY DEF Live
    <2>3. CASE t \in cancelled
      BY <1>4, <1>5, <1>6, <1>9, <2>1, <2>2, <2>3 DEF ConnectionLost
    <2>4. CASE t \notin cancelled
      BY <2>1, <2>4
    <2>5. QED BY <2>3, <2>4
  <1>10. ASSUME NEW x \in Tasks, x # t
         PROVE  \/ tasks'[t] = tasks[t]
                \/ ~ (\/ \E e \in queue : Deliver(x, e)
                      \/ TaskStep(x) \/ Raise(x))
    BY <1>10 DEF Deliver, TaskStep, FindReverse, FindExisting, Insert, NotifySwiper,
                 NotifyTarget, Stream, Ack, Raise, GotoStage
  <1>11. /\ \A e \in queue : ~Deliver(t, e)
         /\ TaskStep(t) => NotifySwiper(t) \/ NotifyTarget(t) \/ Stream(t)
    BY DEF Deliver, TaskStep, FindReverse, FindExisting, Insert, Ack, Announcing
  <1> HIDE DEF Goal
  <1>12. QED
    BY <1>1, <1>2, <1>3, <1>7, <1>8, <1>9, <1>10, <1>11 DEF ProcNext, Goal

(* What was cut off stays so. *)
LEMMA SilencedGrows ==
    ASSUME ProcNext
    PROVE  silenced \subseteq silenced'
  BY DEF ProcNext, Deliver, TaskStep, FindReverse, FindExisting, Insert, NotifySwiper,
         NotifyTarget, Stream, Ack, Raise, ProcessorCrash, ConnectionLost

(* A notice that is sent stays sent. *)
LEMMA SentGrows ==
    ASSUME TypeOK, ProcNext, NEW n \in Notice, sent[n] > 0
    PROVE  sent'[n] > 0
  <1>1. sent \in [Notice -> Nat]
    BY DEF TypeOK, ProcTypeOK
  <1>2. ASSUME NEW t \in Tasks, NEW k, Sends(t, k)
        PROVE  sent' = [sent EXCEPT ![k] = sent[k] + 1]
    BY <1>2 DEF Sends, NotifySwiper, NotifyTarget
  <1>3. QED BY <1>1, <1>2, SentBy

(* The notices of a row are those of the event that made it. *)
LEMMA NotifiedByEvent ==
    ASSUME NEW e \in Swipe
    PROVE  Notified(Row(e)[1], Row(e)[2]) <=>
              sent[SwiperNotice(e)] > 0 /\ sent[TargetNotice(e)] > 0
  <1>1. Row(e)[1] = e.swiper /\ Row(e)[2] = e.target BY DEF Row
  <1>2. /\ SwiperNotice(e) = [match |-> <<e.swiper, e.target>>, to |-> e.swiper,
                              other |-> e.target]
        /\ TargetNotice(e) = [match |-> <<e.swiper, e.target>>, to |-> e.target,
                              other |-> e.swiper]
    BY DEF SwiperNotice, TargetNotice, Row
  <1>3. QED BY <1>1, <1>2 DEF Notified

LEMMA RowsAreToldKept ==
    ASSUME TypeOK, AnnouncerCounts, RowsAreTold, ProcNext, NEW m \in matches
    PROVE  Announced(m)' \/ Notified(m[1], m[2])' \/ m \in silenced'
  <1>1. silenced \subseteq silenced' BY SilencedGrows
  <1>2. ASSUME NEW u \in Users, NEW v \in Users, Notified(u, v)
        PROVE  Notified(u, v)'
    <2> DEFINE ToOne == [match |-> <<u, v>>, to |-> u, other |-> v]
               ToOther == [match |-> <<u, v>>, to |-> v, other |-> u]
    <2>1. ToOne \in Notice /\ ToOther \in Notice BY DEF Notice
    <2>2. sent[ToOne] > 0 /\ sent[ToOther] > 0 BY <1>2 DEF Notified
    <2>3. sent'[ToOne] > 0 /\ sent'[ToOther] > 0
      BY <2>1, <2>2, SentGrows
    <2>4. QED BY <2>3 DEF Notified
  <1>3. m[1] \in Users /\ m[2] \in Users BY DEF TypeOK, StoreTypeOK
  <1>4. ASSUME NEW t \in Tasks, tasks[t].stage \in Announcing,
               Row(tasks[t].event) = m
        PROVE  Announced(m)' \/ Notified(m[1], m[2])' \/ m \in silenced'
    <2>1. tasks[t].event \in Swipe
      BY <1>4 DEF TypeOK, ProcTypeOK, StoreTypeOK, Announcing
    <2>2. CASE /\ tasks'[t].stage \in Announcing
               /\ tasks'[t].event = tasks[t].event
      BY <1>4, <2>2 DEF Announced, Row
    <2>3. CASE /\ sent[SwiperNotice(tasks[t].event)] = 1
               /\ sent[TargetNotice(tasks[t].event)] = 1
      <3>1. Notified(Row(tasks[t].event)[1], Row(tasks[t].event)[2])
        BY <2>1, <2>3, NotifiedByEvent
      <3>2. QED BY <1>2, <1>3, <1>4, <3>1
    <2>4. QED BY <1>4, <2>2, <2>3, AnnouncerGoesOn
  <1>5. QED BY <1>1, <1>2, <1>3, <1>4 DEF RowsAreTold, Announced

(* The members of a row are told of it or about to be, unless a failure    *)
(* ended the handler between the row and its notices: no other failure     *)
(* leaves anybody out (processor.py:142-173).                              *)
THEOREM NobodyIsLeftOut == Spec => []RowsAreTold
  <1>1. Init => RowsAreTold
    BY DEF Init, StoreInit, RowsAreTold
  <1>2. TypeOK /\ MutualInv /\ NoticeInv /\ RowsAreTold /\ [Next]_vars => RowsAreTold'
    <2> SUFFICES ASSUME TypeOK, MutualInv, NoticeInv, RowsAreTold, [Next]_vars,
                        NEW m \in matches'
                 PROVE  Announced(m)' \/ Notified(m[1], m[2])' \/ m \in silenced'
      BY DEF RowsAreTold
    <2>1. CASE ProcNext
      <3>1. CASE m \in matches
        BY <2>1, <3>1, RowsAreToldKept DEF NoticeInv
      <3>2. CASE m \notin matches
        <4>1. PICK t \in Tasks : /\ Insert(t)
                                 /\ ~ViolatesUnique(tasks[t].event)
                                 /\ m = Row(tasks[t].event)
          BY <3>2, TablesGrow
        <4>2. GotoStage(t, "notifySwiper")
          BY <4>1 DEF Insert
        <4>3. tasks'[t].stage = "notifySwiper" /\ tasks'[t].event = tasks[t].event
          BY <4>2, GotoStageMoves DEF TypeOK, ProcTypeOK, TaskStage, Announcing
        <4>4. QED BY <4>1, <4>3 DEF Announced, Announcing, Row
      <3>3. QED BY <3>1, <3>2
    <2>2. CASE UNCHANGED procVars
      <3>1. matches' = matches
        <4>1. ASSUME NEW t \in Tasks, Insert(t)
              PROVE  tasks'[t].stage # tasks[t].stage
          <5>1. tasks[t].stage = "insert" /\ \E stage \in {"ack", "notifySwiper"} :
                                               GotoStage(t, stage)
            BY <4>1 DEF Insert
          <5>2. QED BY <5>1, GotoStageMoves DEF TypeOK, ProcTypeOK, TaskStage, Announcing
        <4>2. QED BY <2>2, <4>1, TablesGrow DEF procVars
      <3>2. QED BY <2>2, <3>1 DEF procVars, RowsAreTold, Announced, Notified
    <2>3. QED BY <2>1, <2>2 DEF Next, vars
  <1>3. QED BY <1>1, <1>2, TypeCorrect, NoticesInductive, PTL DEF Spec

-----------------------------------------------------------------------------
(* What the tables mean to the users. *)
Likes == {<<s.swiper, s.target>> : s \in {x \in swipes : x.direction = "like"}}

Pairs == {{m[1], m[2]} : m \in matches}

LEMMA LikesAreRows ==
    ASSUME swipes \subseteq Swipe
    PROVE  \A u, v : Liked(u, v) <=> <<u, v>> \in Likes
  BY DEF Likes, Liked, Swipe

(* A commit adds at most one like, which was not there. *)
LEMMA SwipesBecomeLikes ==
    ASSUME TypeOK, MutualInv, [Next]_vars
    PROVE  \/ swipes' = swipes
           \/ /\ matches' = matches
              /\ \E s \in Swipe : /\ ~HasSwiped(s.swiper, s.target)
                                  /\ s.swiper # s.target
                                  /\ swipes' = swipes \cup {s}
  <1>1. ASSUME NEW r \in Requests, CommitSwipe(r), swipes' # swipes
        PROVE  /\ matches' = matches
               /\ \E s \in Swipe : /\ ~HasSwiped(s.swiper, s.target)
                                   /\ s.swiper # s.target
                                   /\ swipes' = swipes \cup {s}
    <2>1. /\ requests[r].swipe \in Swipe
          /\ requests[r].swipe.swiper # requests[r].swipe.target
      BY <1>1 DEF CommitSwipe, TypeOK, ApiTypeOK, MutualInv, SwipesOfOthers, InHandler
    <2>2. QED BY <1>1, <2>1 DEF CommitSwipe
  <1>2. CASE ApiNext
    <2>1. \/ swipes' = swipes
          \/ \E r \in Requests : CommitSwipe(r)
      BY <1>2 DEF ApiNext, Handle, ReceiveRefused, Receive, CheckDuplicate, Respond,
                  RequestFails, Publish, PublishFails, ApiCrash, tables
    <2>2. QED BY <1>1, <2>1
  <1>3. CASE ProcNext
    BY <1>3 DEF ProcNext, TaskStep, Deliver, FindReverse, FindExisting, Insert, NotifySwiper,
                NotifyTarget, Stream, Ack, Raise, ProcessorCrash, ConnectionLost, tables
  <1>4. CASE UNCHANGED vars BY <1>4 DEF vars
  <1>5. QED BY <1>2, <1>3, <1>4 DEF Next

(* A row joins two users who like each other. *)
LEMMA RowsBecomePairs ==
    ASSUME TypeOK, MutualInv, MutualInv', [Next]_vars, swipes' = swipes, matches' # matches
    PROVE  \E u, v \in Users : /\ Mutual(u, v)
                               /\ Pairs' = Pairs \cup {{u, v}}
  <1>1. PICK t \in Tasks : /\ Insert(t)
                           /\ matches' = matches \cup {Row(tasks[t].event)}
    BY TablesGrow
  <1> DEFINE e == tasks[t].event
  <1>2. e \in swipes /\ e \in Swipe
    BY <1>1 DEF Insert, TypeOK, ProcTypeOK, StoreTypeOK
  <1>3. Row(e) = <<e.swiper, e.target>> /\ e.swiper \in Users /\ e.target \in Users
    BY <1>2 DEF Row, Swipe
  <1>4. PICK u, v \in Users : Row(e) = <<u, v>>
    BY <1>3
  <1>5. Mutual(u, v)'
    BY <1>1, <1>4 DEF MutualInv, MatchesAreMutual
  <1>6. Mutual(u, v)
    BY <1>5 DEF Mutual, Liked
  <1>7. Pairs' = Pairs \cup {{u, v}}
    BY <1>1, <1>4 DEF Pairs
  <1>8. QED BY <1>6, <1>7

LEMMA StepsAreAllowed ==
    ASSUME TypeOK, MutualInv, MutualInv', [Next]_vars
    PROVE  [Promise!MatchmakingNext]_(Promise!MatchmakingVars)
  <1> USE DEF Promise!MatchmakingNext, Promise!MatchmakingVars, Promise!Like, Promise!MakeMatch
  <1>1. swipes \subseteq Swipe
    BY DEF TypeOK, StoreTypeOK
  <1>2. CASE swipes' # swipes
    <2>1. PICK s \in Swipe : /\ ~HasSwiped(s.swiper, s.target)
                             /\ s.swiper # s.target
                             /\ swipes' = swipes \cup {s}
                             /\ matches' = matches
      BY <1>2, SwipesBecomeLikes
    <2>2. Pairs' = Pairs BY <2>1 DEF Pairs
    <2>3. s.swiper \in Users /\ s.target \in Users BY DEF Swipe
    <2>4. CASE s.direction = "like"
      <3>1. Likes' = Likes \cup {<<s.swiper, s.target>>}
        BY <2>1, <2>4 DEF Likes
      <3>2. <<s.swiper, s.target>> \notin Likes
        BY <2>1 DEF Likes, HasSwiped
      <3>3. QED BY <2>1, <2>2, <2>3, <3>1, <3>2 DEF Likes, Pairs
    <2>5. CASE s.direction # "like"
      <3>1. Likes' = Likes
        BY <2>1, <2>5 DEF Likes
      <3>2. QED BY <2>2, <3>1 DEF Likes, Pairs
    <2>6. QED BY <2>4, <2>5
  <1>3. CASE swipes' = swipes /\ matches' # matches
    <2>1. PICK u, v \in Users : Mutual(u, v) /\ Pairs' = Pairs \cup {{u, v}}
      BY <1>3, RowsBecomePairs
    <2>2. Likes' = Likes BY <1>3 DEF Likes
    <2>3. <<u, v>> \in Likes /\ <<v, u>> \in Likes
      BY <1>1, <2>1, LikesAreRows DEF Mutual
    <2>4. CASE {u, v} \in Pairs
      <3>1. Pairs' = Pairs BY <2>1, <2>4
      <3>2. QED BY <2>2, <3>1 DEF Likes, Pairs
    <2>5. CASE {u, v} \notin Pairs
      BY <2>1, <2>2, <2>3, <2>5 DEF Likes, Pairs
    <2>6. QED BY <2>4, <2>5
  <1>4. CASE swipes' = swipes /\ matches' = matches
    BY <1>4
  <1>5. QED BY <1>2, <1>3, <1>4

(* The pipeline implements what users are promised: each step is a like, a *)
(* match of two users who like each other and were none before, or nothing *)
(* that users see; handlers that overlap, raise, die and start again       *)
(* included.                                                               *)
THEOREM PipelineImplements == Spec => ImplementsMatchmaking
  <1>1. Init => Promise!MatchmakingInit
    BY DEF Init, StoreInit, Promise!MatchmakingInit
  <1>2. TypeOK /\ MutualInv /\ MutualInv' /\ [Next]_vars
           => [Promise!MatchmakingNext]_(Promise!MatchmakingVars)
    BY StepsAreAllowed
  <1>3. QED
    BY <1>1, <1>2, RowsInit, RowsKept, TypeCorrect, PTL
       DEF Spec, ImplementsMatchmaking, Promise!MatchmakingSpec
-----------------------------------------------------------------------------
(* The requests that have stored their swipes, and the answers that they   *)
(* may have: of those for one pair at most one stores its swipe.           *)
Keeps(r) == requests[r].stage = "committed" \/ requests[r].status = 202

ResponseInv ==
    /\ \A r \in Requests :
          /\ requests[r].stage # "done" => requests[r].status = 0
          /\ Keeps(r) => requests[r].swipe \in swipes
          /\ requests[r].status = 409 =>
                HasSwiped(requests[r].swipe.swiper, requests[r].swipe.target)
    /\ \A r, q \in Requests :
          /\ Keeps(r) /\ Keeps(q)
          /\ requests[r].swipe.swiper = requests[q].swipe.swiper
          /\ requests[r].swipe.target = requests[q].swipe.target
          => r = q

(* A request that a step changes keeps no swipe it had not stored, or it   *)
(* stores one of a pair without a row.                                     *)
LEMMA ResponsesKept ==
    ASSUME TypeOK, ResponseInv, swipes \subseteq swipes',
           \A r \in Requests :
              /\ requests'[r].stage # "done" => requests'[r].status = 0
              /\ requests'[r].swipe = requests[r].swipe \/ ~Keeps(r)'
              /\ Keeps(r)' => Keeps(r)
              /\ \/ requests'[r].status # 409
                 \/ requests[r].status = 409 /\ requests'[r].swipe = requests[r].swipe
                 \/ HasSwiped(requests'[r].swipe.swiper, requests'[r].swipe.target)
    PROVE  ResponseInv'
  <1>1. \A u, v : HasSwiped(u, v) => HasSwiped(u, v)'
    BY DEF HasSwiped
  <1>2. ASSUME NEW r \in Requests, requests'[r].status = 409
        PROVE  HasSwiped(requests[r].swipe.swiper, requests[r].swipe.target)'
    <2>1. HasSwiped(requests'[r].swipe.swiper, requests'[r].swipe.target)
      BY <1>2 DEF ResponseInv
    <2>2. QED BY <2>1 DEF HasSwiped
  <1>3. \A r \in Requests : Keeps(r)' => /\ requests'[r].swipe \in swipes'
                                         /\ requests'[r].swipe = requests[r].swipe
                                         /\ Keeps(r)
    BY DEF ResponseInv
  <1>4. QED BY <1>2, <1>3 DEF ResponseInv

LEMMA ApiKeepsResponses ==
    ASSUME TypeOK, ResponseInv, ApiNext
    PROVE  ResponseInv'
  <1>a. requests \in [Requests -> Request] /\ swipes \subseteq swipes'
    BY DEF TypeOK, ApiTypeOK, ApiNext, Handle, ReceiveRefused, Receive, CheckDuplicate,
           CommitSwipe, Respond, RequestFails, Publish, PublishFails, ApiCrash, tables
  <1>b. \A r \in Requests : requests[r].stage # "done" => requests[r].status = 0
    BY DEF ResponseInv
  <1> USE DEF Status, RequestStage
  <1>1. ASSUME NEW r \in Requests, ReceiveRefused(r) PROVE ResponseInv'
    <2>1. PICK status \in {400, 404} : Reply(r, status) BY <1>1 DEF ReceiveRefused
    <2>2. QED BY <1>a, <1>b, <2>1, ReplyMoves, ResponsesKept DEF Keeps
  <1>2. ASSUME NEW r \in Requests, NEW s \in Swipe, Receive(r, s) PROVE ResponseInv'
    <2>1. requests[r].status = 0 BY <1>b, <1>2 DEF Receive
    <2>2. QED BY <1>a, <1>b, <1>2, <2>1, ReceiveMoves, ResponsesKept DEF Keeps
  <1>3. ASSUME NEW r \in Requests, CheckDuplicate(r) PROVE ResponseInv'
    <2>1. requests[r].stage = "duplicate" /\ requests[r].status = 0
      BY <1>b, <1>3 DEF CheckDuplicate
    <2>2. CASE HasSwiped(requests[r].swipe.swiper, requests[r].swipe.target)
      <3>1. Reply(r, 409) BY <1>3, <2>2 DEF CheckDuplicate
      <3>2. QED BY <1>a, <1>b, <2>1, <2>2, <3>1, ReplyMoves, ResponsesKept DEF Keeps
    <2>3. CASE ~HasSwiped(requests[r].swipe.swiper, requests[r].swipe.target)
      <3>1. Goto(r, "commit") BY <1>3, <2>3 DEF CheckDuplicate
      <3>2. QED BY <1>a, <1>b, <2>1, <3>1, GotoMoves, ResponsesKept DEF Keeps
    <2>4. QED BY <2>2, <2>3
  <1>4. ASSUME NEW r \in Requests, CommitSwipe(r) PROVE ResponseInv'
    <2> DEFINE s == requests[r].swipe
    <2>1. requests[r].stage = "commit" /\ requests[r].status = 0
      BY <1>b, <1>4 DEF CommitSwipe
    <2>2. CASE HasSwiped(s.swiper, s.target)
      <3>1. Reply(r, 500) BY <1>4, <2>2 DEF CommitSwipe
      <3>2. QED BY <1>a, <1>b, <2>1, <3>1, ReplyMoves, ResponsesKept DEF Keeps
    <2>3. CASE ~HasSwiped(s.swiper, s.target)
      <3>1. Goto(r, "committed") /\ swipes' = swipes \cup {s}
        BY <1>4, <2>3 DEF CommitSwipe
      <3>2. /\ requests'[r].stage = "committed" /\ requests'[r].status = 0
            /\ requests'[r].swipe = s
            /\ \A q \in Requests \ {r} : requests'[q] = requests[q]
        BY <1>a, <2>1, <3>1, GotoMoves
      <3>3. \A q \in Requests \ {r} : Keeps(q)' => Keeps(q) /\ requests[q].swipe \in swipes
        BY <3>2 DEF Keeps, ResponseInv
      <3>4. ASSUME NEW q \in Requests \ {r}, Keeps(q)'
            PROVE  requests'[q].swipe.swiper # s.swiper \/ requests'[q].swipe.target # s.target
        BY <2>3, <3>2, <3>3, <3>4 DEF HasSwiped
      <3>5. ASSUME NEW q \in Requests, requests'[q].status = 409
            PROVE  HasSwiped(requests[q].swipe.swiper, requests[q].swipe.target)'
        <4>1. q # r /\ HasSwiped(requests[q].swipe.swiper, requests[q].swipe.target)
          BY <3>2, <3>5 DEF ResponseInv
        <4>2. QED BY <3>1, <3>2, <4>1 DEF HasSwiped
      <3>6. \A q \in Requests : /\ requests'[q].stage # "done" => requests'[q].status = 0
                                /\ Keeps(q)' => requests'[q].swipe \in swipes'
        BY <1>b, <3>1, <3>2, <3>3
      <3>7. ASSUME NEW p \in Requests, NEW q \in Requests, Keeps(p)', Keeps(q)',
                   requests'[p].swipe.swiper = requests'[q].swipe.swiper,
                   requests'[p].swipe.target = requests'[q].swipe.target
            PROVE  p = q
        BY <3>2, <3>3, <3>4, <3>7 DEF ResponseInv
      <3>8. QED BY <3>5, <3>6, <3>7 DEF ResponseInv
    <2>4. QED BY <2>2, <2>3
  <1>5. ASSUME NEW r \in Requests, Respond(r) PROVE ResponseInv'
    <2>1. requests[r].stage = "committed" /\ Reply(r, 202) BY <1>5 DEF Respond
    <2>2. QED BY <1>a, <1>b, <2>1, ReplyMoves, ResponsesKept DEF Keeps
  <1>6. ASSUME NEW r \in Requests, RequestFails(r) PROVE ResponseInv'
    <2>1. Reply(r, 500) BY <1>6 DEF RequestFails
    <2>2. QED BY <1>a, <1>b, <2>1, ReplyMoves, ResponsesKept DEF Keeps
  <1>7. ASSUME UNCHANGED requests PROVE ResponseInv'
    BY <1>a, <1>b, <1>7, ResponsesKept DEF Keeps
  <1>8. ASSUME ApiCrash PROVE ResponseInv'
    <2>1. \A r \in Requests : requests'[r].stage # "done" => requests[r].stage # "done"
      BY <1>8, <1>a DEF ApiCrash, InHandler, Request
    <2>2. QED BY <1>a, <1>b, <1>8, <2>1, CrashMoves, ResponsesKept DEF Keeps, InHandler
  <1>9. QED
    BY <1>1, <1>2, <1>3, <1>4, <1>5, <1>6, <1>7, <1>8
       DEF ApiNext, Handle, Publish, PublishFails

LEMMA ResponsesStep ==
    ASSUME TypeOK, ResponseInv, [Next]_vars
    PROVE  ResponseInv'
  <1>1. CASE UNCHANGED apiVars
    <2>1. requests' = requests /\ swipes \subseteq swipes'
      BY <1>1, TablesGrow DEF apiVars
    <2>2. QED BY <2>1, ResponsesKept DEF Keeps, ResponseInv
  <1>2. QED BY <1>1, ApiKeepsResponses DEF Next, vars

LEMMA ResponsesInit == Init => ResponseInv
  BY DEF Init, ApiInit, Unsent, ResponseInv, Keeps

(* Of overlapping requests for a pair at most one is told 202, and its     *)
(* swipe is stored; 409 is told only of a pair that has a swipe.           *)
THEOREM AnswersAreTrue == Spec => []ResponsesTruthful
  <1>1. ResponseInv => ResponsesTruthful
    BY DEF ResponseInv, ResponsesTruthful, Keeps
  <1>2. QED BY <1>1, ResponsesInit, ResponsesStep, TypeCorrect, PTL DEF Spec
-----------------------------------------------------------------------------
(* Where events are: with the request that stored them, in the outbox, in  *)
(* the queue or with one live delivery.                                    *)
Handled == {tasks[t].event : t \in Live}

PlaceInv ==
    /\ \A r \in Requests :
          requests[r].stage = "committed" =>
              requests[r].swipe \notin outbox \cup queue \cup Handled
    /\ outbox \cap queue = {}
    /\ (outbox \cup queue) \cap Handled = {}
    /\ \A t, x \in Live : tasks[t].event = tasks[x].event => t = x

LEMMA HandledAreStored ==
    ASSUME TypeOK
    PROVE  /\ outbox \subseteq swipes /\ queue \subseteq swipes /\ Handled \subseteq swipes
           /\ swipes \subseteq Swipe
  BY DEF TypeOK, StoreTypeOK, ApiTypeOK, ProcTypeOK, Handled, Live, Idle

LEMMA ApiKeepsPlaces ==
    ASSUME TypeOK, ResponseInv, PlaceInv, ApiNext, UNCHANGED procVars
    PROVE  PlaceInv'
  <1>a. requests \in [Requests -> Request] BY DEF TypeOK, ApiTypeOK
  <1>b. Handled' = Handled /\ Live' = Live /\ tasks' = tasks BY DEF procVars, Handled, Live
  <1> USE DEF Status, RequestStage
  <1>1. ASSUME UNCHANGED <<outbox, queue>>,
               \A r \in Requests : requests'[r].stage = "committed" =>
                   requests[r].stage = "committed" /\ requests'[r].swipe = requests[r].swipe
        PROVE  PlaceInv'
    BY <1>b, <1>1 DEF PlaceInv
  <1>2. ASSUME NEW r \in Requests, NEW status \in Status, Reply(r, status),
               UNCHANGED <<outbox, queue>>
        PROVE  PlaceInv'
    BY <1>a, <1>1, <1>2, ReplyMoves
  <1>3. ASSUME NEW r \in Requests, ReceiveRefused(r) PROVE PlaceInv'
    BY <1>2, <1>3 DEF ReceiveRefused
  <1>4. ASSUME NEW r \in Requests, NEW s \in Swipe, Receive(r, s) PROVE PlaceInv'
    <2>1. UNCHANGED <<outbox, queue>> BY <1>4 DEF Receive
    <2>2. QED BY <1>a, <1>1, <1>4, <2>1, ReceiveMoves
  <1>5. ASSUME NEW r \in Requests, CheckDuplicate(r) PROVE PlaceInv'
    <2>1. UNCHANGED <<outbox, queue>> /\ (Reply(r, 409) \/ Goto(r, "commit"))
      BY <1>5 DEF CheckDuplicate
    <2>2. QED BY <1>a, <1>1, <1>2, <2>1, GotoMoves
  <1>6. ASSUME NEW r \in Requests, CommitSwipe(r) PROVE PlaceInv'
    <2> DEFINE s == requests[r].swipe
    <2>1. UNCHANGED <<outbox, queue>> BY <1>6 DEF CommitSwipe
    <2>2. CASE HasSwiped(s.swiper, s.target)
      BY <1>2, <1>6, <2>1, <2>2 DEF CommitSwipe
    <2>3. CASE ~HasSwiped(s.swiper, s.target)
      <3>1. Goto(r, "committed") /\ s \notin swipes
        BY <1>6, <2>3 DEF CommitSwipe, HasSwiped
      <3>2. s \notin outbox \cup queue \cup Handled
        BY <3>1, HandledAreStored
      <3>3. /\ requests'[r].swipe = s
            /\ \A q \in Requests \ {r} : requests'[q] = requests[q]
        BY <1>a, <3>1, GotoMoves
      <3>4. QED BY <1>b, <2>1, <3>2, <3>3 DEF PlaceInv
    <2>4. QED BY <2>2, <2>3
  <1>7. ASSUME NEW r \in Requests, Respond(r) PROVE PlaceInv'
    <2> DEFINE s == requests[r].swipe
    <2>1. /\ requests[r].stage = "committed" /\ Reply(r, 202)
          /\ outbox' = outbox \cup {s} /\ queue' = queue
      BY <1>7 DEF Respond
    <2>2. /\ requests'[r].stage = "done"
          /\ \A q \in Requests \ {r} : requests'[q] = requests[q]
      BY <1>a, <2>1, ReplyMoves
    <2>3. ASSUME NEW q \in Requests, requests'[q].stage = "committed"
          PROVE  requests'[q] = requests[q] /\ requests[q].swipe # s
      BY <2>1, <2>2, <2>3 DEF ResponseInv, Keeps
    <2>4. s \notin queue \cup Handled BY <2>1 DEF PlaceInv
    <2>5. QED BY <1>b, <2>1, <2>3, <2>4 DEF PlaceInv
  <1>8. ASSUME NEW r \in Requests, RequestFails(r) PROVE PlaceInv'
    BY <1>2, <1>8 DEF RequestFails
  <1>9. ASSUME NEW s \in outbox, Publish(s) \/ PublishFails(s) PROVE PlaceInv'
    <2>1. /\ requests' = requests /\ outbox' = outbox \ {s}
          /\ queue' = queue \cup {s} \/ queue' = queue
      BY <1>9 DEF Publish, PublishFails
    <2>2. QED BY <1>b, <2>1 DEF PlaceInv
  <1>10. ASSUME ApiCrash PROVE PlaceInv'
    <2>1. /\ outbox' = {} /\ queue' = queue
          /\ \A r \in Requests : requests'[r].stage # "committed"
      BY <1>10, <1>a, CrashMoves DEF ApiCrash, InHandler
    <2>2. QED BY <1>b, <2>1 DEF PlaceInv
  <1>11. QED
    BY <1>3, <1>4, <1>5, <1>6, <1>7, <1>8, <1>9, <1>10 DEF ApiNext, Handle

LEMMA ProcKeepsPlaces ==
    ASSUME TypeOK, PlaceInv, ProcNext, UNCHANGED apiVars
    PROVE  PlaceInv'
  <1>a. /\ tasks \in [Tasks -> Task] /\ queue \subseteq Swipe
        /\ requests' = requests /\ outbox' = outbox
        /\ Live \subseteq Tasks
    BY DEF TypeOK, StoreTypeOK, ProcTypeOK, apiVars, Live
  (* A handler goes on, or ends: the queue and the other deliveries stay. *)
  <1>1. ASSUME queue' = queue, Live' \subseteq Live,
               \A t \in Live' : tasks'[t].event = tasks[t].event
        PROVE  PlaceInv'
    <2>1. Handled' \subseteq Handled BY <1>1 DEF Handled
    <2>2. QED BY <1>a, <1>1, <2>1 DEF PlaceInv
  <1>2. ASSUME NEW t \in Tasks, NEW stage \in TaskStage, GotoStage(t, stage), queue' = queue
        PROVE  PlaceInv'
    BY <1>a, <1>1, <1>2, GotoStageMoves
  <1>3. ASSUME NEW t \in Tasks, NEW e \in queue, Deliver(t, e) PROVE PlaceInv'
    <2>1. queue' = queue \ {e} BY <1>3 DEF Deliver
    <2>2. /\ tasks'[t].event = e /\ Live' = Live \cup {t}
          /\ \A x \in Tasks \ {t} : tasks'[x] = tasks[x]
      BY <1>a, <1>3, DeliverMoves
    <2>3. t \notin Live
      BY <1>3 DEF Deliver, Live, TypeOK, ProcTypeOK, Idle
    <2>4. Handled' = Handled \cup {e}
      BY <1>a, <2>2, <2>3 DEF Handled
    <2>5. e \notin Handled /\ e \notin outbox BY DEF PlaceInv
    <2>6. ASSUME NEW x \in Live, NEW y \in Live', tasks'[x].event = tasks'[y].event
          PROVE  x = y
      <3>1. tasks'[x] = tasks[x] /\ tasks[x].event # e
        BY <1>a, <2>2, <2>3, <2>5 DEF Handled
      <3>2. y \in Live /\ tasks'[y] = tasks[y]
        BY <1>a, <2>2, <2>3, <2>6, <3>1
      <3>3. QED BY <2>6, <3>1, <3>2 DEF PlaceInv
    <2>7. \A x, y \in Live' : tasks'[x].event = tasks'[y].event => x = y
      BY <2>2, <2>6
    <2>8. QED BY <1>a, <2>1, <2>4, <2>5, <2>7 DEF PlaceInv
  <1>4. ASSUME NEW t \in Tasks, FindReverse(t) PROVE PlaceInv'
    BY <1>2, <1>4 DEF FindReverse, TaskStage, Looking
  <1>5. ASSUME NEW t \in Tasks, FindExisting(t) PROVE PlaceInv'
    BY <1>2, <1>5 DEF FindExisting, TaskStage, Looking
  <1>6. ASSUME NEW t \in Tasks, Insert(t) PROVE PlaceInv'
    BY <1>2, <1>6 DEF Insert, TaskStage, Announcing
  <1>7. ASSUME NEW t \in Tasks, NotifySwiper(t) \/ NotifyTarget(t) \/ Stream(t) \/ Raise(t)
        PROVE  PlaceInv'
    BY <1>2, <1>7 DEF NotifySwiper, NotifyTarget, Stream, Raise, TaskStage, Announcing
  <1>8. ASSUME NEW t \in Tasks, Ack(t) PROVE PlaceInv'
    <2>1. queue' = queue BY <1>8 DEF Ack
    <2>2. Live' = Live \ {t} /\ \A x \in Tasks \ {t} : tasks'[x] = tasks[x]
      BY <1>a, <1>8, AckMoves
    <2>3. QED BY <1>a, <1>1, <2>1, <2>2
  <1>9. ASSUME ProcessorCrash \/ ConnectionLost PROVE PlaceInv'
    <2>1. Live' = {}
      BY <1>a, <1>9, ProcessorCrashMoves, ConnectionLostMoves
    <2>2. queue' = queue \cup Handled
      BY <1>9 DEF ProcessorCrash, ConnectionLost, Requeued, Handled
    <2>3. Handled' = {} BY <2>1 DEF Handled
    <2>4. QED BY <1>a, <2>1, <2>2, <2>3 DEF PlaceInv
  <1>10. QED
    BY <1>3, <1>4, <1>5, <1>6, <1>7, <1>8, <1>9 DEF ProcNext, TaskStep

LEMMA PlacesInit == Init => PlaceInv
  BY DEF Init, ApiInit, ProcInit, StoreInit, Unsent, Idle, PlaceInv, Handled, Live

LEMMA PlacesStep ==
    ASSUME TypeOK, ResponseInv, PlaceInv, [Next]_vars
    PROVE  PlaceInv'
  <1>1. CASE UNCHANGED vars
    <2>1. UNCHANGED <<requests, outbox, queue, tasks>>
      BY <1>1 DEF vars, apiVars, procVars
    <2>2. Live' = Live /\ Handled' = Handled BY <2>1 DEF Live, Handled
    <2>3. QED BY <2>1, <2>2 DEF PlaceInv
  <1>2. QED BY <1>1, ApiKeepsPlaces, ProcKeepsPlaces DEF Next

(* A committed swipe has one consumer at a time, however often its event   *)
(* is delivered again: it is with its request, in the outbox, in the queue *)
(* or with one live delivery.                                              *)
THEOREM OnePlace == Spec => []EventInOnePlace
  <1>1. ResponseInv /\ PlaceInv => EventInOnePlace
    <2> SUFFICES ASSUME ResponseInv, PlaceInv, NEW s \in swipes,
                        NEW g \in Holders(s), NEW h \in Holders(s)
                 PROVE  g = h
      BY DEF EventInOnePlace
    <2> DEFINE IsRequest(o) == \E r \in Requests : /\ o = <<"request", r>>
                                                   /\ requests[r].stage = "committed"
                                                   /\ requests[r].swipe = s
               IsTask(o) == \E t \in Live : o = <<"task", t>> /\ tasks[t].event = s
               IsOut(o) == o = <<"outbox", s>> /\ s \in outbox
               IsReady(o) == o = <<"queue", s>> /\ s \in queue
    <2>1. \A o \in Holders(s) : IsRequest(o) \/ IsTask(o) \/ IsOut(o) \/ IsReady(o)
      BY DEF Holders
    <2>2. ASSUME IsRequest(g), IsRequest(h) PROVE g = h
      BY <2>2 DEF ResponseInv, Keeps
    <2>3. ASSUME IsTask(g), IsTask(h) PROVE g = h
      BY <2>3 DEF PlaceInv
    <2>4. \A o : IsTask(o) => s \in Handled
      BY DEF Handled
    <2>5. \A o, p : ~(IsRequest(o) /\ (IsTask(p) \/ IsOut(p) \/ IsReady(p)))
      BY <2>4 DEF PlaceInv
    <2>6. \A o, p : ~(IsTask(o) /\ (IsOut(p) \/ IsReady(p))) /\ ~(IsOut(o) /\ IsReady(p))
      BY <2>4 DEF PlaceInv
    <2>7. QED BY <2>1, <2>2, <2>3, <2>5, <2>6
  <1>2. QED
    BY <1>1, ResponsesInit, ResponsesStep, PlacesInit, PlacesStep, TypeCorrect, PTL DEF Spec
=============================================================================
