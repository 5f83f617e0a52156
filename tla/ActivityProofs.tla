--------------------------- MODULE ActivityProofs ---------------------------
(***************************************************************************)
(* Theorems about accounts, their events and the log, for any requests,    *)
(* e-mails, seeds, attempts and failures.                                  *)
(***************************************************************************)
EXTENDS Activity, FiniteSetTheorems, SequenceTheorems, TLAPS

-----------------------------------------------------------------------------
(* Failures are counted, and never forgotten. *)
LEMMA FaultCounts ==
    ASSUME NEW kind, Fault(kind), faults \in 0 .. MaxFaults
    PROVE faults' \in 0 .. MaxFaults /\ faults' = faults + 1 /\ faults' > 0
BY KafkaAssumption DEF Fault

TasksOK(f) ==
    /\ f \in [Requests -> Task]
    /\ \A r \in Requests : f[r].stage = "sending" => f[r].uses \in Producers

(* The types of the Kafka client. *)
LEMMA KafkaTypeStep ==
    ASSUME KafkaTypeOK, KafkaNext
    PROVE KafkaTypeOK'
<1> DEFINE States == {"unmade", "starting", "ready", "failed"}
<1>1. /\ Attempts \in Nat \ {0} /\ 1 \in 1 .. Attempts /\ 0 \in 0 .. Attempts
      /\ NoProducer \notin Producers
  BY KafkaAssumption
<1>2. /\ producer \in Producers \cup {NoProducer} /\ objects \in [Producers -> States]
      /\ TasksOK(tasks) /\ topic \in Seq(Requests)
      /\ early \subseteq Requests /\ resent \subseteq Requests
      /\ faults \in 0 .. MaxFaults
  BY DEF KafkaTypeOK, TasksOK
<1>3. ASSUME NEW r \in Requests, NEW try \in 1 .. Attempts, Start(r, try)
      PROVE /\ producer' \in Producers /\ TasksOK(tasks') /\ objects' \in [Producers -> States]
  <2>1. <<r, try>> \in Producers /\ try \in 0 .. Attempts
    BY <1>1, <1>3 DEF Producers
  <2>2. TasksOK(tasks')
    BY <1>2, <1>3, <2>1 DEF Start, TasksOK, Task
  <2> QED BY <1>2, <1>3, <2>1, <2>2 DEF Start
<1>4. ASSUME NEW r \in Requests PROVE TasksOK([tasks EXCEPT ![r].stage = "done"])
  BY <1>2 DEF TasksOK, Task
<1>5. ASSUME NEW r \in Requests, producer # NoProducer
      PROVE TasksOK([tasks EXCEPT ![r].stage = "sending", ![r].uses = producer])
  BY <1>2, <1>5 DEF TasksOK, Task
<1>6. ASSUME NEW r \in Requests PROVE Append(topic, r) \in Seq(Requests)
  BY <1>2, AppendProperties
<1> DEFINE Goal == /\ producer' \in Producers \cup {NoProducer} /\ TasksOK(tasks')
                   /\ objects' \in [Producers -> States]
                   /\ topic' \in Seq(Requests)
                   /\ early' \subseteq Requests /\ resent' \subseteq Requests
                   /\ faults' \in 0 .. MaxFaults
<1>7. ASSUME NEW r \in Requests, GetProducer(r) PROVE Goal
  <2>1. CASE producer = NoProducer
    BY <1>1, <1>2, <1>3, <1>7, <2>1 DEF GetProducer
  <2>2. CASE producer # NoProducer
    BY <1>2, <1>5, <1>7, <2>2 DEF GetProducer
  <2> QED BY <2>1, <2>2
<1>8. ASSUME NEW r \in Requests, Started(r) PROVE Goal
  <2>1. objects' \in [Producers -> States] /\ early' \subseteq Requests
    BY <1>2, <1>8 DEF Started
  <2>2. TasksOK(tasks')
    BY <1>4, <1>5, <1>8 DEF Started, Finish
  <2> QED BY <1>2, <1>8, <2>1, <2>2 DEF Started
<1>9. ASSUME NEW r \in Requests, Retry(r) PROVE Goal
  <2>1. CASE tasks[r].tries < Attempts
    <3>1. tasks[r].tries + 1 \in 1 .. Attempts
      BY <1>1, <1>2, <2>1 DEF TasksOK, Task
    <3> QED BY <1>2, <1>3, <1>9, <2>1, <3>1 DEF Retry
  <2>2. CASE ~(tasks[r].tries < Attempts)
    BY <1>2, <1>4, <1>9, <2>2 DEF Retry, Finish
  <2> QED BY <2>1, <2>2
<1>10. ASSUME NEW r \in Requests, StartFails(r) PROVE Goal
  <2>1. faults' \in 0 .. MaxFaults
    BY <1>2, <1>10, FaultCounts DEF StartFails
  <2>2. TasksOK(tasks')
    BY <1>2, <1>10 DEF StartFails, TasksOK, Task
  <2> QED BY <1>2, <1>10, <2>1, <2>2 DEF StartFails
<1>11. ASSUME NEW r \in Requests, Send(r) PROVE Goal
  BY <1>2, <1>4, <1>6, <1>11 DEF Send, Finish
<1>12. ASSUME NEW r \in Requests, SendFails(r) PROVE Goal
  <2>1. faults' \in 0 .. MaxFaults
    BY <1>2, <1>12, FaultCounts DEF SendFails
  <2> QED BY <1>2, <1>4, <1>6, <1>12, <2>1 DEF SendFails, Finish
<1>13. ASSUME NEW r \in Requests, SendsTooEarly(r) PROVE Goal
  BY <1>2, <1>4, <1>13 DEF SendsTooEarly, Finish
<1>14. ASSUME NEW r \in Requests, AckLost(r) PROVE Goal
  <2>1. faults' \in 0 .. MaxFaults
    BY <1>2, <1>14, FaultCounts DEF AckLost
  <2> QED BY <1>2, <1>6, <1>14, <2>1 DEF AckLost
<1>15. Goal
  BY <1>7, <1>8, <1>9, <1>10, <1>11, <1>12, <1>13, <1>14 DEF KafkaNext, Produce
<1> QED BY <1>15 DEF KafkaTypeOK, TasksOK

LEMMA SpawnTypes ==
    ASSUME KafkaTypeOK, NEW r \in Requests, tasks' = Spawned(r),
           UNCHANGED <<producer, objects, topic, early, resent, faults>>
    PROVE KafkaTypeOK'
BY DEF KafkaTypeOK, Spawned, Task

LEMMA DeathTypes ==
    ASSUME KafkaTypeOK, ClientDies, faults' \in 0 .. MaxFaults
    PROVE KafkaTypeOK'
<1>1. NoTask \in Task /\ [NoTask EXCEPT !.stage = "done"] \in Task
  BY KafkaAssumption DEF NoTask, Task
<1>2. Unmade \in [Producers -> {"unmade", "starting", "ready", "failed"}]
  BY DEF Unmade
<1>3. tasks' \in [Requests -> Task] /\ \A r \in Requests : tasks'[r].stage # "sending"
  BY <1>1 DEF ClientDies, NoTask
<1> QED BY <1>2, <1>3 DEF ClientDies, KafkaTypeOK

(* A reply changes the stage and the status of its call. *)
LEMMA ReplyMoves ==
    ASSUME calls \in [Requests -> Handler], NEW r \in Requests,
           NEW status \in {0, 200, 201, 400, 401, 500}, Reply(r, status)
    PROVE /\ calls' \in [Requests -> Handler]
          /\ calls'[r].stage = "done" /\ calls'[r].status = status
          /\ calls'[r].email = calls[r].email
          /\ \A q \in Requests \ {r} : calls'[q] = calls[q]
<1> DEFINE f == [calls EXCEPT ![r].stage = "done"]
<1>1. calls' = [f EXCEPT ![r].status = status]
  BY DEF Reply
<1>2. /\ f \in [Requests -> Handler]
      /\ f[r].stage = "done" /\ f[r].email = calls[r].email
      /\ \A q \in Requests \ {r} : f[q] = calls[q]
  <2>1. "done" \in Stage
    BY DEF Stage
  <2> QED BY <2>1 DEF Handler
<1>3. ASSUME NEW g \in [Requests -> Handler]
      PROVE /\ [g EXCEPT ![r].status = status] \in [Requests -> Handler]
            /\ [g EXCEPT ![r].status = status][r].stage = g[r].stage
            /\ [g EXCEPT ![r].status = status][r].email = g[r].email
            /\ [g EXCEPT ![r].status = status][r].status = status
            /\ \A q \in Requests \ {r} : [g EXCEPT ![r].status = status][q] = g[q]
  BY DEF Handler
<1> HIDE DEF f
<1> QED BY <1>1, <1>2, <1>3

(* The types of the handlers, the rows and the script. *)
LEMMA AccountsTypeStep ==
    ASSUME AccountsTypeOK, KafkaTypeOK, AccountsNext
    PROVE AccountsTypeOK' /\ KafkaTypeOK'
<1> USE DEF AccountsTypeOK
<1> DEFINE CallsOK(f) ==
             /\ f \in [Requests -> Handler]
             /\ \A q \in Requests : f[q].stage \in {"look", "commit", "committed"}
                                      => f[q].email \in Emails
<1>a. CallsOK(calls)
  OBVIOUS
<1>1. ASSUME NEW r \in Requests, NEW status \in {0, 200, 201, 400, 401, 500}, Reply(r, status)
      PROVE CallsOK(calls')
  BY <1>1, <1>a, ReplyMoves
<1>2. ASSUME NEW r \in Requests, NEW stage \in {"commit", "committed"}, Goto(r, stage),
             calls[r].stage \in {"look", "commit"}
      PROVE CallsOK(calls')
  <2>1. calls' = [calls EXCEPT ![r].stage = stage]
    BY <1>2 DEF Goto
  <2>2. stage \in Stage
    BY DEF Stage
  <2>3. calls' \in [Requests -> Handler]
    BY <1>a, <2>1, <2>2 DEF Handler
  <2> QED BY <1>2, <1>a, <2>1, <2>3 DEF Handler
<1>3. UNCHANGED <<kafkaVars, faults>> => KafkaTypeOK'
  BY DEF kafkaVars, KafkaTypeOK
<1>4. ASSUME NEW r \in Requests, NEW kind \in {"register", "login"}, NEW email \in Emails,
             NEW right \in BOOLEAN, Receive(r, kind, email, right)
      PROVE AccountsTypeOK' /\ KafkaTypeOK'
  <2>1. [stage |-> "look", kind |-> kind, email |-> email, right |-> right, status |-> 0]
            \in Handler
    BY DEF Handler, Stage
  <2> QED BY <1>3, <1>4, <2>1 DEF Receive
<1>5. ASSUME NEW r \in Requests, LookForEmail(r) PROVE AccountsTypeOK' /\ KafkaTypeOK'
  BY <1>1, <1>2, <1>3, <1>5 DEF LookForEmail
<1>6. ASSUME NEW r \in Requests, CommitUser(r) PROVE AccountsTypeOK' /\ KafkaTypeOK'
  <2>1. CASE calls[r].email \in Taken
    BY <1>1, <1>3, <1>6, <2>1 DEF CommitUser
  <2>2. CASE calls[r].email \notin Taken
    BY <1>2, <1>3, <1>6, <2>2 DEF CommitUser
  <2> QED BY <2>1, <2>2
<1>7. ASSUME NEW r \in Requests, Registered(r) PROVE AccountsTypeOK' /\ KafkaTypeOK'
  BY <1>1, <1>7, SpawnTypes DEF Registered
<1>8. ASSUME NEW r \in Requests, Login(r) PROVE AccountsTypeOK' /\ KafkaTypeOK'
  <2>1. KafkaTypeOK'
    BY <1>3, <1>8, SpawnTypes DEF Login, kafkaVars
  <2> QED BY <1>1, <1>8, <2>1 DEF Login
<1>9. ASSUME NEW r \in Requests, CallFails(r) PROVE AccountsTypeOK' /\ KafkaTypeOK'
  <2>1. faults' \in 0 .. MaxFaults
    BY <1>9, FaultCounts DEF CallFails, KafkaTypeOK
  <2>2. KafkaTypeOK'
    BY <1>9, <2>1 DEF CallFails, kafkaVars, KafkaTypeOK
  <2> QED BY <1>1, <1>9, <2>2 DEF CallFails
<1>10. CASE ApiDies
  <2>1. faults' \in 0 .. MaxFaults
    BY <1>10, FaultCounts DEF ApiDies, KafkaTypeOK
  <2>2. calls' \in [Requests -> Handler]
    BY <1>10 DEF ApiDies, Handler, Stage
  <2> QED BY <1>10, <2>1, <2>2, DeathTypes DEF ApiDies
<1>11. RollBack => seed' \in Script
  BY DEF RollBack, Script
<1>12. CASE SeedRow
  <2>1. SeedList[seed.at] \in Emails /\ seed.at + 1 \in 1 .. Len(SeedList) + 1
    BY <1>12, AccountsAssumption DEF SeedRow, Script
  <2>2. seed' \in Script
    BY <1>11, <1>12, <2>1 DEF SeedRow, Script
  <2> QED BY <1>3, <1>12, <2>2 DEF SeedRow
<1>13. CASE SeedCommits
  <2>1. seed' \in Script
    BY <1>11, <1>13 DEF SeedCommits, Script
  <2>2. users' \subseteq Emails \X (Requests \cup {Seed})
    BY <1>13 DEF SeedCommits, Script
  <2> QED BY <1>3, <1>13, <2>1, <2>2 DEF SeedCommits
<1> QED BY <1>4, <1>5, <1>6, <1>7, <1>8, <1>9, <1>10, <1>12, <1>13 DEF AccountsNext, Handle

(* The topic grows only by an event at its end. *)
TopicGrows == \/ UNCHANGED topic
              \/ \E r \in Requests : topic' = Append(topic, r)

LEMMA TopicMoves == KafkaNext \/ AccountsNext => TopicGrows
<1>1. KafkaNext => TopicGrows
  BY DEF KafkaNext, Produce, GetProducer, Started, Retry, Send, SendFails, SendsTooEarly,
         AckLost, StartFails, TopicGrows
<1>2. AccountsNext => TopicGrows
  BY DEF AccountsNext, Handle, Receive, LookForEmail, CommitUser, Registered, Login,
         CallFails, ApiDies, ClientDies, SeedRow, SeedCommits, kafkaVars, TopicGrows
<1> QED BY <1>1, <1>2

LEMMA LoggerKeeps ==
    ASSUME KafkaTypeOK, LoggerTypeOK, TopicGrows, UNCHANGED loggerVars
    PROVE LoggerTypeOK'
<1>1. topic \in Seq(Requests)
  BY DEF KafkaTypeOK
<1>2. Len(topic') \in Nat /\ Len(topic) \in Nat /\ Len(topic) <= Len(topic')
  BY <1>1, AppendProperties, LenProperties DEF TopicGrows
<1> QED BY <1>2 DEF LoggerTypeOK, loggerVars

LEMMA LoggerTypeStep ==
    ASSUME KafkaTypeOK, LoggerTypeOK, LoggerNext, UNCHANGED kafkaVars
    PROVE LoggerTypeOK' /\ KafkaTypeOK'
<1>1. topic \in Seq(Requests) /\ Len(topic) \in Nat /\ topic' = topic
  BY LenProperties DEF KafkaTypeOK, kafkaVars
<1>2. faults' \in 0 .. MaxFaults
  BY FaultCounts DEF LoggerNext, IteratorRaises, LoggerRestarts, KafkaTypeOK
<1>3. KafkaTypeOK'
  BY <1>2 DEF KafkaTypeOK, kafkaVars
<1> DEFINE N == 0 .. Len(topic)
<1>4. /\ logger \in {"connecting", "consuming", "dead"}
      /\ position \in N /\ offset \in N /\ logged \subseteq Requests
  BY DEF LoggerTypeOK
<1> DEFINE Goal == /\ logger' \in {"connecting", "consuming", "dead"}
                   /\ position' \in N /\ offset' \in N /\ logged' \subseteq Requests
<1>5. ASSUME Connect PROVE Goal
  BY <1>4, <1>5 DEF Connect
<1>5a. ASSUME AutoCommit PROVE Goal
  BY <1>4, <1>5a DEF AutoCommit
<1>5b. ASSUME IteratorRaises PROVE Goal
  BY <1>4, <1>5b DEF IteratorRaises
<1>5c. ASSUME LoggerRestarts PROVE Goal
  BY <1>4, <1>5c DEF LoggerRestarts
<1>6. ASSUME Consume PROVE Goal
  <2>1. position + 1 \in N /\ position + 1 \in 1 .. Len(topic)
    BY <1>1, <1>4, <1>6 DEF Consume
  <2>2. topic[position + 1] \in Requests
    BY <1>1, <2>1, ElementOfSeq
  <2>3. position' \in N
    BY <1>6, <2>1 DEF Consume
  <2>4. logged' \subseteq Requests
    BY <1>4, <1>6, <2>2 DEF Consume
  <2>5. UNCHANGED <<logger, offset>>
    BY <1>6 DEF Consume
  <2> QED BY <1>4, <2>3, <2>4, <2>5
<1>7. Goal
  BY <1>5, <1>5a, <1>5b, <1>5c, <1>6 DEF LoggerNext
<1> QED BY <1>1, <1>3, <1>7 DEF LoggerTypeOK

LEMMA TypesInit == Init => TypeOK
<1> SUFFICES ASSUME Init PROVE TypeOK
  OBVIOUS
<1>1. KafkaTypeOK
  BY KafkaAssumption DEF Init, KafkaInit, KafkaTypeOK, Unmade, NoTask, Task
<1>2. AccountsTypeOK
  <2>1. Len(SeedList) \in Nat
    BY AccountsAssumption, LenProperties
  <2> QED BY <2>1 DEF Init, AccountsInit, AccountsTypeOK, Handler, Stage, Script
<1>3. LoggerTypeOK
  <2>1. Len(topic) = 0
    BY EmptySeq DEF Init, KafkaInit
  <2> QED BY <2>1 DEF Init, LoggerInit, LoggerTypeOK
<1> QED BY <1>1, <1>2, <1>3 DEF TypeOK

LEMMA TypesStep == TypeOK /\ [Next]_vars => TypeOK'
<1> SUFFICES ASSUME TypeOK, [Next]_vars PROVE TypeOK'
  OBVIOUS
<1> USE DEF TypeOK
<1>1. CASE AccountsNext /\ UNCHANGED loggerVars
  BY <1>1, AccountsTypeStep, TopicMoves, LoggerKeeps
<1>2. CASE KafkaNext /\ UNCHANGED <<accountVars, loggerVars>>
  <2>1. AccountsTypeOK'
    BY <1>2 DEF AccountsTypeOK, accountVars
  <2> QED BY <1>2, <2>1, KafkaTypeStep, TopicMoves, LoggerKeeps
<1>3. CASE LoggerNext /\ UNCHANGED <<accountVars, kafkaVars>>
  <2>1. AccountsTypeOK'
    BY <1>3 DEF AccountsTypeOK, accountVars
  <2> QED BY <1>3, <2>1, LoggerTypeStep
<1>4. CASE UNCHANGED vars
  BY <1>4 DEF vars, kafkaVars, accountVars, loggerVars, KafkaTypeOK, AccountsTypeOK, LoggerTypeOK
<1> QED BY <1>1, <1>2, <1>3, <1>4 DEF Next

(* The types of accounts, tasks, producers, topic and logger. *)
THEOREM ActivityTypes == Spec => []TypeOK
BY TypesInit, TypesStep, PTL DEF Spec

-----------------------------------------------------------------------------
(* What a handler knows of the rows before it stores one, and after. *)
RowsFollowCalls ==
    \A r \in Requests :
        /\ calls[r].stage # "done" => calls[r].status = 0
        /\ calls[r].stage \in {"unsent", "look", "commit"} => \A e \in Emails : <<e, r>> \notin users
        /\ calls[r].stage = "committed" => <<calls[r].email, r>> \in users

(* What the script has looked for is there or is its own; what it has      *)
(* flushed is nobody else's.                                               *)
ScriptInv ==
    /\ seed.flushed \cap Taken = {}
    /\ seed.stage = "ready" => seed.at = 1
    /\ seed.stage = "running" =>
          \A k \in DOMAIN SeedList :
              k < seed.at => SeedList[k] \in Taken \cup seed.added \cup seed.flushed
    /\ seed.stage # "done" => \A e \in Emails : <<e, Seed>> \notin users
    /\ seed.stage = "done" => \A k \in DOMAIN SeedList : SeedList[k] \in Taken

(* The answer h of the request q is true of the rows. *)
AnswerIsTrue(h, q, rows) ==
    /\ h.status = 201 => <<h.email, q>> \in rows
    /\ h.status = 400 => \E o \in (Requests \cup {Seed}) \ {q} : <<h.email, o>> \in rows
    /\ h.status = 200 => \E row \in rows : row[1] = h.email

RowsInv == OneAccountEach /\ RowsFollowCalls /\ ScriptInv

LEMMA TakenGrows ==
    ASSUME users \subseteq users'
    PROVE Taken \subseteq Taken'
BY DEF Taken

(* OneAccountEach, call by call. *)
LEMMA AccountsCallByCall ==
    OneAccountEach =>
        /\ \A a, b \in users : a[1] = b[1] => a = b
        /\ \A q \in Requests : AnswerIsTrue(calls[q], q, users)
        /\ (\E e \in Emails : <<e, Seed>> \in users)
              => \A k \in DOMAIN SeedList : SeedList[k] \in Taken
<1>1. ASSUME NEW q \in Requests
      PROVE AnswerIsTrue(calls[q], q, users)
              <=> /\ calls[q].status = 201 => <<calls[q].email, q>> \in users
                  /\ calls[q].status = 400 => \E o \in (Requests \cup {Seed}) \ {q} :
                                                  <<calls[q].email, o>> \in users
                  /\ calls[q].status = 200 => calls[q].email \in Taken
  BY DEF AnswerIsTrue, Taken
<1> QED BY <1>1 DEF OneAccountEach

LEMMA AccountsCallByCallNext ==
    ASSUME \A a, b \in users' : a[1] = b[1] => a = b,
           \A q \in Requests : AnswerIsTrue(calls'[q], q, users'),
           (\E e \in Emails : <<e, Seed>> \in users')
              => \A k \in DOMAIN SeedList : SeedList[k] \in Taken'
    PROVE OneAccountEach'
<1>1. ASSUME NEW q \in Requests
      PROVE /\ calls'[q].status = 201 => <<calls'[q].email, q>> \in users'
            /\ calls'[q].status = 400 => \E o \in (Requests \cup {Seed}) \ {q} :
                                             <<calls'[q].email, o>> \in users'
            /\ calls'[q].status = 200 => calls'[q].email \in Taken'
  BY DEF AnswerIsTrue, Taken
<1> QED BY <1>1 DEF OneAccountEach

LEMMA AnswersStayTrue ==
    ASSUME NEW h, NEW q, NEW rows, NEW more, rows \subseteq more, AnswerIsTrue(h, q, rows)
    PROVE AnswerIsTrue(h, q, more)
BY DEF AnswerIsTrue

(* A call moves, and no row is stored. *)
LEMMA CallKeepsRows ==
    ASSUME AccountsTypeOK, RowsInv, NEW r \in Requests, UNCHANGED <<users, seed>>,
           calls' \in [Requests -> Handler],
           \A q \in Requests \ {r} : calls'[q] = calls[q],
           calls[r].stage # "done",
           \/ calls'[r].stage \in {"look", "commit"} /\ calls[r].stage \in {"unsent", "look"}
              /\ calls'[r].status = 0
           \/ calls'[r].stage = "done" /\ AnswerIsTrue(calls'[r], r, users)
    PROVE RowsInv'
<1>1. Taken' = Taken
  BY DEF Taken
<1>2. ScriptInv'
  BY <1>1 DEF RowsInv, ScriptInv
<1>3. RowsFollowCalls'
  <2> SUFFICES ASSUME NEW q \in Requests
               PROVE /\ calls'[q].stage # "done" => calls'[q].status = 0
                     /\ calls'[q].stage \in {"unsent", "look", "commit"} =>
                           \A e \in Emails : <<e, q>> \notin users
                     /\ calls'[q].stage = "committed" => <<calls'[q].email, q>> \in users
    BY DEF RowsFollowCalls
  <2>1. CASE q = r
    BY <2>1 DEF RowsInv, RowsFollowCalls
  <2>2. CASE q # r
    BY <2>2 DEF RowsInv, RowsFollowCalls
  <2> QED BY <2>1, <2>2
<1>4. OneAccountEach'
  <2>1. ASSUME NEW q \in Requests PROVE AnswerIsTrue(calls'[q], q, users')
    <3>1. CASE q = r
      BY <3>1 DEF AnswerIsTrue
    <3>2. CASE q # r
      BY <3>2, AccountsCallByCall DEF RowsInv
    <3> QED BY <3>1, <3>2
  <2>2. /\ \A a, b \in users' : a[1] = b[1] => a = b
        /\ (\E e \in Emails : <<e, Seed>> \in users')
              => \A k \in DOMAIN SeedList : SeedList[k] \in Taken'
    BY <1>1, AccountsCallByCall DEF RowsInv
  <2> QED BY <2>1, <2>2, AccountsCallByCallNext
<1> QED BY <1>2, <1>3, <1>4 DEF RowsInv

(* A request stores its row. *)
LEMMA CommitKeepsRows ==
    ASSUME AccountsTypeOK, RowsInv, NEW r \in Requests, CommitUser(r)
    PROVE RowsInv'
<1> USE DEF RowsInv
<1>1. CASE calls[r].email \in Taken
  <2>1. Reply(r, 500) /\ UNCHANGED <<users, seed>>
    BY <1>1 DEF CommitUser
  <2>2. calls[r].stage = "commit" /\ calls \in [Requests -> Handler]
    BY DEF CommitUser, AccountsTypeOK
  <2>3. /\ calls' \in [Requests -> Handler]
        /\ calls'[r].stage = "done" /\ calls'[r].status = 500
        /\ \A q \in Requests \ {r} : calls'[q] = calls[q]
    BY <2>1, <2>2, ReplyMoves
  <2>4. AnswerIsTrue(calls'[r], r, users)
    BY <2>3 DEF AnswerIsTrue
  <2> QED BY <2>1, <2>2, <2>3, <2>4, CallKeepsRows
<1>2. CASE calls[r].email \notin Taken
  <2> DEFINE e == calls[r].email
  <2>1. /\ users' = users \cup {<<e, r>>} /\ UNCHANGED seed
        /\ calls' = [calls EXCEPT ![r].stage = "committed"]
        /\ calls[r].stage = "commit" /\ calls \in [Requests -> Handler]
        /\ e \notin seed.flushed /\ e \in Emails
    BY <1>2 DEF CommitUser, Goto, AccountsTypeOK
  <2>3. \A row \in users : row[1] # e
    BY <1>2 DEF Taken
  <2>4. /\ \A q \in Requests \ {r} : calls'[q] = calls[q]
        /\ calls'[r].stage = "committed" /\ calls'[r].status = calls[r].status
        /\ calls'[r].email = e
    BY <2>1 DEF Handler
  <2> HIDE DEF e
  <2>2. Taken' = Taken \cup {e}
    <3>1. \A row \in users' : row \in users \/ row[1] = e
      BY <2>1
    <3>2. <<e, r>> \in users' /\ <<e, r>>[1] = e /\ users \subseteq users'
      BY <2>1
    <3> QED BY <3>1, <3>2 DEF Taken
  <2>5. calls[r].status = 0
    BY <2>1 DEF RowsFollowCalls
  <2>6. RowsFollowCalls'
    <3> SUFFICES ASSUME NEW q \in Requests
                 PROVE /\ calls'[q].stage # "done" => calls'[q].status = 0
                       /\ calls'[q].stage \in {"unsent", "look", "commit"} =>
                             \A m \in Emails : <<m, q>> \notin users'
                       /\ calls'[q].stage = "committed" => <<calls'[q].email, q>> \in users'
      BY DEF RowsFollowCalls
    <3>1. CASE q = r
      BY <2>1, <2>4, <2>5, <3>1
    <3>2. CASE q # r
      BY <2>1, <2>4, <3>2 DEF RowsFollowCalls
    <3> QED BY <3>1, <3>2
  <2>7. ScriptInv'
    <3>1. \A m \in Emails : <<m, Seed>> \in users' => <<m, Seed>> \in users
      BY <2>1, AccountsAssumption
    <3> QED BY <2>1, <2>2, <3>1 DEF ScriptInv
  <2>8. OneAccountEach'
    <3>1. \A a, b \in users' : a[1] = b[1] => a = b
      BY <2>1, <2>3, AccountsCallByCall
    <3>2. ASSUME NEW q \in Requests PROVE AnswerIsTrue(calls'[q], q, users')
      <4>1. CASE q = r
        BY <2>4, <2>5, <4>1 DEF AnswerIsTrue
      <4>2. CASE q # r
        BY <2>1, <2>4, <4>2, AccountsCallByCall, AnswersStayTrue
      <4> QED BY <4>1, <4>2
    <3>3. (\E m \in Emails : <<m, Seed>> \in users')
             => \A k \in DOMAIN SeedList : SeedList[k] \in Taken'
      <4>1. \A m \in Emails : <<m, Seed>> \in users' => <<m, Seed>> \in users
        BY <2>1, AccountsAssumption
      <4> QED BY <2>2, <4>1, AccountsCallByCall
    <3> QED BY <3>1, <3>2, <3>3, AccountsCallByCallNext
  <2> QED BY <2>6, <2>7, <2>8
<1> QED BY <1>1, <1>2

(* No row is stored and no call answered: only the script may move. *)
LEMMA ScriptKeepsRows ==
    ASSUME RowsInv, UNCHANGED <<users, calls>>, ScriptInv'
    PROVE RowsInv'
<1>1. users' = users /\ calls' = calls /\ Taken' = Taken
  BY DEF Taken
<1>2. RowsFollowCalls'
  BY <1>1 DEF RowsInv, RowsFollowCalls
<1>3. OneAccountEach'
  BY <1>1, AccountsCallByCall, AccountsCallByCallNext DEF RowsInv
<1> QED BY <1>2, <1>3 DEF RowsInv

(* The script looks its next e-mail up, or gives all its rows up. *)
LEMMA SeedRowKeeps ==
    ASSUME AccountsTypeOK, RowsInv, SeedRow
    PROVE RowsInv'
<1>1. UNCHANGED <<users, calls>> /\ Taken' = Taken
  BY DEF SeedRow, Taken
<1>2. seed \in Script /\ Len(SeedList) \in Nat /\ DOMAIN SeedList = 1 .. Len(SeedList)
  BY AccountsAssumption, LenProperties DEF AccountsTypeOK
<1>3. CASE seed.added \cap Taken # {}
  <2>1. seed'.stage = "failed" /\ seed'.flushed = {} /\ seed.stage # "done"
    BY <1>2, <1>3 DEF SeedRow, RollBack, Script
  <2>2. ScriptInv'
    BY <1>1, <2>1 DEF RowsInv, ScriptInv
  <2> QED BY <1>1, <2>2, ScriptKeepsRows
<1>4. CASE seed.added \cap Taken = {}
  <2> DEFINE email == SeedList[seed.at]
  <2>1. /\ seed'.stage = "running" /\ seed'.at = seed.at + 1
        /\ seed'.added = (IF email \in Taken THEN {} ELSE {email})
        /\ seed'.flushed = seed.flushed \cup seed.added
        /\ seed.stage \in {"ready", "running"}
    <3>1. /\ seed' = [stage |-> "running", at |-> seed.at + 1,
                      added |-> IF email \in Taken THEN {} ELSE {email},
                      flushed |-> seed.flushed \cup seed.added]
          /\ seed.stage \in {"ready", "running"}
      BY <1>4 DEF SeedRow
    <3> HIDE DEF email
    <3> QED BY <3>1
  <2>2. seed'.flushed \cap Taken = {}
    BY <1>4, <2>1 DEF RowsInv, ScriptInv
  <2>3. ASSUME NEW k \in DOMAIN SeedList, k < seed'.at
        PROVE SeedList[k] \in Taken \cup seed'.added \cup seed'.flushed
    <3>1. CASE k = seed.at
      BY <2>1, <3>1
    <3>2. CASE k # seed.at
      <4>1. k < seed.at /\ seed.at # 1
        BY <1>2, <2>1, <2>3, <3>2 DEF Script
      <4>2. SeedList[k] \in Taken \cup seed.added \cup seed.flushed
        BY <2>1, <4>1 DEF RowsInv, ScriptInv
      <4> QED BY <2>1, <4>2
    <3> QED BY <3>1, <3>2
  <2>4. \A e \in Emails : <<e, Seed>> \notin users
    BY <2>1 DEF RowsInv, ScriptInv
  <2>5. ScriptInv'
    BY <1>1, <2>1, <2>2, <2>3, <2>4 DEF ScriptInv
  <2> QED BY <1>1, <2>5, ScriptKeepsRows
<1> QED BY <1>3, <1>4

(* The script stores all its rows, or none. *)
LEMMA SeedCommitKeeps ==
    ASSUME AccountsTypeOK, RowsInv, SeedCommits
    PROVE RowsInv'
<1>1. seed \in Script /\ seed.stage = "running" /\ seed.at > Len(SeedList) /\ calls' = calls
  BY DEF SeedCommits, AccountsTypeOK, accountVars
<1>2. CASE seed.added \cap Taken # {}
  <2>1. /\ seed'.stage = "failed" /\ seed'.flushed = {} /\ seed.stage # "done"
        /\ UNCHANGED <<users, calls>>
    BY <1>1, <1>2 DEF SeedCommits, RollBack, Script
  <2>2. ScriptInv'
    BY <2>1 DEF RowsInv, ScriptInv, Taken
  <2> QED BY <2>1, <2>2, ScriptKeepsRows
<1>3. CASE seed.added \cap Taken = {}
  <2> DEFINE new == seed.flushed \cup seed.added
  <2>1. /\ users' = users \cup (new \X {Seed})
        /\ seed'.stage = "done" /\ seed'.flushed = {}
    BY <1>1, <1>3 DEF SeedCommits, Script
  <2>2. new \cap Taken = {} /\ new \subseteq Emails
    BY <1>1, <1>3 DEF RowsInv, ScriptInv, Script
  <2> HIDE DEF new
  <2>3. \A row \in users' : row \in users \/ (row[1] \in new /\ row = <<row[1], Seed>>)
    BY <2>1
  <2>4. \A row \in users : row[1] \notin new
    BY <2>2 DEF Taken
  <2>5. Taken \cup new \subseteq Taken'
    <3>1. \A e \in new : <<e, Seed>> \in users' /\ <<e, Seed>>[1] = e
      BY <2>1
    <3> QED BY <2>1, <3>1 DEF Taken
  <2>6. ASSUME NEW k \in DOMAIN SeedList PROVE SeedList[k] \in Taken'
    <3>1. k < seed.at
      <4>1. k \in 1 .. Len(SeedList) /\ Len(SeedList) \in Nat
        BY AccountsAssumption, LenProperties
      <4> QED BY <1>1, <4>1 DEF Script
    <3>2. SeedList[k] \in Taken \cup new
      BY <1>1, <3>1 DEF RowsInv, ScriptInv, new
    <3> QED BY <2>5, <3>2
  <2>7. ScriptInv'
    BY <2>1, <2>6 DEF ScriptInv
  <2>8. RowsFollowCalls'
    <3>1. \A r \in Requests, e \in Emails : <<e, r>> \in users' => <<e, r>> \in users
      BY <2>3, AccountsAssumption
    <3> QED BY <1>1, <2>1, <3>1 DEF RowsInv, RowsFollowCalls
  <2>9. \A a, b \in users' : a[1] = b[1] => a = b
    <3>1. \A a, b \in users : a[1] = b[1] => a = b
      BY AccountsCallByCall DEF RowsInv
    <3> QED BY <2>3, <2>4, <3>1
  <2>10. \A q \in Requests : AnswerIsTrue(calls'[q], q, users')
    BY <1>1, <2>1, AccountsCallByCall, AnswersStayTrue DEF RowsInv
  <2>11. OneAccountEach'
    BY <2>6, <2>9, <2>10, AccountsCallByCallNext
  <2> QED BY <2>7, <2>8, <2>11 DEF RowsInv
<1> QED BY <1>2, <1>3

(* The API dies: its calls are over, the rows stay. *)
LEMMA DeathKeepsRows ==
    ASSUME AccountsTypeOK, RowsInv, ApiDies
    PROVE RowsInv'
<1>1. /\ UNCHANGED <<users, seed>> /\ Taken' = Taken /\ calls \in [Requests -> Handler]
      /\ \A r \in Requests :
            calls'[r] = IF calls[r].stage = "unsent" THEN calls[r]
                                                     ELSE [calls[r] EXCEPT !.stage = "done"]
  BY DEF ApiDies, Taken, AccountsTypeOK
<1>2. \A r \in Requests :
          /\ \/ calls'[r].stage = calls[r].stage /\ calls[r].stage = "unsent"
             \/ calls'[r].stage = "done"
          /\ calls'[r].status = calls[r].status /\ calls'[r].email = calls[r].email
  <2> SUFFICES ASSUME NEW r \in Requests
               PROVE /\ \/ calls'[r].stage = calls[r].stage /\ calls[r].stage = "unsent"
                        \/ calls'[r].stage = "done"
                     /\ calls'[r].status = calls[r].status /\ calls'[r].email = calls[r].email
    OBVIOUS
  <2>1. CASE calls[r].stage = "unsent"
    BY <1>1, <2>1
  <2>2. CASE calls[r].stage # "unsent"
    <3>1. calls'[r] = [calls[r] EXCEPT !.stage = "done"] /\ calls[r] \in Handler
      BY <1>1, <2>2
    <3> QED BY <3>1 DEF Handler
  <2> QED BY <2>1, <2>2
<1>3. RowsFollowCalls'
  BY <1>1, <1>2 DEF RowsInv, RowsFollowCalls
<1>4. ScriptInv'
  BY <1>1 DEF RowsInv, ScriptInv
<1>5. \A q \in Requests : AnswerIsTrue(calls'[q], q, users')
  <2> SUFFICES ASSUME NEW q \in Requests PROVE AnswerIsTrue(calls'[q], q, users)
    BY <1>1
  <2>1. AnswerIsTrue(calls[q], q, users)
    BY AccountsCallByCall DEF RowsInv
  <2>2. calls'[q].status = calls[q].status /\ calls'[q].email = calls[q].email
    BY <1>2
  <2> QED BY <2>1, <2>2 DEF AnswerIsTrue
<1>6. OneAccountEach'
  BY <1>1, <1>5, AccountsCallByCall, AccountsCallByCallNext DEF RowsInv
<1> QED BY <1>3, <1>4, <1>6 DEF RowsInv

LEMMA RowsInit == Init => RowsInv
<1> SUFFICES ASSUME Init PROVE RowsInv
  OBVIOUS
<1>1. Taken = {} /\ users = {} /\ \A r \in Requests : calls[r].stage = "unsent" /\ calls[r].status = 0
  BY DEF Init, AccountsInit, Taken
<1>2. OneAccountEach
  BY <1>1 DEF OneAccountEach
<1>3. ScriptInv
  BY <1>1 DEF ScriptInv, Init, AccountsInit
<1> QED BY <1>1, <1>2, <1>3 DEF RowsInv, RowsFollowCalls

(* A handler's answer, and what it is true of. *)
LEMMA ReplyKeepsRows ==
    ASSUME AccountsTypeOK, RowsInv, NEW r \in Requests,
           NEW status \in {0, 200, 201, 400, 401, 500}, Reply(r, status),
           calls[r].stage # "done", UNCHANGED <<users, seed>>,
           \/ status \in {401, 500}
           \/ status = 201 /\ calls[r].stage = "committed"
           \/ status \in {200, 400} /\ calls[r].stage = "look" /\ calls[r].email \in Taken
    PROVE RowsInv'
<1>1. calls \in [Requests -> Handler]
  BY DEF AccountsTypeOK
<1>2. /\ calls' \in [Requests -> Handler]
      /\ calls'[r].stage = "done" /\ calls'[r].status = status
      /\ calls'[r].email = calls[r].email
      /\ \A q \in Requests \ {r} : calls'[q] = calls[q]
  BY <1>1, ReplyMoves
<1>3. AnswerIsTrue(calls'[r], r, users)
  <2>1. CASE status \in {401, 500}
    BY <1>2, <2>1 DEF AnswerIsTrue
  <2>2. CASE status = 201 /\ calls[r].stage = "committed"
    BY <1>2, <2>2 DEF AnswerIsTrue, RowsInv, RowsFollowCalls
  <2>3. CASE status \in {200, 400} /\ calls[r].stage = "look" /\ calls[r].email \in Taken
    <3>1. PICK row \in users : row[1] = calls[r].email
      BY <2>3 DEF Taken
    <3>2. /\ row = <<row[1], row[2]>> /\ row[1] \in Emails
          /\ row[2] \in Requests \cup {Seed}
      BY DEF AccountsTypeOK
    <3>3. row[2] # r
      <4>1. \A e \in Emails : <<e, r>> \notin users
        BY <2>3 DEF RowsInv, RowsFollowCalls
      <4>2. <<row[1], row[2]>> \in users
        BY <3>2
      <4> QED BY <3>2, <4>1, <4>2
    <3> QED BY <1>2, <2>3, <3>1, <3>2, <3>3 DEF AnswerIsTrue
  <2> QED BY <2>1, <2>2, <2>3
<1> QED BY <1>2, <1>3, CallKeepsRows

LEMMA RowsStep ==
    ASSUME AccountsTypeOK, RowsInv, [Next]_vars
    PROVE RowsInv'
<1>1. ASSUME UNCHANGED accountVars PROVE RowsInv'
  <2>1. UNCHANGED <<users, calls, seed>>
    BY <1>1 DEF accountVars
  <2>2. ScriptInv'
    BY <2>1 DEF RowsInv, ScriptInv, Taken
  <2> QED BY <2>1, <2>2, ScriptKeepsRows
<1>2. ASSUME NEW r \in Requests, NEW kind \in {"register", "login"}, NEW email \in Emails,
             NEW right \in BOOLEAN, Receive(r, kind, email, right)
      PROVE RowsInv'
  <2> DEFINE h == [stage |-> "look", kind |-> kind, email |-> email, right |-> right,
                   status |-> 0]
  <2>1. h \in Handler /\ h.stage = "look" /\ h.status = 0
    BY DEF Handler, Stage
  <2>2. /\ UNCHANGED <<users, seed>> /\ calls[r].stage = "unsent"
        /\ calls' = [calls EXCEPT ![r] = h] /\ calls \in [Requests -> Handler]
    BY <1>2 DEF Receive, AccountsTypeOK
  <2> HIDE DEF h
  <2>3. /\ calls' \in [Requests -> Handler] /\ calls'[r] = h
        /\ \A q \in Requests \ {r} : calls'[q] = calls[q]
    BY <2>1, <2>2
  <2> QED BY <2>1, <2>2, <2>3, CallKeepsRows
<1>3. ASSUME NEW r \in Requests, LookForEmail(r) PROVE RowsInv'
  <2>1. UNCHANGED <<users, seed>> /\ calls[r].stage = "look"
    BY <1>3 DEF LookForEmail
  <2>2. CASE calls[r].email \in Taken
    BY <1>3, <2>1, <2>2, ReplyKeepsRows DEF LookForEmail
  <2>3. CASE calls[r].email \notin Taken
    <3>1. calls' = [calls EXCEPT ![r].stage = "commit"] /\ calls \in [Requests -> Handler]
      BY <1>3, <2>3 DEF LookForEmail, Goto, AccountsTypeOK
    <3>2. "commit" \in Stage
      BY DEF Stage
    <3>3. /\ calls' \in [Requests -> Handler]
          /\ calls'[r].stage = "commit" /\ calls'[r].status = calls[r].status
          /\ \A q \in Requests \ {r} : calls'[q] = calls[q]
      BY <3>1, <3>2 DEF Handler
    <3>4. calls[r].status = 0
      BY <2>1 DEF RowsInv, RowsFollowCalls
    <3> QED BY <2>1, <3>3, <3>4, CallKeepsRows
  <2> QED BY <2>2, <2>3
<1>4. ASSUME NEW r \in Requests, Registered(r) PROVE RowsInv'
  BY <1>4, ReplyKeepsRows DEF Registered
<1>5. ASSUME NEW r \in Requests, Login(r) PROVE RowsInv'
  <2>1. CASE calls[r].email \in Taken /\ calls[r].right
    BY <1>5, <2>1, ReplyKeepsRows DEF Login
  <2>2. CASE ~(calls[r].email \in Taken /\ calls[r].right)
    BY <1>5, <2>2, ReplyKeepsRows DEF Login
  <2> QED BY <2>1, <2>2
<1>6. ASSUME NEW r \in Requests, CallFails(r) PROVE RowsInv'
  BY <1>6, ReplyKeepsRows DEF CallFails
<1>7. CASE AccountsNext
  BY <1>2, <1>3, <1>4, <1>5, <1>6, <1>7, CommitKeepsRows, SeedRowKeeps, SeedCommitKeeps,
     DeathKeepsRows DEF AccountsNext, Handle
<1>8. CASE UNCHANGED vars
  BY <1>1, <1>8 DEF vars
<1> QED BY <1>1, <1>7, <1>8 DEF Next

(* One row of each e-mail, answers that are true of the rows, and a script *)
(* that stores all its rows or none, however requests and script overlap.  *)
THEOREM OneAccount == Spec => []OneAccountEach
<1>1. TypeOK => AccountsTypeOK
  BY DEF TypeOK
<1>2. RowsInv => OneAccountEach
  BY DEF RowsInv
<1> QED BY <1>1, <1>2, RowsInit, RowsStep, ActivityTypes, PTL DEF Spec

(* How the table grows: no row goes, none is stored of an e-mail that is   *)
(* taken, a request stores one row alone, and with a row of the script all *)
(* the e-mails of its list are there.                                      *)
AccountsAreAdded ==
    /\ users \subseteq users'
    /\ \A row \in users' \ users :
          /\ row[1] \notin Taken
          /\ row[2] # Seed => users' = users \cup {row}
          /\ row[2] = Seed => \A k \in DOMAIN SeedList : SeedList[k] \in Taken'

LEMMA RowIsAdded ==
    ASSUME NEW r \in Requests, CommitUser(r)
    PROVE AccountsAreAdded
<1>1. CASE UNCHANGED users
  BY <1>1 DEF AccountsAreAdded
<1>2. ASSUME calls[r].email \notin Taken, users' = users \cup {<<calls[r].email, r>>}
      PROVE AccountsAreAdded
  <2>1. r # Seed
    BY AccountsAssumption
  <2>2. \A row \in users' \ users : row = <<calls[r].email, r>>
    BY <1>2
  <2> QED BY <1>2, <2>1, <2>2 DEF AccountsAreAdded
<1> QED BY <1>1, <1>2 DEF CommitUser

LEMMA ScriptIsAdded ==
    ASSUME AccountsTypeOK, RowsInv, RowsInv', SeedCommits
    PROVE AccountsAreAdded
<1> DEFINE new == seed.flushed \cup seed.added
<1>1. CASE UNCHANGED users
  BY <1>1 DEF AccountsAreAdded
<1>2. ASSUME seed.added \cap Taken = {}, users' = users \cup (new \X {Seed}),
             seed' = [seed EXCEPT !.stage = "done", !.added = {}, !.flushed = {}]
      PROVE AccountsAreAdded
  <2>1. new \cap Taken = {}
    BY <1>2 DEF RowsInv, ScriptInv
  <2>2. seed'.stage = "done"
    BY <1>2 DEF AccountsTypeOK, Script
  <2>3. \A k \in DOMAIN SeedList : SeedList[k] \in Taken'
    BY <2>2 DEF RowsInv, ScriptInv
  <2>4. \A row \in users' \ users : row[1] \in new /\ row[2] = Seed
    BY <1>2
  <2> QED BY <1>2, <2>1, <2>3, <2>4 DEF AccountsAreAdded
<1> QED BY <1>1, <1>2 DEF SeedCommits

(* Whatever overlaps and fails, accounts are only added, one for an e-mail *)
(* that was free, and the script's all at once (auth.py:57-70,             *)
(* seed.py:59-80).                                                         *)
THEOREM AccountsOnlyAdded == Spec => [][AccountsAreAdded]_vars
<1>1. AccountsTypeOK /\ RowsInv /\ RowsInv' /\ [Next]_vars => [AccountsAreAdded]_vars
  <2> SUFFICES ASSUME AccountsTypeOK, RowsInv, RowsInv', [Next]_vars
               PROVE AccountsAreAdded
    OBVIOUS
  <2>1. CASE UNCHANGED users
    BY <2>1 DEF AccountsAreAdded
  <2>2. \/ UNCHANGED users
        \/ \E r \in Requests : CommitUser(r)
        \/ SeedCommits
    BY DEF Next, AccountsNext, Handle, Receive, LookForEmail, Registered, Login, CallFails,
           ApiDies, SeedRow, vars, accountVars
  <2> QED BY <2>1, <2>2, RowIsAdded, ScriptIsAdded
<1>2. TypeOK => AccountsTypeOK
  BY DEF TypeOK
<1> QED BY <1>1, <1>2, RowsInit, RowsStep, ActivityTypes, PTL DEF Spec

-----------------------------------------------------------------------------
(* What a send does to the topic. *)
OthersOnce ==
    \A j, k \in DOMAIN topic : topic[j] = topic[k] => j = k \/ topic[j] \in resent

LEMMA AppendFacts ==
    ASSUME topic \in Seq(Requests), NEW r \in Requests, topic' = Append(topic, r)
    PROVE /\ \A q \in Requests : Produced(q)' <=> Produced(q) \/ q = r
          /\ OthersOnce /\ (Produced(r) => r \in resent') /\ resent \subseteq resent'
                => OthersOnce'
<1> DEFINE n == Len(topic)
<1>1. n \in Nat /\ DOMAIN topic = 1 .. n /\ DOMAIN topic' = 1 .. n + 1
  BY LenProperties, AppendProperties
<1>2. (\A k \in 1 .. n : topic'[k] = topic[k]) /\ topic'[n + 1] = r
  BY AppendProperties
<1> HIDE DEF n
<1>3. \A k \in 1 .. n + 1 : k \in 1 .. n \/ k = n + 1
  BY <1>1
<1>4. 1 .. n \subseteq 1 .. n + 1 /\ n + 1 \in 1 .. n + 1
  BY <1>1
<1>5. \A q \in Requests : Produced(q)' <=> Produced(q) \/ q = r
  BY <1>1, <1>2, <1>3, <1>4 DEF Produced
<1>6. ASSUME OthersOnce, Produced(r) => r \in resent', resent \subseteq resent',
             NEW j \in DOMAIN topic', NEW k \in DOMAIN topic', topic'[j] = topic'[k], j # k
      PROVE topic'[j] \in resent'
  <2>1. CASE j \in 1 .. n /\ k \in 1 .. n
    BY <1>1, <1>2, <1>6, <2>1 DEF OthersOnce
  <2>2. CASE j = n + 1 \/ k = n + 1
    <3>1. topic'[j] = r /\ Produced(r)
      BY <1>1, <1>2, <1>3, <1>6, <2>2 DEF Produced
    <3> QED BY <1>6, <3>1
  <2> QED BY <1>1, <1>3, <2>1, <2>2
<1> QED BY <1>5, <1>6 DEF OthersOnce

LEMMA SameTopic ==
    ASSUME topic' = topic
    PROVE /\ \A q : Produced(q)' <=> Produced(q)
          /\ OthersOnce /\ resent \subseteq resent' => OthersOnce'
BY DEF Produced, OthersOnce

(* A task exists for those who were welcomed, and is done with its event   *)
(* when that is in the topic, or has lost its acknowledgement.             *)
EventInv(r) ==
    /\ calls[r].stage # "done" => calls[r].status = 0 /\ tasks[r].stage = "none"
    /\ tasks[r].stage # "none" <=> Welcome(r)
    /\ Produced(r) => Welcome(r) /\ (tasks[r].stage = "done" \/ r \in resent)

EventsInv == OthersOnce /\ \A r \in Requests : EventInv(r)

(* What a step of the client may do to tasks and topic: no task begins or  *)
(* begins anew, and an event is appended by a task that is done with it or *)
(* has lost its acknowledgement.                                           *)
TaskMoves ==
    /\ resent \subseteq resent'
    /\ \A q \in Requests :
          /\ tasks[q].stage = "none" <=> tasks'[q].stage = "none"
          /\ tasks[q].stage = "done" => tasks'[q].stage = "done"
    /\ \/ UNCHANGED topic
       \/ \E r \in Requests : /\ topic' = Append(topic, r)
                              /\ tasks[r].stage = "sending"
                              /\ tasks'[r].stage = "done" \/ r \in resent'

LEMMA KafkaMoves ==
    ASSUME KafkaTypeOK, KafkaNext
    PROVE TaskMoves
<1> USE DEF Task
<1>1. tasks \in [Requests -> Task]
  BY DEF KafkaTypeOK
<1>2. ASSUME NEW r \in Requests, NEW try, Start(r, try), UNCHANGED <<topic, resent>>,
             tasks[r].stage \in {"new", "sleeping"}
      PROVE TaskMoves
  BY <1>1, <1>2 DEF Start, TaskMoves
<1>3. ASSUME NEW r \in Requests, Finish(r), UNCHANGED <<topic, resent>>, tasks[r].stage # "none"
      PROVE TaskMoves
  BY <1>1, <1>3 DEF Finish, TaskMoves
<1>4. ASSUME NEW r \in Requests, UNCHANGED <<topic, resent>>, tasks[r].stage \notin {"none", "done"},
             tasks' = [tasks EXCEPT ![r].stage = "sending", ![r].uses = producer]
      PROVE TaskMoves
  BY <1>1, <1>4 DEF TaskMoves
<1>5. ASSUME NEW r \in Requests, GetProducer(r) PROVE TaskMoves
  BY <1>2, <1>4, <1>5 DEF GetProducer
<1>6. ASSUME NEW r \in Requests, Started(r) PROVE TaskMoves
  BY <1>3, <1>4, <1>6 DEF Started
<1>7. ASSUME NEW r \in Requests, Retry(r) PROVE TaskMoves
  BY <1>2, <1>3, <1>7 DEF Retry
<1>8. ASSUME NEW r \in Requests, StartFails(r) PROVE TaskMoves
  BY <1>1, <1>8 DEF StartFails, TaskMoves
<1>9. ASSUME NEW r \in Requests, Send(r) PROVE TaskMoves
  BY <1>1, <1>9 DEF Send, Finish, TaskMoves
<1>10. ASSUME NEW r \in Requests, SendFails(r) PROVE TaskMoves
  BY <1>1, <1>10 DEF SendFails, Finish, TaskMoves
<1>11. ASSUME NEW r \in Requests, SendsTooEarly(r) PROVE TaskMoves
  BY <1>3, <1>11 DEF SendsTooEarly
<1>12. ASSUME NEW r \in Requests, AckLost(r) PROVE TaskMoves
  BY <1>1, <1>12 DEF AckLost, TaskMoves
<1> QED BY <1>5, <1>6, <1>7, <1>8, <1>9, <1>10, <1>11, <1>12 DEF KafkaNext, Produce

LEMMA ClientKeepsEvents ==
    ASSUME KafkaTypeOK, EventsInv, TaskMoves, UNCHANGED calls
    PROVE EventsInv'
<1>1. topic \in Seq(Requests)
  BY DEF KafkaTypeOK
<1>2. \A q \in Requests : Welcome(q)' <=> Welcome(q)
  BY DEF Welcome
<1>3. CASE UNCHANGED topic
  BY <1>2, <1>3, SameTopic DEF EventsInv, EventInv, TaskMoves
<1>4. ASSUME NEW r \in Requests, topic' = Append(topic, r),
             tasks[r].stage = "sending", tasks'[r].stage = "done" \/ r \in resent'
      PROVE EventsInv'
  <2>1. resent \subseteq resent' /\ (Produced(r) => r \in resent)
    BY <1>4 DEF EventsInv, EventInv, TaskMoves
  <2>2. OthersOnce' /\ \A q \in Requests : Produced(q)' <=> Produced(q) \/ q = r
    BY <1>1, <1>4, <2>1, AppendFacts DEF EventsInv
  <2>3. ASSUME NEW q \in Requests PROVE EventInv(q)'
    BY <1>2, <1>4, <2>1, <2>2 DEF EventsInv, EventInv, TaskMoves
  <2> QED BY <2>2, <2>3 DEF EventsInv
<1> QED BY <1>3, <1>4 DEF TaskMoves

(* A handler moves, and spawns its task when it welcomes.                  *)
LEMMA HandlerKeepsEvents ==
    ASSUME EventsInv, NEW r \in Requests, UNCHANGED <<topic, resent>>,
           calls[r].stage # "done",
           \A q \in Requests \ {r} : calls'[q] = calls[q] /\ tasks'[q] = tasks[q],
           \/ /\ calls'[r].status \in {0, 400, 401, 500} /\ tasks'[r] = tasks[r]
              /\ calls'[r].stage = "done" \/ calls'[r].status = 0
           \/ /\ calls'[r].status \in {200, 201} /\ calls'[r].stage = "done"
              /\ tasks'[r].stage = "new"
    PROVE EventsInv'
<1>1. /\ tasks[r].stage = "none" /\ ~Produced(r) /\ ~Welcome(r)
  BY DEF EventsInv, EventInv
<1>2. OthersOnce' /\ \A q : Produced(q)' <=> Produced(q)
  BY SameTopic DEF EventsInv
<1>3. ASSUME NEW q \in Requests PROVE EventInv(q)'
  <2>1. CASE q = r
    BY <1>1, <1>2, <2>1 DEF EventInv, Welcome
  <2>2. CASE q # r
    <3>1. EventInv(q)
      BY DEF EventsInv
    <3> QED BY <1>2, <2>2, <3>1 DEF EventInv, Welcome
  <2> QED BY <2>1, <2>2
<1> QED BY <1>2, <1>3 DEF EventsInv

LEMMA SpawnMoves ==
    ASSUME KafkaTypeOK, NEW r \in Requests, tasks' = Spawned(r)
    PROVE /\ tasks'[r].stage = "new"
          /\ \A q \in Requests \ {r} : tasks'[q] = tasks[q]
BY DEF KafkaTypeOK, Spawned, Task

LEMMA AccountsKeepEvents ==
    ASSUME AccountsTypeOK, KafkaTypeOK, EventsInv, AccountsNext
    PROVE EventsInv'
<1>1. calls \in [Requests -> Handler] /\ tasks \in [Requests -> Task]
  BY DEF AccountsTypeOK, KafkaTypeOK
<1>2. ASSUME NEW r \in Requests, NEW status \in {0, 400, 401, 500}, Reply(r, status),
             calls[r].stage # "done", UNCHANGED <<topic, resent, tasks>>
      PROVE EventsInv'
  BY <1>1, <1>2, ReplyMoves, HandlerKeepsEvents
<1>3. ASSUME NEW r \in Requests, NEW status \in {200, 201}, Reply(r, status),
             calls[r].stage # "done", UNCHANGED <<topic, resent>>, tasks' = Spawned(r)
      PROVE EventsInv'
  BY <1>1, <1>3, ReplyMoves, SpawnMoves, HandlerKeepsEvents
<1>4. ASSUME NEW r \in Requests, NEW stage, Goto(r, stage),
             calls[r].stage # "done", UNCHANGED <<topic, resent, tasks>>
      PROVE EventsInv'
  <2>1. /\ calls'[r].status = calls[r].status
        /\ \A q \in Requests \ {r} : calls'[q] = calls[q]
    BY <1>1, <1>4 DEF Goto, Handler
  <2>2. calls[r].status = 0
    BY <1>4 DEF EventsInv, EventInv
  <2> QED BY <1>4, <2>1, <2>2, HandlerKeepsEvents
<1>5. ASSUME UNCHANGED <<topic, resent, tasks, calls>> PROVE EventsInv'
  BY <1>5, SameTopic DEF EventsInv, EventInv, Welcome
<1>6. ASSUME NEW r \in Requests, NEW kind \in {"register", "login"}, NEW email \in Emails,
             NEW right \in BOOLEAN, Receive(r, kind, email, right)
      PROVE EventsInv'
  BY <1>1, <1>6, HandlerKeepsEvents DEF Receive, kafkaVars
<1>7. ASSUME NEW r \in Requests, LookForEmail(r) \/ CommitUser(r) PROVE EventsInv'
  BY <1>2, <1>4, <1>7 DEF LookForEmail, CommitUser, kafkaVars
<1>8. ASSUME NEW r \in Requests, Registered(r) PROVE EventsInv'
  BY <1>3, <1>8 DEF Registered
<1>9. ASSUME NEW r \in Requests, Login(r) PROVE EventsInv'
  BY <1>2, <1>3, <1>9 DEF Login
<1>10. ASSUME NEW r \in Requests, CallFails(r) PROVE EventsInv'
  BY <1>2, <1>10 DEF CallFails, kafkaVars
<1>11. CASE ApiDies
  <2>1. /\ \A r \in Requests :
             /\ tasks'[r].stage = IF tasks[r].stage = "none" THEN "none" ELSE "done"
             /\ calls'[r] = IF calls[r].stage = "unsent" THEN calls[r]
                                                ELSE [calls[r] EXCEPT !.stage = "done"]
        /\ UNCHANGED <<topic, resent>>
    BY <1>11 DEF ApiDies, ClientDies, NoTask
  <2>2. \A r \in Requests :
            /\ calls'[r].status = calls[r].status
            /\ calls'[r].stage # "done" => calls[r].stage # "done"
    <3> SUFFICES ASSUME NEW r \in Requests
                 PROVE /\ calls'[r].status = calls[r].status
                       /\ calls'[r].stage # "done" => calls[r].stage # "done"
      OBVIOUS
    <3>1. CASE calls[r].stage = "unsent"
      BY <2>1, <3>1
    <3>2. CASE calls[r].stage # "unsent"
      <4>1. calls'[r] = [calls[r] EXCEPT !.stage = "done"] /\ calls[r] \in Handler
        BY <1>1, <2>1, <3>2
      <4> QED BY <4>1 DEF Handler
    <3> QED BY <3>1, <3>2
  <2>3. ASSUME NEW r \in Requests PROVE EventInv(r)'
    <3>1. EventInv(r)
      BY DEF EventsInv
    <3> QED BY <2>1, <2>2, <3>1, SameTopic DEF EventInv, Welcome
  <2> QED BY <2>1, <2>3, SameTopic DEF EventsInv
<1>12. CASE SeedRow \/ SeedCommits
  BY <1>5, <1>12 DEF SeedRow, SeedCommits, kafkaVars
<1>13. \A r \in Requests : calls[r].stage \in {"look", "commit", "committed"} => calls[r].stage # "done"
  OBVIOUS
<1> QED BY <1>6, <1>7, <1>8, <1>9, <1>10, <1>11, <1>12 DEF AccountsNext, Handle

LEMMA EventsInit == Init => EventsInv
BY DEF Init, KafkaInit, AccountsInit, EventsInv, EventInv, OthersOnce, Produced, Welcome, NoTask

LEMMA EventsStep ==
    ASSUME TypeOK, EventsInv, [Next]_vars
    PROVE EventsInv'
<1>1. ASSUME UNCHANGED <<topic, resent, tasks, calls>> PROVE EventsInv'
  BY <1>1, SameTopic DEF EventsInv, EventInv, Welcome
<1>2. CASE AccountsNext
  BY <1>2, AccountsKeepEvents DEF TypeOK
<1>3. CASE KafkaNext /\ UNCHANGED <<accountVars, loggerVars>>
  BY <1>3, KafkaMoves, ClientKeepsEvents DEF TypeOK, accountVars
<1>4. CASE LoggerNext /\ UNCHANGED <<accountVars, kafkaVars>>
  BY <1>1, <1>4 DEF accountVars, kafkaVars
<1>5. CASE UNCHANGED vars
  BY <1>1, <1>5 DEF vars, accountVars, kafkaVars
<1> QED BY <1>2, <1>3, <1>4, <1>5 DEF Next

(* No event is in the topic before its request was welcomed, and none is   *)
(* there twice unless its acknowledgement was lost: no other failure, no   *)
(* restart and no retry of another task copies it.                         *)
THEOREM EventsTellTheTruth == Spec => []EventsAreTrue
<1>1. EventsInv => EventsAreTrue
  BY DEF EventsInv, EventInv, EventsAreTrue, OthersOnce
<1> QED BY <1>1, EventsInit, EventsStep, ActivityTypes, PTL DEF Spec

-----------------------------------------------------------------------------
(* How a task can end without its event, and what it knows before that.    *)
LossInv(r) ==
    /\ tasks[r].stage = "sending" /\ objects[tasks[r].uses] # "ready" => r \in early
    /\ tasks[r].stage # "sleeping"
    /\ tasks[r].stage = "starting" => producer # NoProducer
    /\ tasks[r].stage = "done" => Produced(r) \/ r \in early
    /\ tasks[r].stage \in {"none", "new"} =>
          \A k \in 1 .. Attempts : objects[<<r, k>>] = "unmade"

(* Nothing of it is claimed once something has failed. *)
LossesInv == faults = 0 => \A r \in Requests : LossInv(r)

FaultStep == faults' = faults \/ (faults' = faults + 1 /\ faults' > 0)

LEMMA FaultsStay ==
    ASSUME TypeOK, [Next]_vars
    PROVE FaultStep
<1>1. faults \in 0 .. MaxFaults
  BY DEF TypeOK, KafkaTypeOK
<1>2. ASSUME NEW kind, Fault(kind) PROVE FaultStep
  BY <1>1, <1>2, FaultCounts DEF FaultStep
<1>2a. ASSUME UNCHANGED faults PROVE FaultStep
  BY <1>2a DEF FaultStep
<1>3. AccountsNext => FaultStep
  BY <1>2, <1>2a DEF AccountsNext, Handle, Receive, LookForEmail, CommitUser, Registered, Login,
              CallFails, ApiDies, SeedRow, SeedCommits
<1>4. KafkaNext => FaultStep
  BY <1>2, <1>2a DEF KafkaNext, Produce, GetProducer, Started, Retry, Send, SendFails,
              SendsTooEarly, StartFails, AckLost
<1>5. LoggerNext => FaultStep
  BY <1>2, <1>2a DEF LoggerNext, IteratorRaises, LoggerRestarts
<1> QED BY <1>2a, <1>3, <1>4, <1>5 DEF Next, vars

(* Without a failure a task gets a producer, started or not, and uses it.  *)
LEMMA ClientKeepsLosses ==
    ASSUME KafkaTypeOK, \A r \in Requests : LossInv(r), faults = 0, faults' = 0,
           NEW r \in Requests,
           Produce(r) \/ StartFails(r) \/ AckLost(r) \/ SendFails(r) \/ SendsTooEarly(r)
    PROVE \A q \in Requests : LossInv(q)'
<1>1. /\ tasks \in [Requests -> Task] /\ topic \in Seq(Requests)
      /\ objects \in [Producers -> {"unmade", "starting", "ready", "failed"}]
      /\ \A q \in Requests : tasks[q].stage = "sending" => tasks[q].uses \in Producers
      /\ producer \in Producers \cup {NoProducer}
      /\ NoProducer \notin Producers /\ 1 \in 1 .. Attempts
      /\ \A q \in Requests, k \in 1 .. Attempts : <<q, k>> \in Producers
  BY KafkaAssumption DEF KafkaTypeOK, Producers
<1>2. /\ \A q \in Requests : LossInv(q)
      /\ tasks[r].stage # "sleeping"
  BY DEF LossInv
<1>3. ~StartFails(r) /\ ~SendFails(r) /\ ~AckLost(r)
  BY DEF StartFails, SendFails, AckLost, Fault
<1>4. ~Retry(r)
  BY <1>2 DEF Retry
<1>5. CASE GetProducer(r) /\ producer = NoProducer
  <2>1. Start(r, 1) /\ UNCHANGED <<early, topic>> /\ tasks[r].stage = "new"
    BY <1>5 DEF GetProducer
  <2>2. /\ producer' = <<r, 1>> /\ objects' = [objects EXCEPT ![<<r, 1>>] = "starting"]
        /\ objects[<<r, 1>>] = "unmade"
    BY <1>1, <1>2, <2>1 DEF Start, LossInv
  <2>3. /\ tasks'[r].stage = "starting"
        /\ \A q \in Requests \ {r} : tasks'[q] = tasks[q]
    BY <1>1, <2>1 DEF Start, Task
  <2>4. producer' # NoProducer
    BY <1>1, <2>2
  <2>5. ASSUME NEW q \in Requests \ {r} PROVE LossInv(q)'
    <3>1. \A k \in 1 .. Attempts : objects'[<<q, k>>] = objects[<<q, k>>]
      BY <1>1, <2>2
    <3>2. \A p \in Producers : objects[p] = "ready" => objects'[p] = "ready"
      BY <1>1, <2>2
    <3> QED BY <1>1, <1>2, <2>1, <2>3, <2>4, <3>1, <3>2, SameTopic DEF LossInv
  <2>6. LossInv(r)'
    BY <2>3, <2>4 DEF LossInv
  <2> QED BY <2>5, <2>6
<1>6. CASE GetProducer(r) /\ producer # NoProducer
  <2>1. /\ tasks' = [tasks EXCEPT ![r].stage = "sending", ![r].uses = producer]
        /\ early' = (IF objects[producer] = "ready" THEN early ELSE early \cup {r})
        /\ UNCHANGED <<producer, objects, topic>>
    BY <1>6 DEF GetProducer
  <2>2. /\ tasks'[r].stage = "sending" /\ tasks'[r].uses = producer
        /\ \A q \in Requests \ {r} : tasks'[q] = tasks[q]
    BY <1>1, <2>1 DEF Task
  <2>3. ASSUME NEW q \in Requests \ {r} PROVE LossInv(q)'
    BY <1>2, <2>1, <2>2, SameTopic DEF LossInv
  <2>4. LossInv(r)'
    BY <2>1, <2>2 DEF LossInv
  <2> QED BY <2>3, <2>4
<1>7. CASE Started(r)
  <2> DEFINE p == <<r, tasks[r].tries>>
  <2>1. producer # NoProducer
    BY <1>2, <1>7 DEF Started, LossInv
  <2>2. /\ tasks' = [tasks EXCEPT ![r].stage = "sending", ![r].uses = producer]
        /\ objects' = [objects EXCEPT ![p] = "ready"]
        /\ early' = (IF objects'[producer] = "ready" THEN early ELSE early \cup {r})
        /\ UNCHANGED <<producer, topic>> /\ tasks[r].stage = "starting"
    BY <1>7, <2>1 DEF Started
  <2>3. /\ tasks'[r].stage = "sending" /\ tasks'[r].uses = producer
        /\ \A q \in Requests \ {r} : tasks'[q] = tasks[q]
    BY <1>1, <2>2 DEF Task
  <2>4. ASSUME NEW q \in Requests \ {r} PROVE LossInv(q)'
    <3>1. \A k \in 1 .. Attempts : objects'[<<q, k>>] = objects[<<q, k>>]
      BY <1>1, <2>2
    <3>2. \A o \in Producers : objects[o] = "ready" => objects'[o] = "ready"
      BY <1>1, <2>2
    <3> QED BY <1>1, <1>2, <2>2, <2>3, <3>1, <3>2, SameTopic DEF LossInv
  <2>5. LossInv(r)'
    BY <2>2, <2>3 DEF LossInv
  <2> QED BY <2>4, <2>5
<1>8. CASE Send(r)
  <2>1. /\ topic' = Append(topic, r) /\ UNCHANGED <<producer, objects, early>>
        /\ tasks' = [tasks EXCEPT ![r].stage = "done"]
    BY <1>8 DEF Send, Finish
  <2>2. /\ tasks'[r].stage = "done"
        /\ \A q \in Requests \ {r} : tasks'[q] = tasks[q]
    BY <1>1, <2>1 DEF Task
  <2>3. \A q \in Requests : Produced(q)' <=> Produced(q) \/ q = r
    BY <1>1, <2>1, AppendFacts
  <2>4. ASSUME NEW q \in Requests \ {r} PROVE LossInv(q)'
    BY <1>2, <2>1, <2>2, <2>3 DEF LossInv
  <2>5. LossInv(r)'
    BY <2>2, <2>3 DEF LossInv
  <2> QED BY <2>4, <2>5
<1>9. CASE SendsTooEarly(r)
  <2>1. /\ UNCHANGED <<producer, objects, early, topic>>
        /\ tasks' = [tasks EXCEPT ![r].stage = "done"] /\ r \in early
    BY <1>2, <1>9 DEF SendsTooEarly, Finish, LossInv
  <2>2. /\ tasks'[r].stage = "done"
        /\ \A q \in Requests \ {r} : tasks'[q] = tasks[q]
    BY <1>1, <2>1 DEF Task
  <2>3. ASSUME NEW q \in Requests \ {r} PROVE LossInv(q)'
    BY <1>2, <2>1, <2>2, SameTopic DEF LossInv
  <2>4. LossInv(r)'
    BY <2>1, <2>2 DEF LossInv
  <2> QED BY <2>3, <2>4
<1> QED BY <1>3, <1>4, <1>5, <1>6, <1>7, <1>8, <1>9 DEF Produce

LEMMA LossesStep ==
    ASSUME TypeOK, EventsInv, LossesInv, [Next]_vars
    PROVE LossesInv'
<1> SUFFICES ASSUME faults' = 0 PROVE \A q \in Requests : LossInv(q)'
  BY DEF LossesInv
<1>1. faults = 0 /\ \A q \in Requests : LossInv(q)
  BY FaultsStay DEF LossesInv, FaultStep, TypeOK, KafkaTypeOK
<1>2. KafkaTypeOK /\ AccountsTypeOK /\ calls \in [Requests -> Handler]
  BY DEF TypeOK, AccountsTypeOK
<1>3. ASSUME NEW kind, Fault(kind) PROVE FALSE
  BY <1>1, <1>3 DEF Fault
<1>4. ASSUME UNCHANGED kafkaVars PROVE \A q \in Requests : LossInv(q)'
  BY <1>1, <1>4, SameTopic DEF kafkaVars, LossInv
<1>5. ASSUME NEW r \in Requests, tasks' = Spawned(r), calls[r].stage # "done",
             UNCHANGED <<producer, objects, topic, early>>
      PROVE \A q \in Requests : LossInv(q)'
  <2>1. tasks[r].stage = "none"
    BY <1>5 DEF EventsInv, EventInv
  <2>2. /\ tasks'[r].stage = "new"
        /\ \A q \in Requests \ {r} : tasks'[q] = tasks[q]
    BY <1>2, <1>5, SpawnMoves
  <2> QED BY <1>1, <1>5, <2>1, <2>2, SameTopic DEF LossInv
<1>6. CASE AccountsNext
  <2>1. \/ UNCHANGED kafkaVars
        \/ \E r \in Requests : Registered(r) \/ Login(r)
    BY <1>3, <1>6 DEF AccountsNext, Handle, Receive, LookForEmail, CommitUser, CallFails,
                      ApiDies, SeedRow, SeedCommits
  <2>2. ASSUME NEW r \in Requests, Registered(r) PROVE \A q \in Requests : LossInv(q)'
    BY <1>5, <2>2 DEF Registered
  <2>3. ASSUME NEW r \in Requests, Login(r) PROVE \A q \in Requests : LossInv(q)'
    BY <1>4, <1>5, <2>3 DEF Login, kafkaVars
  <2> QED BY <1>4, <2>1, <2>2, <2>3
<1>7. CASE KafkaNext
  BY <1>1, <1>2, <1>7, ClientKeepsLosses DEF KafkaNext
<1>8. CASE LoggerNext /\ UNCHANGED <<accountVars, kafkaVars>>
  BY <1>4, <1>8
<1>9. CASE UNCHANGED vars
  BY <1>4, <1>9 DEF vars
<1> QED BY <1>6, <1>7, <1>8, <1>9 DEF Next

LEMMA LossesInit == Init => LossesInv
<1> SUFFICES ASSUME Init, NEW r \in Requests PROVE LossInv(r)
  BY DEF LossesInv
<1>1. tasks[r] = NoTask /\ objects = Unmade
  BY DEF Init, KafkaInit
<1> QED BY <1>1 DEF LossInv, NoTask, Unmade, Producers

(* Who was welcomed has his event in the topic or with its task, unless    *)
(* something failed or the task was given a producer that had not started. *)
THEOREM OnlyFailuresLoseEvents == Spec => []EventsLostByFailureOnly
<1>1. TypeOK /\ EventsInv /\ LossesInv => EventsLostByFailureOnly
  <2> SUFFICES ASSUME TypeOK, EventsInv, LossesInv, NEW r \in Requests, Welcome(r),
                      tasks[r].stage \in {"none", "done"}, ~Produced(r)
               PROVE faults > 0 \/ r \in early
    BY DEF EventsLostByFailureOnly
  <2>1. faults = 0 \/ faults > 0
    BY DEF TypeOK, KafkaTypeOK
  <2>2. tasks[r].stage = "done"
    BY DEF EventsInv, EventInv
  <2> QED BY <2>1, <2>2 DEF LossesInv, LossInv
<1> QED BY <1>1, EventsInit, EventsStep, LossesInit, LossesStep, ActivityTypes, PTL DEF Spec
-----------------------------------------------------------------------------
(* The producers that are there or that a sleeping task is about to replace. *)
Waits(r, k) == tasks[r].stage = "sleeping" /\ tasks[r].tries = k

Busy == {p \in Producers : \/ objects[p] \in {"starting", "ready"}
                           \/ objects[p] = "failed" /\ Waits(p[1], p[2])}

(* Each attempt of a task has its object, in the state of the task. *)
AttemptInv ==
    \A r \in Requests :
        tasks[r].stage \in {"starting", "sleeping"} =>
            /\ tasks[r].tries \in 1 .. Attempts
            /\ objects[<<r, tasks[r].tries>>] =
                  IF tasks[r].stage = "starting" THEN "starting" ELSE "failed"

(* A failure is spent whenever the global forgets a producer. *)
Allowed == IF producer = NoProducer THEN faults ELSE faults + 1

OnlyOne == /\ \A p \in Producers : objects[p] # "unmade" => p = producer
           /\ \A r \in Requests : tasks[r].stage # "sleeping"

ProducerInv ==
    /\ AttemptInv
    /\ Cardinality(Busy) <= Allowed
    /\ faults = 0 => OnlyOne

LEMMA BusyIsFinite == IsFiniteSet(Producers) /\ IsFiniteSet(Busy) /\ Cardinality(Busy) \in Nat
<1>1. IsFiniteSet(1 .. Attempts)
  BY KafkaAssumption, FS_Interval
<1>2. IsFiniteSet(Producers)
  BY <1>1, KafkaAssumption, FS_Product DEF Producers
<1>3. Busy \in SUBSET Producers
  BY DEF Busy
<1>4. IsFiniteSet(Busy)
  BY <1>2, <1>3, FS_Subset
<1> QED BY <1>2, <1>4, FS_CardinalityType
(* Fewer are busy, and the global forgets none or a failure is spent. *)
LEMMA FewerAreBusy ==
    ASSUME Busy' \subseteq Busy, KafkaTypeOK, Cardinality(Busy) <= Allowed, faults' \in Nat,
           \/ producer' = producer /\ faults' >= faults
           \/ faults' = faults + 1
    PROVE Cardinality(Busy') <= Allowed'
<1> DEFINE old == Cardinality(Busy)
           new == Cardinality(Busy')
<1>1. /\ old \in Nat /\ new \in Nat /\ new <= old
  BY BusyIsFinite, FS_Subset, FS_CardinalityType
<1>2. faults \in Nat
  BY KafkaAssumption DEF KafkaTypeOK
<1>3. old <= Allowed
  OBVIOUS
<1> HIDE DEF old, new
<1>4. CASE producer' = producer /\ faults' >= faults
  BY <1>1, <1>2, <1>3, <1>4 DEF Allowed, new
<1>5. CASE faults' = faults + 1
  BY <1>1, <1>2, <1>3, <1>5 DEF Allowed, new
<1> QED BY <1>4, <1>5

(* One more is busy when the global was empty; one replaces another.       *)
LEMMA OneMoreIsBusy ==
    ASSUME NEW b, Busy' \subseteq Busy \cup {b}, producer = NoProducer, producer' # NoProducer,
           KafkaTypeOK, Cardinality(Busy) <= Allowed, faults' = faults
    PROVE Cardinality(Busy') <= Allowed'
<1> DEFINE old == Cardinality(Busy)
           more == Cardinality(Busy \cup {b})
           new == Cardinality(Busy')
<1>1. /\ old \in Nat /\ more \in Nat /\ new \in Nat
      /\ new <= more /\ more <= old + 1
  <2>1. IsFiniteSet(Busy \cup {b}) /\ more <= old + 1 /\ old \in Nat
    BY BusyIsFinite, FS_AddElement
  <2> QED BY <2>1, FS_Subset, FS_CardinalityType
<1>2. faults \in Nat
  BY KafkaAssumption DEF KafkaTypeOK
<1> HIDE DEF old, more, new
<1>3. new <= Allowed'
  BY <1>1, <1>2 DEF Allowed, old
<1> QED BY <1>3 DEF new

LEMMA OneReplacesAnother ==
    ASSUME NEW a \in Busy, NEW b, Busy' \subseteq (Busy \ {a}) \cup {b}, producer' # NoProducer,
           KafkaTypeOK, Cardinality(Busy) <= Allowed, faults' = faults
    PROVE Cardinality(Busy') <= Allowed'
<1> DEFINE old == Cardinality(Busy)
           rest == Cardinality(Busy \ {a})
           more == Cardinality((Busy \ {a}) \cup {b})
           new == Cardinality(Busy')
<1>1. IsFiniteSet(Busy \ {a}) /\ rest = old - 1 /\ old \in Nat
  BY BusyIsFinite, FS_RemoveElement
<1>2. IsFiniteSet((Busy \ {a}) \cup {b}) /\ more <= rest + 1 /\ rest \in Nat
  <2>1. rest \in Nat
    BY <1>1, FS_CardinalityType
  <2>2. /\ IsFiniteSet((Busy \ {a}) \cup {b})
        /\ more = IF b \in Busy \ {a} THEN rest ELSE rest + 1
    BY <1>1, FS_AddElement
  <2> HIDE DEF rest, more
  <2> QED BY <2>1, <2>2
<1>3. new \in Nat /\ more \in Nat /\ new <= more
  BY <1>2, FS_Subset, FS_CardinalityType
<1>4. faults \in Nat
  BY KafkaAssumption DEF KafkaTypeOK
<1> HIDE DEF old, rest, more, new
<1>5. new <= old
  BY <1>1, <1>2, <1>3
<1>6. new <= Allowed'
  BY <1>1, <1>3, <1>4, <1>5 DEF Allowed, old
<1> QED BY <1>6 DEF new

(* The start of an attempt. *)
LEMMA StartMoves ==
    ASSUME KafkaTypeOK, NEW r \in Requests, NEW try \in 1 .. Attempts, Start(r, try),
           tasks[r].stage # "sleeping" \/ tasks[r].tries # try
    PROVE /\ producer' = <<r, try>> /\ producer' \in Producers /\ producer' # NoProducer
          /\ tasks'[r].stage = "starting" /\ tasks'[r].tries = try
          /\ \A q \in Requests \ {r} : tasks'[q] = tasks[q]
          /\ objects' = [objects EXCEPT ![<<r, try>>] = "starting"]
          /\ objects'[<<r, try>>] = "starting"
          /\ \A p \in Producers : p # <<r, try>> => objects'[p] = objects[p]
          /\ Busy' \subseteq Busy \cup {<<r, try>>}
<1>1. <<r, try>> \in Producers
  BY DEF Producers
<1>2. /\ producer' = <<r, try>> /\ tasks \in [Requests -> Task]
      /\ objects' = [objects EXCEPT ![<<r, try>>] = "starting"]
      /\ objects \in [Producers -> {"unmade", "starting", "ready", "failed"}]
      /\ tasks' = [tasks EXCEPT ![r].stage = "starting", ![r].tries = try]
  BY DEF Start, KafkaTypeOK
<1>3. /\ tasks'[r].stage = "starting" /\ tasks'[r].tries = try
      /\ \A q \in Requests \ {r} : tasks'[q] = tasks[q]
  BY <1>2 DEF Task
<1>4. ASSUME NEW p \in Producers, p \in Busy', p # <<r, try>> PROVE p \in Busy
  <2>1. objects'[p] = objects[p] /\ p[1] \in Requests
    BY <1>1, <1>2, <1>4 DEF Producers
  <2>2. Waits(p[1], p[2])' => Waits(p[1], p[2])
    BY <1>3, <2>1 DEF Waits
  <2> QED BY <1>4, <2>1, <2>2 DEF Busy
<1>5. Busy' \subseteq Busy \cup {<<r, try>>}
  BY <1>4 DEF Busy
<1> QED BY <1>1, <1>2, <1>3, <1>5, KafkaAssumption

(* Tasks that are neither starting nor asleep do not count. *)
LEMMA AttemptsStay ==
    ASSUME AttemptInv, UNCHANGED objects, NEW r \in Requests,
           tasks'[r].stage \notin {"starting", "sleeping"},
           \A q \in Requests \ {r} : tasks'[q] = tasks[q]
    PROVE AttemptInv' /\ Busy' \subseteq Busy
<1>1. AttemptInv'
  BY DEF AttemptInv
<1>2. ASSUME NEW p \in Producers, Waits(p[1], p[2])' PROVE Waits(p[1], p[2])
  BY <1>2 DEF Waits, Producers
<1> QED BY <1>1, <1>2 DEF Busy
LEMMA ClientKeepsProducers ==
    ASSUME KafkaTypeOK, KafkaTypeOK', ProducerInv, KafkaNext
    PROVE ProducerInv'
<1> USE DEF ProducerInv
<1>1. PICK r \in Requests : \/ Produce(r) \/ StartFails(r)
                             \/ AckLost(r) \/ SendFails(r) \/ SendsTooEarly(r)
  BY DEF KafkaNext
<1>2. /\ tasks \in [Requests -> Task] /\ 1 \in 1 .. Attempts /\ NoProducer \notin Producers
      /\ objects \in [Producers -> {"unmade", "starting", "ready", "failed"}]
      /\ producer \in Producers \cup {NoProducer}
      /\ faults \in Nat /\ faults' \in Nat /\ faults' >= faults
      /\ \A k \in 1 .. Attempts : <<r, k>> \in Producers
  BY <1>1, KafkaAssumption DEF KafkaTypeOK, KafkaNext, Produce, GetProducer, Started, Retry,
     Send, SendFails, SendsTooEarly, StartFails, AckLost, Fault, Producers
<1>3. ASSUME UNCHANGED <<producer, objects>>, tasks'[r].stage \notin {"starting", "sleeping"},
             \A q \in Requests \ {r} : tasks'[q] = tasks[q]
      PROVE ProducerInv'
  <2>1. AttemptInv' /\ Busy' \subseteq Busy
    BY <1>3, AttemptsStay
  <2>2. Cardinality(Busy') <= Allowed'
    BY <1>2, <1>3, <2>1, FewerAreBusy
  <2>3. faults' = 0 => OnlyOne'
    BY <1>2, <1>3 DEF OnlyOne
  <2> QED BY <2>1, <2>2, <2>3
<1>4. ASSUME tasks' = [tasks EXCEPT ![r].stage = "done"], UNCHANGED <<producer, objects>>
      PROVE ProducerInv'
  <2>1. /\ tasks'[r].stage = "done"
        /\ \A q \in Requests \ {r} : tasks'[q] = tasks[q]
    BY <1>2, <1>4 DEF Task
  <2> QED BY <1>3, <1>4, <2>1
<1>5. CASE GetProducer(r) /\ producer # NoProducer
  <2>1. /\ tasks' = [tasks EXCEPT ![r].stage = "sending", ![r].uses = producer]
        /\ UNCHANGED <<producer, objects>>
    BY <1>5 DEF GetProducer
  <2>2. /\ tasks'[r].stage = "sending"
        /\ \A q \in Requests \ {r} : tasks'[q] = tasks[q]
    BY <1>2, <2>1 DEF Task
  <2> QED BY <1>3, <2>1, <2>2
<1>6. CASE GetProducer(r) /\ producer = NoProducer
  <2>1. Start(r, 1) /\ faults' = faults /\ tasks[r].stage = "new"
    BY <1>6 DEF GetProducer
  <2>2. /\ producer' = <<r, 1>> /\ producer' \in Producers /\ producer' # NoProducer
        /\ tasks'[r].stage = "starting" /\ tasks'[r].tries = 1
        /\ \A q \in Requests \ {r} : tasks'[q] = tasks[q]
        /\ objects'[<<r, 1>>] = "starting"
        /\ \A p \in Producers : p # <<r, 1>> => objects'[p] = objects[p]
        /\ Busy' \subseteq Busy \cup {<<r, 1>>}
    BY <1>2, <2>1, StartMoves
  <2>3. Cardinality(Busy') <= Allowed'
    BY <1>6, <2>1, <2>2, OneMoreIsBusy
  <2>4. ASSUME NEW q \in Requests \ {r}, tasks'[q].stage \in {"starting", "sleeping"}
        PROVE /\ tasks'[q].tries \in 1 .. Attempts
              /\ objects'[<<q, tasks'[q].tries>>] = objects[<<q, tasks[q].tries>>]
              /\ tasks'[q] = tasks[q]
    BY <2>2, <2>4 DEF AttemptInv, Producers
  <2>5. AttemptInv'
    BY <1>2, <2>2, <2>4 DEF AttemptInv
  <2>6. faults' = 0 => OnlyOne'
    BY <1>2, <1>6, <2>1, <2>2 DEF OnlyOne
  <2> QED BY <2>3, <2>5, <2>6
<1>7. CASE Started(r)
  <2> DEFINE p == <<r, tasks[r].tries>>
  <2>1. /\ p \in Producers /\ objects[p] = "starting" /\ tasks[r].stage = "starting"
        /\ objects' = [objects EXCEPT ![p] = "ready"]
        /\ UNCHANGED <<producer, faults>>
    BY <1>2, <1>7 DEF Started, AttemptInv
  <2>2. /\ tasks'[r].stage \notin {"starting", "sleeping"}
        /\ \A q \in Requests \ {r} : tasks'[q] = tasks[q]
    BY <1>2, <1>7 DEF Started, Finish, Task
  <2>3. \A o \in Producers : o # p => objects'[o] = objects[o]
    BY <1>2, <2>1
  <2>4. ASSUME NEW o \in Busy' PROVE o \in Busy
    <3>1. o \in Producers /\ o[1] \in Requests
      BY <2>4 DEF Busy, Producers
    <3>2. Waits(o[1], o[2])' => Waits(o[1], o[2])
      BY <2>2, <3>1 DEF Waits
    <3> QED BY <2>1, <2>3, <2>4, <3>1, <3>2 DEF Busy
  <2>5. Cardinality(Busy') <= Allowed'
    BY <1>2, <2>1, <2>4, FewerAreBusy
  <2>6. AttemptInv'
    <3> SUFFICES ASSUME NEW q \in Requests, tasks'[q].stage \in {"starting", "sleeping"}
                 PROVE /\ tasks'[q].tries \in 1 .. Attempts
                       /\ objects'[<<q, tasks'[q].tries>>] =
                             IF tasks'[q].stage = "starting" THEN "starting" ELSE "failed"
      BY DEF AttemptInv
    <3>1. q # r /\ tasks'[q] = tasks[q]
      BY <2>2
    <3>2. <<q, tasks[q].tries>> \in Producers /\ <<q, tasks[q].tries>> # p
      BY <3>1 DEF AttemptInv, Producers
    <3> QED BY <2>3, <3>1, <3>2 DEF AttemptInv
  <2>7. faults' = 0 => OnlyOne'
    BY <2>1, <2>2, <2>3 DEF OnlyOne
  <2> QED BY <2>5, <2>6, <2>7
<1>8. CASE StartFails(r)
  <2> DEFINE p == <<r, tasks[r].tries>>
  <2>1. /\ p \in Producers /\ objects[p] = "starting" /\ tasks[r].stage = "starting"
        /\ tasks[r].tries \in 1 .. Attempts
        /\ objects' = [objects EXCEPT ![p] = "failed"]
        /\ tasks' = [tasks EXCEPT ![r].stage = "sleeping"]
        /\ faults' = faults + 1
    BY <1>2, <1>8 DEF StartFails, AttemptInv, Fault
  <2>2. /\ tasks'[r].stage = "sleeping" /\ tasks'[r].tries = tasks[r].tries
        /\ \A q \in Requests \ {r} : tasks'[q] = tasks[q]
    BY <1>2, <2>1 DEF Task
  <2>3. /\ objects'[p] = "failed"
        /\ \A o \in Producers : o # p => objects'[o] = objects[o]
    BY <1>2, <2>1
  <2>4. ASSUME NEW o \in Busy' PROVE o \in Busy
    <3>1. o \in Producers /\ o[1] \in Requests /\ o = <<o[1], o[2]>>
      BY <2>4 DEF Busy, Producers
    <3>2. o # p => (Waits(o[1], o[2])' => Waits(o[1], o[2]))
      BY <2>2, <3>1 DEF Waits
    <3> QED BY <2>1, <2>3, <2>4, <3>1, <3>2 DEF Busy
  <2>5. Cardinality(Busy') <= Allowed'
    BY <1>2, <2>1, <2>4, FewerAreBusy
  <2>6. AttemptInv'
    <3> SUFFICES ASSUME NEW q \in Requests, tasks'[q].stage \in {"starting", "sleeping"}
                 PROVE /\ tasks'[q].tries \in 1 .. Attempts
                       /\ objects'[<<q, tasks'[q].tries>>] =
                             IF tasks'[q].stage = "starting" THEN "starting" ELSE "failed"
      BY DEF AttemptInv
    <3>1. CASE q = r
      BY <2>1, <2>2, <2>3, <3>1
    <3>2. CASE q # r
      <4>1. tasks'[q] = tasks[q]
        BY <2>2, <3>2
      <4>2. <<q, tasks[q].tries>> \in Producers /\ <<q, tasks[q].tries>> # p
        BY <3>2, <4>1 DEF AttemptInv, Producers
      <4> QED BY <2>3, <4>1, <4>2 DEF AttemptInv
    <3> QED BY <3>1, <3>2
  <2>7. faults' # 0
    BY <1>2, <2>1
  <2> QED BY <2>5, <2>6, <2>7
<1>9. CASE Retry(r) /\ ~(tasks[r].tries < Attempts)
  BY <1>4, <1>9 DEF Retry, Finish
<1>10. CASE Retry(r) /\ tasks[r].tries < Attempts
  <2> DEFINE k == tasks[r].tries
  <2>1. /\ tasks[r].stage = "sleeping" /\ k \in 1 .. Attempts /\ k + 1 \in 1 .. Attempts
        /\ objects[<<r, k>>] = "failed" /\ Start(r, k + 1) /\ faults' = faults
        /\ k + 1 # k
    BY <1>2, <1>10, KafkaAssumption DEF Retry, AttemptInv
  <2>2. /\ producer' # NoProducer
        /\ tasks'[r].stage = "starting" /\ tasks'[r].tries = k + 1
        /\ \A q \in Requests \ {r} : tasks'[q] = tasks[q]
        /\ objects'[<<r, k + 1>>] = "starting"
        /\ \A p \in Producers : p # <<r, k + 1>> => objects'[p] = objects[p]
        /\ Busy' \subseteq Busy \cup {<<r, k + 1>>}
    BY <1>2, <2>1, StartMoves
  <2> HIDE DEF k
  <2>3. /\ <<r, k>> \in Producers /\ <<r, k + 1>> \in Producers
        /\ <<r, k>> # <<r, k + 1>>
    BY <1>2, <2>1
  <2>4. <<r, k>> \in Busy
    BY <2>1, <2>3 DEF Busy, Waits, k
  <2>5. <<r, k>> \notin Busy'
    <3>1. objects'[<<r, k>>] = "failed"
      BY <2>1, <2>2, <2>3
    <3> QED BY <2>2, <3>1 DEF Busy, Waits
  <2>6. Busy' \subseteq (Busy \ {<<r, k>>}) \cup {<<r, k + 1>>}
    BY <2>2, <2>5
  <2>7. Cardinality(Busy') <= Allowed'
    BY <2>1, <2>2, <2>4, <2>6, OneReplacesAnother
  <2>8. ASSUME NEW q \in Requests \ {r}, tasks'[q].stage \in {"starting", "sleeping"}
        PROVE /\ tasks'[q].tries \in 1 .. Attempts
              /\ objects'[<<q, tasks'[q].tries>>] = objects[<<q, tasks[q].tries>>]
              /\ tasks'[q] = tasks[q]
    BY <2>2, <2>8 DEF AttemptInv, Producers
  <2>9. AttemptInv'
    BY <2>1, <2>2, <2>8 DEF AttemptInv
  <2>10. faults # 0
    BY <2>1 DEF OnlyOne
  <2> QED BY <2>1, <2>7, <2>9, <2>10
<1>11. CASE Send(r)
  BY <1>4, <1>11 DEF Send, Finish
<1>12. CASE SendFails(r)
  BY <1>4, <1>12 DEF SendFails, Finish
<1>13. CASE SendsTooEarly(r)
  BY <1>4, <1>13 DEF SendsTooEarly, Finish
<1>14. CASE AckLost(r)
  <2>1. UNCHANGED <<producer, objects, tasks>>
    BY <1>14 DEF AckLost
  <2>2. Busy' = Busy /\ AttemptInv'
    BY <2>1 DEF Busy, Waits, AttemptInv
  <2>3. faults' = faults + 1
    BY <1>14 DEF AckLost, Fault
  <2>4. Cardinality(Busy') <= Allowed'
    BY <1>2, <2>2, <2>3, FewerAreBusy
  <2>5. faults' # 0
    BY <1>2, <2>3
  <2> QED BY <2>2, <2>4, <2>5
<1> QED BY <1>1, <1>5, <1>6, <1>7, <1>8, <1>9, <1>10, <1>11, <1>12, <1>13, <1>14 DEF Produce
LEMMA ProducersStep ==
    ASSUME TypeOK, TypeOK', ProducerInv, EventsInv, [Next]_vars
    PROVE ProducerInv'
<1>1. /\ KafkaTypeOK /\ KafkaTypeOK' /\ tasks \in [Requests -> Task]
      /\ faults \in Nat /\ faults' \in Nat
  BY KafkaAssumption DEF TypeOK, KafkaTypeOK
<1>2. faults' >= faults
  BY <1>1, FaultsStay DEF FaultStep
<1>3. ASSUME UNCHANGED <<producer, objects, tasks>> PROVE ProducerInv'
  <2>1. Busy' = Busy /\ AttemptInv' /\ (OnlyOne => OnlyOne')
    BY <1>3 DEF Busy, Waits, AttemptInv, OnlyOne, ProducerInv
  <2>2. Allowed' >= Allowed /\ Allowed \in Nat /\ Allowed' \in Nat
    <3>1. CASE producer = NoProducer
      BY <1>1, <1>2, <1>3, <3>1 DEF Allowed
    <3>2. CASE producer # NoProducer
      <4> DEFINE before == faults
                 after == faults'
      <4>1. before \in Nat /\ after \in Nat /\ after >= before
        BY <1>1, <1>2
      <4>2. Allowed = before + 1 /\ Allowed' = after + 1
        BY <1>3, <3>2 DEF Allowed
      <4> HIDE DEF before, after
      <4> QED BY <4>1, <4>2
    <3> QED BY <3>1, <3>2
  <2>3. faults' = 0 => faults = 0
    BY <1>1, <1>2
  <2>4. Cardinality(Busy) \in Nat
    BY BusyIsFinite
  <2>5. Cardinality(Busy') <= Allowed'
    BY <2>1, <2>2, <2>4 DEF ProducerInv
  <2> QED BY <2>1, <2>3, <2>5 DEF ProducerInv
<1>4. ASSUME NEW r \in Requests, tasks' = Spawned(r), calls[r].stage # "done",
             UNCHANGED <<producer, objects, faults>>
      PROVE ProducerInv'
  <2>1. /\ tasks'[r].stage = "new"
        /\ \A q \in Requests \ {r} : tasks'[q] = tasks[q]
    BY <1>1, <1>4, SpawnMoves
  <2>2. AttemptInv' /\ Busy' \subseteq Busy
    BY <1>4, <2>1, AttemptsStay DEF ProducerInv
  <2>3. Cardinality(Busy') <= Allowed'
    BY <1>1, <1>4, <2>2, FewerAreBusy DEF ProducerInv
  <2>4. faults' = 0 => OnlyOne'
    BY <1>4, <2>1 DEF ProducerInv, OnlyOne
  <2> QED BY <2>2, <2>3, <2>4 DEF ProducerInv
<1>5. CASE ApiDies
  <2>1. /\ producer' = NoProducer /\ objects' = Unmade /\ faults' = faults + 1
        /\ \A r \in Requests : tasks'[r].stage \in {"none", "done"}
    BY <1>5 DEF ApiDies, ClientDies, Fault, NoTask
  <2>2. Busy' = {}
    BY <2>1 DEF Busy, Unmade
  <2>3. Cardinality(Busy') <= Allowed'
    BY <1>1, <2>1, <2>2, FS_EmptySet DEF Allowed
  <2>4. AttemptInv'
    BY <2>1 DEF AttemptInv
  <2> QED BY <1>1, <2>1, <2>3, <2>4 DEF ProducerInv
<1>6. CASE AccountsNext
  <2>1. \/ UNCHANGED kafkaVars \/ ApiDies
        \/ \E r \in Requests : Registered(r) \/ Login(r)
    BY <1>6 DEF AccountsNext, Handle, Receive, LookForEmail, CommitUser, CallFails,
                SeedRow, SeedCommits
  <2>2. ASSUME NEW r \in Requests, Registered(r) PROVE ProducerInv'
    BY <1>4, <2>2 DEF Registered
  <2>3. ASSUME NEW r \in Requests, Login(r) PROVE ProducerInv'
    BY <1>3, <1>4, <2>3 DEF Login
  <2> QED BY <1>3, <1>5, <2>1, <2>2, <2>3 DEF kafkaVars
<1>7. CASE KafkaNext
  BY <1>1, <1>7, ClientKeepsProducers
<1>8. CASE LoggerNext /\ UNCHANGED <<accountVars, kafkaVars>>
  BY <1>3, <1>8 DEF kafkaVars
<1>9. CASE UNCHANGED vars
  BY <1>3, <1>9 DEF vars, kafkaVars
<1> QED BY <1>6, <1>7, <1>8, <1>9 DEF Next

LEMMA ProducersInit == Init => ProducerInv
<1> SUFFICES ASSUME Init PROVE ProducerInv
  OBVIOUS
<1>1. /\ producer = NoProducer /\ objects = Unmade /\ faults = 0
      /\ \A r \in Requests : tasks[r].stage = "none"
  BY DEF Init, KafkaInit, NoTask
<1>2. Busy = {}
  BY <1>1 DEF Busy, Unmade
<1> QED BY <1>1, <1>2, FS_EmptySet DEF ProducerInv, AttemptInv, Allowed, OnlyOne, Unmade

(* Tasks make producers beside each other only when a start has failed: at *)
(* most one more is started than starts have failed, and one in all when   *)
(* nothing has failed.                                                     *)
THEOREM ProducersAreBounded == Spec => []ProducersBounded
<1>1. TypeOK /\ ProducerInv => ProducersBounded
  <2> SUFFICES ASSUME TypeOK, ProducerInv PROVE ProducersBounded
    OBVIOUS
  <2>1. Ready \in SUBSET Busy
    BY DEF Ready, Busy
  <2>2. /\ Cardinality(Ready) \in Nat /\ Cardinality(Busy) \in Nat
        /\ Cardinality(Ready) <= Cardinality(Busy)
    BY <2>1, BusyIsFinite, FS_Subset, FS_CardinalityType
  <2>3. faults \in Nat
    BY KafkaAssumption DEF TypeOK, KafkaTypeOK
  <2>4. Cardinality(Ready) <= faults + 1
    BY <2>2, <2>3 DEF ProducerInv, Allowed
  <2> DEFINE Made == {p \in Producers : objects[p] # "unmade"}
  <2>5. ASSUME faults = 0 PROVE Cardinality(Made) <= 1
    <3>1. Made \in SUBSET {producer}
      BY <2>5 DEF ProducerInv, OnlyOne
    <3>2. IsFiniteSet({producer}) /\ Cardinality({producer}) = 1
      BY FS_Singleton
    <3> QED BY <3>1, <3>2, FS_Subset
  <2> QED BY <2>4, <2>5 DEF ProducersBounded
<1> QED BY <1>1, EventsInit, EventsStep, ProducersInit, ProducersStep, ActivityTypes, PTL DEF Spec

-----------------------------------------------------------------------------
(* The log lags behind the topic and never passes over an event: what the  *)
(* consumer has handed out, or the group has committed, is printed.        *)
NothingIsSkipped ==
    \A k \in DOMAIN topic : k <= position \/ k <= offset => topic[k] \in logged

(* Nothing is printed that is not in the topic. *)
OnlyEventsAreLogged == \A r \in logged : Produced(r)

LogInv == NothingIsSkipped /\ OnlyEventsAreLogged

(* Once the logger has read the topic to its end, every request that was   *)
(* welcomed is in the log, unless its task is not over, was given a        *)
(* producer that had not started, or something has failed.                 *)
ReadToTheEnd ==
    position = Len(topic) =>
        \A r \in Requests :
            Welcome(r) => \/ r \in logged
                          \/ tasks[r].stage \notin {"none", "done"}
                          \/ r \in early
                          \/ faults > 0

(* Every printed line tells of a request that was answered 200 or 201. *)
LogIsTrue == \A r \in logged : Produced(r) /\ Welcome(r)

(* Who writes to the topic leaves the log as it is: the events that were   *)
(* there are in their places, and the new one is beyond both offsets.      *)
LEMMA WritersKeepLog ==
    ASSUME TypeOK, LogInv, TopicGrows, UNCHANGED loggerVars
    PROVE LogInv'
<1>1. /\ topic \in Seq(Requests) /\ Len(topic) \in Nat
      /\ position \in 0 .. Len(topic) /\ offset \in 0 .. Len(topic)
  BY DEF TypeOK, KafkaTypeOK, LoggerTypeOK
<1>2. UNCHANGED <<position, offset, logged>>
  BY DEF loggerVars
<1>3. CASE UNCHANGED topic
  BY <1>2, <1>3 DEF LogInv, NothingIsSkipped, OnlyEventsAreLogged, Produced
<1>4. ASSUME NEW r \in Requests, topic' = Append(topic, r) PROVE LogInv'
  <2>1. /\ DOMAIN topic = 1 .. Len(topic)
        /\ DOMAIN topic' = 1 .. Len(topic) + 1
        /\ \A k \in 1 .. Len(topic) : topic'[k] = topic[k]
    BY <1>1, <1>4
  <2>2. NothingIsSkipped'
    <3> SUFFICES ASSUME NEW k \in DOMAIN topic', k <= position \/ k <= offset
                 PROVE topic'[k] \in logged
      BY <1>2 DEF NothingIsSkipped
    <3>1. k \in 1 .. Len(topic)
      BY <1>1, <2>1
    <3> QED BY <2>1, <3>1 DEF LogInv, NothingIsSkipped
  <2>3. OnlyEventsAreLogged'
    <3> SUFFICES ASSUME NEW q \in logged PROVE Produced(q)'
      BY <1>2 DEF OnlyEventsAreLogged
    <3>1. PICK k \in DOMAIN topic : topic[k] = q
      BY DEF LogInv, OnlyEventsAreLogged, Produced
    <3>2. k \in DOMAIN topic' /\ topic'[k] = q
      BY <1>1, <2>1, <3>1
    <3> QED BY <3>2 DEF Produced
  <2> QED BY <2>2, <2>3 DEF LogInv
<1> QED BY <1>3, <1>4 DEF TopicGrows

(* The logger prints the event after the last it has handed out; a commit  *)
(* or a restart goes to an offset up to which everything is printed.       *)
LEMMA LoggerKeepsLog ==
    ASSUME TypeOK, LogInv, LoggerNext, UNCHANGED topic
    PROVE LogInv'
<1>1. /\ topic \in Seq(Requests) /\ Len(topic) \in Nat
      /\ position \in 0 .. Len(topic) /\ offset \in 0 .. Len(topic)
      /\ DOMAIN topic = 1 .. Len(topic)
  BY DEF TypeOK, KafkaTypeOK, LoggerTypeOK
<1>2. CASE Consume
  <2>1. /\ position + 1 \in DOMAIN topic /\ offset' = offset
        /\ position' = position + 1 /\ logged' = logged \cup {topic[position + 1]}
    BY <1>1, <1>2 DEF Consume
  <2>2. NothingIsSkipped'
    <3> SUFFICES ASSUME NEW k \in DOMAIN topic, k <= position + 1 \/ k <= offset
                 PROVE topic[k] \in logged \cup {topic[position + 1]}
      BY <2>1 DEF NothingIsSkipped
    <3>1. k = position + 1 \/ k <= position \/ k <= offset
      BY <1>1
    <3> QED BY <3>1 DEF LogInv, NothingIsSkipped
  <2>3. OnlyEventsAreLogged'
    BY <2>1 DEF LogInv, OnlyEventsAreLogged, Produced
  <2> QED BY <2>2, <2>3 DEF LogInv
<1>3. CASE ~Consume
  <2>1. logged' = logged /\ position' \in {position, offset} /\ offset' \in {position, offset}
    BY <1>3 DEF LoggerNext, Connect, AutoCommit, IteratorRaises, LoggerRestarts
  <2> QED BY <2>1 DEF LogInv, NothingIsSkipped, OnlyEventsAreLogged, Produced
<1> QED BY <1>2, <1>3

LEMMA LogStep == TypeOK /\ LogInv /\ [Next]_vars => LogInv'
<1> SUFFICES ASSUME TypeOK, LogInv, [Next]_vars PROVE LogInv'
  OBVIOUS
<1>1. CASE AccountsNext /\ UNCHANGED loggerVars
  BY <1>1, TopicMoves, WritersKeepLog
<1>2. CASE KafkaNext /\ UNCHANGED <<accountVars, loggerVars>>
  BY <1>2, TopicMoves, WritersKeepLog
<1>3. CASE LoggerNext /\ UNCHANGED <<accountVars, kafkaVars>>
  BY <1>3, LoggerKeepsLog DEF kafkaVars
<1>4. CASE UNCHANGED vars
  BY <1>4, WritersKeepLog DEF vars, kafkaVars, TopicGrows
<1> QED BY <1>1, <1>2, <1>3, <1>4 DEF Next

LEMMA LogInit == Init => LogInv
<1> SUFFICES ASSUME Init PROVE LogInv
  OBVIOUS
<1>1. topic = <<>> /\ logged = {}
  BY DEF Init, KafkaInit, LoggerInit
<1> QED BY <1>1 DEF LogInv, NothingIsSkipped, OnlyEventsAreLogged

(* However often the consumer dies, starts anew and goes back to its       *)
(* committed offset, no event is passed over, and every line of the log    *)
(* tells of a request that was welcomed (logger.py:48-83).                 *)
THEOREM LogFollowsTopic == Spec => [](NothingIsSkipped /\ LogIsTrue)
<1>1. TypeOK /\ LogInv /\ EventsInv => NothingIsSkipped /\ LogIsTrue
  <2> SUFFICES ASSUME TypeOK, LogInv, EventsInv, NEW r \in logged
               PROVE Welcome(r)
    BY DEF LogInv, LogIsTrue, OnlyEventsAreLogged
  <2>1. r \in Requests /\ Produced(r)
    BY DEF TypeOK, LoggerTypeOK, LogInv, OnlyEventsAreLogged
  <2> QED BY <2>1 DEF EventsInv, EventInv
<1> QED BY <1>1, EventsInit, EventsStep, LogInit, LogStep, ActivityTypes, PTL DEF Spec

(* Without a failure nobody is left out of a log that is read to its end:  *)
(* what WelcomeIsLogged promises of the states in which nothing is left to *)
(* be done.                                                                *)
THEOREM WelcomeIsInTheLog == Spec => []ReadToTheEnd
<1>1. TypeOK /\ NothingIsSkipped /\ EventsLostByFailureOnly => ReadToTheEnd
  <2> SUFFICES ASSUME TypeOK, NothingIsSkipped, EventsLostByFailureOnly,
                      position = Len(topic),
                      NEW r \in Requests, Welcome(r), tasks[r].stage \in {"none", "done"},
                      r \notin early, ~(faults > 0)
               PROVE r \in logged
    BY DEF ReadToTheEnd
  <2>1. Produced(r)
    BY DEF EventsLostByFailureOnly
  <2>2. PICK k \in DOMAIN topic : topic[k] = r
    BY <2>1 DEF Produced
  <2>3. k <= position
    BY <2>2 DEF TypeOK, KafkaTypeOK
  <2> QED BY <2>2, <2>3 DEF NothingIsSkipped
<1> QED BY <1>1, LogFollowsTopic, OnlyFailuresLoseEvents, ActivityTypes, PTL DEF Spec
=============================================================================
