------------------------------ MODULE Activity ------------------------------
(***************************************************************************)
(* From an account to the log: the account handlers, the Kafka client they *)
(* share and the activity logger, composed over the topic `user_activity`. *)
(***************************************************************************)
EXTENDS Accounts, ActivityLogger

vars == <<accountVars, kafkaVars, loggerVars, faults>>

Init == KafkaInit /\ AccountsInit /\ LoggerInit

Next ==
    \/ AccountsNext /\ UNCHANGED loggerVars
    \/ KafkaNext /\ UNCHANGED <<accountVars, loggerVars>>
    \/ LoggerNext /\ UNCHANGED <<accountVars, kafkaVars>>

Spec == Init /\ [][Next]_vars

(* Event loops resume what is awaited, time passes for those who sleep,    *)
(* the script is run to its end and the logger reads what is there.        *)
Fairness ==
    /\ \A r \in Requests :
          /\ WF_vars(Handle(r) /\ UNCHANGED loggerVars)
          /\ WF_vars(Produce(r) /\ UNCHANGED <<accountVars, loggerVars>>)
    /\ WF_vars((Connect \/ Consume) /\ UNCHANGED <<accountVars, kafkaVars, faults>>)

FairSpec == Spec /\ Fairness

TypeOK == KafkaTypeOK /\ AccountsTypeOK /\ LoggerTypeOK

-----------------------------------------------------------------------------
Welcome(r) == calls[r].status \in {200, 201}

(* However registrations of one e-mail and the script overlap, there is    *)
(* one row of it; 201 means that this request stored it, 400 and 200 that  *)
(* it was there; and the script stores all its rows or none (auth.py:57-70,*)
(* seed.py:59-80).                                                         *)
OneAccountEach ==
    /\ \A a, b \in users : a[1] = b[1] => a = b
    /\ \A r \in Requests :
          /\ calls[r].status = 201 => <<calls[r].email, r>> \in users
          /\ calls[r].status = 400 => \E o \in (Requests \cup {Seed}) \ {r} :
                                          <<calls[r].email, o>> \in users
          /\ calls[r].status = 200 => calls[r].email \in Taken
    /\ (\E e \in Emails : <<e, Seed>> \in users)
          => \A k \in DOMAIN SeedList : SeedList[k] \in Taken

(* An event is in the topic only after its request was answered 200 or     *)
(* 201: no event tells of an account or a login that is not there,         *)
(* whatever fails between the commit and the send (auth.py:70-94,          *)
(* kafka_client.py:35-40).  It is there once, unless an acknowledgement of *)
(* that event was lost: a restart, a start that fails, a send that raises  *)
(* or another task's retry never copies it (kafka_client.py:19-22 leaves   *)
(* enable_idempotence off).                                                *)
EventsAreTrue ==
    /\ \A j, k \in DOMAIN topic :
          topic[j] = topic[k] => j = k \/ topic[j] \in resent
    /\ \A r \in Requests : Produced(r) => Welcome(r)

(* The event of a request that was welcomed is in the topic or with its    *)
(* task, unless something failed or the task was given a producer before   *)
(* that had started (kafka_client.py:16-32).                               *)
EventsLostByFailureOnly ==
    \A r \in Requests :
        Welcome(r) /\ tasks[r].stage \in {"none", "done"} /\ ~Produced(r)
          => faults > 0 \/ r \in early

(* Tasks make producers beside each other only when a start has failed:    *)
(* one more per failure at most, although the global forgets some.  (With  *)
(* two requests at most two are ready, and the first conjunct has no case; *)
(* it is proved for every number of requests.)                             *)
ProducersBounded ==
    /\ Cardinality(Ready) <= faults + 1
    /\ faults = 0 => Cardinality({p \in Producers : objects[p] # "unmade"}) <= 1

(* Who is welcomed is in the log in the end, however often the producer,   *)
(* the processes and their connections start anew, unless his event was    *)
(* lost, his task was given a producer that had not started, or the        *)
(* logger's task is dead (kafka_client.py:16-40, logger.py:48-83).         *)
WelcomeIsLogged ==
    \A r \in Requests :
        Welcome(r) ~> \/ r \in logged
                      \/ tasks[r].stage = "done" /\ ~Produced(r)
                      \/ r \in early
                      \/ logger = "dead"
=============================================================================
