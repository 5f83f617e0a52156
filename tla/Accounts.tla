------------------------------ MODULE Accounts ------------------------------
(***************************************************************************)
(* Registration and login (api/routers/auth.py), and the script that seeds *)
(* the table `users` (api/seed.py).  Handlers look for the e-mail and      *)
(* insert later; the script does so row by row in one transaction, whose   *)
(* rows nobody sees before it commits.                                     *)
(***************************************************************************)
EXTENDS KafkaClient

CONSTANTS
    Emails,
    SeedList,       \* the e-mails of USERS, in order
    Seed,           \* the owner of a seeded row
    Nobody          \* the e-mail of a request that is not sent yet

ASSUME AccountsAssumption ==
    /\ SeedList \in Seq(Emails)
    /\ \A j, k \in DOMAIN SeedList : SeedList[j] = SeedList[k] => j = k
    /\ Seed \notin Requests
    /\ Nobody \notin Emails

VARIABLES
    users,          \* rows of `users`: e-mail and who stored it
    calls,          \* the handler of every request
    seed            \* the running script

accountVars == <<users, calls, seed>>

Stage == {"unsent", "look", "commit", "committed", "done"}

(* right: the password of a login is the one of the row. *)
Handler == [stage : Stage, kind : {"register", "login"}, email : Emails \cup {Nobody},
            right : BOOLEAN, status : {0, 200, 201, 400, 401, 500}]

(* added: the rows of the session that are not flushed, flushed: those the *)
(* transaction has inserted, which keep their keys from others.            *)
Script == [stage : {"ready", "running", "done", "failed"}, at : 1 .. Len(SeedList) + 1,
           added : SUBSET Emails, flushed : SUBSET Emails]

AccountsInit ==
    /\ users = {}
    /\ calls = [r \in Requests |-> [stage |-> "unsent", kind |-> "login", email |-> Nobody,
                                    right |-> FALSE, status |-> 0]]
    /\ seed = [stage |-> "ready", at |-> 1, added |-> {}, flushed |-> {}]

Taken == {row[1] : row \in users}

Reply(r, status) ==
    calls' = [calls EXCEPT ![r].stage = "done", ![r].status = status]

Goto(r, stage) == calls' = [calls EXCEPT ![r].stage = stage]

-----------------------------------------------------------------------------
Receive(r, kind, email, right) ==
    /\ calls[r].stage = "unsent"
    /\ calls' = [calls EXCEPT ![r] = [stage |-> "look", kind |-> kind, email |-> email,
                                      right |-> right, status |-> 0]]
    /\ UNCHANGED <<users, seed, kafkaVars, faults>>

(* register: the e-mail is looked for. *)
LookForEmail(r) ==
    /\ calls[r].stage = "look" /\ calls[r].kind = "register"
    /\ IF calls[r].email \in Taken THEN Reply(r, 400) ELSE Goto(r, "commit")
    /\ UNCHANGED <<users, seed, kafkaVars, faults>>

(* Mutant: users.email is not unique. *)
CommitUserUnchecked(r) ==
    /\ calls[r].stage = "commit"
    /\ calls[r].email \notin seed.flushed
    /\ users' = users \cup {<<calls[r].email, r>>}
    /\ Goto(r, "committed")
    /\ UNCHANGED <<seed, kafkaVars, faults>>

(* INSERT and COMMIT.  The INSERT waits while another transaction holds    *)
(* the key; a row committed since the query makes it raise, uncaught: 500. *)
CommitUser(r) ==
    /\ calls[r].stage = "commit"
    /\ calls[r].email \notin seed.flushed
    /\ IF calls[r].email \in Taken
       THEN Reply(r, 500) /\ UNCHANGED users
       ELSE users' = users \cup {<<calls[r].email, r>>} /\ Goto(r, "committed")
    /\ UNCHANGED <<seed, kafkaVars, faults>>

(* After the refresh the task is spawned and the request answered. *)
Registered(r) ==
    /\ calls[r].stage = "committed"
    /\ Reply(r, 201)
    /\ tasks' = Spawned(r)
    /\ UNCHANGED <<users, seed, producer, objects, topic, early, resent, faults>>

(* Mutant: the event is produced before the password is looked at. *)
LoginUnverified(r) ==
    /\ calls[r].stage = "look" /\ calls[r].kind = "login"
    /\ Reply(r, IF calls[r].email \in Taken /\ calls[r].right THEN 200 ELSE 401)
    /\ tasks' = Spawned(r)
    /\ UNCHANGED <<users, seed, producer, objects, topic, early, resent, faults>>

Login(r) ==
    /\ calls[r].stage = "look" /\ calls[r].kind = "login"
    /\ IF calls[r].email \in Taken /\ calls[r].right
       THEN Reply(r, 200) /\ tasks' = Spawned(r)
       ELSE Reply(r, 401) /\ UNCHANGED tasks
    /\ UNCHANGED <<users, seed, producer, objects, topic, early, resent, faults>>

(* A database call raises: 500, also when only the answer of the commit is *)
(* lost.                                                                   *)
CallFails(r) ==
    /\ Fault("call")
    /\ calls[r].stage \in {"look", "commit", "committed"}
    /\ Reply(r, 500)
    /\ UNCHANGED <<users, seed, kafkaVars>>

ApiDies ==
    /\ Fault("api")
    /\ ClientDies
    /\ calls' = [r \in Requests |->
                   IF calls[r].stage = "unsent" THEN calls[r]
                                                ELSE [calls[r] EXCEPT !.stage = "done"]]
    /\ UNCHANGED <<users, seed>>

-----------------------------------------------------------------------------
RollBack == seed' = [seed EXCEPT !.stage = "failed", !.added = {}, !.flushed = {}]

(* The next e-mail is looked for.  The query flushes the row added before, *)
(* and its INSERT raises if the key is taken by now: the script ends and   *)
(* its transaction is undone.                                              *)
SeedRow ==
    LET email == SeedList[seed.at] IN
    /\ seed.stage \in {"ready", "running"} /\ seed.at <= Len(SeedList)
    /\ IF seed.added \cap Taken # {}
       THEN RollBack
       ELSE seed' = [stage |-> "running", at |-> seed.at + 1,
                     added |-> IF email \in Taken THEN {} ELSE {email},
                     flushed |-> seed.flushed \cup seed.added]
    /\ UNCHANGED <<users, calls, kafkaVars, faults>>

SeedCommits ==
    /\ seed.stage = "running" /\ seed.at > Len(SeedList)
    /\ IF seed.added \cap Taken # {}
       THEN RollBack /\ UNCHANGED users
       ELSE /\ users' = users \cup ((seed.flushed \cup seed.added) \X {Seed})
            /\ seed' = [seed EXCEPT !.stage = "done", !.added = {}, !.flushed = {}]
    /\ UNCHANGED <<calls, kafkaVars, faults>>

Handle(r) == LookForEmail(r) \/ CommitUser(r) \/ Registered(r) \/ Login(r)

AccountsNext ==
    \/ \E r \in Requests :
          \/ \E kind \in {"register", "login"}, email \in Emails, right \in BOOLEAN :
                Receive(r, kind, email, right)
          \/ Handle(r) \/ CallFails(r)
    \/ ApiDies \/ SeedRow \/ SeedCommits

AccountsTypeOK ==
    /\ users \subseteq Emails \X (Requests \cup {Seed})
    /\ calls \in [Requests -> Handler]
    /\ \A r \in Requests :
          calls[r].stage \in {"look", "commit", "committed"} => calls[r].email \in Emails
    /\ seed \in Script
=============================================================================
