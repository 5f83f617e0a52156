------------------------------ MODULE Presence ------------------------------
(***************************************************************************)
(* The TCP presence server (tcp-server/server.py).  Every connection has a *)
(* coroutine, handle_client; they share the set _active_users and the keys *)
(* presence:<user_id> in Redis, and interleave at the awaits of readline,  *)
(* setex, drain and delete.                                                *)
(*                                                                         *)
(* An answer is written and drain() awaited, outside the timeout of        *)
(* readline: it returns at once while the buffer of the socket has room,   *)
(* and waits when the client has not read what was written before, until   *)
(* the client reads or the connection is gone.                             *)
(*                                                                         *)
(* Time passes in ticks.  PRESENCE_TTL is 30 s and the timeout of readline *)
(* 60 s, so a tick of 15 s makes TTL 2 and ReadTimeout 4.                  *)
(***************************************************************************)
EXTENDS Integers

CONSTANTS
    Users,          \* the `sub` claims of valid tokens
    NoUser,         \* user_id of a connection before its first heartbeat
    Conns,          \* connections
    Tokens,         \* Tokens[c]: whose tokens the client of c can present
    TTL,            \* PRESENCE_TTL, in ticks
    ReadTimeout,    \* timeout of readline, in ticks
    MaxFaults       \* bound: failures of Redis and crashes of the server

ASSUME PresenceAssumption ==
    /\ NoUser \notin Users
    /\ Tokens \in [Conns -> SUBSET Users]
    /\ TTL \in Nat \ {0}
    /\ ReadTimeout \in Nat \ {0}
    /\ MaxFaults \in Nat

VARIABLES
    conns,          \* the coroutines of the connections
    active,         \* _active_users
    key,            \* ticks until presence:<u> expires, 0: there is no key
    switched,       \* history: users whose connection went on as somebody else
    faults          \* how many failures have happened

vars == <<conns, active, key, switched, faults>>

(* idle: ticks that readline has waited.  promised: ticks for which the    *)
(* last heartbeat of the connection keeps its user online.                 *)
Conn == [stage : {"closed", "reading", "setex", "drain", "bye", "delete"},
         user : Users \cup {NoUser}, idle : 0 .. ReadTimeout, promised : 0 .. TTL]

Closed == [stage |-> "closed", user |-> NoUser, idle |-> 0, promised |-> 0]

Init ==
    /\ conns = [c \in Conns |-> Closed]
    /\ active = {}
    /\ switched = {}
    /\ key = [u \in Users |-> 0]
    /\ faults = 0

Fault == faults < MaxFaults /\ faults' = faults + 1

-----------------------------------------------------------------------------
Connect(c) ==
    /\ conns[c].stage = "closed"
    /\ conns' = [conns EXCEPT ![c].stage = "reading"]
    /\ UNCHANGED <<active, key, switched, faults>>

(* Mutant: the heartbeat does not enter its user into _active_users. *)
HeartbeatUncounted(c, u) ==
    /\ conns[c].stage = "reading"
    /\ u \in Tokens[c]
    /\ conns' = [conns EXCEPT ![c] =
                   [stage |-> "setex", user |-> u, idle |-> 0,
                    promised |-> IF @.user = u THEN @.promised ELSE 0]]
    /\ UNCHANGED <<active, key, switched, faults>>

(* A heartbeat with a valid token: the connection is u's from now on, u is *)
(* active, and setex is awaited.  Whose it was before is forgotten.        *)
Heartbeat(c, u) ==
    /\ conns[c].stage = "reading"
    /\ u \in Tokens[c]
    /\ conns' = [conns EXCEPT ![c] =
                   [stage |-> "setex", user |-> u, idle |-> 0,
                    promised |-> IF @.user = u THEN @.promised ELSE 0]]
    /\ active' = active \cup {u}
    /\ switched' = (switched \cup {conns[c].user}) \ {u, NoUser}
    /\ UNCHANGED <<key, faults>>

(* Where the handler goes when it has written an answer. *)
AfterAnswer == {"reading", "drain"}

(* Mutant: SET with NX, which leaves the TTL of a key that is there. *)
AnswerNX(c) ==
    /\ conns[c].stage = "setex"
    /\ key' = [key EXCEPT ![conns[c].user] = IF @ > 0 THEN @ ELSE TTL]
    /\ \E stage \in AfterAnswer :
          conns' = [conns EXCEPT ![c].stage = stage, ![c].promised = TTL]
    /\ UNCHANGED <<active, switched, faults>>

(* setex is done: the answer tells Cardinality(active) as online_count. *)
Answer(c) ==
    /\ conns[c].stage = "setex"
    /\ key' = [key EXCEPT ![conns[c].user] = TTL]
    /\ \E stage \in AfterAnswer :
          conns' = [conns EXCEPT ![c].stage = stage, ![c].promised = TTL]
    /\ UNCHANGED <<active, switched, faults>>

(* A line that is answered with an error: not JSON, a token that is not    *)
(* valid, an unknown action.                                               *)
Refuse(c) ==
    /\ conns[c].stage = "reading"
    /\ \E stage \in AfterAnswer :
          conns' = [conns EXCEPT ![c].stage = stage, ![c].idle = 0]
    /\ UNCHANGED <<active, key, switched, faults>>

(* The client reads, and drain returns. *)
Drained(c) ==
    /\ conns[c].stage = "drain"
    /\ conns' = [conns EXCEPT ![c].stage = "reading"]
    /\ UNCHANGED <<active, key, switched, faults>>

(* The client says disconnect; the drain of the answer may wait, too. *)
Disconnect(c) ==
    /\ conns[c].stage = "reading"
    /\ conns' = [conns EXCEPT ![c].stage = "bye", ![c].idle = 0]
    /\ UNCHANGED <<active, key, switched, faults>>

(* The finally block, up to its first await.  Only the user of the last    *)
(* heartbeat is known to it.                                               *)
AfterLoop(conn) ==
    IF conn.user = NoUser THEN Closed
    ELSE [Closed EXCEPT !.stage = "delete", !.user = conn.user]

(* Mutant: the finally block does not discard the user. *)
LeaveLoopCounted(c) ==
    /\ conns' = [conns EXCEPT ![c] = AfterLoop(conns[c])]
    /\ UNCHANGED <<active, switched>>

LeaveLoop(c) ==
    /\ conns' = [conns EXCEPT ![c] = AfterLoop(conns[c])]
    /\ active' = active \ {conns[c].user}
    /\ switched' = switched \ {conns[c].user}

(* The loop ends: the client has its answer to disconnect, or hangs up,    *)
(* which ends a readline and makes a drain raise, or its line raises what  *)
(* the loop does not catch (JSON that is no object, bytes that are no      *)
(* text, a line that is too long).                                         *)
Leave(c) ==
    /\ conns[c].stage \in {"reading", "drain", "bye"}
    /\ LeaveLoop(c)
    /\ UNCHANGED <<key, faults>>

(* Mutant: a timeout goes on reading. *)
TimeOutReadsOn(c) ==
    /\ conns[c].stage = "reading"
    /\ conns[c].idle = ReadTimeout
    /\ conns' = [conns EXCEPT ![c].idle = 1]
    /\ UNCHANGED <<active, key, switched, faults>>

(* readline times out. *)
TimeOut(c) ==
    /\ conns[c].stage = "reading"
    /\ conns[c].idle = ReadTimeout
    /\ LeaveLoop(c)
    /\ UNCHANGED <<key, faults>>

(* setex raises: the exception leaves the loop through the finally block. *)
SetexFails(c) ==
    /\ Fault
    /\ conns[c].stage = "setex"
    /\ LeaveLoop(c)
    /\ UNCHANGED key

(* The key of the user is deleted and the connection closed.  wait_closed  *)
(* may wait for the client, too; nothing of the handler is left to do.     *)
Delete(c) ==
    /\ conns[c].stage = "delete"
    /\ key' = [key EXCEPT ![conns[c].user] = 0]
    /\ conns' = [conns EXCEPT ![c] = Closed]
    /\ UNCHANGED <<active, switched, faults>>

(* delete raises, which is ignored: the key is left to its TTL. *)
DeleteFails(c) ==
    /\ Fault
    /\ conns[c].stage = "delete"
    /\ conns' = [conns EXCEPT ![c] = Closed]
    /\ UNCHANGED <<active, key, switched>>

(* The server dies: its memory is gone, the keys are not. *)
Crash ==
    /\ Fault
    /\ conns' = [c \in Conns |-> Closed]
    /\ active' = {} /\ switched' = {}
    /\ UNCHANGED key

(* Mutant: readline has no timeout. *)
DueNever == FALSE

(* Time does not pass a timeout that is due. *)
Due == \E c \in Conns : conns[c].stage = "reading" /\ conns[c].idle = ReadTimeout

Less(n) == IF n > 0 THEN n - 1 ELSE 0

Aged(conn) ==
    [stage |-> conn.stage,
     user |-> conn.user,
     idle |-> IF conn.stage = "reading" THEN conn.idle + 1 ELSE conn.idle,
     promised |-> Less(conn.promised)]

(* Mutant: the keys are set without a TTL. *)
TickWithoutTTL ==
    /\ ~Due
    /\ conns' = [c \in Conns |-> Aged(conns[c])]
    /\ UNCHANGED <<active, key, switched, faults>>

Tick ==
    /\ ~Due
    /\ key' = [u \in Users |-> Less(key[u])]
    /\ conns' = [c \in Conns |-> Aged(conns[c])]
    /\ UNCHANGED <<active, switched, faults>>

Next ==
    \/ \E c \in Conns :
          \/ Connect(c) \/ (\E u \in Users : Heartbeat(c, u))
          \/ Answer(c) \/ Refuse(c) \/ Drained(c)
          \/ Disconnect(c) \/ Leave(c) \/ TimeOut(c)
          \/ SetexFails(c) \/ Delete(c) \/ DeleteFails(c)
    \/ Crash
    \/ Tick

Spec == Init /\ [][Next]_vars

(* Time passes, a timeout that is due fires, and Redis answers.  Clients   *)
(* owe nothing: they need not send, nor read what they are sent, nor hang  *)
(* up.                                                                     *)
FairSpec ==
    /\ Spec
    /\ WF_vars(Tick)
    /\ \A c \in Conns : WF_vars(TimeOut(c)) /\ WF_vars(Answer(c)) /\ WF_vars(Delete(c))

-----------------------------------------------------------------------------
(* The types; a closed connection has forgotten everything. *)
TypeOK ==
    /\ conns \in [Conns -> Conn]
    /\ \A c \in Conns :
          /\ conns[c].stage = "closed" => conns[c] = Closed
          /\ conns[c].stage \in {"setex", "delete"} => conns[c].user # NoUser
          /\ conns[c].user \in Tokens[c] \cup {NoUser}
    /\ active \subseteq Users /\ switched \subseteq Users
    /\ key \in [Users -> 0 .. TTL]
    /\ faults \in 0 .. MaxFaults

(* The users whose heartbeats open connections carry. *)
InLoop == {c \in Conns : conns[c].stage \in {"reading", "setex", "drain", "bye"}}
Connected == {conns[c].user : c \in InLoop} \ {NoUser}

(* Nobody who can be the user of c can be the user of another connection. *)
Alone(c) == \A d \in Conns \ {c} : Tokens[c] \cap Tokens[d] = {}

(* Nobody is counted online without an open connection: whoever leaves, by *)
(* whatever path of the handler, leaves _active_users (server.py:112), but *)
(* for those whose connection went on with a token of somebody else: the   *)
(* finally block does not know of them (server.py:82).                     *)
NoGhostUser == active \subseteq Connected \cup switched

(* Nobody with a connection of his own is missing from the count           *)
(* (server.py:83), whatever other users' connections do.                   *)
EveryoneCounted ==
    \A c \in InLoop :
        Alone(c) /\ conns[c].user # NoUser => conns[c].user \in active

(* A heartbeat on a connection of one's own keeps the key for the TTL,     *)
(* while the connection stays (server.py:85).                              *)
OnlineAsPromised ==
    \A c \in InLoop :
        Alone(c) /\ conns[c].promised > 0 => key[conns[c].user] > 0

(* A user who has no connection goes offline for the API in the end, even  *)
(* when the server died or Redis did not take the delete.                  *)
OfflineInTheEnd ==
    \A u \in Users :
        u \notin {conns[c].user : c \in Conns} ~>
            key[u] = 0 \/ u \in {conns[c].user : c \in Conns}

(* Clients that were heard in this tick, and clients that keep the server  *)
(* waiting because they do not read.                                       *)
Heard(c) == conns[c].stage \in {"reading", "setex"} /\ conns[c].idle = 0
Unread(c) == conns[c].stage \in {"drain", "bye"}

(* A user is not counted for ever without being heard: again and again he  *)
(* is either not active or on a connection that sent a line in this tick,  *)
(* unless his connection went on as somebody else, or does not read its    *)
(* answers: the timeout of 60 s is the one of readline, and a handler that *)
(* waits in drain has none (server.py:62, 69, 80, 94, 99, 104).            *)
SilenceIsNoticed ==
    \A u \in Users :
        []<>(u \in active \ switched =>
                \E c \in InLoop : conns[c].user = u /\ (Heard(c) \/ Unread(c)))

-----------------------------------------------------------------------------
(* server.py:13: "The server stores presence in Redis with a TTL.  Each    *)
(* heartbeat resets the TTL": any heartbeat keeps its user online.         *)
HeartbeatResetsTTL ==
    \A c \in InLoop : conns[c].promised > 0 => key[conns[c].user] > 0
=============================================================================
