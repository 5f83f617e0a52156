-------------------------------- MODULE Chat --------------------------------
(***************************************************************************)
(* POST /api/matches/{id}/messages (api/routers/matches.py), composed with *)
(* the WebSocket manager that pushes the message to its addressee: once    *)
(* directly, once through Redis.                                           *)
(***************************************************************************)
EXTENDS WsManager

CONSTANTS
    Matches         \* rows <<user1_id, user2_id>> of the table `matches`

ASSUME ChatAssumption ==
    Matches \subseteq {m \in Users \X Users : m[1] # m[2]}

VARIABLES
    posts,          \* the request that posts each message
    messages        \* the table `messages`

chatVars == <<posts, messages>>

vars == <<wsVars, chatVars>>

Stage == {"unsent", "commit", "look", "sending", "publish", "done"}
Status == {0, 201, 404, 500}

Post == [stage : Stage, sender : Users, match : Matches, at : Instances,
         socket : Sockets \cup {NoSocket}, status : Status]

(* Who sends what through which process is fixed at the start; the request *)
(* itself comes at any time.                                               *)
ChatInit ==
    /\ posts \in [Messages -> {p \in Post : /\ p.stage = "unsent"
                                            /\ p.socket = NoSocket
                                            /\ p.status = 0}]
    /\ messages = {}

Other(match, u) == IF match[1] = u THEN match[2] ELSE match[1]

Addressee(x) == Other(posts[x].match, posts[x].sender)

(* What may be relayed: a stored message, to its addressee. *)
Relayable(p) ==
    p.item \in Messages => p.item \in messages /\ p.to = Addressee(p.item)

Goto(x, stage) == posts' = [posts EXCEPT ![x].stage = stage]

Reply(x, status) ==
    posts' = [posts EXCEPT ![x].stage = "done", ![x].status = status]

-----------------------------------------------------------------------------
(* Mutant: the match is found without a look at its members. *)
FindAnyMatch(x) ==
    /\ posts[x].stage = "unsent"
    /\ Goto(x, "commit")
    /\ UNCHANGED <<wsVars, messages>>

(* _get_match_or_404: the sender is a member of the match, or 404. *)
FindMatch(x) ==
    LET p == posts[x] IN
    /\ p.stage = "unsent"
    /\ IF p.sender \in {p.match[1], p.match[2]} THEN Goto(x, "commit")
                                               ELSE Reply(x, 404)
    /\ UNCHANGED <<wsVars, messages>>

CommitMessage(x) ==
    /\ posts[x].stage = "commit"
    /\ messages' = messages \cup {x}
    /\ Goto(x, "look")
    /\ UNCHANGED wsVars

(* Mutant: nobody asks whether there is a socket. *)
LookUpBlindly(x) ==
    /\ posts[x].stage = "look"
    /\ posts' = [posts EXCEPT ![x].stage = "sending",
                              ![x].socket = registry[posts[x].at][Addressee(x)]]
    /\ UNCHANGED <<wsVars, messages>>

(* After the refresh, send_to_user looks for the addressee's socket on     *)
(* this process.                                                           *)
LookUp(x) ==
    LET s == registry[posts[x].at][Addressee(x)] IN
    /\ posts[x].stage = "look"
    /\ posts' = [posts EXCEPT ![x].stage = IF s = NoSocket THEN "publish" ELSE "sending",
                              ![x].socket = s]
    /\ UNCHANGED <<wsVars, messages>>

DirectSend(x) ==
    /\ posts[x].stage = "sending"
    /\ Sent(posts[x].at, Addressee(x), posts[x].socket, x)
    /\ Goto(x, "publish")
    /\ UNCHANGED <<sockets, listener, inbox, notices, faults, messages>>

(* Mutant: the direct relay is thought to be enough. *)
PublishNothing(x) ==
    /\ posts[x].stage = "publish"
    /\ Reply(x, 201)
    /\ UNCHANGED <<wsVars, messages>>

(* Mutant: the payload names the sender. *)
PublishToSender(x) ==
    /\ posts[x].stage = "publish"
    /\ inbox' = Broadcast([to |-> posts[x].sender, item |-> x])
    /\ Reply(x, 201)
    /\ UNCHANGED <<sockets, registry, listener, notices, got, faults, messages>>

PublishMessage(x) ==
    /\ posts[x].stage = "publish"
    /\ inbox' = Broadcast([to |-> Addressee(x), item |-> x])
    /\ Reply(x, 201)
    /\ UNCHANGED <<sockets, registry, listener, notices, got, faults, messages>>

(* redis.publish raises, before or after Redis took the message: 500,      *)
(* although the message is stored.                                         *)
PublishFails(x) ==
    /\ Fault("publish")
    /\ posts[x].stage = "publish"
    /\ inbox' \in {inbox, Broadcast([to |-> Addressee(x), item |-> x])}
    /\ Reply(x, 500)
    /\ UNCHANGED <<sockets, registry, listener, notices, got, messages>>

(* The commit or the refresh raises. *)
PostFails(x) ==
    /\ Fault("call")
    /\ posts[x].stage \in {"commit", "look"}
    /\ Reply(x, 500)
    /\ UNCHANGED <<sockets, registry, listener, inbox, notices, got, messages>>

(* An API process dies with its sockets and the requests it handles. *)
ProcessCrash(i) ==
    /\ Fault("api")
    /\ ProcessDies(i)
    /\ posts' = [x \in Messages |->
                   IF posts[x].at = i /\ posts[x].stage # "unsent"
                   THEN [posts[x] EXCEPT !.stage = "done"] ELSE posts[x]]
    /\ UNCHANGED <<notices, got, messages>>

Handle(x) ==
    CommitMessage(x) \/ LookUp(x) \/ DirectSend(x) \/ PublishMessage(x)

ChatNext ==
    \/ \E x \in Messages :
          FindMatch(x) \/ Handle(x) \/ PublishFails(x) \/ PostFails(x)
    \/ \E i \in Instances : ProcessCrash(i)

Init == WsInit /\ ChatInit

Next == (WsNext /\ UNCHANGED chatVars) \/ ChatNext

Spec == Init /\ [][Next]_vars

(* The event loop resumes every coroutine whose await is over; a socket    *)
(* whose client is gone makes accept or receive raise in the end.  Clients *)
(* owe nothing.                                                            *)
Fairness ==
    /\ \A x \in Messages : WF_vars(Handle(x))
    /\ \A s \in Sockets :
          WF_vars((Register(s) \/ Leave(s)) /\ UNCHANGED chatVars)
    /\ \A i \in Instances :
          WF_vars((Subscribe(i) \/ Take(i) \/ Relay(i)) /\ UNCHANGED chatVars)

FairSpec == Spec /\ Fairness

TypeOK ==
    /\ WsTypeOK
    /\ posts \in [Messages -> Post]
    /\ \A x \in Messages : posts[x].stage = "sending" => posts[x].socket \in Sockets
    /\ messages \subseteq Messages

-----------------------------------------------------------------------------
(* Whatever the order of connections, hang-ups and failing sends, a        *)
(* process never keeps a socket whose handler has ended, nor another       *)
(* user's: _connections cannot leak (main.py:87-88).                       *)
RegisteredIsServed ==
    \A i \in Instances, u \in Users :
        LET s == registry[i][u] IN
        s # NoSocket =>
          /\ sockets[s].stage = "reading"
          /\ sockets[s].user = u
          /\ sockets[s].at = i

(* A chat message reaches no socket but those of the member of the match   *)
(* who did not send it, and it reaches none before it is stored, although  *)
(* sends are awaited while sockets change (matches.py:105-132).            *)
OnlyTheOtherMember ==
    \A s \in Sockets, x \in Messages :
        got[s][x] > 0 =>
          /\ x \in messages
          /\ posts[x].sender # sockets[s].user
          /\ {posts[x].sender, sockets[s].user} =
                {posts[x].match[1], posts[x].match[2]}

(* A payload reaches a socket at most once by each of its ways: through    *)
(* the listener of the socket's process and, for a message posted there,   *)
(* directly.  Reconnecting and failing publishes repeat nothing.           *)
Ways(s, x) ==
    IF x \in Messages /\ posts[x].at = sockets[s].at THEN 2 ELSE 1

OncePerWay ==
    \A s \in Sockets, x \in Items : got[s][x] <= Ways(s, x)

(* Chat implements Delivery: a message is recorded when it is stored and   *)
(* meant for the sockets of its addressee; a notice is recorded when it is *)
(* announced and goes where the listeners take it.  Each step of a         *)
(* request, a listener or a socket is one step of Delivery or none.        *)
Reach(s, x) ==
    IF x \in Messages /\ sockets[s].user # Addressee(x) THEN 0 ELSE Ways(s, x)

Pushes == INSTANCE Delivery WITH
    allowed <- [s \in Sockets |-> [x \in Items |-> Reach(s, x)]],
    recorded <- messages \cup notices,
    arrived <- got

ImplementsDelivery == Pushes!DeliverySpec

(* Why all this holds.  Each payload under way to a socket, in an inbox,   *)
(* with a listener or with its request, is a stored message of a member    *)
(* for the other, and it is under way once: what can still arrive by a way *)
(* has not arrived by it.                                                  *)
PostRight(x) ==
    LET p == posts[x] IN
    /\ x \in messages \/ p.stage \in {"commit", "look", "sending", "publish"}
          => p.sender \in {p.match[1], p.match[2]}
    /\ p.stage \in {"look", "sending", "publish"} => x \in messages
    /\ p.stage = "sending" =>
          /\ sockets[p.socket].user = Addressee(x)
          /\ sockets[p.socket].at = p.at

PostsRight == \A x \in Messages : PostRight(x)

RelaysRight ==
    \A i \in Instances :
        /\ \A k \in DOMAIN inbox[i] : Relayable(inbox[i][k])
        /\ \A job \in listener[i].jobs :
              /\ Relayable(job.payload)
              /\ sockets[job.socket].user = job.payload.to
              /\ sockets[job.socket].at = i

Queued(i, x) == \E k \in DOMAIN inbox[i] : inbox[i][k].item = x

WithListener(i, x) == \E job \in listener[i].jobs : job.payload.item = x

Published(x) == IF x \in Messages THEN posts[x].stage = "done" ELSE x \in notices

OnceUnderWay(x) ==
    /\ \A i \in Instances :
          /\ Queued(i, x) \/ WithListener(i, x) => Published(x)
          /\ ~(Queued(i, x) /\ WithListener(i, x))
          /\ \A k, l \in DOMAIN inbox[i] :
                inbox[i][k].item = x /\ inbox[i][l].item = x => k = l
    /\ \A s \in Sockets :
          LET i == sockets[s].at IN
          /\ ~Published(x) \/ Queued(i, x) \/ WithListener(i, x)
                => got[s][x] < Ways(s, x)
          /\ x \in Messages /\ posts[x].stage \in {"unsent", "commit", "look", "sending"}
                => got[s][x] = 0

UnderWayOnce == \A x \in Items : OnceUnderWay(x)

FlightInv == PostsRight /\ RelaysRight /\ UnderWayOnce

(* A socket whose client is gone is forgotten in the end. *)
GoneIsForgotten ==
    \A s \in Sockets :
        sockets[s].stage = "reading" /\ ~sockets[s].up ~>
            \A i \in Instances, u \in Users : registry[i][u] # s

(* A stored message reaches every registered socket of its addressee, on   *)
(* any process that listens, unless something fails: a subscription that   *)
(* breaks loses it for good (ws_manager.py:52-75).                         *)
Registered(s) == registry[sockets[s].at][sockets[s].user] = s

MessageIsDelivered ==
    \A s \in Sockets, x \in Messages :
        /\ x \in messages /\ posts[x].stage = "look"
        /\ Addressee(x) = sockets[s].user
        /\ Registered(s)
        /\ listener[sockets[s].at].stage = "listening"
        ~> got[s][x] > 0 \/ ~Registered(s) \/ faults > 0

-----------------------------------------------------------------------------
(* README.md:245: "any API instance can deliver a notification to any      *)
(* connected user": a user with an open socket is registered somewhere.    *)
ConnectedIsReachable ==
    \A s \in Sockets :
        sockets[s].stage = "reading" /\ sockets[s].up =>
            \E i \in Instances : registry[i][sockets[s].user] # NoSocket
=============================================================================
