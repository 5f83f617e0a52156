----------------------------- MODULE WsManager -----------------------------
(***************************************************************************)
(* The WebSocket side of the API (api/ws_manager.py and the endpoint /ws   *)
(* of api/main.py), for several API processes behind the proxy.  Each      *)
(* process keeps a dictionary from users to sockets, runs a coroutine per  *)
(* socket, and a listener that relays what is published on the Redis       *)
(* channel `ws_events`.  They interleave at accept, receive and send.      *)
(***************************************************************************)
EXTENDS Integers, Sequences

CONSTANTS
    Users,
    Instances,      \* API processes
    Sockets,        \* WebSocket connections, each is opened once
    NoSocket,
    Notices,        \* match notices that the match processor publishes
    Messages,       \* chat messages (see Chat)
    FaultKinds,     \* the kinds of failure that may happen
    MaxFaults       \* bound: how many failures a behaviour may have

(* The kinds of failure: an API process that dies, a subscription to Redis *)
(* that breaks, a Redis publish that raises, a database call that raises.  *)
ASSUME WsAssumption ==
    /\ NoSocket \notin Sockets
    /\ Notices \cap Messages = {}
    /\ FaultKinds \subseteq {"api", "subscription", "publish", "call"}
    /\ MaxFaults \in Nat

VARIABLES
    sockets,        \* the endpoint's coroutine of every socket
    registry,       \* _connections of every process
    listener,       \* redis_pubsub_listener of every process
    inbox,          \* what Redis has still to hand to every listener
    notices,        \* the notices published so far
    got,            \* how often each payload reached each socket
    faults          \* how many failures have happened

wsVars == <<sockets, registry, listener, inbox, notices, got, faults>>

(* up: the client still holds the connection. *)
Socket == [stage : {"unused", "accepting", "reading", "ended"},
           up : BOOLEAN, user : Users, at : Instances]

Items == Notices \cup Messages

(* A message of the channel: whom it is for, and what it says. *)
Payload == [to : Users, item : Items]

(* job: the payload the listener is sending, and to which socket. *)
Job == [payload : Payload, socket : Sockets]
NoJobs == {}

Listener == [stage : {"subscribing", "listening", "dead"}, jobs : SUBSET Job]

Subscribing == [stage |-> "subscribing", jobs |-> NoJobs]

NoRegistry == [u \in Users |-> NoSocket]

WsInit ==
    /\ sockets \in [Sockets -> {s \in Socket : s.stage = "unused" /\ ~s.up}]
    /\ registry = [i \in Instances |-> NoRegistry]
    /\ listener = [i \in Instances |-> Subscribing]
    /\ inbox = [i \in Instances |-> <<>>]
    /\ notices = {}
    /\ got = [s \in Sockets |-> [x \in Items |-> 0]]
    /\ faults = 0

Fault(kind) ==
    /\ kind \in FaultKinds
    /\ faults < MaxFaults
    /\ faults' = faults + 1

-----------------------------------------------------------------------------
(* A client connects with a valid token; the handshake is awaited. *)
Open(s) ==
    /\ sockets[s].stage = "unused"
    /\ sockets' = [sockets EXCEPT ![s].stage = "accepting", ![s].up = TRUE]
    /\ UNCHANGED <<registry, listener, inbox, notices, got, faults>>

(* connect: after the handshake the socket is the user's, instead of any   *)
(* socket he had before.                                                   *)
Register(s) ==
    /\ sockets[s].stage = "accepting"
    /\ sockets' = [sockets EXCEPT ![s].stage = "reading"]
    /\ registry' = [registry EXCEPT ![sockets[s].at][sockets[s].user] = s]
    /\ UNCHANGED <<listener, inbox, notices, got, faults>>

(* accept raises, before the endpoint's try statement. *)
AcceptFails(s) ==
    /\ sockets[s].stage = "accepting"
    /\ ~sockets[s].up
    /\ sockets' = [sockets EXCEPT ![s].stage = "ended"]
    /\ UNCHANGED <<registry, listener, inbox, notices, got, faults>>

(* The client closes, reloads, or loses its network. *)
HangUp(s) ==
    /\ sockets[s].up
    /\ sockets' = [sockets EXCEPT ![s].up = FALSE]
    /\ UNCHANGED <<registry, listener, inbox, notices, got, faults>>

(* disconnect: whatever socket the user has on this process is forgotten.  *)
Disconnected(i, u) == [registry EXCEPT ![i][u] = NoSocket]

(* Mutant: the endpoint has no finally block. *)
LeaveRegistered(s) ==
    /\ sockets[s].stage = "reading"
    /\ ~sockets[s].up
    /\ sockets' = [sockets EXCEPT ![s].stage = "ended"]
    /\ UNCHANGED <<registry, listener, inbox, notices, got, faults>>

(* receive_text raises; the finally block runs disconnect(user_id). *)
Leave(s) ==
    /\ sockets[s].stage = "reading"
    /\ ~sockets[s].up
    /\ sockets' = [sockets EXCEPT ![s].stage = "ended"]
    /\ registry' = Disconnected(sockets[s].at, sockets[s].user)
    /\ UNCHANGED <<listener, inbox, notices, got, faults>>

-----------------------------------------------------------------------------
(* send_to_user looks the socket up and awaits send_json on it.  Between   *)
(* the two the socket may be replaced or go.  A send to a socket that is   *)
(* gone is lost, or raises and disconnects the user, whatever his socket   *)
(* is by then.                                                             *)
Sent(i, u, s, x) ==
    \/ /\ sockets[s].up
       /\ got' = [got EXCEPT ![s][x] = @ + 1]
       /\ UNCHANGED registry
    \/ /\ ~sockets[s].up
       /\ UNCHANGED got
       /\ registry' \in {registry, Disconnected(i, u)}

Subscribed == {i \in Instances : listener[i].stage = "listening"}

(* redis.publish: Redis hands the message to the processes that are        *)
(* subscribed, and keeps it for nobody else.                               *)
Broadcast(p) ==
    [i \in Instances |-> IF i \in Subscribed THEN Append(inbox[i], p) ELSE inbox[i]]

(* The match processor publishes a notice for a user, once (MatchPipeline  *)
(* shows NotifiedOnce).                                                    *)
Announce(n, u) ==
    /\ n \notin notices
    /\ notices' = notices \cup {n}
    /\ inbox' = Broadcast([to |-> u, item |-> n])
    /\ UNCHANGED <<sockets, registry, listener, got, faults>>

Subscribe(i) ==
    /\ listener[i].stage = "subscribing"
    /\ listener' = [listener EXCEPT ![i].stage = "listening"]
    /\ UNCHANGED <<sockets, registry, inbox, notices, got, faults>>

(* The listener takes the next message and looks for the user's socket.    *)
Take(i) ==
    LET p == Head(inbox[i])
        s == registry[i][p.to]
        jobs == IF s = NoSocket THEN NoJobs ELSE {[payload |-> p, socket |-> s]}
    IN
    /\ listener[i].stage = "listening"
    /\ listener[i].jobs = NoJobs
    /\ inbox[i] # <<>>
    /\ inbox' = [inbox EXCEPT ![i] = Tail(@)]
    /\ listener' = [listener EXCEPT ![i].jobs = jobs]
    /\ UNCHANGED <<sockets, registry, notices, got, faults>>

(* Mutant: a message that was sent is sent again. *)
RelayAgain(i) ==
    /\ \E job \in listener[i].jobs :
          Sent(i, job.payload.to, job.socket, job.payload.item)
    /\ UNCHANGED <<sockets, listener, inbox, notices, faults>>

(* Its send is over; it goes on to the next message. *)
Relay(i) ==
    /\ \E job \in listener[i].jobs :
          Sent(i, job.payload.to, job.socket, job.payload.item)
    /\ listener' = [listener EXCEPT ![i].jobs = NoJobs]
    /\ UNCHANGED <<sockets, inbox, notices, faults>>

(* The connection to Redis breaks: what is not handed over is lost.  The   *)
(* client library reconnects, or listen() raises: that ends the task, for  *)
(* only the handling of a message is inside the inner try.                 *)
SubscriptionBreaks(i) ==
    /\ Fault("subscription")
    /\ listener[i].stage \in {"subscribing", "listening"}
    /\ listener[i].jobs = NoJobs
    /\ inbox' = [inbox EXCEPT ![i] = <<>>]
    /\ \E stage \in {listener[i].stage, "dead"} :
          listener' = [listener EXCEPT ![i].stage = stage]
    /\ UNCHANGED <<sockets, registry, notices, got>>

(* What an API process loses when it dies; it is restarted. *)
ProcessDies(i) ==
    /\ sockets' = [s \in Sockets |->
                     IF sockets[s].at = i /\ sockets[s].stage # "unused"
                     THEN [sockets[s] EXCEPT !.stage = "ended", !.up = FALSE]
                     ELSE sockets[s]]
    /\ registry' = [registry EXCEPT ![i] = NoRegistry]
    /\ listener' = [listener EXCEPT ![i] = Subscribing]
    /\ inbox' = [inbox EXCEPT ![i] = <<>>]

WsNext ==
    \/ \E s \in Sockets :
          Open(s) \/ Register(s) \/ AcceptFails(s) \/ HangUp(s) \/ Leave(s)
    \/ \E n \in Notices, u \in Users : Announce(n, u)
    \/ \E i \in Instances :
          Subscribe(i) \/ Take(i) \/ Relay(i) \/ SubscriptionBreaks(i)

WsTypeOK ==
    /\ sockets \in [Sockets -> Socket]
    /\ registry \in [Instances -> [Users -> Sockets \cup {NoSocket}]]
    /\ listener \in [Instances -> Listener]
    /\ \A i \in Instances : \A j, k \in listener[i].jobs : j = k
    /\ inbox \in [Instances -> Seq(Payload)]
    /\ notices \subseteq Notices
    /\ got \in [Sockets -> [Items -> Nat]]
    /\ faults \in 0 .. MaxFaults
=============================================================================
