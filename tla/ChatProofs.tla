----------------------------- MODULE ChatProofs -----------------------------
(***************************************************************************)
(* Proofs about Chat: the types, RegisteredIsServed, OnlyTheOtherMember,   *)
(* OncePerWay, that it implements Delivery, and that no message is dropped *)
(* on its way, for any users, processes, sockets, messages and failures.   *)
(***************************************************************************)
EXTENDS Chat, TLAPS

-----------------------------------------------------------------------------
(* What Append and Tail do to the places of a sequence. *)
LEMMA Appended ==
    ASSUME NEW S, NEW q \in Seq(S), NEW p \in S
    PROVE  /\ Append(q, p) \in Seq(S)
           /\ DOMAIN q = 1 .. Len(q)
           /\ DOMAIN Append(q, p) = 1 .. Len(q) + 1
           /\ \A k \in 1 .. Len(q) : Append(q, p)[k] = q[k]
           /\ Append(q, p)[Len(q) + 1] = p
  OBVIOUS

LEMMA Tailed ==
    ASSUME NEW S, NEW q \in Seq(S), q # <<>>
    PROVE  /\ Tail(q) \in Seq(S)
           /\ Head(q) \in S /\ Head(q) = q[1] /\ 1 \in DOMAIN q
           /\ DOMAIN q = 1 .. Len(q)
           /\ DOMAIN Tail(q) = 1 .. Len(q) - 1
           /\ \A k \in 1 .. Len(q) - 1 : Tail(q)[k] = q[k + 1]
  OBVIOUS

LEMMA NoneQueued ==
    /\ <<>> \in Seq(Payload)
    /\ DOMAIN <<>> = {}
  OBVIOUS

-----------------------------------------------------------------------------
(* Steps of the manager and of a request, by what they touch. *)
LEMMA FaultCounted ==
    ASSUME NEW kind, Fault(kind), faults \in 0 .. MaxFaults
    PROVE  faults' \in 0 .. MaxFaults
  BY WsAssumption DEF Fault

LEMMA AddresseeIsUser ==
    ASSUME posts \in [Messages -> Post], NEW x \in Messages
    PROVE  Addressee(x) \in Users
  BY ChatAssumption DEF Addressee, Other, Post

LEMMA BroadcastTypes ==
    ASSUME inbox \in [Instances -> Seq(Payload)], NEW p \in Payload
    PROVE  Broadcast(p) \in [Instances -> Seq(Payload)]
  <1>1. \A i \in Instances : Append(inbox[i], p) \in Seq(Payload)
    BY Appended
  <1>2. QED BY <1>1 DEF Broadcast

(* Every step of a socket: where it gets, and what else it changes. *)
LEMMA OpenMoves ==
    ASSUME sockets \in [Sockets -> Socket], NEW s \in Sockets, Open(s)
    PROVE  /\ sockets' \in [Sockets -> Socket]
           /\ sockets'[s].stage = "accepting"
           /\ sockets'[s].user = sockets[s].user /\ sockets'[s].at = sockets[s].at
           /\ \A z \in Sockets \ {s} : sockets'[z] = sockets[z]
  BY DEF Open, Socket

LEMMA RegisterMoves ==
    ASSUME sockets \in [Sockets -> Socket], NEW s \in Sockets, Register(s)
    PROVE  /\ sockets' \in [Sockets -> Socket]
           /\ sockets'[s].stage = "reading"
           /\ sockets'[s].user = sockets[s].user /\ sockets'[s].at = sockets[s].at
           /\ \A z \in Sockets \ {s} : sockets'[z] = sockets[z]
  BY DEF Register, Socket

LEMMA EndMoves ==
    ASSUME sockets \in [Sockets -> Socket], NEW s \in Sockets,
           sockets' = [sockets EXCEPT ![s].stage = "ended"]
    PROVE  /\ sockets' \in [Sockets -> Socket]
           /\ sockets'[s].stage = "ended"
           /\ sockets'[s].user = sockets[s].user /\ sockets'[s].at = sockets[s].at
           /\ \A z \in Sockets \ {s} : sockets'[z] = sockets[z]
  BY DEF Socket

LEMMA HangUpMoves ==
    ASSUME sockets \in [Sockets -> Socket], NEW s \in Sockets, HangUp(s)
    PROVE  /\ sockets' \in [Sockets -> Socket]
           /\ sockets'[s].stage = sockets[s].stage
           /\ sockets'[s].user = sockets[s].user /\ sockets'[s].at = sockets[s].at
           /\ \A z \in Sockets \ {s} : sockets'[z] = sockets[z]
  BY DEF HangUp, Socket

(* What Goto and Reply do to the requests. *)
LEMMA GotoMoves ==
    ASSUME posts \in [Messages -> Post], NEW x \in Messages, NEW stage \in Stage,
           Goto(x, stage)
    PROVE  /\ posts' \in [Messages -> Post]
           /\ posts'[x].stage = stage
           /\ posts'[x].sender = posts[x].sender /\ posts'[x].match = posts[x].match
           /\ posts'[x].at = posts[x].at /\ posts'[x].socket = posts[x].socket
           /\ \A y \in Messages \ {x} : posts'[y] = posts[y]
  BY DEF Goto, Post

LEMMA ReplyMoves ==
    ASSUME posts \in [Messages -> Post], NEW x \in Messages,
           NEW status \in Status, Reply(x, status)
    PROVE  /\ posts' \in [Messages -> Post]
           /\ posts'[x].stage = "done"
           /\ posts'[x].sender = posts[x].sender /\ posts'[x].match = posts[x].match
           /\ posts'[x].at = posts[x].at /\ posts'[x].socket = posts[x].socket
           /\ \A y \in Messages \ {x} : posts'[y] = posts[y]
  BY DEF Reply, Post, Stage

LEMMA LookUpMoves ==
    ASSUME TypeOK, NEW x \in Messages, LookUp(x)
    PROVE  LET s == registry[posts[x].at][Addressee(x)] IN
           /\ posts' \in [Messages -> Post]
           /\ s \in Sockets \cup {NoSocket}
           /\ posts'[x].stage = IF s = NoSocket THEN "publish" ELSE "sending"
           /\ posts'[x].socket = s
           /\ posts'[x].sender = posts[x].sender /\ posts'[x].match = posts[x].match
           /\ posts'[x].at = posts[x].at
           /\ \A y \in Messages \ {x} : posts'[y] = posts[y]
  <1> DEFINE s == registry[posts[x].at][Addressee(x)]
             stage == IF s = NoSocket THEN "publish" ELSE "sending"
  <1>1. posts[x].at \in Instances /\ Addressee(x) \in Users
    BY AddresseeIsUser DEF TypeOK, Post
  <1>2. s \in Sockets \cup {NoSocket}
    BY <1>1 DEF TypeOK, WsTypeOK
  <1>3. posts' = [posts EXCEPT ![x].stage = stage, ![x].socket = s]
    BY DEF LookUp
  <1>4. stage \in Stage BY DEF Stage
  <1>5. posts \in [Messages -> Post] BY DEF TypeOK
  <1> HIDE DEF s, stage
  <1>6. /\ posts' \in [Messages -> Post]
        /\ posts'[x].stage = stage
        /\ posts'[x].socket = s
        /\ posts'[x].sender = posts[x].sender /\ posts'[x].match = posts[x].match
        /\ posts'[x].at = posts[x].at
        /\ \A y \in Messages \ {x} : posts'[y] = posts[y]
    BY <1>2, <1>3, <1>4, <1>5 DEF Post
  <1>7. QED BY <1>2, <1>6 DEF s, stage

(* What a step of the listener does to it. *)
LEMMA JobsMove ==
    ASSUME listener \in [Instances -> Listener], NEW i \in Instances,
           NEW jobs \in SUBSET Job, listener' = [listener EXCEPT ![i].jobs = jobs]
    PROVE  /\ listener' \in [Instances -> Listener]
           /\ listener'[i].jobs = jobs
           /\ \A j \in Instances \ {i} : listener'[j] = listener[j]
  BY DEF Listener

LEMMA StageMoves ==
    ASSUME listener \in [Instances -> Listener], NEW i \in Instances,
           NEW stage \in {"subscribing", "listening", "dead"},
           listener' = [listener EXCEPT ![i].stage = stage]
    PROVE  /\ listener' \in [Instances -> Listener]
           /\ \A j \in Instances : listener'[j].jobs = listener[j].jobs
  BY DEF Listener

LEMMA SentTypes ==
    ASSUME WsTypeOK, NEW i \in Instances, NEW u \in Users, NEW s \in Sockets,
           NEW x \in Items, Sent(i, u, s, x)
    PROVE  /\ registry' \in [Instances -> [Users -> Sockets \cup {NoSocket}]]
           /\ got' \in [Sockets -> [Items -> Nat]]
  <1>1. Disconnected(i, u) \in [Instances -> [Users -> Sockets \cup {NoSocket}]]
    BY DEF WsTypeOK, Disconnected
  <1>2. got \in [Sockets -> [Items -> Nat]] BY DEF WsTypeOK, Items
  <1>3. got[s][x] + 1 \in Nat BY <1>2
  <1>4. got' = got \/ got' = [got EXCEPT ![s][x] = got[s][x] + 1]
    BY DEF Sent
  <1>5. got' \in [Sockets -> [Items -> Nat]] BY <1>2, <1>3, <1>4
  <1>6. registry' \in {registry, Disconnected(i, u)} BY DEF Sent
  <1>7. QED BY <1>1, <1>5, <1>6 DEF WsTypeOK

LEMMA InitTypes == Init => TypeOK
  <1> SUFFICES ASSUME Init PROVE TypeOK
    OBVIOUS
  <1>1. 0 \in 0 .. MaxFaults BY WsAssumption
  <1>2. WsTypeOK
    BY <1>1, NoneQueued DEF Init, WsInit, WsTypeOK, NoRegistry, Subscribing, NoJobs, Listener
  <1>3. QED BY <1>2 DEF Init, ChatInit, TypeOK

LEMMA SocketKeepsTypes ==
    ASSUME TypeOK, NEW s \in Sockets, UNCHANGED chatVars,
           Open(s) \/ Register(s) \/ AcceptFails(s) \/ HangUp(s) \/ Leave(s)
    PROVE  TypeOK'
  <1> USE DEF TypeOK, WsTypeOK
  <1>1. sockets[s].user \in Users /\ sockets[s].at \in Instances
    BY DEF Socket
  <1>2. sockets' \in [Sockets -> Socket]
    BY OpenMoves, RegisterMoves, EndMoves, HangUpMoves DEF AcceptFails, Leave
  <1>3. registry' \in [Instances -> [Users -> Sockets \cup {NoSocket}]]
    <2>1. CASE Register(s) BY <1>1, <2>1 DEF Register
    <2>2. CASE Leave(s) BY <1>1, <2>2 DEF Leave, Disconnected
    <2>3. CASE Open(s) \/ AcceptFails(s) \/ HangUp(s)
      BY <2>3 DEF Open, AcceptFails, HangUp
    <2>4. QED BY <2>1, <2>2, <2>3
  <1>4. UNCHANGED <<listener, inbox, notices, got, faults>>
    BY DEF Open, Register, AcceptFails, HangUp, Leave
  <1>5. QED BY <1>2, <1>3, <1>4 DEF chatVars

LEMMA ListenerKeepsTypes ==
    ASSUME TypeOK, NEW i \in Instances, UNCHANGED chatVars,
           Subscribe(i) \/ Take(i) \/ Relay(i) \/ SubscriptionBreaks(i)
    PROVE  TypeOK'
  <1> USE DEF TypeOK, WsTypeOK
  <1>1. CASE Subscribe(i)
    BY <1>1, StageMoves DEF Subscribe, chatVars
  <1>2. CASE Take(i)
    <2> DEFINE p == Head(inbox[i])
               s == registry[i][p.to]
               taken == IF s = NoSocket THEN NoJobs ELSE {[payload |-> p, socket |-> s]}
    <2>1. p \in Payload /\ Tail(inbox[i]) \in Seq(Payload)
      BY <1>2, Tailed DEF Take
    <2>2. s \in Sockets \cup {NoSocket} BY <2>1 DEF Payload
    <2>3. taken \in SUBSET Job /\ \A j, k \in taken : j = k
      BY <2>1, <2>2 DEF Job, NoJobs
    <2>4. /\ listener' = [listener EXCEPT ![i].jobs = taken]
          /\ inbox' = [inbox EXCEPT ![i] = Tail(@)]
          /\ UNCHANGED <<sockets, registry, notices, got, faults>>
      BY <1>2 DEF Take
    <2> HIDE DEF taken
    <2>5. listener' \in [Instances -> Listener] BY <2>3, <2>4, JobsMove
    <2>6. \A j \in Instances : \A a, b \in listener'[j].jobs : a = b
      BY <2>3, <2>4, JobsMove
    <2>7. QED BY <2>1, <2>4, <2>5, <2>6 DEF chatVars
  <1>3. CASE Relay(i)
    <2>1. PICK job \in listener[i].jobs :
             Sent(i, job.payload.to, job.socket, job.payload.item)
      BY <1>3 DEF Relay
    <2>2. job \in Job BY DEF Listener
    <2>3. /\ job.payload.to \in Users /\ job.socket \in Sockets
          /\ job.payload.item \in Items
      BY <2>2 DEF Job, Payload, Items
    <2>4. /\ registry' \in [Instances -> [Users -> Sockets \cup {NoSocket}]]
          /\ got' \in [Sockets -> [Items -> Nat]]
      BY <2>1, <2>3, SentTypes
    <2>5. /\ listener' \in [Instances -> Listener]
          /\ \A j \in Instances : \A a, b \in listener'[j].jobs : a = b
      <3>1. NoJobs \in SUBSET Job BY DEF NoJobs
      <3>2. listener' = [listener EXCEPT ![i].jobs = NoJobs] BY <1>3 DEF Relay
      <3>3. /\ listener' \in [Instances -> Listener]
            /\ listener'[i].jobs = NoJobs
            /\ \A j \in Instances \ {i} : listener'[j] = listener[j]
        BY <3>1, <3>2, JobsMove
      <3>4. \A a, b \in NoJobs : a = b BY DEF NoJobs
      <3>5. QED BY <3>3, <3>4
    <2>6. QED BY <1>3, <2>4, <2>5 DEF Relay, Items, chatVars
  <1>4. CASE SubscriptionBreaks(i)
    <2>1. inbox' \in [Instances -> Seq(Payload)]
      BY <1>4, NoneQueued DEF SubscriptionBreaks
    <2>2. /\ listener' \in [Instances -> Listener]
          /\ \A j \in Instances : \A a, b \in listener'[j].jobs : a = b
      <3>1. PICK stage \in {"subscribing", "listening", "dead"} :
               listener' = [listener EXCEPT ![i].stage = stage]
        BY <1>4 DEF SubscriptionBreaks
      <3>2. QED BY <3>1, StageMoves
    <2>3. faults' \in 0 .. MaxFaults
      BY <1>4, FaultCounted DEF SubscriptionBreaks
    <2>4. QED BY <1>4, <2>1, <2>2, <2>3 DEF SubscriptionBreaks, chatVars
  <1>5. QED BY <1>1, <1>2, <1>3, <1>4

LEMMA AnnounceKeepsTypes ==
    ASSUME TypeOK, NEW n \in Notices, NEW u \in Users, Announce(n, u), UNCHANGED chatVars
    PROVE  TypeOK'
  <1>1. [to |-> u, item |-> n] \in Payload BY DEF Payload, Items
  <1>2. inbox' \in [Instances -> Seq(Payload)]
    BY <1>1, BroadcastTypes DEF TypeOK, WsTypeOK, Announce
  <1>3. QED BY <1>2 DEF TypeOK, WsTypeOK, Announce, chatVars

LEMMA PostKeepsTypes ==
    ASSUME TypeOK, NEW x \in Messages,
           FindMatch(x) \/ Handle(x) \/ PublishFails(x) \/ PostFails(x)
    PROVE  TypeOK'
  <1> USE DEF TypeOK
  <1>a. Addressee(x) \in Users /\ posts[x].at \in Instances
    BY AddresseeIsUser DEF Post
  <1>b. posts[x].stage = "sending" => posts[x].socket \in Sockets OBVIOUS
  <1>1. CASE FindMatch(x) \/ CommitMessage(x)
    <2>1. \/ Goto(x, "commit") \/ Goto(x, "look") \/ Reply(x, 404)
      BY <1>1 DEF FindMatch, CommitMessage
    <2>2. /\ posts' \in [Messages -> Post]
          /\ posts'[x].stage # "sending"
          /\ \A y \in Messages \ {x} : posts'[y] = posts[y]
      BY <2>1, GotoMoves, ReplyMoves DEF Stage, Status
    <2>3. QED BY <1>1, <2>2 DEF FindMatch, CommitMessage, wsVars, WsTypeOK
  <1>2. CASE LookUp(x)
    <2>1. /\ posts' \in [Messages -> Post]
          /\ posts'[x].stage = "sending" => posts'[x].socket \in Sockets
          /\ \A y \in Messages \ {x} : posts'[y] = posts[y]
      BY <1>2, LookUpMoves
    <2>2. QED BY <1>2, <2>1 DEF LookUp, wsVars, WsTypeOK
  <1>3. CASE DirectSend(x)
    <2>1. /\ posts' \in [Messages -> Post]
          /\ posts'[x].stage # "sending"
          /\ \A y \in Messages \ {x} : posts'[y] = posts[y]
      BY <1>3, GotoMoves DEF DirectSend, Stage
    <2>2. /\ registry' \in [Instances -> [Users -> Sockets \cup {NoSocket}]]
          /\ got' \in [Sockets -> [Items -> Nat]]
      BY <1>3, <1>a, <1>b, SentTypes DEF DirectSend, Items
    <2>3. QED BY <1>3, <2>1, <2>2 DEF DirectSend, WsTypeOK, Items
  <1>4. CASE PublishMessage(x) \/ PublishFails(x)
    <2>1. /\ posts' \in [Messages -> Post]
          /\ posts'[x].stage # "sending"
          /\ \A y \in Messages \ {x} : posts'[y] = posts[y]
      BY <1>4, ReplyMoves DEF PublishMessage, PublishFails, Status
    <2>2. [to |-> Addressee(x), item |-> x] \in Payload BY <1>a DEF Payload, Items
    <2>3. inbox' \in [Instances -> Seq(Payload)]
      BY <1>4, <2>2, BroadcastTypes DEF PublishMessage, PublishFails, WsTypeOK
    <2>4. faults' \in 0 .. MaxFaults
      BY <1>4, FaultCounted DEF PublishMessage, PublishFails, WsTypeOK
    <2>5. QED BY <1>4, <2>1, <2>3, <2>4 DEF PublishMessage, PublishFails, WsTypeOK
  <1>5. CASE PostFails(x)
    <2>1. /\ posts' \in [Messages -> Post]
          /\ posts'[x].stage # "sending"
          /\ \A y \in Messages \ {x} : posts'[y] = posts[y]
      BY <1>5, ReplyMoves DEF PostFails, Status
    <2>2. faults' \in 0 .. MaxFaults BY <1>5, FaultCounted DEF PostFails, WsTypeOK
    <2>3. QED BY <1>5, <2>1, <2>2 DEF PostFails, WsTypeOK
  <1>6. QED BY <1>1, <1>2, <1>3, <1>4, <1>5 DEF Handle

LEMMA CrashKeepsTypes ==
    ASSUME TypeOK, NEW i \in Instances, ProcessCrash(i)
    PROVE  TypeOK'
  <1>1. posts' \in [Messages -> Post]
    BY DEF TypeOK, ProcessCrash, Post, Stage
  <1>2. \A y \in Messages : posts'[y].stage = "sending" => posts'[y].socket \in Sockets
    BY DEF TypeOK, ProcessCrash, Post, Stage
  <1>3. /\ sockets' \in [Sockets -> Socket]
        /\ registry' \in [Instances -> [Users -> Sockets \cup {NoSocket}]]
        /\ inbox' \in [Instances -> Seq(Payload)]
    BY NoneQueued DEF TypeOK, WsTypeOK, ProcessCrash, ProcessDies, Socket, NoRegistry
  <1>4. /\ listener' \in [Instances -> Listener]
        /\ \A j \in Instances : \A a, b \in listener'[j].jobs : a = b
    BY DEF TypeOK, WsTypeOK, ProcessCrash, ProcessDies, Listener, Subscribing, NoJobs
  <1>5. faults' \in 0 .. MaxFaults
    BY FaultCounted DEF TypeOK, WsTypeOK, ProcessCrash
  <1>6. QED BY <1>1, <1>2, <1>3, <1>4, <1>5 DEF TypeOK, WsTypeOK, ProcessCrash

(* The types of sockets, listeners, requests and what Redis holds. *)
THEOREM ChatTypes == Spec => []TypeOK
  <1>1. TypeOK /\ [Next]_vars => TypeOK'
    <2> SUFFICES ASSUME TypeOK, [Next]_vars PROVE TypeOK'
      OBVIOUS
    <2>1. CASE UNCHANGED vars
      BY <2>1 DEF vars, wsVars, chatVars, TypeOK, WsTypeOK
    <2>2. CASE WsNext /\ UNCHANGED chatVars
      BY <2>2, SocketKeepsTypes, ListenerKeepsTypes, AnnounceKeepsTypes DEF WsNext
    <2>3. CASE ChatNext
      BY <2>3, PostKeepsTypes, CrashKeepsTypes DEF ChatNext
    <2>4. QED BY <2>1, <2>2, <2>3 DEF Next
  <1>2. QED BY <1>1, InitTypes, PTL DEF Spec
-----------------------------------------------------------------------------
(* What no step changes: whose a socket is, and what a request asks for. *)
Fixed ==
    /\ \A s \in Sockets :
          sockets'[s].user = sockets[s].user /\ sockets'[s].at = sockets[s].at
    /\ \A x \in Messages :
          /\ posts'[x].sender = posts[x].sender
          /\ posts'[x].match = posts[x].match
          /\ posts'[x].at = posts[x].at

LEMMA SocketsFixed ==
    ASSUME TypeOK, NEW s \in Sockets, UNCHANGED chatVars,
           Open(s) \/ Register(s) \/ AcceptFails(s) \/ HangUp(s) \/ Leave(s)
    PROVE  Fixed
  BY OpenMoves, RegisterMoves, EndMoves, HangUpMoves
     DEF AcceptFails, Leave, Fixed, TypeOK, WsTypeOK, chatVars

LEMMA PostFixed ==
    ASSUME TypeOK, NEW x \in Messages,
           FindMatch(x) \/ Handle(x) \/ PublishFails(x) \/ PostFails(x)
    PROVE  Fixed
  <1>1. UNCHANGED sockets
    BY DEF FindMatch, Handle, CommitMessage, LookUp, DirectSend, PublishMessage,
           PublishFails, PostFails, wsVars
  <1>2. posts \in [Messages -> Post] BY DEF TypeOK
  <1>3. \/ LookUp(x)
        \/ \E stage \in Stage : Goto(x, stage)
        \/ \E status \in Status : Reply(x, status)
    BY DEF FindMatch, Handle, CommitMessage, DirectSend, PublishMessage,
           PublishFails, PostFails, Stage, Status
  <1>4. QED BY <1>1, <1>2, <1>3, LookUpMoves, GotoMoves, ReplyMoves DEF Fixed

LEMMA CrashFixed ==
    ASSUME TypeOK, NEW i \in Instances, ProcessCrash(i)
    PROVE  Fixed
  <1>1. \A s \in Sockets :
           sockets'[s].user = sockets[s].user /\ sockets'[s].at = sockets[s].at
    BY DEF TypeOK, WsTypeOK, ProcessCrash, ProcessDies, Socket
  <1>2. \A x \in Messages :
          /\ posts'[x].sender = posts[x].sender
          /\ posts'[x].match = posts[x].match
          /\ posts'[x].at = posts[x].at
    BY DEF TypeOK, ProcessCrash, Post
  <1>3. QED BY <1>1, <1>2 DEF Fixed

LEMMA StepFixed ==
    ASSUME TypeOK, [Next]_vars
    PROVE  Fixed
  <1>1. CASE UNCHANGED <<sockets, posts>>
    BY <1>1 DEF Fixed
  <1>2. CASE WsNext /\ UNCHANGED chatVars
    <2>1. CASE \E s \in Sockets :
                  Open(s) \/ Register(s) \/ AcceptFails(s) \/ HangUp(s) \/ Leave(s)
      BY <1>2, <2>1, SocketsFixed
    <2>2. CASE \/ \E n \in Notices, u \in Users : Announce(n, u)
               \/ \E i \in Instances :
                     Subscribe(i) \/ Take(i) \/ Relay(i) \/ SubscriptionBreaks(i)
      BY <1>1, <1>2, <2>2
         DEF Announce, Subscribe, Take, Relay, SubscriptionBreaks, chatVars
    <2>3. QED BY <1>2, <2>1, <2>2 DEF WsNext
  <1>3. CASE ChatNext
    BY <1>3, PostFixed, CrashFixed DEF ChatNext
  <1>4. QED BY <1>1, <1>2, <1>3 DEF Next, vars, wsVars, chatVars

-----------------------------------------------------------------------------
(* A step that registers nobody and ends no handler it does not unregister *)
(* keeps the registry right.                                               *)
LEMMA RegistryShrinks ==
    ASSUME TypeOK, RegisteredIsServed, Fixed,
           \A i \in Instances, u \in Users :
              LET s == registry[i][u] IN
              \/ registry'[i][u] = NoSocket
              \/ registry'[i][u] = s /\ sockets'[s].stage = sockets[s].stage
    PROVE  RegisteredIsServed'
  <1> SUFFICES ASSUME NEW i \in Instances, NEW u \in Users, registry'[i][u] # NoSocket
               PROVE  LET s == registry'[i][u] IN
                      /\ sockets'[s].stage = "reading"
                      /\ sockets'[s].user = u
                      /\ sockets'[s].at = i
    BY DEF RegisteredIsServed
  <1> DEFINE s == registry[i][u]
  <1>1. registry'[i][u] = s /\ sockets'[s].stage = sockets[s].stage
    OBVIOUS
  <1>2. s \in Sockets BY <1>1 DEF TypeOK, WsTypeOK
  <1>3. sockets[s].stage = "reading" /\ sockets[s].user = u /\ sockets[s].at = i
    BY <1>1 DEF RegisteredIsServed
  <1>4. QED BY <1>1, <1>2, <1>3 DEF Fixed

LEMMA SentShrinks ==
    ASSUME TypeOK, NEW i \in Instances, NEW u \in Users, NEW s, NEW x, Sent(i, u, s, x)
    PROVE  \A j \in Instances, w \in Users :
              registry'[j][w] \in {registry[j][w], NoSocket}
  <1>1. registry \in [Instances -> [Users -> Sockets \cup {NoSocket}]]
    BY DEF TypeOK, WsTypeOK
  <1>2. \A j \in Instances, w \in Users :
           Disconnected(i, u)[j][w] \in {registry[j][w], NoSocket}
    BY <1>1 DEF Disconnected
  <1>3. registry' = registry \/ registry' = Disconnected(i, u)
    BY DEF Sent
  <1>4. QED BY <1>2, <1>3

LEMMA SocketKeepsServed ==
    ASSUME TypeOK, RegisteredIsServed, NEW s \in Sockets, Fixed,
           Open(s) \/ Register(s) \/ AcceptFails(s) \/ HangUp(s) \/ Leave(s)
    PROVE  RegisteredIsServed'
  <1>a. sockets \in [Sockets -> Socket] /\ NoSocket \notin Sockets
    BY WsAssumption DEF TypeOK, WsTypeOK
  <1>b. \A i \in Instances, u \in Users : registry[i][u] \in Sockets \cup {NoSocket}
    BY DEF TypeOK, WsTypeOK
  <1>c. sockets[s].at \in Instances /\ sockets[s].user \in Users
    BY <1>a DEF Socket
  <1>1. CASE Open(s) \/ AcceptFails(s)
    <2>1. \A i \in Instances, u \in Users : registry[i][u] # s
      BY <1>1, <1>a DEF Open, AcceptFails, RegisteredIsServed
    <2>2. registry' = registry /\ \A z \in Sockets \ {s} : sockets'[z] = sockets[z]
      BY <1>1, <1>a, OpenMoves, EndMoves DEF Open, AcceptFails
    <2>3. QED BY <1>b, <2>1, <2>2, RegistryShrinks
  <1>2. CASE HangUp(s)
    BY <1>2, <1>a, <1>b, HangUpMoves, RegistryShrinks DEF HangUp
  <1>3. CASE Leave(s)
    <2>1. \A z \in Sockets \ {s} : sockets'[z] = sockets[z]
      BY <1>3, <1>a, EndMoves DEF Leave
    <2>2. \A i \in Instances, u \in Users :
             registry'[i][u] = IF i = sockets[s].at /\ u = sockets[s].user
                               THEN NoSocket ELSE registry[i][u]
      BY <1>3, <1>c DEF Leave, Disconnected, TypeOK, WsTypeOK
    <2>3. \A i \in Instances, u \in Users :
             registry[i][u] = s => i = sockets[s].at /\ u = sockets[s].user
      BY <1>a DEF RegisteredIsServed
    <2>4. QED BY <1>b, <2>1, <2>2, <2>3, RegistryShrinks
  <1>4. CASE Register(s)
    <2>1. /\ sockets'[s].stage = "reading"
          /\ \A z \in Sockets \ {s} : sockets'[z] = sockets[z]
      BY <1>4, <1>a, RegisterMoves
    <2>2. \A i \in Instances, u \in Users :
             registry'[i][u] = IF i = sockets[s].at /\ u = sockets[s].user
                               THEN s ELSE registry[i][u]
      BY <1>4, <1>c DEF Register, TypeOK, WsTypeOK
    <2>3. QED BY <1>a, <1>b, <2>1, <2>2 DEF RegisteredIsServed, Fixed
  <1>5. QED BY <1>1, <1>2, <1>3, <1>4

LEMMA NextKeepsServed ==
    ASSUME TypeOK, RegisteredIsServed, [Next]_vars
    PROVE  RegisteredIsServed'
  <1>a. Fixed BY StepFixed
  <1>1. CASE UNCHANGED <<sockets, registry>>
    BY <1>1 DEF RegisteredIsServed
  <1>2. ASSUME UNCHANGED sockets, NEW i \in Instances, NEW u \in Users, NEW s, NEW x,
               Sent(i, u, s, x)
        PROVE  RegisteredIsServed'
    BY <1>a, <1>2, SentShrinks, RegistryShrinks
  <1>3. CASE WsNext /\ UNCHANGED chatVars
    <2>1. CASE \E s \in Sockets :
                  Open(s) \/ Register(s) \/ AcceptFails(s) \/ HangUp(s) \/ Leave(s)
      BY <1>a, <2>1, SocketKeepsServed
    <2>2. CASE \/ \E n \in Notices, u \in Users : Announce(n, u)
               \/ \E i \in Instances : Subscribe(i) \/ Take(i) \/ SubscriptionBreaks(i)
      BY <1>1, <2>2 DEF Announce, Subscribe, Take, SubscriptionBreaks
    <2>3. ASSUME NEW i \in Instances, Relay(i)
          PROVE  RegisteredIsServed'
      <3>1. PICK job \in listener[i].jobs :
               Sent(i, job.payload.to, job.socket, job.payload.item)
        BY <2>3 DEF Relay
      <3>2. job.payload.to \in Users
        BY DEF TypeOK, WsTypeOK, Listener, Job, Payload
      <3>3. UNCHANGED sockets BY <2>3 DEF Relay
      <3>4. QED BY <1>2, <3>1, <3>2, <3>3
    <2>4. QED BY <1>3, <2>1, <2>2, <2>3 DEF WsNext
  <1>4. ASSUME NEW x \in Messages,
               FindMatch(x) \/ Handle(x) \/ PublishFails(x) \/ PostFails(x)
        PROVE  RegisteredIsServed'
    <2>1. CASE DirectSend(x)
      <3>1. posts[x].at \in Instances /\ Addressee(x) \in Users
        BY AddresseeIsUser DEF TypeOK, Post
      <3>2. QED BY <1>2, <2>1, <3>1 DEF DirectSend
    <2>2. CASE ~DirectSend(x)
      BY <1>1, <1>4, <2>2
         DEF FindMatch, Handle, CommitMessage, LookUp, PublishMessage, PublishFails,
             PostFails, wsVars
    <2>3. QED BY <2>1, <2>2
  <1>5. ASSUME NEW i \in Instances, ProcessCrash(i)
        PROVE  RegisteredIsServed'
    <2>1. \A j \in Instances, u \in Users :
             registry'[j][u] = IF j = i THEN NoSocket ELSE registry[j][u]
      BY <1>5 DEF ProcessCrash, ProcessDies, NoRegistry, TypeOK, WsTypeOK
    <2>2. \A s \in Sockets : sockets[s].at # i => sockets'[s] = sockets[s]
      BY <1>5 DEF ProcessCrash, ProcessDies
    <2>3. \A j \in Instances, u \in Users :
             registry[j][u] # NoSocket =>
                 registry[j][u] \in Sockets /\ sockets[registry[j][u]].at = j
      BY DEF RegisteredIsServed, TypeOK, WsTypeOK
    <2>4. QED BY <1>a, <2>1, <2>2, <2>3, RegistryShrinks
  <1>6. QED BY <1>1, <1>3, <1>4, <1>5 DEF Next, ChatNext, vars, wsVars

(* _connections holds running handlers of its users only. *)
THEOREM RegistrationsAreServed == Spec => []RegisteredIsServed
  <1>1. Init => RegisteredIsServed
    BY DEF Init, WsInit, RegisteredIsServed, NoRegistry
  <1>2. TypeOK /\ RegisteredIsServed /\ [Next]_vars => RegisteredIsServed'
    BY NextKeepsServed
  <1>3. QED BY <1>1, <1>2, ChatTypes, PTL DEF Spec

-----------------------------------------------------------------------------
(* FlightInv is inductive.  First, the requests. *)
LEMMA AddresseeFixed ==
    ASSUME Fixed, NEW x \in Messages
    PROVE  Addressee(x)' = Addressee(x)
  BY DEF Fixed, Addressee, Other

LEMMA MessagesGrow ==
    ASSUME TypeOK, [Next]_vars
    PROVE  messages \subseteq messages'
  BY DEF Next, vars, wsVars, chatVars, ChatNext, FindMatch, Handle, CommitMessage, LookUp,
         DirectSend, PublishMessage, PublishFails, PostFails, ProcessCrash

(* A request that a step leaves alone, or ends, stays right. *)
LEMMA PostLeft ==
    ASSUME TypeOK, Fixed, NEW x \in Messages, PostRight(x),
           x \in messages' => x \in messages, messages \subseteq messages',
           posts'[x] = posts[x] \/ posts'[x].stage = "done"
    PROVE  PostRight(x)'
  BY AddresseeFixed DEF PostRight, Fixed, TypeOK

LEMMA PostKept ==
    ASSUME TypeOK, RegisteredIsServed, PostsRight, Fixed, NEW x \in Messages,
           FindMatch(x) \/ Handle(x) \/ PublishFails(x) \/ PostFails(x)
    PROVE  PostRight(x)'
  <1> USE DEF PostsRight
  <1>a. posts \in [Messages -> Post] BY DEF TypeOK
  <1>b. /\ posts'[x].sender = posts[x].sender /\ posts'[x].match = posts[x].match
        /\ posts'[x].at = posts[x].at
        /\ \A s \in Sockets : /\ sockets'[s].user = sockets[s].user
                              /\ sockets'[s].at = sockets[s].at
    BY DEF Fixed
  <1>c. Addressee(x)' = Addressee(x) BY AddresseeFixed
  <1>1. CASE FindMatch(x)
    <2>1. CASE posts[x].sender \in {posts[x].match[1], posts[x].match[2]}
      <3>1. Goto(x, "commit") BY <1>1, <2>1 DEF FindMatch
      <3>2. posts'[x].stage = "commit" BY <1>a, <3>1, GotoMoves DEF Stage
      <3>3. QED BY <1>b, <2>1, <3>2 DEF PostRight
    <2>2. CASE posts[x].sender \notin {posts[x].match[1], posts[x].match[2]}
      <3>1. Reply(x, 404) /\ UNCHANGED messages BY <1>1, <2>2 DEF FindMatch
      <3>2. posts'[x].stage = "done" BY <1>a, <3>1, ReplyMoves DEF Status
      <3>3. QED BY <3>1, <3>2, PostLeft
    <2>3. QED BY <2>1, <2>2
  <1>2. CASE CommitMessage(x)
    <2>1. posts'[x].stage = "look" BY <1>2, <1>a, GotoMoves DEF CommitMessage, Stage
    <2>2. x \in messages' BY <1>2 DEF CommitMessage
    <2>3. posts[x].sender \in {posts[x].match[1], posts[x].match[2]}
      BY <1>2 DEF CommitMessage, PostRight
    <2>4. QED BY <1>b, <2>1, <2>2, <2>3 DEF PostRight
  <1>3. CASE LookUp(x)
    <2> DEFINE s == registry[posts[x].at][Addressee(x)]
    <2>1. /\ posts'[x].stage = IF s = NoSocket THEN "publish" ELSE "sending"
          /\ posts'[x].socket = s
      BY <1>3, LookUpMoves
    <2>2. UNCHANGED messages /\ x \in messages
      BY <1>3 DEF LookUp, PostRight
    <2>3. posts[x].sender \in {posts[x].match[1], posts[x].match[2]}
      BY <2>2 DEF PostRight
    <2>4. posts[x].at \in Instances /\ Addressee(x) \in Users
      BY <1>a, AddresseeIsUser DEF Post
    <2>5. s # NoSocket => /\ s \in Sockets
                          /\ sockets[s].user = Addressee(x)
                          /\ sockets[s].at = posts[x].at
      BY <2>4 DEF RegisteredIsServed, TypeOK, WsTypeOK
    <2> HIDE DEF s
    <2>6. QED BY <1>b, <1>c, <2>1, <2>2, <2>3, <2>5 DEF PostRight
  <1>4. CASE DirectSend(x)
    <2>1. posts'[x].stage = "publish" BY <1>4, <1>a, GotoMoves DEF DirectSend, Stage
    <2>2. UNCHANGED messages /\ x \in messages
      BY <1>4 DEF DirectSend, PostRight
    <2>3. posts[x].sender \in {posts[x].match[1], posts[x].match[2]}
      BY <2>2 DEF PostRight
    <2>4. QED BY <1>b, <2>1, <2>2, <2>3 DEF PostRight
  <1>5. CASE PublishMessage(x) \/ PublishFails(x) \/ PostFails(x)
    <2>1. \E status \in Status : Reply(x, status)
      BY <1>5 DEF PublishMessage, PublishFails, PostFails, Status
    <2>2. posts'[x].stage = "done" BY <1>a, <2>1, ReplyMoves
    <2>3. UNCHANGED messages BY <1>5 DEF PublishMessage, PublishFails, PostFails
    <2>4. QED BY <2>2, <2>3, PostLeft
  <1>6. QED BY <1>1, <1>2, <1>3, <1>4, <1>5 DEF Handle

LEMMA OtherPosts ==
    ASSUME TypeOK, NEW x \in Messages, NEW y \in Messages, y # x,
           FindMatch(x) \/ Handle(x) \/ PublishFails(x) \/ PostFails(x)
    PROVE  posts'[y] = posts[y]
  <1>1. posts \in [Messages -> Post] BY DEF TypeOK
  <1>2. \/ LookUp(x)
        \/ \E stage \in Stage : Goto(x, stage)
        \/ \E status \in Status : Reply(x, status)
    BY DEF FindMatch, Handle, CommitMessage, DirectSend, PublishMessage,
           PublishFails, PostFails, Stage, Status
  <1>3. QED BY <1>1, <1>2, LookUpMoves, GotoMoves, ReplyMoves

LEMMA PostsKept ==
    ASSUME TypeOK, RegisteredIsServed, PostsRight, [Next]_vars
    PROVE  PostsRight'
  <1>a. Fixed BY StepFixed
  <1>b. messages \subseteq messages' BY MessagesGrow
  <1> SUFFICES ASSUME NEW y \in Messages PROVE PostRight(y)'
    BY DEF PostsRight
  <1>c. PostRight(y) BY DEF PostsRight
  <1>1. CASE UNCHANGED chatVars
    BY <1>1, <1>a, <1>c, PostLeft DEF chatVars
  <1>2. ASSUME NEW x \in Messages,
               FindMatch(x) \/ Handle(x) \/ PublishFails(x) \/ PostFails(x)
        PROVE  PostRight(y)'
    <2>1. CASE y = x BY <1>2, <1>a, <2>1, PostKept
    <2>2. CASE y # x
      <3>1. posts'[y] = posts[y] BY <1>2, <2>2, OtherPosts
      <3>2. y \in messages' => y \in messages
        BY <1>2, <2>2
           DEF FindMatch, Handle, CommitMessage, LookUp, DirectSend, PublishMessage,
               PublishFails, PostFails
      <3>3. QED BY <1>a, <1>b, <1>c, <3>1, <3>2, PostLeft
    <2>3. QED BY <2>1, <2>2
  <1>3. ASSUME NEW i \in Instances, ProcessCrash(i)
        PROVE  PostRight(y)'
    <2>1. posts'[y] = posts[y] \/ posts'[y].stage = "done"
      BY <1>3 DEF ProcessCrash, TypeOK, Post
    <2>2. UNCHANGED messages BY <1>3 DEF ProcessCrash
    <2>3. QED BY <1>a, <1>c, <2>1, <2>2, PostLeft
  <1>4. QED BY <1>1, <1>2, <1>3 DEF Next, ChatNext, vars

-----------------------------------------------------------------------------
(* What is under way.  A step that queues only payloads that were queued, *)
(* or may be relayed, and gives the listeners only payloads of theirs.    *)
RightJob(i, job) ==
    /\ Relayable(job.payload)
    /\ sockets[job.socket].user = job.payload.to
    /\ sockets[job.socket].at = i

LEMMA RelayableFixed ==
    ASSUME Fixed, messages \subseteq messages', NEW p, Relayable(p)
    PROVE  p.item \in Messages =>
              /\ p.item \in messages'
              /\ p.to = Other(posts'[p.item].match, posts'[p.item].sender)
  BY DEF Relayable, Fixed, Addressee, Other

LEMMA RelaysGrow ==
    ASSUME TypeOK, RelaysRight, Fixed, messages \subseteq messages',
           \A i \in Instances : \A k \in DOMAIN inbox'[i] :
              \/ \E l \in DOMAIN inbox[i] : inbox'[i][k] = inbox[i][l]
              \/ Relayable(inbox'[i][k]),
           \A i \in Instances : \A job \in listener'[i].jobs :
              job \in Job /\ RightJob(i, job)
    PROVE  RelaysRight'
  <1>1. \A i \in Instances : \A k \in DOMAIN inbox'[i] : Relayable(inbox'[i][k])
    BY DEF RelaysRight
  <1>2. \A p : Relayable(p) =>
           (p.item \in Messages =>
              /\ p.item \in messages'
              /\ p.to = Other(posts'[p.item].match, posts'[p.item].sender))
    BY RelayableFixed
  <1>3. \A i \in Instances : \A job \in listener'[i].jobs :
           /\ Relayable(job.payload)
           /\ sockets'[job.socket].user = job.payload.to
           /\ sockets'[job.socket].at = i
    BY DEF RightJob, Job, Fixed
  <1>4. QED BY <1>1, <1>2, <1>3 DEF RelaysRight, Relayable, Addressee

LEMMA JobsRight ==
    ASSUME TypeOK, RelaysRight, NEW i \in Instances, NEW job \in listener[i].jobs
    PROVE  job \in Job /\ RightJob(i, job)
  BY DEF TypeOK, WsTypeOK, Listener, RelaysRight, RightJob

(* A publish appends one payload to what some listeners have to read. *)
LEMMA BroadcastAppends ==
    ASSUME TypeOK, NEW p \in Payload, inbox' = Broadcast(p), NEW i \in Instances
    PROVE  /\ inbox'[i] \in Seq(Payload) /\ inbox[i] \in Seq(Payload)
           /\ \A k \in DOMAIN inbox'[i] :
                 \/ k \in DOMAIN inbox[i] /\ inbox'[i][k] = inbox[i][k]
                 \/ k = Len(inbox[i]) + 1 /\ inbox'[i][k] = p
  <1>1. inbox[i] \in Seq(Payload) BY DEF TypeOK, WsTypeOK
  <1>2. inbox'[i] = IF i \in Subscribed THEN Append(inbox[i], p) ELSE inbox[i]
    BY DEF Broadcast
  <1>3. CASE i \in Subscribed
    <2>1. inbox'[i] = Append(inbox[i], p) BY <1>2, <1>3
    <2>2. QED BY <1>1, <2>1, Appended
  <1>4. CASE i \notin Subscribed
    BY <1>1, <1>2, <1>4
  <1>5. QED BY <1>3, <1>4

LEMMA PublishedRelays ==
    ASSUME TypeOK, RelaysRight, Fixed, messages \subseteq messages',
           NEW p \in Payload, Relayable(p), inbox' = Broadcast(p), UNCHANGED listener
    PROVE  RelaysRight'
  BY BroadcastAppends, JobsRight, RelaysGrow

(* A step that hands nobody anything. *)
LEMMA QuietRelays ==
    ASSUME TypeOK, RelaysRight, Fixed, messages \subseteq messages',
           \A i \in Instances : inbox'[i] = inbox[i] \/ inbox'[i] = <<>>,
           \A i \in Instances : listener'[i].jobs \subseteq listener[i].jobs
    PROVE  RelaysRight'
  <1>1. \A i \in Instances : \A k \in DOMAIN inbox'[i] :
           \E l \in DOMAIN inbox[i] : inbox'[i][k] = inbox[i][l]
    BY NoneQueued
  <1>2. \A i \in Instances : \A job \in listener'[i].jobs :
           job \in Job /\ RightJob(i, job)
    BY JobsRight
  <1>3. QED BY <1>1, <1>2, RelaysGrow

(* The listener takes the head of its queue. *)
LEMMA TakeMoves ==
    ASSUME TypeOK, NEW i \in Instances, Take(i)
    PROVE  LET q == inbox[i]
               p == Head(q)
               s == registry[i][p.to]
           IN
           /\ q \in Seq(Payload) /\ q # <<>>
           /\ p \in Payload
           /\ inbox'[i] = Tail(q)
           /\ listener[i].jobs = {}
           /\ \A job \in listener'[i].jobs :
                 job \in Job /\ job.payload = p /\ job.socket = s /\ s \in Sockets
           /\ \A j \in Instances \ {i} :
                 inbox'[j] = inbox[j] /\ listener'[j] = listener[j]
  <1> DEFINE p == Head(inbox[i])
             s == registry[i][p.to]
             taken == IF s = NoSocket THEN NoJobs ELSE {[payload |-> p, socket |-> s]}
  <1>1. /\ inbox[i] # <<>> /\ inbox[i] \in Seq(Payload)
        /\ inbox' = [inbox EXCEPT ![i] = Tail(@)]
        /\ inbox \in [Instances -> Seq(Payload)]
    BY DEF Take, TypeOK, WsTypeOK
  <1>2. p \in Payload BY <1>1, Tailed
  <1>3. s \in Sockets \cup {NoSocket} BY <1>2 DEF Payload, TypeOK, WsTypeOK
  <1>4. taken \in SUBSET Job /\ \A job \in taken : job.payload = p /\ job.socket = s /\ s \in Sockets
    BY <1>2, <1>3 DEF Job, NoJobs
  <1>5. listener' = [listener EXCEPT ![i].jobs = taken] /\ listener[i].jobs = {}
    BY DEF Take, NoJobs
  <1>6. listener \in [Instances -> Listener] BY DEF TypeOK, WsTypeOK
  <1> HIDE DEF taken
  <1>7. listener'[i].jobs = taken /\ \A j \in Instances \ {i} : listener'[j] = listener[j]
    BY <1>4, <1>5, <1>6, JobsMove
  <1>8. QED BY <1>1, <1>2, <1>4, <1>5, <1>7

LEMMA TakenRelays ==
    ASSUME TypeOK, RegisteredIsServed, RelaysRight, Fixed,
           messages \subseteq messages', NEW i \in Instances, Take(i)
    PROVE  RelaysRight'
  <1> DEFINE p == Head(inbox[i])
             s == registry[i][p.to]
  <1>1. /\ inbox[i] \in Seq(Payload) /\ inbox[i] # <<>>
        /\ p \in Payload
        /\ inbox'[i] = Tail(inbox[i])
        /\ \A job \in listener'[i].jobs :
              job \in Job /\ job.payload = p /\ job.socket = s /\ s \in Sockets
        /\ \A j \in Instances \ {i} : inbox'[j] = inbox[j] /\ listener'[j] = listener[j]
    BY TakeMoves
  <1>2. /\ p = inbox[i][1] /\ 1 \in DOMAIN inbox[i]
        /\ \A k \in DOMAIN inbox'[i] :
              k + 1 \in DOMAIN inbox[i] /\ inbox'[i][k] = inbox[i][k + 1]
    BY <1>1, Tailed
  <1>3. Relayable(p) BY <1>2 DEF RelaysRight
  <1>4. s \in Sockets => sockets[s].user = p.to /\ sockets[s].at = i
    BY <1>1, WsAssumption DEF RegisteredIsServed, Payload
  <1>5. \A j \in Instances : \A job \in listener'[j].jobs : job \in Job /\ RightJob(j, job)
    BY <1>1, <1>3, <1>4, JobsRight DEF RightJob
  <1>6. \A j \in Instances : \A k \in DOMAIN inbox'[j] :
           \E l \in DOMAIN inbox[j] : inbox'[j][k] = inbox[j][l]
    <2>1. ASSUME NEW k \in DOMAIN inbox'[i]
          PROVE  \E l \in DOMAIN inbox[i] : inbox'[i][k] = inbox[i][l]
      <3>1. k + 1 \in DOMAIN inbox[i] /\ inbox'[i][k] = inbox[i][k + 1]
        BY <1>2
      <3>2. QED BY <3>1
    <2>2. ASSUME NEW j \in Instances \ {i}, NEW k \in DOMAIN inbox'[j]
          PROVE  \E l \in DOMAIN inbox[j] : inbox'[j][k] = inbox[j][l]
      BY <1>1
    <2>3. QED BY <2>1, <2>2
  <1>7. QED BY <1>5, <1>6, RelaysGrow

(* Most steps publish nothing and take nothing from a queue. *)
Quiet ==
    \A i \in Instances :
        /\ inbox'[i] = inbox[i] \/ inbox'[i] = <<>>
        /\ listener'[i].jobs \subseteq listener[i].jobs

LEMMA RelayEnds ==
    ASSUME TypeOK, NEW i \in Instances, Relay(i)
    PROVE  /\ Quiet
           /\ listener'[i].jobs = {}
  <1>1. listener' = [listener EXCEPT ![i].jobs = NoJobs] /\ NoJobs \in SUBSET Job
    BY DEF Relay, NoJobs
  <1>2. /\ listener'[i].jobs = NoJobs
        /\ \A j \in Instances \ {i} : listener'[j] = listener[j]
    BY <1>1, JobsMove DEF TypeOK, WsTypeOK
  <1>3. QED BY <1>2 DEF Quiet, NoJobs, Relay

LEMMA QuietSteps ==
    ASSUME TypeOK, [Next]_vars
    PROVE  \/ Quiet
           \/ \E n \in Notices, u \in Users : Announce(n, u) /\ UNCHANGED chatVars
           \/ \E x \in Messages : PublishMessage(x) \/ PublishFails(x)
           \/ \E i \in Instances : Take(i) /\ UNCHANGED chatVars
  <1>1. ASSUME UNCHANGED <<inbox, listener>>
        PROVE  Quiet
    BY <1>1 DEF Quiet
  <1>2. ASSUME NEW i \in Instances, Subscribe(i) \/ SubscriptionBreaks(i)
        PROVE  Quiet
    <2>1. PICK stage \in {"subscribing", "listening", "dead"} :
             listener' = [listener EXCEPT ![i].stage = stage]
      BY <1>2 DEF Subscribe, SubscriptionBreaks
    <2>2. \A j \in Instances : listener'[j].jobs = listener[j].jobs
      BY <2>1, StageMoves DEF TypeOK, WsTypeOK
    <2>3. \A j \in Instances : inbox'[j] = inbox[j] \/ inbox'[j] = <<>>
      BY <1>2 DEF Subscribe, SubscriptionBreaks, TypeOK, WsTypeOK
    <2>4. QED BY <2>2, <2>3 DEF Quiet
  <1>3. ASSUME NEW i \in Instances, ProcessCrash(i)
        PROVE  Quiet
    <2>1. /\ inbox' = [inbox EXCEPT ![i] = <<>>]
          /\ listener' = [listener EXCEPT ![i] = Subscribing]
      BY <1>3 DEF ProcessCrash, ProcessDies
    <2>2. Subscribing.jobs = {} BY DEF Subscribing, NoJobs
    <2>3. \A j \in Instances :
             /\ inbox'[j] = inbox[j] \/ inbox'[j] = <<>>
             /\ listener'[j] = listener[j] \/ listener'[j] = Subscribing
      BY <2>1 DEF TypeOK, WsTypeOK
    <2>4. QED BY <2>2, <2>3 DEF Quiet
  <1>4. ASSUME NEW s \in Sockets,
               Open(s) \/ Register(s) \/ AcceptFails(s) \/ HangUp(s) \/ Leave(s)
        PROVE  Quiet
    BY <1>1, <1>4 DEF Open, Register, AcceptFails, HangUp, Leave
  <1>5. ASSUME NEW x \in Messages,
               FindMatch(x) \/ CommitMessage(x) \/ LookUp(x) \/ DirectSend(x)
                 \/ PostFails(x)
        PROVE  Quiet
    BY <1>1, <1>5 DEF FindMatch, CommitMessage, LookUp, DirectSend, PostFails, wsVars
  <1>6. CASE WsNext /\ UNCHANGED chatVars
    BY <1>2, <1>4, <1>6, RelayEnds DEF WsNext
  <1>7. CASE ChatNext
    BY <1>3, <1>5, <1>7 DEF ChatNext, Handle
  <1>8. QED BY <1>1, <1>6, <1>7 DEF Next, vars, wsVars

(* What a publish sends out may be relayed. *)
LEMMA MessageRelayable ==
    ASSUME TypeOK, PostsRight, NEW x \in Messages, posts[x].stage = "publish"
    PROVE  LET p == [to |-> Addressee(x), item |-> x] IN
           p \in Payload /\ Relayable(p)
  <1>1. x \in messages BY DEF PostsRight, PostRight
  <1>2. Addressee(x) \in Users BY AddresseeIsUser DEF TypeOK
  <1>3. QED BY <1>1, <1>2 DEF Relayable, Payload, Items

LEMMA NoticeRelayable ==
    ASSUME NEW n \in Notices, NEW u \in Users
    PROVE  LET p == [to |-> u, item |-> n] IN
           p \in Payload /\ Relayable(p)
  BY WsAssumption DEF Relayable, Payload, Items

LEMMA RelaysKept ==
    ASSUME TypeOK, RegisteredIsServed, PostsRight, RelaysRight, [Next]_vars
    PROVE  RelaysRight'
  <1>a. Fixed BY StepFixed
  <1>b. messages \subseteq messages' BY MessagesGrow
  <1>1. CASE Quiet
    BY <1>1, <1>a, <1>b, QuietRelays DEF Quiet
  <1>2. ASSUME NEW n \in Notices, NEW u \in Users, Announce(n, u)
        PROVE  RelaysRight'
    BY <1>2, <1>a, <1>b, NoticeRelayable, PublishedRelays DEF Announce
  <1>3. ASSUME NEW x \in Messages, PublishMessage(x) \/ PublishFails(x)
        PROVE  RelaysRight'
    <2>1. /\ posts[x].stage = "publish"
          /\ UNCHANGED listener
          /\ \/ inbox' = Broadcast([to |-> Addressee(x), item |-> x])
             \/ inbox' = inbox
      BY <1>3 DEF PublishMessage, PublishFails
    <2>2. QED
      BY <1>1, <1>a, <1>b, <2>1, MessageRelayable, PublishedRelays DEF Quiet
  <1>4. ASSUME NEW i \in Instances, Take(i)
        PROVE  RelaysRight'
    BY <1>4, <1>a, <1>b, TakenRelays
  <1>5. QED BY <1>1, <1>2, <1>3, <1>4, QuietSteps

-----------------------------------------------------------------------------
(* Each payload is under way once.  A request only goes forward. *)
Early == {"unsent", "commit", "look", "sending"}

LEMMA PostsProgress ==
    ASSUME TypeOK, [Next]_vars, NEW x \in Messages
    PROVE  /\ posts[x].stage = "done" => posts'[x].stage = "done"
           /\ posts'[x].stage \in Early => posts[x].stage \in Early
  <1>a. posts \in [Messages -> Post] BY DEF TypeOK
  <1>1. CASE posts'[x] = posts[x]
    BY <1>1
  <1>2. CASE FindMatch(x)
    BY <1>2, <1>a, GotoMoves, ReplyMoves DEF FindMatch, Stage, Status, Early
  <1>3. CASE CommitMessage(x)
    BY <1>3, <1>a, GotoMoves DEF CommitMessage, Stage, Early
  <1>4. CASE LookUp(x)
    BY <1>4, LookUpMoves DEF LookUp, Early
  <1>5. CASE DirectSend(x)
    BY <1>5, <1>a, GotoMoves DEF DirectSend, Stage, Early
  <1>6. CASE PublishMessage(x) \/ PublishFails(x) \/ PostFails(x)
    BY <1>6, <1>a, ReplyMoves DEF PublishMessage, PublishFails, PostFails, Status, Early
  <1>7. ASSUME NEW i \in Instances, ProcessCrash(i)
        PROVE  posts'[x] = posts[x] \/ posts'[x].stage = "done"
    BY <1>7, <1>a DEF ProcessCrash, Post
  <1>8. CASE ChatNext
    <2>1. CASE \E i \in Instances : ProcessCrash(i)
      BY <1>1, <1>7, <2>1 DEF Early
    <2>2. ASSUME NEW y \in Messages, y # x,
                 FindMatch(y) \/ Handle(y) \/ PublishFails(y) \/ PostFails(y)
          PROVE  posts'[x] = posts[x]
      BY <2>2, OtherPosts
    <2>3. QED
      BY <1>1, <1>2, <1>3, <1>4, <1>5, <1>6, <1>8, <2>1, <2>2 DEF ChatNext, Handle
  <1>9. QED BY <1>1, <1>8 DEF Next, vars, chatVars

LEMMA NoticesGrow ==
    ASSUME [Next]_vars
    PROVE  notices \subseteq notices'
  BY DEF Next, WsNext, ChatNext, Open, Register, AcceptFails, HangUp, Leave, Announce,
         Subscribe, Take, Relay, SubscriptionBreaks, FindMatch, Handle, CommitMessage,
         LookUp, DirectSend, PublishMessage, PublishFails, PostFails, ProcessCrash,
         vars, wsVars

LEMMA PublishedGrows ==
    ASSUME TypeOK, [Next]_vars, NEW x
    PROVE  Published(x) => Published(x)'
  BY PostsProgress, NoticesGrow DEF Published

LEMMA WaysFixed ==
    ASSUME Fixed, NEW s \in Sockets, NEW x
    PROVE  /\ Ways(s, x) \in {1, 2} /\ Ways(s, x)' = Ways(s, x)
           /\ sockets'[s].at = sockets[s].at
  BY DEF Fixed, Ways

(* A step that puts an item nowhere and sends it to nobody. *)
LEMMA ItemKept ==
    ASSUME TypeOK, [Next]_vars, NEW x \in Items, OnceUnderWay(x),
           \A i \in Instances :
              /\ Queued(i, x)' => Queued(i, x)
              /\ WithListener(i, x)' => WithListener(i, x)
              /\ \A k, l \in DOMAIN inbox'[i] :
                    inbox'[i][k].item = x /\ inbox'[i][l].item = x => k = l,
           \A s \in Sockets : got'[s][x] = got[s][x]
    PROVE  OnceUnderWay(x)'
  <1>a. Fixed BY StepFixed
  <1>b. Published(x) => Published(x)' BY PublishedGrows
  <1>c. x \in Messages /\ posts'[x].stage \in Early => posts[x].stage \in Early
    BY PostsProgress
  <1>d. \A s \in Sockets : Ways(s, x)' = Ways(s, x) /\ sockets'[s].at = sockets[s].at
    BY <1>a, WaysFixed
  <1>e. \A s \in Sockets : sockets[s].at \in Instances
    BY DEF TypeOK, WsTypeOK, Socket
  <1>1. ASSUME NEW i \in Instances
        PROVE  /\ Queued(i, x)' \/ WithListener(i, x)' => Published(x)'
               /\ ~(Queued(i, x)' /\ WithListener(i, x)')
    BY <1>b DEF OnceUnderWay
  <1>2. ASSUME NEW s \in Sockets, NEW i \in Instances, i = sockets[s].at
        PROVE  /\ ~Published(x)' \/ Queued(i, x)' \/ WithListener(i, x)'
                     => got'[s][x] < Ways(s, x)'
               /\ x \in Messages /\ posts'[x].stage \in Early => got'[s][x] = 0
    <2>1. got'[s][x] = got[s][x] /\ Ways(s, x)' = Ways(s, x)
      BY <1>d
    <2>2. /\ ~Published(x) \/ Queued(i, x) \/ WithListener(i, x)
                => got[s][x] < Ways(s, x)
          /\ x \in Messages /\ posts[x].stage \in Early => got[s][x] = 0
      BY <1>2 DEF OnceUnderWay, Early
    <2>3. /\ Queued(i, x)' => Queued(i, x)
          /\ WithListener(i, x)' => WithListener(i, x)
      OBVIOUS
    <2>4. QED BY <1>b, <1>c, <2>1, <2>2, <2>3
  <1>3. \A s \in Sockets : sockets'[s].at \in Instances /\ sockets'[s].at = sockets[s].at
    BY <1>d, <1>e
  <1>4. QED BY <1>1, <1>2, <1>3 DEF OnceUnderWay, Early

(* What a quiet step leaves under way was under way. *)
LEMMA QuietItems ==
    ASSUME Quiet, NEW x \in Items, OnceUnderWay(x), NEW i \in Instances
    PROVE  /\ Queued(i, x)' => Queued(i, x)
           /\ WithListener(i, x)' => WithListener(i, x)
           /\ \A k, l \in DOMAIN inbox'[i] :
                 inbox'[i][k].item = x /\ inbox'[i][l].item = x => k = l
  <1>1. CASE inbox'[i] = inbox[i]
    BY <1>1 DEF Quiet, OnceUnderWay, Queued, WithListener
  <1>2. CASE inbox'[i] = <<>>
    BY <1>2, NoneQueued DEF Quiet, Queued, WithListener
  <1>3. QED BY <1>1, <1>2 DEF Quiet

(* What a send does to the counts. *)
LEMMA SentCounts ==
    ASSUME TypeOK, NEW i, NEW u, NEW s \in Sockets, NEW x \in Items, Sent(i, u, s, x)
    PROVE  /\ got[s][x] \in Nat
           /\ got'[s][x] \in {got[s][x], got[s][x] + 1}
           /\ \A z \in Sockets, y \in Items : z # s \/ y # x => got'[z][y] = got[z][y]
  <1>1. got \in [Sockets -> [Items -> Nat]] BY DEF TypeOK, WsTypeOK
  <1>2. got' = got \/ got' = [got EXCEPT ![s][x] = got[s][x] + 1]
    BY DEF Sent
  <1>3. QED BY <1>1, <1>2

(* A publish puts its item under way, and no other. *)
LEMMA PublishKeepsOnce ==
    ASSUME TypeOK, [Next]_vars, UnderWayOnce, NEW p \in Payload,
           inbox' = Broadcast(p) \/ inbox' = inbox, UNCHANGED <<listener, got>>,
           ~Published(p.item), Published(p.item)'
    PROVE  UnderWayOnce'
  <1> SUFFICES ASSUME NEW x \in Items PROVE OnceUnderWay(x)'
    BY DEF UnderWayOnce
  <1>a. OnceUnderWay(x) BY DEF UnderWayOnce
  <1>b. \A i \in Instances : WithListener(i, x)' => WithListener(i, x)
    BY DEF WithListener
  <1>c. \A i \in Instances : \A k \in DOMAIN inbox'[i] :
           \/ k \in DOMAIN inbox[i] /\ inbox'[i][k] = inbox[i][k]
           \/ k = Len(inbox[i]) + 1 /\ inbox'[i][k] = p
    BY BroadcastAppends
  <1>1. CASE x # p.item
    <2>1. \A i \in Instances : \A k \in DOMAIN inbox'[i] :
             inbox'[i][k].item = x => k \in DOMAIN inbox[i] /\ inbox[i][k].item = x
      BY <1>c, <1>1
    <2>2. \A i \in Instances : Queued(i, x)' => Queued(i, x)
      BY <2>1 DEF Queued
    <2>3. \A i \in Instances : \A k, l \in DOMAIN inbox'[i] :
             inbox'[i][k].item = x /\ inbox'[i][l].item = x => k = l
      BY <1>a, <2>1 DEF OnceUnderWay
    <2>4. \A s \in Sockets : got'[s][x] = got[s][x] OBVIOUS
    <2>5. QED BY <1>a, <1>b, <2>2, <2>3, <2>4, ItemKept
  <1>2. CASE x = p.item
    <2>1. \A i \in Instances : ~Queued(i, x) /\ ~WithListener(i, x)
      BY <1>a, <1>2 DEF OnceUnderWay
    <2>2. \A i \in Instances : ~WithListener(i, x)' BY <1>b, <2>1
    <2>3. \A i \in Instances : \A k, l \in DOMAIN inbox'[i] :
             inbox'[i][k].item = x /\ inbox'[i][l].item = x => k = l
      BY <1>c, <2>1 DEF Queued
    <2>4. \A s \in Sockets : got'[s][x] < Ways(s, x)'
      <3>1. \A s \in Sockets : got[s][x] < Ways(s, x)
        BY <1>a, <1>2 DEF OnceUnderWay
      <3>2. QED BY <3>1, StepFixed, WaysFixed
    <2>5. ~(x \in Messages /\ posts'[x].stage \in Early)
      BY <1>2 DEF Published, Early
    <2>6. Published(x)' BY <1>2
    <2>7. QED BY <2>2, <2>3, <2>4, <2>5, <2>6 DEF OnceUnderWay, Early
  <1>3. QED BY <1>1, <1>2

(* A published item that one listener takes from its queue. *)
LEMMA UnderWayMoved ==
    ASSUME TypeOK, [Next]_vars, NEW x \in Items, OnceUnderWay(x), NEW i \in Instances,
           UNCHANGED got, Published(x)', Queued(i, x), ~Queued(i, x)',
           \A k, l \in DOMAIN inbox'[i] :
              inbox'[i][k].item = x /\ inbox'[i][l].item = x => k = l,
           \A j \in Instances \ {i} :
              /\ Queued(j, x)' => Queued(j, x)
              /\ WithListener(j, x)' => WithListener(j, x)
              /\ \A k, l \in DOMAIN inbox'[j] :
                    inbox'[j][k].item = x /\ inbox'[j][l].item = x => k = l
    PROVE  OnceUnderWay(x)'
  <1>a. Fixed BY StepFixed
  <1>b. \A s \in Sockets : Ways(s, x)' = Ways(s, x) /\ sockets'[s].at = sockets[s].at
    BY <1>a, WaysFixed
  <1>c. \A s \in Sockets : sockets[s].at \in Instances
    BY DEF TypeOK, WsTypeOK, Socket
  <1>1. \A j \in Instances : ~(Queued(j, x)' /\ WithListener(j, x)')
    BY DEF OnceUnderWay
  <1>2. ASSUME NEW s \in Sockets, NEW j \in Instances, j = sockets[s].at,
               Queued(j, x)' \/ WithListener(j, x)'
        PROVE  got'[s][x] < Ways(s, x)'
    <2>1. Queued(j, x) \/ WithListener(j, x) BY <1>2
    <2>2. got[s][x] < Ways(s, x) BY <1>2, <2>1 DEF OnceUnderWay
    <2>3. QED BY <1>b, <2>2
  <1>3. ~(x \in Messages /\ posts'[x].stage \in Early)
    BY DEF Published, Early
  <1>4. \A s \in Sockets : sockets'[s].at \in Instances /\ sockets'[s].at = sockets[s].at
    BY <1>b, <1>c
  <1>5. QED BY <1>1, <1>2, <1>3, <1>4 DEF OnceUnderWay, Early

(* Taken from the queue, an item is with the listener and no longer in it. *)
LEMMA TakeKeepsOnce ==
    ASSUME TypeOK, [Next]_vars, UnderWayOnce, NEW i \in Instances, Take(i)
    PROVE  UnderWayOnce'
  <1> SUFFICES ASSUME NEW x \in Items PROVE OnceUnderWay(x)'
    BY DEF UnderWayOnce
  <1> DEFINE p == Head(inbox[i])
  <1>a. OnceUnderWay(x) BY DEF UnderWayOnce
  <1>b. /\ inbox[i] \in Seq(Payload) /\ inbox[i] # <<>>
        /\ inbox'[i] = Tail(inbox[i])
        /\ listener[i].jobs = {}
        /\ \A job \in listener'[i].jobs : job.payload = p
        /\ \A j \in Instances \ {i} : inbox'[j] = inbox[j] /\ listener'[j] = listener[j]
    BY TakeMoves
  <1>c. /\ p = inbox[i][1] /\ 1 \in DOMAIN inbox[i] /\ DOMAIN inbox[i] \subseteq Nat
        /\ \A k \in DOMAIN inbox'[i] :
              k \in Nat \ {0} /\ k + 1 \in DOMAIN inbox[i] /\ inbox'[i][k] = inbox[i][k + 1]
    BY <1>b, Tailed
  <1> HIDE DEF p
  <1>d. UNCHANGED got BY DEF Take
  <1>1. Queued(i, x)' => Queued(i, x)
    BY <1>c DEF Queued
  <1>2. \A k, l \in DOMAIN inbox'[i] :
           inbox'[i][k].item = x /\ inbox'[i][l].item = x => k = l
    <2> SUFFICES ASSUME NEW k \in DOMAIN inbox'[i], NEW l \in DOMAIN inbox'[i],
                        inbox'[i][k].item = x, inbox'[i][l].item = x
                 PROVE  k = l
      OBVIOUS
    <2>1. k + 1 = l + 1 BY <1>a, <1>c DEF OnceUnderWay
    <2>2. QED BY <1>c, <2>1
  <1>3. \A j \in Instances \ {i} :
           /\ Queued(j, x)' => Queued(j, x)
           /\ WithListener(j, x)' => WithListener(j, x)
           /\ \A k, l \in DOMAIN inbox'[j] :
                 inbox'[j][k].item = x /\ inbox'[j][l].item = x => k = l
    BY <1>a, <1>b DEF OnceUnderWay, Queued, WithListener
  <1>4. CASE ~WithListener(i, x)'
    <2>1. \A j \in Instances :
             /\ Queued(j, x)' => Queued(j, x)
             /\ WithListener(j, x)' => WithListener(j, x)
             /\ \A k, l \in DOMAIN inbox'[j] :
                   inbox'[j][k].item = x /\ inbox'[j][l].item = x => k = l
      BY <1>1, <1>2, <1>3, <1>4
    <2>2. QED BY <1>a, <1>d, <2>1, ItemKept
  <1>5. CASE WithListener(i, x)'
    <2>1. p.item = x BY <1>b, <1>5 DEF WithListener
    <2>2. Queued(i, x) BY <1>c, <2>1 DEF Queued
    <2>3. ~Queued(i, x)'
      <3> SUFFICES ASSUME NEW k \in DOMAIN inbox'[i], inbox'[i][k].item = x
                   PROVE  FALSE
        BY DEF Queued
      <3>1. k + 1 = 1 BY <1>a, <1>c, <2>1 DEF OnceUnderWay
      <3>2. QED BY <1>c, <3>1
    <2>4. Published(x) BY <1>a, <2>2 DEF OnceUnderWay
    <2>5. Published(x)' BY <2>4, PublishedGrows
    <2>6. \A j \in Instances : Queued(j, x)' => Queued(j, x) BY <1>1, <1>3
    <2>7. QED BY <1>2, <1>3, <1>a, <1>d, <2>2, <2>3, <2>5, UnderWayMoved
  <1>6. QED BY <1>4, <1>5

(* Relayed, an item is no longer under way on its process. *)
LEMMA RelayKeepsOnce ==
    ASSUME TypeOK, [Next]_vars, RelaysRight, UnderWayOnce, OncePerWay,
           NEW i \in Instances, Relay(i)
    PROVE  UnderWayOnce' /\ OncePerWay'
  <1>1. PICK job \in listener[i].jobs :
           Sent(i, job.payload.to, job.socket, job.payload.item)
    BY DEF Relay
  <1> DEFINE y == job.payload.item
             z == job.socket
  <1>2. /\ z \in Sockets /\ y \in Items
        /\ sockets[z].at = i
    BY JobsRight DEF Job, Payload, Items, RightJob
  <1>3. /\ got[z][y] \in Nat
        /\ got'[z][y] \in {got[z][y], got[z][y] + 1}
        /\ \A s \in Sockets, x \in Items : s # z \/ x # y => got'[s][x] = got[s][x]
    <2>1. PICK u : Sent(i, u, z, y) BY <1>1
    <2> HIDE DEF y, z
    <2>2. QED BY <1>2, <2>1, SentCounts
  <1>4. WithListener(i, y) BY DEF WithListener
  <1>5. \A s \in Sockets, x \in Items :
           /\ Ways(s, x) \in {1, 2} /\ Ways(s, x)' = Ways(s, x)
           /\ sockets'[s].at = sockets[s].at /\ sockets[s].at \in Instances
    BY StepFixed, WaysFixed DEF TypeOK, WsTypeOK, Socket
  <1> HIDE DEF y, z
  <1>6. OnceUnderWay(y) BY <1>2 DEF UnderWayOnce
  <1>7. got[z][y] < Ways(z, y) BY <1>2, <1>4, <1>6 DEF OnceUnderWay
  <1>8. OncePerWay'
    <2> SUFFICES ASSUME NEW s \in Sockets, NEW x \in Items
                 PROVE  got'[s][x] <= Ways(s, x)'
      BY DEF OncePerWay
    <2>1. CASE s = z /\ x = y BY <1>3, <1>5, <1>7, <2>1
    <2>2. CASE s # z \/ x # y BY <1>3, <1>5, <2>2 DEF OncePerWay
    <2>3. QED BY <2>1, <2>2
  <1>9. UnderWayOnce'
    <2> SUFFICES ASSUME NEW x \in Items PROVE OnceUnderWay(x)'
      BY DEF UnderWayOnce
    <2>a. OnceUnderWay(x) BY DEF UnderWayOnce
    <2>b. \A j \in Instances :
             /\ Queued(j, x)' => Queued(j, x)
             /\ WithListener(j, x)' => WithListener(j, x)
             /\ \A k, l \in DOMAIN inbox'[j] :
                   inbox'[j][k].item = x /\ inbox'[j][l].item = x => k = l
      BY <2>a, RelayEnds, QuietItems
    <2>1. CASE x # y
      <3>1. \A s \in Sockets : got'[s][x] = got[s][x] BY <1>3, <2>1
      <3>2. QED BY <2>a, <2>b, <3>1, ItemKept
    <2>2. CASE x = y
      <3>1. ~Queued(i, x) /\ Published(x) BY <1>4, <1>6, <2>2 DEF OnceUnderWay
      <3>2. ~WithListener(i, x)' BY RelayEnds DEF WithListener
      <3>3. ~Queued(i, x)' BY <2>b, <3>1
      <3>4. Published(x)' BY <3>1, PublishedGrows
      <3>5. ~(x \in Messages /\ posts'[x].stage \in Early)
        BY <3>4 DEF Published, Early
      <3>6. \A j \in Instances : ~(Queued(j, x)' /\ WithListener(j, x)')
        BY <2>a, <2>b DEF OnceUnderWay
      <3>7. ASSUME NEW s \in Sockets, NEW j \in Instances, j = sockets[s].at,
                   Queued(j, x)' \/ WithListener(j, x)'
            PROVE  got'[s][x] < Ways(s, x)'
        <4>1. j # i BY <3>2, <3>3, <3>7
        <4>2. got'[s][x] = got[s][x] BY <1>2, <1>3, <3>7, <4>1
        <4>3. Queued(j, x) \/ WithListener(j, x) BY <2>b, <3>7
        <4>4. got[s][x] < Ways(s, x) BY <2>a, <3>7, <4>3 DEF OnceUnderWay
        <4>5. QED BY <1>5, <4>2, <4>4
      <3>8. \A s \in Sockets : /\ sockets'[s].at \in Instances
                               /\ sockets'[s].at = sockets[s].at
        BY <1>5
      <3>9. QED BY <2>b, <3>4, <3>5, <3>6, <3>7, <3>8 DEF OnceUnderWay, Early
    <2>3. QED BY <2>1, <2>2
  <1>10. QED BY <1>8, <1>9

(* Sent directly, a message has reached one socket, of the process that *)
(* took the post, and is still to be published.                         *)
LEMMA DirectSendKeepsOnce ==
    ASSUME TypeOK, [Next]_vars, PostsRight, UnderWayOnce, OncePerWay,
           NEW y \in Messages, DirectSend(y)
    PROVE  UnderWayOnce' /\ OncePerWay'
  <1> DEFINE z == posts[y].socket
  <1>1. /\ z \in Sockets /\ y \in Items
        /\ sockets[z].at = posts[y].at
    BY DEF DirectSend, TypeOK, PostsRight, PostRight, Items
  <1>2. /\ got[z][y] \in Nat
        /\ got'[z][y] \in {got[z][y], got[z][y] + 1}
        /\ \A s \in Sockets, x \in Items : s # z \/ x # y => got'[s][x] = got[s][x]
    BY <1>1, SentCounts DEF DirectSend
  <1>3. \A s \in Sockets, x \in Items :
           /\ Ways(s, x) \in {1, 2} /\ Ways(s, x)' = Ways(s, x)
           /\ sockets'[s].at = sockets[s].at /\ sockets[s].at \in Instances
    BY StepFixed, WaysFixed DEF TypeOK, WsTypeOK, Socket
  <1>4. Ways(z, y) = 2 BY <1>1 DEF Ways
  <1> HIDE DEF z
  <1>5. OnceUnderWay(y) BY <1>1 DEF UnderWayOnce
  <1>6. \A s \in Sockets : got[s][y] = 0 BY <1>5 DEF OnceUnderWay, DirectSend
  <1>7. \A s \in Sockets : got'[s][y] < Ways(s, y)'
    <2> SUFFICES ASSUME NEW s \in Sockets PROVE got'[s][y] < Ways(s, y)'
      OBVIOUS
    <2>1. CASE s = z BY <1>1, <1>2, <1>3, <1>4, <1>6, <2>1
    <2>2. CASE s # z
      <3>1. got'[s][y] = 0 BY <1>1, <1>2, <1>6, <2>2
      <3>2. Ways(s, y)' \in {1, 2} BY <1>1, <1>3
      <3>3. QED BY <3>1, <3>2
    <2>3. QED BY <2>1, <2>2
  <1>8. OncePerWay'
    <2> SUFFICES ASSUME NEW s \in Sockets, NEW x \in Items
                 PROVE  got'[s][x] <= Ways(s, x)'
      BY DEF OncePerWay
    <2>1. CASE x = y
      <3>1. got'[s][y] \in Nat
        BY <1>1, <1>2, <1>6
      <3>2. QED BY <1>1, <1>3, <1>7, <2>1, <3>1
    <2>2. CASE x # y BY <1>2, <1>3, <2>2 DEF OncePerWay
    <2>3. QED BY <2>1, <2>2
  <1>9. UnderWayOnce'
    <2> SUFFICES ASSUME NEW x \in Items PROVE OnceUnderWay(x)'
      BY DEF UnderWayOnce
    <2>a. OnceUnderWay(x) BY DEF UnderWayOnce
    <2>b. \A j \in Instances :
             /\ Queued(j, x)' => Queued(j, x)
             /\ WithListener(j, x)' => WithListener(j, x)
             /\ \A k, l \in DOMAIN inbox'[j] :
                   inbox'[j][k].item = x /\ inbox'[j][l].item = x => k = l
      BY <2>a DEF DirectSend, OnceUnderWay, Queued, WithListener
    <2>1. CASE x # y
      <3>1. \A s \in Sockets : got'[s][x] = got[s][x] BY <1>2, <2>1
      <3>2. QED BY <2>a, <2>b, <3>1, ItemKept
    <2>2. CASE x = y
      <3>1. posts'[y].stage = "publish"
        BY GotoMoves DEF DirectSend, TypeOK, Stage
      <3>2. ~Published(x) BY <2>2 DEF Published, DirectSend
      <3>3. \A j \in Instances : ~Queued(j, x)' /\ ~WithListener(j, x)'
        BY <2>a, <2>b, <3>2 DEF OnceUnderWay
      <3>4. QED BY <1>7, <2>2, <2>b, <3>1, <3>3 DEF OnceUnderWay
    <2>3. QED BY <2>1, <2>2
  <1>10. QED BY <1>8, <1>9

(* The steps that send nothing. *)
LEMMA OthersSendNothing ==
    ASSUME [Next]_vars
    PROVE  \/ UNCHANGED got
           \/ \E i \in Instances : Relay(i) /\ UNCHANGED chatVars
           \/ \E x \in Messages : DirectSend(x)
  BY DEF Next, WsNext, ChatNext, Open, Register, AcceptFails, HangUp, Leave, Announce,
         Subscribe, Take, SubscriptionBreaks, FindMatch, Handle, CommitMessage,
         LookUp, PublishMessage, PublishFails, PostFails, ProcessCrash, vars, wsVars

LEMMA OnceKept ==
    ASSUME TypeOK, PostsRight, RelaysRight, UnderWayOnce, OncePerWay, [Next]_vars
    PROVE  UnderWayOnce' /\ OncePerWay'
  <1>1. CASE UNCHANGED got
    <2>1. OncePerWay'
      BY <1>1, StepFixed, WaysFixed DEF OncePerWay
    <2>2. CASE Quiet
      <3>1. \A x \in Items : OnceUnderWay(x)'
        BY <1>1, <2>2, QuietItems, ItemKept DEF UnderWayOnce
      <3>2. QED BY <2>1, <3>1 DEF UnderWayOnce
    <2>3. ASSUME NEW n \in Notices, NEW u \in Users, Announce(n, u)
          PROVE  UnderWayOnce'
      <3> DEFINE p == [to |-> u, item |-> n]
      <3>1. p \in Payload /\ n \notin Messages
        BY WsAssumption, NoticeRelayable
      <3>2. inbox' = Broadcast(p) /\ UNCHANGED <<listener, got>>
        BY <2>3 DEF Announce
      <3>3. ~Published(p.item) /\ Published(p.item)'
        BY <2>3, <3>1 DEF Published, Announce
      <3> HIDE DEF p
      <3>4. QED BY <3>1, <3>2, <3>3, PublishKeepsOnce
    <2>4. ASSUME NEW x \in Messages, PublishMessage(x) \/ PublishFails(x)
          PROVE  UnderWayOnce'
      <3>1. PICK p \in Payload : p = [to |-> Addressee(x), item |-> x]
        BY <2>4, MessageRelayable DEF PublishMessage, PublishFails
      <3>2. /\ inbox' = Broadcast(p) \/ inbox' = inbox
            /\ UNCHANGED <<listener, got>>
        BY <2>4, <3>1 DEF PublishMessage, PublishFails
      <3>3. posts[x].stage = "publish" /\ posts'[x].stage = "done"
        BY <2>4, ReplyMoves DEF PublishMessage, PublishFails, TypeOK, Status
      <3>4. ~Published(p.item) /\ Published(p.item)'
        BY <3>1, <3>3 DEF Published
      <3>5. QED BY <3>2, <3>4, PublishKeepsOnce
    <2>5. ASSUME NEW i \in Instances, Take(i)
          PROVE  UnderWayOnce'
      BY <2>5, TakeKeepsOnce
    <2>6. QED BY <2>1, <2>2, <2>3, <2>4, <2>5, QuietSteps
  <1>2. QED BY <1>1, OthersSendNothing, RelayKeepsOnce, DirectSendKeepsOnce

-----------------------------------------------------------------------------
(* Who gets a message. *)
LEMMA RightReader ==
    ASSUME TypeOK, PostsRight, NEW x \in Messages, NEW s \in Sockets,
           x \in messages, sockets[s].user = Addressee(x)
    PROVE  /\ posts[x].sender # sockets[s].user
           /\ {posts[x].sender, sockets[s].user} =
                 {posts[x].match[1], posts[x].match[2]}
  <1>1. posts[x].sender \in {posts[x].match[1], posts[x].match[2]}
    BY DEF PostsRight, PostRight
  <1>2. posts[x].match[1] # posts[x].match[2]
    BY ChatAssumption DEF TypeOK, Post
  <1>3. QED BY <1>1, <1>2 DEF Addressee, Other

LEMMA ReadersKept ==
    ASSUME TypeOK, PostsRight, RelaysRight, OnlyTheOtherMember, [Next]_vars
    PROVE  OnlyTheOtherMember'
  <1>a. Fixed BY StepFixed
  <1>b. messages \subseteq messages' BY MessagesGrow
  <1> SUFFICES ASSUME NEW s \in Sockets, NEW x \in Messages, got'[s][x] > 0
               PROVE  /\ x \in messages
                      /\ posts[x].sender # sockets[s].user
                      /\ {posts[x].sender, sockets[s].user} =
                            {posts[x].match[1], posts[x].match[2]}
    BY <1>a, <1>b DEF OnlyTheOtherMember, Fixed
  <1>1. CASE got'[s][x] = got[s][x]
    BY <1>1 DEF OnlyTheOtherMember
  <1>2. ASSUME NEW i \in Instances, Relay(i), got'[s][x] # got[s][x]
        PROVE  x \in messages /\ sockets[s].user = Addressee(x)
    <2>1. PICK job \in listener[i].jobs :
             Sent(i, job.payload.to, job.socket, job.payload.item)
      BY <1>2 DEF Relay
    <2>2. /\ job.socket \in Sockets /\ job.payload.item \in Items
          /\ RightJob(i, job)
      BY JobsRight DEF Job, Payload, Items
    <2>3. s = job.socket /\ x = job.payload.item
      BY <1>2, <2>1, <2>2, SentCounts DEF Items
    <2>4. QED BY <2>2, <2>3 DEF RightJob, Relayable
  <1>3. ASSUME NEW y \in Messages, DirectSend(y), got'[s][x] # got[s][x]
        PROVE  x \in messages /\ sockets[s].user = Addressee(x)
    <2>1. posts[y].socket \in Sockets BY <1>3 DEF DirectSend, TypeOK
    <2>2. s = posts[y].socket /\ x = y
      BY <1>3, <2>1, SentCounts DEF DirectSend, Items
    <2>3. QED BY <1>3, <2>2 DEF PostsRight, PostRight, DirectSend
  <1>4. QED BY <1>1, <1>2, <1>3, OthersSendNothing, RightReader

-----------------------------------------------------------------------------
(* The inductive invariant. *)
ChatInv ==
    /\ TypeOK
    /\ RegisteredIsServed
    /\ FlightInv
    /\ OncePerWay
    /\ OnlyTheOtherMember

LEMMA InvInit == Init => ChatInv
  <1> SUFFICES ASSUME Init PROVE ChatInv
    OBVIOUS
  <1>1. TypeOK BY InitTypes
  <1>2. RegisteredIsServed
    BY DEF Init, WsInit, RegisteredIsServed, NoRegistry
  <1>3. /\ \A x \in Messages : posts[x].stage = "unsent"
        /\ messages = {} /\ notices = {}
        /\ \A i \in Instances : inbox[i] = <<>> /\ listener[i].jobs = {}
        /\ \A s \in Sockets, x \in Items : got[s][x] = 0
    BY DEF Init, WsInit, ChatInit, Subscribing, NoJobs
  <1>4. PostsRight BY <1>3 DEF PostsRight, PostRight
  <1>5. RelaysRight BY <1>3, NoneQueued DEF RelaysRight
  <1>6. \A s \in Sockets, x \in Items : Ways(s, x) \in {1, 2}
    BY DEF Ways
  <1>7. \A i \in Instances, x \in Items : ~Queued(i, x) /\ ~WithListener(i, x)
    BY <1>3, NoneQueued DEF Queued, WithListener
  <1>8. UnderWayOnce
    BY <1>3, <1>6, <1>7, NoneQueued DEF UnderWayOnce, OnceUnderWay
  <1>9. OncePerWay /\ OnlyTheOtherMember
    BY <1>3, <1>6 DEF OncePerWay, OnlyTheOtherMember, Items
  <1>10. QED BY <1>1, <1>2, <1>4, <1>5, <1>8, <1>9 DEF ChatInv, FlightInv

LEMMA InvKept == TypeOK' /\ ChatInv /\ [Next]_vars => ChatInv'
  <1> SUFFICES ASSUME TypeOK', ChatInv, [Next]_vars PROVE ChatInv'
    OBVIOUS
  <1> USE DEF ChatInv, FlightInv
  <1>1. RegisteredIsServed' BY NextKeepsServed
  <1>2. PostsRight' BY PostsKept
  <1>3. RelaysRight' BY RelaysKept
  <1>4. UnderWayOnce' /\ OncePerWay' BY OnceKept
  <1>5. OnlyTheOtherMember' BY ReadersKept
  <1>6. QED BY <1>1, <1>2, <1>3, <1>4, <1>5

LEMMA InvHolds == Spec => []ChatInv
  <1>1. ChatInv => TypeOK BY DEF ChatInv
  <1>2. QED BY <1>1, InvInit, InvKept, ChatTypes, PTL DEF Spec

(* A chat message reaches only the sockets of the member of the match who *)
(* did not send it, and none before it is stored (matches.py:105-132).    *)
THEOREM OnlyMembersRead == Spec => []OnlyTheOtherMember
  <1>1. ChatInv => OnlyTheOtherMember BY DEF ChatInv
  <1>2. QED BY <1>1, InvHolds, PTL

(* No payload reaches a socket more often than it has ways to it: twice   *)
(* for a message posted on the socket's process, once for everything else *)
(* (send_to_user directly, redis_pubsub_listener once).                   *)
THEOREM NothingIsRepeated == Spec => []OncePerWay
  <1>1. ChatInv => OncePerWay BY DEF ChatInv
  <1>2. QED BY <1>1, InvHolds, PTL

(* What is under way in queues, listeners and requests is a stored message *)
(* for the other member, and each payload is under way once.               *)
THEOREM FlightIsRight == Spec => []FlightInv
  <1>1. ChatInv => FlightInv BY DEF ChatInv
  <1>2. QED BY <1>1, InvHolds, PTL

-----------------------------------------------------------------------------
(* Chat implements Delivery.  Where an item may go does not change. *)
LEMMA ReachFixed ==
    ASSUME Fixed, NEW s \in Sockets, NEW x \in Items
    PROVE  Reach(s, x)' = Reach(s, x) /\ Reach(s, x) \in {0, 1, 2}
  <1>1. Ways(s, x)' = Ways(s, x) /\ Ways(s, x) \in {1, 2}
    BY WaysFixed
  <1>2. CASE x \in Messages
    <2>1. Addressee(x)' = Addressee(x) /\ sockets'[s].user = sockets[s].user
      BY <1>2, AddresseeFixed DEF Fixed
    <2>2. QED BY <1>1, <1>2, <2>1 DEF Reach
  <1>3. CASE x \notin Messages
    BY <1>1, <1>3 DEF Reach
  <1>4. QED BY <1>2, <1>3

(* What has arrived may have arrived: it is recorded, and within its reach. *)
ArrivedWithinReach ==
    \A s \in Sockets, x \in Items :
        got[s][x] > 0 => x \in messages \cup notices /\ got[s][x] <= Reach(s, x)

LEMMA ArrivalsAreRight == ChatInv => ArrivedWithinReach
  <1> SUFFICES ASSUME ChatInv, NEW s \in Sockets, NEW x \in Items, got[s][x] > 0
               PROVE  x \in messages \cup notices /\ got[s][x] <= Reach(s, x)
    BY DEF ArrivedWithinReach
  <1>1. got[s][x] <= Ways(s, x)
    BY DEF ChatInv, OncePerWay
  <1>2. CASE x \in Messages
    <2>1. /\ x \in messages
          /\ posts[x].sender # sockets[s].user
          /\ {posts[x].sender, sockets[s].user} =
                {posts[x].match[1], posts[x].match[2]}
      BY <1>2 DEF ChatInv, OnlyTheOtherMember
    <2>2. sockets[s].user = Addressee(x)
      BY <2>1 DEF Addressee, Other
    <2>3. QED BY <1>1, <2>1, <2>2 DEF Reach
  <1>3. CASE x \notin Messages
    <2>1. Ways(s, x) = 1 /\ Reach(s, x) = Ways(s, x)
      BY <1>3 DEF Ways, Reach
    <2>2. Published(x)
      BY <2>1 DEF ChatInv, FlightInv, UnderWayOnce, OnceUnderWay, TypeOK, WsTypeOK
    <2>3. x \in notices
      BY <1>3, <2>2 DEF Published
    <2>4. QED BY <1>1, <2>1, <2>3
  <1>4. QED BY <1>2, <1>3

(* The items that a step records: at most one, and then nothing arrives. *)
LEMMA RecordsOne ==
    ASSUME [Next]_vars
    PROVE  \/ UNCHANGED <<messages, notices>>
           \/ /\ UNCHANGED got
              /\ \E x \in Items : (messages \cup notices)' = (messages \cup notices) \cup {x}
  <1>1. ASSUME NEW x \in Messages, CommitMessage(x)
        PROVE  /\ UNCHANGED got /\ x \in Items
               /\ (messages \cup notices)' = (messages \cup notices) \cup {x}
    BY <1>1 DEF CommitMessage, wsVars, Items
  <1>2. ASSUME NEW n \in Notices, NEW u \in Users, Announce(n, u), UNCHANGED chatVars
        PROVE  /\ UNCHANGED got /\ n \in Items
               /\ (messages \cup notices)' = (messages \cup notices) \cup {n}
    BY <1>2 DEF Announce, chatVars, Items
  <1>3. CASE WsNext /\ UNCHANGED chatVars
    BY <1>2, <1>3 DEF WsNext, Open, Register, AcceptFails, HangUp, Leave, Subscribe,
                      Take, Relay, SubscriptionBreaks, chatVars
  <1>4. CASE ChatNext
    BY <1>1, <1>4 DEF ChatNext, FindMatch, Handle, LookUp, DirectSend, PublishMessage,
                      PublishFails, PostFails, ProcessCrash, wsVars
  <1>5. CASE UNCHANGED vars
    BY <1>5 DEF vars, wsVars, chatVars
  <1>6. QED BY <1>3, <1>4, <1>5 DEF Next

(* And what arrives by it: at most one item at one socket. *)
LEMMA ArrivesOne ==
    ASSUME TypeOK, [Next]_vars
    PROVE  \/ UNCHANGED got
           \/ /\ UNCHANGED <<messages, notices>>
              /\ \E s \in Sockets, x \in Items : got' = [got EXCEPT ![s][x] = @ + 1]
  <1>1. ASSUME NEW i \in Instances, Relay(i), UNCHANGED chatVars
        PROVE  \/ UNCHANGED got
               \/ /\ UNCHANGED <<messages, notices>>
                  /\ \E s \in Sockets, x \in Items : got' = [got EXCEPT ![s][x] = @ + 1]
    <2>1. PICK job \in listener[i].jobs :
             Sent(i, job.payload.to, job.socket, job.payload.item)
      BY <1>1 DEF Relay
    <2>2. job.socket \in Sockets /\ job.payload.item \in Items
      <3>1. listener[i].jobs \subseteq Job
        BY <1>1 DEF TypeOK, WsTypeOK, Listener
      <3>2. QED BY <3>1 DEF Job, Payload
    <2>3. QED BY <1>1, <2>1, <2>2 DEF Sent, Relay, chatVars
  <1>2. ASSUME NEW x \in Messages, DirectSend(x)
        PROVE  \/ UNCHANGED got
               \/ /\ UNCHANGED <<messages, notices>>
                  /\ \E s \in Sockets, y \in Items : got' = [got EXCEPT ![s][y] = @ + 1]
    <2>1. posts[x].socket \in Sockets /\ x \in Items
      BY <1>2 DEF DirectSend, TypeOK, Items
    <2>2. QED BY <1>2, <2>1 DEF Sent, DirectSend
  <1>3. QED BY <1>1, <1>2, OthersSendNothing

LEMMA StepsAreDeliveries ==
    ASSUME ChatInv, ArrivedWithinReach', [Next]_vars
    PROVE  [Pushes!DeliveryNext]_(Pushes!DeliveryVars)
  <1> DEFINE allowed == [s \in Sockets |-> [x \in Items |-> Reach(s, x)]]
             recorded == messages \cup notices
  <1>1. allowed' = allowed
    <2>1. \A s \in Sockets, x \in Items : Reach(s, x)' = Reach(s, x)
      BY StepFixed, ReachFixed DEF ChatInv
    <2>2. QED BY <2>1
  <1>2. CASE recorded' = recorded /\ got' = got
    BY <1>1, <1>2 DEF Pushes!DeliveryVars
  <1>3. ASSUME NEW x \in Items, recorded' = recorded \cup {x}, x \notin recorded,
               got' = got
        PROVE  Pushes!DeliveryNext
    <2>1. Pushes!Record(x)
      BY <1>1, <1>3 DEF Pushes!Record
    <2>2. QED BY <1>3, <2>1 DEF Pushes!DeliveryNext
  <1>4. ASSUME NEW s \in Sockets, NEW x \in Items, recorded' = recorded,
               got' = [got EXCEPT ![s][x] = @ + 1]
        PROVE  Pushes!DeliveryNext
    <2>1. got[s][x] \in Nat /\ got'[s][x] = got[s][x] + 1
      BY <1>4 DEF ChatInv, TypeOK, WsTypeOK
    <2>2. x \in recorded' /\ got'[s][x] <= Reach(s, x)'
      <3>1. got'[s][x] > 0 BY <2>1
      <3>2. QED BY <3>1 DEF ArrivedWithinReach
    <2>3. Reach(s, x)' = Reach(s, x) /\ Reach(s, x) \in {0, 1, 2}
      BY StepFixed, ReachFixed DEF ChatInv
    <2>4. x \in recorded /\ got[s][x] < Reach(s, x)
      BY <1>4, <2>1, <2>2, <2>3
    <2>5. allowed[s][x] = Reach(s, x)
      OBVIOUS
    <2>6. Pushes!Arrive(s, x)
      BY <1>1, <1>4, <2>4, <2>5 DEF Pushes!Arrive
    <2>7. QED BY <1>4, <2>6 DEF Pushes!DeliveryNext
  <1>5. QED
    BY <1>2, <1>3, <1>4, RecordsOne, ArrivesOne DEF ChatInv

(* The chat service and the relays keep what users are promised: an item   *)
(* reaches the sockets it is meant for and no other, once it is recorded,  *)
(* once by each way, and nothing is taken back, whatever connects, hangs   *)
(* up, breaks or dies in between (matches.py:96-137, ws_manager.py).       *)
THEOREM ChatImplementsDelivery == Spec => ImplementsDelivery
  <1>1. Init => Pushes!DeliveryInit
    <2> SUFFICES ASSUME Init PROVE Pushes!DeliveryInit
      OBVIOUS
    <2>1. \A s \in Sockets, x \in Items : Reach(s, x) \in {0, 1, 2}
      BY DEF Reach, Ways
    <2>2. [s \in Sockets |-> [x \in Items |-> Reach(s, x)]]
             \in [Sockets -> [Items -> {0, 1, 2}]]
      BY <2>1
    <2>3. messages \cup notices = {} /\ got = [s \in Sockets |-> [x \in Items |-> 0]]
      BY DEF Init, WsInit, ChatInit
    <2>4. QED BY <2>2, <2>3 DEF Pushes!DeliveryInit
  <1>2. ChatInv /\ ArrivedWithinReach' /\ [Next]_vars
           => [Pushes!DeliveryNext]_(Pushes!DeliveryVars)
    BY StepsAreDeliveries
  <1>3. QED
    BY <1>1, <1>2, ArrivalsAreRight, InvHolds, PTL DEF Spec, ImplementsDelivery, Pushes!DeliverySpec

-----------------------------------------------------------------------------
(* What MessageIsDelivered follows: a stored message that its request, the *)
(* queue or the listener of a process has still to hand to a registered    *)
(* socket of its addressee, or could not because the client is gone.       *)
ToCome(s, x) ==
    \/ posts[x].stage \in {"look", "sending", "publish"}
    \/ Queued(sockets[s].at, x)
    \/ \E job \in listener[sockets[s].at].jobs : job.payload.item = x /\ job.socket = s
    \/ ~sockets[s].up

OnItsWay(s, x) ==
    /\ faults = 0
    /\ x \in messages /\ Addressee(x) = sockets[s].user
    /\ Registered(s)
    /\ listener[sockets[s].at].stage = "listening"
    /\ ToCome(s, x)

(* It stays on its way until it has arrived, the socket is replaced or     *)
(* gone, or something fails.                                               *)
NoneIsDropped ==
    \A s \in Sockets, x \in Messages :
        OnItsWay(s, x) => \/ OnItsWay(s, x)'
                          \/ got'[s][x] > 0
                          \/ ~Registered(s)'
                          \/ faults' > 0

(* Only a socket that is opened comes up, and that one is not registered.  *)
LEMMA GoneStaysGone ==
    ASSUME TypeOK, RegisteredIsServed, [Next]_vars, NEW s \in Sockets,
           Registered(s), ~sockets[s].up
    PROVE  ~sockets'[s].up
  <1>1. sockets \in [Sockets -> Socket] /\ sockets[s].stage = "reading"
    BY WsAssumption DEF TypeOK, WsTypeOK, Registered, RegisteredIsServed, Socket
  <1>2. CASE \E z \in Sockets :
                Open(z) \/ Register(z) \/ AcceptFails(z) \/ HangUp(z) \/ Leave(z)
    BY <1>1, <1>2 DEF Open, Register, AcceptFails, HangUp, Leave, Socket
  <1>3. CASE \E i \in Instances : ProcessCrash(i)
    BY <1>1, <1>3 DEF ProcessCrash, ProcessDies, Socket
  <1>4. CASE UNCHANGED sockets
    BY <1>4
  <1>5. \/ UNCHANGED sockets
        \/ \E z \in Sockets :
              Open(z) \/ Register(z) \/ AcceptFails(z) \/ HangUp(z) \/ Leave(z)
        \/ \E i \in Instances : ProcessCrash(i)
    BY DEF Next, WsNext, ChatNext, Announce, Subscribe, Take, Relay, SubscriptionBreaks,
           FindMatch, Handle, CommitMessage, LookUp, DirectSend, PublishMessage,
           PublishFails, PostFails, vars, wsVars
  <1>6. QED BY <1>2, <1>3, <1>4, <1>5

(* A step that fails nothing is one of these. *)
LEMMA StepsWithoutFailure ==
    ASSUME TypeOK, [Next]_vars, faults = 0, ~(faults' > 0)
    PROVE  /\ faults' = 0
           /\ \/ UNCHANGED <<listener, inbox, posts>>
              \/ \E n \in Notices, u \in Users : Announce(n, u) /\ UNCHANGED posts
              \/ \E i \in Instances :
                    (Subscribe(i) \/ Take(i) \/ Relay(i)) /\ UNCHANGED posts
              \/ \E y \in Messages : FindMatch(y) \/ Handle(y)
  <1>1. \A kind : ~Fault(kind)
    BY DEF Fault
  <1>2. faults' = 0
    BY <1>1 DEF Next, WsNext, ChatNext, Open, Register, AcceptFails, HangUp, Leave,
       Announce, Subscribe, Take, Relay, SubscriptionBreaks, FindMatch, Handle,
       CommitMessage, LookUp, DirectSend, PublishMessage, PublishFails, PostFails,
       ProcessCrash, vars, wsVars
  <1>3. CASE WsNext /\ UNCHANGED chatVars
    BY <1>1, <1>2, <1>3 DEF WsNext, Open, Register, AcceptFails, HangUp, Leave,
       SubscriptionBreaks, chatVars
  <1>4. CASE ChatNext
    BY <1>1, <1>2, <1>4 DEF ChatNext, PublishFails, PostFails, ProcessCrash
  <1>5. CASE UNCHANGED vars
    BY <1>2, <1>5 DEF vars, wsVars, chatVars
  <1>6. QED BY <1>3, <1>4, <1>5 DEF Next

(* What is published stays queued, and comes to every process that listens. *)
LEMMA BroadcastQueues ==
    ASSUME TypeOK, NEW p \in Payload, inbox' = Broadcast(p), NEW i \in Instances
    PROVE  /\ \A x : Queued(i, x) => Queued(i, x)'
           /\ listener[i].stage = "listening" => Queued(i, p.item)'
  <1>1. inbox[i] \in Seq(Payload)
    BY DEF TypeOK, WsTypeOK
  <1>2. inbox'[i] = IF i \in Subscribed THEN Append(inbox[i], p) ELSE inbox[i]
    BY DEF Broadcast
  <1>3. CASE i \in Subscribed
    <2>1. /\ DOMAIN inbox'[i] = 1 .. Len(inbox[i]) + 1 /\ DOMAIN inbox[i] = 1 .. Len(inbox[i])
          /\ \A k \in DOMAIN inbox[i] : inbox'[i][k] = inbox[i][k] /\ k \in DOMAIN inbox'[i]
          /\ Len(inbox[i]) + 1 \in DOMAIN inbox'[i]
          /\ inbox'[i][Len(inbox[i]) + 1] = p
      BY <1>1, <1>2, <1>3, Appended
    <2>2. QED BY <2>1 DEF Queued
  <1>4. CASE i \notin Subscribed
    BY <1>2, <1>4 DEF Queued, Subscribed
  <1>5. QED BY <1>3, <1>4

(* The steps of listeners. *)
LEMMA TakenGoesOn ==
    ASSUME TypeOK, RegisteredIsServed, RelaysRight, [Next]_vars,
           NEW s \in Sockets, NEW x \in Messages, OnItsWay(s, x),
           NEW i \in Instances, Take(i), NEW j \in Instances, j = sockets[s].at
    PROVE  \/ Queued(j, x)'
           \/ \E job \in listener'[j].jobs : job.payload.item = x /\ job.socket = s
           \/ ~Queued(j, x) /\ (i = j \/ listener'[j] = listener[j])
  <1> DEFINE p == Head(inbox[i])
  <1>1. /\ inbox[i] \in Seq(Payload) /\ inbox[i] # <<>> /\ p \in Payload
        /\ inbox'[i] = Tail(inbox[i])
        /\ \A k \in Instances \ {i} : inbox'[k] = inbox[k] /\ listener'[k] = listener[k]
    BY TakeMoves
  <1>3. CASE i # j
    BY <1>1, <1>3 DEF Queued
  <1>4. CASE i = j /\ Queued(j, x)
    <2>1. PICK k \in DOMAIN inbox[i] : inbox[i][k].item = x
      BY <1>4 DEF Queued
    <2>2. /\ DOMAIN inbox[i] = 1 .. Len(inbox[i]) /\ p = inbox[i][1]
          /\ DOMAIN inbox'[i] = 1 .. Len(inbox[i]) - 1
          /\ \A l \in 1 .. Len(inbox[i]) - 1 : inbox'[i][l] = inbox[i][l + 1]
          /\ 1 \in DOMAIN inbox[i] /\ Len(inbox[i]) \in Nat
      BY <1>1, Tailed
    <2>3. CASE k = 1
      <3>1. p.item = x /\ p.to = Addressee(x)
        BY <2>1, <2>2, <2>3 DEF RelaysRight, Relayable
      <3>2. registry[i][p.to] = s /\ s # NoSocket
        BY <1>4, <3>1, WsAssumption DEF OnItsWay, Registered
      <3>3. listener' = [listener EXCEPT ![i].jobs = {[payload |-> p, socket |-> s]}]
        BY <3>2 DEF Take
      <3>4. [payload |-> p, socket |-> s] \in Job
        BY <1>1 DEF Job
      <3>5. listener'[i].jobs = {[payload |-> p, socket |-> s]}
        BY <3>3, <3>4, JobsMove DEF TypeOK, WsTypeOK
      <3>6. QED BY <1>4, <3>1, <3>5
    <2>4. CASE k # 1
      <3>1. k - 1 \in DOMAIN inbox'[i] /\ inbox'[i][k - 1] = inbox[i][k]
        BY <2>1, <2>2, <2>4
      <3>2. QED BY <1>4, <2>1, <3>1 DEF Queued
    <2>5. QED BY <2>3, <2>4
  <1>5. CASE i = j /\ ~Queued(j, x)
    BY <1>5
  <1>6. QED BY <1>3, <1>4, <1>5

LEMMA RelayedArrives ==
    ASSUME TypeOK, NEW s \in Sockets, NEW x \in Messages, sockets[s].up,
           NEW i \in Instances, Relay(i),
           NEW job \in listener[i].jobs, job.payload.item = x, job.socket = s
    PROVE  got'[s][x] > 0
  <1>1. PICK done \in listener[i].jobs :
           Sent(i, done.payload.to, done.socket, done.payload.item)
    BY DEF Relay
  <1>2. done = job BY DEF TypeOK, WsTypeOK
  <1>3. got' = [got EXCEPT ![s][x] = @ + 1]
    BY <1>1, <1>2 DEF Sent
  <1>4. got \in [Sockets -> [Items -> Nat]] /\ x \in Items
    BY DEF TypeOK, WsTypeOK, Items
  <1>5. QED BY <1>3, <1>4

(* The steps of the message's own request. *)
LEMMA RequestGoesOn ==
    ASSUME TypeOK, NEW x \in Messages, posts[x].stage \in {"look", "sending", "publish"},
           FindMatch(x) \/ Handle(x), NEW i \in Instances, listener[i].stage = "listening"
    PROVE  posts'[x].stage \in {"sending", "publish"} \/ Queued(i, x)'
  <1>a. posts \in [Messages -> Post] BY DEF TypeOK
  <1>1. CASE LookUp(x)
    BY <1>1, LookUpMoves
  <1>2. CASE DirectSend(x)
    BY <1>2, <1>a, GotoMoves DEF DirectSend, Stage
  <1>3. CASE PublishMessage(x)
    <2>1. [to |-> Addressee(x), item |-> x] \in Payload
      BY <1>a, AddresseeIsUser DEF Payload, Items
    <2>2. inbox' = Broadcast([to |-> Addressee(x), item |-> x])
      BY <1>3 DEF PublishMessage
    <2>3. QED BY <2>1, <2>2, BroadcastQueues
  <1>4. QED BY <1>1, <1>2, <1>3 DEF Handle, FindMatch, CommitMessage

LEMMA WayIsKept ==
    ASSUME TypeOK, RegisteredIsServed, RelaysRight, [Next]_vars,
           NEW s \in Sockets, NEW x \in Messages, OnItsWay(s, x)
    PROVE  \/ OnItsWay(s, x)' \/ got'[s][x] > 0 \/ ~Registered(s)' \/ faults' > 0
  <1> SUFFICES ASSUME ~(got'[s][x] > 0), Registered(s)', ~(faults' > 0)
               PROVE  OnItsWay(s, x)'
    OBVIOUS
  <1>1. PICK i \in Instances : i = sockets[s].at
    BY DEF TypeOK, WsTypeOK, Socket
  <1>2. /\ faults = 0 /\ x \in messages /\ Addressee(x) = sockets[s].user
        /\ Registered(s) /\ listener[i].stage = "listening" /\ ToCome(s, x)
    BY <1>1 DEF OnItsWay
  <1>3. Fixed /\ sockets'[s].at = i /\ sockets'[s].user = sockets[s].user
    BY <1>1, StepFixed DEF Fixed
  <1>4. x \in messages' /\ Addressee(x)' = sockets'[s].user
    BY <1>2, <1>3, MessagesGrow, AddresseeFixed
  <1>5. /\ faults' = 0
        /\ \/ UNCHANGED <<listener, inbox, posts>>
           \/ \E n \in Notices, u \in Users : Announce(n, u) /\ UNCHANGED posts
           \/ \E j \in Instances :
                 (Subscribe(j) \/ Take(j) \/ Relay(j)) /\ UNCHANGED posts
           \/ \E y \in Messages : FindMatch(y) \/ Handle(y)
    BY <1>2, StepsWithoutFailure
  <1>6. listener'[i].stage = "listening"
    <2>1. \A jobs : \A j \in Instances :
             listener' = [listener EXCEPT ![j].jobs = jobs] => listener'[i].stage = "listening"
      BY <1>1, <1>2 DEF TypeOK, WsTypeOK, Listener
    <2>2. ASSUME NEW j \in Instances, Subscribe(j) PROVE listener'[i].stage = "listening"
      BY <1>1, <1>2, <2>2 DEF Subscribe, TypeOK, WsTypeOK, Listener
    <2>3. ASSUME NEW y \in Messages, FindMatch(y) \/ Handle(y) PROVE UNCHANGED listener
      BY <2>3 DEF FindMatch, Handle, CommitMessage, LookUp, DirectSend, PublishMessage, wsVars
    <2>4. QED BY <1>2, <1>5, <2>1, <2>2, <2>3 DEF Announce, Take, Relay
  <1>7. ToCome(s, x)'
    <2> SUFFICES ASSUME sockets[s].up PROVE ToCome(s, x)'
      BY <1>2, GoneStaysGone DEF ToCome
    <2>1. \/ posts[x].stage \in {"look", "sending", "publish"}
          \/ Queued(i, x)
          \/ \E job \in listener[i].jobs : job.payload.item = x /\ job.socket = s
      BY <1>1, <1>2 DEF ToCome
    <2>2. SUFFICES \/ posts'[x].stage \in {"look", "sending", "publish"}
                   \/ Queued(i, x)'
                   \/ \E job \in listener'[i].jobs : job.payload.item = x /\ job.socket = s
      BY <1>3 DEF ToCome, Queued
    <2>3. CASE UNCHANGED <<listener, inbox, posts>>
      BY <2>1, <2>3 DEF Queued
    <2>4. ASSUME NEW n \in Notices, NEW u \in Users, Announce(n, u), UNCHANGED posts
          PROVE  \/ posts'[x].stage \in {"look", "sending", "publish"}
                 \/ Queued(i, x)'
                 \/ \E job \in listener'[i].jobs : job.payload.item = x /\ job.socket = s
      <3>1. [to |-> u, item |-> n] \in Payload BY DEF Payload, Items
      <3>2. Queued(i, x) => Queued(i, x)'
        BY <1>1, <2>4, <3>1, BroadcastQueues DEF Announce
      <3>3. QED BY <2>1, <2>4, <3>2 DEF Announce
    <2>5. ASSUME NEW j \in Instances, Subscribe(j), UNCHANGED posts
          PROVE  \/ posts'[x].stage \in {"look", "sending", "publish"}
                 \/ Queued(i, x)'
                 \/ \E job \in listener'[i].jobs : job.payload.item = x /\ job.socket = s
      <3>1. UNCHANGED inbox /\ listener'[i].jobs = listener[i].jobs
        BY <1>1, <2>5, StageMoves DEF Subscribe, TypeOK, WsTypeOK
      <3>2. QED BY <2>1, <2>5, <3>1 DEF Queued
    <2>6. ASSUME NEW j \in Instances, Take(j), UNCHANGED posts
          PROVE  \/ posts'[x].stage \in {"look", "sending", "publish"}
                 \/ Queued(i, x)'
                 \/ \E job \in listener'[i].jobs : job.payload.item = x /\ job.socket = s
      <3>1. \/ Queued(i, x)'
            \/ \E job \in listener'[i].jobs : job.payload.item = x /\ job.socket = s
            \/ ~Queued(i, x) /\ (j = i \/ listener'[i] = listener[i])
        BY <1>1, <2>6, TakenGoesOn
      <3>2. listener[j].jobs = {} BY <2>6, TakeMoves
      <3>3. QED BY <2>1, <2>6, <3>1, <3>2
    <2>7. ASSUME NEW j \in Instances, Relay(j), UNCHANGED posts
          PROVE  \/ posts'[x].stage \in {"look", "sending", "publish"}
                 \/ Queued(i, x)'
                 \/ \E job \in listener'[i].jobs : job.payload.item = x /\ job.socket = s
      <3>1. CASE j = i /\ \E job \in listener[i].jobs : job.payload.item = x /\ job.socket = s
        BY <2>7, <3>1, RelayedArrives
      <3>2. CASE j # i
        <4>1. listener'[i] = listener[i] /\ UNCHANGED inbox
          BY <1>1, <2>7, <3>2 DEF Relay, TypeOK, WsTypeOK
        <4>2. QED BY <2>1, <2>7, <4>1 DEF Queued
      <3>3. CASE ~\E job \in listener[i].jobs : job.payload.item = x /\ job.socket = s
        BY <2>1, <2>7, <3>3 DEF Queued, Relay
      <3>4. QED BY <3>1, <3>2, <3>3
    <2>8. ASSUME NEW y \in Messages, FindMatch(y) \/ Handle(y)
          PROVE  \/ posts'[x].stage \in {"look", "sending", "publish"}
                 \/ Queued(i, x)'
                 \/ \E job \in listener'[i].jobs : job.payload.item = x /\ job.socket = s
      <3>1. UNCHANGED listener
        BY <2>8 DEF FindMatch, Handle, CommitMessage, LookUp, DirectSend, PublishMessage, wsVars
      <3>2. Queued(i, x) => Queued(i, x)'
        <4>1. CASE PublishMessage(y)
          <5>1. [to |-> Addressee(y), item |-> y] \in Payload
            BY AddresseeIsUser DEF TypeOK, Payload, Items
          <5>2. QED BY <1>1, <4>1, <5>1, BroadcastQueues DEF PublishMessage
        <4>2. CASE ~PublishMessage(y)
          BY <2>8, <4>2 DEF FindMatch, Handle, CommitMessage, LookUp, DirectSend, wsVars, Queued
        <4>3. QED BY <4>1, <4>2
      <3>3. CASE posts[x].stage \in {"look", "sending", "publish"}
        <4>1. CASE y = x
          BY <1>1, <1>2, <2>8, <3>3, <4>1, RequestGoesOn
        <4>2. CASE y # x
          BY <2>8, <3>3, <4>2, OtherPosts
        <4>3. QED BY <4>1, <4>2
      <3>4. QED BY <2>1, <3>1, <3>2, <3>3
    <2>9. QED BY <1>5, <2>3, <2>4, <2>5, <2>6, <2>7, <2>8
  <1>8. QED BY <1>3, <1>4, <1>5, <1>6, <1>7 DEF OnItsWay

(* Without a failure no step drops a message on its way to a registered    *)
(* socket (ws_manager.py:52-75, matches.py:119-133): what                  *)
(* MessageIsDelivered says of single steps, for fairness to carry on.      *)
THEOREM NoMessageIsDropped == Spec => [][NoneIsDropped]_vars
  <1>1. TypeOK /\ RegisteredIsServed /\ FlightInv /\ [Next]_vars => [NoneIsDropped]_vars
    BY WayIsKept DEF NoneIsDropped, FlightInv
  <1>2. QED BY <1>1, ChatTypes, RegistrationsAreServed, FlightIsRight, PTL DEF Spec
=============================================================================
