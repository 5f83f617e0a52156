--------------------------- MODULE PresenceProofs ---------------------------
(***************************************************************************)
(* What is proved of Presence for every set of users and connections and   *)
(* every TTL and timeout.                                                  *)
(***************************************************************************)
EXTENDS Presence, TLAPS

LEMMA FaultCounted ==
    ASSUME Fault, faults \in 0 .. MaxFaults
    PROVE  faults' \in 0 .. MaxFaults
  BY PresenceAssumption DEF Fault

-----------------------------------------------------------------------------
(* What each step does to the connections. *)
LEMMA ClosedIsConn == Closed \in Conn
  BY PresenceAssumption DEF Closed, Conn

LEMMA AgedMoves ==
    ASSUME NEW conn \in Conn, conn.stage = "reading" => conn.idle # ReadTimeout
    PROVE  /\ Aged(conn) \in Conn
           /\ Aged(conn).stage = conn.stage
           /\ Aged(conn).user = conn.user
           /\ Aged(conn).promised = Less(conn.promised)
  <1>1. Less(conn.promised) \in 0 .. TTL
    BY PresenceAssumption DEF Conn, Less
  <1>2. conn.stage = "reading" => conn.idle + 1 \in 0 .. ReadTimeout
    BY PresenceAssumption DEF Conn
  <1>3. QED BY <1>1, <1>2 DEF Aged, Conn

LEMMA LeaveMoves ==
    ASSUME conns \in [Conns -> Conn], NEW c \in Conns, LeaveLoop(c)
    PROVE  /\ conns' \in [Conns -> Conn]
           /\ \/ conns'[c] = Closed
              \/ /\ conns'[c].stage = "delete"
                 /\ conns'[c].user = conns[c].user
                 /\ conns[c].user # NoUser
           /\ \A d \in Conns \ {c} : conns'[d] = conns[d]
           /\ active' = active \ {conns[c].user}
           /\ switched' = switched \ {conns[c].user}
  <1>1. AfterLoop(conns[c]) \in Conn
    BY ClosedIsConn DEF AfterLoop, Conn
  <1>2. AfterLoop(conns[c]) = Closed \/ /\ AfterLoop(conns[c]).stage = "delete"
                                        /\ AfterLoop(conns[c]).user = conns[c].user
                                        /\ conns[c].user # NoUser
    BY DEF AfterLoop, Closed
  <1>3. QED BY <1>1, <1>2 DEF LeaveLoop

LEMMA HeartbeatMoves ==
    ASSUME conns \in [Conns -> Conn], NEW c \in Conns, NEW u \in Users,
           Heartbeat(c, u)
    PROVE  /\ conns' \in [Conns -> Conn]
           /\ conns'[c].stage = "setex" /\ conns'[c].user = u
           /\ conns'[c].promised \in {0, conns[c].promised}
           /\ conns'[c].promised # 0 => conns[c].user = u
           /\ \A d \in Conns \ {c} : conns'[d] = conns[d]
  <1>1. conns' = [conns EXCEPT ![c] =
                    [stage |-> "setex", user |-> u, idle |-> 0,
                     promised |-> IF conns[c].user = u THEN conns[c].promised ELSE 0]]
    BY DEF Heartbeat
  <1>2. conns[c].promised \in 0 .. TTL /\ 0 \in 0 .. TTL /\ 0 \in 0 .. ReadTimeout
    BY PresenceAssumption DEF Conn
  <1>3. QED BY <1>1, <1>2 DEF Conn

LEMMA AnswerMoves ==
    ASSUME conns \in [Conns -> Conn], NEW c \in Conns, Answer(c)
    PROVE  /\ conns' \in [Conns -> Conn]
           /\ conns'[c].stage \in AfterAnswer /\ conns'[c].user = conns[c].user
           /\ conns'[c].promised = TTL
           /\ \A d \in Conns \ {c} : conns'[d] = conns[d]
  <1>1. TTL \in 0 .. TTL BY PresenceAssumption
  <1>2. PICK stage \in AfterAnswer :
           conns' = [conns EXCEPT ![c].stage = stage, ![c].promised = TTL]
    BY DEF Answer
  <1>3. QED BY <1>1, <1>2 DEF Conn, AfterAnswer

(* The steps that leave the user and the key alone. *)
Reads(c) == Connect(c) \/ Refuse(c) \/ Drained(c) \/ Disconnect(c)

LEMMA ReadMoves ==
    ASSUME conns \in [Conns -> Conn], NEW c \in Conns, Reads(c)
    PROVE  /\ conns' \in [Conns -> Conn]
           /\ c \in InLoop' /\ conns'[c].stage \in {"reading", "drain", "bye"}
           /\ conns'[c].user = conns[c].user
           /\ conns'[c].promised = conns[c].promised
           /\ \A d \in Conns \ {c} : conns'[d] = conns[d]
  <1>1. 0 \in 0 .. ReadTimeout BY PresenceAssumption
  <1>2. CASE Refuse(c)
    <2>1. PICK stage \in AfterAnswer :
             conns' = [conns EXCEPT ![c].stage = stage, ![c].idle = 0]
      BY <1>2 DEF Refuse
    <2>2. QED BY <1>1, <2>1 DEF AfterAnswer, Conn, InLoop
  <1>3. CASE Connect(c) \/ Drained(c) \/ Disconnect(c)
    BY <1>1, <1>3 DEF Connect, Drained, Disconnect, Conn, InLoop
  <1>4. QED BY <1>2, <1>3 DEF Reads

LEMMA DeleteMoves ==
    ASSUME conns \in [Conns -> Conn], NEW c \in Conns, Delete(c) \/ DeleteFails(c)
    PROVE  /\ conns' \in [Conns -> Conn]
           /\ conns'[c] = Closed
           /\ \A d \in Conns \ {c} : conns'[d] = conns[d]
  BY ClosedIsConn DEF Delete, DeleteFails

LEMMA TickMoves ==
    ASSUME conns \in [Conns -> Conn], Tick
    PROVE  /\ conns' \in [Conns -> Conn]
           /\ \A c \in Conns :
                 /\ conns'[c].stage = conns[c].stage
                 /\ conns'[c].user = conns[c].user
                 /\ conns'[c].promised = Less(conns[c].promised)
  <1>1. conns' = [c \in Conns |-> Aged(conns[c])] BY DEF Tick
  <1>2. \A c \in Conns : conns[c].stage = "reading" => conns[c].idle # ReadTimeout
    BY DEF Tick, Due
  <1>3. QED BY <1>1, <1>2, AgedMoves

(* The ways in which a step can change a connection, for the invariants    *)
(* that do not look at the time.                                           *)
Step(c) ==
    \/ Connect(c) \/ (\E u \in Users : Heartbeat(c, u)) \/ Answer(c) \/ Refuse(c)
    \/ Drained(c) \/ Disconnect(c) \/ Leave(c) \/ TimeOut(c) \/ SetexFails(c) \/ Delete(c) \/ DeleteFails(c)

-----------------------------------------------------------------------------
(* The types hold, the ages within their bounds. *)
LEMMA StepKeepsTypes ==
    ASSUME TypeOK, NEW c \in Conns, Step(c)
    PROVE  TypeOK'
  <1> USE DEF TypeOK
  <1>a. conns \in [Conns -> Conn] OBVIOUS
  <1>b. Closed.stage = "closed" /\ Closed.user = NoUser BY DEF Closed
  <1>1. ASSUME NEW u \in Users, Heartbeat(c, u) PROVE TypeOK'
    <2>1. u \in Tokens[c] /\ active' = active \cup {u} /\ UNCHANGED <<key, faults>>
      BY <1>1 DEF Heartbeat
    <2>2. u # NoUser BY PresenceAssumption
    <2>4. switched' \subseteq Users
      BY <1>a, <1>1 DEF Heartbeat, Conn
    <2>3. QED BY <1>1, <1>a, <2>1, <2>2, <2>4, HeartbeatMoves
  <1>2. CASE Answer(c)
    <2>1. conns[c].user \in Users
      BY <1>2, PresenceAssumption DEF Answer
    <2>2. key' \in [Users -> 0 .. TTL] /\ UNCHANGED <<active, switched, faults>>
      BY <1>2, <2>1, PresenceAssumption DEF Answer
    <2>3. conns[c].user # NoUser BY <1>2 DEF Answer
    <2>4. QED BY <1>2, <1>a, <2>2, <2>3, AnswerMoves DEF AfterAnswer
  <1>3. CASE Reads(c)
    <2>1. UNCHANGED <<active, key, switched, faults>>
      BY <1>3 DEF Reads, Connect, Refuse, Drained, Disconnect
    <2>2. QED BY <1>3, <1>a, <2>1, ReadMoves
  <1>4. CASE Leave(c) \/ TimeOut(c) \/ SetexFails(c)
    <2>1. LeaveLoop(c) /\ UNCHANGED key
      BY <1>4 DEF Leave, TimeOut, SetexFails
    <2>2. faults' \in 0 .. MaxFaults
      BY <1>4, FaultCounted DEF Leave, TimeOut, SetexFails
    <2>3. QED BY <1>a, <1>b, <2>1, <2>2, LeaveMoves
  <1>5. CASE Delete(c)
    <2>1. key' \in [Users -> 0 .. TTL] /\ UNCHANGED <<active, switched, faults>>
      <3>1. 0 \in 0 .. TTL BY PresenceAssumption
      <3>2. QED BY <1>5, <3>1 DEF Delete
    <2>2. QED BY <1>5, <1>a, <1>b, <2>1, DeleteMoves
  <1>6. CASE DeleteFails(c)
    <2>1. UNCHANGED <<active, key, switched>> /\ faults' \in 0 .. MaxFaults
      BY <1>6, FaultCounted DEF DeleteFails
    <2>2. QED BY <1>6, <1>a, <1>b, <2>1, DeleteMoves
  <1>7. QED BY <1>1, <1>2, <1>3, <1>4, <1>5, <1>6 DEF Step, Reads

LEMMA InitTypes == Init => TypeOK
  BY ClosedIsConn, PresenceAssumption DEF Init, TypeOK, Closed

LEMMA NextKeepsTypes == TypeOK /\ [Next]_vars => TypeOK'
  <1> SUFFICES ASSUME TypeOK, [Next]_vars PROVE TypeOK'
    OBVIOUS
  <1>1. ASSUME NEW c \in Conns, Step(c) PROVE TypeOK'
    BY <1>1, StepKeepsTypes
  <1>2. CASE Crash
    BY <1>2, ClosedIsConn, FaultCounted DEF Crash, TypeOK, Closed
  <1>3. CASE Tick
    <2>1. key' \in [Users -> 0 .. TTL]
      BY <1>3, PresenceAssumption DEF Tick, TypeOK, Less
    <2>2. UNCHANGED <<active, switched, faults>> BY <1>3 DEF Tick
    <2>3. \A c \in Conns : conns[c].stage = "closed" => conns'[c] = Closed
      <3>1. Aged(Closed) = Closed BY DEF Aged, Closed, Less
      <3>2. QED BY <1>3, <3>1 DEF Tick, TypeOK
    <2>4. QED BY <1>3, <2>1, <2>2, <2>3, TickMoves DEF TypeOK
  <1>4. CASE UNCHANGED vars BY <1>4 DEF vars, TypeOK
  <1>5. QED BY <1>1, <1>2, <1>3, <1>4 DEF Next, Step

(* Type correctness of the presence server. *)
THEOREM PresenceTypes == Spec => []TypeOK
  BY InitTypes, NextKeepsTypes, PTL DEF Spec

-----------------------------------------------------------------------------
(* No step but these changes who is active. *)
LEMMA ActiveBy ==
    ASSUME NEW c \in Conns, Step(c)
    PROVE  \/ \E u \in Users : Heartbeat(c, u)
           \/ LeaveLoop(c) /\ c \in InLoop
           \/ UNCHANGED <<active, switched>> /\ (Reads(c) \/ Answer(c))
           \/ UNCHANGED <<active, switched>> /\ (Delete(c) \/ DeleteFails(c)) /\ c \notin InLoop
  BY DEF Step, Reads, Connect, Answer, Refuse, Drained, Disconnect, Leave, TimeOut,
         SetexFails, Delete, DeleteFails, InLoop

(* A user is online and counted only while a connection carries him, or    *)
(* when a connection of his went on as somebody else: whoever leaves by    *)
(* any path of handle_client leaves _active_users.                         *)
THEOREM NoGhosts == Spec => []NoGhostUser
  <1>1. Init => NoGhostUser
    BY DEF Init, NoGhostUser
  <1>2. ASSUME TypeOK, NoGhostUser, [Next]_vars
        PROVE  NoGhostUser'
    <2>a. conns \in [Conns -> Conn] BY <1>2 DEF TypeOK
    <2>1. ASSUME NEW c \in Conns, Step(c)
          PROVE  NoGhostUser'
      <3>1. ASSUME NEW u \in Users, Heartbeat(c, u)
            PROVE  NoGhostUser'
        <4>1. /\ active' = active \cup {u}
              /\ switched' = (switched \cup {conns[c].user}) \ {u, NoUser}
          BY <3>1 DEF Heartbeat
        <4>2. c \in InLoop' /\ conns'[c].user = u /\ u # NoUser
          BY <2>a, <3>1, HeartbeatMoves, PresenceAssumption DEF InLoop
        <4>3. \A d \in InLoop \ {c} : d \in InLoop' /\ conns'[d].user = conns[d].user
          BY <2>a, <3>1, HeartbeatMoves DEF InLoop
        <4>4. Connected \subseteq Connected' \cup {conns[c].user}
          BY <4>3 DEF Connected
        <4>5. u \in Connected' /\ NoUser \notin Connected
          BY <4>2 DEF Connected
        <4>6. NoUser \notin switched
          BY <1>2, PresenceAssumption DEF TypeOK
        <4>7. QED BY <1>2, <4>1, <4>4, <4>5, <4>6 DEF NoGhostUser
      <3>2. CASE LeaveLoop(c) /\ c \in InLoop
        <4>1. /\ active' = active \ {conns[c].user}
              /\ switched' = switched \ {conns[c].user}
          BY <3>2 DEF LeaveLoop
        <4>2. \A d \in InLoop \ {c} : d \in InLoop' /\ conns'[d].user = conns[d].user
          BY <2>a, <3>2, LeaveMoves DEF InLoop
        <4>3. Connected \ {conns[c].user} \subseteq Connected'
          BY <4>2 DEF Connected
        <4>4. QED BY <1>2, <4>1, <4>3 DEF NoGhostUser
      <3>3. CASE UNCHANGED <<active, switched>> /\ (Reads(c) \/ Answer(c))
        <4>1. \A d \in InLoop : d \in InLoop' /\ conns'[d].user = conns[d].user
          BY <2>a, <3>3, ReadMoves, AnswerMoves DEF InLoop, AfterAnswer
        <4>2. Connected \subseteq Connected' BY <4>1 DEF Connected
        <4>3. QED BY <1>2, <3>3, <4>2 DEF NoGhostUser
      <3>4. CASE UNCHANGED <<active, switched>> /\ (Delete(c) \/ DeleteFails(c)) /\ c \notin InLoop
        <4>1. \A d \in InLoop : d \in InLoop' /\ conns'[d].user = conns[d].user
          BY <2>a, <3>4, DeleteMoves DEF InLoop
        <4>2. Connected \subseteq Connected' BY <4>1 DEF Connected
        <4>3. QED BY <1>2, <3>4, <4>2 DEF NoGhostUser
      <3>5. QED BY <2>1, <3>1, <3>2, <3>3, <3>4, ActiveBy
    <2>2. CASE Crash
      BY <2>2 DEF Crash, NoGhostUser
    <2>3. CASE Tick
      <3>1. UNCHANGED <<active, switched>> BY <2>3 DEF Tick
      <3>2. InLoop' = InLoop /\ \A d \in InLoop : conns'[d].user = conns[d].user
        BY <2>a, <2>3, TickMoves DEF InLoop
      <3>3. Connected \subseteq Connected' BY <3>2 DEF Connected
      <3>4. QED BY <1>2, <3>1, <3>3 DEF NoGhostUser
    <2>4. CASE UNCHANGED vars
      BY <1>2, <2>4 DEF vars, NoGhostUser, Connected, InLoop
    <2>5. QED BY <1>2, <2>1, <2>2, <2>3, <2>4 DEF Next, Step
  <1>3. QED BY <1>1, <1>2, PresenceTypes, PTL DEF Spec

(* Nobody on a connection of his own is missing from _active_users,        *)
(* whatever the other connections, the timeouts and the failures do.       *)
THEOREM EveryoneIsCounted == Spec => []EveryoneCounted
  <1>1. Init => EveryoneCounted
    BY DEF Init, EveryoneCounted, InLoop, Closed
  <1>2. ASSUME TypeOK, EveryoneCounted, [Next]_vars
        PROVE  EveryoneCounted'
    <2>a. conns \in [Conns -> Conn] BY <1>2 DEF TypeOK
    <2> SUFFICES ASSUME NEW d \in Conns, Alone(d), d \in InLoop', conns'[d].user # NoUser
                 PROVE  conns'[d].user \in active'
      BY DEF EveryoneCounted, InLoop
    <2>1. ASSUME d \in InLoop, conns'[d].user = conns[d].user, active \subseteq active'
          PROVE  conns'[d].user \in active'
      BY <1>2, <2>1 DEF EveryoneCounted
    <2>2. ASSUME NEW c \in Conns, Step(c)
          PROVE  conns'[d].user \in active'
      <3>1. ASSUME NEW u \in Users, Heartbeat(c, u)
            PROVE  conns'[d].user \in active'
        <4>1. active' = active \cup {u} BY <3>1 DEF Heartbeat
        <4>2. CASE d = c BY <2>a, <3>1, <4>1, <4>2, HeartbeatMoves
        <4>3. CASE d # c BY <2>a, <2>1, <3>1, <4>1, <4>3, HeartbeatMoves DEF InLoop
        <4>4. QED BY <4>2, <4>3
      <3>2. CASE LeaveLoop(c) /\ c \in InLoop
        <4>1. d # c BY <2>a, <3>2, LeaveMoves DEF InLoop, Closed
        <4>2. d \in InLoop /\ conns'[d] = conns[d] /\ active' = active \ {conns[c].user}
          BY <2>a, <3>2, <4>1, LeaveMoves DEF InLoop
        <4>3. conns[d].user \in active BY <1>2, <4>2 DEF EveryoneCounted
        <4>4. conns[c].user # conns[d].user
          BY <1>2, <4>1, <4>2, PresenceAssumption DEF TypeOK, Alone
        <4>5. QED BY <4>2, <4>3, <4>4
      <3>3. CASE UNCHANGED <<active, switched>> /\ Connect(c) /\ d = c
        BY <1>2, <2>a, <3>3, ReadMoves DEF Reads, Connect, TypeOK, Closed
      <3>4. CASE UNCHANGED <<active, switched>> /\ (Reads(c) \/ Answer(c)) /\ ~(Connect(c) /\ d = c)
        <4>1. conns'[d].user = conns[d].user /\ d \in InLoop
          BY <2>a, <3>4, ReadMoves, AnswerMoves
             DEF InLoop, AfterAnswer, Reads, Refuse, Drained, Disconnect, Answer
        <4>2. QED BY <2>1, <3>4, <4>1
      <3>5. CASE UNCHANGED <<active, switched>> /\ (Delete(c) \/ DeleteFails(c)) /\ c \notin InLoop
        <4>1. d # c BY <2>a, <3>5, DeleteMoves DEF InLoop, Closed
        <4>2. QED BY <2>a, <2>1, <3>5, <4>1, DeleteMoves DEF InLoop
      <3>6. QED BY <2>2, <3>1, <3>2, <3>3, <3>4, <3>5, ActiveBy
    <2>3. CASE Crash BY <2>3 DEF Crash, InLoop, Closed
    <2>4. CASE Tick
      BY <2>a, <2>1, <2>4, TickMoves DEF InLoop, Tick
    <2>5. CASE UNCHANGED vars BY <2>1, <2>5 DEF vars, InLoop
    <2>6. QED BY <1>2, <2>2, <2>3, <2>4, <2>5 DEF Next, Step
  <1>3. QED BY <1>1, <1>2, PresenceTypes, PTL DEF Spec

-----------------------------------------------------------------------------
(* The key of a user outlives what his connection was promised: the        *)
(* inductive form of OnlineAsPromised.                                     *)
KeyCovers ==
    \A c \in InLoop :
        Alone(c) /\ conns[c].promised > 0 =>
            conns[c].user \in Users /\ conns[c].promised <= key[conns[c].user]

(* Whoever heartbeats on a connection of his own is online for the TTL,    *)
(* whatever other connections, the timeouts and the failures of Redis do.  *)
THEOREM HeartbeatsKeepOnline == Spec => []OnlineAsPromised
  <1>1. Init => KeyCovers
    BY DEF Init, KeyCovers, InLoop, Closed
  <1>2. ASSUME TypeOK, KeyCovers, [Next]_vars
        PROVE  KeyCovers'
    <2>a. conns \in [Conns -> Conn] BY <1>2 DEF TypeOK
    <2>b. key \in [Users -> 0 .. TTL] BY <1>2 DEF TypeOK
    <2>c. \A c \in Conns : conns[c].promised \in 0 .. TTL
      BY <2>a DEF Conn
    <2> DEFINE Covers(c) ==
          c \in InLoop' /\ Alone(c) /\ conns'[c].promised > 0 =>
              conns'[c].user \in Users /\ conns'[c].promised <= key'[conns'[c].user]
    <2>1. ASSUME NEW c \in Conns, Step(c)
          PROVE  \A d \in Conns : Covers(d)
      <3>1. ASSUME key' = key, NEW d \in Conns, d \in InLoop' => d \in InLoop,
                   d \in InLoop' => conns'[d].user = conns[d].user,
                   d \in InLoop' => conns'[d].promised = conns[d].promised
            PROVE  Covers(d)
        BY <1>2, <3>1 DEF KeyCovers
      <3>2. ASSUME NEW u \in Users, Heartbeat(c, u), NEW d \in Conns
            PROVE  Covers(d)
        <4>1. key' = key /\ c \in InLoop BY <3>2 DEF Heartbeat, InLoop
        <4>2. CASE d = c
          <5>1. conns'[c].promised > 0 =>
                   conns[c].user = u /\ conns'[c].promised = conns[c].promised
            BY <2>a, <2>c, <3>2, HeartbeatMoves
          <5>2. conns'[c].user = u BY <2>a, <3>2, HeartbeatMoves
          <5>3. QED BY <1>2, <4>1, <4>2, <5>1, <5>2 DEF KeyCovers
        <4>3. CASE d # c
          BY <2>a, <3>1, <3>2, <4>1, <4>3, HeartbeatMoves DEF InLoop
        <4>4. QED BY <4>2, <4>3
      <3>3. ASSUME Answer(c), NEW d \in Conns
            PROVE  Covers(d)
        <4>1. conns[c].user \in Users /\ key' = [key EXCEPT ![conns[c].user] = TTL]
          BY <1>2, <3>3, PresenceAssumption DEF Answer, TypeOK
        <4>2. conns'[c].user = conns[c].user /\ conns'[c].promised = TTL
          BY <2>a, <3>3, AnswerMoves
        <4>3. CASE d = c
          <5>1. key'[conns[c].user] = TTL BY <2>b, <4>1
          <5>2. TTL <= TTL BY PresenceAssumption
          <5>3. QED BY <4>1, <4>2, <4>3, <5>1, <5>2
        <4>4. CASE d # c
          <5>1. conns'[d] = conns[d] /\ (d \in InLoop' => d \in InLoop)
            BY <2>a, <3>3, <4>4, AnswerMoves DEF InLoop, AfterAnswer
          <5>2. \A u \in Users : key[u] <= key'[u] /\ key[u] \in Nat /\ key'[u] \in Nat
            BY <2>b, <4>1, PresenceAssumption
          <5>3. d \in InLoop /\ Alone(d) /\ conns[d].promised > 0 =>
                   conns[d].user \in Users /\ conns[d].promised <= key[conns[d].user]
            BY <1>2 DEF KeyCovers
          <5>4. QED BY <2>c, <5>1, <5>2, <5>3
        <4>5. QED BY <4>3, <4>4
      <3>4. ASSUME Reads(c), NEW d \in Conns
            PROVE  Covers(d)
        <4>1. CASE ~Connect(c) \/ d # c
          <5>1. key' = key /\ (d \in InLoop' => d \in InLoop)
            BY <2>a, <3>4, <4>1, ReadMoves
               DEF Reads, Connect, Refuse, Drained, Disconnect, InLoop
          <5>2. QED BY <2>a, <3>1, <3>4, <5>1, ReadMoves
        <4>2. CASE Connect(c) /\ d = c
          <5>1. conns'[c].promised = 0
            BY <1>2, <2>a, <4>2, ReadMoves DEF Reads, Connect, TypeOK, Closed
          <5>2. QED BY <4>2, <5>1
        <4>3. QED BY <3>4, <4>1, <4>2
      <3>5. ASSUME LeaveLoop(c), key' = key, NEW d \in Conns
            PROVE  Covers(d)
        <4>1. d \in InLoop' => d # c
          BY <2>a, <3>5, LeaveMoves DEF InLoop, Closed
        <4>2. d \in InLoop' => conns'[d] = conns[d] /\ d \in InLoop
          BY <2>a, <3>5, <4>1, LeaveMoves DEF InLoop
        <4>3. QED BY <3>1, <3>5, <4>2
      <3>6. ASSUME Delete(c) \/ DeleteFails(c), NEW d \in Conns
            PROVE  Covers(d)
        <4>1. d \in InLoop' => d # c
          BY <2>a, <3>6, DeleteMoves DEF InLoop, Closed
        <4>2. d \in InLoop' => conns'[d] = conns[d] /\ d \in InLoop
          BY <2>a, <3>6, <4>1, DeleteMoves DEF InLoop
        <4>3. CASE DeleteFails(c)
          BY <3>1, <4>2, <4>3 DEF DeleteFails
        <4>4. CASE Delete(c) /\ d \in InLoop' /\ Alone(d) /\ conns[d].promised > 0
          <5>1. /\ conns[d].user \in Users
                /\ conns[d].promised <= key[conns[d].user]
            BY <1>2, <4>2, <4>4 DEF KeyCovers
          <5>2. conns[c].user # conns[d].user
            BY <1>2, <4>1, <4>4, <5>1, PresenceAssumption
               DEF TypeOK, Alone
          <5>3. key'[conns[d].user] = key[conns[d].user]
            BY <2>b, <4>4, <5>1, <5>2 DEF Delete
          <5>4. QED BY <4>2, <4>4, <5>1, <5>3
        <4>5. QED BY <3>6, <4>2, <4>3, <4>4
      <3>7. QED
        BY <2>1, <3>2, <3>3, <3>4, <3>5, <3>6
           DEF Step, Reads, Leave, TimeOut, SetexFails
    <2>2. CASE Crash
      <3>1. \A d \in Conns : d \notin InLoop'
        BY <2>2 DEF Crash, InLoop, Closed
      <3>2. QED BY <3>1 DEF KeyCovers, InLoop
    <2>3. CASE Tick
      <3>1. key' = [u \in Users |-> Less(key[u])] BY <2>3 DEF Tick
      <3>2. ASSUME NEW d \in Conns, Alone(d), d \in InLoop', conns'[d].promised > 0
            PROVE  /\ conns'[d].user \in Users
                   /\ conns'[d].promised <= key'[conns'[d].user]
        <4>1. /\ d \in InLoop /\ conns'[d].user = conns[d].user
              /\ conns'[d].promised = Less(conns[d].promised)
          BY <2>a, <2>3, <3>2, TickMoves DEF InLoop
        <4>2. conns[d].promised > 0
          BY <2>c, <3>2, <4>1 DEF Less
        <4>3. conns[d].user \in Users /\ conns[d].promised <= key[conns[d].user]
          BY <1>2, <3>2, <4>1, <4>2 DEF KeyCovers
        <4>4. key[conns[d].user] \in Nat /\ conns[d].promised \in Nat
          BY <2>b, <2>c, <4>3, PresenceAssumption
        <4>5. Less(conns[d].promised) <= Less(key[conns[d].user])
          BY <4>3, <4>4 DEF Less
        <4>6. QED BY <3>1, <4>1, <4>3, <4>5
      <3>3. QED BY <3>2 DEF KeyCovers, InLoop
    <2>4. CASE UNCHANGED vars
      BY <1>2, <2>4 DEF vars, KeyCovers, InLoop
    <2>5. ASSUME NEW c \in Conns, Step(c)
          PROVE  KeyCovers'
      BY <2>1, <2>5 DEF KeyCovers, InLoop
    <2>6. QED BY <1>2, <2>2, <2>3, <2>4, <2>5 DEF Next, Step
  <1>3. ASSUME TypeOK, KeyCovers PROVE OnlineAsPromised
    <2> SUFFICES ASSUME NEW c \in InLoop, Alone(c), conns[c].promised > 0
                 PROVE  key[conns[c].user] > 0
      BY DEF OnlineAsPromised
    <2>1. conns[c].user \in Users /\ conns[c].promised <= key[conns[c].user]
      BY <1>3 DEF KeyCovers
    <2>2. conns[c].promised \in Nat /\ key[conns[c].user] \in Nat
      BY <1>3, <2>1, PresenceAssumption DEF TypeOK, Conn, InLoop
    <2>3. QED BY <2>1, <2>2
  <1>4. QED BY <1>1, <1>2, <1>3, PresenceTypes, PTL DEF Spec
=============================================================================
