--------------------------- MODULE SpaSocketProofs ---------------------------
(***************************************************************************)
(* Theorems about the session of the browser client, for any users,        *)
(* sockets and numbers of logins, drops and reloads.                       *)
(***************************************************************************)
EXTENDS SpaSocket, FiniteSetTheorems, TLAPS

(* A running interval belongs to the socket in ws, which is open or about  *)
(* to tell its close.                                                      *)
PingHasSocket == ping => ws \in Sockets /\ socks[ws].stage \in {"open", "closing"}

LeakNeedsEntry == leaked => entries > 0

IInv ==
    /\ TypeOK /\ LiveSocketIsCurrent /\ NeverGivesUp /\ ChainsBounded
    /\ PingHasSocket /\ LeakNeedsEntry

-----------------------------------------------------------------------------
(* There are finitely many sockets, so their number is a number. *)
LEMMA UnclosedCounts ==
    /\ IsFiniteSet(Unclosed)
    /\ Cardinality(Unclosed) \in Nat
    /\ Cardinality(Unclosed) = 0 <=> Unclosed = {}
<1>1. IsFiniteSet(Unclosed)
  <2>1. Unclosed \subseteq Sockets /\ IsFiniteSet(Sockets)
    BY SocketAssumption DEF Unclosed
  <2> QED BY <2>1, FS_Subset
<1> QED BY <1>1, FS_CardinalityType, FS_EmptySet

(* The types are kept. *)
LEMMA TypeStep == TypeOK /\ [Next]_vars => TypeOK'
<1> SUFFICES ASSUME TypeOK, [Next]_vars PROVE TypeOK'
  OBVIOUS
<1> USE DEF TypeOK, Socket, Closed
<1>1. ASSUME NEW s \in Sockets, ConnectWebSocket(s)
      PROVE /\ ws' \in Sockets /\ socks' \in [Sockets -> Socket]
            /\ ping' \in BOOLEAN /\ leaked' \in BOOLEAN
  BY <1>1 DEF ConnectWebSocket, CloseCurrent, LetGo, Live
<1>2. ASSUME NEW u \in Users, AskLogin(u) \/ LoginOk(u) \/ LoginFails(u) PROVE TypeOK'
  <2>1. CASE AskLogin(u)
    BY <2>1 DEF AskLogin, Bounded
  <2>2. CASE LoginOk(u)
    BY <2>2 DEF LoginOk
  <2>3. CASE LoginFails(u)
    BY <2>3 DEF LoginFails
  <2> QED BY <1>2, <2>1, <2>2, <2>3
<1>3. CASE Logout
  BY <1>3 DEF Logout, CloseCurrent, LetGo, Live
<1>4. CASE Reload
  <2>1. entering' \in {0, 1} /\ entries' \in {0, 1}
    BY <1>4 DEF Reload
  <2>2. /\ asked' \in [Users -> Nat] /\ socks' \in [Sockets -> Socket]
        /\ bounds' \in [{"logins", "drops", "reloads"} -> Nat]
    BY <1>4 DEF Reload, Bounded
  <2>3. UNCHANGED token /\ ws' = NoSocket /\ timers' = 0 /\ pollers' = 0
        /\ ~ping' /\ ~leaked' /\ ping' \in BOOLEAN /\ leaked' \in BOOLEAN
    BY <1>4 DEF Reload
  <2> QED BY <2>1, <2>2, <2>3
<1>5. CASE TimerEnds
  BY <1>5 DEF TimerEnds
<1>6. ASSUME NEW s \in Sockets, Enter(s) PROVE TypeOK'
  BY <1>1, <1>6 DEF Enter
<1>7. ASSUME NEW s \in Sockets, Reconnect(s) PROVE TypeOK'
  BY <1>1, <1>7 DEF Reconnect
<1>8. ASSUME NEW s \in Sockets, Opened(s) \/ Refused(s) \/ OnClose(s) PROVE TypeOK'
  <2>1. CASE Opened(s)
    BY <2>1 DEF Opened
  <2>2. CASE Refused(s)
    BY <2>2 DEF Refused
  <2>3. CASE OnClose(s)
    BY <2>3 DEF OnClose
  <2> QED BY <1>8, <2>1, <2>2, <2>3
<1>9. ASSUME NEW s \in Sockets, Dropped(s) PROVE TypeOK'
  BY <1>9 DEF Dropped, Bounded
<1>10. CASE UNCHANGED vars
  BY <1>10 DEF vars, pageVars
<1> QED BY <1>2, <1>3, <1>4, <1>5, <1>6, <1>7, <1>8, <1>9, <1>10 DEF Next

-----------------------------------------------------------------------------
(* connectWebSocket leaves one live socket, the new one, and one more      *)
(* socket that is not closed; an interval that it leaves behind had a      *)
(* socket.                                                                 *)
LEMMA ConnectFacts ==
    ASSUME IInv, NEW s \in Sockets, ConnectWebSocket(s)
    PROVE /\ ws' = s /\ ~ping'
          /\ \A w \in Sockets : Live(w)' => w = s
          /\ socks'[s] = [stage |-> "connecting", user |-> token]
          /\ Cardinality(Unclosed') = Cardinality(Unclosed) + 1
          /\ leaked' => leaked \/ Cardinality(Unclosed) > 0
<1> USE DEF IInv, TypeOK, Socket
<1>1. socks'[s] = [stage |-> "connecting", user |-> token] /\ ws' = s /\ ~ping'
  BY DEF ConnectWebSocket, CloseCurrent, LetGo
<1>2. \A w \in Sockets \ {s} :
          socks'[w] = IF w = ws /\ Live(w) THEN [socks[w] EXCEPT !.stage = "closing"]
                                           ELSE socks[w]
  BY DEF ConnectWebSocket, CloseCurrent
<1>3. ASSUME NEW w \in Sockets, Live(w)' PROVE w = s
  BY <1>2, <1>3 DEF Live, LiveSocketIsCurrent
<1>4. Unclosed' = Unclosed \cup {s}
  <2>1. \A w \in Sockets \ {s} : socks'[w].stage # "closed" <=> socks[w].stage # "closed"
    BY <1>2 DEF Live
  <2>2. socks'[s].stage # "closed"
    BY <1>1
  <2> QED BY <2>1, <2>2 DEF Unclosed
<1>5. s \notin Unclosed
  BY DEF ConnectWebSocket, Unclosed
<1>6. Cardinality(Unclosed') = Cardinality(Unclosed) + 1
  BY <1>4, <1>5, UnclosedCounts, FS_AddElement
<1>7. ASSUME ping PROVE Cardinality(Unclosed) > 0
  <2>1. ws \in Unclosed
    BY <1>7 DEF PingHasSocket, Unclosed
  <2> QED BY <2>1, UnclosedCounts
<1>8. leaked' => leaked \/ Cardinality(Unclosed) > 0
  BY <1>7 DEF ConnectWebSocket, LetGo
<1> QED BY <1>1, <1>3, <1>6, <1>8

(* A call of enterApp, or a timer, becomes a socket: their sum is kept.    *)
LEMMA ConnectStep ==
    ASSUME IInv, TypeOK', NEW s \in Sockets, Enter(s) \/ Reconnect(s)
    PROVE IInv'
<1> USE DEF IInv
<1>1. ConnectWebSocket(s)
  BY DEF Enter, Reconnect
<1>2. Cardinality(Unclosed) \in Nat
  BY UnclosedCounts
<1>3. Cardinality(Unclosed') = Cardinality(Unclosed) + 1
  BY <1>1, ConnectFacts
<1>4. /\ entries \in Nat /\ timers \in Nat /\ entering \in Nat /\ pollers \in Nat
      /\ entering' \in Nat /\ timers' \in Nat
  BY DEF TypeOK
<1>5. /\ UNCHANGED <<token, entries>>
      /\ \/ entering > 0 /\ entering' = entering - 1 /\ timers' = timers
         \/ timers > 0 /\ timers' = timers - 1 /\ entering' = entering
      /\ pollers' + entering' = pollers + entering
  <2>1. CASE Enter(s)
    BY <1>4, <2>1 DEF Enter
  <2>2. CASE Reconnect(s)
    BY <1>4, <2>2 DEF Reconnect
  <2> QED BY <2>1, <2>2
<1>a. Chains' = Chains /\ Chains' > 0
  <2>1. Chains = entering + timers + Cardinality(Unclosed)
    BY DEF Chains
  <2>2. Chains' = entering' + timers' + Cardinality(Unclosed')
    BY DEF Chains
  <2> DEFINE n == Cardinality(Unclosed)
  <2>3. n \in Nat
    BY <1>2
  <2>4. Chains = entering + timers + n /\ Chains' = entering' + timers' + (n + 1)
    BY <1>3, <2>1, <2>2
  <2> HIDE DEF n
  <2>5. CASE entering > 0 /\ entering' = entering - 1 /\ timers' = timers
    <3>1. entering' + timers' + (n + 1) = entering + timers + n
      BY <1>4, <2>3, <2>5
    <3>2. entering' + timers' + (n + 1) > 0
      BY <1>4, <2>3, <2>5
    <3> QED BY <2>4, <3>1, <3>2
  <2>6. CASE timers > 0 /\ timers' = timers - 1 /\ entering' = entering
    <3>1. entering' + timers' + (n + 1) = entering + timers + n
      BY <1>4, <2>3, <2>6
    <3>2. entering' + timers' + (n + 1) > 0
      BY <1>4, <2>3, <2>6
    <3> QED BY <2>4, <3>1, <3>2
  <2> QED BY <1>5, <2>5, <2>6
<1>6. LiveSocketIsCurrent'
  BY <1>1, <1>5, ConnectFacts DEF LiveSocketIsCurrent
<1>7. leaked' => leaked \/ entries > 1
  <2>2. entering + timers + Cardinality(Unclosed) <= entries
    BY DEF ChainsBounded, Chains
  <2>3. Cardinality(Unclosed) > 0 => entries > 1
    BY <1>2, <1>4, <1>5, <2>2
  <2> QED BY <1>1, <2>3, ConnectFacts
<1>8. ChainsBounded' /\ LeakNeedsEntry'
  BY <1>4, <1>5, <1>a, <1>7 DEF ChainsBounded, LeakNeedsEntry
<1>9. NeverGivesUp'
  BY <1>a DEF NeverGivesUp
<1>10. PingHasSocket'
  BY <1>1, ConnectFacts DEF PingHasSocket
<1> QED BY <1>6, <1>8, <1>9, <1>10

(* The answer of a login adds a call of enterApp. *)
LEMMA LoginStep ==
    ASSUME IInv, TypeOK', NEW u \in Users, LoginOk(u)
    PROVE IInv'
<1> USE DEF IInv
<1>1. /\ token' = u /\ entering' = entering + 1 /\ entries' = entries + 1
      /\ UNCHANGED <<ws, socks, timers, ping, leaked, pollers>>
      /\ entering \in Nat /\ entries \in Nat /\ timers \in Nat /\ pollers \in Nat
  BY DEF LoginOk, TypeOK
<1>2. Unclosed' = Unclosed /\ Cardinality(Unclosed) \in Nat
  BY <1>1, UnclosedCounts DEF Unclosed
<1>3. Chains' = Chains + 1 /\ Chains \in Nat
  BY <1>1, <1>2 DEF Chains
<1>4. LiveSocketIsCurrent'
  BY <1>1 DEF LiveSocketIsCurrent, Live
<1>5. ChainsBounded' /\ LeakNeedsEntry'
  BY <1>1, <1>3 DEF ChainsBounded, LeakNeedsEntry
<1>6. NeverGivesUp' /\ PingHasSocket'
  BY <1>1, <1>3 DEF NeverGivesUp, PingHasSocket
<1> QED BY <1>4, <1>5, <1>6

(* What happens to one socket leaves it among the unclosed, or makes a     *)
(* timer of it.                                                            *)
LEMMA SocketStep ==
    ASSUME IInv, TypeOK', NEW s \in Sockets,
           Opened(s) \/ Refused(s) \/ Dropped(s) \/ OnClose(s)
    PROVE IInv'
<1> USE DEF IInv, TypeOK, Socket
<1>1. /\ UNCHANGED <<token, entering, ws, leaked, pollers, entries>>
      /\ \A w \in Sockets \ {s} : socks'[w] = socks[w]
      /\ socks'[s].user = socks[s].user
      /\ entering \in Nat /\ entries \in Nat /\ timers \in Nat
  BY DEF Opened, Refused, Dropped, OnClose
<1>2. \A w \in Sockets : Live(w)' => Live(w)
  BY <1>1 DEF Opened, Refused, Dropped, OnClose, Live
<1>3. LiveSocketIsCurrent'
  BY <1>1, <1>2 DEF LiveSocketIsCurrent
<1>4. Chains' = Chains
  <2>1. CASE OnClose(s)
    <3>1. Unclosed' = Unclosed \ {s} /\ s \in Unclosed /\ timers' = timers + 1
      BY <1>1, <2>1 DEF OnClose, Unclosed
    <3>2. Cardinality(Unclosed') = Cardinality(Unclosed) - 1
      BY <3>1, UnclosedCounts, FS_RemoveElement
    <3>3. Cardinality(Unclosed) \in Nat
      BY UnclosedCounts
    <3> QED BY <1>1, <3>1, <3>2, <3>3 DEF Chains
  <2>2. CASE Opened(s) \/ Refused(s) \/ Dropped(s)
    <3>1. Unclosed' = Unclosed /\ timers' = timers
      BY <1>1, <2>2 DEF Opened, Refused, Dropped, Unclosed, Live
    <3> QED BY <1>1, <3>1 DEF Chains
  <2> QED BY <2>1, <2>2
<1>5. PingHasSocket'
  <2>1. CASE Opened(s)
    <3>1. ws = s
      BY <2>1 DEF Opened, LiveSocketIsCurrent, Live
    <3> QED BY <1>1, <2>1, <3>1 DEF Opened, PingHasSocket
  <2>2. CASE Refused(s) \/ Dropped(s)
    BY <1>1, <2>2 DEF Refused, Dropped, PingHasSocket
  <2>3. CASE OnClose(s)
    BY <1>1, <2>3, SocketAssumption DEF OnClose, PingHasSocket
  <2> QED BY <2>1, <2>2, <2>3
<1> QED BY <1>1, <1>3, <1>4, <1>5 DEF NeverGivesUp, ChainsBounded, LeakNeedsEntry

(* A logout closes the live socket and lets its interval go; the chains    *)
(* stay as they are.                                                       *)
LEMMA LogoutStep ==
    ASSUME IInv, TypeOK', Logout
    PROVE IInv'
<1> USE DEF IInv, TypeOK, Socket
<1>1. /\ token' = NoUser /\ ws' = NoSocket /\ ~ping'
      /\ UNCHANGED <<entering, timers, pollers, entries>>
      /\ leaked' => leaked \/ ping
      /\ \A w \in Sockets :
            socks'[w] = IF w = ws /\ Live(w) THEN [socks[w] EXCEPT !.stage = "closing"]
                                             ELSE socks[w]
  BY DEF Logout, CloseCurrent, LetGo
<1>2. \A w \in Sockets : ~Live(w)'
  BY <1>1 DEF Live, LiveSocketIsCurrent
<1>3. Unclosed' = Unclosed
  BY <1>1 DEF Unclosed, Live
<1>4. Chains' = Chains
  BY <1>1, <1>3 DEF Chains
<1>5. ASSUME ping PROVE entries > 0
  <2>1. ws \in Unclosed
    BY <1>5 DEF PingHasSocket, Unclosed
  <2>2. Cardinality(Unclosed) \in Nat /\ Cardinality(Unclosed) > 0
    BY <2>1, UnclosedCounts
  <2> QED BY <2>2 DEF ChainsBounded, Chains
<1> QED BY <1>1, <1>2, <1>4, <1>5
       DEF LiveSocketIsCurrent, NeverGivesUp, ChainsBounded, PingHasSocket, LeakNeedsEntry

(* A new page has at most the call of enterApp that init makes. *)
LEMMA ReloadStep ==
    ASSUME IInv, TypeOK', Reload
    PROVE IInv'
<1>1. /\ UNCHANGED token /\ timers' = 0 /\ pollers' = 0 /\ ping' = FALSE /\ leaked' = FALSE
      /\ entering' = IF token = NoUser THEN 0 ELSE 1
      /\ entries' = entering'
      /\ socks' = [s \in Sockets |-> Closed]
  BY DEF Reload
<1>2. Unclosed' = {}
  BY <1>1 DEF Unclosed, Closed
<1>3. Cardinality(Unclosed') = 0
  BY <1>2, FS_EmptySet
<1>4. Chains' = entering'
  BY <1>1, <1>3 DEF Chains
<1> QED BY <1>1, <1>4
       DEF IInv, LiveSocketIsCurrent, NeverGivesUp, ChainsBounded, PingHasSocket,
           LeakNeedsEntry, Live, Closed

(* The other steps touch neither sockets nor token. *)
LEMMA QuietStep ==
    ASSUME IInv, TypeOK',
           TimerEnds \/ UNCHANGED vars \/ \E u \in Users : AskLogin(u) \/ LoginFails(u)
    PROVE IInv'
<1> USE DEF IInv
<1>1. /\ UNCHANGED <<token, entering, ws, socks, ping, leaked, pollers, entries>>
      /\ timers' = timers \/ (timers' = timers - 1 /\ token = NoUser)
      /\ entering \in Nat /\ entries \in Nat /\ timers \in Nat
  BY DEF TimerEnds, vars, pageVars, AskLogin, LoginFails, TypeOK
<1>2. Unclosed' = Unclosed /\ Cardinality(Unclosed) \in Nat
  BY <1>1, UnclosedCounts DEF Unclosed
<1>3. Chains' = Chains \/ (Chains' = Chains - 1 /\ token = NoUser)
  BY <1>1, <1>2 DEF Chains
<1>4. Chains \in Int
  BY <1>1, <1>2 DEF Chains
<1> QED BY <1>1, <1>3, <1>4
       DEF LiveSocketIsCurrent, NeverGivesUp, ChainsBounded, PingHasSocket, LeakNeedsEntry, Live

LEMMA InvInit == Init => IInv
<1> SUFFICES ASSUME Init PROVE IInv
  OBVIOUS
<1>1. Unclosed = {} /\ Cardinality(Unclosed) = 0
  BY FS_EmptySet DEF Init, Unclosed, Closed
<1>2. TypeOK
  <2>1. socks \in [Sockets -> Socket]
    BY DEF Init, Socket, Closed
  <2>2. bounds \in [{"logins", "drops", "reloads"} -> Nat]
    BY DEF Init
  <2> QED BY <2>1, <2>2 DEF Init, TypeOK
<1> QED BY <1>1, <1>2
       DEF Init, IInv, LiveSocketIsCurrent, NeverGivesUp, ChainsBounded, Chains,
           PingHasSocket, LeakNeedsEntry, Live, Closed

LEMMA InvStep == IInv /\ [Next]_vars => IInv'
<1> SUFFICES ASSUME IInv, [Next]_vars PROVE IInv'
  OBVIOUS
<1>1. TypeOK'
  BY TypeStep DEF IInv
<1>2. ASSUME NEW u \in Users, LoginOk(u) PROVE IInv'
  BY <1>1, <1>2, LoginStep
<1>3. CASE \/ TimerEnds \/ UNCHANGED vars
           \/ \E u \in Users : AskLogin(u) \/ LoginFails(u)
  BY <1>1, <1>3, QuietStep
<1>4. CASE Logout
  BY <1>1, <1>4, LogoutStep
<1>5. CASE Reload
  BY <1>1, <1>5, ReloadStep
<1>6. ASSUME NEW s \in Sockets, Enter(s) \/ Reconnect(s) PROVE IInv'
  BY <1>1, <1>6, ConnectStep
<1>7. ASSUME NEW s \in Sockets, Opened(s) \/ Refused(s) \/ Dropped(s) \/ OnClose(s)
      PROVE IInv'
  BY <1>1, <1>7, SocketStep
<1> QED BY <1>2, <1>3, <1>4, <1>5, <1>6, <1>7 DEF Next

-----------------------------------------------------------------------------
(* The types of the page's variables. *)
THEOREM SocketTypes == Spec => []TypeOK
<1>1. IInv => TypeOK
  BY DEF IInv
<1> QED BY <1>1, InvInit, InvStep, PTL DEF Spec

(* At most one socket is live, the one in ws, and it is the current user's *)
(* or about to be replaced.                                                *)
THEOREM OneLiveSocket == Spec => []LiveSocketIsCurrent
<1>1. IInv => LiveSocketIsCurrent
  BY DEF IInv
<1> QED BY <1>1, InvInit, InvStep, PTL DEF Spec

(* A page with a token has a socket, a timer or a call that makes one. *)
THEOREM SomethingGoesOn == Spec => []NeverGivesUp
<1>1. IInv => NeverGivesUp
  BY DEF IInv
<1> QED BY <1>1, InvInit, InvStep, PTL DEF Spec

(* Chains and pollers never outnumber the logins of the page. *)
THEOREM ChainsAreBounded == Spec => []ChainsBounded
<1>1. IInv => ChainsBounded
  BY DEF IInv
<1> QED BY <1>1, InvInit, InvStep, PTL DEF Spec

-----------------------------------------------------------------------------
(* The user u has logged in once since the page was loaded, and his socket *)
(* is open and tells the server that it is alive.                          *)
Settled(u) == token = u /\ entries = 1 /\ Connected(u) /\ ping

(* It stays so, except when the user logs out or in, reloads the page, or  *)
(* the network or the server drops the socket.                             *)
StaysSettled ==
    \A u \in Users :
        Settled(u) => \/ Settled(u)'
                      \/ token' # u
                      \/ entries' > 1
                      \/ bounds'.drops > bounds.drops
                      \/ bounds'.reloads > bounds.reloads

(* The one chain of the one login is the open socket: no timer runs, no    *)
(* call of enterApp waits, and no other socket has its close to tell.      *)
LEMMA NothingElseRuns ==
    ASSUME IInv, NEW u \in Users, Settled(u)
    PROVE entering = 0 /\ timers = 0 /\ Unclosed = {ws}
<1>1. /\ ws \in Unclosed /\ ws \in Sockets
      /\ entering \in Nat /\ timers \in Nat /\ entering + timers + Cardinality(Unclosed) <= 1
  BY DEF Settled, Connected, Unclosed, IInv, TypeOK, ChainsBounded, Chains
<1>2. Cardinality(Unclosed) \in Nat /\ Cardinality(Unclosed) # 0 /\ IsFiniteSet(Unclosed)
  BY <1>1, UnclosedCounts
<1>3. entering = 0 /\ timers = 0
  BY <1>1, <1>2
<1>4. ASSUME NEW s \in Unclosed, s # ws PROVE FALSE
  <2>1. /\ Cardinality(Unclosed \ {ws}) = Cardinality(Unclosed) - 1
        /\ IsFiniteSet(Unclosed \ {ws})
    BY <1>1, <1>2, FS_RemoveElement
  <2>2. Cardinality(Unclosed \ {ws}) = 0
    BY <1>1, <1>2, <2>1
  <2> QED BY <1>4, <2>1, <2>2, FS_EmptySet
<1> QED BY <1>1, <1>3, <1>4

LEMMA SettledStep == IInv /\ [Next]_vars => StaysSettled
<1> SUFFICES ASSUME IInv, [Next]_vars, NEW u \in Users, Settled(u)
             PROVE \/ Settled(u)' \/ token' # u \/ entries' > 1
                   \/ bounds'.drops > bounds.drops \/ bounds'.reloads > bounds.reloads
  BY DEF StaysSettled
<1>1. /\ entering = 0 /\ timers = 0 /\ Unclosed = {ws}
      /\ token = u /\ entries = 1 /\ ping /\ u # NoUser
      /\ ws \in Sockets /\ socks[ws] = [stage |-> "open", user |-> u]
  BY NothingElseRuns, SocketAssumption DEF Settled, Connected, Unclosed
<1>2. /\ bounds \in [{"logins", "drops", "reloads"} -> Nat]
  BY DEF IInv, TypeOK
<1>3. ASSUME UNCHANGED <<token, ws, socks, ping, entries>> PROVE Settled(u)'
  BY <1>1, <1>3 DEF Settled, Connected
<1>4. ASSUME NEW v \in Users, AskLogin(v) \/ LoginFails(v) PROVE Settled(u)'
  BY <1>3, <1>4 DEF AskLogin, LoginFails
<1>5. ASSUME NEW v \in Users, LoginOk(v) PROVE entries' > 1
  BY <1>1, <1>5 DEF LoginOk
<1>6. CASE Logout
  BY <1>1, <1>6 DEF Logout
<1>7. CASE Reload
  BY <1>2, <1>7 DEF Reload, Bounded
<1>8. ASSUME NEW s \in Sockets, Dropped(s) PROVE bounds'.drops > bounds.drops
  BY <1>2, <1>8 DEF Dropped, Bounded
<1>9. CASE TimerEnds
  BY <1>1, <1>9 DEF TimerEnds
<1>10. ASSUME NEW s \in Sockets,
              Enter(s) \/ Reconnect(s) \/ Opened(s) \/ Refused(s) \/ OnClose(s)
       PROVE FALSE
  <2>1. socks[s].stage # "closed" => s = ws
    BY <1>1 DEF Unclosed
  <2>2. ~Enter(s) /\ ~Reconnect(s)
    BY <1>1 DEF Enter, Reconnect
  <2>3. socks[ws].stage = "open"
    BY <1>1
  <2>4. ~Opened(s) /\ ~Refused(s) /\ ~OnClose(s)
    BY <2>1, <2>3 DEF Opened, Refused, OnClose
  <2> QED BY <1>10, <2>2, <2>4
<1>11. CASE UNCHANGED vars
  BY <1>3, <1>11 DEF vars, pageVars
<1> QED BY <1>4, <1>5, <1>6, <1>7, <1>8, <1>9, <1>10, <1>11 DEF Next

(* No timer, late answer or close of another socket disturbs the socket of *)
(* a user who has logged in once (app.js:121-179): what SettlesDown says   *)
(* of the steps after the socket has opened.                               *)
THEOREM SettledUsersStay == Spec => [][StaysSettled]_vars
<1>1. IInv /\ [Next]_vars => [StaysSettled]_vars
  BY SettledStep
<1> QED BY <1>1, InvInit, InvStep, PTL DEF Spec
=============================================================================
