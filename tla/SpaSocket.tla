----------------------------- MODULE SpaSocket -----------------------------
(***************************************************************************)
(* The session of the browser client (frontend/static/app.js): the token,  *)
(* the WebSocket in the global `ws`, and what reconnects it.  Logins, the  *)
(* await in enterApp, events of sockets and timers of 3 seconds all run in *)
(* one page and meet in the globals `token` and `ws`; a page is reloaded   *)
(* with the token of localStorage.                                         *)
(***************************************************************************)
EXTENDS Integers, FiniteSets

CONSTANTS
    Users,          \* who may log in on this page
    NoUser,         \* token = null
    Sockets,        \* WebSocket objects; one that is closed and dropped is used again
    NoSocket,       \* ws = null
    MaxLogins,      \* bound: submissions of the login or the register form
    MaxDrops,       \* bound: sockets that the network or the server closes
    MaxReloads      \* bound: reloads of the page

ASSUME SocketAssumption ==
    /\ NoUser \notin Users
    /\ NoSocket \notin Sockets
    /\ IsFiniteSet(Sockets)
    /\ {MaxLogins, MaxDrops, MaxReloads} \subseteq Nat

VARIABLES
    token,          \* whose token it is; localStorage holds the same
    asked,          \* logins that are not answered yet, per user
    entering,       \* calls of enterApp that await /api/auth/me
    ws,             \* the global ws
    socks,          \* every WebSocket object
    timers,         \* reconnect timers that are running
    ping,           \* ws._pingInterval is running
    leaked,         \* an interval is running that no onclose can clear
    pollers,        \* intervals of startPresencePolling
    entries,        \* history: calls of enterApp since the page was loaded
    bounds          \* how often the bounded actions have happened

pageVars == <<token, asked, entering, ws, socks, timers, ping, leaked, pollers, entries>>
vars == <<pageVars, bounds>>

Socket == [stage : {"closed", "connecting", "open", "closing"}, user : Users \cup {NoUser}]

Closed == [stage |-> "closed", user |-> NoUser]

Init ==
    /\ token = NoUser
    /\ asked = [u \in Users |-> 0]
    /\ entering = 0
    /\ ws = NoSocket
    /\ socks = [s \in Sockets |-> Closed]
    /\ timers = 0
    /\ ping = FALSE
    /\ leaked = FALSE
    /\ pollers = 0
    /\ entries = 0
    /\ bounds = [logins |-> 0, drops |-> 0, reloads |-> 0]

Bounded(what, max) ==
    /\ bounds[what] < max
    /\ bounds' = [bounds EXCEPT ![what] = @ + 1]

Live(s) == socks[s].stage \in {"connecting", "open"}

(* ws.close(): a socket that is closing or closed stays so. *)
CloseCurrent ==
    [s \in Sockets |-> IF s = ws /\ Live(s) THEN [socks[s] EXCEPT !.stage = "closing"]
                                            ELSE socks[s]]

(* The socket in ws is given up, and with it the only reference to its     *)
(* interval.                                                               *)
LetGo == ping' = FALSE /\ leaked' = (leaked \/ ping)

(* Mutant: the old socket is not closed. *)
ConnectBeside(s) ==
    /\ s # ws /\ socks[s].stage = "closed"
    /\ socks' = [socks EXCEPT ![s] = [stage |-> "connecting", user |-> token]]
    /\ ws' = s
    /\ LetGo

(* connectWebSocket: the URL carries whatever token is there now. *)
ConnectWebSocket(s) ==
    /\ s # ws /\ socks[s].stage = "closed"
    /\ socks' = [CloseCurrent EXCEPT ![s] = [stage |-> "connecting", user |-> token]]
    /\ ws' = s
    /\ LetGo

-----------------------------------------------------------------------------
(* The form is submitted; it can be submitted again before the answer. *)
AskLogin(u) ==
    /\ token = NoUser
    /\ Bounded("logins", MaxLogins)
    /\ asked' = [asked EXCEPT ![u] = @ + 1]
    /\ UNCHANGED <<token, entering, ws, socks, timers, ping, leaked, pollers, entries>>

(* Mutant: the page is entered twice. *)
LoginEntersTwice(u) ==
    /\ asked[u] > 0
    /\ asked' = [asked EXCEPT ![u] = @ - 1]
    /\ token' = u
    /\ entering' = entering + 2
    /\ entries' = entries + 1
    /\ UNCHANGED <<ws, socks, timers, ping, leaked, pollers, bounds>>

(* saveAuth, and enterApp as far as its await. *)
LoginOk(u) ==
    /\ asked[u] > 0
    /\ asked' = [asked EXCEPT ![u] = @ - 1]
    /\ token' = u
    /\ entering' = entering + 1
    /\ entries' = entries + 1
    /\ UNCHANGED <<ws, socks, timers, ping, leaked, pollers, bounds>>

LoginFails(u) ==
    /\ asked[u] > 0
    /\ asked' = [asked EXCEPT ![u] = @ - 1]
    /\ UNCHANGED <<token, entering, ws, socks, timers, ping, leaked, pollers, entries, bounds>>

(* Mutant: connected only if there is no socket. *)
EnterKeepsSocket(s) ==
    /\ entering > 0
    /\ entering' = entering - 1
    /\ IF ws # NoSocket THEN UNCHANGED <<ws, socks, ping, leaked>> ELSE ConnectWebSocket(s)
    /\ pollers' = pollers + 1
    /\ UNCHANGED <<token, asked, timers, entries, bounds>>

(* The answer of /api/auth/me, or its failure, which is ignored: enterApp  *)
(* goes on although the user may have logged out, or logged in again.      *)
Enter(s) ==
    /\ entering > 0
    /\ entering' = entering - 1
    /\ ConnectWebSocket(s)
    /\ pollers' = pollers + 1
    /\ UNCHANGED <<token, asked, timers, entries, bounds>>

Logout ==
    /\ token # NoUser
    /\ token' = NoUser
    /\ socks' = CloseCurrent
    /\ ws' = NoSocket
    /\ LetGo
    /\ UNCHANGED <<asked, entering, timers, pollers, entries, bounds>>

(* The page is loaded anew and init enters the app if a token was saved. *)
Reload ==
    LET entered == IF token = NoUser THEN 0 ELSE 1 IN
    /\ Bounded("reloads", MaxReloads)
    /\ asked' = [u \in Users |-> 0]
    /\ entering' = entered /\ entries' = entered
    /\ ws' = NoSocket
    /\ socks' = [s \in Sockets |-> Closed]
    /\ timers' = 0 /\ pollers' = 0
    /\ ping' = FALSE /\ leaked' = FALSE
    /\ UNCHANGED token

-----------------------------------------------------------------------------
(* onopen: the interval is kept in the global ws, whatever socket that is. *)
Opened(s) ==
    /\ socks[s].stage = "connecting"
    /\ socks[s].user # NoUser
    /\ socks' = [socks EXCEPT ![s].stage = "open"]
    /\ ping' = TRUE
    /\ UNCHANGED <<token, asked, entering, ws, timers, leaked, pollers, entries, bounds>>

(* The server refuses a socket without a valid token (main.py:70-76). *)
Refused(s) ==
    /\ socks[s].stage = "connecting"
    /\ socks[s].user = NoUser
    /\ socks' = [socks EXCEPT ![s].stage = "closing"]
    /\ UNCHANGED <<token, asked, entering, ws, timers, ping, leaked, pollers, entries, bounds>>

(* The network or the server ends a socket, or it cannot connect. *)
Dropped(s) ==
    /\ Live(s)
    /\ Bounded("drops", MaxDrops)
    /\ socks' = [socks EXCEPT ![s].stage = "closing"]
    /\ UNCHANGED <<token, asked, entering, ws, timers, ping, leaked, pollers, entries>>

(* Mutant: only a socket that was replaced sets a timer. *)
OnCloseGivesUp(s) ==
    /\ socks[s].stage = "closing"
    /\ socks' = [socks EXCEPT ![s].stage = "closed"]
    /\ ping' = (ping /\ ws = NoSocket)
    /\ timers' = IF ws = s THEN timers ELSE timers + 1
    /\ UNCHANGED <<token, asked, entering, ws, leaked, pollers, entries, bounds>>

(* onclose: the interval of the global ws is cleared, and a timer set, also *)
(* when another socket has taken the place of this one.                    *)
OnClose(s) ==
    /\ socks[s].stage = "closing"
    /\ socks' = [socks EXCEPT ![s].stage = "closed"]
    /\ ping' = (ping /\ ws = NoSocket)
    /\ timers' = timers + 1
    /\ UNCHANGED <<token, asked, entering, ws, leaked, pollers, entries, bounds>>

Reconnect(s) ==
    /\ timers > 0
    /\ timers' = timers - 1
    /\ token # NoUser
    /\ ConnectWebSocket(s)
    /\ UNCHANGED <<token, asked, entering, pollers, entries, bounds>>

(* The timer finds no token. *)
TimerEnds ==
    /\ timers > 0
    /\ timers' = timers - 1
    /\ token = NoUser
    /\ UNCHANGED <<token, asked, entering, ws, socks, ping, leaked, pollers, entries, bounds>>

Next ==
    \/ \E u \in Users : AskLogin(u) \/ LoginOk(u) \/ LoginFails(u)
    \/ Logout \/ Reload \/ TimerEnds
    \/ \E s \in Sockets :
          \/ Enter(s) \/ Reconnect(s)
          \/ Opened(s) \/ Refused(s) \/ Dropped(s) \/ OnClose(s)

Spec == Init /\ [][Next]_vars

(* The browser answers a fetch or fails it, closes what was closed and     *)
(* runs its timers.  A connection that is tried again and again opens in   *)
(* the end: a handshake is shorter than the 3 seconds of a timer, so the   *)
(* timers of other sockets do not always come first.                       *)
Fairness ==
    /\ WF_vars(\E s \in Sockets : Enter(s))
    /\ WF_vars(\E s \in Sockets : Reconnect(s))
    /\ WF_vars(TimerEnds)
    /\ \A s \in Sockets : WF_vars(Refused(s)) /\ WF_vars(OnClose(s))
    /\ SF_vars(\E s \in Sockets : Opened(s))

FairSpec == Spec /\ Fairness

-----------------------------------------------------------------------------
(* What may still become a connection: a call of enterApp, a socket that   *)
(* has not told its close, a timer.                                        *)
Unclosed == {s \in Sockets : socks[s].stage # "closed"}

Chains == entering + timers + Cardinality(Unclosed)

TypeOK ==
    /\ token \in Users \cup {NoUser}
    /\ asked \in [Users -> Nat]
    /\ ws \in Sockets \cup {NoSocket}
    /\ socks \in [Sockets -> Socket]
    /\ {entering, timers, pollers, entries} \subseteq Nat
    /\ ping \in BOOLEAN /\ leaked \in BOOLEAN
    /\ bounds \in [{"logins", "drops", "reloads"} -> Nat]

(* However logins, logouts and timers interleave, at most one socket is    *)
(* connected or connecting, it is the one in ws, and it is the current     *)
(* user's, unless a call of enterApp that will replace it is under way     *)
(* (app.js:125, 144, 151).                                                 *)
LiveSocketIsCurrent ==
    \A s \in Sockets :
        Live(s) => s = ws /\ (socks[s].user = token \/ entering > 0)

(* A page that is logged in never stops trying: there is a socket, a timer *)
(* or a call of enterApp that will make one (app.js:174-179).              *)
NeverGivesUp == token # NoUser => Chains > 0

(* Whatever is closed, dropped and tried again, each login adds at most    *)
(* one chain of sockets and timers, and one poller; and while one login is *)
(* all there was, the interval of the socket is the only one.              *)
ChainsBounded ==
    /\ Chains <= entries
    /\ pollers + entering <= entries
    /\ leaked => entries > 1 \/ token = NoUser

(* A user who stays logged in has an open socket again and again. *)
Connected(u) == \E s \in Sockets : s = ws /\ socks[s] = [stage |-> "open", user |-> u]

ConnectedInTheEnd == \A u \in Users : token = u ~> Connected(u) \/ token # u

(* If he logged in once since the page was loaded, the socket stays: it is *)
(* only a second login whose chain closes the socket of the first, and is  *)
(* closed by it, for ever.                                                 *)
SettlesDown ==
    \A u \in Users :
        <>[](token = u /\ entries = 1) => <>[](Connected(u) /\ ping)
=============================================================================
