------------------------------ MODULE SpaChat ------------------------------
(***************************************************************************)
(* The list of matches and the chat panel of the browser client            *)
(* (frontend/static/app.js), over the routes of api/routers/matches.py     *)
(* that they read.  Calls of loadMatches and openChat await their answers, *)
(* while messages arrive on the socket and are written by the user: all of *)
(* them append to one panel, and replace one list.                         *)
(***************************************************************************)
EXTENDS Integers

CONSTANTS
    Matches,        \* ids of the user's rows of `matches`
    NoMatch,        \* currentMatchId = null
    Messages,
    Own,            \* the messages that the user writes, the others are his partners'
    MatchOf,        \* the match of each message
    MaxPushes,      \* how often a message can be pushed to a socket (Chat: OncePerWay)
    MaxOpens,       \* bound: calls of openChat
    MaxLists        \* bound: calls of loadMatches

ASSUME PanelAssumption ==
    /\ NoMatch \notin Matches
    /\ Own \subseteq Messages
    /\ MatchOf \in [Messages -> Matches]
    /\ {MaxPushes, MaxOpens, MaxLists} \subseteq Nat

(* Calls are numbered as they begin. *)
Openings == 1 .. MaxOpens
Lists == 1 .. MaxLists

VARIABLES
    current,        \* currentMatchId
    bubbles,        \* how many bubbles of each message the panel shows
    opens,          \* the calls of openChat
    lists,          \* the calls of loadMatches
    listed,         \* the matches in the list
    matched,        \* the rows of `matches`
    stored,         \* the rows of `messages`
    pushes,         \* messages on their way to the page's socket
    sending,        \* the user's messages whose POST is not answered
    failed,         \* history: those whose POST failed
    heard,          \* history: messages that arrived on the socket
    known,          \* history: the rows when loadMatches was called last
    late            \* history: openings answered after another one had begun, and
                    \* lists answered after a later one was

tables == <<matched, stored>>
panel == <<current, bubbles, opens>>
list == <<lists, listed, known>>
traffic == <<pushes, sending, failed, heard>>
vars == <<panel, list, tables, traffic, late>>

Call(Reply) ==
    [stage : {"unused", "asked", "answered", "done", "failed"},
     match : Matches \cup {NoMatch}, reply : SUBSET Reply]

Unused == [stage |-> "unused", match |-> NoMatch, reply |-> {}]

Init ==
    /\ current = NoMatch
    /\ bubbles = [x \in Messages |-> 0]
    /\ opens = [k \in Openings |-> Unused] /\ lists = [k \in Lists |-> Unused]
    /\ listed = {} /\ known = {} /\ matched = {} /\ stored = {}
    /\ pushes = [x \in Messages |-> 0]
    /\ sending = {} /\ failed = {} /\ heard = {}
    /\ late = [opens |-> {}, lists |-> {}]

IsNext(k, calls) ==
    calls[k].stage = "unused" /\ \A j \in 1 .. k - 1 : calls[j].stage # "unused"

(* The call is the last one that was made. *)
IsLast(k, calls) ==
    /\ calls[k].stage # "unused"
    /\ \A j \in DOMAIN calls : j > k => calls[j].stage = "unused"

Answers(calls, k, rows) ==
    [calls EXCEPT ![k].stage = "answered", ![k].reply = rows]

Plus(xs) == [x \in Messages |-> bubbles[x] + (IF x \in xs THEN 1 ELSE 0)]

-----------------------------------------------------------------------------
(* The match processor stores a match of the user. *)
Match(m) ==
    /\ matched' = matched \cup {m}
    /\ UNCHANGED <<panel, list, stored, traffic, late>>

(* loadMatches, from the navigation or when the popup is closed. *)
LoadMatches(k) ==
    /\ IsNext(k, lists)
    /\ lists' = [lists EXCEPT ![k].stage = "asked"]
    /\ known' = matched
    /\ UNCHANGED <<panel, listed, tables, traffic, late>>

(* GET /api/matches: one statement. *)
ServeMatches(k) ==
    /\ lists[k].stage = "asked"
    /\ lists' = Answers(lists, k, matched)
    /\ UNCHANGED <<panel, listed, known, tables, traffic, late>>

(* A later call was answered before this one. *)
Overtaken(k) == \E j \in Lists : j > k /\ lists[j].stage = "done"

(* Mutant: a list that is there is not replaced. *)
RenderOnce(k) ==
    /\ lists[k].stage = "answered"
    /\ lists' = [lists EXCEPT ![k].stage = "done"]
    /\ listed' = IF listed = {} THEN lists[k].reply ELSE listed
    /\ late' = IF Overtaken(k) THEN [late EXCEPT !.lists = @ \cup {k}] ELSE late
    /\ UNCHANGED <<panel, known, tables, traffic>>

(* renderMatches: the answer replaces the list, whichever call it is of. *)
RenderMatches(k) ==
    /\ lists[k].stage = "answered"
    /\ lists' = [lists EXCEPT ![k].stage = "done"]
    /\ listed' = lists[k].reply
    /\ late' = IF Overtaken(k) THEN [late EXCEPT !.lists = @ \cup {k}] ELSE late
    /\ UNCHANGED <<panel, known, tables, traffic>>

LoadFails(k) ==
    /\ lists[k].stage = "asked"
    /\ lists' = [lists EXCEPT ![k].stage = "failed"]
    /\ UNCHANGED <<panel, listed, known, tables, traffic, late>>

-----------------------------------------------------------------------------
(* Mutant: the chat becomes the current one when its history is there. *)
OpenLater(k, m) ==
    /\ IsNext(k, opens)
    /\ m \in listed
    /\ bubbles' = [x \in Messages |-> 0]
    /\ current' = IF current = NoMatch THEN m ELSE current
    /\ opens' = [opens EXCEPT ![k].stage = "asked", ![k].match = m]
    /\ UNCHANGED <<list, tables, traffic, late>>

(* openChat, as far as its await: a click on a match of the list. *)
OpenChat(k, m) ==
    /\ IsNext(k, opens)
    /\ m \in listed
    /\ current' = m
    /\ bubbles' = [x \in Messages |-> 0]
    /\ opens' = [opens EXCEPT ![k].stage = "asked", ![k].match = m]
    /\ UNCHANGED <<list, tables, traffic, late>>

(* GET /api/matches/{id}/messages. *)
ServeMessages(k) ==
    /\ opens[k].stage = "asked"
    /\ opens' = Answers(opens, k, {x \in stored : MatchOf[x] = opens[k].match})
    /\ UNCHANGED <<current, bubbles, list, tables, traffic, late>>

(* The history is appended to whatever the panel shows by now. *)
ShowHistory(k) ==
    /\ opens[k].stage = "answered"
    /\ opens' = [opens EXCEPT ![k].stage = "done"]
    /\ bubbles' = Plus(opens[k].reply)
    /\ late' = IF IsLast(k, opens) THEN late ELSE [late EXCEPT !.opens = @ \cup {k}]
    /\ UNCHANGED <<current, list, tables, traffic>>

OpenFails(k) ==
    /\ opens[k].stage = "asked"
    /\ opens' = [opens EXCEPT ![k].stage = "failed"]
    /\ UNCHANGED <<current, bubbles, list, tables, traffic, late>>

-----------------------------------------------------------------------------
(* A partner writes: the message is stored, then pushed to the socket, or  *)
(* not when there is none.                                                 *)
Written(x) ==
    /\ x \notin stored \cup Own
    /\ MatchOf[x] \in matched
    /\ stored' = stored \cup {x}
    /\ \E n \in 0 .. MaxPushes : pushes' = [pushes EXCEPT ![x] = n]
    /\ UNCHANGED <<panel, list, matched, sending, failed, heard, late>>

(* Mutant: a message is shown whatever chat is open. *)
ArrivesAnywhere(x) ==
    /\ pushes[x] > 0
    /\ pushes' = [pushes EXCEPT ![x] = @ - 1]
    /\ heard' = heard \cup {x}
    /\ bubbles' = Plus({x})
    /\ UNCHANGED <<current, opens, list, tables, sending, failed, late>>

(* handleIncomingMessage. *)
Arrives(x) ==
    /\ pushes[x] > 0
    /\ pushes' = [pushes EXCEPT ![x] = @ - 1]
    /\ heard' = heard \cup {x}
    /\ bubbles' = IF MatchOf[x] = current THEN Plus({x}) ELSE bubbles
    /\ UNCHANGED <<current, opens, list, tables, sending, failed, late>>

(* The socket is gone before the push gets there. *)
PushLost(x) ==
    /\ pushes[x] > 0
    /\ pushes' = [pushes EXCEPT ![x] = @ - 1]
    /\ UNCHANGED <<panel, list, tables, sending, failed, heard, late>>

(* sendMessage, as far as its await: the bubble is shown at once. *)
SendMessage(x) ==
    /\ x \in Own \ (sending \cup stored \cup failed)
    /\ MatchOf[x] = current
    /\ sending' = sending \cup {x}
    /\ bubbles' = Plus({x})
    /\ UNCHANGED <<current, opens, list, tables, pushes, failed, heard, late>>

(* The POST commits the message (Chat: CommitMessage). *)
Commits(x) ==
    /\ x \in sending
    /\ stored' = stored \cup {x}
    /\ sending' = sending \ {x}
    /\ UNCHANGED <<panel, list, matched, pushes, failed, heard, late>>

(* The POST fails: nothing but the log tells the user. *)
SendFails(x) ==
    /\ x \in sending
    /\ sending' = sending \ {x}
    /\ failed' = failed \cup {x}
    /\ UNCHANGED <<panel, list, tables, pushes, heard, late>>

Next ==
    \/ \E m \in Matches : Match(m)
    \/ \E k \in Lists :
          LoadMatches(k) \/ ServeMatches(k) \/ RenderMatches(k) \/ LoadFails(k)
    \/ \E k \in Openings :
          \/ ServeMessages(k) \/ ShowHistory(k) \/ OpenFails(k)
          \/ \E m \in Matches : OpenChat(k, m)
    \/ \E x \in Messages :
          \/ Written(x) \/ Arrives(x) \/ PushLost(x)
          \/ SendMessage(x) \/ Commits(x) \/ SendFails(x)

Spec == Init /\ [][Next]_vars

TypeOK ==
    /\ current \in Matches \cup {NoMatch}
    /\ bubbles \in [Messages -> Nat]
    /\ opens \in [Openings -> Call(Messages)] /\ lists \in [Lists -> Call(Matches)]
    /\ listed \cup known \subseteq matched /\ matched \subseteq Matches
    /\ stored \cup heard \subseteq Messages /\ sending \cup failed \subseteq Own
    /\ pushes \in [Messages -> 0 .. MaxPushes]
    /\ late \in [opens : SUBSET Openings, lists : SUBSET Lists]

-----------------------------------------------------------------------------
(* Once the history of the chat that was opened last is there, every       *)
(* message of that chat that is in it, or that the socket has ever brought *)
(* - before the click, while the history was awaited, or since - is shown: *)
(* none falls between history and pushes (app.js:390 before 397, 399).     *)
NothingMissing ==
    \A k \in Openings : \A x \in heard \cup opens[k].reply :
        /\ IsLast(k, opens) /\ opens[k].stage = "done"
        /\ MatchOf[x] = current
        => bubbles[x] > 0

(* A bubble is a stored message of the open chat, but for two cases: a     *)
(* message of the user whose POST is under way or failed, and the history  *)
(* of a chat that was left before it came (app.js:399, 419).               *)
BubblesBelong ==
    \A x \in Messages :
        bubbles[x] > 0 =>
          /\ x \in stored \cup sending \cup failed
          /\ MatchOf[x] = current \/ \E k \in late.opens : x \in opens[k].reply

(* The list shows every match there was when it was asked for, once the    *)
(* last answer is there, unless an older answer came later (app.js:360).   *)
ListIsFresh ==
    \A k \in Lists :
        IsLast(k, lists) /\ lists[k].stage = "done" /\ late.lists = {}
          => known \subseteq listed
=============================================================================
