---------------------------- MODULE SpaChatProofs ----------------------------
(***************************************************************************)
(* Theorems about the list of matches and the chat panel, for any matches, *)
(* messages, pushes and numbers of calls.                                  *)
(***************************************************************************)
EXTENDS SpaChat, TLAPS

-----------------------------------------------------------------------------
(* What a call does to the record of it. *)
LEMMA CallMoves ==
    ASSUME NEW Reply, NEW Calls, NEW calls \in [Calls -> Call(Reply)], NEW k \in Calls,
           NEW stage \in {"unused", "asked", "answered", "done", "failed"},
           NEW new, new = [calls EXCEPT ![k].stage = stage]
    PROVE  /\ new \in [Calls -> Call(Reply)]
           /\ new[k].stage = stage
           /\ new[k].match = calls[k].match /\ new[k].reply = calls[k].reply
           /\ \A j \in Calls \ {k} : new[j] = calls[j]
BY DEF Call

LEMMA AnswerMoves ==
    ASSUME NEW Reply, NEW Calls, NEW calls \in [Calls -> Call(Reply)], NEW k \in Calls,
           NEW rows \in SUBSET Reply
    PROVE  /\ Answers(calls, k, rows) \in [Calls -> Call(Reply)]
           /\ Answers(calls, k, rows)[k].stage = "answered"
           /\ Answers(calls, k, rows)[k].match = calls[k].match
           /\ Answers(calls, k, rows)[k].reply = rows
           /\ \A j \in Calls \ {k} : Answers(calls, k, rows)[j] = calls[j]
<1> DEFINE f == [calls EXCEPT ![k].stage = "answered"]
<1>1. /\ f \in [Calls -> Call(Reply)] /\ f[k].stage = "answered" /\ f[k].match = calls[k].match
      /\ \A j \in Calls \ {k} : f[j] = calls[j]
  BY DEF Call
<1>2. ASSUME NEW g \in [Calls -> Call(Reply)]
      PROVE  /\ [g EXCEPT ![k].reply = rows] \in [Calls -> Call(Reply)]
             /\ [g EXCEPT ![k].reply = rows][k].stage = g[k].stage
             /\ [g EXCEPT ![k].reply = rows][k].match = g[k].match
             /\ [g EXCEPT ![k].reply = rows][k].reply = rows
             /\ \A j \in Calls \ {k} : [g EXCEPT ![k].reply = rows][j] = g[j]
  BY DEF Call
<1>3. Answers(calls, k, rows) = [f EXCEPT ![k].reply = rows]
  BY DEF Answers
<1> HIDE DEF f
<1> QED BY <1>1, <1>2, <1>3

LEMMA OpenMoves ==
    ASSUME TypeOK, NEW k \in Openings, NEW m \in Matches, OpenChat(k, m)
    PROVE  /\ opens' \in [Openings -> Call(Messages)]
           /\ opens'[k].stage = "asked" /\ opens'[k].match = m
           /\ opens'[k].reply = opens[k].reply
           /\ \A j \in Openings \ {k} : opens'[j] = opens[j]
           /\ current' = m /\ \A x \in Messages : bubbles'[x] = 0
BY DEF TypeOK, OpenChat, Call

LEMMA Shows ==
    ASSUME bubbles \in [Messages -> Nat], NEW xs
    PROVE  /\ Plus(xs) \in [Messages -> Nat]
           /\ \A x \in Messages : Plus(xs)[x] > 0 <=> bubbles[x] > 0 \/ x \in xs
BY DEF Plus

-----------------------------------------------------------------------------
(* Calls are made in order, and their answers are rows. *)
InOrder(calls) ==
    \A k \in DOMAIN calls :
        /\ calls[k].stage = "unused" => calls[k].reply = {}
        /\ calls[k].stage # "unused" =>
              \A j \in DOMAIN calls : j < k => calls[j].stage # "unused"

RepliesInv ==
    /\ InOrder(opens) /\ InOrder(lists)
    /\ \A k \in Openings :
          /\ opens[k].stage # "unused" => opens[k].match \in Matches
          /\ \A x \in opens[k].reply : x \in stored /\ MatchOf[x] = opens[k].match
          /\ k \in late.opens => opens[k].stage = "done"
    /\ \A k \in Lists : lists[k].reply \subseteq matched
    /\ \A x \in Messages : x \in heard \/ pushes[x] > 0 => x \in stored

(* The chat that was opened last is the current one, and what has been     *)
(* pushed is shown or comes with the history.                              *)
Shown(x) == MatchOf[x] = current => bubbles[x] > 0

OpenedLast ==
    \A k \in Openings :
        IsLast(k, opens) =>
            /\ opens[k].match = current
            /\ opens[k].stage = "answered" => \A x \in heard : Shown(x) \/ x \in opens[k].reply
            /\ opens[k].stage = "done" => \A x \in heard \cup opens[k].reply : Shown(x)

PanelInv == OpenedLast /\ BubblesBelong

(* Which call is the last one depends on which are used, and a new call is *)
(* the last one.                                                           *)
LEMMA SameLast ==
    ASSUME NEW old, NEW new, DOMAIN new = DOMAIN old,
           \A j \in DOMAIN old : new[j].stage = "unused" <=> old[j].stage = "unused",
           NEW k \in DOMAIN old, IsLast(k, new)
    PROVE  IsLast(k, old)
BY DEF IsLast

LEMMA NewestIsLast ==
    ASSUME NEW n \in Nat, NEW Calls, Calls = 1 .. n, NEW old, NEW new,
           DOMAIN old = Calls, DOMAIN new = Calls,
           NEW k \in Calls, IsNext(k, old), new[k].stage # "unused", InOrder(old),
           \A j \in Calls \ {k} : new[j] = old[j],
           NEW j \in Calls, IsLast(j, new)
    PROVE  j = k
<1>1. ASSUME j > k PROVE FALSE
  <2>1. old[j].stage # "unused"
    BY <1>1 DEF IsLast
  <2>2. old[k].stage # "unused"
    BY <1>1, <2>1 DEF InOrder
  <2> QED BY <2>2 DEF IsNext
<1>2. ASSUME j < k PROVE FALSE
  BY <1>2 DEF IsLast
<1> QED BY <1>1, <1>2

LEMMA StaysInOrder ==
    ASSUME NEW n \in Nat, NEW Calls, Calls = 1 .. n, NEW old, NEW new,
           DOMAIN old = Calls, DOMAIN new = Calls,
           NEW k \in Calls, InOrder(old), new[k].stage # "unused",
           IsNext(k, old) \/ old[k].stage # "unused",
           \A j \in Calls \ {k} : new[j] = old[j]
    PROVE  InOrder(new)
<1>1. \A j \in Calls : j < k => old[j].stage # "unused"
  BY DEF IsNext, InOrder
<1> QED BY <1>1 DEF InOrder
-----------------------------------------------------------------------------
LEMMA TypesInit == Init => TypeOK
<1>1. MaxPushes \in Nat /\ 0 \in 0 .. MaxPushes
  BY PanelAssumption
<1> QED BY <1>1 DEF Init, TypeOK, Call, Unused

LEMMA TypesStep ==
    ASSUME TypeOK, RepliesInv, [Next]_vars
    PROVE  TypeOK'
<1> USE DEF panel, list, tables, traffic
<1>t. /\ current \in Matches \cup {NoMatch}
      /\ bubbles \in [Messages -> Nat]
      /\ opens \in [Openings -> Call(Messages)] /\ lists \in [Lists -> Call(Matches)]
      /\ listed \subseteq matched /\ known \subseteq matched /\ matched \subseteq Matches
      /\ stored \subseteq Messages /\ heard \subseteq Messages
      /\ sending \subseteq Own /\ failed \subseteq Own
      /\ pushes \in [Messages -> 0 .. MaxPushes]
      /\ late \in [opens : SUBSET Openings, lists : SUBSET Lists]
      /\ MaxPushes \in Nat /\ Own \subseteq Messages
  BY PanelAssumption DEF TypeOK
<1>1. ASSUME NEW m \in Matches, Match(m) PROVE TypeOK'
  BY <1>t, <1>1 DEF Match, TypeOK
<1>2. ASSUME NEW k \in Lists, LoadMatches(k) PROVE TypeOK'
  <2>1. lists' \in [Lists -> Call(Matches)]
    BY <1>t, <1>2, CallMoves DEF LoadMatches
  <2> QED BY <1>t, <1>2, <2>1 DEF LoadMatches, TypeOK
<1>3. ASSUME NEW k \in Lists, ServeMatches(k) PROVE TypeOK'
  <2>1. lists' \in [Lists -> Call(Matches)]
    BY <1>t, <1>3, AnswerMoves DEF ServeMatches
  <2> QED BY <1>t, <1>3, <2>1 DEF ServeMatches, TypeOK
<1>4. ASSUME NEW k \in Lists, RenderMatches(k) PROVE TypeOK'
  <2>1. lists' \in [Lists -> Call(Matches)]
    BY <1>t, <1>4, CallMoves DEF RenderMatches
  <2>2. late' \in [opens : SUBSET Openings, lists : SUBSET Lists]
    BY <1>t, <1>4 DEF RenderMatches
  <2>3. lists[k].reply \subseteq matched
    BY DEF RepliesInv
  <2> QED BY <1>t, <1>4, <2>1, <2>2, <2>3 DEF RenderMatches, TypeOK
<1>5. ASSUME NEW k \in Lists, LoadFails(k) PROVE TypeOK'
  <2>1. lists' \in [Lists -> Call(Matches)]
    BY <1>t, <1>5, CallMoves DEF LoadFails
  <2> QED BY <1>t, <1>5, <2>1 DEF LoadFails, TypeOK
<1>6. ASSUME NEW k \in Openings, NEW m \in Matches, OpenChat(k, m) PROVE TypeOK'
  <2>1. opens' \in [Openings -> Call(Messages)]
    BY <1>6, OpenMoves
  <2> QED BY <1>t, <1>6, <2>1 DEF OpenChat, TypeOK
<1>7. ASSUME NEW k \in Openings, ServeMessages(k) PROVE TypeOK'
  <2>1. opens' \in [Openings -> Call(Messages)]
    BY <1>t, <1>7, AnswerMoves DEF ServeMessages
  <2> QED BY <1>t, <1>7, <2>1 DEF ServeMessages, TypeOK
<1>8. ASSUME NEW k \in Openings, ShowHistory(k) PROVE TypeOK'
  <2>1. opens' \in [Openings -> Call(Messages)]
    BY <1>t, <1>8, CallMoves DEF ShowHistory
  <2>2. bubbles' \in [Messages -> Nat]
    BY <1>t, <1>8, Shows DEF ShowHistory
  <2>3. late' \in [opens : SUBSET Openings, lists : SUBSET Lists]
    BY <1>t, <1>8 DEF ShowHistory
  <2> QED BY <1>t, <1>8, <2>1, <2>2, <2>3 DEF ShowHistory, TypeOK
<1>9. ASSUME NEW k \in Openings, OpenFails(k) PROVE TypeOK'
  <2>1. opens' \in [Openings -> Call(Messages)]
    BY <1>t, <1>9, CallMoves DEF OpenFails
  <2> QED BY <1>t, <1>9, <2>1 DEF OpenFails, TypeOK
<1>10. ASSUME NEW x \in Messages, Written(x) PROVE TypeOK'
  BY <1>t, <1>10 DEF Written, TypeOK
<1>11. ASSUME NEW x \in Messages, Arrives(x) PROVE TypeOK'
  <2>1. bubbles' \in [Messages -> Nat]
    BY <1>t, <1>11, Shows DEF Arrives
  <2>2. pushes' \in [Messages -> 0 .. MaxPushes]
    BY <1>t, <1>11 DEF Arrives
  <2> QED BY <1>t, <1>11, <2>1, <2>2 DEF Arrives, TypeOK
<1>12. ASSUME NEW x \in Messages, PushLost(x) PROVE TypeOK'
  BY <1>t, <1>12 DEF PushLost, TypeOK
<1>13. ASSUME NEW x \in Messages, SendMessage(x) PROVE TypeOK'
  <2>1. bubbles' \in [Messages -> Nat]
    BY <1>t, <1>13, Shows DEF SendMessage
  <2> QED BY <1>t, <1>13, <2>1 DEF SendMessage, TypeOK
<1>14. ASSUME NEW x \in Messages, Commits(x) \/ SendFails(x) PROVE TypeOK'
  BY <1>t, <1>14 DEF Commits, SendFails, TypeOK
<1>15. CASE UNCHANGED vars
  BY <1>15 DEF vars, TypeOK
<1> QED BY <1>1, <1>2, <1>3, <1>4, <1>5, <1>6, <1>7, <1>8, <1>9, <1>10, <1>11, <1>12, <1>13,
           <1>14, <1>15 DEF Next
-----------------------------------------------------------------------------
LEMMA Domains ==
    ASSUME TypeOK
    PROVE  /\ MaxOpens \in Nat /\ MaxLists \in Nat
           /\ DOMAIN opens = Openings /\ DOMAIN lists = Lists
           /\ Openings = 1 .. MaxOpens /\ Lists = 1 .. MaxLists
BY PanelAssumption DEF TypeOK, Openings, Lists

(* Calls stay in order and their answers stay rows. *)
LEMMA RepliesStep ==
    ASSUME TypeOK, TypeOK', RepliesInv, [Next]_vars
    PROVE  RepliesInv'
<1> USE DEF panel, list, tables, traffic
<1>t. /\ opens \in [Openings -> Call(Messages)] /\ lists \in [Lists -> Call(Matches)]
      /\ stored \subseteq Messages /\ matched \subseteq Matches
      /\ pushes \in [Messages -> 0 .. MaxPushes] /\ MaxPushes \in Nat
      /\ late \in [opens : SUBSET Openings, lists : SUBSET Lists]
  BY PanelAssumption DEF TypeOK
<1>d. /\ MaxOpens \in Nat /\ MaxLists \in Nat
      /\ Openings = 1 .. MaxOpens /\ Lists = 1 .. MaxLists
      /\ DOMAIN opens = Openings /\ DOMAIN lists = Lists
      /\ DOMAIN opens' = Openings /\ DOMAIN lists' = Lists
  BY Domains DEF TypeOK
<1>o. /\ InOrder(opens) /\ InOrder(lists)
  BY DEF RepliesInv
<1> DEFINE OpensOK ==
             \A k \in Openings :
                /\ opens[k].stage # "unused" => opens[k].match \in Matches
                /\ \A x \in opens[k].reply : x \in stored /\ MatchOf[x] = opens[k].match
                /\ k \in late.opens => opens[k].stage = "done"
           ListsOK == \A k \in Lists : lists[k].reply \subseteq matched
           TrafficOK == \A x \in Messages : x \in heard \/ pushes[x] > 0 => x \in stored
<1>p. OpensOK /\ ListsOK /\ TrafficOK
  BY DEF RepliesInv
<1>q. InOrder(opens)' /\ InOrder(lists)' /\ OpensOK' /\ ListsOK' /\ TrafficOK' => RepliesInv'
  BY DEF RepliesInv
<1> HIDE DEF OpensOK, ListsOK, TrafficOK
<1>1. ASSUME UNCHANGED <<opens, late>>, stored \subseteq stored'
      PROVE InOrder(opens)' /\ OpensOK'
  BY <1>o, <1>p, <1>1 DEF OpensOK
<1>2. ASSUME UNCHANGED lists, matched \subseteq matched'
      PROVE InOrder(lists)' /\ ListsOK'
  BY <1>o, <1>p, <1>2 DEF ListsOK
<1>3. ASSUME UNCHANGED <<heard, pushes>>, stored \subseteq stored' PROVE TrafficOK'
  BY <1>p, <1>3 DEF TrafficOK
<1>4. ASSUME NEW k \in Lists, NEW stage \in {"asked", "done", "failed"},
             IsNext(k, lists) \/ lists[k].stage # "unused",
             lists' = [lists EXCEPT ![k].stage = stage], UNCHANGED matched
      PROVE InOrder(lists)' /\ ListsOK'
  <2>1. /\ lists'[k].stage = stage /\ lists'[k].reply = lists[k].reply
        /\ \A j \in Lists \ {k} : lists'[j] = lists[j]
    BY <1>t, <1>4, CallMoves
  <2>a. lists'[k].stage # "unused"
    BY <2>1
  <2>2. InOrder(lists')
    <3>1. CASE IsNext(k, lists)
      BY <1>o, <2>1, <2>a, <3>1, <1>d, StaysInOrder
    <3>2. CASE lists[k].stage # "unused"
      BY <1>o, <2>1, <2>a, <3>2, <1>d, StaysInOrder
    <3> QED BY <1>4, <3>1, <3>2
  <2> QED BY <1>4, <1>p, <2>1, <2>2 DEF ListsOK, InOrder
<1>5. ASSUME NEW k \in Lists, ServeMatches(k) PROVE InOrder(lists)' /\ ListsOK'
  <2>1. lists[k].stage = "asked" /\ lists' = Answers(lists, k, matched) /\ UNCHANGED matched
    BY <1>5 DEF ServeMatches
  <2>2. /\ lists'[k].stage = "answered" /\ lists'[k].reply = matched
        /\ \A j \in Lists \ {k} : lists'[j] = lists[j]
    BY <1>t, <2>1, AnswerMoves
  <2>3. InOrder(lists')
    BY <1>o, <2>1, <2>2, <1>d, StaysInOrder
  <2> QED BY <1>p, <2>1, <2>2, <2>3 DEF ListsOK, InOrder
<1>6. ASSUME NEW k \in Openings, NEW m \in Matches, OpenChat(k, m) PROVE InOrder(opens)' /\ OpensOK'
  <2>1. /\ opens'[k].stage = "asked" /\ opens'[k].match = m
        /\ opens'[k].reply = opens[k].reply
        /\ \A j \in Openings \ {k} : opens'[j] = opens[j]
        /\ UNCHANGED <<stored, late>> /\ IsNext(k, opens)
    BY <1>6, OpenMoves DEF OpenChat
  <2>2. InOrder(opens')
    BY <1>o, <2>1, <1>d, StaysInOrder
  <2>3. opens[k].reply = {} /\ k \notin late.opens
    BY <1>o, <1>p, <1>d, <2>1 DEF IsNext, InOrder, OpensOK
  <2> QED BY <1>p, <2>1, <2>2, <2>3 DEF OpensOK, InOrder
<1>7. ASSUME NEW k \in Openings, ServeMessages(k) PROVE InOrder(opens)' /\ OpensOK'
  <2> DEFINE history == {x \in stored : MatchOf[x] = opens[k].match}
  <2>1. opens[k].stage = "asked" /\ opens' = Answers(opens, k, history) /\ UNCHANGED <<stored, late>>
    BY <1>7 DEF ServeMessages
  <2>2. /\ opens'[k].stage = "answered" /\ opens'[k].reply = history
        /\ opens'[k].match = opens[k].match
        /\ \A j \in Openings \ {k} : opens'[j] = opens[j]
    BY <1>t, <2>1, AnswerMoves
  <2>3. InOrder(opens')
    BY <1>o, <2>1, <2>2, <1>d, StaysInOrder
  <2>4. k \notin late.opens
    BY <1>p, <2>1 DEF OpensOK
  <2>5. \A x \in history : x \in stored /\ MatchOf[x] = opens[k].match
    OBVIOUS
  <2> HIDE DEF history
  <2> QED BY <1>p, <2>1, <2>2, <2>3, <2>4, <2>5 DEF OpensOK
<1>8. ASSUME NEW k \in Openings, NEW stage \in {"done", "failed"},
             opens[k].stage \in {"asked", "answered"},
             opens' = [opens EXCEPT ![k].stage = stage], UNCHANGED stored,
             late'.opens = late.opens \/ (stage = "done" /\ late'.opens = late.opens \cup {k})
      PROVE InOrder(opens)' /\ OpensOK'
  <2>1. /\ opens'[k].stage = stage /\ opens'[k].reply = opens[k].reply
        /\ opens'[k].match = opens[k].match
        /\ \A j \in Openings \ {k} : opens'[j] = opens[j]
    BY <1>t, <1>8, CallMoves
  <2>a. opens'[k].stage # "unused" /\ opens[k].stage # "unused"
    BY <1>8, <2>1
  <2>2. InOrder(opens')
    BY <1>o, <2>1, <2>a, <1>d, StaysInOrder
  <2>3. k \notin late.opens
    BY <1>p, <1>8 DEF OpensOK
  <2> QED BY <1>p, <1>8, <2>1, <2>2, <2>3 DEF OpensOK, InOrder
<1>9. ASSUME NEW k \in Openings, ShowHistory(k) PROVE InOrder(opens)' /\ OpensOK'
  <2>1. late'.opens = late.opens \/ late'.opens = late.opens \cup {k}
    BY <1>t, <1>9 DEF ShowHistory
  <2> QED BY <1>8, <1>9, <2>1 DEF ShowHistory
<1>10. ASSUME NEW k \in Lists, RenderMatches(k) PROVE RepliesInv'
  <2>1. late'.opens = late.opens
    BY <1>t, <1>10 DEF RenderMatches
  <2>2. UNCHANGED <<opens, stored>>
    BY <1>10 DEF RenderMatches
  <2>3. InOrder(opens)' /\ OpensOK'
    BY <1>o, <1>p, <2>1, <2>2 DEF OpensOK
  <2> QED BY <1>3, <1>4, <1>10, <1>q, <2>3 DEF RenderMatches
<1>11. ASSUME NEW x \in Messages, Written(x) \/ Arrives(x) \/ PushLost(x) PROVE TrafficOK'
  BY <1>t, <1>p, <1>11 DEF Written, Arrives, PushLost, TrafficOK
<1>12. ASSUME UNCHANGED <<opens, late, lists>>, matched \subseteq matched', stored \subseteq stored',
              TrafficOK'
       PROVE RepliesInv'
  BY <1>1, <1>2, <1>12, <1>q
<1>13. ASSUME NEW x \in Messages,
              \/ Written(x) \/ Arrives(x) \/ PushLost(x) \/ SendMessage(x) \/ Commits(x) \/ SendFails(x)
       PROVE RepliesInv'
  <2>1. UNCHANGED <<opens, late, lists, matched>> /\ stored \subseteq stored'
    BY <1>13 DEF Written, Arrives, PushLost, SendMessage, Commits, SendFails
  <2>2. TrafficOK'
    BY <1>3, <1>11, <1>13, <2>1 DEF SendMessage, Commits, SendFails
  <2> QED BY <1>12, <2>1, <2>2
<1>14. ASSUME NEW m \in Matches, Match(m) PROVE RepliesInv'
  BY <1>3, <1>12, <1>14 DEF Match
<1>15. ASSUME NEW k \in Lists, LoadMatches(k) \/ ServeMatches(k) \/ LoadFails(k) PROVE RepliesInv'
  <2>1. InOrder(lists)' /\ ListsOK'
    BY <1>4, <1>5, <1>15 DEF LoadMatches, LoadFails
  <2>2. UNCHANGED <<opens, late, stored, heard, pushes>>
    BY <1>15 DEF LoadMatches, ServeMatches, LoadFails
  <2> QED BY <1>1, <1>3, <1>q, <2>1, <2>2
<1>16. ASSUME NEW k \in Openings,
              \/ ServeMessages(k) \/ ShowHistory(k) \/ OpenFails(k)
              \/ \E m \in Matches : OpenChat(k, m)
       PROVE RepliesInv'
  <2>1. InOrder(opens)' /\ OpensOK'
    BY <1>6, <1>7, <1>8, <1>9, <1>16 DEF OpenFails
  <2>2. UNCHANGED <<lists, matched, stored, heard, pushes>>
    BY <1>16 DEF ServeMessages, ShowHistory, OpenFails, OpenChat
  <2> QED BY <1>2, <1>3, <1>q, <2>1, <2>2
<1>17. CASE UNCHANGED vars
  BY <1>3, <1>12, <1>17 DEF vars
<1> QED BY <1>10, <1>13, <1>14, <1>15, <1>16, <1>17 DEF Next
-----------------------------------------------------------------------------
(* What the panel shows when no opening moves on. *)
LEMMA PanelKept ==
    ASSUME TypeOK, PanelInv, UNCHANGED <<current, opens>>, late'.opens = late.opens,
           stored \cup sending \cup failed \subseteq stored' \cup sending' \cup failed',
           \A x \in Messages : bubbles[x] > 0 => bubbles'[x] > 0,
           \A x \in Messages : bubbles'[x] > 0 =>
               bubbles[x] > 0 \/ (MatchOf[x] = current /\ x \in stored' \cup sending'),
           \A x \in heard' : x \in heard \/ (MatchOf[x] = current => bubbles'[x] > 0)
    PROVE  PanelInv'
<1>1. heard \subseteq Messages /\ \A k \in Openings : opens[k].reply \subseteq Messages
  BY DEF TypeOK, Call
<1>2. ASSUME NEW k \in Openings, IsLast(k, opens') PROVE
         /\ opens[k].match = current
         /\ opens[k].stage = "answered" => \A x \in heard' : Shown(x)' \/ x \in opens[k].reply
         /\ opens[k].stage = "done" => \A x \in heard' \cup opens[k].reply : Shown(x)'
  <2>1. IsLast(k, opens)
    BY <1>2
  <2> QED BY <1>1, <2>1 DEF PanelInv, OpenedLast, Shown
<1>3. OpenedLast'
  BY <1>2 DEF OpenedLast
<1>4. BubblesBelong'
  BY DEF PanelInv, BubblesBelong
<1> QED BY <1>3, <1>4 DEF PanelInv

LEMMA PanelStep ==
    ASSUME TypeOK, TypeOK', RepliesInv, RepliesInv', PanelInv, [Next]_vars
    PROVE  PanelInv'
<1> USE DEF panel, list, tables, traffic
<1>t. /\ opens \in [Openings -> Call(Messages)] /\ lists \in [Lists -> Call(Matches)]
      /\ bubbles \in [Messages -> Nat] /\ heard \subseteq Messages
      /\ pushes \in [Messages -> 0 .. MaxPushes] /\ MaxPushes \in Nat
      /\ late \in [opens : SUBSET Openings, lists : SUBSET Lists]
      /\ \A k \in Openings : opens[k].reply \subseteq Messages
  BY PanelAssumption DEF TypeOK, Call
<1>d. /\ MaxOpens \in Nat /\ Openings = 1 .. MaxOpens
      /\ DOMAIN opens = Openings /\ DOMAIN opens' = Openings
  BY Domains DEF TypeOK
<1>r. /\ InOrder(opens)
      /\ \A k \in Openings :
            /\ \A x \in opens[k].reply : x \in stored /\ MatchOf[x] = opens[k].match
            /\ k \in late.opens => opens[k].stage = "done"
      /\ \A x \in Messages : x \in heard \/ pushes[x] > 0 => x \in stored
  BY DEF RepliesInv
<1>1. ASSUME NEW m \in Matches, Match(m) PROVE PanelInv'
  BY <1>1, PanelKept DEF Match
<1>2. ASSUME NEW k \in Lists,
             LoadMatches(k) \/ ServeMatches(k) \/ RenderMatches(k) \/ LoadFails(k)
      PROVE PanelInv'
  <2>1. late'.opens = late.opens
    BY <1>t, <1>2 DEF LoadMatches, ServeMatches, RenderMatches, LoadFails
  <2>2. UNCHANGED <<current, bubbles, opens, stored, sending, failed, heard>>
    BY <1>2 DEF LoadMatches, ServeMatches, RenderMatches, LoadFails
  <2> QED BY <2>1, <2>2, PanelKept
<1>3. ASSUME NEW x \in Messages, Written(x) \/ PushLost(x) \/ Commits(x) \/ SendFails(x)
      PROVE PanelInv'
  <2>1. /\ UNCHANGED <<current, bubbles, opens, heard, late>>
        /\ stored \cup sending \cup failed \subseteq stored' \cup sending' \cup failed'
    BY <1>3 DEF Written, PushLost, Commits, SendFails
  <2> QED BY <2>1, PanelKept
<1>4. ASSUME NEW x \in Messages, Arrives(x) PROVE PanelInv'
  <2>1. /\ UNCHANGED <<current, opens, stored, sending, failed, late>>
        /\ heard' = heard \cup {x} /\ x \in stored
        /\ bubbles' = IF MatchOf[x] = current THEN Plus({x}) ELSE bubbles
    BY <1>4, <1>t, <1>r DEF Arrives
  <2>2. CASE MatchOf[x] = current
    <3>1. \A y \in Messages : bubbles'[y] > 0 <=> bubbles[y] > 0 \/ y = x
      BY <1>t, <2>1, <2>2, Shows
    <3> QED BY <2>1, <2>2, <3>1, PanelKept
  <2>3. CASE MatchOf[x] # current
    BY <2>1, <2>3, PanelKept
  <2> QED BY <2>2, <2>3
<1>5. ASSUME NEW x \in Messages, SendMessage(x) PROVE PanelInv'
  <2>1. /\ UNCHANGED <<current, opens, stored, failed, heard, late>>
        /\ MatchOf[x] = current /\ sending' = sending \cup {x} /\ bubbles' = Plus({x})
    BY <1>5 DEF SendMessage
  <2>2. \A y \in Messages : bubbles'[y] > 0 <=> bubbles[y] > 0 \/ y = x
    BY <1>t, <2>1, Shows
  <2> QED BY <2>1, <2>2, PanelKept
<1>6. ASSUME NEW k \in Openings, NEW m \in Matches, OpenChat(k, m) PROVE PanelInv'
  <2>1. /\ opens'[k].stage = "asked" /\ opens'[k].match = m
        /\ \A j \in Openings \ {k} : opens'[j] = opens[j]
        /\ current' = m /\ \A x \in Messages : bubbles'[x] = 0
        /\ IsNext(k, opens)
    BY <1>6, OpenMoves DEF OpenChat
  <2>2. \A j \in Openings : IsLast(j, opens') => j = k
    BY <1>d, <1>r, <2>1, NewestIsLast
  <2>3. OpenedLast'
    BY <2>1, <2>2 DEF OpenedLast
  <2> QED BY <2>1, <2>3 DEF PanelInv, BubblesBelong
(* An opening goes on: which one is the last stays. *)
<1>7. ASSUME NEW k \in Openings, opens[k].stage # "unused", opens'[k].stage # "unused",
             opens'[k].match = opens[k].match,
             \A j \in Openings \ {k} : opens'[j] = opens[j],
             UNCHANGED <<current, heard>>,
             \A x \in Messages : bubbles[x] > 0 => bubbles'[x] > 0,
             opens'[k].stage = "answered" =>
                 \A x \in heard : MatchOf[x] = opens[k].match => x \in opens'[k].reply,
             opens'[k].stage = "done" =>
                 /\ opens[k].stage = "answered" /\ opens'[k].reply = opens[k].reply
                 /\ \A x \in opens[k].reply : bubbles'[x] > 0
      PROVE OpenedLast'
  <2>1. ASSUME NEW j \in Openings, IsLast(j, opens')
        PROVE  /\ opens'[j].match = current
               /\ opens'[j].stage = "answered" =>
                      \A x \in heard : Shown(x)' \/ x \in opens'[j].reply
               /\ opens'[j].stage = "done" =>
                      \A x \in heard \cup opens'[j].reply : Shown(x)'
    <3>1. \A i \in Openings : opens'[i].stage = "unused" <=> opens[i].stage = "unused"
      BY <1>7
    <3>2. IsLast(j, opens)
      BY <1>d, <2>1, <3>1, SameLast
    <3>3. \A x \in Messages : Shown(x) => Shown(x)'
      BY <1>7 DEF Shown
    <3>4. CASE j # k
      BY <1>t, <1>7, <3>2, <3>3, <3>4 DEF PanelInv, OpenedLast
    <3>5. CASE j = k
      BY <1>t, <1>7, <3>2, <3>3, <3>5 DEF PanelInv, OpenedLast, Shown
    <3> QED BY <3>4, <3>5
  <2> QED BY <1>7, <2>1 DEF OpenedLast
<1>8. ASSUME NEW k \in Openings, ServeMessages(k) PROVE PanelInv'
  <2> DEFINE history == {x \in stored : MatchOf[x] = opens[k].match}
  <2>1. /\ opens[k].stage = "asked" /\ opens' = Answers(opens, k, history)
        /\ UNCHANGED <<current, bubbles, stored, sending, failed, heard, late>>
        /\ history \subseteq Messages
    BY <1>8 DEF ServeMessages, TypeOK
  <2>2. /\ opens'[k].stage = "answered" /\ opens'[k].reply = history
        /\ opens'[k].match = opens[k].match
        /\ \A j \in Openings \ {k} : opens'[j] = opens[j]
    BY <1>t, <2>1, AnswerMoves
  <2>3. \A x \in heard : MatchOf[x] = opens[k].match => x \in history
    BY <1>t, <1>r
  <2>4. OpenedLast'
    BY <1>7, <2>1, <2>2, <2>3
  <2>5. BubblesBelong'
    <3>1. \A j \in late.opens : opens'[j] = opens[j]
      BY <1>t, <1>r, <2>1, <2>2
    <3> QED BY <2>1, <3>1 DEF PanelInv, BubblesBelong
  <2> QED BY <2>4, <2>5 DEF PanelInv
<1>9. ASSUME NEW k \in Openings, OpenFails(k) PROVE PanelInv'
  <2>1. /\ opens[k].stage = "asked" /\ opens' = [opens EXCEPT ![k].stage = "failed"]
        /\ UNCHANGED <<current, bubbles, stored, sending, failed, heard, late>>
    BY <1>9 DEF OpenFails
  <2>2. /\ opens'[k].stage = "failed" /\ opens'[k].match = opens[k].match
        /\ \A j \in Openings \ {k} : opens'[j] = opens[j]
    BY <1>t, <2>1, CallMoves
  <2>3. OpenedLast'
    BY <1>7, <2>1, <2>2
  <2>4. BubblesBelong'
    <3>1. \A j \in late.opens : opens'[j] = opens[j]
      BY <1>t, <1>r, <2>1, <2>2
    <3> QED BY <2>1, <3>1 DEF PanelInv, BubblesBelong
  <2> QED BY <2>3, <2>4 DEF PanelInv
<1>10. ASSUME NEW k \in Openings, ShowHistory(k) PROVE PanelInv'
  <2>1. /\ opens[k].stage = "answered" /\ opens' = [opens EXCEPT ![k].stage = "done"]
        /\ bubbles' = Plus(opens[k].reply)
        /\ UNCHANGED <<current, stored, sending, failed, heard>>
        /\ late' = IF IsLast(k, opens) THEN late ELSE [late EXCEPT !.opens = @ \cup {k}]
    BY <1>10 DEF ShowHistory
  <2>2. /\ opens'[k].stage = "done" /\ opens'[k].match = opens[k].match
        /\ opens'[k].reply = opens[k].reply
        /\ \A j \in Openings \ {k} : opens'[j] = opens[j]
    BY <1>t, <2>1, CallMoves
  <2>3. \A x \in Messages : bubbles'[x] > 0 <=> bubbles[x] > 0 \/ x \in opens[k].reply
    BY <1>t, <2>1, Shows
  <2>4. OpenedLast'
    BY <1>t, <1>7, <2>1, <2>2, <2>3
  <2>5. BubblesBelong'
    <3> SUFFICES ASSUME NEW x \in Messages, bubbles'[x] > 0
                 PROVE  /\ x \in stored \cup sending \cup failed
                        /\ \/ MatchOf[x] = current
                           \/ \E j \in late'.opens : x \in opens'[j].reply
      BY <2>1 DEF BubblesBelong
    <3>1. \A j \in Openings : opens'[j].reply = opens[j].reply
      BY <2>2
    <3>2. late.opens \subseteq late'.opens /\ (IsLast(k, opens) \/ k \in late'.opens)
      BY <1>t, <2>1
    <3>3. CASE bubbles[x] > 0
      BY <1>t, <3>1, <3>2, <3>3 DEF PanelInv, BubblesBelong
    <3>4. CASE x \in opens[k].reply
      <4>1. x \in stored /\ MatchOf[x] = opens[k].match
        BY <1>r, <3>4
      <4>2. IsLast(k, opens) => opens[k].match = current
        BY DEF PanelInv, OpenedLast
      <4> QED BY <3>1, <3>2, <3>4, <4>1, <4>2
    <3> QED BY <2>3, <3>3, <3>4
  <2> QED BY <2>4, <2>5 DEF PanelInv
<1>11. CASE UNCHANGED vars
  BY <1>11, PanelKept DEF vars
<1> QED BY <1>1, <1>2, <1>3, <1>4, <1>5, <1>6, <1>8, <1>9, <1>10, <1>11 DEF Next

LEMMA PanelInit == Init => RepliesInv /\ PanelInv
BY DEF Init, Unused, RepliesInv, InOrder, PanelInv, OpenedLast, BubblesBelong, IsLast

LEMMA PanelAlways == Spec => [](TypeOK /\ RepliesInv /\ PanelInv)
<1>1. TypeOK /\ RepliesInv /\ PanelInv /\ [Next]_vars => (TypeOK /\ RepliesInv /\ PanelInv)'
  BY TypesStep, RepliesStep, PanelStep
<1> QED BY <1>1, TypesInit, PanelInit, PTL DEF Spec

(* The types of the page, and of the tables that it reads. *)
THEOREM PanelTypes == Spec => []TypeOK
BY PanelAlways, PTL

(* Nothing falls between a history and the pushes. *)
THEOREM NothingIsMissing == Spec => []NothingMissing
<1>1. OpenedLast => NothingMissing
  BY DEF OpenedLast, NothingMissing, Shown
<1>2. PanelInv => NothingMissing
  BY <1>1 DEF PanelInv
<1> QED BY <1>2, PanelAlways, PTL

(* A bubble belongs to the open chat, but for histories that came late.    *)
THEOREM BubblesAreOfTheChat == Spec => []BubblesBelong
<1>1. PanelInv => BubblesBelong
  BY DEF PanelInv
<1> QED BY <1>1, PanelAlways, PTL
-----------------------------------------------------------------------------
(* The last answer of loadMatches holds the rows there were when it was    *)
(* asked for, and so does the list, unless an older answer replaced it.    *)
LastIsFresh ==
    \A k \in Lists :
        IsLast(k, lists) =>
            /\ lists[k].stage = "answered" => known \subseteq lists[k].reply
            /\ lists[k].stage = "done" /\ late.lists = {} => known \subseteq listed

LEMMA FreshStep ==
    ASSUME TypeOK, TypeOK', RepliesInv, LastIsFresh, [Next]_vars
    PROVE  LastIsFresh'
<1> USE DEF panel, list, tables, traffic
<1>t. /\ lists \in [Lists -> Call(Matches)] /\ matched \subseteq Matches
      /\ late \in [opens : SUBSET Openings, lists : SUBSET Lists]
      /\ known \subseteq matched
  BY DEF TypeOK
<1>d. /\ MaxLists \in Nat /\ Lists = 1 .. MaxLists
      /\ DOMAIN lists = Lists /\ DOMAIN lists' = Lists
      /\ InOrder(lists)
  BY Domains DEF TypeOK, RepliesInv
<1>1. ASSUME UNCHANGED <<lists, listed, known>>, late'.lists = late.lists PROVE LastIsFresh'
  BY <1>1 DEF LastIsFresh
<1>2. ASSUME NEW k \in Lists, LoadMatches(k) PROVE LastIsFresh'
  <2>1. /\ lists'[k].stage = "asked" /\ \A j \in Lists \ {k} : lists'[j] = lists[j]
        /\ IsNext(k, lists)
    BY <1>t, <1>2, CallMoves DEF LoadMatches
  <2>2. \A j \in Lists : IsLast(j, lists') => j = k
    BY <1>d, <2>1, NewestIsLast
  <2> QED BY <2>1, <2>2 DEF LastIsFresh
<1>3. ASSUME NEW k \in Lists, ServeMatches(k) PROVE LastIsFresh'
  <2>1. /\ lists[k].stage = "asked" /\ lists' = Answers(lists, k, matched)
        /\ UNCHANGED <<listed, known, late>>
    BY <1>3 DEF ServeMatches
  <2>2. /\ lists'[k].stage = "answered" /\ lists'[k].reply = matched
        /\ \A j \in Lists \ {k} : lists'[j] = lists[j]
    BY <1>t, <2>1, AnswerMoves
  <2>3. \A j \in Lists : IsLast(j, lists') => IsLast(j, lists)
    BY <1>d, <2>1, <2>2, SameLast
  <2> QED BY <1>t, <2>1, <2>2, <2>3 DEF LastIsFresh
<1>4. ASSUME NEW k \in Lists, RenderMatches(k) PROVE LastIsFresh'
  <2>1. /\ lists[k].stage = "answered" /\ lists' = [lists EXCEPT ![k].stage = "done"]
        /\ listed' = lists[k].reply /\ UNCHANGED known
        /\ late'.lists = IF Overtaken(k) THEN late.lists \cup {k} ELSE late.lists
    BY <1>t, <1>4 DEF RenderMatches
  <2>2. /\ lists'[k].stage = "done" /\ lists'[k].reply = lists[k].reply
        /\ \A j \in Lists \ {k} : lists'[j] = lists[j]
    BY <1>t, <2>1, CallMoves
  <2>3. \A j \in Lists : IsLast(j, lists') => IsLast(j, lists)
    BY <1>d, <2>1, <2>2, SameLast
  (* An older answer than the last one, which is there, is late. *)
  <2>4. ASSUME NEW j \in Lists, j # k, IsLast(j, lists), lists[j].stage = "done"
        PROVE  late'.lists # {}
    <3>1. j > k
      BY <1>d, <2>1, <2>4 DEF IsLast
    <3> QED BY <2>1, <2>4, <3>1 DEF Overtaken
  <2>5. late'.lists = {} => late.lists = {}
    BY <2>1
  <2> QED BY <2>1, <2>2, <2>3, <2>4, <2>5 DEF LastIsFresh
<1>5. ASSUME NEW k \in Lists, LoadFails(k) PROVE LastIsFresh'
  <2>1. /\ lists[k].stage = "asked" /\ lists' = [lists EXCEPT ![k].stage = "failed"]
        /\ UNCHANGED <<listed, known, late>>
    BY <1>5 DEF LoadFails
  <2>2. /\ lists'[k].stage = "failed" /\ \A j \in Lists \ {k} : lists'[j] = lists[j]
    BY <1>t, <2>1, CallMoves
  <2>3. \A j \in Lists : IsLast(j, lists') => IsLast(j, lists)
    BY <1>d, <2>1, <2>2, SameLast
  <2> QED BY <2>1, <2>2, <2>3 DEF LastIsFresh
<1>6. ASSUME NEW k \in Openings,
             \/ ServeMessages(k) \/ ShowHistory(k) \/ OpenFails(k)
             \/ \E m \in Matches : OpenChat(k, m)
      PROVE LastIsFresh'
  <2>1. late'.lists = late.lists
    BY <1>t, <1>6 DEF ServeMessages, ShowHistory, OpenFails, OpenChat
  <2>2. UNCHANGED <<lists, listed, known>>
    BY <1>6 DEF ServeMessages, ShowHistory, OpenFails, OpenChat
  <2> QED BY <1>1, <2>1, <2>2
<1>7. ASSUME NEW x \in Messages,
             \/ Written(x) \/ Arrives(x) \/ PushLost(x) \/ SendMessage(x) \/ Commits(x) \/ SendFails(x)
      PROVE LastIsFresh'
  BY <1>1, <1>7 DEF Written, Arrives, PushLost, SendMessage, Commits, SendFails
<1>8. ASSUME NEW m \in Matches, Match(m) PROVE LastIsFresh'
  BY <1>1, <1>8 DEF Match
<1>9. CASE UNCHANGED vars
  BY <1>1, <1>9 DEF vars
<1> QED BY <1>2, <1>3, <1>4, <1>5, <1>6, <1>7, <1>8, <1>9 DEF Next

(* The list shows the matches there were when it was asked for last.       *)
THEOREM TheListIsFresh == Spec => []ListIsFresh
<1>1. Init => LastIsFresh
  BY DEF Init, Unused, LastIsFresh, IsLast
<1>2. TypeOK /\ TypeOK' /\ RepliesInv /\ LastIsFresh /\ [Next]_vars => LastIsFresh'
  BY FreshStep
<1>3. LastIsFresh => ListIsFresh
  BY DEF LastIsFresh, ListIsFresh
<1> QED BY <1>1, <1>2, <1>3, PanelAlways, PTL DEF Spec
=============================================================================
