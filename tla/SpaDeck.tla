------------------------------ MODULE SpaDeck ------------------------------
(***************************************************************************)
(* The deck of cards of the browser client (frontend/static/app.js).  The  *)
(* page is single-threaded, but every gesture runs an async function of    *)
(* its own, which waits for an animation of 300 ms and for the answer of   *)
(* POST /api/swipe, and a reload of the list waits for its answer too:     *)
(* they interleave over the list, the index into it and the cards shown.   *)
(***************************************************************************)
EXTENDS Integers, Sequences, FiniteSets, SequencesExt

CONSTANTS
    Profiles,       \* the other users
    NoProfile,
    Limit,          \* profiles per GET /api/profiles
    MaxGestures,    \* bound: clicks on Like or Pass, and drags of a card
    MaxLoads        \* bound: calls of loadProfiles

ASSUME DeckAssumption ==
    /\ IsFiniteSet(Profiles)
    /\ NoProfile \notin Profiles
    /\ {Limit, MaxGestures, MaxLoads} \subseteq Nat

(* Gestures and loads are numbered as they begin. *)
Gestures == 1 .. MaxGestures
Loads == 1 .. MaxLoads

VARIABLES
    profiles,       \* the list that was loaded last
    idx,            \* currentProfileIdx
    cards,          \* the .profile-card elements, in document order
    buttons,        \* Like and Pass are enabled; "No more profiles!" is hidden
    swipes,         \* the running async functions of the gestures
    loads,          \* the running calls of loadProfiles
    swiped,         \* the user's rows of the table swipes
    asked,          \* history: the profiles of the requests that were sent
    orderly         \* history: since this list was rendered there were only
                    \* clicks, one at a time

deckVars == <<profiles, idx, cards, buttons, swipes, loads, swiped, asked, orderly>>

(* renderCardStack shows so many cards. *)
Shown == 3

(* zIndex tells the elements of one rendering apart. *)
Card == [profile : Profiles, zIndex : 1 .. Shown, draggable : BOOLEAN]

Detached == 0

(* card: the element it animates, while that is in the document. *)
Swipe == [stage : {"unused", "animating", "sending", "answered", "done"},
          target : Profiles \cup {NoProfile}, card : {Detached} \cup (1 .. Shown)]

(* A gesture that is not made yet, or whose request is over. *)
Outside(stage) == [stage |-> stage, target |-> NoProfile, card |-> Detached]

Load == [stage : {"unused", "asked", "answered", "done"}, list : Seq(Profiles)]

Init ==
    /\ profiles = <<>>
    /\ idx = 0
    /\ cards = <<>>
    /\ buttons = TRUE
    /\ swipes = [g \in Gestures |-> Outside("unused")]
    /\ loads = [l \in Loads |-> [stage |-> "unused", list |-> <<>>]]
    /\ swiped = {}
    /\ asked = {}
    /\ orderly = TRUE

IsNext(k, calls) ==
    /\ calls[k].stage = "unused"
    /\ \A j \in 1 .. k - 1 : calls[j].stage # "unused"

(* The gestures that are not over. *)
Active == {g \in Gestures : swipes[g].stage \in {"animating", "sending", "answered"}}

-----------------------------------------------------------------------------
(* profiles.slice(currentProfileIdx, currentProfileIdx + 3), reversed: the *)
(* first element that is appended gets the highest zIndex and the drag     *)
(* handlers.                                                               *)
Stack(list, i) ==
    LET remaining == SubSeq(list, i + 1, IF i + Shown < Len(list) THEN i + Shown ELSE Len(list))
        n == Len(remaining)
    IN  [k \in 1 .. n |-> [profile |-> Reverse(remaining)[k],
                           zIndex |-> n + 1 - k, draggable |-> k = 1]]

Detach(hit, s) ==
    [h \in Gestures |-> IF s[h].card \in hit THEN [s[h] EXCEPT !.card = Detached] ELSE s[h]]

(* Mutant: the old cards are not removed. *)
RenderOnTop(list, i, s) ==
    /\ cards' = cards \o Stack(list, i)
    /\ buttons' = (cards' # <<>>)
    /\ swipes' = s

(* renderCardStack: the old cards go, whoever animates them.  s: the async *)
(* functions otherwise.                                                    *)
Render(list, i, s) ==
    /\ cards' = Stack(list, i)
    /\ buttons' = (cards' # <<>>)
    /\ swipes' = Detach(1 .. Shown, s)

-----------------------------------------------------------------------------
(* swipeAction, as far as its await: the profile is the current one, the   *)
(* card is the first in the document, whose animation begins.              *)
Click(g) ==
    /\ IsNext(g, swipes)
    /\ buttons
    /\ idx < Len(profiles)
    /\ cards # <<>>
    /\ swipes' = [swipes EXCEPT ![g] = [stage |-> "animating", target |-> profiles[idx + 1],
                                       card |-> Head(cards).zIndex]]
    /\ orderly' = (orderly /\ Active = {})
    /\ UNCHANGED <<profiles, idx, cards, buttons, loads, swiped, asked>>

(* The clicks were faster than the answers and no card is left: doSwipe    *)
(* runs at once.                                                           *)
ClickOnNothing(g) ==
    /\ IsNext(g, swipes)
    /\ buttons
    /\ idx < Len(profiles)
    /\ cards = <<>>
    /\ swipes' = [swipes EXCEPT ![g] = [stage |-> "sending", target |-> profiles[idx + 1],
                                       card |-> Detached]]
    /\ idx' = idx + 1
    /\ asked' = asked \cup {profiles[idx + 1]}
    /\ orderly' = (orderly /\ Active = {})
    /\ UNCHANGED <<profiles, cards, buttons, loads, swiped>>

(* pointerup of a long drag: the handlers of setupDrag hold their card and *)
(* its profile.                                                            *)
Drag(g) ==
    /\ IsNext(g, swipes)
    /\ cards # <<>>
    /\ Head(cards).draggable
    /\ swipes' = [swipes EXCEPT ![g] = [stage |-> "animating", target |-> Head(cards).profile,
                                       card |-> Head(cards).zIndex]]
    /\ orderly' = FALSE
    /\ UNCHANGED <<profiles, idx, cards, buttons, loads, swiped, asked>>

(* The timer of animateSwipe: the card goes, unless it is gone, and        *)
(* doSwipe runs as far as its await.  All timers take 300 ms.              *)
AnimationEnds(g) ==
    LET card == swipes[g].card IN
    /\ swipes[g].stage = "animating"
    /\ \A h \in 1 .. g - 1 : swipes[h].stage # "animating"
    /\ \/ card = Detached /\ UNCHANGED cards
       \/ \E k \in DOMAIN cards :
             cards[k].zIndex = card /\ cards' = RemoveAt(cards, k)
    /\ swipes' = Detach({card}, [swipes EXCEPT ![g].stage = "sending"])
    /\ idx' = idx + 1
    /\ asked' = asked \cup {swipes[g].target}
    /\ UNCHANGED <<profiles, buttons, loads, swiped, orderly>>

(* The API stores the swipe, or answers 409 because it is stored. *)
Serve(g) ==
    /\ swipes[g].stage = "sending"
    /\ swiped' = swiped \cup {swipes[g].target}
    /\ swipes' = [swipes EXCEPT ![g] = Outside("answered")]
    /\ UNCHANGED <<profiles, idx, cards, buttons, loads, asked, orderly>>

(* The request does not get through: fetch raises. *)
RequestFails(g) ==
    /\ swipes[g].stage = "sending"
    /\ swipes' = [swipes EXCEPT ![g] = Outside("answered")]
    /\ UNCHANGED <<profiles, idx, cards, buttons, loads, swiped, asked, orderly>>

(* Mutant: what is shown is not rendered anew after the answer. *)
AnsweredUnrendered(g) ==
    /\ swipes[g].stage = "answered"
    /\ swipes' = [swipes EXCEPT ![g] = Outside("done")]
    /\ UNCHANGED <<profiles, idx, cards, buttons, loads, swiped, asked, orderly>>

(* The answer, of whatever status, is there: doSwipe renders and ends. *)
Answered(g) ==
    /\ swipes[g].stage = "answered"
    /\ Render(profiles, idx, [swipes EXCEPT ![g] = Outside("done")])
    /\ UNCHANGED <<profiles, idx, loads, swiped, asked, orderly>>

-----------------------------------------------------------------------------
(* Refresh, or a new login of the same user: loadProfiles sends its query. *)
AskProfiles(l) ==
    /\ IsNext(l, loads)
    /\ loads' = [loads EXCEPT ![l].stage = "asked"]
    /\ UNCHANGED <<profiles, idx, cards, buttons, swipes, swiped, asked, orderly>>

(* get_profiles: up to Limit profiles that are not swiped, in any order. *)
ServeProfiles(l) ==
    LET fresh == Profiles \ swiped
        n == IF Limit < Cardinality(fresh) THEN Limit ELSE Cardinality(fresh)
    IN
    /\ loads[l].stage = "asked"
    /\ \E list \in Injection(1 .. n, fresh) :
          loads' = [loads EXCEPT ![l] = [stage |-> "answered", list |-> list]]
    /\ UNCHANGED <<profiles, idx, cards, buttons, swipes, swiped, asked, orderly>>

(* Mutant: the index is not reset. *)
ApplyProfilesAtIndex(l) ==
    /\ loads[l].stage = "answered"
    /\ profiles' = loads[l].list
    /\ Render(loads[l].list, idx, swipes)
    /\ loads' = [loads EXCEPT ![l] = [stage |-> "done", list |-> <<>>]]
    /\ orderly' = (Active = {})
    /\ UNCHANGED <<idx, swiped, asked>>

(* The list replaces the one there is, and its first cards are shown. *)
ApplyProfiles(l) ==
    /\ loads[l].stage = "answered"
    /\ profiles' = loads[l].list
    /\ idx' = 0
    /\ Render(loads[l].list, 0, swipes)
    /\ loads' = [loads EXCEPT ![l] = [stage |-> "done", list |-> <<>>]]
    /\ orderly' = (Active = {})
    /\ UNCHANGED <<swiped, asked>>

(* The query fails: it is logged and nothing changes. *)
LoadFails(l) ==
    /\ loads[l].stage \in {"asked", "answered"}
    /\ loads' = [loads EXCEPT ![l] = [stage |-> "done", list |-> <<>>]]
    /\ UNCHANGED <<profiles, idx, cards, buttons, swipes, swiped, asked, orderly>>

Next ==
    \/ \E g \in Gestures :
          \/ Click(g) \/ ClickOnNothing(g) \/ Drag(g)
          \/ AnimationEnds(g) \/ Serve(g) \/ RequestFails(g) \/ Answered(g)
    \/ \E l \in Loads :
          AskProfiles(l) \/ ServeProfiles(l) \/ ApplyProfiles(l) \/ LoadFails(l)

Spec == Init /\ [][Next]_deckVars

TypeOK ==
    /\ profiles \in Seq(Profiles)
    /\ idx \in Nat
    /\ cards \in Seq(Card)
    /\ Len(cards) <= Shown
    /\ buttons \in BOOLEAN
    /\ swipes \in [Gestures -> Swipe]
    /\ \A g \in Gestures :
          /\ swipes[g].stage \in {"animating", "sending"} => swipes[g].target \in Profiles
          /\ swipes[g].card # Detached =>
                /\ swipes[g].stage = "animating"
                /\ \E k \in DOMAIN cards : cards[k].zIndex = swipes[g].card
    /\ loads \in [Loads -> Load]
    /\ swiped \subseteq asked
    /\ asked \subseteq Profiles
    /\ orderly \in BOOLEAN

-----------------------------------------------------------------------------
(* Whatever clicks, drags, answers and lists overlap, and whichever fail,  *)
(* when no request is open the page shows the next profiles of the list it *)
(* is at, and offers Refresh exactly when there is none (app.js:201-225).  *)
DeckShown ==
    (\A g \in Active : swipes[g].stage = "animating") =>
        /\ cards = Stack(profiles, idx)
        /\ profiles # <<>> => buttons = (cards # <<>>)

(* A user who clicks once and waits for the answer swipes the profiles of  *)
(* a list one after the other and misses none, also when requests fail     *)
(* (app.js:300-312).                                                       *)
NoneIsSkipped ==
    orderly =>
        /\ idx <= Len(profiles)
        /\ \A k \in 1 .. idx : profiles[k] \in asked

-----------------------------------------------------------------------------
(* app.js:215: "top card is last (highest z-index)": when nothing moves,   *)
(* the card on top is the last of the document, the one of the profile     *)
(* that the buttons swipe.                                                 *)
TopCardIsLast ==
    Active = {} /\ cards # <<>> =>
        /\ \A k \in DOMAIN cards : cards[k].zIndex <= Last(cards).zIndex
        /\ Last(cards).profile = profiles[idx + 1]
=============================================================================
