--------------------------- MODULE MatchPipeline ---------------------------
(***************************************************************************)
(* From a swipe to a match: the API's swipe handler and the match          *)
(* processor, composed over the tables and the queue they share.           *)
(***************************************************************************)
EXTENDS SwipeApi, MatchProcessor

vars == <<swipes, matches, queue, dropped, faults, apiVars, procVars>>

Init == StoreInit /\ ApiInit /\ ProcInit

Next ==
    \/ ApiNext /\ UNCHANGED procVars
    \/ ProcNext /\ UNCHANGED apiVars

Spec == Init /\ [][Next]_vars

(* Both services run asyncio loops, which resume every coroutine whose     *)
(* await is over, and the broker delivers what is ready.  Users owe        *)
(* nothing: no fairness for Receive, nor for any failure.                  *)
Fairness ==
    /\ \A r \in Requests : WF_vars(Handle(r) /\ UNCHANGED procVars)
    /\ \A s \in Swipe : WF_vars(Publish(s) /\ UNCHANGED procVars)
    /\ \A s \in Swipe :
          WF_vars((\E t \in Tasks : Deliver(t, s)) /\ UNCHANGED apiVars)
    /\ \A t \in Tasks : WF_vars(TaskStep(t) /\ UNCHANGED apiVars)

FairSpec == Spec /\ Fairness

TypeOK == StoreTypeOK /\ ApiTypeOK /\ ProcTypeOK

-----------------------------------------------------------------------------
(* Every row of `matches` stands for two users who both liked, whichever   *)
(* handlers overlapped and whatever was delivered again                    *)
(* (process_swipe, processor.py:117-146).                                  *)
MatchesAreMutual == \A m \in matches : Mutual(m[1], m[2])

(* The same of the handlers, while they run.  Nobody swipes on himself; a  *)
(* handler that looks for a match holds a like, and one that got past the  *)
(* first query holds a like that is returned.                              *)
SwipesOfOthers ==
    /\ \A s \in swipes : s.swiper # s.target
    /\ \A r \in Requests :
          requests[r].stage \in InHandler =>
              requests[r].swipe.swiper # requests[r].swipe.target

HandlersSawLikes ==
    \A t \in Tasks :
        /\ tasks[t].stage \in Looking \cup Announcing =>
              tasks[t].event.direction = "like"
        /\ tasks[t].stage \in {"existing", "insert"} \cup Announcing =>
              Reciprocated(tasks[t].event)

(* A row is announced by the one handler that inserted it, which has sent  *)
(* what its place in the loop says.                                        *)
OneAnnouncer ==
    \A t, x \in Tasks :
        /\ tasks[t].stage \in Announcing
        /\ tasks[x].stage \in Announcing
        /\ Row(tasks[t].event) = Row(tasks[x].event)
        => t = x

AnnouncerCounts ==
    \A t \in Tasks :
        tasks[t].stage \in Announcing =>
          LET e == tasks[t].event
              at == tasks[t].stage
          IN
          /\ sent[SwiperNotice(e)] = IF at = "notifySwiper" THEN 0 ELSE 1
          /\ sent[TargetNotice(e)] = IF at = "stream" THEN 1 ELSE 0

HandlerInv ==
    SwipesOfOthers /\ HandlersSawLikes /\ OneAnnouncer /\ AnnouncerCounts

(* The event may still lead a handler to the row of its pair. *)
Open(u, v) ==
    LET e == [swiper |-> u, target |-> v, direction |-> "like"] IN
    \/ \E r \in Requests :
          requests[r].stage = "committed" /\ requests[r].swipe = e
    \/ e \in outbox
    \/ e \in queue
    \/ \E t \in Live : tasks[t].stage \in Looking /\ tasks[t].event = e

Dropped(u, v) == [swiper |-> u, target |-> v, direction |-> "like"] \in dropped

(* Two users who like each other have their row, or one of their events is *)
(* still on its way to a handler that will look for the other like, or a   *)
(* failure took one of the events.  The handlers that both read before     *)
(* the other's commit never leave a pair unmatched between them.           *)
NoMatchForgotten ==
    \A u, v \in Users :
        Mutual(u, v) /\ ~Matched(u, v)
          => Open(u, v) \/ Open(v, u) \/ Dropped(u, v) \/ Dropped(v, u)

(* A committed swipe is announced to one consumer at a time: its event is  *)
(* with its request, in the outbox, ready in the queue or with one live    *)
(* handler, never in two of these places (swipe.py:75, processor.py:209).  *)
Holders(s) ==
    {<<"request", r>> : r \in {q \in Requests : /\ requests[q].stage = "committed"
                                                /\ requests[q].swipe = s}}
    \cup {<<"task", t>> : t \in {x \in Live : tasks[x].event = s}}
    \cup {<<"outbox", o>> : o \in outbox \cap {s}}
    \cup {<<"queue", q>> : q \in queue \cap {s}}

EventInOnePlace == \A s \in swipes : \A g, h \in Holders(s) : g = h

(* The two members of a row get at most one notice of it, each naming the  *)
(* other, and a notice of a row exists only once the row is committed: an  *)
(* event that is handled again never announces its row again.              *)
NotifiedOnce ==
    \A n \in Notice :
        sent[n] # 0 =>
          /\ sent[n] = 1
          /\ n.match \in matches
          /\ {n.to, n.other} = {n.match[1], n.match[2]}

(* A row reaches the analytics topic only after both members have their    *)
(* notice (the order of processor.py:158-183).                             *)
AnnouncedAfterNotices ==
    \A m \in matchEvents :
        \A n \in Notice :
            n.match = m /\ {n.to, n.other} = {m[1], m[2]} => sent[n] = 1

(* Of the requests for one pair at most one is answered 202, and its swipe *)
(* is stored; 409 is answered only when an earlier swipe is stored.        *)
ResponsesTruthful ==
    \A r \in Requests :
        LET s == requests[r].swipe IN
        /\ requests[r].status = 202 =>
              /\ s \in swipes
              /\ \A q \in Requests \ {r} :
                    requests[q].status = 202 =>
                        \/ requests[q].swipe.swiper # s.swiper
                        \/ requests[q].swipe.target # s.target
        /\ requests[r].status = 409 => HasSwiped(s.swiper, s.target)

-----------------------------------------------------------------------------
(* The pipeline implements Matchmaking: a like is a committed "like" row,  *)
(* a match is a pair with a row in either orientation.                     *)
Promise == INSTANCE Matchmaking WITH
    likes <- {<<s.swiper, s.target>> : s \in {x \in swipes : x.direction = "like"}},
    matched <- {{m[1], m[2]} : m \in matches}

ImplementsMatchmaking == Promise!MatchmakingSpec

KeepsPromise == Promise!MatchmakingFairSpec

-----------------------------------------------------------------------------

Notified(u, v) ==
    /\ sent[[match |-> <<u, v>>, to |-> u, other |-> v]] > 0
    /\ sent[[match |-> <<u, v>>, to |-> v, other |-> u]] > 0

(* Both members of a committed row are notified in the end, unless a       *)
(* failure ended the handler that stored the row before it had told both:  *)
(* the event that is delivered again finds the row and tells nobody        *)
(* (processor.py:129-140, 158-173).  No other failure is excused.          *)
NotifiedUnlessFailure ==
    \A u, v \in Users :
        <<u, v>> \in matches ~> Notified(u, v) \/ <<u, v>> \in silenced

-----------------------------------------------------------------------------
(* What tests and comments expect of a pair: one match.  scripts/          *)
(* scenario_test.py:169 checks that a user sees 1 match, processor.py:129  *)
(* says "Prevent duplicate matches (check both orientations)".             *)
OneMatchPerPair ==
    \A m \in matches : m[1] # m[2] => <<m[2], m[1]>> \notin matches
=============================================================================
