---------------------------- MODULE Matchmaking ----------------------------
(***************************************************************************)
(* What the users of the application are promised: a pair of users is      *)
(* matched when each has liked the other, never otherwise, for ever, and   *)
(* soon.  README.md:9-11 and the docstring of match-processor/processor.py *)
(* describe the service so; queues and handlers are not seen.              *)
(***************************************************************************)
CONSTANT Users

VARIABLES
    likes,          \* pairs <<u, v>>: u has liked v
    matched         \* sets {u, v}: u and v are a match

MatchmakingVars == <<likes, matched>>

MatchmakingInit == likes = {} /\ matched = {}

Like(u, v) ==
    /\ u # v
    /\ <<u, v>> \notin likes
    /\ likes' = likes \cup {<<u, v>>}
    /\ UNCHANGED matched

MakeMatch(u, v) ==
    /\ {<<u, v>>, <<v, u>>} \subseteq likes
    /\ {u, v} \notin matched
    /\ matched' = matched \cup {{u, v}}
    /\ UNCHANGED likes

MatchmakingNext ==
    \E u, v \in Users : Like(u, v) \/ MakeMatch(u, v)

MatchmakingSpec ==
    MatchmakingInit /\ [][MatchmakingNext]_MatchmakingVars

MatchmakingFairSpec ==
    /\ MatchmakingSpec
    /\ \A u, v \in Users : WF_MatchmakingVars(MakeMatch(u, v))
=============================================================================
