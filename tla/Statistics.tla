----------------------------- MODULE Statistics -----------------------------
(***************************************************************************)
(* The statistics of GraphQL (Query.stats, api/graphql_schema.py), asked   *)
(* while the pipeline runs.  The resolver counts three times, and awaits   *)
(* each count: every one is of the rows that are committed when it runs.   *)
(***************************************************************************)
EXTENDS MatchPipeline

CONSTANTS
    Anonymous       \* the user of a query that is not asked yet

ASSUME StatisticsAssumption == Anonymous \notin Users

VARIABLES
    query           \* a running resolver: its user and what it has counted

statVars == <<vars, query>>

Query == [stage : {"unasked", "likes", "matches"}, user : Users \cup {Anonymous},
          total : Nat, likes : Nat]

Unasked == [stage |-> "unasked", user |-> Anonymous, total |-> 0, likes |-> 0]

SwipesOf(u) == Cardinality({s \in swipes : s.swiper = u})

(* Mutant: the likes of all users are counted. *)
LikesOfAll(u) == Cardinality({s \in swipes : s.direction = "like"})

LikesOf(u) == Cardinality({s \in swipes : s.swiper = u /\ s.direction = "like"})

(* Rows, and a pair may have two. *)
MatchesOf(u) == Cardinality({m \in matches : u \in {m[1], m[2]}})

StatInit ==
    /\ Init
    /\ query = Unasked

CountSwipes(u) ==
    /\ query.stage = "unasked"
    /\ query' = [query EXCEPT !.stage = "likes", !.user = u, !.total = SwipesOf(u)]
    /\ UNCHANGED vars

CountLikes ==
    /\ query.stage = "likes"
    /\ query' = [query EXCEPT !.stage = "matches", !.likes = LikesOf(query.user)]
    /\ UNCHANGED vars

(* The last count is MatchesOf(query.user); the answer follows at once. *)
CountMatches ==
    /\ query.stage = "matches"
    /\ query' = Unasked
    /\ UNCHANGED vars

StatNext ==
    \/ Next /\ UNCHANGED query
    \/ (\E u \in Users : CountSwipes(u)) \/ CountLikes \/ CountMatches

StatSpec == StatInit /\ [][StatNext]_statVars

-----------------------------------------------------------------------------
(* passes_sent is total_swipes - likes_sent, match_rate is matches_count / *)
(* likes_sent: when the user has stored no swipe since the first count, no *)
(* pass is missing, and there are at most two rows of `matches` for each   *)
(* like (both orientations), whatever the handlers store meanwhile: the    *)
(* rate is at most 200, and 0 stands for no match when there is no like.   *)
StatsAddUp ==
    [][CountMatches /\ query.total = SwipesOf(query.user)
         => /\ query.likes <= query.total
            /\ MatchesOf(query.user) <= 2 * query.likes]_statVars
=============================================================================
