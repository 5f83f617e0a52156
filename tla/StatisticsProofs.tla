-------------------------- MODULE StatisticsProofs --------------------------
(***************************************************************************)
(* The statistics of a user do not contradict each other, for any users,   *)
(* requests, handlers and failures of the pipeline that runs meanwhile.    *)
(***************************************************************************)
EXTENDS Statistics, MatchPipelineProofs

Own(u) == {s \in swipes : s.swiper = u}

OwnLikes(u) == {s \in swipes : s.swiper = u /\ s.direction = "like"}

(* What has been counted is not more than there is now; and when nothing   *)
(* was stored since the first count, the second one is still right.        *)
CountedInv ==
    /\ query \in Query
    /\ query.stage # "unasked" => query.total <= SwipesOf(query.user)
    /\ query.stage = "matches" /\ query.total = SwipesOf(query.user)
          => query.likes = LikesOf(query.user)

StatInv == IsFiniteSet(swipes) /\ CountedInv

-----------------------------------------------------------------------------
(* A set that grows and counts the same is the same. *)
LEMMA SameCount ==
    ASSUME NEW S, NEW T, IsFiniteSet(T), S \subseteq T
    PROVE  /\ Cardinality(S) \in Nat /\ Cardinality(T) \in Nat
           /\ Cardinality(S) <= Cardinality(T)
           /\ Cardinality(S) = Cardinality(T) => S = T
<1>1. IsFiniteSet(S)
  BY FS_Subset
<1> QED BY <1>1, FS_Subset, FS_CardinalityType

LEMMA CountsAreFinite ==
    ASSUME IsFiniteSet(swipes), NEW u
    PROVE  /\ IsFiniteSet(Own(u)) /\ IsFiniteSet(OwnLikes(u))
           /\ SwipesOf(u) = Cardinality(Own(u)) /\ SwipesOf(u) \in Nat
           /\ LikesOf(u) = Cardinality(OwnLikes(u)) /\ LikesOf(u) \in Nat
           /\ LikesOf(u) <= SwipesOf(u)
<1>1. Own(u) \subseteq swipes /\ OwnLikes(u) \subseteq Own(u)
  BY DEF Own, OwnLikes
<1>2. IsFiniteSet(Own(u)) /\ IsFiniteSet(OwnLikes(u))
  BY <1>1, FS_Subset
<1>3. SwipesOf(u) = Cardinality(Own(u)) /\ LikesOf(u) = Cardinality(OwnLikes(u))
  BY DEF SwipesOf, LikesOf, Own, OwnLikes
<1> QED BY <1>1, <1>2, <1>3, SameCount

(* One row at a time is stored. *)
LEMMA StaysFinite ==
    ASSUME IsFiniteSet(swipes), [Next]_vars
    PROVE  IsFiniteSet(swipes')
<1>1. ASSUME NEW r \in Requests, CommitSwipe(r) PROVE IsFiniteSet(swipes')
  <2>1. swipes' = swipes \/ \E s : swipes' = swipes \cup {s}
    BY <1>1 DEF CommitSwipe
  <2> QED BY <2>1, FS_AddElement
<1>2. CASE ApiNext
  BY <1>1, <1>2
     DEF ApiNext, ReceiveRefused, Receive, Handle, CheckDuplicate, Respond,
         RequestFails, Publish, PublishFails, ApiCrash, tables
<1>3. CASE ProcNext
  BY <1>3
     DEF ProcNext, TaskStep, Deliver, FindReverse, FindExisting, Insert,
         NotifySwiper, NotifyTarget, Stream, Ack, Raise, ProcessorCrash,
         ConnectionLost, tables
<1> QED BY <1>2, <1>3 DEF Next, vars

(* While the pipeline runs, a count can only become too low. *)
LEMMA CountsGrowOld ==
    ASSUME StatInv, [Next]_vars, UNCHANGED query
    PROVE  StatInv'
<1> DEFINE u == query.user
<1>1. IsFiniteSet(swipes) /\ IsFiniteSet(swipes') /\ swipes \subseteq swipes'
  BY StaysFinite, TablesGrow DEF StatInv
<1>2. Own(u) \subseteq Own(u)' /\ IsFiniteSet(Own(u)')
  <2>1. Own(u) \subseteq Own(u)' /\ Own(u)' \subseteq swipes'
    BY <1>1 DEF Own
  <2> QED BY <1>1, <2>1, FS_Subset
<1>3. /\ SwipesOf(u) \in Nat /\ SwipesOf(u)' \in Nat /\ SwipesOf(u) <= SwipesOf(u)'
      /\ SwipesOf(u) = SwipesOf(u)' => Own(u) = Own(u)'
  <2>1. SwipesOf(u) = Cardinality(Own(u)) /\ SwipesOf(u)' = Cardinality(Own(u)')
    BY DEF SwipesOf, Own
  <2> QED BY <1>2, <2>1, SameCount
<1>4. Own(u) = Own(u)' => LikesOf(u)' = LikesOf(u)
  <2>1. LikesOf(u) = Cardinality({s \in Own(u) : s.direction = "like"})
    <3>1. {s \in swipes : s.swiper = u /\ s.direction = "like"}
            = {s \in Own(u) : s.direction = "like"}
      BY DEF Own
    <3> QED BY <3>1 DEF LikesOf
  <2>2. LikesOf(u)' = Cardinality({s \in Own(u)' : s.direction = "like"})
    <3>1. {s \in swipes' : s.swiper = u' /\ s.direction = "like"}
            = {s \in Own(u)' : s.direction = "like"}
      BY DEF Own
    <3> QED BY <3>1 DEF LikesOf
  <2> QED BY <2>1, <2>2
<1>5. CountedInv'
  <2>1. u' = u
    OBVIOUS
  <2>2. query' \in Query /\ query.total \in Nat
    BY DEF StatInv, CountedInv, Query
  <2>3. /\ query.stage # "unasked" => query.total <= SwipesOf(u)
        /\ query.stage = "matches" /\ query.total = SwipesOf(u) => query.likes = LikesOf(u)
    BY DEF StatInv, CountedInv
  <2>4. query.stage # "unasked" => query.total <= SwipesOf(u)'
    BY <1>3, <2>2, <2>3
  <2>5. query.stage = "matches" /\ query.total = SwipesOf(u)' => query.likes = LikesOf(u)'
    BY <1>3, <1>4, <2>2, <2>3
  <2> QED BY <2>1, <2>2, <2>4, <2>5 DEF CountedInv
<1> QED BY <1>1, <1>5 DEF StatInv

(* A count is right when it is made. *)
LEMMA QueryMoves ==
    ASSUME StatInv, UNCHANGED vars,
           (\E u \in Users : CountSwipes(u)) \/ CountLikes \/ CountMatches
    PROVE  StatInv'
<1>1. swipes' = swipes /\ IsFiniteSet(swipes)
  BY DEF vars, StatInv
<1>2. ASSUME NEW v PROVE /\ SwipesOf(v)' = SwipesOf(v) /\ LikesOf(v)' = LikesOf(v)
                         /\ SwipesOf(v) \in Nat /\ LikesOf(v) \in Nat
  BY <1>1, CountsAreFinite DEF SwipesOf, LikesOf
<1> HIDE DEF SwipesOf, LikesOf
<1>3. ASSUME NEW u \in Users, CountSwipes(u) PROVE CountedInv'
  <2>1. /\ query'.stage = "likes" /\ query'.user = u /\ query'.total = SwipesOf(u)
        /\ query' \in Query
    BY <1>2, <1>3 DEF CountSwipes, StatInv, CountedInv, Query
  <2>2. SwipesOf(u)' = SwipesOf(u) /\ SwipesOf(u) \in Nat
    BY <1>2
  <2> QED BY <2>1, <2>2 DEF CountedInv
<1>4. ASSUME CountLikes PROVE CountedInv'
  <2>1. /\ query.stage = "likes" /\ query'.stage = "matches" /\ query'.user = query.user
        /\ query'.total = query.total /\ query'.likes = LikesOf(query.user)
        /\ query' \in Query
    BY <1>2, <1>4 DEF CountLikes, StatInv, CountedInv, Query
  <2>2. /\ SwipesOf(query.user)' = SwipesOf(query.user)
        /\ LikesOf(query.user)' = LikesOf(query.user)
    BY <1>1, <2>1 DEF SwipesOf, LikesOf
  <2> QED BY <2>1, <2>2 DEF StatInv, CountedInv
<1>5. ASSUME CountMatches PROVE CountedInv'
  BY <1>5 DEF CountMatches, CountedInv, Unasked, Query
<1> QED BY <1>1, <1>3, <1>4, <1>5 DEF StatInv

LEMMA StatAlways == StatSpec => [](StatInv /\ MatchesAreMutual /\ TypeOK)
<1>1. StatSpec => Spec
  <2>1. [StatNext]_statVars => [Next]_vars
    BY DEF StatNext, statVars, CountSwipes, CountLikes, CountMatches
  <2> QED BY <2>1, PTL DEF StatSpec, StatInit, Spec
<1>2. StatInit => StatInv
  BY FS_EmptySet DEF StatInit, Init, StoreInit, StatInv, CountedInv, Unasked, Query
<1>3. StatInv /\ [StatNext]_statVars => StatInv'
  <2> SUFFICES ASSUME StatInv, [StatNext]_statVars PROVE StatInv'
    OBVIOUS
  <2>1. CASE [Next]_vars /\ UNCHANGED query
    BY <2>1, CountsGrowOld
  <2>2. CASE (\E u \in Users : CountSwipes(u)) \/ CountLikes \/ CountMatches
    BY <2>2, QueryMoves DEF CountSwipes, CountLikes, CountMatches
  <2> QED BY <2>1, <2>2 DEF StatNext, statVars
<1> QED BY <1>1, <1>2, <1>3, RowsAreMutual, TypeCorrect, PTL DEF StatSpec

-----------------------------------------------------------------------------
(* A row of `matches` in which the user comes first, or second, stands for *)
(* his like of the other one.                                              *)
LEMMA NotMoreThan ==
    ASSUME NEW S, IsFiniteSet(S), NEW T, NEW R, NEW f \in Surjection(S, T), R \subseteq T
    PROVE  /\ IsFiniteSet(R) /\ Cardinality(R) \in Nat /\ Cardinality(S) \in Nat
           /\ Cardinality(R) <= Cardinality(S)
<1>1. IsFiniteSet(T) /\ Cardinality(T) <= Cardinality(S)
  BY FS_Surjection
<1>2. IsFiniteSet(R) /\ Cardinality(R) <= Cardinality(T)
  BY <1>1, FS_Subset
<1> QED BY <1>1, <1>2, FS_CardinalityType

LEMMA MatchesHaveLikes ==
    ASSUME TypeOK, MatchesAreMutual, IsFiniteSet(swipes), NEW u
    PROVE  MatchesOf(u) <= 2 * LikesOf(u)
<1> DEFINE L == OwnLikes(u)
           first == [s \in L |-> <<s.swiper, s.target>>]
           second == [s \in L |-> <<s.target, s.swiper>>]
           Firsts == {first[s] : s \in L}
           Seconds == {second[s] : s \in L}
           F == {m \in matches : m[1] = u}
           G == {m \in matches : m[2] = u}
<1>1. IsFiniteSet(L) /\ LikesOf(u) = Cardinality(L)
  BY CountsAreFinite
<1>2. ASSUME NEW m \in matches
      PROVE  /\ m = <<m[1], m[2]>>
             /\ m[1] = u => \E s \in L : s.swiper = u /\ s.target = m[2]
             /\ m[2] = u => \E s \in L : s.swiper = u /\ s.target = m[1]
  <2>1. m \in Users \X Users
    BY DEF TypeOK, StoreTypeOK
  <2>2. Liked(m[1], m[2]) /\ Liked(m[2], m[1])
    BY DEF MatchesAreMutual, Mutual
  <2>3. ASSUME NEW v, Liked(u, v) PROVE \E s \in L : s.swiper = u /\ s.target = v
    <3> DEFINE like == [swiper |-> u, target |-> v, direction |-> "like"]
    <3>1. like \in L
      BY <2>3 DEF Liked, OwnLikes
    <3> QED BY <3>1
  <2> QED BY <2>1, <2>2, <2>3
<1>3. F \subseteq Firsts
  <2> SUFFICES ASSUME NEW m \in matches, m[1] = u PROVE m \in Firsts
    OBVIOUS
  <2>1. PICK s \in L : s.swiper = u /\ s.target = m[2]
    BY <1>2
  <2>2. first[s] = m
    BY <1>2, <2>1
  <2> QED BY <2>1, <2>2
<1>4. G \subseteq Seconds
  <2> SUFFICES ASSUME NEW m \in matches, m[2] = u PROVE m \in Seconds
    OBVIOUS
  <2>1. PICK s \in L : s.swiper = u /\ s.target = m[1]
    BY <1>2
  <2>2. second[s] = m
    BY <1>2, <2>1
  <2> QED BY <2>1, <2>2
<1>5. first \in Surjection(L, Firsts) /\ second \in Surjection(L, Seconds)
  BY DEF Surjection
<1>6. {m \in matches : u \in {m[1], m[2]}} = F \cup G
  OBVIOUS
<1> HIDE DEF L, first, second, Firsts, Seconds, F, G
<1>7. /\ IsFiniteSet(F) /\ Cardinality(F) \in Nat /\ Cardinality(F) <= Cardinality(L)
      /\ IsFiniteSet(G) /\ Cardinality(G) \in Nat /\ Cardinality(G) <= Cardinality(L)
      /\ Cardinality(L) \in Nat
  BY <1>1, <1>3, <1>4, <1>5, NotMoreThan
<1>8. /\ Cardinality(F \cup G) = Cardinality(F) + Cardinality(G) - Cardinality(F \cap G)
      /\ Cardinality(F \cap G) \in Nat
  <2>1. IsFiniteSet(F \cap G)
    BY <1>7, FS_Subset
  <2> QED BY <1>7, <2>1, FS_Union, FS_CardinalityType
<1>9. MatchesOf(u) = Cardinality(F \cup G)
  BY <1>6 DEF MatchesOf
<1> QED BY <1>1, <1>7, <1>8, <1>9

(* Passes are not negative and the rate is at most 200, when the user has  *)
(* stored nothing since the first count (Query.stats).                     *)
THEOREM StatisticsAddUp == StatSpec => StatsAddUp
<1>1. ASSUME StatInv, MatchesAreMutual, TypeOK, CountMatches,
             query.total = SwipesOf(query.user)
      PROVE  /\ query.likes <= query.total
             /\ MatchesOf(query.user) <= 2 * query.likes
  <2>1. query.stage = "matches" /\ query.likes = LikesOf(query.user)
    BY <1>1 DEF CountMatches, StatInv, CountedInv
  <2>2. LikesOf(query.user) <= SwipesOf(query.user)
    BY <1>1, CountsAreFinite DEF StatInv
  <2>3. MatchesOf(query.user) <= 2 * LikesOf(query.user)
    BY <1>1, MatchesHaveLikes DEF StatInv
  <2> QED BY <1>1, <2>1, <2>2, <2>3
<1>2. StatInv /\ MatchesAreMutual /\ TypeOK
        => [CountMatches /\ query.total = SwipesOf(query.user)
             => /\ query.likes <= query.total
                /\ MatchesOf(query.user) <= 2 * query.likes]_statVars
  BY <1>1
<1> QED BY <1>2, StatAlways, PTL DEF StatsAddUp
=============================================================================
