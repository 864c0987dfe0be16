--------------------------- MODULE Recommendation ---------------------------
(***************************************************************************)
(* A recommendation, from the validated request to the ranked items:        *)
(* RecommendationHandler, RankingEngine, RankingModel and FeatureStore of    *)
(* src/recommend. The handler runs on a loop thread without suspending; its *)
(* calls of the store are the steps, since each of them changes a cache.     *)
(*                                                                          *)
(* A feature vector is known by the seed it is computed from. Scores are in  *)
(* thousandths, Similarity (cosine, mapped to 0 .. 1) in tenths, and the     *)
(* sigmoid, which keeps the order of the scores, is left out. Scene, reason, *)
(* category, latencies and the trace id do not influence what is returned.   *)
(***************************************************************************)
EXTENDS LruCache, SequencesExt

CONSTANTS
    ItemCount,      \* candidates recalled for every request, 100 in the code
    UserCapacity,
    ItemCapacity,
    Similarity      \* [user, item -> 0 .. 10]

ASSUME CapacityAssumption ==
    /\ ItemCount \in Nat /\ UserCapacity \in Nat /\ ItemCapacity \in Nat
    /\ 1 .. ItemCount \subseteq Keys

Items == 1 .. ItemCount

VARIABLES
    users,   \* userFeatureCache_
    items,   \* itemFeatureCache_
    stats,   \* cacheHits_, cacheMisses_, itemCacheHits_, itemCacheMisses_
    job      \* the handler's locals

storeVars == <<users, items, stats>>

NoJob == [at |-> "none", user |-> 0, count |-> 0, vector |-> 0,
          scores |-> <<>>, result |-> <<>>]

RecommendationInit ==
    /\ users = NewCache
    /\ items = NewCache
    /\ stats = [userHits |-> 0, userMisses |-> 0, itemHits |-> 0, itemMisses |-> 0]
    /\ job = NoJob

-----------------------------------------------------------------------------
(* FeatureStore                                                             *)

GenerateRandom(seed) == [seed |-> seed]

Feature(c, k) == IF k \in Cached(c) THEN c.value[k] ELSE GenerateRandom(k)

Fetch(c, k, capacity) ==
    IF k \in Cached(c) THEN Get(c, k) ELSE Put(c, k, GenerateRandom(k), capacity)

GetUserFeature ==
    /\ job.at = "user"
    /\ job' = [job EXCEPT !.at = "items", !.vector = Feature(users, job.user)]
    /\ users' = Fetch(users, job.user, UserCapacity)
    /\ stats' = IF job.user \in Cached(users) THEN [stats EXCEPT !.userHits = @ + 1]
                ELSE [stats EXCEPT !.userMisses = @ + 1]
    /\ UNCHANGED items

-----------------------------------------------------------------------------
(* RankingModel and RankingEngine                                           *)

SourceScore(i) == CASE i % 3 = 0 -> 900 [] i % 3 = 1 -> 700 [] i % 3 = 2 -> 500
RecallScore(i) == CASE i % 3 = 0 -> 800 [] i % 3 = 1 -> 600 [] i % 3 = 2 -> 400
Popularity(i)  == 30 + (i % 50)

\* The weights are 0.4, 0.2, 0.2 and 0.2.
Score(userVector, itemVector, i) ==
    40 * Similarity[userVector.seed, itemVector.seed] + 2 * Popularity(i)
        + (SourceScore(i) \div 5) + (RecallScore(i) \div 5)

\* One turn of the loop over the candidates.
GetItemFeature ==
    LET i == Len(job.scores) + 1 IN
    /\ job.at = "items" /\ i <= ItemCount
    /\ job' = [job EXCEPT !.scores = Append(@, Score(job.vector, Feature(items, i), i))]
    /\ items' = Fetch(items, i, ItemCapacity)
    /\ stats' = IF i \in Cached(items) THEN [stats EXCEPT !.itemHits = @ + 1]
                ELSE [stats EXCEPT !.itemMisses = @ + 1]
    /\ UNCHANGED users

\* What a sort in descending order of the scores may return.
Sorted(scores) ==
    {order \in SetToSeqs(DOMAIN scores) :
        \A i, j \in DOMAIN order : i < j => scores[order[i]] >= scores[order[j]]}

\* The best job.count candidates, or all.
Rank ==
    /\ job.at = "items" /\ Len(job.scores) = ItemCount
    /\ \E order \in Sorted(job.scores) :
          job' = [job EXCEPT !.at = "done",
                    !.result = SubSeq(order, 1, IF job.count < ItemCount
                                                THEN job.count ELSE ItemCount)]
    /\ UNCHANGED storeVars

-----------------------------------------------------------------------------
(* RecommendationHandler                                                    *)

Valid(user, count) == user # 0 /\ count > 0 /\ count <= 100

\* An invalid request gets an empty recommendation.
HandleRecommendation(user, count) ==
    job' = [NoJob EXCEPT !.user = user, !.count = count,
                         !.at = IF Valid(user, count) THEN "user" ELSE "done"]

Recommending == GetUserFeature \/ GetItemFeature \/ Rank

-----------------------------------------------------------------------------
\* The best candidates by the vectors of the database, no cache in between.
BestFor(user, count, result) ==
    LET best(i) == Score(GenerateRandom(user), GenerateRandom(i), i)
        chosen == Range(result)
    IN  IF ~Valid(user, count) THEN result = <<>>
        ELSE /\ chosen \subseteq Items
             /\ Len(result) = Cardinality(chosen)
             /\ Len(result) = IF count < ItemCount THEN count ELSE ItemCount
             /\ \A i, j \in DOMAIN result :
                   i < j => best(result[i]) >= best(result[j])
             /\ \A i \in chosen, j \in Items \ chosen : best(i) >= best(j)
=============================================================================
