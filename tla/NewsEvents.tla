------------------------------- MODULE NewsEvents -------------------------------
(*****************************************************************************)
(* From headlines to events: what the news provider hands over, how documents  *)
(* are clustered before any model call and cut to the budget, and how the      *)
(* events that come back are merged (data/providers/news_akshare,              *)
(* services/news_clustering, services/event_dedup).                            *)
(*                                                                             *)
(* A title is a point on a line and two titles are the more similar the        *)
(* nearer they are: a relation that, like the similarity of the code, is       *)
(* symmetric and not transitive.                                               *)
(*****************************************************************************)
EXTENDS Integers, FiniteSets, Sequences, FiniteSetsExt, Folds, Functions

CONSTANTS
  MaxDocuments,   \* max_documents of news.yaml
  Lookback,       \* lookback_hours
  MaxGap,         \* max_time_gap_hours of clusters, max_gap_hours of events
  ClusterBudget   \* min(event_max_clusters, max_clusters)

ASSUME NewsAssumption ==
  /\ MaxDocuments \in Nat \ {0} /\ Lookback \in Nat \ {0}
  /\ MaxGap \in Nat /\ ClusterBudget \in Nat \ {0}

TierRank == [S |-> 5, A |-> 4, B |-> 3, C |-> 2, D |-> 1]
VerifyRank == [VERIFIED |-> 4, PARTIALLY_VERIFIED |-> 3, UNVERIFIED |-> 2, REJECTED |-> 1]

Apart(x, y) == IF x < y THEN y - x ELSE x - y
\* _title_similarity and _sim, and their thresholds: equal titles or neighbours.
Similarity(x, y) == IF Apart(x, y) > 2 THEN 0 ELSE 2 - Apart(x, y)
Alike(x, y) == Similarity(x, y) >= 1

\* Tuples of numbers, compared as Python compares tuples.
Before(s, t) ==
  \E i \in DOMAIN s : s[i] < t[i] /\ \A j \in 1 .. i - 1 : s[j] = t[j]

\* The element of a set with the greatest key; of several, any.
Greatest(set, key) == CHOOSE x \in set : \A y \in set : ~Before(key[x], key[y])

\* The elements of a set, greatest key first.
Descending(set, key) ==
  MapThenFoldSet(LAMBDA x, rest : <<x>> \o rest, <<>>,
                 LAMBDA x : x, LAMBDA s : Greatest(s, key), set)

\* What taking in the elements of a set one by one comes to, smallest key first: the greatest
\* is taken into what the others came to.
InOrder(Take(_, _), set, key) ==
  MapThenFoldSet(LAMBDA x, others : Take(others, x), <<>>,
                 LAMBDA x : x, LAMBDA s : Greatest(s, key), set)

-----------------------------------------------------------------------------
(* The provider.                                                             *)

\* AkshareGlobalNewsProvider.fetch: what was published in the window up to the cutoff and
\* meets the minimum relevance, the most relevant and then the latest first, capped.
FetchNews(feed, asOf) ==
  LET candidates == {h \in feed : /\ asOf - Lookback <= h.at /\ h.at <= asOf
                                  /\ h.relevance >= 1}
      ranked == Descending(candidates, [h \in candidates |-> <<h.relevance, h.at>>])
  IN {ranked[i] : i \in DOMAIN ranked \cap 1 .. MaxDocuments}

-----------------------------------------------------------------------------
(* Clusters.                                                                 *)

\* _canonical_document: the best tier, then the latest, then the first in the group; titles
\* are equally long here.
Canonical(group) == Greatest(group, [d \in group |-> <<TierRank[d.tier], d.at, -d.title>>])

\* The group a document joins: the first of those most similar to it.
BestGroup(groups, d) ==
  LET near == {i \in DOMAIN groups : /\ Apart(d.at, Canonical(groups[i]).at) <= MaxGap
                                     /\ Alike(d.title, Canonical(groups[i]).title)}
      score(i) == Similarity(d.title, Canonical(groups[i]).title)
  IN IF near = {} THEN 0
     ELSE Min({i \in near : \A j \in near : score(j) <= score(i)})

Joined(groups, d) ==
  LET i == BestGroup(groups, d)
  IN IF i = 0 THEN Append(groups, {d}) ELSE [groups EXCEPT ![i] = @ \cup {d}]

FirstSeen(group) == Min({d.at : d \in group})
LastSeen(group) == Max({d.at : d \in group})

\* cluster_news_documents: greedy, in the order of publication.
Clusters(docs) == InOrder(Joined, docs, [d \in docs |-> <<d.at, d.title>>])

\* _cluster_priority: more documents, the better source, the fresher.
Priority(group) == <<Cardinality(group), TierRank[Canonical(group).tier], LastSeen(group)>>

\* Mutant of Budgeted: the budget cuts the list where it ends.
FirstClusters(groups) == SubSeq(groups, 1, ClusterBudget)

\* _apply_cluster_budget: the clusters of the highest priority, in any order.
Budgeted(groups) ==
  SubSeq(Descending(Range(groups), [g \in Range(groups) |-> Priority(g)]), 1, ClusterBudget)

\* What the event graphs get.
ClustersFor(docs) ==
  IF Len(Clusters(docs)) <= ClusterBudget THEN Clusters(docs) ELSE Budgeted(Clusters(docs))

-----------------------------------------------------------------------------
(* Events.                                                                   *)

Quality(e) == <<VerifyRank[e.verification], TierRank[e.tier], e.confidence, e.strength>>

\* Mutant of Best: the two interpretations add up.
Summed(left, right) == [left EXCEPT !.strength = left.strength + right.strength,
                                    !.evidence = left.evidence \cup right.evidence,
                                    !.at = Min({left.at, right.at})]

\* _best: the better event keeps its impact; evidence and executions are joined, and the
\* earlier publication counts.
Best(left, right) ==
  LET primary == IF Before(Quality(left), Quality(right)) THEN right ELSE left
  IN [primary EXCEPT !.at = Min({left.at, right.at}), !.evidence = left.evidence \cup right.evidence]

Duplicate(existing, e) ==
  /\ existing.type = e.type /\ existing.factors = e.factors
  /\ Apart(existing.at, e.at) <= MaxGap
  /\ Alike(existing.title, e.title)

Merged(merged, e) ==
  LET same == {i \in DOMAIN merged : Duplicate(merged[i], e)}
  IN IF same = {} THEN Append(merged, e) ELSE [merged EXCEPT ![Min(same)] = Best(@, e)]

\* deduplicate_structured_events, in the order of publication; events of different types
\* never meet, so their order among each other is left out.
Deduplicated(events) == InOrder(Merged, events, [e \in events |-> <<e.at, e.title>>])
=============================================================================
