--------------------------- MODULE EventIntelligence ---------------------------
(*****************************************************************************)
(* The event graph of one news cluster and the model calls it pays for         *)
(* (graphs/event_intelligence, llm).                                           *)
(*                                                                             *)
(* A node of the production graph makes one structured call.  The call walks   *)
(* the aliases its task type routes to: an alias without credentials is        *)
(* skipped, a transient failure is posted again, an answer outside the schema  *)
(* is sent back for repair, and anything else falls through to the next alias. *)
(* When no alias is left the whole cluster fails.                              *)
(*****************************************************************************)
EXTENDS Naturals, Sequences, FiniteSets

CONSTANTS
  Aliases,        \* the model aliases
  Route,          \* Route[t]: the aliases of task type t, in order (models.yaml)
  Configured,     \* the sets of aliases whose provider may have its credentials
  Repairs,        \* llm_schema_repair_attempts
  Retries,        \* llm_transient_retry_attempts
  Factors,        \* factor ids a model may name
  AllowedFactors, \* those of the factor configuration
  Strengths,      \* the strengths the assessment may give
  TierSets        \* the source tiers of the cluster's documents, one set per cluster

TaskTypes == {"extraction", "reasoning", "expert_review"}

ASSUME EventAssumption ==
  /\ Route \in [TaskTypes -> Seq(Aliases)] /\ \A c \in Configured : c \subseteq Aliases
  /\ Repairs \in Nat /\ Retries \in Nat
  /\ AllowedFactors \subseteq Factors /\ Strengths \subseteq 1 .. 5
  /\ \A s \in TierSets : s # {} /\ s \subseteq {"S", "A", "B", "C", "D"}

\* An empty answer: no mapping, no review, no event yet.
NoReview == [approved |-> FALSE, factors |-> {}, strength |-> 0]
NoEvent == [factors |-> {}, strength |-> 0, verification |-> "none", cites |-> <<>>]

LLMNodes == {"extract", "map_factors", "assess", "validate", "conflict", "expert_review", "finalize"}
TaskOf == [n \in {"extract", "map_factors", "assess", "expert_review"} |->
             CASE n = "extract" -> "extraction" [] n = "expert_review" -> "expert_review"
               [] OTHER -> "reasoning"]

VARIABLES
  graphMode,    \* event_graph_mode and the engine that runs the production graph
  keyed,        \* the aliases whose provider is configured
  cluster,      \* tiers: the source tiers; rumor: a title says it is one
  node,         \* the node that runs, or how the graph ended
  call,         \* the structured call of the node: alias in the route, attempts, retries
  posts,        \* HTTP posts of this call
  called,       \* the nodes whose call was answered, as their executions are listed
  errors,       \* validation flags
  detected, mapping, strength, implemented,   \* what the model answered so far
  escalate, review, event

graphVars == <<graphMode, keyed, cluster, node, call, posts, called, errors, detected,
               mapping, strength, implemented, escalate, review, event>>

NoCall == [alias |-> 0, repairs |-> 0, retries |-> 0]
RouteOf(n) == Route[TaskOf[n]]

\* The posts one structured call can cost (posts is not counted any further).
PostBound(n) == Len(RouteOf(n)) * (Repairs + 1) * (Retries + 1)
MostPosts == CHOOSE b \in {PostBound(n) : n \in DOMAIN TaskOf} :
               \A n \in DOMAIN TaskOf : PostBound(n) <= b

EventTypeOK ==
  /\ graphMode \in {"mock", "direct", "langgraph"} /\ keyed \in Configured
  /\ cluster \in [tiers : TierSets, rumor : BOOLEAN]
  /\ node \in LLMNodes \cup {"ended", "exhausted"}
  /\ call = NoCall \/ (node \in DOMAIN TaskOf /\ call.alias \in 1 .. Len(RouteOf(node)))
  /\ call.repairs \in 0 .. Repairs /\ call.retries \in 0 .. Retries
  /\ posts \in 0 .. MostPosts + 1
  /\ called \in Seq(DOMAIN TaskOf)
  /\ errors \subseteq {"UNVERIFIED_D_TIER_ONLY", "IMPLEMENTATION_TOO_HIGH_FOR_RUMOR"}
  /\ detected \in BOOLEAN /\ mapping \subseteq Factors /\ strength \in Strengths \cup {0}
  /\ implemented \in BOOLEAN /\ escalate \in BOOLEAN
  /\ review \in [approved : BOOLEAN, factors : SUBSET Factors, strength : Strengths \cup {0}]
  /\ event.factors \subseteq Factors /\ event.strength \in Strengths \cup {0}
  /\ event.verification \in {"none", "VERIFIED", "PARTIALLY_VERIFIED", "UNVERIFIED"}

EventInit ==
  /\ graphMode \in {"mock", "direct", "langgraph"} /\ keyed \in Configured
  /\ cluster \in [tiers : TierSets, rumor : BOOLEAN]
  /\ node = "extract" /\ call = NoCall /\ posts = 0 /\ called = <<>> /\ errors = {}
  /\ detected = FALSE /\ mapping = {} /\ strength = 0 /\ implemented = FALSE
  /\ escalate = FALSE /\ review = NoReview /\ event = NoEvent

answered == <<errors, detected, mapping, strength, implemented, escalate, review, event>>
given == <<graphMode, keyed, cluster>>

-----------------------------------------------------------------------------
(* One structured call (llm/service.py, llm/providers/http_compatible.py).   *)

Calling == graphMode # "mock" /\ node \in DOMAIN TaskOf

\* The first alias from position i on whose provider is configured: the others are
\* skipped (RuntimeError of _provider) and never posted to.  0: no alias is left.
NextAlias(i) ==
  LET left == {j \in i .. Len(RouteOf(node)) : RouteOf(node)[j] \in keyed}
  IN IF left = {} THEN 0 ELSE CHOOSE j \in left : \A k \in left : j <= k

\* Mutant of FallThrough: the failed alias is asked again.
SameAlias(i) == NextAlias(i)

\* LLMProviderError: the execution is kept and the next alias is tried.
FallThrough(i) == NextAlias(i + 1)

\* structured_call goes on with alias a, or raises LLMFallbackExhausted.
GoesOnWith(a) ==
  IF a = 0 THEN node' = "exhausted" /\ call' = NoCall
           ELSE node' = node /\ call' = [alias |-> a, repairs |-> 0, retries |-> 0]

\* structured_call starts with the first configured alias of the route.
CallStarts ==
  /\ Calling /\ call = NoCall
  /\ GoesOnWith(NextAlias(1)) /\ posts' = 0
  /\ UNCHANGED <<given, called, answered>>

Posted == posts' = IF posts <= MostPosts THEN posts + 1 ELSE posts

\* Mutant of RetriesLeft: one retry more than configured.
RetriesThrough == call.retries <= Retries

\* _post_with_transient_retry: attempt >= transient_retry_attempts gives up.
RetriesLeft == call.retries < Retries

\* A transient status, a timeout or a transport error: posted again while retries are left.
PostedInVain ==
  /\ Calling /\ call.alias > 0 /\ Posted
  /\ IF RetriesLeft THEN node' = node /\ call' = [call EXCEPT !.retries = @ + 1]
                    ELSE GoesOnWith(FallThrough(call.alias))
  /\ UNCHANGED <<given, called, answered>>

\* A status that no retry changes, or a body that is not JSON: on to the next alias at once.
PostRejected ==
  /\ Calling /\ call.alias > 0 /\ Posted
  /\ GoesOnWith(FallThrough(call.alias))
  /\ UNCHANGED <<given, called, answered>>

\* No choices, empty content, no JSON object, or JSON outside the schema: the error goes back
\* to the same alias while repairs are left; the repaired post has its own retries.
AnswerInvalid ==
  /\ Calling /\ call.alias > 0 /\ Posted
  /\ IF call.repairs < Repairs
       THEN node' = node /\ call' = [call EXCEPT !.repairs = @ + 1, !.retries = 0]
       ELSE GoesOnWith(FallThrough(call.alias))
  /\ UNCHANGED <<given, called, answered>>

-----------------------------------------------------------------------------
(* The routes and the nodes (graph.py, production.py).                       *)

\* Mutant of RouteAfterExtract: every headline is mapped.
AlwaysMap == "map_factors"

RouteAfterExtract == IF detected' THEN "map_factors" ELSE "finalize"

RouteAfterMapping == IF mapping' # {} THEN "assess" ELSE "finalize"

RouteAfterConflict == IF escalate' THEN "expert_review" ELSE "finalize"

\* build_event_graph: the edges of the compiled graph.
Edge(n) == CASE n = "extract" -> RouteAfterExtract [] n = "map_factors" -> RouteAfterMapping
             [] n = "assess" -> "validate" [] n = "validate" -> "conflict"
             [] n = "conflict" -> RouteAfterConflict [] n = "expert_review" -> "finalize"

\* DirectEventGraph._run_llm: the nested conditions of the path without LangGraph.
DirectStep(n) ==
  IF n = "extract" /\ RouteAfterExtract = "map_factors" THEN "map_factors"
  ELSE IF n = "map_factors" /\ RouteAfterMapping = "assess" THEN "assess"
  ELSE IF n = "assess" THEN "validate"
  ELSE IF n = "validate" THEN "conflict"
  ELSE IF n = "conflict" /\ RouteAfterConflict = "expert_review" THEN "expert_review"
  ELSE "finalize"

Leaves(n) == node' = IF graphMode = "langgraph" THEN Edge(n) ELSE DirectStep(n)

\* [*state.get("llm_executions", []), result.execution]
Executions(n) == Append(called, n)

\* The alias answers within the schema and the node stores what it said.
Answers(n) ==
  /\ Calling /\ node = n /\ call.alias > 0 /\ Posted
  /\ call' = NoCall /\ called' = Executions(n)
  /\ UNCHANGED given

ExtractAnswered ==
  /\ Answers("extract") /\ detected' \in BOOLEAN
  /\ UNCHANGED <<errors, mapping, strength, implemented, escalate, review, event>>
  /\ Leaves("extract")

\* map_factors_llm keeps the factors of the configuration only.
MappingAnswered ==
  /\ Answers("map_factors") /\ \E named \in SUBSET Factors : mapping' = named \cap AllowedFactors
  /\ UNCHANGED <<errors, detected, strength, implemented, escalate, review, event>>
  /\ Leaves("map_factors")

\* implemented: implementation >= 0.9.
AssessmentAnswered ==
  /\ Answers("assess") /\ strength' \in Strengths /\ implemented' \in BOOLEAN
  /\ UNCHANGED <<errors, detected, mapping, escalate, review, event>>
  /\ Leaves("assess")

ValidateEvent ==
  /\ graphMode # "mock" /\ node = "validate"
  /\ errors' = {e \in {"UNVERIFIED_D_TIER_ONLY"} : cluster.tiers = {"D"}}
       \cup {e \in {"IMPLEMENTATION_TOO_HIGH_FOR_RUMOR"} : implemented /\ cluster.rumor}
  /\ UNCHANGED <<given, call, posts, called, detected, mapping, strength, implemented,
                 escalate, review, event>>
  /\ Leaves("validate")

ExpertReviewMinStrength == 3

\* Mutant of Required: only high-impact events are reviewed.
HighImpactOnly == strength >= 4 /\ (errors # {} \/ Cardinality(cluster.tiers) > 2)

\* detect_conflict: a material event that is flagged, or of high impact and many source tiers.
Required ==
  /\ strength >= ExpertReviewMinStrength
  /\ errors # {} \/ (strength >= 4 /\ Cardinality(cluster.tiers) > 2)

DetectConflict ==
  /\ graphMode # "mock" /\ node = "conflict" /\ escalate' = Required
  /\ UNCHANGED <<given, call, posts, called, errors, detected, mapping, strength,
                 implemented, review, event>>
  /\ Leaves("conflict")

\* The reviewer's own mapping and impact are optional (empty and 0), and not filtered.
ReviewAnswered ==
  /\ Answers("expert_review")
  /\ review' \in [approved : BOOLEAN, factors : SUBSET Factors, strength : Strengths \cup {0}]
  /\ UNCHANGED <<errors, detected, mapping, strength, implemented, escalate, event>>
  /\ Leaves("expert_review")

Verification ==
  CASE "UNVERIFIED_D_TIER_ONLY" \in errors -> "UNVERIFIED"
    [] "UNVERIFIED_D_TIER_ONLY" \notin errors /\ errors # {} -> "PARTIALLY_VERIFIED"
    [] OTHER -> "VERIFIED"

Rejected == escalate /\ ~review.approved

\* finalize_event_llm: no event without a detected event, a mapping and the reviewer's consent.
FinalizeEvent ==
  /\ graphMode # "mock" /\ node = "finalize" /\ node' = "ended"
  /\ event' = IF ~detected \/ mapping = {} \/ Rejected THEN NoEvent
              ELSE [factors |-> IF review.factors # {} THEN review.factors ELSE mapping,
                    strength |-> IF review.strength # 0 THEN review.strength ELSE strength,
                    verification |-> Verification, cites |-> called]
  /\ UNCHANGED <<given, call, posts, called, errors, detected, mapping, strength,
                 implemented, escalate, review>>

\* The four mock nodes: rules on the title in place of the models; every headline becomes a
\* verified event, one without a factor included.
MockGraph ==
  /\ graphMode = "mock" /\ node = "extract" /\ node' = "ended"
  /\ detected' = TRUE
  /\ mapping' \in SUBSET AllowedFactors /\ strength' \in Strengths /\ implemented' \in BOOLEAN
  /\ event' = [factors |-> mapping', strength |-> strength', verification |-> "VERIFIED",
               cites |-> <<>>]
  /\ UNCHANGED <<given, call, posts, called, errors, escalate, review>>

CallMoves == CallStarts \/ PostedInVain \/ PostRejected \/ AnswerInvalid
GraphMoves == \/ ExtractAnswered \/ MappingAnswered \/ AssessmentAnswered \/ ReviewAnswered
              \/ ValidateEvent \/ DetectConflict \/ FinalizeEvent \/ MockGraph

EventNext == CallMoves \/ GraphMoves

\* Every post ends: an answer, an error status or the client's timeout.
EventFairness == WF_graphVars(EventNext)

EventSpec == EventInit /\ [][EventNext]_graphVars /\ EventFairness

-----------------------------------------------------------------------------
\* A call that may post has posted less often than aliases, repairs and retries allow together:
\* the retries of a repair and the fallbacks multiply, and nothing multiplies them further.
PostsBounded == call # NoCall => posts < PostBound(node)

\* The cost contract stated above the node table (graph.py:21-23): a headline that is no event
\* costs one call, one without a usable mapping two, and only a material, contested event the
\* fourth, in both engines alike; no call posts beyond its bound, and an event cites every
\* call that was paid for it, in their order.
CostContract ==
  /\ PostsBounded
  /\ node = "ended" /\ graphMode # "mock" =>
       /\ Len(called) = IF ~detected THEN 1 ELSE IF mapping = {} THEN 2
                        ELSE IF /\ strength >= 3
                                /\ errors # {} \/ (strength >= 4 /\ Cardinality(cluster.tiers) > 2)
                             THEN 4 ELSE 3
       /\ event # NoEvent => event.cites = <<"extract", "map_factors", "assess">>
                                             \o (IF escalate THEN <<"expert_review">> ELSE <<>>)

\* A material event that validation flagged becomes an event only with the reviewer's consent,
\* and no flagged event passes for a verified one (production.py:117-133, 170-185).
ContestedIsReviewed ==
  graphMode # "mock" /\ event # NoEvent =>
    /\ errors # {} /\ strength >= ExpertReviewMinStrength => review.approved
    /\ errors # {} <=> event.verification # "VERIFIED"
=============================================================================
