------------------------------- MODULE Research -------------------------------
(***************************************************************************)
(* One factor research request: the API submits it, a Prefect worker (or   *)
(* the API itself) searches, synthesises and stores evidence and a         *)
(* candidate, each write in a transaction of its own, is retried once, and *)
(* experts review the candidates.                                          *)
(***************************************************************************)
EXTENDS Integers, Sequences

CONSTANTS
    ResearchModes,  \* subset of {"mock", "live", "disabled"}
    ResearchAttempts, \* attempts of research_core_task (its retries plus one)
    MaxReviews,     \* bound on reviews
    NoRow           \* no row

ASSUME ResearchAssumption ==
    /\ ResearchModes \subseteq {"mock", "live", "disabled"}
    /\ ResearchAttempts \in Nat \ {0} /\ MaxReviews \in Nat
    /\ NoRow \notin {"PENDING", "RUNNING", "REVIEW_REQUIRED", "FAILED", "SHADOW", "REJECTED"}

VARIABLES
    mode,       \* research_mode
    submission, \* where POST /research is
    worker,     \* the flow run: its attempt, step and what it holds
    request,    \* research.requests: the status of the row
    evidence,   \* research.evidence_items: the attempts that stored theirs
    candidates, \* research.factor_candidates: per attempt the status, or NoRow
    reviews     \* research.approval_records: per review its attempt and action

researchVars == <<mode, submission, worker, request, evidence, candidates, reviews>>

Attempts == 1..ResearchAttempts
RequestStatuses == {"PENDING", "RUNNING", "REVIEW_REQUIRED", "FAILED"}
ReviewStatus == [approve_shadow |-> "SHADOW", reject |-> "REJECTED",
                 revise |-> "REVISION_REQUIRED"]
\* factor_candidates.status is VARCHAR(16); REVISION_REQUIRED has 17 characters.
StorableStatuses == {"REVIEW_REQUIRED", "SHADOW", "REJECTED"}

ResearchInit ==
    /\ mode \in ResearchModes
    /\ submission = "none"
    /\ worker = [attempt |-> 0, step |-> "none", found |-> FALSE]
    /\ request = NoRow
    /\ evidence = {}
    /\ candidates = [a \in Attempts |-> NoRow]
    /\ reviews = <<>>

-------------------------------------------------------------------------------
(* The repository *)

\* create_research_request: an existing row takes the status.
CreateRequest(status) == request' = status

\* update_research_request: nothing to update is nothing done.
UpdateRequest(status) == request' = IF request = NoRow THEN NoRow ELSE status

-------------------------------------------------------------------------------
(* POST /research *)

\* The deployment is started first ...
Dispatch ==
    /\ submission = "none"
    /\ submission' = "dispatched"
    /\ worker' = [worker EXCEPT !.attempt = 1, !.step = "begin"]
    /\ UNCHANGED <<mode, request, evidence, candidates, reviews>>

\* ... and the row is written after it, over whatever the worker has made of it.
WritePending ==
    /\ submission = "dispatched"
    /\ submission' = "answered"
    /\ CreateRequest("PENDING")
    /\ UNCHANGED <<mode, worker, evidence, candidates, reviews>>

\* Without Prefect the API runs the research itself, once.
RunDirectly ==
    /\ submission = "none"
    /\ submission' = "answered"
    /\ worker' = [worker EXCEPT !.attempt = ResearchAttempts, !.step = "begin"]
    /\ UNCHANGED <<mode, request, evidence, candidates, reviews>>

-------------------------------------------------------------------------------
(* run_factor_research *)

Working(step) == worker.step = step
Proceed(step) == worker' = [worker EXCEPT !.step = step]

BeginResearch ==
    /\ Working("begin")
    /\ CreateRequest("RUNNING")
    /\ worker' = [worker EXCEPT !.step = "search", !.found = FALSE]
    /\ UNCHANGED <<mode, submission, evidence, candidates, reviews>>

\* search_provider and _search_all: mock finds something always, live may find
\* nothing; RuntimeErrors (disabled, no key, no provider) count as nothing.
SearchOutcomes == CASE mode = "mock" -> {TRUE}
                    [] mode = "live" -> {TRUE, FALSE}
                    [] mode = "disabled" -> {FALSE}

Search ==
    /\ Working("search")
    /\ \E found \in SearchOutcomes :
           worker' = [worker EXCEPT !.step = "synthesize", !.found = found]
    /\ UNCHANGED <<mode, submission, request, evidence, candidates, reviews>>

\* Mutant of MaySynthesize: the model is asked without evidence, too.
SynthesizeAnyway == TRUE

\* _synthesize raises where there is no evidence, except in mock mode.
MaySynthesize == mode = "mock" \/ worker.found

Synthesize ==
    /\ Working("synthesize")
    /\ MaySynthesize
    /\ Proceed("save evidence")
    /\ UNCHANGED <<mode, submission, request, evidence, candidates, reviews>>

\* save_research_evidence: with nothing found, nothing is written.
SaveEvidence ==
    /\ Working("save evidence")
    /\ evidence' = IF worker.found THEN evidence \cup {worker.attempt} ELSE evidence
    /\ Proceed("save candidate")
    /\ UNCHANGED <<mode, submission, request, candidates, reviews>>

\* save_factor_candidate: a new id with every attempt, never enabled for production.
SaveCandidate ==
    /\ Working("save candidate")
    /\ candidates' = [candidates EXCEPT ![worker.attempt] = "REVIEW_REQUIRED"]
    /\ Proceed("finish")
    /\ UNCHANGED <<mode, submission, request, evidence, reviews>>

FinishResearch ==
    /\ Working("finish")
    /\ UpdateRequest("REVIEW_REQUIRED")
    /\ Proceed("over")
    /\ UNCHANGED <<mode, submission, evidence, candidates, reviews>>

\* Search, synthesis or a write fails after the row was made: FAILED, whatever was
\* stored before, and the task is retried from the start.
ResearchFails ==
    /\ worker.step \in {"search", "synthesize", "save evidence", "save candidate", "finish"}
    /\ UpdateRequest("FAILED")
    /\ worker' = IF worker.attempt < ResearchAttempts
                 THEN [attempt |-> worker.attempt + 1, step |-> "begin", found |-> FALSE]
                 ELSE [worker EXCEPT !.step = "over"]
    /\ UNCHANGED <<mode, submission, evidence, candidates, reviews>>

WorkerDies ==
    /\ worker.step \notin {"none", "over"}
    /\ Proceed("over")
    /\ UNCHANGED <<mode, submission, request, evidence, candidates, reviews>>

-------------------------------------------------------------------------------
(* POST /research/candidates/{id}/review *)

\* review_factor_candidate: any candidate, in any status, more than once. PostgreSQL
\* refuses a status that does not fit, and the approval record goes with it.
Review(a, action) ==
    /\ Len(reviews) < MaxReviews
    /\ candidates[a] # NoRow
    /\ ReviewStatus[action] \in StorableStatuses
    /\ candidates' = [candidates EXCEPT ![a] = ReviewStatus[action]]
    /\ reviews' = Append(reviews, [attempt |-> a, action |-> action])
    /\ UNCHANGED <<mode, submission, worker, request, evidence>>

ResearchNext ==
    \/ Dispatch
    \/ WritePending
    \/ RunDirectly
    \/ BeginResearch
    \/ Search
    \/ Synthesize
    \/ SaveEvidence
    \/ SaveCandidate
    \/ FinishResearch
    \/ ResearchFails
    \/ WorkerDies
    \/ \E a \in Attempts, action \in DOMAIN ReviewStatus : Review(a, action)

ResearchSpec == ResearchInit /\ [][ResearchNext]_researchVars

-------------------------------------------------------------------------------
(* Properties *)

ResearchTypeOK ==
    /\ mode \in ResearchModes
    /\ submission \in {"none", "dispatched", "answered"}
    /\ worker.attempt \in 0..ResearchAttempts
    /\ request \in RequestStatuses \cup {NoRow}
    /\ evidence \subseteq Attempts
    /\ candidates \in [Attempts -> StorableStatuses \cup {NoRow}]

\* What an expert is asked to review is backed: outside of mock mode no candidate
\* is stored without evidence of the attempt that made it, through retries, failed
\* writes and deaths between the transactions; a request that says
\* REVIEW_REQUIRED has a candidate; and a candidate's status is its last review's.
ReviewableIsBacked ==
    /\ \A a \in Attempts : candidates[a] # NoRow => a \in evidence
    /\ request = "REVIEW_REQUIRED" => \E a \in Attempts : candidates[a] # NoRow
    /\ \A a \in Attempts :
           candidates[a] \notin {NoRow, "REVIEW_REQUIRED"} =>
               \E i \in 1..Len(reviews) :
                   /\ reviews[i].attempt = a
                   /\ candidates[a] = ReviewStatus[reviews[i].action]
                   /\ \A j \in (i + 1)..Len(reviews) : reviews[j].attempt # a
================================================================================
