----------------------------- MODULE BridgeClient -----------------------------
(***************************************************************************)
(* How the external bridge gets the earnings forecasts: a table of several *)
(* pages, each fetched through the HTTP client with its durable cache and  *)
(* its back-off after a failure, and the assembled frame with a cache and  *)
(* a back-off of its own, shared by the threads that answer requests.      *)
(*                                                                         *)
(* Deadlines are counted down instead of clocks being counted up: left is  *)
(* the time until a deadline, age the time since a page left the source.   *)
(***************************************************************************)
EXTENDS Integers, Sequences

CONSTANTS
    Threads,        \* threads of the bridge
    Pages,          \* pages of the forecast table: 1..Pages
    PageTTL,        \* cache_seconds of a page
    PageBackoff,    \* _failure_until, after a failed page
    FrameTTL,       \* _forecast_cache_until
    FrameBackoff,   \* _forecast_error_until
    PageAttempts,   \* attempts of FreeSourceClient.get
    Nothing         \* not cached

ASSUME BridgeAssumption ==
    /\ Pages \in Nat \ {0} /\ PageAttempts \in Nat \ {0}
    /\ PageTTL \in Nat /\ FrameTTL \in Nat \ {0}
    /\ PageBackoff \in Nat /\ FrameBackoff \in Nat

VARIABLES
    sourceUp,   \* the public endpoint works
    page,       \* per page, the content in http_cache, or Nothing
    pageFail,   \* per page, the time until _failure_until
    frame,      \* _forecast_cache, or Nothing
    frameFail,  \* time until _forecast_error_until
    thread      \* per thread, the request it works on

bridgeVars == <<sourceUp, page, pageFail, frame, frameFail, thread>>

PageNumbers == 1..Pages
\* Times beyond this one are all alike.
Horizon == PageTTL + FrameTTL + 1
Older(n) == IF n < Horizon THEN n + 1 ELSE n

\* Mutant of Sooner: a deadline is counted on when it has passed.
SoonerThrough(n) == n - 1

Sooner(n) == IF n > 0 THEN n - 1 ELSE 0

NoRequest == [step |-> "idle"]
Failed == [step |-> "failed"]

BridgeInit ==
    /\ sourceUp = TRUE
    /\ page = [p \in PageNumbers |-> Nothing]
    /\ pageFail = [p \in PageNumbers |-> 0]
    /\ frame = Nothing
    /\ frameFail = 0
    /\ thread = [t \in Threads |-> NoRequest]

-------------------------------------------------------------------------------
(* Surroundings *)

SourceTurns ==
    /\ sourceUp' = ~sourceUp
    /\ UNCHANGED <<page, pageFail, frame, frameFail, thread>>

Aged(ages) == [p \in DOMAIN ages |-> Older(ages[p])]

PassTime ==
    /\ page' = [p \in PageNumbers |->
           IF page[p] = Nothing \/ page[p].left = 0 THEN Nothing
           ELSE [left |-> page[p].left - 1, age |-> Older(page[p].age)]]
    /\ pageFail' = [p \in PageNumbers |-> Sooner(pageFail[p])]
    /\ frame' = IF frame = Nothing \/ frame.left = 1 THEN Nothing
                ELSE [left |-> frame.left - 1, ages |-> Aged(frame.ages)]
    /\ frameFail' = Sooner(frameFail)
    /\ thread' = [t \in Threads |->
           IF thread[t].step \in {"page", "request"}
           THEN [thread[t] EXCEPT !.since = Older(@), !.asked = Older(@), !.ages = Aged(@)]
           ELSE NoRequest]
    /\ UNCHANGED sourceUp

-------------------------------------------------------------------------------
(* _forecast_frame *)

\* kept: how long the frame may have lain since its load began.
Serve(t, ages, kept) ==
    thread' = [thread EXCEPT ![t] = [step |-> "served", ages |-> ages, kept |-> kept]]

\* A fresh frame is served, whatever has failed since ...
AskFresh(t) ==
    /\ thread[t] = NoRequest
    /\ frame # Nothing
    /\ Serve(t, frame.ages, FrameTTL)
    /\ UNCHANGED <<sourceUp, page, pageFail, frame, frameFail>>

\* ... and without one, unless a failure is recent, the pages are loaded.
AskLoad(t) ==
    /\ thread[t] = NoRequest
    /\ frame = Nothing
    /\ frameFail = 0
    /\ thread' = [thread EXCEPT ![t] =
           [step |-> "page", since |-> 0, asked |-> 0, tries |-> 0, ages |-> <<>>]]
    /\ UNCHANGED <<sourceUp, page, pageFail, frame, frameFail>>

\* Mutant of RefusedUntil: every request that is refused renews the back-off.
RefusedRenews == FrameBackoff

\* A refusal leaves _forecast_error_until as it is.
RefusedUntil == frameFail

AskRefused(t) ==
    /\ thread[t] = NoRequest
    /\ frame = Nothing
    /\ frameFail > 0
    /\ frameFail' = RefusedUntil
    /\ thread' = [thread EXCEPT ![t] = Failed]
    /\ UNCHANGED <<sourceUp, page, pageFail, frame>>

\* The page a thread is at.
Current(t) == Len(thread[t].ages) + 1

\* The load ends without a frame: a back-off from the time it began.
FailLoad(t) ==
    /\ frameFail' = IF FrameBackoff > thread[t].since THEN FrameBackoff - thread[t].since ELSE 0
    /\ thread' = [thread EXCEPT ![t] = Failed]

\* The next page, or, with all of them, the frame.
TakePage(t, age) ==
    thread' = [thread EXCEPT ![t].step = "page", ![t].tries = 0,
                             ![t].ages = Append(thread[t].ages, age)]

\* Mutant of FrameLeft: the frame is as fresh as the end of the load.
FrameLeftFromEnd(t) == FrameTTL

\* now + timedelta(minutes=30), where now is when the load began.
FrameLeft(t) == FrameTTL - thread[t].since

StoreFrame(t) ==
    /\ thread[t].step = "page"
    /\ Current(t) > Pages
    /\ frame' = IF FrameLeft(t) > 0 THEN [left |-> FrameLeft(t), ages |-> thread[t].ages]
                ELSE Nothing
    /\ frameFail' = 0
    /\ Serve(t, thread[t].ages, thread[t].since)
    /\ UNCHANGED <<sourceUp, page, pageFail>>

-------------------------------------------------------------------------------
(* FreeSourceClient.get *)

InBackoff(p) == pageFail[p] > 0

PageInBackoff(t) ==
    /\ thread[t].step = "page" /\ Current(t) <= Pages
    /\ InBackoff(Current(t))
    /\ FailLoad(t)
    /\ UNCHANGED <<sourceUp, page, pageFail, frame>>

PageCached(t) ==
    /\ thread[t].step = "page" /\ Current(t) <= Pages
    /\ ~InBackoff(Current(t))
    /\ page[Current(t)] # Nothing
    /\ TakePage(t, page[Current(t)].age)
    /\ UNCHANGED <<sourceUp, page, pageFail, frame, frameFail>>

PageAsked(t) ==
    /\ thread[t].step = "page" /\ Current(t) <= Pages
    /\ ~InBackoff(Current(t))
    /\ page[Current(t)] = Nothing
    /\ thread' = [thread EXCEPT ![t].step = "request", ![t].asked = 0]
    /\ UNCHANGED <<sourceUp, page, pageFail, frame, frameFail>>

\* The answer is cached until a time counted from when the page was asked for.
PageArrives(t) ==
    /\ thread[t].step = "request"
    /\ sourceUp
    /\ page' = [page EXCEPT ![Current(t)] =
           IF PageTTL >= thread[t].asked THEN [left |-> PageTTL - thread[t].asked, age |-> 0]
           ELSE Nothing]
    /\ pageFail' = [pageFail EXCEPT ![Current(t)] = 0]
    /\ TakePage(t, 0)
    /\ UNCHANGED <<sourceUp, frame, frameFail>>

PageFails(t) ==
    /\ thread[t].step = "request"
    /\ ~sourceUp
    /\ IF thread[t].tries + 1 < PageAttempts
       THEN /\ thread' = [thread EXCEPT ![t].tries = @ + 1]
            /\ UNCHANGED <<pageFail, frameFail>>
       ELSE /\ pageFail' = [pageFail EXCEPT ![Current(t)] = PageBackoff]
            /\ FailLoad(t)
    /\ UNCHANGED <<sourceUp, page, frame>>

ThreadStep(t) ==
    \/ AskFresh(t)
    \/ AskLoad(t)
    \/ AskRefused(t)
    \/ StoreFrame(t)
    \/ PageInBackoff(t)
    \/ PageCached(t)
    \/ PageAsked(t)
    \/ PageArrives(t)
    \/ PageFails(t)

BridgeNext ==
    \/ SourceTurns
    \/ PassTime
    \/ \E t \in Threads : ThreadStep(t)

\* Time passes, and requests keep coming in and are worked on.
BridgeFairness == WF_bridgeVars(PassTime) /\ \A t \in Threads : WF_bridgeVars(ThreadStep(t))

BridgeSpec == BridgeInit /\ [][BridgeNext]_bridgeVars /\ BridgeFairness

-------------------------------------------------------------------------------
(* Properties *)

BridgeTypeOK ==
    /\ sourceUp \in BOOLEAN
    /\ \A p \in PageNumbers : page[p] # Nothing =>
           page[p].left \in 0..PageTTL /\ page[p].age \in 0..Horizon
    /\ pageFail \in [PageNumbers -> 0..PageBackoff]
    /\ frame # Nothing => frame.left \in 1..FrameTTL /\ DOMAIN frame.ages = PageNumbers
    /\ frameFail \in 0..FrameBackoff
    /\ \A t \in Threads : thread[t].step \in {"idle", "page", "request", "served", "failed"}

\* No cached forecast is served that left the source longer ago than the lifetimes
\* of page and frame together, however long its load took and whichever threads
\* filled the two caches (both deadlines count from before the request); a thread
\* that loads one itself waits for it on top of the page's lifetime only.
StalenessBounded ==
    \A t \in Threads : thread[t].step = "served" =>
        \A p \in PageNumbers : thread[t].ages[p] <= PageTTL + thread[t].kept

\* Once the source works for good, requests are served again and again: neither
\* back-off renews itself.
SourceRecovers ==
    <>[]sourceUp => \A t \in Threads : []<>(thread[t].step = "served")
================================================================================
