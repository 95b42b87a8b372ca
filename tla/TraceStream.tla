----------------------------- MODULE TraceStream -----------------------------
(***************************************************************************)
(* The trace of one analysis run (ops.run_events) and its stream to the    *)
(* administrator's browser: the run appends events, best effort, and       *)
(* writes its status in transactions of its own; the stream polls a page   *)
(* of events and then the status, and ends on a terminal status after an   *)
(* empty page.                                                             *)
(***************************************************************************)
EXTENDS Integers, Sequences, SequencesExt

CONSTANTS
    MaxEvents,      \* bound on the events of a run
    MaxAttempts,    \* attempts of a run (retries of analysis_core_task, plus one)
    PageSize        \* trace_page_size

ASSUME TraceAssumption == MaxEvents \in Nat /\ MaxAttempts \in Nat \ {0} /\ PageSize \in Nat \ {0}

VARIABLES
    events,     \* number of persisted events; event i has the i-th trace_seq
    runStatus,  \* analysis_runs.status
    attempt,    \* the attempt in progress: its number and where it is
    stream      \* the SSE generator: where it is, its cursor, what it has sent

traceVars == <<events, runStatus, attempt, stream>>

TerminalStatuses == {"PREVIEW_READY", "FAILED"}

TraceInit ==
    /\ events = 0
    /\ runStatus = "RUNNING"
    /\ attempt = [number |-> 1, step |-> "locking"]
    /\ stream = [step |-> "closed", cursor |-> 0, sent |-> <<>>, page |-> <<>>, mark |-> 0]

-------------------------------------------------------------------------------
(* The run *)

At(step) == attempt.step = step
Goto(step) == attempt' = [attempt EXCEPT !.step = step]

\* RunTracer.emit: a failure to persist the event is swallowed.
Emit == \/ events < MaxEvents /\ events' = events + 1
        \/ events' = events

\* The execution lock is someone else's: first the status, then the event.
Refused ==
    /\ At("locking")
    /\ runStatus' = "FAILED"
    /\ Goto("last")
    /\ UNCHANGED <<events, stream>>

Started ==
    /\ At("locking")
    /\ Emit
    /\ Goto("working")
    /\ UNCHANGED <<runStatus, stream>>

Progress ==
    /\ At("working")
    /\ Emit
    /\ UNCHANGED <<runStatus, attempt, stream>>

\* update_run with the outcome comes before the last event ...
Completed ==
    /\ At("working")
    /\ runStatus' = "PREVIEW_READY"
    /\ Goto("last")
    /\ UNCHANGED <<events, stream>>

LastEvent ==
    /\ At("last")
    /\ Emit
    /\ Goto("over")
    /\ UNCHANGED <<runStatus, stream>>

\* ... and after it where the run fails.
FailedEvent ==
    /\ At("working") \/ At("last")
    /\ Emit
    /\ Goto("failing")
    /\ UNCHANGED <<runStatus, stream>>

FailedStatus ==
    /\ At("failing")
    /\ runStatus' = "FAILED"
    /\ Goto("over")
    /\ UNCHANGED <<events, stream>>

\* The task is retried under the same run id: create_run sets RUNNING again.
RetryAttempt ==
    /\ At("over")
    /\ runStatus = "FAILED"
    /\ attempt.number < MaxAttempts
    /\ runStatus' = "RUNNING"
    /\ attempt' = [number |-> attempt.number + 1, step |-> "locking"]
    /\ UNCHANGED <<events, stream>>

\* The process dies; the status stays as it is.
RunnerDies ==
    /\ ~At("over")
    /\ attempt' = [number |-> MaxAttempts, step |-> "over"]
    /\ UNCHANGED <<events, runStatus, stream>>

-------------------------------------------------------------------------------
(* The stream *)

\* The browser connects, from the start or from an event it knows.
Connect(after) ==
    /\ stream.step = "closed"
    /\ stream' = [stream EXCEPT !.step = "list", !.cursor = after,
                                !.sent = [i \in 1..after |-> i]]
    /\ UNCHANGED <<events, runStatus, attempt>>

\* list_run_events: trace_seq > after_seq, ascending, limited.
ListEvents(after) ==
    [i \in 1..(IF events - after < PageSize THEN events - after ELSE PageSize) |-> after + i]

PollEvents ==
    /\ stream.step = "list"
    /\ stream' = [stream EXCEPT !.step = "send", !.page = ListEvents(stream.cursor),
                                !.mark = events]
    /\ UNCHANGED <<events, runStatus, attempt>>

\* cursor = event.trace_seq
NextCursor(page) == IF page = <<>> THEN stream.cursor ELSE Last(page)

SendPage ==
    /\ stream.step = "send"
    /\ stream' = [stream EXCEPT !.step = "status", !.sent = @ \o stream.page,
                                !.cursor = NextCursor(stream.page)]
    /\ UNCHANGED <<events, runStatus, attempt>>

\* Mutant of Finished: a page with events does not keep the stream open.
FinishedByStatus(page) == runStatus \in TerminalStatuses

Finished(page) == runStatus \in TerminalStatuses /\ page = <<>>

\* get_run_status; then the next poll, or the done event.
PollStatus ==
    /\ stream.step = "status"
    /\ stream' = [stream EXCEPT !.step = IF Finished(stream.page) THEN "done" ELSE "list"]
    /\ UNCHANGED <<events, runStatus, attempt>>

\* The browser goes away, which loses what was not yet sent.
Disconnect ==
    /\ stream.step \in {"list", "send", "status"}
    /\ stream' = [stream EXCEPT !.step = "gone"]
    /\ UNCHANGED <<events, runStatus, attempt>>

RunStep == \/ Refused \/ Started \/ Progress \/ Completed \/ LastEvent
           \/ FailedEvent \/ FailedStatus \/ RetryAttempt \/ RunnerDies
StreamStep == PollEvents \/ SendPage \/ PollStatus

TraceNext ==
    \/ RunStep
    \/ \E after \in 0..events : Connect(after)
    \/ StreamStep
    \/ Disconnect

\* The generator is polled on as long as the browser is there.
TraceFairness == WF_traceVars(StreamStep)

TraceSpec == TraceInit /\ [][TraceNext]_traceVars /\ TraceFairness

-------------------------------------------------------------------------------
(* Properties *)

TraceTypeOK ==
    /\ events \in 0..MaxEvents
    /\ runStatus \in TerminalStatuses \cup {"RUNNING"}
    /\ attempt.number \in 1..MaxAttempts
    /\ attempt.step \in {"locking", "working", "last", "failing", "over"}
    /\ stream.step \in {"closed", "list", "send", "status", "done", "gone"}
    /\ stream.cursor \in 0..MaxEvents
    /\ stream.sent \in Seq(1..MaxEvents)

\* The browser gets every event once and in order, across pages and whatever the
\* run appends meanwhile; and a stream that says done has sent all that was there
\* when its last poll began, however many pages that took.
DoneAfterDrain ==
    /\ \A i \in 1..Len(stream.sent) : stream.sent[i] = i
    /\ stream.step = "done" => Len(stream.sent) >= stream.mark
================================================================================
