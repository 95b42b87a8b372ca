-------------------------- MODULE ResilientExecutor --------------------------
(***************************************************************************)
(* resilience/executor.py: calls of external capabilities by the threads   *)
(* of one process, each trying its candidates in turn, several times each, *)
(* with a time-out; the circuit breakers they share; and the pool of       *)
(* threads on which blocking providers run.  A key is a breaker key, that  *)
(* is a capability and a provider.                                         *)
(***************************************************************************)
EXTENDS Integers, FiniteSets, SequencesExt

CONSTANTS
    Callers,     \* threads that use the executor
    Keys,        \* capability:provider
    Candidates,  \* the primary and the fallbacks of each caller's capability
    Blocking,    \* the keys whose function is not a coroutine function
    Failing,     \* the keys whose function may raise
    Slow,        \* the keys whose function may outlast the time-out
    Retries,     \* executor.retries
    Threshold,   \* circuit_breaker.failure_threshold
    Cooldown,    \* circuit_breaker.cooldown_seconds, in ticks
    PoolSize     \* WIDEGOLD_CAPABILITY_POOL_SIZE

ASSUME ExecutorAssumption ==
    /\ IsFiniteSet(Callers)
    /\ Candidates \in [Callers -> Seq(Keys)]
    /\ Blocking \subseteq Keys /\ Failing \subseteq Keys /\ Slow \subseteq Keys
    /\ Retries \in Nat
    /\ Threshold \in Nat \ {0} /\ Cooldown \in Nat \ {0} /\ PoolSize \in Nat \ {0}

VARIABLES
    breaker,  \* circuit_breakers.states
    pc,       \* where a caller is in ResilientExecutor.call
    rest,     \* the candidates it has not done with, the current one first
    attempt,  \* attempts it has made at the current candidate
    result,   \* how its last call ended
    queue,    \* the pool's work queue: the callers that wait for a thread
    hung      \* threads that still run a function its caller has abandoned

callVars == <<pc, rest, attempt, result>>
poolVars == <<queue, hung>>
vars     == <<breaker, callVars, poolVars>>

NotOpen == -1

(* A tick counter since opened_at_monotonic stands for the clock.             *)
CircuitState == [failures : Nat, openFor : {NotOpen} \cup 0 .. Cooldown]

Closed == [failures |-> 0, openFor |-> NotOpen]

Positions == {"idle", "choosing", "trying", "queued", "running"}

Results == {"none", "ok", "unavailable"}

----------------------------------------------------------------------------
(* The registry.  allow, success and failure run under its lock.              *)
Allowed(k) == breaker[k].failures < Threshold

CooledDown(k) == breaker[k].openFor = Cooldown

(* Mutant of Allow: an open breaker lets callers in before it has cooled down. *)
AllowAnyway(k) == UNCHANGED breaker

(* Mutant of Refuse: every refusal restarts the cool-down.                    *)
RefuseAgain(k) ==
    /\ ~Allowed(k) /\ ~CooledDown(k)
    /\ breaker' = [breaker EXCEPT ![k].openFor = 0]

Allow(k) ==
    \/ Allowed(k) /\ UNCHANGED breaker
    \/ ~Allowed(k) /\ CooledDown(k) /\ breaker' = [breaker EXCEPT ![k] = Closed]

Refuse(k) ==
    /\ ~Allowed(k) /\ ~CooledDown(k)
    /\ breaker' = [breaker EXCEPT ![k].openFor = IF @ = NotOpen THEN 0 ELSE @]

Success(k) == breaker' = [breaker EXCEPT ![k] = Closed]

(* Mutant of Failure: opens one failure late.                                 *)
FailureLate(k) ==
    LET n == breaker[k].failures + 1
    IN  breaker' = [breaker EXCEPT ![k] =
            [failures |-> n,
             openFor  |-> IF n > Threshold /\ @.openFor = NotOpen THEN 0 ELSE @.openFor]]

Failure(k) ==
    LET n == breaker[k].failures + 1
    IN  breaker' = [breaker EXCEPT ![k] =
            [failures |-> n,
             openFor  |-> IF n >= Threshold /\ @.openFor = NotOpen THEN 0 ELSE @.openFor]]

Tick ==
    /\ \E k \in Keys : breaker[k].openFor \in 0 .. Cooldown - 1
    /\ breaker' = [k \in Keys |->
            [breaker[k] EXCEPT !.openFor = IF @ \in 0 .. Cooldown - 1 THEN @ + 1 ELSE @]]
    /\ UNCHANGED <<callVars, poolVars>>

----------------------------------------------------------------------------
Key(c) == Head(rest[c])

OnThread == {c \in Callers : pc[c] = "running" /\ Key(c) \in Blocking}

Busy == Cardinality(OnThread) + hung

Return(c, r) ==
    /\ pc' = [pc EXCEPT ![c] = "idle"]
    /\ rest' = [rest EXCEPT ![c] = <<>>]
    /\ attempt' = [attempt EXCEPT ![c] = 0]
    /\ result' = [result EXCEPT ![c] = r]

NextCandidate(c) ==
    /\ pc' = [pc EXCEPT ![c] = "choosing"]
    /\ rest' = [rest EXCEPT ![c] = Tail(@)]
    /\ attempt' = [attempt EXCEPT ![c] = 0]
    /\ UNCHANGED result

(* After a failed attempt: back off and try again, or go on.                  *)
RetryOrNext(c) ==
    IF attempt[c] <= Retries
    THEN pc' = [pc EXCEPT ![c] = "trying"] /\ UNCHANGED <<rest, attempt, result>>
    ELSE NextCandidate(c)

Call(c) ==
    /\ pc[c] = "idle"
    /\ pc' = [pc EXCEPT ![c] = "choosing"]
    /\ rest' = [rest EXCEPT ![c] = Candidates[c]]
    /\ UNCHANGED <<breaker, attempt, result, poolVars>>

Admit(c) ==
    /\ pc[c] = "choosing" /\ rest[c] # <<>>
    /\ Allow(Key(c))
    /\ pc' = [pc EXCEPT ![c] = "trying"]
    /\ UNCHANGED <<rest, attempt, result, poolVars>>

Skip(c) ==
    /\ pc[c] = "choosing" /\ rest[c] # <<>>
    /\ Refuse(Key(c))
    /\ NextCandidate(c)
    /\ UNCHANGED poolVars

GiveUp(c) ==
    /\ pc[c] = "choosing" /\ rest[c] = <<>>
    /\ Return(c, "unavailable")
    /\ UNCHANGED <<breaker, poolVars>>

(* _invoke: a coroutine function runs at once, any other is handed to the     *)
(* pool.                                                                      *)
Attempt(c) ==
    /\ pc[c] = "trying"
    /\ attempt' = [attempt EXCEPT ![c] = @ + 1]
    /\ IF Key(c) \in Blocking
       THEN pc' = [pc EXCEPT ![c] = "queued"] /\ queue' = Append(queue, c)
       ELSE pc' = [pc EXCEPT ![c] = "running"] /\ UNCHANGED queue
    /\ UNCHANGED <<breaker, rest, result, hung>>

(* A free thread of the pool takes the first of the queue.                    *)
StartWork(c) ==
    /\ pc[c] = "queued" /\ Busy < PoolSize
    /\ queue # <<>> /\ Head(queue) = c
    /\ queue' = Tail(queue)
    /\ pc' = [pc EXCEPT ![c] = "running"]
    /\ UNCHANGED <<breaker, rest, attempt, result, hung>>

(* An abandoned function comes back; nobody listens.                          *)
ThreadReturns ==
    /\ hung > 0
    /\ hung' = hung - 1
    /\ UNCHANGED <<breaker, callVars, queue>>

Answer(c) ==
    /\ pc[c] = "running"
    /\ Success(Key(c))
    /\ Return(c, "ok")
    /\ UNCHANGED poolVars

Raise(c) ==
    /\ pc[c] = "running" /\ Key(c) \in Failing
    /\ Failure(Key(c))
    /\ RetryOrNext(c)
    /\ UNCHANGED poolVars

(* wait_for fires on a function that runs: its thread stays with it.          *)
TimeOutRunning(c) ==
    /\ pc[c] = "running" /\ Key(c) \in Slow
    /\ hung' = IF Key(c) \in Blocking THEN hung + 1 ELSE hung
    /\ UNCHANGED queue

(* wait_for fires on work that has found no thread: it is cancelled.  A pool   *)
(* with a free thread starts what is queued well before that.                 *)
TimeOutQueued(c) ==
    /\ pc[c] = "queued" /\ Busy >= PoolSize
    /\ \E i \in DOMAIN queue : queue[i] = c /\ queue' = RemoveAt(queue, i)
    /\ UNCHANGED hung

(* Mutant of Abandon: the time-out starts with the function, on its thread.   *)
AbandonOnThread(c) == TimeOutRunning(c)

Abandon(c) == TimeOutRunning(c) \/ TimeOutQueued(c)

TimeOut(c) ==
    /\ Abandon(c)
    /\ Failure(Key(c))
    /\ RetryOrNext(c)

----------------------------------------------------------------------------
Init ==
    /\ breaker = [k \in Keys |-> Closed]
    /\ pc = [c \in Callers |-> "idle"]
    /\ rest = [c \in Callers |-> <<>>]
    /\ attempt = [c \in Callers |-> 0]
    /\ result = [c \in Callers |-> "none"]
    /\ queue = <<>>
    /\ hung = 0

(* What ends an attempt: whatever the function does, wait_for does not wait   *)
(* longer than the time-out.                                                  *)
EndAttempt(c) == Answer(c) \/ Raise(c) \/ TimeOut(c)

Proceed(c) == Admit(c) \/ Skip(c) \/ GiveUp(c) \/ Attempt(c) \/ StartWork(c)

Next ==
    \/ \E c \in Callers : Call(c) \/ Proceed(c) \/ EndAttempt(c)
    \/ ThreadReturns
    \/ Tick

Spec == Init /\ [][Next]_vars

(* A caller's own steps are those of a running thread; an attempt ends, by    *)
(* wait_for.  Nothing makes an abandoned function come back.                  *)
CallFairness == \A c \in Callers : WF_vars(Proceed(c)) /\ WF_vars(EndAttempt(c))

(* Time passes, and analyses, which call every capability, go on coming.      *)
UseFairness == WF_vars(Tick) /\ \A c \in Callers : WF_vars(Call(c))

FairSpec == Spec /\ CallFairness /\ UseFairness

----------------------------------------------------------------------------
(* Types, and: a breaker has a time of opening exactly when it has counted    *)
(* enough failures, so that every refusal can end.                            *)
TypeOK ==
    /\ breaker \in [Keys -> CircuitState]
    /\ pc \in [Callers -> Positions]
    /\ rest \in [Callers -> Seq(Keys)]
    /\ attempt \in [Callers -> 0 .. Retries + 1]
    /\ result \in [Callers -> Results]
    /\ queue \in Seq(Callers)
    /\ hung \in Nat
    /\ \A k \in Keys : breaker[k].openFor # NotOpen <=> breaker[k].failures >= Threshold

(* An open breaker spares its provider: after the failure that opens it, only *)
(* the callers that were let in before go on with their attempts, so that     *)
(* between two cool-downs a provider fails a bounded number of times.         *)
FailuresBounded ==
    \A k \in Keys :
        breaker[k].failures <= Threshold - 1 + Cardinality(Callers) * (Retries + 1)

(* A hung provider cannot stall an analysis: every call comes back, whatever  *)
(* its providers do, also when no thread is left to run them.                 *)
EveryCallReturns == \A c \in Callers : pc[c] # "idle" ~> pc[c] = "idle"

(* A provider that failed is tried again: the breaker of a primary provider   *)
(* does not stay open for ever, however often it is asked meanwhile.          *)
NoPrimaryBanned ==
    \A c \in Callers :
        breaker[Candidates[c][1]].openFor # NotOpen ~> breaker[Candidates[c][1]].openFor = NotOpen

(* Fault isolation, executor.py:74 and :89: a call that a time-out has        *)
(* abandoned does not delay the others.  A provider that never raises and     *)
(* always answers in time is never counted as failed.                         *)
HealthyNeverCounted ==
    \A k \in Keys \ (Failing \cup Slow) : breaker[k].failures = 0

============================================================================
