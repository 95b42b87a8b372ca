----------------------- MODULE ResilientExecutorProofs -----------------------
(***************************************************************************)
(* Theorems about ResilientExecutor, for any callers, keys, candidates,    *)
(* retries, threshold, cool-down and pool.                                 *)
(***************************************************************************)
EXTENDS ResilientExecutor, FiniteSetTheorems, TLAPS

(* A caller past the breaker has a candidate, and counts its attempts.        *)
Positioned ==
    \A c \in Callers :
        /\ pc[c] \in {"trying", "queued", "running"} => rest[c] # <<>>
        /\ pc[c] = "trying" => attempt[c] <= Retries
        /\ pc[c] \in {"queued", "running"} => attempt[c] > 0
        /\ pc[c] \in {"idle", "choosing"} => attempt[c] = 0

IInv == TypeOK /\ Positioned

(* The parts of a state that its failure counters depend on.                  *)
LEMMA KeyType ==
    ASSUME IInv, NEW c \in Callers, rest[c] # <<>>
    PROVE  Key(c) \in Keys /\ Tail(rest[c]) \in Seq(Keys)
<1>1. rest[c] \in Seq(Keys)
    BY DEF IInv, TypeOK
<1> QED
    BY <1>1 DEF Key

(* Each step of the registry keeps its states well-formed and open exactly    *)
(* from the threshold on.                                                     *)
Registry ==
    /\ breaker \in [Keys -> CircuitState]
    /\ \A k \in Keys : breaker[k].openFor # NotOpen <=> breaker[k].failures >= Threshold

LEMMA RegistrySteps ==
    ASSUME Registry, NEW k \in Keys,
           Allow(k) \/ Refuse(k) \/ Success(k) \/ Failure(k)
    PROVE  Registry'
<1>t. Threshold \in Nat /\ Threshold > 0 /\ Cooldown \in Nat
    BY ExecutorAssumption
<1>1. breaker[k] \in CircuitState
    BY DEF Registry
<1>c. Closed \in CircuitState /\ Closed.openFor = NotOpen /\ Closed.failures < Threshold
    BY <1>t DEF Closed, CircuitState, NotOpen
<1>2. CASE UNCHANGED breaker
    BY <1>2 DEF Registry
<1>3. CASE breaker' = [breaker EXCEPT ![k] = Closed]
    BY <1>3, <1>c, <1>t DEF Registry, CircuitState
<1>4. CASE Refuse(k)
  <2>1. breaker[k].failures >= Threshold /\ breaker[k].openFor # NotOpen
      BY <1>4, <1>t, <1>1 DEF Registry, Refuse, Allowed, CircuitState
  <2>2. breaker' = [breaker EXCEPT ![k].openFor = breaker[k].openFor]
      BY <1>4, <2>1 DEF Refuse
  <2> QED
      BY <1>1, <2>1, <2>2 DEF Registry, CircuitState
<1>5. CASE Failure(k)
  <2> DEFINE n    == breaker[k].failures + 1
             o    == IF n >= Threshold /\ breaker[k].openFor = NotOpen THEN 0 ELSE breaker[k].openFor
             next == [failures |-> n, openFor |-> o]
  <2>1. breaker[k].failures \in Nat /\ breaker[k].openFor \in {NotOpen} \cup 0 .. Cooldown
      BY <1>1 DEF CircuitState
  <2>2. breaker[k].openFor # NotOpen <=> breaker[k].failures >= Threshold
      BY DEF Registry
  <2>3. n \in Nat /\ o \in {NotOpen} \cup 0 .. Cooldown
      BY <1>t, <2>1
  <2>4. o # NotOpen <=> n >= Threshold
      BY <1>t, <2>1, <2>2 DEF NotOpen
  <2>5. breaker' = [breaker EXCEPT ![k] = next]
      BY <1>5 DEF Failure
  <2> HIDE DEF n, o
  <2>6. next \in CircuitState /\ (next.openFor # NotOpen <=> next.failures >= Threshold)
      BY <2>3, <2>4 DEF CircuitState
  <2> HIDE DEF next
  <2> QED
      BY <2>5, <2>6 DEF Registry
<1> QED
    BY <1>2, <1>3, <1>4, <1>5 DEF Allow, Success

LEMMA TickKeepsRegistry ==
    ASSUME Registry, Tick
    PROVE  Registry'
<1>t. Threshold \in Nat /\ Cooldown \in Nat
    BY ExecutorAssumption
<1> QED
    BY <1>t DEF Registry, Tick, CircuitState, NotOpen

(* A caller's move after a failed attempt.                                    *)
CallTypes ==
    /\ pc \in [Callers -> Positions]
    /\ rest \in [Callers -> Seq(Keys)]
    /\ attempt \in [Callers -> 0 .. Retries + 1]
    /\ result \in [Callers -> Results]
    /\ Positioned

LEMMA RetrySteps ==
    ASSUME CallTypes, NEW c \in Callers, rest[c] # <<>>, pc[c] # "trying",
           RetryOrNext(c) \/ NextCandidate(c)
    PROVE  CallTypes'
<1>t. Retries \in Nat
    BY ExecutorAssumption
<1>1. Tail(rest[c]) \in Seq(Keys)
    BY DEF CallTypes
<1>2. CASE NextCandidate(c)
    BY <1>t, <1>1, <1>2 DEF CallTypes, NextCandidate, Positioned, Positions, Results
<1>3. CASE RetryOrNext(c) /\ attempt[c] <= Retries
    BY <1>t, <1>3 DEF CallTypes, RetryOrNext, Positioned, Positions, Results
<1> QED
    BY <1>2, <1>3 DEF RetryOrNext

LEMMA ReturnSteps ==
    ASSUME CallTypes, NEW c \in Callers, NEW r \in Results, Return(c, r)
    PROVE  CallTypes'
<1>t. Retries \in Nat
    BY ExecutorAssumption
<1> QED
    BY <1>t DEF CallTypes, Return, Positioned, Positions, Results

PoolTypes == queue \in Seq(Callers) /\ hung \in Nat

LEMMA Split == IInv <=> Registry /\ CallTypes /\ PoolTypes
BY DEF IInv, TypeOK, Registry, CallTypes, PoolTypes

LEMMA SplitNext == IInv' <=> Registry' /\ CallTypes' /\ PoolTypes'
BY DEF IInv, TypeOK, Registry, CallTypes, PoolTypes

LEMMA StepPreserves == IInv /\ [Next]_vars => IInv'
<1> SUFFICES ASSUME IInv, [Next]_vars PROVE Registry' /\ CallTypes' /\ PoolTypes'
    BY SplitNext
<1>i. Registry /\ CallTypes /\ PoolTypes
    BY Split
<1>t. Retries \in Nat /\ Candidates \in [Callers -> Seq(Keys)]
    BY ExecutorAssumption
<1>r. ASSUME UNCHANGED breaker PROVE Registry'
    BY <1>i, <1>r DEF Registry
<1>p. ASSUME UNCHANGED poolVars PROVE PoolTypes'
    BY <1>i, <1>p DEF PoolTypes, poolVars
<1>c. ASSUME UNCHANGED callVars PROVE CallTypes'
    BY <1>i, <1>c DEF CallTypes, callVars, Positioned
<1>1. ASSUME NEW c \in Callers, Call(c) PROVE Registry' /\ CallTypes' /\ PoolTypes'
  <2>1. CallTypes'
      BY <1>i, <1>t, <1>1 DEF CallTypes, Call, Positioned, Positions, Results
  <2> QED
      BY <1>1, <1>r, <1>p, <2>1 DEF Call
<1>2. ASSUME NEW c \in Callers, Admit(c) PROVE Registry' /\ CallTypes' /\ PoolTypes'
  <2>1. Registry'
    <3>1. Key(c) \in Keys
        BY <1>2, KeyType DEF Admit
    <3> QED
        BY <1>i, <1>2, <3>1, RegistrySteps DEF Admit
  <2>2. CallTypes'
      BY <1>i, <1>t, <1>2 DEF CallTypes, Admit, Positioned, Positions, Results
  <2> QED
      BY <1>2, <1>p, <2>1, <2>2 DEF Admit
<1>3. ASSUME NEW c \in Callers, Skip(c) PROVE Registry' /\ CallTypes' /\ PoolTypes'
  <2>1. Registry'
    <3>1. Key(c) \in Keys
        BY <1>3, KeyType DEF Skip
    <3> QED
        BY <1>i, <1>3, <3>1, RegistrySteps DEF Skip
  <2>2. CallTypes'
      BY <1>i, <1>3, RetrySteps DEF Skip
  <2> QED
      BY <1>3, <1>p, <2>1, <2>2 DEF Skip
<1>4. ASSUME NEW c \in Callers, GiveUp(c) PROVE Registry' /\ CallTypes' /\ PoolTypes'
  <2>1. CallTypes'
      BY <1>i, <1>4, ReturnSteps DEF GiveUp, Results
  <2> QED
      BY <1>4, <1>r, <1>p, <2>1 DEF GiveUp
<1>5. ASSUME NEW c \in Callers, Attempt(c) PROVE Registry' /\ CallTypes' /\ PoolTypes'
  <2>1. pc' = [pc EXCEPT ![c] = "queued"] \/ pc' = [pc EXCEPT ![c] = "running"]
      BY <1>5 DEF Attempt
  <2>3. attempt[c] + 1 \in 0 .. Retries + 1 /\ attempt[c] + 1 > 0
      BY <1>i, <1>t, <1>5 DEF CallTypes, Attempt, Positioned
  <2>4. CallTypes'
      BY <1>i, <1>t, <1>5, <2>1, <2>3 DEF CallTypes, Attempt, Positioned, Positions, Results
  <2>2. PoolTypes'
      BY <1>i, <1>5 DEF PoolTypes, Attempt
  <2> QED
      BY <1>5, <1>r, <2>4, <2>2 DEF Attempt
<1>6. ASSUME NEW c \in Callers, StartWork(c) PROVE Registry' /\ CallTypes' /\ PoolTypes'
  <2>1. CallTypes'
      BY <1>i, <1>t, <1>6 DEF CallTypes, StartWork, Positioned, Positions, Results
  <2>2. PoolTypes'
      BY <1>i, <1>6 DEF PoolTypes, StartWork
  <2> QED
      BY <1>6, <1>r, <2>1, <2>2 DEF StartWork
<1>7. ASSUME NEW c \in Callers, Answer(c) PROVE Registry' /\ CallTypes' /\ PoolTypes'
  <2>1. rest[c] # <<>>
      BY <1>i, <1>7 DEF CallTypes, Answer, Positioned
  <2>2. Registry'
      BY <1>i, <1>7, <2>1, KeyType, RegistrySteps DEF Answer
  <2>3. CallTypes'
      BY <1>i, <1>7, ReturnSteps DEF Answer, Results
  <2> QED
      BY <1>7, <1>p, <2>2, <2>3 DEF Answer
<1>8. ASSUME NEW c \in Callers, Raise(c) PROVE Registry' /\ CallTypes' /\ PoolTypes'
  <2>1. rest[c] # <<>>
      BY <1>i, <1>8 DEF CallTypes, Raise, Positioned
  <2>2. Registry'
      BY <1>i, <1>8, <2>1, KeyType, RegistrySteps DEF Raise
  <2>3. CallTypes'
      BY <1>i, <1>8, <2>1, RetrySteps DEF Raise
  <2> QED
      BY <1>8, <1>p, <2>2, <2>3 DEF Raise
<1>9. ASSUME NEW c \in Callers, TimeOut(c) PROVE Registry' /\ CallTypes' /\ PoolTypes'
  <2>1. rest[c] # <<>> /\ pc[c] # "trying"
      BY <1>i, <1>9 DEF CallTypes, TimeOut, Abandon, TimeOutRunning, TimeOutQueued, Positioned
  <2>2. Registry'
      BY <1>i, <1>9, <2>1, KeyType, RegistrySteps DEF TimeOut
  <2>3. CallTypes'
      BY <1>i, <1>9, <2>1, RetrySteps DEF TimeOut
  <2>4. CASE TimeOutRunning(c)
      BY <1>i, <2>2, <2>3, <2>4 DEF TimeOutRunning, PoolTypes
  <2>5. CASE TimeOutQueued(c)
    <3>1. PICK i \in DOMAIN queue : queue' = RemoveAt(queue, i)
        BY <2>5 DEF TimeOutQueued
    <3>2. queue \in Seq(Callers) /\ i \in 1 .. Len(queue)
        BY <1>i, <3>1 DEF PoolTypes
    <3>3. SubSeq(queue, 1, i - 1) \in Seq(Callers) /\ SubSeq(queue, i + 1, Len(queue)) \in Seq(Callers)
        BY <3>2
    <3>4. queue' \in Seq(Callers)
        BY <3>1, <3>3 DEF RemoveAt
    <3> QED
        BY <1>i, <2>2, <2>3, <2>5, <3>4 DEF TimeOutQueued, PoolTypes
  <2> QED
      BY <1>9, <2>4, <2>5 DEF TimeOut, Abandon
<1>10. CASE ThreadReturns
  <2>1. PoolTypes'
      BY <1>i, <1>10 DEF ThreadReturns, PoolTypes
  <2> QED
      BY <1>10, <1>r, <1>c, <2>1 DEF ThreadReturns
<1>11. CASE Tick
    BY <1>i, <1>11, <1>c, <1>p, TickKeepsRegistry DEF Tick
<1>12. CASE UNCHANGED vars
    BY <1>12, <1>r, <1>c, <1>p DEF vars
<1> QED
    BY <1>1, <1>2, <1>3, <1>4, <1>5, <1>6, <1>7, <1>8, <1>9, <1>10, <1>11, <1>12
    DEF Next, Proceed, EndAttempt

LEMMA StartsPositioned == Init => IInv
<1> SUFFICES ASSUME Init PROVE IInv
    OBVIOUS
<1>t. Threshold \in Nat \ {0} /\ Retries \in Nat
    BY ExecutorAssumption
<1> QED
    BY <1>t DEF Init, IInv, TypeOK, Positioned, CircuitState, Closed, NotOpen, Positions, Results

LEMMA InvariantHolds == Spec => []IInv
BY StartsPositioned, StepPreserves, PTL DEF Spec

(* The executor is type-correct, and a breaker has a time of opening exactly  *)
(* when it has counted enough failures.                                       *)
THEOREM BreakersConsistent == Spec => []TypeOK
<1>1. IInv => TypeOK
    BY DEF IInv
<1> QED
    BY <1>1, InvariantHolds, PTL

----------------------------------------------------------------------------
(* Why failures are bounded: a caller that was let in holds one token for     *)
(* each attempt it may still fail, every failure takes one, and while a       *)
(* breaker is open nobody gets new ones.                                      *)
At(c, k) == pc[c] \in {"trying", "queued", "running"} /\ Key(c) = k

Spent(c) == IF pc[c] = "trying" THEN attempt[c] ELSE attempt[c] - 1

Slots == Callers \X (1 .. Retries + 1)

Tokens(k) == {q \in Slots : At(q[1], k) /\ q[2] > Spent(q[1])}

Bound == Threshold - 1 + Cardinality(Callers) * (Retries + 1)

Within(k) == breaker[k].failures + Cardinality(Tokens(k)) <= Bound

AllWithin == \A k \in Keys : Within(k)

LEMMA SlotsBounded ==
    ASSUME NEW S, S \subseteq Slots
    PROVE  /\ IsFiniteSet(S)
           /\ Cardinality(S) \in Nat
           /\ Threshold - 1 + Cardinality(S) <= Bound
<1>t. Retries \in Nat /\ Threshold \in Nat /\ IsFiniteSet(Callers)
    BY ExecutorAssumption
<1>1. IsFiniteSet(1 .. Retries + 1) /\ Cardinality(1 .. Retries + 1) = Retries + 1
    BY <1>t, FS_Interval
<1>2. IsFiniteSet(Slots) /\ Cardinality(Slots) = Cardinality(Callers) * (Retries + 1)
    BY <1>t, <1>1, FS_Product DEF Slots
<1>3. IsFiniteSet(S) /\ Cardinality(S) <= Cardinality(Slots)
    BY <1>2, FS_Subset
<1>4. Cardinality(S) \in Nat /\ Cardinality(Slots) \in Nat
    BY <1>2, <1>3, FS_CardinalityType
<1> QED
    BY <1>t, <1>2, <1>3, <1>4 DEF Bound

LEMMA BoundType == Bound \in Int
<1>1. Cardinality(Callers) \in Nat
    BY ExecutorAssumption, FS_CardinalityType
<1> QED
    BY <1>1, ExecutorAssumption DEF Bound

LEMMA FailureCount ==
    ASSUME IInv, NEW k \in Keys
    PROVE  breaker[k].failures \in Nat
BY DEF IInv, TypeOK, CircuitState

LEMMA SpentType ==
    ASSUME IInv, NEW c \in Callers
    PROVE  Spent(c) \in Int
<1>1. attempt[c] \in 0 .. Retries + 1
    BY DEF IInv, TypeOK
<1> QED
    BY <1>1, ExecutorAssumption DEF Spent

(* Callers that only leave a key or spend attempts add no tokens to it.       *)
LEMMA TokensShrink ==
    ASSUME IInv, IInv', NEW k \in Keys,
           \A d \in Callers : At(d, k)' => At(d, k) /\ Spent(d)' >= Spent(d)
    PROVE  Tokens(k)' \subseteq Tokens(k)
<1> SUFFICES ASSUME NEW q \in Slots, At(q[1], k)', q[2] > Spent(q[1])' PROVE q \in Tokens(k)
    BY DEF Tokens
<1>1. q[1] \in Callers /\ q[2] \in Int
    BY ExecutorAssumption DEF Slots
<1>2. Spent(q[1]) \in Int /\ Spent(q[1])' \in Int
  <2>1. Spent(q[1]) \in Int
      BY <1>1, SpentType
  <2>2. attempt'[q[1]] \in 0 .. Retries + 1
      BY <1>1 DEF IInv, TypeOK
  <2> QED
      BY <2>1, <2>2, ExecutorAssumption DEF Spent
<1>3. At(q[1], k) /\ Spent(q[1])' >= Spent(q[1])
    BY <1>1
<1> QED
    BY <1>1, <1>2, <1>3 DEF Tokens

LEMMA QuietStep ==
    ASSUME IInv, IInv', NEW k \in Keys, Within(k),
           breaker'[k].failures <= breaker[k].failures,
           \A d \in Callers : At(d, k)' => At(d, k) /\ Spent(d)' >= Spent(d)
    PROVE  Within(k)'
<1>1. Tokens(k) \subseteq Slots
    BY DEF Tokens
<1>2. Tokens(k)' \subseteq Tokens(k)
    BY TokensShrink
<1>3. IsFiniteSet(Tokens(k)) /\ Cardinality(Tokens(k)) \in Nat
    BY <1>1, SlotsBounded
<1>4. Cardinality(Tokens(k)') \in Nat
    BY <1>1, <1>2, SlotsBounded
<1>5. Cardinality(Tokens(k)') <= Cardinality(Tokens(k))
    BY <1>2, <1>3, FS_Subset
<1>6. breaker[k].failures \in Nat /\ breaker'[k].failures \in Nat
    BY DEF IInv, TypeOK, CircuitState
<1> QED
    BY <1>3, <1>4, <1>5, <1>6, BoundType DEF Within, Bound

(* A breaker below its threshold is within the bound, whoever was let in.     *)
LEMMA BelowThreshold ==
    ASSUME IInv', NEW k \in Keys, breaker'[k].failures < Threshold
    PROVE  Within(k)'
<1>1. Tokens(k)' \subseteq Slots
    BY DEF Tokens
<1>2. Cardinality(Tokens(k)') \in Nat /\ Threshold - 1 + Cardinality(Tokens(k)') <= Bound
    BY <1>1, SlotsBounded
<1>3. breaker'[k].failures \in Nat /\ Threshold \in Nat
    BY ExecutorAssumption DEF IInv, TypeOK, CircuitState
<1> QED
    BY <1>2, <1>3, BoundType DEF Within, Bound

(* A failed attempt takes the caller's lowest token.                          *)
LEMMA FailedAttempt ==
    ASSUME IInv, IInv', AllWithin, NEW c \in Callers, pc[c] \in {"queued", "running"},
           Failure(Key(c)), RetryOrNext(c)
    PROVE  AllWithin'
<1>k. rest[c] # <<>> /\ Key(c) \in Keys /\ attempt[c] \in 1 .. Retries + 1
  <2>1. rest[c] # <<>> /\ attempt[c] \in 0 .. Retries + 1 /\ attempt[c] > 0
      BY DEF IInv, TypeOK, Positioned
  <2> QED
      BY <2>1, KeyType, ExecutorAssumption
<1>p. /\ pc \in [Callers -> Positions] /\ rest \in [Callers -> Seq(Keys)]
      /\ attempt \in [Callers -> 0 .. Retries + 1] /\ breaker \in [Keys -> CircuitState]
    BY DEF IInv, TypeOK
<1>1. \A d \in Callers \ {c} : pc'[d] = pc[d] /\ rest'[d] = rest[d] /\ attempt'[d] = attempt[d]
    BY <1>p DEF RetryOrNext, NextCandidate
<1>2. \/ pc'[c] = "trying" /\ rest'[c] = rest[c] /\ attempt'[c] = attempt[c]
      \/ pc'[c] = "choosing"
    BY <1>p DEF RetryOrNext, NextCandidate
<1>3. \A k \in Keys, d \in Callers : At(d, k)' => At(d, k) /\ Spent(d)' >= Spent(d)
  <2> SUFFICES ASSUME NEW k \in Keys, NEW d \in Callers, At(d, k)'
               PROVE  At(d, k) /\ Spent(d)' >= Spent(d)
      OBVIOUS
  <2>1. attempt[d] \in Int
      BY <1>p, ExecutorAssumption
  <2>2. CASE d # c
      BY <1>1, <2>1, <2>2 DEF At, Spent, Key
  <2>3. CASE d = c
      BY <1>2, <2>1, <2>3 DEF At, Spent, Key
  <2> QED
      BY <2>2, <2>3
<1>4. ASSUME NEW k \in Keys, k # Key(c) PROVE Within(k)'
  <2>1. breaker'[k].failures = breaker[k].failures /\ breaker[k].failures \in Nat
      BY <1>p, <1>4, FailureCount DEF Failure
  <2> QED
      BY <1>3, <2>1, QuietStep DEF AllWithin
<1>5. ASSUME NEW k \in Keys, k = Key(c) PROVE Within(k)'
  <2> DEFINE token == <<c, attempt[c]>>
  <2>1. breaker'[k].failures = breaker[k].failures + 1 /\ breaker[k].failures \in Nat
      BY <1>p, <1>5, FailureCount DEF Failure
  <2>2. token \in Tokens(k)
      BY <1>k, <1>5, ExecutorAssumption DEF Tokens, Slots, At, Spent
  <2>3. Tokens(k)' \subseteq Tokens(k)
      BY <1>3, TokensShrink
  <2>4. token \notin Tokens(k)'
      BY <1>k, <1>2, ExecutorAssumption DEF Tokens, Slots, At, Spent
  <2>5. Tokens(k) \subseteq Slots
      BY DEF Tokens
  <2>6. IsFiniteSet(Tokens(k)) /\ Cardinality(Tokens(k)) \in Nat
      BY <2>5, SlotsBounded
  <2>7. IsFiniteSet(Tokens(k) \ {token}) /\ Cardinality(Tokens(k) \ {token}) = Cardinality(Tokens(k)) - 1
      BY <2>2, <2>6, FS_RemoveElement
  <2>8. Cardinality(Tokens(k)') <= Cardinality(Tokens(k)) - 1 /\ Cardinality(Tokens(k)') \in Nat
    <3>1. Tokens(k)' \subseteq Tokens(k) \ {token}
        BY <2>3, <2>4
    <3> QED
        BY <2>3, <2>5, <2>7, <3>1, FS_Subset, SlotsBounded
  <2>9. Within(k)
      BY DEF AllWithin
  <2> QED
      BY <2>1, <2>6, <2>8, <2>9, BoundType DEF Within, Bound
<1> QED
    BY <1>4, <1>5 DEF AllWithin

LEMMA StepBounds == IInv /\ IInv' /\ AllWithin /\ [Next]_vars => AllWithin'
<1> SUFFICES ASSUME IInv, IInv', AllWithin, [Next]_vars PROVE AllWithin'
    OBVIOUS
<1>p. /\ pc \in [Callers -> Positions] /\ rest \in [Callers -> Seq(Keys)]
      /\ attempt \in [Callers -> 0 .. Retries + 1] /\ breaker \in [Keys -> CircuitState]
    BY DEF IInv, TypeOK
<1>a. \A d \in Callers : attempt[d] \in Int
    BY <1>p, ExecutorAssumption
<1>q. ASSUME \A k \in Keys : breaker'[k].failures <= breaker[k].failures,
             \A k \in Keys, d \in Callers : At(d, k)' => At(d, k) /\ Spent(d)' >= Spent(d)
      PROVE  AllWithin'
    BY <1>q, QuietStep DEF AllWithin
<1>u. ASSUME UNCHANGED breaker PROVE \A k \in Keys : breaker'[k].failures <= breaker[k].failures
    BY <1>u, FailureCount
<1>s. ASSUME UNCHANGED callVars
      PROVE  \A k \in Keys, d \in Callers : At(d, k)' => At(d, k) /\ Spent(d)' >= Spent(d)
    BY <1>a, <1>s DEF callVars, At, Spent, Key
<1>1. ASSUME NEW c \in Callers, Call(c) PROVE AllWithin'
  <2>1. \A k \in Keys, d \in Callers : At(d, k)' => At(d, k) /\ Spent(d)' >= Spent(d)
      BY <1>p, <1>a, <1>1 DEF Call, At, Spent, Key
  <2> QED
      BY <1>1, <1>q, <1>u, <2>1 DEF Call
<1>2. ASSUME NEW c \in Callers, Admit(c) PROVE AllWithin'
  <2>k. Key(c) \in Keys
      BY <1>2, KeyType DEF Admit
  <2>1. ASSUME NEW k \in Keys, k = Key(c) PROVE Within(k)'
    <3>1. breaker'[k].failures < Threshold
        BY <1>2, <1>p, <2>1, ExecutorAssumption DEF Admit, Allow, Allowed, Closed
    <3> QED
        BY <3>1, BelowThreshold
  <2>2. ASSUME NEW k \in Keys, k # Key(c) PROVE Within(k)'
    <3>1. breaker'[k].failures = breaker[k].failures /\ breaker[k].failures \in Nat
        BY <1>2, <1>p, <2>2, FailureCount DEF Admit, Allow
    <3>2. \A d \in Callers : At(d, k)' => At(d, k) /\ Spent(d)' >= Spent(d)
        BY <1>2, <1>p, <1>a, <2>2 DEF Admit, At, Spent, Key
    <3> QED
        BY <3>1, <3>2, QuietStep DEF AllWithin
  <2> QED
      BY <2>1, <2>2 DEF AllWithin
<1>3. ASSUME NEW c \in Callers, Skip(c) PROVE AllWithin'
  <2>1. \A k \in Keys : breaker'[k].failures <= breaker[k].failures
      BY <1>3, <1>p, FailureCount DEF Skip, Refuse, CircuitState
  <2>2. \A k \in Keys, d \in Callers : At(d, k)' => At(d, k) /\ Spent(d)' >= Spent(d)
      BY <1>p, <1>a, <1>3 DEF Skip, NextCandidate, At, Spent, Key
  <2> QED
      BY <1>q, <2>1, <2>2
<1>4. ASSUME NEW c \in Callers, GiveUp(c) PROVE AllWithin'
  <2>1. \A k \in Keys, d \in Callers : At(d, k)' => At(d, k) /\ Spent(d)' >= Spent(d)
      BY <1>p, <1>a, <1>4 DEF GiveUp, Return, At, Spent, Key
  <2> QED
      BY <1>4, <1>q, <1>u, <2>1 DEF GiveUp
<1>5. ASSUME NEW c \in Callers, Attempt(c) PROVE AllWithin'
  <2>1. pc' = [pc EXCEPT ![c] = "queued"] \/ pc' = [pc EXCEPT ![c] = "running"]
      BY <1>5 DEF Attempt
  <2>2. attempt' = [attempt EXCEPT ![c] = attempt[c] + 1] /\ pc[c] = "trying" /\ rest' = rest
      BY <1>5 DEF Attempt
  <2>3. \A k \in Keys, d \in Callers : At(d, k)' => At(d, k) /\ Spent(d)' >= Spent(d)
      BY <1>p, <1>a, <2>1, <2>2 DEF At, Spent, Key
  <2> QED
      BY <1>5, <1>q, <1>u, <2>3 DEF Attempt
<1>6. ASSUME NEW c \in Callers, StartWork(c) PROVE AllWithin'
  <2>1. \A k \in Keys, d \in Callers : At(d, k)' => At(d, k) /\ Spent(d)' >= Spent(d)
      BY <1>p, <1>a, <1>6 DEF StartWork, At, Spent, Key
  <2> QED
      BY <1>6, <1>q, <1>u, <2>1 DEF StartWork
<1>7. ASSUME NEW c \in Callers, Answer(c) PROVE AllWithin'
  <2>1. \A k \in Keys : breaker'[k].failures <= breaker[k].failures
      BY <1>7, <1>p, FailureCount DEF Answer, Success, Closed
  <2>2. \A k \in Keys, d \in Callers : At(d, k)' => At(d, k) /\ Spent(d)' >= Spent(d)
      BY <1>p, <1>a, <1>7 DEF Answer, Return, At, Spent, Key
  <2> QED
      BY <1>q, <2>1, <2>2
<1>8. ASSUME NEW c \in Callers, Raise(c) PROVE AllWithin'
    BY <1>8, FailedAttempt DEF Raise
<1>9. ASSUME NEW c \in Callers, TimeOut(c) PROVE AllWithin'
  <2>1. pc[c] \in {"queued", "running"}
      BY <1>9 DEF TimeOut, Abandon, TimeOutRunning, TimeOutQueued
  <2> QED
      BY <1>9, <2>1, FailedAttempt DEF TimeOut
<1>10. CASE ThreadReturns
    BY <1>10, <1>q, <1>u, <1>s DEF ThreadReturns
<1>11. CASE Tick
  <2>1. ASSUME NEW k \in Keys PROVE breaker'[k].failures <= breaker[k].failures
    <3>1. breaker'[k] = [breaker[k] EXCEPT !.openFor =
              IF breaker[k].openFor \in 0 .. Cooldown - 1 THEN breaker[k].openFor + 1
              ELSE breaker[k].openFor]
        BY <1>11 DEF Tick
    <3>2. breaker[k] \in CircuitState
        BY <1>p
    <3>3. breaker'[k].failures = breaker[k].failures
        BY <3>1, <3>2 DEF CircuitState
    <3> QED
        BY <3>3, FailureCount
  <2> QED
      BY <1>11, <1>q, <1>s, <2>1 DEF Tick
<1>12. CASE UNCHANGED vars
    BY <1>12, <1>q, <1>u, <1>s DEF vars
<1> QED
    BY <1>1, <1>2, <1>3, <1>4, <1>5, <1>6, <1>7, <1>8, <1>9, <1>10, <1>11, <1>12
    DEF Next, Proceed, EndAttempt

(* However many callers share a provider, it fails at most Threshold - 1      *)
(* times before its breaker is about to open, and then at most once for each  *)
(* attempt of the callers that were let in, until the breaker is reset.       *)
THEOREM FailuresStayBounded == Spec => []FailuresBounded
<1>1. Init => AllWithin
  <2> SUFFICES ASSUME Init PROVE AllWithin
      OBVIOUS
  <2>1. ASSUME NEW k \in Keys PROVE Within(k)
    <3>1. Tokens(k) = {} /\ breaker[k].failures = 0
        BY <2>1 DEF Init, Tokens, At, Slots, Closed
    <3>2. Cardinality(Tokens(k)) = 0 /\ 0 <= Bound
      <4>1. {} \subseteq Slots
          OBVIOUS
      <4> QED
          BY <3>1, <4>1, SlotsBounded, FS_EmptySet, BoundType, ExecutorAssumption
    <3> QED
        BY <3>1, <3>2, BoundType DEF Within
  <2> QED
      BY <2>1 DEF AllWithin
<1>2. IInv /\ AllWithin => FailuresBounded
  <2> SUFFICES ASSUME IInv, AllWithin, NEW k \in Keys PROVE breaker[k].failures <= Bound
      BY DEF FailuresBounded, Bound
  <2>1. Tokens(k) \subseteq Slots /\ Within(k) /\ breaker[k].failures \in Nat
      BY FailureCount DEF Tokens, AllWithin
  <2>2. Cardinality(Tokens(k)) \in Nat
      BY <2>1, SlotsBounded
  <2> QED
      BY <2>1, <2>2, BoundType DEF Within
<1> QED
    BY <1>1, <1>2, StepBounds, InvariantHolds, PTL DEF Spec

============================================================================
