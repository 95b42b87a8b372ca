--------------------------- MODULE FactorResolution ---------------------------
(***************************************************************************)
(* engine/factor_resolution.py over the runs of a deployment: each run     *)
(* resolves every factor from its current input, from the last state an    *)
(* earlier run stored, or from news events, and stores the result, which   *)
(* later runs read back.  The values are abstracted to where they come     *)
(* from: a row's basis is the time of the observation it rests on.         *)
(***************************************************************************)
EXTENDS Integers, Sequences

CONSTANTS
    Factors,         \* configs/factors.yaml
    Assets,          \* configs/assets.yaml
    NoAsset,         \* the asset id of a row that holds for every asset
    Targets,         \* the asset ids a factor has rows for
    MaxStale,        \* max_stale_hours of a factor
    NeutralIfAbsent, \* the factors with neutral_if_absent
    Lookback,        \* _LKG_SCAN_LOOKBACK_HOURS
    Inputs,          \* the inputs a factor may find besides none: status and age
    EventSets,       \* the sets of rows a run's events may move
    AsOfTimes,       \* the as_of times of the runs
    MaxRuns          \* bound: runs resolved

InputStatus == {"VALID", "PARTIAL", "STALE"}

ASSUME FactorAssumption ==
    /\ NoAsset \notin Assets
    /\ Targets \in [Factors -> SUBSET (Assets \cup {NoAsset})]
    /\ MaxStale \in [Factors -> Nat \ {0}]
    /\ NeutralIfAbsent \subseteq Factors
    /\ Lookback \in Nat
    /\ \A f \in Factors : MaxStale[f] <= Lookback
    /\ Inputs \subseteq [status : InputStatus, age : Nat]
    /\ AsOfTimes \subseteq Nat \ {0}
    /\ \A i \in Inputs, t \in AsOfTimes : i.age < t
    /\ MaxRuns \in Nat

RowKeys == {k \in Factors \X (Assets \cup {NoAsset}) : k[2] \in Targets[k[1]]}

NoInput == [status |-> "NONE", age |-> 0]

(* The basis of a row that rests on no observation at all.                    *)
Nothing == 0

VARIABLE runs        \* the resolved runs in the order they stored their rows

Row == [status : InputStatus \cup {"UNAVAILABLE"}, coverage : 0 .. 100,
        lkg : BOOLEAN, basis : Nat]

----------------------------------------------------------------------------
Larger(a, b) == IF a >= b THEN a ELSE b

HoursBetween(later, earlier) == IF later > earlier THEN later - earlier ELSE 0

(* Mutant of CoverageAt: no floor.                                            *)
CoverageNoFloor(f, age) == 100 - (100 * age) \div MaxStale[f]

(* Coverage in percent: 100 for a new observation, less with its age.         *)
CoverageAt(f, age) == Larger(25, 100 - (100 * age) \div MaxStale[f])

EffectiveStatus(f, i) ==
    IF i.status = "VALID" /\ i.age > MaxStale[f] THEN "STALE" ELSE i.status

Usable(f, i) ==
    /\ i # NoInput
    /\ EffectiveStatus(f, i) = "STALE" => i.age <= MaxStale[f]

FromInput(f, i, t) ==
    [status   |-> EffectiveStatus(f, i),
     coverage |-> CASE EffectiveStatus(f, i) = "STALE"   -> CoverageAt(f, i.age)
                    [] EffectiveStatus(f, i) = "PARTIAL" -> 70
                    [] OTHER                             -> 100,
     lkg      |-> FALSE,
     basis    |-> t - i.age]

(* Mutants of Earlier: no WHERE as_of < before; and <= for <.                 *)
EarlierOrLater(seen, t) == {j \in 1 .. seen : runs[j].asof >= t - Lookback}

EarlierOrSame(seen, t) ==
    {j \in 1 .. seen : runs[j].asof <= t /\ runs[j].asof >= t - Lookback}

(* latest_factor_states(before): of the first seen runs to be stored, those   *)
(* with the latest as_of before t.  A REANALYZE has the as_of of its base:    *)
(* which of two runs with the same as_of is read is up to the database.       *)
Earlier(seen, t) ==
    {j \in 1 .. seen : runs[j].asof < t /\ runs[j].asof >= t - Lookback}

LatestBefore(seen, t) ==
    {j \in Earlier(seen, t) : \A l \in Earlier(seen, t) : runs[l].asof <= runs[j].asof}

Candidates(seen, t) ==
    IF LatestBefore(seen, t) = {} THEN {Nothing} ELSE LatestBefore(seen, t)

(* The last known good state is taken whatever its status.                    *)
UsesPrevious(f, j, t) ==
    j # Nothing /\ HoursBetween(t, runs[j].asof) <= MaxStale[f]

FromPrevious(k, j, t) ==
    [status   |-> "STALE",
     coverage |-> CoverageAt(k[1], HoursBetween(t, runs[j].asof)),
     lkg      |-> TRUE,
     basis    |-> runs[j].rows[k].basis]

(* The news were scanned and hold nothing about the factor.                   *)
Neutral(t) == [status |-> "VALID", coverage |-> 100, lkg |-> FALSE, basis |-> t]

EventOnly(t) == [status |-> "PARTIAL", coverage |-> 55, lkg |-> FALSE, basis |-> t]

Unavailable ==
    [status |-> "UNAVAILABLE", coverage |-> 0, lkg |-> FALSE, basis |-> Nothing]

ResolveRow(k, i, j, t, scanned, moved) ==
    CASE Usable(k[1], i)          -> FromInput(k[1], i, t)
      [] ~Usable(k[1], i) /\ UsesPrevious(k[1], j, t) -> FromPrevious(k, j, t)
      [] OTHER ->
            IF k \in moved THEN EventOnly(t)
            ELSE IF scanned /\ k[1] \in NeutralIfAbsent THEN Neutral(t)
            ELSE Unavailable

----------------------------------------------------------------------------
Init == runs = <<>>

(* A run as of t that read the stored states when seen runs had stored        *)
(* theirs.  Runs of other dates and modes may have stored more since, and t   *)
(* may lie before theirs: a replay.                                           *)
Resolve(t, seen, scanned, moved) ==
    /\ Len(runs) < MaxRuns
    /\ \E input \in [RowKeys -> Inputs \cup {NoInput}],
          previous \in [RowKeys -> Candidates(seen, t)] :
          runs' = Append(runs,
                    [asof |-> t,
                     rows |-> [k \in RowKeys |->
                                 ResolveRow(k, input[k], previous[k], t, scanned, moved)]])

Next ==
    \E t \in AsOfTimes, seen \in 0 .. Len(runs),
       scanned \in BOOLEAN, moved \in EventSets : Resolve(t, seen, scanned, moved)

Spec == Init /\ [][Next]_runs

----------------------------------------------------------------------------
(* Types.  A row counts for nothing exactly when its factor is unavailable:   *)
(* every other status keeps a share of coverage, however old the row.         *)
TypeOK ==
    /\ runs \in Seq([asof : AsOfTimes, rows : [RowKeys -> Row]])
    /\ \A n \in 1 .. Len(runs), k \in RowKeys :
          runs[n].rows[k].coverage = 0 <=> runs[n].rows[k].status = "UNAVAILABLE"

(* No look-ahead: whatever order runs, replays and reanalyses store their     *)
(* states in, no row rests, through any chain of last known good states, on   *)
(* an observation made after the time the run is about.                       *)
PointInTime ==
    \A n \in 1 .. Len(runs), k \in RowKeys :
        runs[n].rows[k].basis <= runs[n].asof

(* A row carried over is the row of a run about an earlier time, at most      *)
(* max_stale_hours earlier: a REANALYZE does not carry its base's own rows,   *)
(* nor a run those of a replay about a later day or a day too far back.       *)
CarriedFromEarlier ==
    \A n \in 1 .. Len(runs), k \in RowKeys :
        runs[n].rows[k].lkg =>
            \E j \in 1 .. n - 1 :
                /\ runs[j].asof < runs[n].asof
                /\ runs[n].asof <= runs[j].asof + MaxStale[k[1]]
                /\ runs[n].rows[k].basis = runs[j].rows[k].basis

(* docs/05 section 6: missing data is not a zero score; it leaves the         *)
(* denominator and lowers coverage.  A row that rests on no observation, no   *)
(* news scan and no event counts for nothing.                                 *)
MissingStaysMissing ==
    \A n \in 1 .. Len(runs), k \in RowKeys :
        runs[n].rows[k].basis = Nothing => runs[n].rows[k].coverage = 0

============================================================================
