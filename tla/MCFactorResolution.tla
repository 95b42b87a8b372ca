------------------------- MODULE MCFactorResolution -------------------------
(***************************************************************************)
(* Two assets of two families: a factor with one row for both, and one     *)
(* that news may leave neutral with a row for one asset only.  The ages    *)
(* are such that one run between two bridges max_stale_hours.              *)
(***************************************************************************)
EXTENDS QualityGate, TLC

CONSTANTS equity, gold, rates, policy

MCTargets == (rates :> {NoAsset}) @@ (policy :> {equity})
MCMaxStale == (rates :> 4) @@ (policy :> 4)
MCSensitivity ==
    (equity :> ((rates :> 1) @@ (policy :> 1)))
        @@ (gold :> ((rates :> 1) @@ (policy :> 0)))
MCCritical == (equity :> {policy}) @@ (gold :> {rates})

(* New, reported as stale, too old, and reported in part.                     *)
MCInputs ==
    {[status |-> "VALID", age |-> 0], [status |-> "STALE", age |-> 4],
     [status |-> "VALID", age |-> 5], [status |-> "PARTIAL", age |-> 5]}
MCEventSets == {{}, {<<policy, equity>>}}

(* A single input and no events: what is left when the sources fail.          *)
FewInputs == {[status |-> "VALID", age |-> 0]}
NoEvents == {{}}

============================================================================
