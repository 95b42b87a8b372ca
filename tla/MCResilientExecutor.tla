------------------------- MODULE MCResilientExecutor -------------------------
(***************************************************************************)
(* Two callers.  The first has a slow primary and a fallback that may      *)
(* fail and is not blocking, the second shares the slow primary and falls  *)
(* back on a provider that is in order.  Or one caller with such a         *)
(* fallback, alone.                                                        *)
(***************************************************************************)
EXTENDS ResilientExecutor, TLC

CONSTANTS t1, t2, slow, flaky, good

Shared == (t1 :> <<slow, flaky>>) @@ (t2 :> <<slow, good>>)

Alone == t1 :> <<slow, good>>

============================================================================
