--------------------------- MODULE MCCoordination ----------------------------
(***************************************************************************)
(* A small instance of Coordination: two types of configuration, five      *)
(* model aliases, the routes of llm.service, and three workers who want    *)
(* two locks: one that outlived its lease, its successor, and a third who  *)
(* profits from a wrong release.                                           *)
(***************************************************************************)
EXTENDS Coordination

CONSTANTS a, b

MCTypes == {a, b}

(* One pair of contents does not validate together.                           *)
MCValidBundles == {f \in [MCTypes -> {"x", "y"}] : ~(f[a] = "y" /\ f[b] = "y")}

MCRoute ==
    [t \in TaskTypes |->
        CASE t = "extraction" -> <<"qwen_fast", "deepseek_fast", "deepseek_reasoning">>
          [] t = "reasoning" -> <<"deepseek_reasoning", "deepseek_high">>
          [] OTHER -> <<"deepseek_high", "gpt_expert">>]

MCConfigured == {Aliases, Aliases \ {"qwen_fast", "gpt_expert"}, {"qwen_fast"}}

(* The tiers of the sources behind an event.                                  *)
MCTierSets == {{"D"}, {"A", "D"}, {"A", "B", "D"}}
=============================================================================
