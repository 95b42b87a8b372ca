------------------------------ MODULE Coordination ------------------------------
(*****************************************************************************)
(* The parts of WideGold that coordinate processes, threads or calls and have  *)
(* no state in common: the configuration, the trace stream, the research       *)
(* requests, the analysis flow, the event graph and the run lock (which        *)
(* AnalysisRun also uses, beside the runs).  As nothing one of them does can   *)
(* be seen by another, a behaviour lets one part move, any of them, while the  *)
(* others rest in their initial states.                                        *)
(*****************************************************************************)
EXTENDS RuntimeConfig, TraceStream, Research, AnalysisFlow, EventIntelligence, RunLock

VARIABLE
  part      \* the part that moves

coordinationVars ==
  <<configVars, traceVars, researchVars, flowVars, graphVars, lockVars, part>>

Parts == {"config", "trace", "research", "flow", "events", "lock"}

\* One initial state of a part that has several, for the behaviours in which it rests.
AnyMode == CHOOSE m \in ResearchModes : TRUE
EventsRest ==
  /\ graphMode = "direct" /\ keyed = (CHOOSE c \in Configured : TRUE)
  /\ cluster = [tiers |-> CHOOSE s \in TierSets : TRUE, rumor |-> FALSE]

CoordinationInit ==
  /\ part \in Parts
  /\ ConfigInit /\ TraceInit /\ ResearchInit /\ FlowInit /\ EventInit /\ LockInit
  /\ part # "research" => mode = AnyMode
  /\ part # "events" => EventsRest

besideConfig == <<traceVars, researchVars, flowVars, graphVars, lockVars>>
besideTrace == <<configVars, researchVars, flowVars, graphVars, lockVars>>
besideResearch == <<configVars, traceVars, flowVars, graphVars, lockVars>>
besideFlow == <<configVars, traceVars, researchVars, graphVars, lockVars>>
besideEvents == <<configVars, traceVars, researchVars, flowVars, lockVars>>
besideLock == <<configVars, traceVars, researchVars, flowVars, graphVars>>

\* A step of one part, beside which the others rest.
Alone(name, Step, rest) == part = name /\ Step /\ UNCHANGED <<rest, part>>

CoordinationNext ==
  \/ Alone("config", ConfigNext, besideConfig)
  \/ Alone("trace", TraceNext, besideTrace)
  \/ Alone("research", ResearchNext, besideResearch)
  \/ Alone("flow", FlowNext, besideFlow)
  \/ Alone("events", EventNext, besideEvents)
  \/ Alone("lock", LockNext, besideLock)

\* The fairness of each part's own specification, asked of the part that moves.
CoordinationFairness ==
  /\ \A p \in Servers : WF_coordinationVars(Alone("config", Put(p), besideConfig))
  /\ \A p \in Servers, t \in Types : WF_coordinationVars(Alone("config", Expire(p, t), besideConfig))
  /\ WF_coordinationVars(Alone("trace", StreamStep, besideTrace))
  /\ WF_coordinationVars(Alone("flow", FlowMoves, besideFlow))
  /\ WF_coordinationVars(Alone("flow", \E t \in Tasks : TaskStarts(t), besideFlow))
  /\ WF_coordinationVars(Alone("flow", TaskEnds, besideFlow))
  /\ WF_coordinationVars(Alone("events", EventNext, besideEvents))

CoordinationSpec ==
  CoordinationInit /\ [][CoordinationNext]_coordinationVars /\ CoordinationFairness

-----------------------------------------------------------------------------
\* Every variable of every part keeps its type.
PartsTypeOK ==
  /\ part \in Parts
  /\ ConfigTypeOK /\ TraceTypeOK /\ ResearchTypeOK /\ FlowTypeOK /\ EventTypeOK
  /\ LockTypeOK

Settled ==
  CASE part = "config" -> \A p \in Servers, t \in Types : cache[p][t] \in {None, ActiveContent(t)}
    [] part = "trace" -> runStatus \in TerminalStatuses => stream.step \in {"closed", "done", "gone"}
    [] part = "flow" -> flow \in {"ended", "raised"}
    [] part = "events" -> node \in {"ended", "exhausted"}
    [] OTHER -> TRUE

\* Nothing keeps waiting for what does not come.  Once activations are over, every local cache
\* holds what is ACTIVE or nothing, also where the bump was lost or a fill that the activation
\* overtook came after the clear (the time to live of runtime_config_content); a stream whose
\* browser stays ends once its run has ended for good, in spite of pages in arrears and of a
\* retry in between (event_stream); a flow returns or raises, with more tasks than workers too;
\* and however its models behave, a cluster ends with its event, without one, or as failed.
EveryPartSettles == <>[]Settled
=============================================================================
