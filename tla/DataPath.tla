-------------------------------- MODULE DataPath --------------------------------
(*****************************************************************************)
(* The way of the data, from the external bridge and its snapshots over the    *)
(* indicator store to the computations on what was stored.  Each part works on *)
(* state of its own, and hands over values only; so a behaviour lets one part  *)
(* move, any of them, while the others rest in their initial states.           *)
(*****************************************************************************)
EXTENDS BridgeClient, EarningsSnapshots, IndicatorStore, Computations

VARIABLE
  part      \* the part that moves

dataVars == <<bridgeVars, snapshotVars, storeVars, computationVars, part>>

Parts == {"bridge", "snapshots", "store", "computations"}

\* One initial state of the store, for the behaviours in which it rests.
AnyKind == CHOOSE k \in SourceKinds : TRUE

DataInit ==
  /\ part \in Parts
  /\ BridgeInit /\ SnapshotsInit /\ StoreInit /\ ComputationsInit
  /\ part # "store" => kind = AnyKind

besideBridge == <<snapshotVars, storeVars, computationVars>>
besideSnapshots == <<bridgeVars, storeVars, computationVars>>
besideStore == <<bridgeVars, snapshotVars, computationVars>>
besideComputations == <<bridgeVars, snapshotVars, storeVars>>

\* A step of one part, beside which the others rest.
Alone(name, Step, rest) == part = name /\ Step /\ UNCHANGED <<rest, part>>

DataNext ==
  \/ Alone("bridge", BridgeNext, besideBridge)
  \/ Alone("snapshots", SnapshotsNext, besideSnapshots)
  \/ Alone("store", StoreNext, besideStore)
  \/ Alone("computations", ComputationsNext, besideComputations)

\* The fairness of the bridge, asked where it moves: time passes, and requests keep
\* coming in and are worked on.  The other parts promise nothing about the future.
DataFairness ==
  /\ WF_dataVars(Alone("bridge", PassTime, besideBridge))
  /\ \A t \in Threads : WF_dataVars(Alone("bridge", ThreadStep(t), besideBridge))

DataSpec == DataInit /\ [][DataNext]_dataVars /\ DataFairness

-----------------------------------------------------------------------------
\* Every variable of every part keeps its type.
DataTypeOK ==
  /\ part \in Parts
  /\ BridgeTypeOK /\ SnapshotsTypeOK /\ StoreTypeOK
  /\ subject \in {"none", "factor", "feature", "score", "clusters", "events"}

\* Once the source works for good, every thread of the bridge serves forecasts again and again:
\* neither of the two back-offs renews itself, and no thread is left waiting by another.
BridgeRecovers == part = "bridge" => SourceRecovers
=============================================================================
