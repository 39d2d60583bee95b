---------------------------- MODULE ReportParts -----------------------------
(***************************************************************************)
(* What a discovery computes once it has read the cluster: the supply      *)
(* chain it reports, the storage a node sells and the summary of quotas    *)
(* and mirror pods, for any values of their constants.  They share no      *)
(* state.                                                                  *)
(***************************************************************************)
EXTENDS Part, Integers, Sequences

CONSTANTS
  ChainNodes, ChainPods, ChainNamespaces, ChainVolumes, ChainServices, NoController,
  ChainNodeOf, ChainNamespaceOf, ChainControllerOf, ChainContainersOf, ChainMountsOf,
  ChainSelectedBy, ChainPhases, ChainLosses,      \* of SupplyChain
  HardStatements, SoftStatements, NoStatement, FsSizes, FsUsed,
                                                  \* of NodeStorage
  NoLimit, QuotaLists, PodPrefixes, MirrorPodLists, SummaryNodes, PoolSets
                                                  \* of ClusterSummary

\* A pod is on a listed node and in a namespace, and a workload controller and
\* the pods it owns are in one namespace.
ASSUME ChainAssumption ==
  /\ ChainNodeOf \in [ChainPods -> ChainNodes]
  /\ ChainNamespaceOf \in [ChainPods -> ChainNamespaces]
  /\ ChainMountsOf \in [ChainPods -> SUBSET ChainVolumes]
  /\ \A p, q \in ChainPods :
        (ChainControllerOf[p] = ChainControllerOf[q] /\ ChainControllerOf[p] # NoController)
          => ChainNamespaceOf[p] = ChainNamespaceOf[q]

\* A threshold statement is a percentage or a number of bytes.
ASSUME StorageAssumption ==
  /\ \A v \in (HardStatements \cup SoftStatements) \ {NoStatement} : v.unit \in {"%", "bytes"} /\ v.n \in Nat
  /\ FsSizes \subseteq Nat /\ FsUsed \subseteq Nat

\* A limit is a number, and a namespace without a quota has some capacity.
ASSUME SummaryAssumption ==
  /\ NoLimit \in Nat \ {0}
  /\ QuotaLists \subseteq Seq([hard : Nat, terminating : BOOLEAN])
  /\ MirrorPodLists \subseteq Seq([prefix : PodPrefixes, node : SummaryNodes])

VARIABLES
  losses, phase, todo, entities, podEntities, controllers, specs,
    volumeMetrics, notReadyNodes, podsWithVolumes, reported,
  evictionHard, evictionSoft, graceless, size, available, threshold,
    storageSold, placeable, stage,
  quotas, given, capacity, pools, mirrorPods, staticPods, nodeNames,
    daemonPrefix, daemon

Supply == INSTANCE SupplyChain WITH
  Nodes <- ChainNodes, Pods <- ChainPods, Namespaces <- ChainNamespaces,
  Volumes <- ChainVolumes, Services <- ChainServices, None <- NoController,
  NodeOf <- ChainNodeOf, NamespaceOf <- ChainNamespaceOf,
  ControllerOf <- ChainControllerOf, ContainersOf <- ChainContainersOf,
  MountsOf <- ChainMountsOf, SelectedBy <- ChainSelectedBy,
  Phases <- ChainPhases, MaxLosses <- ChainLosses

Storage == INSTANCE NodeStorage WITH
  Statements <- HardStatements, Capacities <- FsSizes, Used <- FsUsed

Summary == INSTANCE ClusterSummary WITH Unlimited <- NoLimit, Nodes <- SummaryNodes

supplyVars == <<losses, phase, todo, entities, podEntities, controllers,
    specs, volumeMetrics, notReadyNodes, podsWithVolumes, reported>>
storageVars == <<evictionHard, evictionSoft, graceless, size, available,
    threshold, storageSold, placeable, stage>>
summaryVars == <<quotas, given, capacity, pools, mirrorPods, staticPods,
    nodeNames, daemonPrefix, daemon>>

-----------------------------------------------------------------------------
(* The parts' properties, stated where their modules explain them.         *)

\* What a report refers to is in it, under the keys it is bought with.
ReportIsClosed == part = "supply" => Supply!ReportIsClosed

\* Storage thresholds keep pods away, and the stricter of two is sold.
ThresholdsCount == part = "storage" => Storage!ThresholdsCount

\* Quotas and mirror pods count the same in any order.
SummaryIgnoresOrder == part = "summary" => Summary!SummaryIgnoresOrder
=============================================================================
