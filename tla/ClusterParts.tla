---------------------------- MODULE ClusterParts ----------------------------
(***************************************************************************)
(* The cache of the pods' controllers and what steers placement, the       *)
(* commodities of taints and of affinity rules, for any values of their    *)
(* constants.  They share no state.                                        *)
(***************************************************************************)
EXTENDS Part, Integers, Sequences

CONSTANTS
  None,
  OwnedPods, OwnerSets, Owning, SetOf, CacheTTL, DiscoveryTime, OwnerTime,
                                                  \* of ControllerCache
  TaintNodes, TaintPods, TaintHost, NodeTaints, TaintClusters,
                                                  \* of TaintToleration
  AffinityNodes, AffinityPods, WorkloadOf, PodLabelOf, TopologyOf, HonorPvAffinity, AffinityClusters
                                                  \* of PodAffinity

\* A pod's owner reference names a replica set or nothing.
ASSUME OwnersAssumption ==
  /\ SetOf \in [OwnedPods -> OwnerSets \cup {None}]
  /\ Owning # {} /\ None \notin OwnerSets \cup Owning /\ None \notin Nat
  /\ CacheTTL \in Nat /\ DiscoveryTime \in Nat

\* A pod runs on a node.
ASSUME TaintAssumption ==
  TaintHost \in [TaintPods -> TaintNodes] /\ \A c \in TaintClusters : c.running \subseteq TaintPods

\* The list of pods has every pod, a pod is on a listed node, a required node
\* affinity has a term (the API server demands it), and a workload's key is not
\* a pod's.
ASSUME AffinityAssumption ==
  /\ \A c \in AffinityClusters :
        /\ c.order \in Seq(AffinityPods)
        /\ \A p \in AffinityPods : \E i \in DOMAIN c.order : c.order[i] = p
        /\ c.hostOf \in [AffinityPods -> AffinityNodes]
        /\ \A p \in AffinityPods : c.nodeTerms[p] # {}
        /\ \A p \in AffinityPods, n \in AffinityNodes :
              \A i \in DOMAIN c.antiAffinity[p] : c.antiAffinity[p][i].key \in DOMAIN TopologyOf[n]
        /\ c.newAlgorithm \in BOOLEAN
  /\ \A p \in AffinityPods : WorkloadOf[p] \notin AffinityPods

VARIABLES
  clock, ownerOf, changedAt, controllerCache, listedPods, listedAt, podToController,
  taintsOf, tolerated, poweredOn, runningPods, taintsSold, taintsBought, processed,
  cluster, waiting, nodesPods, podsWithAffinities, hostnameSpreadPods, otherSpreadPods, accessSold, accessBought

Owners == INSTANCE ControllerCache WITH
  Pods <- OwnedPods, Sets <- OwnerSets, Deployments <- Owning, None <- None,
  ParentOf <- SetOf, TTL <- CacheTTL, MaxDiscovery <- DiscoveryTime, MaxTime <- OwnerTime,
  now <- clock, cache <- controllerCache, listed <- listedPods

Taints == INSTANCE TaintToleration WITH
  Nodes <- TaintNodes, Pods <- TaintPods, None <- None, HostOf <- TaintHost,
  Taints <- NodeTaints, Clusters <- TaintClusters

Affinities == INSTANCE PodAffinity WITH
  Nodes <- AffinityNodes, Pods <- AffinityPods, None <- None, ControllerOf <- WorkloadOf,
  LabelOf <- PodLabelOf, Scenarios <- AffinityClusters

ownerVars == <<clock, ownerOf, changedAt, controllerCache, listedPods,
    listedAt, podToController>>
taintVars == <<taintsOf, tolerated, poweredOn, runningPods, taintsSold,
    taintsBought, processed>>
affinityVars == <<cluster, waiting, nodesPods, podsWithAffinities,
    hostnameSpreadPods, otherSpreadPods, accessSold, accessBought>>

-----------------------------------------------------------------------------
(* The parts' properties, stated where their modules explain them.         *)

\* The controller cache is wrong for a bounded time only.
StaleOwnerBounded == part = "owners" => Owners!StaleOwnerBounded

\* Taint commodities admit a pod to the nodes whose taints it tolerates.
TaintsSteerPlacement == part = "taints" => Taints!TaintsSteerPlacement

\* The commodities of both algorithms steer pods as the affinity rules do.
PlacementFollowsRules == part = "affinity" => Affinities!PlacementFollowsRules
=============================================================================
