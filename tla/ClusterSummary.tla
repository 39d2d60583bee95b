--------------------------- MODULE ClusterSummary ---------------------------
(***************************************************************************)
(* The summary of the cluster that a full discovery computes from its      *)
(* lists (pkg/discovery/repository/kube_cluster.go): the quota of a        *)
(* namespace reconciled from its resource quotas, and which static pods    *)
(* behave like the pods of a daemon set.  The API server's lists have no   *)
(* order, so the inputs are sequences in any order and the results should  *)
(* not depend on it.                                                       *)
(***************************************************************************)
EXTENDS Naturals, Sequences

CONSTANTS
  Unlimited,     \* the capacity of a namespace without a quota
  QuotaLists,    \* lists of resource quotas: [hard, terminating]
  MirrorPodLists,\* lists of static pods: [prefix, node], none of them twice
  Nodes,
  PoolSets       \* choices of node pools: sets of sets of nodes

VARIABLES
  quotas,        \* resource quotas still to reconcile
  given,         \* all of them (rigid)
  capacity,      \* capacity of the namespace's quota resource
  pools,         \* node pools: by label, by machine set, and the cluster
  mirrorPods,    \* static pods still to look at
  staticPods,    \* all of them (rigid)
  nodeNames,     \* prefix -> nodes with such a pod, until it was looked at
  daemonPrefix,  \* prefix -> flag, once it was looked at
  daemon         \* pod -> flag

summaryVars == <<quotas, given, capacity, pools, mirrorPods, staticPods, nodeNames, daemonPrefix, daemon>>

Empty == [x \in {} |-> x]
Put(f, x, value) == [y \in DOMAIN f \cup {x} |-> IF y = x THEN value ELSE f[y]]
Delete(f, x) == [y \in DOMAIN f \ {x} |-> f[y]]

\* A quota for terminating pods is ignored.  A capacity of zero counts as
\* not set yet, so any limit replaces it.
ReconcileQuota(cap, q) ==
  IF q.terminating THEN cap
  ELSE IF cap = 0 \/ q.hard < cap THEN q.hard
  ELSE cap

ReconcileQuotas ==
  /\ quotas # <<>>
  /\ capacity' = ReconcileQuota(capacity, Head(quotas))
  /\ quotas' = Tail(quotas)
  /\ UNCHANGED <<given, pools, mirrorPods, staticPods, nodeNames, daemonPrefix, daemon>>

Prefixes(pods) == {pods[i].prefix : i \in DOMAIN pods}
NodeNames(pods, prefix) == {pods[i].node : i \in {j \in DOMAIN pods : pods[j].prefix = prefix}}

\* A static pod is a daemon when some pool has one with the same prefix on
\* every node.
InEveryNodeOfAPool(prefix) == \E pool \in pools : pool \subseteq nodeNames[prefix]

\* Mutant: the nodes of the prefix are forgotten and looked up again.
ForgetPrefixOnly(pod) ==
  LET flag == IF pod.prefix \in DOMAIN nodeNames THEN InEveryNodeOfAPool(pod.prefix) ELSE FALSE
  IN  /\ daemon' = Put(daemon, pod, flag)
      /\ nodeNames' = Delete(nodeNames, pod.prefix)
      /\ UNCHANGED daemonPrefix

\* The flag of a prefix is computed for the first pod that has it and
\* remembered for the others.
MarkMirrorPod(pod) ==
  IF pod.prefix \in DOMAIN daemonPrefix
  THEN /\ daemon' = Put(daemon, pod, daemonPrefix[pod.prefix])
       /\ UNCHANGED <<nodeNames, daemonPrefix>>
  ELSE /\ daemon' = Put(daemon, pod, InEveryNodeOfAPool(pod.prefix))
       /\ daemonPrefix' = Put(daemonPrefix, pod.prefix, InEveryNodeOfAPool(pod.prefix))
       /\ nodeNames' = Delete(nodeNames, pod.prefix)

ComputeMirrorPodToDaemonMap ==
  /\ quotas = <<>> /\ mirrorPods # <<>>
  /\ MarkMirrorPod(Head(mirrorPods))
  /\ mirrorPods' = Tail(mirrorPods)
  /\ UNCHANGED <<quotas, given, capacity, pools, staticPods>>

Rest == quotas = <<>> /\ mirrorPods = <<>> /\ UNCHANGED summaryVars

Init ==
  /\ given \in QuotaLists
  /\ quotas = given
  /\ capacity = Unlimited
  /\ pools \in {ps \cup {Nodes} : ps \in PoolSets}
  /\ staticPods \in MirrorPodLists
  /\ mirrorPods = staticPods
  /\ nodeNames = [prefix \in Prefixes(staticPods) |-> NodeNames(staticPods, prefix)]
  /\ daemonPrefix = Empty /\ daemon = Empty

Next == ReconcileQuotas \/ ComputeMirrorPodToDaemonMap \/ Rest

Spec == Init /\ [][Next]_summaryVars
-----------------------------------------------------------------------------
Applicable == {given[i].hard : i \in {j \in DOMAIN given : ~given[j].terminating}}
Limits == Applicable \cup {Unlimited}

\* The order of the lists decides nothing.  The capacity is the most restrictive
\* limit, provided that none is zero: a zero limit is forgotten as soon as
\* another quota follows it.  A mirror pod is a daemon exactly if the pods of its
\* prefix cover a node pool, although each prefix is looked at once.
SummaryIgnoresOrder ==
  /\ (quotas = <<>> /\ 0 \notin Applicable) =>
       capacity \in Limits /\ \A limit \in Limits : capacity <= limit
  /\ mirrorPods = <<>> =>
       \A i \in DOMAIN staticPods :
         daemon[staticPods[i]] <=> \E pool \in pools : pool \subseteq NodeNames(staticPods, staticPods[i].prefix)
=============================================================================
