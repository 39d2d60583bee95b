----------------------------- MODULE UsageMerge -----------------------------
(***************************************************************************)
(* What the tasks of one discovery report about namespaces, workload       *)
(* controllers and container specs, and how the client's three workers     *)
(* combine it (pkg/discovery/worker).  Every task sums the usage of the    *)
(* pods on its node, per namespace and per controller, and hands out one   *)
(* record per container replica; the workers fold the reports in the order *)
(* in which the tasks happened to end.  A task may fail, a pod's owner may *)
(* be unknown, and pods have readings of different lengths because they    *)
(* start at different times.                                               *)
(***************************************************************************)
EXTENDS Naturals, Sequences, FiniteSetsExt, SequencesExt

CONSTANTS
  Nodes,
  PodsOn,        \* node -> sequence of its pods
  Namespaces, Controllers,
  NamespaceOf,   \* pod -> namespace
  ControllerOf,  \* pod -> controller, or a value that is none
  QuotaOf,       \* pod -> sum of the limits of its containers
  ResourceTypes, \* resource types of a container spec
  Readings,      \* sequences of usage values a pod may have
  TypeSets       \* sets of resource types a replica may have metrics for

VARIABLES
  used,          \* pod -> its readings in the sampling period
  types,         \* pod -> resource types its container has metrics for
  known,         \* pods whose owner is in the sink
  running,       \* nodes whose task has not ended
  reports,       \* nodes whose task succeeded, in the order the tasks ended
  nsUsed, nsQuota, ctlQuota, ctlPods, spec,   \* the combined metrics
  combined

vars == <<used, types, known, running, reports, nsUsed, nsQuota, ctlQuota, ctlPods, spec, combined>>

Pods == UNION {ToSet(PodsOn[n]) : n \in Nodes}

TotalQuota(ps) == MapThenSumSet(LAMBDA p : QuotaOf[p], ps)
-----------------------------------------------------------------------------
(* The report of one task.                                                 *)

\* Mutant: readings of different lengths are added as far as both go.
AddCommonPrefix(existing, new) ==
  IF Len(existing) < Len(new)
  THEN [i \in 1..Len(new) |-> IF i <= Len(existing) THEN existing[i] + new[i] ELSE new[i]]
  ELSE [i \in 1..Len(existing) |-> IF i <= Len(new) THEN existing[i] + new[i] ELSE existing[i]]

\* Readings of a shorter period are discarded, whichever side they are on.
AccumulateMultiPoints(existing, new) ==
  IF Len(existing) < Len(new) THEN new
  ELSE IF Len(new) < Len(existing) THEN existing
  ELSE [i \in 1..Len(existing) |-> existing[i] + new[i]]

PodsIn(n, ns) == SelectSeq(PodsOn[n], LAMBDA p : NamespaceOf[p] = ns)

SumUsage(ps) == FoldLeft(AccumulateMultiPoints, <<>>, [i \in DOMAIN ps |-> used[ps[i]]])
SumQuotaUsage(ps) == TotalQuota(ToSet(ps))

\* Owned pods of a node whose owner the sink knows, pending ones included.
OwnedBy(n, k) == {p \in ToSet(PodsOn[n]) \cap known : ControllerOf[p] = k}

\* One record per container replica with a known owner: one replica, and one
\* sample for every resource type that has metrics.
Replicas(n, k) ==
  LET ps == SelectSeq(PodsOn[n], LAMBDA p : p \in OwnedBy(n, k))
  IN  [i \in DOMAIN ps |->
         [replicas |-> 1, samples |-> [t \in types[ps[i]] |-> 1]]]
-----------------------------------------------------------------------------
(* Combining the reports.                                                  *)

NamespaceUsed(ns) ==
  FoldLeft(AccumulateMultiPoints, <<>>, [i \in DOMAIN reports |-> SumUsage(PodsIn(reports[i], ns))])

NamespaceQuota(ns) ==
  FoldLeft(LAMBDA a, n : a + SumQuotaUsage(PodsIn(n, ns)), 0, reports)

CombineController(k) ==
  FoldLeft(LAMBDA a, n : [quota |-> a.quota + TotalQuota(OwnedBy(n, k)),
                          pods |-> a.pods \cup OwnedBy(n, k)],
           [quota |-> 0, pods |-> {}], reports)

\* Only the resource types of the replica that arrived first are combined.
AppendReplica(a, r) ==
  [replicas |-> a.replicas + 1,
   samples |-> [t \in DOMAIN a.samples |->
                  a.samples[t] + (IF t \in DOMAIN r.samples THEN r.samples[t] ELSE 0)]]

NoSpec == [replicas |-> 0, samples |-> <<>>]

AllReplicas(k) == FlattenSeq([i \in DOMAIN reports |-> Replicas(reports[i], k)])

ContainerSpecMetrics(k) ==
  LET rs == AllReplicas(k)
  IN  IF rs = <<>> THEN NoSpec ELSE FoldLeft(AppendReplica, Head(rs), Tail(rs))
-----------------------------------------------------------------------------
TaskSucceeds(n) ==
  /\ n \in running
  /\ running' = running \ {n}
  /\ reports' = Append(reports, n)
  /\ UNCHANGED <<used, types, known, nsUsed, nsQuota, ctlQuota, ctlPods, spec, combined>>

TaskFails(n) ==
  /\ n \in running
  /\ running' = running \ {n}
  /\ UNCHANGED <<used, types, known, reports, nsUsed, nsQuota, ctlQuota, ctlPods, spec, combined>>

\* The namespace, controller and container spec workers run one after the
\* other in DiscoverWithNewFramework.
Combine ==
  /\ running = {} /\ ~combined
  /\ combined' = TRUE
  /\ nsUsed' = [ns \in Namespaces |-> NamespaceUsed(ns)]
  /\ nsQuota' = [ns \in Namespaces |-> NamespaceQuota(ns)]
  /\ ctlQuota' = [k \in Controllers |-> CombineController(k).quota]
  /\ ctlPods' = [k \in Controllers |-> CombineController(k).pods]
  /\ spec' = [k \in Controllers |-> ContainerSpecMetrics(k)]
  /\ UNCHANGED <<used, types, known, running, reports>>

Rest == combined /\ UNCHANGED vars

Init ==
  /\ used \in [Pods -> Readings]
  /\ types \in [Pods -> TypeSets]
  /\ known \in SUBSET Pods
  /\ running = Nodes
  /\ reports = <<>>
  /\ nsUsed = <<>> /\ nsQuota = <<>> /\ ctlQuota = <<>> /\ ctlPods = <<>> /\ spec = <<>>
  /\ combined = FALSE

Next == (\E n \in Nodes : TaskSucceeds(n) \/ TaskFails(n)) \/ Combine \/ Rest

Spec == Init /\ [][Next]_vars
-----------------------------------------------------------------------------
Reported == UNION {ToSet(PodsOn[reports[i]]) : i \in DOMAIN reports}
ReportedIn(ns) == {p \in Reported : NamespaceOf[p] = ns}

\* The reference: the pointwise sum of the readings that cover the longest
\* period any pod of the set has.
LongestReadings(ps) ==
  LET longest == Max({Len(used[p]) : p \in ps} \cup {0})
      full == {p \in ps : Len(used[p]) = longest}
  IN  [i \in 1..longest |-> MapThenSumSet(LAMBDA p : used[p][i], full)]

\* The quota a namespace has used is accounted for by its controllers, its
\* bare pods and the pods whose owner is unknown: two workers that combine
\* the same reports along different paths agree.
QuotaAddsUp(ns) ==
  LET owned(k) == ctlPods[k] \cap ReportedIn(ns)
      other == ReportedIn(ns) \ UNION {ctlPods[k] : k \in Controllers}
  IN  /\ nsQuota[ns] = TotalQuota(other)
                         + MapThenSumSet(LAMBDA k : IF owned(k) = {} THEN 0 ELSE ctlQuota[k],
                                         Controllers)
      /\ \A p \in other : p \notin known \/ ControllerOf[p] \notin Controllers

\* Every replica of every succeeded task is counted, whatever metrics it has,
\* and a resource type that all replicas report has a sample of each.
ReplicasCounted(k) ==
  LET rs == {p \in Reported \cap known : ControllerOf[p] = k}
  IN  /\ spec[k].replicas = Cardinality(rs)
      /\ \A t \in ResourceTypes :
           (rs # {} /\ \A p \in rs : t \in types[p]) => spec[k].samples[t] = Cardinality(rs)

\* What is combined from the tasks' reports is the same whatever the order in
\* which they ended and however the pods are spread over the nodes.  The usage
\* of a namespace discards in partial sums what a single sum would discard, its
\* quota is that of its pods, and no replica of a controller is left out.
UsageIgnoresOrder ==
  combined =>
    /\ \A ns \in Namespaces : nsUsed[ns] = LongestReadings(ReportedIn(ns)) /\ QuotaAddsUp(ns)
    /\ \A k \in Controllers : ReplicasCounted(k)
=============================================================================
