------------------------------ MODULE MCSupply ------------------------------
(***************************************************************************)
(* What a discovery makes of the cluster it has read, and the executors    *)
(* and resources beside it, for TLC.  The parts share no state; one        *)
(* behaviour moves the part `part` names, the variables of the others are  *)
(* Unused, and the state space is the sum of the parts' and not their      *)
(* product.                                                                *)
(***************************************************************************)
EXTENDS ReportParts, ClusterParts, HandlerPart, MachinePart, SccPart, GitOpsPart, Integers, Sequences, FiniteSets, TLC

CONSTANT Unused

VARIABLES
  used, types, known, running, reports, nsUsed, nsQuota, ctlQuota, ctlPods,
    spec, combined,
  inventory, pending, results, collected, failedLists, bound, groups,
    groupStage

\* Two nodes; the pods of a controller run on both, one pod has no controller,
\* and any two things may be missing.
ThreePodsOnTwoNodes == [p1 |-> "n1", p2 |-> "n2", p3 |-> "n1"]
TwoNamespaces == [p1 |-> "ns1", p2 |-> "ns1", p3 |-> "ns2"]
TwoReplicas == [p1 |-> "c", p2 |-> "c", p3 |-> "none"]
OneSidecar == [p1 |-> 1, p2 |-> 2, p3 |-> 1]
SharedVolume == [p1 |-> {"v"}, p2 |-> {"v"}, p3 |-> {}]
OneService == [s |-> {"p1", "p2", "p3"}]
PhasesOfReplica == {[p1 |-> "Ready", p2 |-> a, p3 |-> "Running"] : a \in {"Ready", "Running", "Pending"}}

\* Readings of different lengths, and a resource type only some replicas have.
Usage == INSTANCE UsageMerge WITH
  Nodes <- {"n1", "n2"}, PodsOn <- [n1 |-> <<"p1", "p2">>, n2 |-> <<"p3">>],
  Namespaces <- {"ns"}, Controllers <- {"k"},
  NamespaceOf <- [p \in {"p1", "p2", "p3"} |-> "ns"],
  ControllerOf <- [p1 |-> "k", p2 |-> "none", p3 |-> "k"],
  QuotaOf <- [p1 |-> 1, p2 |-> 2, p3 |-> 4],
  ResourceTypes <- {"cpu", "thr"}, Readings <- {<<>>, <<1>>, <<2, 4>>},
  TypeSets <- {{"cpu"}, {"cpu", "thr"}}

SetOfFirst == [p1 |-> "s", p2 |-> None]

\* Up to two quotas, and some of four static pods, in any order.
SE == INSTANCE SequencesExt
AtMostTwoQuotas == UNION {[1 .. n -> [hard : 0 .. 2, terminating : BOOLEAN]] : n \in 0 .. 2}
SomeStaticPods == UNION {SE!SetToSeqs(S) : S \in SUBSET [prefix : {"a", "b"}, node : {"n1", "n2"}]}

\* Two replicas and another pod on three nodes in two zones.
Hostname == "kubernetes.io/hostname"
Term(label, key) == [selects |-> {label}, key |-> key]
Topology(name, zone) == (Hostname :> name) @@ ("zone" :> zone)
Affinity == {{}, {Term("a", "zone")}, {Term("b", "zone")}, {Term("b", "zone"), Term("b", Hostname)}}
AntiAffinity ==
  {<<>>, <<Term("a", Hostname), Term("a", "zone")>>, <<Term("b", "zone"), Term("b", Hostname)>>,
   <<Term("a", Hostname), Term("b", Hostname)>>}
  \cup {<<Term(label, key)>> : label \in {"a", "b"}, key \in {Hostname, "zone"}}
AntiAffinityOfOther == {<<>>, <<Term("a", Hostname)>>, <<Term("a", "zone")>>}
Hosts == {[a1 |-> "n1", a2 |-> "n2", b |-> "n2"], [a1 |-> "n1", a2 |-> "n3", b |-> "n2"],
          [a1 |-> "n1", a2 |-> "n1", b |-> "n3"]}

NodeRules == {<<None, {}>>, <<{{"n1", "n3"}}, {}>>, <<None, {{{"n1"}}, {{"n2"}}}>>}

Scenario(h, fa, fb, xa, xb, same, nodeTerms, pvTerms, bad, new) ==
  [order |-> <<"a1", "a2", "b">>, hostOf |-> h,
   affinity |-> [a1 |-> fa, a2 |-> fa, b |-> fb],
   antiAffinity |-> [a1 |-> xa, a2 |-> IF same THEN xa ELSE <<>>, b |-> xb],
   nodeTerms |-> [a1 |-> nodeTerms, a2 |-> nodeTerms, b |-> None],
   pvTerms |-> [a1 |-> pvTerms, a2 |-> {}, b |-> {}],
   unresolved |-> bad, newAlgorithm |-> new]

TwoOfOneWorkload == [a1 |-> "A", a2 |-> "A", b |-> None]
TwoLabels == [a1 |-> "a", a2 |-> "a", b |-> "b"]
TwoZones == [n1 |-> Topology("n1", "z1"), n2 |-> Topology("n2", "z1"), n3 |-> Topology("n3", "z2")]
SomeAffinities ==
  {Scenario(h, fa, fb, xa, xb, TRUE, r[1], r[2], {}, new) :
     h \in Hosts, fa \in Affinity, fb \in {{}, {Term("a", "zone")}}, xa \in AntiAffinity,
     xb \in AntiAffinityOfOther, r \in NodeRules, new \in BOOLEAN}
  \cup
  {Scenario(h, fa, {}, xa, xb, r[1], None, {}, r[2], TRUE) :
     h \in Hosts, fa \in Affinity, xa \in AntiAffinity, xb \in AntiAffinityOfOther,
     r \in {<<FALSE, {}>>, <<TRUE, {"a2"}>>}}

\* Hard, soft and cordon taints, and one with a time of its own.
Taint(key, effect) == [key |-> key, effect |-> effect]
Hard == {Taint("k", "NoSchedule"), Taint("k", "NoExecute")}
AllTaints == Hard \cup {Taint("k", "PreferNoSchedule"), Taint("node.kubernetes.io/unschedulable", "NoSchedule")}
TaintSets == {S \X {FALSE} : S \in SUBSET AllTaints} \cup {{<<Taint("k", "NoExecute"), TRUE>>}}
TwoTolerations ==
  {[taints |-> [n1 |-> a, n2 |-> b, n3 |-> {<<Taint("k", "NoSchedule"), FALSE>>}],
    tolerated |-> [p1 |-> x, p2 |-> Hard \ x, p3 |-> {}], poweredOn |-> on, running |-> r] :
   a \in TaintSets, b \in TaintSets, x \in {{}, {Taint("k", "NoSchedule")}, Hard},
   on \in {{"p1", "p2", "p3"}, {"p1", "p3"}}, r \in {{"p1", "p2", "p3"}, {"p1", "p2"}}}
OnePodPerNode == [p1 |-> "n1", p2 |-> "n2", p3 |-> "n3"]

TwoSccs == <<"s1", "s2">>
\* Two requests that overlap: up and down, the same machine, two machines.
Up == [diff |-> 1, machine |-> "m1"]
Down(m) == [diff |-> -1, machine |-> m]
UpAndDown ==
  {[a |-> Up, b |-> Down("m1")], [a |-> Down("m1"), b |-> Down("m1")], [a |-> Down("m1"), b |-> Down("m2")]}

\* Thresholds in bytes and percent, ignored, invalid and beyond the capacity.
Percent(n) == [unit |-> "%", n |-> n]
Bytes(n) == [unit |-> "bytes", n |-> n]
Thresholds == {None, Percent(100), Percent(20), Percent(40), Percent(150), Bytes(10), Bytes(300)}
SoftThresholds == {None, Percent(15)}

\* Three actions on a pod that each of them replaces, and on pods of one name
\* in two namespaces.
Target(s, truncated) == [series |-> s, truncated |-> truncated]
OnePod == [a |-> Target("n1", FALSE), b |-> Target("n1", FALSE), c |-> Target("n1", FALSE)]
TwoPods == [a |-> Target("n1", FALSE), b |-> Target("n2", FALSE), c |-> Target("n1", TRUE)]
OneOrTwoPods ==
  {[target |-> OnePod, bare |-> FALSE, reported |-> {}],
   [target |-> TwoPods, bare |-> FALSE, reported |-> {}],
   [target |-> OnePod, bare |-> TRUE, reported |-> {"a"}]}
\* Owners on several nodes; policies, services and controllers of one name in
\* two namespaces; replica bounds out of order and out of range.
Pod(id, kind, n) == [id |-> id, kind |-> kind, containers |-> n]
Controller(ns, name, kind) == [ns |-> ns, name |-> name, kind |-> kind, containers |-> {"main", "side"}]
Policy(kind, ns, min, max, objectives, choices) ==
  [kind |-> kind, ns |-> ns, name |-> "p", min |-> min, max |-> max, objectives |-> objectives, choices |-> choices]
Binding(ns, name, kind, target) ==
  [ns |-> ns, name |-> name, kind |-> kind, policy |-> "p", targets |-> {target}]
To(kind, pattern, container) == [kind |-> kind, pattern |-> pattern, container |-> container]
SLO == "SLOHorizontalScale"
CVS == "ContainerVerticalScale"
Objectives == <<[name |-> "responseTime", value |-> 5], [name |-> "transaction", value |-> -1]>>
Groups == INSTANCE PolicyGroups WITH
  MaxReplicas <- 4,
  Scenes <-
    {[podsOf |-> [t1 |-> <<Pod("a", "ReplicaSet", 1), Pod("b", "", 1), Pod("c", "DaemonSet", 2)>>,
                  t2 |-> <<Pod("d", "ReplicaSet", 2), Pod("e", "ReplicaSet", 1)>>, t3 |-> <<Pod("f", "", 1)>>],
      static |-> [NotReady |-> {"n1"}, MirrorPods |-> {}], services |-> [ns : {"x", "y"}, name : {"s"}],
      controllers |-> {Controller("x", "c", "Deployment"), Controller("y", "c", "Deployment"), Controller("y", "c", "Job")},
      policies |-> {Policy(SLO, "x", r[1], r[2], r[3], [scaleUp |-> TRUE]), Policy(CVS, "y", {}, {}, <<>>, c)},
      bindings |-> {Binding("x", "b1", SLO, To(kind, pattern, {})), Binding("y", "b3", SLO, To("Service", {"s"}, {})),
                    Binding("y", "b2", CVS, To("Deployment", {"c"}, container))}] :
     r \in {<<{}, {2}, <<>>>>, <<{3}, {2}, Objectives>>, <<{0}, {4}, Objectives>>, <<{3}, {4}, Objectives>>},
     c \in {[aggressiveness |-> FALSE, increments |-> TRUE], [limits |-> FALSE]}, kind \in {"Service", "Job"}, pattern \in {{"s"}, {"("}},
     container \in {{}, {"main"}}}

\* Two resizes of a workload by pull request or by commit, with a call that
\* fails or a user who commits.
Setting(remote, mode1, mode2, n, commits) ==
  [host |-> remote, mode |-> [r1 |-> mode1, r2 |-> mode2], faults |-> n, edits |-> commits]
TwoSizes == [r1 |-> [container |-> "c1", size |-> 1], r2 |-> [container |-> "c2", size |-> 2]]
HostsAndModes ==
  {Setting("github", "request", "request", 1, {}), Setting("github", "request", "request", 0, {"e"}),
   Setting("gitlab", "request", "request", 1, {}), Setting("gitlab", "direct", "request", 0, {"e"}),
   Setting("github", "direct", "direct", 0, {"e"})}
usageVars == <<used, types, known, running, reports, nsUsed, nsQuota,
    ctlQuota, ctlPods, spec, combined>>
groupVars == <<inventory, pending, results, collected, failedLists, bound,
    groups, groupStage>>
allVars == <<part, supplyVars, usageVars, ownerVars, summaryVars,
    affinityVars, taintVars, sccVars, machineVars, storageVars, handlerVars,
    groupVars, gitVars>>

supplyIdle ==
  /\ losses = Unused /\ phase = Unused /\ todo = Unused /\ entities = Unused
  /\ podEntities = Unused /\ controllers = Unused /\ specs = Unused
  /\ volumeMetrics = Unused /\ notReadyNodes = Unused
  /\ podsWithVolumes = Unused /\ reported = Unused

usageIdle ==
  /\ used = Unused /\ types = Unused /\ known = Unused /\ running = Unused
  /\ reports = Unused /\ nsUsed = Unused /\ nsQuota = Unused
  /\ ctlQuota = Unused /\ ctlPods = Unused /\ spec = Unused
  /\ combined = Unused

ownerIdle ==
  /\ clock = Unused /\ ownerOf = Unused /\ changedAt = Unused
  /\ controllerCache = Unused /\ listedPods = Unused /\ listedAt = Unused
  /\ podToController = Unused

summaryIdle ==
  /\ quotas = Unused /\ given = Unused /\ capacity = Unused
  /\ pools = Unused /\ mirrorPods = Unused /\ staticPods = Unused
  /\ nodeNames = Unused /\ daemonPrefix = Unused /\ daemon = Unused

affinityIdle ==
  /\ cluster = Unused /\ waiting = Unused /\ nodesPods = Unused
  /\ podsWithAffinities = Unused /\ hostnameSpreadPods = Unused
  /\ otherSpreadPods = Unused /\ accessSold = Unused
  /\ accessBought = Unused

taintIdle ==
  /\ taintsOf = Unused /\ tolerated = Unused /\ poweredOn = Unused
  /\ runningPods = Unused /\ taintsSold = Unused /\ taintsBought = Unused
  /\ processed = Unused

sccIdle ==
  /\ objects = Unused /\ subjects = Unused /\ sccMapping = Unused
  /\ manager = Unused /\ cleaner = Unused /\ exiting = Unused
  /\ waitCount = Unused /\ turbo = Unused /\ process = Unused
  /\ runs = Unused /\ gaveUp = Unused /\ lost = Unused

machineIdle ==
  /\ wanted = Unused /\ machineSet = Unused /\ machines = Unused
  /\ keyHeld = Unused /\ request = Unused /\ scaled = Unused
  /\ marks = Unused /\ gone = Unused /\ lagged = Unused /\ halted = Unused

storageIdle ==
  /\ evictionHard = Unused /\ evictionSoft = Unused /\ graceless = Unused
  /\ size = Unused /\ available = Unused /\ threshold = Unused
  /\ storageSold = Unused /\ placeable = Unused /\ stage = Unused

handlerIdle ==
  /\ scene = Unused /\ pods = Unused /\ nameCache = Unused
  /\ uidCache = Unused /\ action = Unused /\ reporter = Unused
  /\ late = Unused /\ expired = Unused

groupIdle ==
  /\ inventory = Unused /\ pending = Unused /\ results = Unused
  /\ collected = Unused /\ failedLists = Unused /\ bound = Unused
  /\ groups = Unused /\ groupStage = Unused

gitIdle ==
  /\ host = Unused /\ mode = Unused /\ live = Unused /\ repo = Unused
  /\ prs = Unused /\ act = Unused /\ faults = Unused /\ edits = Unused
  /\ history = Unused /\ writers = Unused

MCInit ==
  /\ part \in {"supply", "usage", "owners", "summary", "affinity", "taints", "scc", "machines", "storage", "actions", "groups", "gitops"}
  /\ IF part = "supply" THEN Supply!Init ELSE supplyIdle
  /\ IF part = "usage" THEN Usage!Init ELSE usageIdle
  /\ IF part = "owners" THEN Owners!Init ELSE ownerIdle
  /\ IF part = "summary" THEN Summary!Init ELSE summaryIdle
  /\ IF part = "affinity" THEN Affinities!Init ELSE affinityIdle
  /\ IF part = "taints" THEN Taints!Init ELSE taintIdle
  /\ IF part = "scc" THEN Scc!Init ELSE sccIdle
  /\ IF part = "machines" THEN Machines!Init ELSE machineIdle
  /\ IF part = "storage" THEN Storage!Init ELSE storageIdle
  /\ IF part = "actions" THEN PodHandler!Init ELSE handlerIdle
  /\ IF part = "groups" THEN Groups!Init ELSE groupIdle
  /\ IF part = "gitops" THEN Git!Init ELSE gitIdle

SupplyNext ==
  /\ part = "supply" /\ Supply!Next
  /\ UNCHANGED <<part, usageVars, ownerVars, summaryVars, affinityVars, taintVars,
       sccVars, machineVars, storageVars, handlerVars, groupVars, gitVars>>

UsageNext ==
  /\ part = "usage" /\ Usage!Next
  /\ UNCHANGED <<part, supplyVars, ownerVars, summaryVars, affinityVars, taintVars,
       sccVars, machineVars, storageVars, handlerVars, groupVars, gitVars>>

OwnersNext ==
  /\ part = "owners" /\ Owners!Next
  /\ UNCHANGED <<part, supplyVars, usageVars, summaryVars, affinityVars, taintVars,
       sccVars, machineVars, storageVars, handlerVars, groupVars, gitVars>>

SummaryNext ==
  /\ part = "summary" /\ Summary!Next
  /\ UNCHANGED <<part, supplyVars, usageVars, ownerVars, affinityVars, taintVars,
       sccVars, machineVars, storageVars, handlerVars, groupVars, gitVars>>

AffinitiesNext ==
  /\ part = "affinity" /\ Affinities!Next
  /\ UNCHANGED <<part, supplyVars, usageVars, ownerVars, summaryVars, taintVars,
       sccVars, machineVars, storageVars, handlerVars, groupVars, gitVars>>

TaintsNext ==
  /\ part = "taints" /\ Taints!Next
  /\ UNCHANGED <<part, supplyVars, usageVars, ownerVars, summaryVars, affinityVars,
       sccVars, machineVars, storageVars, handlerVars, groupVars, gitVars>>

SccNext ==
  /\ part = "scc" /\ Scc!Next
  /\ UNCHANGED <<part, supplyVars, usageVars, ownerVars, summaryVars, affinityVars,
       taintVars, machineVars, storageVars, handlerVars, groupVars, gitVars>>

MachinesNext ==
  /\ part = "machines" /\ Machines!Next
  /\ UNCHANGED <<part, supplyVars, usageVars, ownerVars, summaryVars, affinityVars,
       taintVars, sccVars, storageVars, handlerVars, groupVars, gitVars>>

StorageNext ==
  /\ part = "storage" /\ Storage!Next
  /\ UNCHANGED <<part, supplyVars, usageVars, ownerVars, summaryVars, affinityVars,
       taintVars, sccVars, machineVars, handlerVars, groupVars, gitVars>>

PodHandlerNext ==
  /\ part = "actions" /\ PodHandler!Next
  /\ UNCHANGED <<part, supplyVars, usageVars, ownerVars, summaryVars, affinityVars,
       taintVars, sccVars, machineVars, storageVars, groupVars, gitVars>>

GroupsNext ==
  /\ part = "groups" /\ Groups!Next
  /\ UNCHANGED <<part, supplyVars, usageVars, ownerVars, summaryVars, affinityVars,
       taintVars, sccVars, machineVars, storageVars, handlerVars, gitVars>>

GitNext ==
  /\ part = "gitops" /\ Git!Next
  /\ UNCHANGED <<part, supplyVars, usageVars, ownerVars, summaryVars, affinityVars,
       taintVars, sccVars, machineVars, storageVars, handlerVars, groupVars>>

MCNext ==
  \/ SupplyNext \/ UsageNext \/ OwnersNext \/ SummaryNext \/ AffinitiesNext
  \/ TaintsNext \/ SccNext \/ MachinesNext \/ StorageNext \/ PodHandlerNext
  \/ GroupsNext \/ GitNext

MCSpec == MCInit /\ [][MCNext]_allVars

-----------------------------------------------------------------------------
(* The parts' properties, stated where their modules explain them.         *)

\* Combined usage does not depend on the order in which tasks end.
UsageIgnoresOrder == part = "usage" => Usage!UsageIgnoresOrder

\* Groups have every member once and do not depend on one another.
GroupsComplete == part = "groups" => Groups!GroupsComplete
=============================================================================
