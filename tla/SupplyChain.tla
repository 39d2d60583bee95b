---------------------------- MODULE SupplyChain ----------------------------
(***************************************************************************)
(* The entities one full discovery reports (pkg/discovery/dtofactory and   *)
(* the workers of pkg/discovery/worker).  A task of the dispatcher builds  *)
(* the node, pod, container and application entities of its node from the  *)
(* metrics its own sink holds; the client then adds the namespaces,        *)
(* workload controllers, container specs, services, volumes and the        *)
(* cluster from what the tasks that succeeded reported.  Every builder     *)
(* drops an entity whose metrics are incomplete, each by a test of its     *)
(* own, so whether an entity's providers are reported too is decided by    *)
(* tests in different builders, some of them run for different tasks.      *)
(*                                                                         *)
(* A metric is there unless something in `losses` kept it from the sink.   *)
(* An entity has an identifier, the commodities it sells, <<commodity,     *)
(* key>>, the ones it buys, <<provider, commodity, key>>, and the entities *)
(* it links to without buying.                                             *)
(***************************************************************************)
EXTENDS Naturals

CONSTANTS
  Nodes, Pods, Namespaces, Volumes, Services,
  None,            \* the controller of a bare pod
  NodeOf,          \* pod -> node it is scheduled to
  NamespaceOf,     \* pod -> its namespace
  ControllerOf,    \* pod -> workload controller or None
  ContainersOf,    \* pod -> number of its containers
  MountsOf,        \* pod -> volumes it mounts
  SelectedBy,      \* service -> pods of its endpoints
  Phases,          \* assignments of "Pending", "Running" or "Ready" to the pods
  MaxLosses        \* bound on what goes missing in one discovery

VARIABLES
  losses,          \* what the monitors and the API server did not deliver
  phase,           \* pod -> "Pending", "Running" or "Ready" (running, ready)
  todo,            \* nodes whose task has not ended
  entities,        \* EntityDTOs built so far
  podEntities,     \* KubePods of the tasks: pods whose applications were built
  controllers, specs, volumeMetrics,   \* collected for the merging workers
  notReadyNodes, podsWithVolumes,      \* members of the static groups
  reported         \* DiscoverWithNewFramework has returned

vars == <<losses, phase, todo, entities, podEntities, controllers,
          specs, volumeMetrics, notReadyNodes, podsWithVolumes, reported>>

Containers == UNION {{<<p, i>> : i \in 1..ContainersOf[p]} : p \in Pods}
Mounts == UNION {{<<p, v>> : v \in MountsOf[p]} : p \in Pods}

\* What can go missing: a kubelet scrape that failed or was answered from the
\* cache, a node whose frequency nobody knows or that is not ready, the
\* cluster monitor of a node, a pod, container or volume that is not in the
\* kubelet's summary, a volume reported without its capacity, an owner the
\* API server did not return, a namespace deleted after the pods were listed.
AllLosses ==
  ({"kubelet", "cached", "frequency", "notReady", "master"} \X Nodes)
    \cup ({"summary", "owner"} \X Pods)
    \cup ({"containerStats"} \X Containers)
    \cup ({"volumeStats", "volumeCapacity"} \X Mounts)
    \cup ({"deleted"} \X Namespaces)

Lost(what, x) == <<what, x>> \in losses

\* What the kubelet monitor puts in the sink: the frequency and the usage of
\* the node, the usage of a pod, of a container and its application, and of
\* a volume.  A container without metrics adds nothing to its pod's usage; a
\* volume without a capacity is given the capacity 0.
HasNodeStats(n) == ~Lost("kubelet", n)
HasFrequency(n) == HasNodeStats(n) /\ ~Lost("frequency", n)
HasPodStats(p) == HasNodeStats(NodeOf[p]) /\ ~Lost("summary", p)
HasContainerStats(c) == HasPodStats(c[1]) /\ ~Lost("containerStats", c)
HasVolumeStats(m) == HasPodStats(m[1]) /\ ~Lost("volumeStats", m)
HasVolumeCapacity(m) == HasVolumeStats(m) /\ ~Lost("volumeCapacity", m)

\* What the cluster monitor puts in the sink: the cluster's id, the capacity
\* of the node, the requests and capacities of its pods and containers, and
\* the owners the scraper could find.
HasClusterId(n) == ~Lost("master", n)
HasNodeResources(n) == ~Lost("master", n)
HasPodResources(p) == ~Lost("master", NodeOf[p])
HasContainerResources(c) == ~Lost("master", NodeOf[c[1]])
HasOwner(p) == ~Lost("master", NodeOf[p]) /\ ~Lost("owner", p)

Listed(ns) == ~Lost("deleted", ns)

Usage == {"VCPU", "VMEM"}                        \* read from the kubelet
Requests == {"VCPU_REQUEST", "VMEM_REQUEST"}     \* read from the API server
Quotas == {"VCPU_LIMIT_QUOTA", "VMEM_LIMIT_QUOTA", "VCPU_REQUEST_QUOTA", "VMEM_REQUEST_QUOTA"}

NoKey == <<>>
ClusterKey == <<"cluster">>
RootfsKey == <<"k8s-node-rootfs">>
Keyless(commodities) == commodities \X {NoKey}
When(b, S) == IF b THEN S ELSE {}

\* The identifiers are UIDs; the first element is the entity type.
NodeId(n) == <<"VIRTUAL_MACHINE", n>>
PodId(p) == <<"CONTAINER_POD", p>>
ContainerId(c) == <<"CONTAINER", c>>
AppId(c) == <<"APPLICATION_COMPONENT", c>>
ControllerId(k) == <<"WORKLOAD_CONTROLLER", k>>
SpecId(p, i) == <<"CONTAINER_SPEC", <<ControllerOf[p], i>>>>
NamespaceId(ns) == <<"NAMESPACE", ns>>
VolumeId(v) == <<"VIRTUAL_VOLUME", v>>
ServiceId(s) == <<"SERVICE", s>>
ClusterId == <<"CONTAINER_PLATFORM_CLUSTER", "cluster">>

Entity(id, sells, buys, links) == [id |-> id, sells |-> sells, buys |-> buys, links |-> links]

BuysFrom(provider, commodities) == {<<provider, c[1], c[2]>> : c \in commodities}
Keyed(commodities, provider) == commodities \X {provider}

Ids == {e.id : e \in entities}
-----------------------------------------------------------------------------
(* The entities of one node's task.                                        *)

\* A node is inactive when it is not ready, when its frequency is missing or
\* when its summary came from the kubelet client's cache.
NodeActive(n) == ~Lost("notReady", n) /\ HasFrequency(n) /\ ~Lost("cached", n)

\* getNodeCommoditiesSold sells nothing without the CPU frequency.
NodeSells(n) ==
  When(HasFrequency(n),
       When(HasNodeStats(n), Keyless(Usage) \cup {<<"VSTORAGE", RootfsKey>>})
         \cup Keyless(Requests \cup {"NUMBER_CONSUMERS"})
         \cup {<<"CLUSTER", ClusterKey>>})

\* An inactive node buys a cluster commodity that no cluster sells, which
\* keeps the market from placing anything on it.
NodeEntity(n) ==
  Entity(NodeId(n), NodeSells(n),
         When(~NodeActive(n), {<<ClusterId, "CLUSTER", NodeId(n)>>}), {ClusterId})

\* Without the cluster's id there are no nodes, and without the node's CPU
\* capacity the node is skipped.
BuildNodeDTOs(n) ==
  When(HasClusterId(n) /\ HasNodeResources(n), {NodeEntity(n)})

\* Mutant: every pod gets quota metrics, as if its namespace were known.
QuotaMetricsForAllPods(p) ==
  /\ phase[p] = "Ready" => HasPodStats(p) /\ HasPodResources(p)
  /\ ControllerOf[p] # None => HasOwner(p)

\* Every fact a pod's builder insists on: the usage only of a ready pod, the
\* quota metrics addPodQuotaMetrics puts in the sink for pods of known
\* namespaces only, and the owner of a pod that has one.
PodBuildable(p) ==
  /\ phase[p] = "Ready" => HasPodStats(p) /\ HasPodResources(p)
  /\ Listed(NamespaceOf[p])
  /\ ControllerOf[p] # None => HasOwner(p)

PodSells(p) ==
  Keyless(When(phase[p] # "Pending" /\ HasPodStats(p) /\ HasPodResources(p), Usage)
            \cup When(HasPodResources(p), Requests) \cup Quotas)
    \cup {<<"VMPM_ACCESS", PodId(p)>>}

PodBuysFromNode(p) ==
  When(phase[p] # "Pending" /\ HasPodStats(p),
       Keyless(Usage) \cup {<<"VSTORAGE", RootfsKey>>})
    \cup Keyless(When(HasPodResources(p), Requests)
                   \cup When(phase[p] # "Pending", {"NUMBER_CONSUMERS"}))
    \cup {<<"CLUSTER", ClusterKey>>}

\* The provider of the pod's quotas: its controller, or the namespace of a
\* bare pod.
QuotaProvider(p) ==
  IF ControllerOf[p] = None THEN NamespaceId(NamespaceOf[p]) ELSE ControllerId(ControllerOf[p])

PodBuysQuotas(p) == BuysFrom(QuotaProvider(p), Keyed(Quotas, QuotaProvider(p)))

PodMounts(p) == When(phase[p] # "Pending", {v \in MountsOf[p] : HasVolumeStats(<<p, v>>)})
PodBuysFromVolumes(p) == {<<VolumeId(v), "STORAGE_AMOUNT", NoKey>> : v \in PodMounts(p)}

PodEntity(p) ==
  Entity(PodId(p), PodSells(p),
         BuysFrom(NodeId(NodeOf[p]), PodBuysFromNode(p)) \cup PodBuysQuotas(p) \cup PodBuysFromVolumes(p),
         {QuotaProvider(p)})

\* The pods of a task that get an entity; the containers and applications of
\* the other running pods are left out (excludeFailedPods).
BuildPodDTOs(n) == {p \in Pods : NodeOf[p] = n /\ PodBuildable(p)}
RunningPods(n) == {p \in BuildPodDTOs(n) : phase[p] # "Pending"}

ContainersIn(ps) == {c \in Containers : c[1] \in ps}

\* A container needs its own usage and capacity, whatever its pod has.
ContainerSells(c) == Keyless(Usage \cup Requests) \cup {<<"APPLICATION", ContainerId(c)>>}

ContainerBuys(c) ==
  BuysFrom(PodId(c[1]), Keyless(Usage \cup Requests \cup Quotas) \cup {<<"VMPM_ACCESS", PodId(c[1])>>})

BuildContainerDTOs(ps) ==
  {Entity(ContainerId(c), ContainerSells(c), ContainerBuys(c),
          When(ControllerOf[c[1]] # None, {SpecId(c[1], c[2])})) :
     c \in {d \in ContainersIn(ps) : HasContainerStats(d) /\ HasContainerResources(d)}}

\* An application needs the usage of its container and nothing else: it is
\* built even where the container was not.
AppsOf(ps) == {c \in ContainersIn(ps) : HasContainerStats(c)}

\* The key an application sells is the UID of the pod's service or the pod's
\* address, with the index of every container but the first.
AppKey(c) ==
  LET owners == {s \in Services : c[1] \in SelectedBy[s]}
      owner == IF owners = {} THEN PodId(c[1]) ELSE ServiceId(CHOOSE s \in owners : TRUE)
  IN  <<owner, c[2]>>

AppBuys(c) == BuysFrom(ContainerId(c), Keyless(Usage) \cup {<<"APPLICATION", ContainerId(c)>>})

BuildAppDTOs(ps) == {Entity(AppId(c), {<<"APPLICATION", AppKey(c)>>}, AppBuys(c), {}) : c \in AppsOf(ps)}

\* Controllers are collected from every pod of the node, built or not, but
\* only where the owner and the namespace are known.
CollectControllers(n) ==
  {ControllerOf[p] : p \in {q \in Pods : /\ NodeOf[q] = n
                                         /\ ControllerOf[q] # None
                                         /\ HasOwner(q)
                                         /\ Listed(NamespaceOf[q])}}

\* Container specs are collected from the running pods before any is excluded.
CollectContainerSpecs(n) ==
  {SpecId(c[1], c[2]) :
     c \in {d \in Containers : /\ NodeOf[d[1]] = n
                               /\ phase[d[1]] # "Pending"
                               /\ ControllerOf[d[1]] # None
                               /\ HasOwner(d[1])}}

\* The mounts with metrics, of pending pods too.
CollectVolumeMetrics(n) ==
  {m \in Mounts : NodeOf[m[1]] = n /\ HasVolumeStats(m)}

\* executeTask: without a node entity the task reports no entity, and without
\* a pod entity it reports the node alone and forgets that it is not ready.
BuildEntityDTOs(n) ==
  LET node == BuildNodeDTOs(n)
      built == When(node # {}, BuildPodDTOs(n))
      running == built \cap RunningPods(n)
  IN  /\ entities' = entities \cup node \cup {PodEntity(p) : p \in built}
                       \cup BuildContainerDTOs(running) \cup BuildAppDTOs(running)
      /\ podEntities' = podEntities \cup running
      /\ podsWithVolumes' = podsWithVolumes
           \cup {p \in running : MountsOf[p] # {}}
      /\ notReadyNodes' = notReadyNodes \cup When(built # {} /\ ~NodeActive(n), {n})

ExecuteTask(n) ==
  /\ n \in todo
  /\ todo' = todo \ {n}
  /\ BuildEntityDTOs(n)
  /\ controllers' = controllers \cup CollectControllers(n)
  /\ specs' = specs \cup CollectContainerSpecs(n)
  /\ volumeMetrics' = volumeMetrics \cup CollectVolumeMetrics(n)
  /\ UNCHANGED <<losses, phase, reported>>

\* A task that failed or timed out reports nothing.
FailTask(n) ==
  /\ n \in todo
  /\ todo' = todo \ {n}
  /\ UNCHANGED <<losses, phase, entities, podEntities, controllers,
                 specs, volumeMetrics, notReadyNodes, podsWithVolumes, reported>>
-----------------------------------------------------------------------------
(* The entities the client adds when every task has ended.                 *)

\* Namespaces buy a cluster commodity and the resources the nodes sell.
NamespaceSells(ns) == Keyed(Quotas, NamespaceId(ns))
NamespaceBuys == {<<ClusterId, "CLUSTER", ClusterId>>} \cup BuysFrom(ClusterId, Keyless(Usage \cup Requests))

NamespaceDTOs ==
  {Entity(NamespaceId(ns), NamespaceSells(ns), NamespaceBuys, {ClusterId}) :
     ns \in {m \in Namespaces : Listed(m)}}

\* A controller is in the namespace of its pods and owns the specs of the
\* pods that have started.
ControllerNamespace(k) == NamespaceOf[CHOOSE p \in Pods : ControllerOf[p] = k]

ControllerSells(k) == Keyed(Quotas, ControllerId(k))
ControllerBuys(k) ==
  LET ns == NamespaceId(ControllerNamespace(k)) IN BuysFrom(ns, Keyed(Quotas, ns))
ContainerSpecsOf(k) == {s \in specs : s[2][1] = k}

ControllerDTOs ==
  {Entity(ControllerId(k), ControllerSells(k), ControllerBuys(k),
          {NamespaceId(ControllerNamespace(k))} \cup ContainerSpecsOf(k)) :
     k \in controllers}

ContainerSpecDTOs == {Entity(s, {}, {}, {}) : s \in specs}

\* A service buys from the applications of its pods and is left out when
\* none was reported.
ServiceApps(s) == AppsOf(SelectedBy[s] \cap podEntities)

ServiceSells(s) ==
  Keyless(When(\E p \in SelectedBy[s] \cap podEntities : ControllerOf[p] # None, {"NUMBER_REPLICAS"}))

ServiceBuys(s) == {<<AppId(c), "APPLICATION", AppKey(c)>> : c \in ServiceApps(s)}

ServiceDTOs ==
  {Entity(ServiceId(s), ServiceSells(s), ServiceBuys(s), {}) :
     s \in {t \in Services : ServiceApps(t) # {}}}

\* The capacity of a volume is the one its last mount reports, in the order
\* of a map: any mount may be the last one.
CapacityFound(v, last) ==
  \E p \in Pods : last[v] = p /\ <<p, v>> \in volumeMetrics /\ HasVolumeCapacity(<<p, v>>)

VolumeDTOs(last) ==
  {Entity(VolumeId(v), {<<"STORAGE_AMOUNT", NoKey>>}, {}, {}) :
     v \in {w \in Volumes : CapacityFound(w, last)}}

\* The cluster sells the totals of what the nodes sell without a key.
ClusterSells(es) ==
  {<<"CLUSTER", ClusterId>>}
    \cup {c \in UNION {e.sells : e \in {f \in es : f.id[1] = "VIRTUAL_MACHINE"}} : c[2] = NoKey}

ClusterDTO(es) == Entity(ClusterId, ClusterSells(es), {}, {})

\* The order is the client's: the cluster is built from all other entities.
Report ==
  /\ todo = {} /\ ~reported
  /\ reported' = TRUE
  /\ \E last \in [Volumes -> Pods] :
       /\ \A v \in Volumes : (\E m \in volumeMetrics : m[2] = v) => <<last[v], v>> \in volumeMetrics
       /\ LET es == entities \cup NamespaceDTOs \cup ControllerDTOs \cup ContainerSpecDTOs
                      \cup ServiceDTOs \cup VolumeDTOs(last)
          IN  entities' = es \cup {ClusterDTO(es)}
  /\ UNCHANGED <<losses, phase, todo, podEntities, controllers,
                 specs, volumeMetrics, notReadyNodes, podsWithVolumes>>

Rest == reported /\ UNCHANGED vars

Init ==
  /\ \E lost \in [1..MaxLosses -> AllLosses] : losses \in {{}, {lost[i] : i \in 1..MaxLosses}}
  /\ phase \in Phases
  /\ todo = Nodes
  /\ entities = {} /\ podEntities = {} /\ controllers = {} /\ specs = {} /\ volumeMetrics = {}
  /\ notReadyNodes = {} /\ podsWithVolumes = {}
  /\ reported = FALSE

Next == (\E n \in Nodes : ExecuteTask(n) \/ FailTask(n)) \/ Report \/ Rest

Spec == Init /\ [][Next]_vars
-----------------------------------------------------------------------------
(* What the reported supply chain promises.                                *)

\* A commodity bought with a key is sold with that key by its provider: the
\* accesses between pod, container and application, the quotas along pod,
\* controller and namespace, and the cluster commodities.  A node without a
\* CPU frequency sells none, and an inactive node buys a key nobody sells.
SoldByProvider(e, b) ==
  \A provider \in entities :
    (provider.id = b[1] /\ b[3] # NoKey /\ b[2] # "VSTORAGE") =>
      \/ <<b[2], b[3]>> \in provider.sells
      \/ \E n \in Nodes : provider.id = NodeId(n) /\ ~HasFrequency(n)
      \/ \E n \in Nodes : e.id = NodeId(n) /\ ~NodeActive(n)

\* Whatever metrics, nodes or pods are missing and whichever tasks fail, what a
\* report refers to is in the report, although each builder drops entities by a
\* test of its own: the providers an entity buys from, which sell what is bought
\* under the same key; the entities it is aggregated or controlled by or owns;
\* the members of the static groups.  The code has one exception: a volume that
\* some mount reports without a capacity may be left out although its pods buy
\* from it.
ReportIsClosed ==
  reported =>
    /\ \A e \in entities :
         /\ e.links \subseteq Ids
         /\ \A b \in e.buys :
              /\ SoldByProvider(e, b)
              /\ \/ b[1] \in Ids
                 \/ \E m \in volumeMetrics : b[1] = VolumeId(m[2]) /\ ~HasVolumeCapacity(m)
    /\ \A n \in notReadyNodes : NodeId(n) \in Ids
    /\ \A p \in podsWithVolumes : PodId(p) \in Ids
=============================================================================
