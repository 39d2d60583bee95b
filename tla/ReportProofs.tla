--------------------------- MODULE ReportProofs -----------------------------
(***************************************************************************)
(* What holds of the report of a discovery (SupplyChain), of the storage a *)
(* node sells (NodeStorage) and of the summary of quotas and mirror pods   *)
(* (ClusterSummary) for any cluster.                                       *)
(***************************************************************************)
EXTENDS ReportParts, TLAPS

(* The entities by kind.                                                   *)

\* The entities the builders make, by kind.
ContainerEntity(c) ==
  Supply!Entity(Supply!ContainerId(c), Supply!ContainerSells(c), Supply!ContainerBuys(c),
    Supply!When(ChainControllerOf[c[1]] # NoController, {Supply!SpecId(c[1], c[2])}))
AppEntity(c) ==
  Supply!Entity(Supply!AppId(c), {<<"APPLICATION", Supply!AppKey(c)>>}, Supply!AppBuys(c), {})
NamespaceEntity(ns) ==
  Supply!Entity(Supply!NamespaceId(ns), Supply!NamespaceSells(ns), Supply!NamespaceBuys, {Supply!ClusterId})
ControllerEntity(k) ==
  Supply!Entity(Supply!ControllerId(k), Supply!ControllerSells(k), Supply!ControllerBuys(k),
    {Supply!NamespaceId(Supply!ControllerNamespace(k))} \cup Supply!ContainerSpecsOf(k))
SpecEntity(s) == Supply!Entity(s, {}, {}, {})
ServiceEntity(s) ==
  Supply!Entity(Supply!ServiceId(s), Supply!ServiceSells(s), Supply!ServiceBuys(s), {})
VolumeEntity(v) ==
  Supply!Entity(Supply!VolumeId(v), {<<"STORAGE_AMOUNT", Supply!NoKey>>}, {}, {})

\* What a pod that got an entity was collected with.
PodBacked(p) ==
  /\ Supply!Listed(ChainNamespaceOf[p])
  /\ Supply!NodeEntity(ChainNodeOf[p]) \in entities
  /\ ChainControllerOf[p] # NoController => ChainControllerOf[p] \in controllers
  /\ \A v \in Supply!PodMounts(p) : v \in ChainVolumes /\ <<p, v>> \in volumeMetrics

\* The entity is of a kind, and what that kind rests on is there: the entity of
\* the node for a pod, of the pod for a container, of the container for an app.
NodeKind(e) == \E n \in ChainNodes : e = Supply!NodeEntity(n)
PodKind(e) == \E p \in ChainPods : e = Supply!PodEntity(p) /\ PodBacked(p)
ContainerKind(e) ==
  \E c \in Supply!Containers :
    /\ e = ContainerEntity(c)
    /\ Supply!PodEntity(c[1]) \in entities
    /\ ChainControllerOf[c[1]] # NoController => Supply!SpecId(c[1], c[2]) \in specs
AppKind(e) == \E c \in Supply!Containers : e = AppEntity(c) /\ ContainerEntity(c) \in entities
NamespaceKind(e) == \E ns \in ChainNamespaces : e = NamespaceEntity(ns)
ControllerKind(e) == \E k \in controllers : e = ControllerEntity(k)
SpecKind(e) == \E s \in specs : e = SpecEntity(s)
ServiceKind(e) == \E s \in ChainServices : e = ServiceEntity(s)
VolumeKind(e) == \E v \in ChainVolumes : e = VolumeEntity(v)
ClusterKind(e) ==
  /\ e.id = Supply!ClusterId /\ e.buys = {} /\ e.links = {}
  /\ <<"CLUSTER", Supply!ClusterId>> \in e.sells

\* Only what the client adds at the end is of the other kinds.
Kinds ==
  \A e \in entities :
    \/ NodeKind(e) \/ PodKind(e) \/ ContainerKind(e) \/ AppKind(e)
    \/ /\ reported
       /\ \/ NamespaceKind(e) \/ ControllerKind(e) \/ SpecKind(e) \/ ServiceKind(e)
          \/ VolumeKind(e) \/ ClusterKind(e)

\* What the client's workers start from.
Collected ==
  /\ \A p \in podEntities : \A c \in Supply!Containers :
       (c[1] = p /\ Supply!HasContainerStats(c)) => AppEntity(c) \in entities
  /\ \A k \in controllers : \E p \in ChainPods :
       ChainControllerOf[p] = k /\ k # NoController /\ Supply!Listed(ChainNamespaceOf[p])
  /\ \A s \in specs : \E p \in ChainPods, i \in Nat : s = Supply!SpecId(p, i)
  /\ \A n \in notReadyNodes : n \in ChainNodes /\ Supply!NodeEntity(n) \in entities
  /\ \A p \in podsWithVolumes : p \in ChainPods /\ Supply!PodEntity(p) \in entities

\* What the client has added.
Added ==
  /\ todo = {}
  /\ \A ns \in ChainNamespaces : Supply!Listed(ns) => NamespaceEntity(ns) \in entities
  /\ \A k \in controllers : ControllerEntity(k) \in entities
  /\ \A s \in specs : SpecEntity(s) \in entities
  /\ \A m \in volumeMetrics : m[2] \in ChainVolumes =>
       \/ VolumeEntity(m[2]) \in entities
       \/ \E o \in volumeMetrics : o[2] = m[2] /\ ~Supply!HasVolumeCapacity(o)
  /\ \E e \in entities : e.id = Supply!ClusterId

\* The inductive invariant of a discovery.
ReportInv ==
  /\ reported \in BOOLEAN
  /\ Kinds
  /\ Collected
  /\ reported => Added

\* An identifier names its kind, and an entity of a kind is the only one with
\* its identifier.
LEMMA UniqueProvider ==
  ASSUME Kinds, Collected, NEW e \in entities
  PROVE  /\ \A n \in ChainNodes : e.id = Supply!NodeId(n) => e = Supply!NodeEntity(n)
         /\ \A p : e.id = Supply!PodId(p) => e = Supply!PodEntity(p)
         /\ \A c : e.id = Supply!ContainerId(c) => e = ContainerEntity(c)
         /\ \A c : e.id = Supply!AppId(c) => e = AppEntity(c)
         /\ \A ns : e.id = Supply!NamespaceId(ns) => e = NamespaceEntity(ns)
         /\ \A k : e.id = Supply!ControllerId(k) => e = ControllerEntity(k)
         /\ e.id = Supply!ClusterId => <<"CLUSTER", Supply!ClusterId>> \in e.sells
<1> DEFINE Named ==
      /\ \A n \in ChainNodes : e.id = Supply!NodeId(n) => e = Supply!NodeEntity(n)
      /\ \A p : e.id = Supply!PodId(p) => e = Supply!PodEntity(p)
      /\ \A c : e.id = Supply!ContainerId(c) => e = ContainerEntity(c)
      /\ \A c : e.id = Supply!AppId(c) => e = AppEntity(c)
      /\ \A ns : e.id = Supply!NamespaceId(ns) => e = NamespaceEntity(ns)
      /\ \A k : e.id = Supply!ControllerId(k) => e = ControllerEntity(k)
      /\ e.id = Supply!ClusterId => <<"CLUSTER", Supply!ClusterId>> \in e.sells
<1> USE DEF Supply!NodeId, Supply!PodId, Supply!ContainerId, Supply!AppId, Supply!NamespaceId,
      Supply!ControllerId, Supply!ClusterId
<1>1. CASE NodeKind(e)
  <2>1. PICK n \in ChainNodes : e = Supply!NodeEntity(n)
    BY <1>1, Zenon DEF NodeKind
  <2>2. e.id = <<"VIRTUAL_MACHINE", n>>
    BY <2>1, Zenon DEF Supply!NodeEntity, Supply!Entity
  <2> QED BY <2>1, <2>2
<1>2. CASE PodKind(e)
  <2>1. PICK p \in ChainPods : e = Supply!PodEntity(p)
    BY <1>2, Zenon DEF PodKind
  <2>2. e.id = <<"CONTAINER_POD", p>>
    BY <2>1, Zenon DEF Supply!PodEntity, Supply!Entity
  <2> QED BY <2>1, <2>2
<1>3. CASE ContainerKind(e)
  <2>1. PICK c \in Supply!Containers : e = ContainerEntity(c)
    BY <1>3, Zenon DEF ContainerKind
  <2>2. e.id = <<"CONTAINER", c>>
    BY <2>1, Zenon DEF ContainerEntity, Supply!Entity
  <2> QED BY <2>1, <2>2
<1>4. CASE AppKind(e)
  <2>1. PICK c \in Supply!Containers : e = AppEntity(c)
    BY <1>4, Zenon DEF AppKind
  <2>2. e.id = <<"APPLICATION_COMPONENT", c>>
    BY <2>1, Zenon DEF AppEntity, Supply!Entity
  <2> QED BY <2>1, <2>2
<1>5. CASE NamespaceKind(e)
  <2>1. PICK ns \in ChainNamespaces : e = NamespaceEntity(ns)
    BY <1>5, Zenon DEF NamespaceKind
  <2>2. e.id = <<"NAMESPACE", ns>>
    BY <2>1, Zenon DEF NamespaceEntity, Supply!Entity
  <2> QED BY <2>1, <2>2
<1>6. CASE ControllerKind(e)
  <2>1. PICK k \in controllers : e = ControllerEntity(k)
    BY <1>6, Zenon DEF ControllerKind
  <2>2. e.id = <<"WORKLOAD_CONTROLLER", k>>
    BY <2>1, Zenon DEF ControllerEntity, Supply!Entity
  <2> QED BY <2>1, <2>2
<1>7. CASE SpecKind(e)
  <2>1. PICK s \in specs : e = SpecEntity(s)
    BY <1>7, Zenon DEF SpecKind
  <2>2. PICK p \in ChainPods, i \in Nat : s = Supply!SpecId(p, i)
    BY Zenon DEF Collected
  <2>3. e.id = <<"CONTAINER_SPEC", <<ChainControllerOf[p], i>>>>
    BY <2>1, <2>2, Zenon DEF SpecEntity, Supply!Entity, Supply!SpecId
  <2> QED BY <2>3
<1>8. CASE ServiceKind(e)
  <2>1. PICK s \in ChainServices : e = ServiceEntity(s)
    BY <1>8, Zenon DEF ServiceKind
  <2>2. e.id = <<"SERVICE", s>>
    BY <2>1, Zenon DEF ServiceEntity, Supply!Entity, Supply!ServiceId
  <2> QED BY <2>2
<1>9. CASE VolumeKind(e)
  <2>1. PICK v \in ChainVolumes : e = VolumeEntity(v)
    BY <1>9, Zenon DEF VolumeKind
  <2>2. e.id = <<"VIRTUAL_VOLUME", v>>
    BY <2>1, Zenon DEF VolumeEntity, Supply!Entity, Supply!VolumeId
  <2> QED BY <2>2
<1>10. CASE ClusterKind(e)
  BY <1>10 DEF ClusterKind
<1> QED
  BY <1>1, <1>2, <1>3, <1>4, <1>5, <1>6, <1>7, <1>8, <1>9, <1>10, Zenon DEF Kinds

\* What an entity links to is reported, and so is what it buys from, unless it
\* is a volume whose capacity is missing.
Closed(e) ==
  /\ e.links \subseteq Supply!Ids
  /\ \A b \in e.buys :
       /\ Supply!SoldByProvider(e, b)
       /\ \/ b[1] \in Supply!Ids
          \/ \E m \in volumeMetrics : b[1] = Supply!VolumeId(m[2]) /\ ~Supply!HasVolumeCapacity(m)

\* An entity is reported under its identifier.
LEMMA InIds ==
  \A e \in entities : e.id \in Supply!Ids
BY Zenon DEF Supply!Ids

\* The client reports every container spec that the workers collected.
LEMMA SpecsReported ==
  ASSUME Added
  PROVE  specs \subseteq Supply!Ids
<1>1. \A s \in specs : SpecEntity(s) \in entities
  BY Zenon DEF Added
<1>2. \A s \in specs : SpecEntity(s).id = s
  BY Zenon DEF SpecEntity, Supply!Entity
<1> QED
  BY <1>1, <1>2, InIds, Zenon

\* The client reports the cluster.
LEMMA ClusterReported ==
  ASSUME Added
  PROVE  Supply!ClusterId \in Supply!Ids
BY Zenon DEF Added, Supply!Ids

\* A node refers only to what is reported (BuildNodeDTOs).
LEMMA NodesClosed ==
  ASSUME Added, NEW n \in ChainNodes
  PROVE  Closed(Supply!NodeEntity(n))
<1> DEFINE e == Supply!NodeEntity(n)
<1>1. e.links = {Supply!ClusterId} /\ e.id = Supply!NodeId(n)
  BY Zenon DEF Supply!NodeEntity, Supply!Entity
<1>2. ASSUME NEW b \in e.buys
      PROVE  b[1] = Supply!ClusterId /\ ~Supply!NodeActive(n)
  BY <1>2 DEF Supply!NodeEntity, Supply!Entity, Supply!When
<1>3. ASSUME NEW b \in e.buys
      PROVE  Supply!SoldByProvider(e, b)
  BY <1>1, <1>2, <1>3, Zenon DEF Supply!SoldByProvider
<1> QED
  BY <1>1, <1>2, <1>3, ClusterReported, Zenon DEF Closed

\* The provider of a pod's quotas, its controller or its namespace, is reported
\* and sells them under its own identifier.
LEMMA QuotasSold ==
  ASSUME Kinds, Collected, Added, NEW p \in ChainPods, PodBacked(p)
  PROVE  /\ Supply!QuotaProvider(p) \in Supply!Ids
         /\ \A provider \in entities : provider.id = Supply!QuotaProvider(p) =>
              provider.sells = Supply!Quotas \X {Supply!QuotaProvider(p)}
<1>1. CASE ChainControllerOf[p] = NoController
  <2>1. Supply!QuotaProvider(p) = Supply!NamespaceId(ChainNamespaceOf[p])
    BY <1>1, Zenon DEF Supply!QuotaProvider
  <2>2. NamespaceEntity(ChainNamespaceOf[p]) \in entities
    BY ChainAssumption, Zenon DEF PodBacked, Added
  <2> QED
    BY <2>1, <2>2, UniqueProvider
    DEF NamespaceEntity, Supply!Entity, Supply!Ids, Supply!NamespaceSells, Supply!Keyed
<1>2. CASE ChainControllerOf[p] # NoController
  <2>1. Supply!QuotaProvider(p) = Supply!ControllerId(ChainControllerOf[p])
    BY <1>2, Zenon DEF Supply!QuotaProvider
  <2>2. ControllerEntity(ChainControllerOf[p]) \in entities
    BY <1>2, Zenon DEF PodBacked, Added
  <2> QED
    BY <2>1, <2>2, UniqueProvider
    DEF ControllerEntity, Supply!Entity, Supply!Ids, Supply!ControllerSells, Supply!Keyed
<1> QED
  BY <1>1, <1>2, Zenon

\* So does a pod: node, quota provider and the volumes it mounts (BuildPodDTOs).
LEMMA PodsClosed ==
  ASSUME Kinds, Collected, Added, NEW p \in ChainPods, PodBacked(p)
  PROVE  Closed(Supply!PodEntity(p))
<1> DEFINE e == Supply!PodEntity(p)
<1>1. e.links = {Supply!QuotaProvider(p)}
  BY Zenon DEF Supply!PodEntity, Supply!Entity
<1>2. e.buys = Supply!BuysFrom(Supply!NodeId(ChainNodeOf[p]), Supply!PodBuysFromNode(p))
                 \cup Supply!PodBuysQuotas(p) \cup Supply!PodBuysFromVolumes(p)
  BY Zenon DEF Supply!PodEntity, Supply!Entity
<1>3. ASSUME NEW b \in Supply!BuysFrom(Supply!NodeId(ChainNodeOf[p]), Supply!PodBuysFromNode(p))
      PROVE  Supply!SoldByProvider(e, b) /\ b[1] \in Supply!Ids
  <2>1. PICK c \in Supply!PodBuysFromNode(p) : b = <<Supply!NodeId(ChainNodeOf[p]), c[1], c[2]>>
    BY <1>3, Zenon DEF Supply!BuysFrom
  <2>2. b[1] \in Supply!Ids
    BY <2>1 DEF PodBacked, Supply!NodeEntity, Supply!Entity, Supply!Ids
  <2>3. c[2] = Supply!NoKey \/ c[1] = "VSTORAGE" \/ c = <<"CLUSTER", Supply!ClusterKey>>
    BY DEF Supply!PodBuysFromNode, Supply!When, Supply!Keyless
  <2>4. ASSUME NEW provider \in entities, provider.id = b[1], b[3] # Supply!NoKey, b[2] # "VSTORAGE"
        PROVE  <<b[2], b[3]>> \in provider.sells \/ ~Supply!HasFrequency(ChainNodeOf[p])
    <3>1. provider = Supply!NodeEntity(ChainNodeOf[p])
      BY <2>1, <2>4, UniqueProvider, ChainAssumption, Zenon
    <3> QED
      BY <3>1, <2>1, <2>3, <2>4 DEF Supply!NodeEntity, Supply!Entity, Supply!NodeSells, Supply!When
  <2> QED
    BY <2>1, <2>2, <2>4, ChainAssumption, Zenon DEF Supply!SoldByProvider
<1>4. ASSUME NEW b \in Supply!PodBuysQuotas(p)
      PROVE  Supply!SoldByProvider(e, b) /\ b[1] \in Supply!Ids
  <2>1. PICK q \in Supply!Quotas : b = <<Supply!QuotaProvider(p), q, Supply!QuotaProvider(p)>>
    BY <1>4, Zenon DEF Supply!PodBuysQuotas, Supply!BuysFrom, Supply!Keyed
  <2> QED
    BY <2>1, QuotasSold, Zenon DEF Supply!SoldByProvider
<1>5. ASSUME NEW b \in Supply!PodBuysFromVolumes(p)
      PROVE  /\ Supply!SoldByProvider(e, b)
             /\ \/ b[1] \in Supply!Ids
                \/ \E m \in volumeMetrics : b[1] = Supply!VolumeId(m[2]) /\ ~Supply!HasVolumeCapacity(m)
  <2>1. PICK v \in Supply!PodMounts(p) : b = <<Supply!VolumeId(v), "STORAGE_AMOUNT", Supply!NoKey>>
    BY <1>5, Zenon DEF Supply!PodBuysFromVolumes
  <2>2. Supply!SoldByProvider(e, b)
    BY <2>1, Zenon DEF Supply!SoldByProvider
  <2>3. v \in ChainVolumes /\ <<p, v>> \in volumeMetrics
    BY Zenon DEF PodBacked
  <2>4. \/ VolumeEntity(v) \in entities
        \/ \E o \in volumeMetrics : o[2] = v /\ ~Supply!HasVolumeCapacity(o)
    BY <2>3, Zenon DEF Added
  <2> QED
    BY <2>1, <2>2, <2>4 DEF VolumeEntity, Supply!Entity, Supply!Ids
<1> QED
  BY <1>1, <1>2, <1>3, <1>4, <1>5, QuotasSold, Zenon DEF Closed

\* So does a container: pod and container spec (BuildContainerDTOs).
LEMMA ContainersClosed ==
  ASSUME Kinds, Collected, Added, NEW c \in Supply!Containers,
         Supply!PodEntity(c[1]) \in entities,
         ChainControllerOf[c[1]] # NoController => Supply!SpecId(c[1], c[2]) \in specs
  PROVE  Closed(ContainerEntity(c))
<1> DEFINE e == ContainerEntity(c)
<1>1. e.links = Supply!When(ChainControllerOf[c[1]] # NoController, {Supply!SpecId(c[1], c[2])})
      /\ e.buys = Supply!ContainerBuys(c)
  BY Zenon DEF ContainerEntity, Supply!Entity
<1>2. e.links \subseteq Supply!Ids
  BY <1>1, SpecsReported, Zenon DEF Supply!When
<1>3. ASSUME NEW b \in e.buys
      PROVE  Supply!SoldByProvider(e, b) /\ b[1] \in Supply!Ids
  <2>1. b[1] = Supply!PodId(c[1]) /\ (b[3] = Supply!NoKey \/ <<b[2], b[3]>> = <<"VMPM_ACCESS", Supply!PodId(c[1])>>)
    BY <1>1, <1>3 DEF Supply!ContainerBuys, Supply!BuysFrom, Supply!Keyless
  <2>2. b[1] \in Supply!Ids
    BY <2>1 DEF Supply!PodEntity, Supply!Entity, Supply!Ids
  <2>3. ASSUME NEW provider \in entities, provider.id = b[1]
        PROVE  <<"VMPM_ACCESS", Supply!PodId(c[1])>> \in provider.sells
    <3>1. provider = Supply!PodEntity(c[1])
      BY <2>1, <2>3, UniqueProvider, Zenon
    <3> QED
      BY <3>1, Zenon DEF Supply!PodEntity, Supply!Entity, Supply!PodSells
  <2> QED
    BY <2>1, <2>2, <2>3, Zenon DEF Supply!SoldByProvider
<1> QED
  BY <1>2, <1>3, Zenon DEF Closed

\* So does an application: its container.
LEMMA AppsClosed ==
  ASSUME Kinds, Collected, NEW c \in Supply!Containers, ContainerEntity(c) \in entities
  PROVE  Closed(AppEntity(c))
<1> DEFINE e == AppEntity(c)
<1>1. e.links = {} /\ e.buys = Supply!AppBuys(c)
  BY Zenon DEF AppEntity, Supply!Entity
<1>2. ASSUME NEW b \in e.buys
      PROVE  Supply!SoldByProvider(e, b) /\ b[1] \in Supply!Ids
  <2>1. b[1] = Supply!ContainerId(c) /\ (b[3] = Supply!NoKey \/ <<b[2], b[3]>> = <<"APPLICATION", Supply!ContainerId(c)>>)
    BY <1>1, <1>2 DEF Supply!AppBuys, Supply!BuysFrom, Supply!Keyless
  <2>2. b[1] \in Supply!Ids
    BY <2>1 DEF ContainerEntity, Supply!Entity, Supply!Ids
  <2>3. ASSUME NEW provider \in entities, provider.id = b[1]
        PROVE  <<"APPLICATION", Supply!ContainerId(c)>> \in provider.sells
    <3>1. provider = ContainerEntity(c)
      BY <2>1, <2>3, UniqueProvider, Zenon
    <3> QED
      BY <3>1, Zenon DEF ContainerEntity, Supply!Entity, Supply!ContainerSells
  <2> QED
    BY <2>1, <2>2, <2>3, Zenon DEF Supply!SoldByProvider
<1> QED
  BY <1>1, <1>2, Zenon DEF Closed

\* So does a namespace: the cluster.
LEMMA NamespacesClosed ==
  ASSUME Kinds, Collected, Added, NEW ns \in ChainNamespaces
  PROVE  Closed(NamespaceEntity(ns))
<1> DEFINE e == NamespaceEntity(ns)
<1>1. e.links = {Supply!ClusterId} /\ e.buys = Supply!NamespaceBuys
  BY Zenon DEF NamespaceEntity, Supply!Entity
<1>2. ASSUME NEW b \in e.buys
      PROVE  Supply!SoldByProvider(e, b) /\ b[1] = Supply!ClusterId
  <2>1. b[1] = Supply!ClusterId /\ (b[3] = Supply!NoKey \/ <<b[2], b[3]>> = <<"CLUSTER", Supply!ClusterId>>)
    BY <1>1, <1>2 DEF Supply!NamespaceBuys, Supply!BuysFrom, Supply!Keyless
  <2>2. ASSUME NEW provider \in entities, provider.id = b[1]
        PROVE  <<"CLUSTER", Supply!ClusterId>> \in provider.sells
    BY <2>1, <2>2, UniqueProvider, Zenon
  <2> QED
    BY <2>1, <2>2, Zenon DEF Supply!SoldByProvider
<1> QED
  BY <1>1, <1>2, ClusterReported, Zenon DEF Closed

\* So does a workload controller: namespace and container specs.
LEMMA ControllersClosed ==
  ASSUME Kinds, Collected, Added, NEW k \in controllers
  PROVE  Closed(ControllerEntity(k))
<1> DEFINE e == ControllerEntity(k)
           ns == Supply!ControllerNamespace(k)
<1>1. /\ e.links = {Supply!NamespaceId(ns)} \cup Supply!ContainerSpecsOf(k)
      /\ e.buys = Supply!ControllerBuys(k)
  BY Zenon DEF ControllerEntity, Supply!Entity
<1>2. ns \in ChainNamespaces /\ Supply!Listed(ns)
  <2>1. PICK p \in ChainPods :
          ChainControllerOf[p] = k /\ k # NoController /\ Supply!Listed(ChainNamespaceOf[p])
    BY Zenon DEF Collected
  <2>2. PICK q : q = CHOOSE x \in ChainPods : ChainControllerOf[x] = k
    BY Zenon
  <2>3. q \in ChainPods /\ ChainControllerOf[q] = k
    BY <2>1, <2>2, Zenon
  <2>4. ns = ChainNamespaceOf[q]
    BY <2>2, Zenon DEF Supply!ControllerNamespace
  <2> QED
    BY <2>1, <2>3, <2>4, ChainAssumption, Zenon
<1>3. Supply!NamespaceId(ns) \in Supply!Ids
  <2>1. NamespaceEntity(ns) \in entities
    BY <1>2, Zenon DEF Added
  <2>2. NamespaceEntity(ns).id = Supply!NamespaceId(ns)
    BY Zenon DEF NamespaceEntity, Supply!Entity
  <2> QED
    BY <2>1, <2>2, InIds, Zenon
<1>4. Supply!ContainerSpecsOf(k) \subseteq Supply!Ids
  BY SpecsReported, Zenon DEF Supply!ContainerSpecsOf
<1>5. ASSUME NEW b \in e.buys
      PROVE  Supply!SoldByProvider(e, b) /\ b[1] = Supply!NamespaceId(ns)
  <2>1. PICK q \in Supply!Quotas : b = <<Supply!NamespaceId(ns), q, Supply!NamespaceId(ns)>>
    BY <1>1, <1>5, Zenon DEF Supply!ControllerBuys, Supply!BuysFrom, Supply!Keyed
  <2>2. ASSUME NEW provider \in entities, provider.id = b[1]
        PROVE  <<q, Supply!NamespaceId(ns)>> \in provider.sells
    <3>1. provider = NamespaceEntity(ns)
      BY <2>1, <2>2, UniqueProvider, Zenon
    <3> QED
      BY <3>1, Zenon DEF NamespaceEntity, Supply!Entity, Supply!NamespaceSells, Supply!Keyed
  <2> QED
    BY <2>1, <2>2, Zenon DEF Supply!SoldByProvider
<1> QED
  BY <1>1, <1>3, <1>4, <1>5, Zenon DEF Closed

\* So does a service: the applications of its pods that are ready.
LEMMA ServicesClosed ==
  ASSUME Kinds, Collected, NEW s \in ChainServices
  PROVE  Closed(ServiceEntity(s))
<1> DEFINE e == ServiceEntity(s)
<1>1. e.links = {} /\ e.buys = Supply!ServiceBuys(s)
  BY Zenon DEF ServiceEntity, Supply!Entity
<1>2. ASSUME NEW b \in e.buys
      PROVE  Supply!SoldByProvider(e, b) /\ b[1] \in Supply!Ids
  <2>1. PICK c \in Supply!ServiceApps(s) : b = <<Supply!AppId(c), "APPLICATION", Supply!AppKey(c)>>
    BY <1>1, <1>2, Zenon DEF Supply!ServiceBuys
  <2>2. AppEntity(c) \in entities
    BY Zenon DEF Collected, Supply!ServiceApps, Supply!AppsOf, Supply!ContainersIn
  <2>3. b[1] \in Supply!Ids
    BY <2>1, <2>2 DEF AppEntity, Supply!Entity, Supply!Ids
  <2>4. ASSUME NEW provider \in entities, provider.id = b[1]
        PROVE  <<"APPLICATION", Supply!AppKey(c)>> \in provider.sells
    <3>1. provider = AppEntity(c)
      BY <2>1, <2>4, UniqueProvider, Zenon
    <3> QED
      BY <3>1, Zenon DEF AppEntity, Supply!Entity
  <2> QED
    BY <2>1, <2>3, <2>4, Zenon DEF Supply!SoldByProvider
<1> QED
  BY <1>1, <1>2, Zenon DEF Closed

\* The invariant implies the property.
LEMMA ReportInvCloses ==
  ASSUME ReportInv
  PROVE  Supply!ReportIsClosed
<1> SUFFICES ASSUME reported
             PROVE  /\ \A e \in entities : Closed(e)
                    /\ \A n \in notReadyNodes : Supply!NodeId(n) \in Supply!Ids
                    /\ \A p \in podsWithVolumes : Supply!PodId(p) \in Supply!Ids
  BY Zenon DEF Supply!ReportIsClosed, Closed
<1>1. Kinds /\ Collected /\ Added
  BY Zenon DEF ReportInv
<1>2. ASSUME NEW e \in entities
      PROVE  Closed(e)
  <2>1. CASE NodeKind(e)
    BY <2>1, <1>1, NodesClosed, Zenon DEF NodeKind
  <2>2. CASE PodKind(e)
    BY <2>2, <1>1, PodsClosed, Zenon DEF PodKind
  <2>3. CASE ContainerKind(e)
    BY <2>3, <1>1, ContainersClosed, Zenon DEF ContainerKind
  <2>4. CASE AppKind(e)
    BY <2>4, <1>1, AppsClosed, Zenon DEF AppKind
  <2>5. CASE NamespaceKind(e)
    BY <2>5, <1>1, NamespacesClosed, Zenon DEF NamespaceKind
  <2>6. CASE ControllerKind(e)
    BY <2>6, <1>1, ControllersClosed, Zenon DEF ControllerKind
  <2>7. CASE SpecKind(e)
    BY <2>7 DEF SpecKind, SpecEntity, Supply!Entity, Closed
  <2>8. CASE ServiceKind(e)
    BY <2>8, <1>1, ServicesClosed, Zenon DEF ServiceKind
  <2>9. CASE VolumeKind(e)
    BY <2>9 DEF VolumeKind, VolumeEntity, Supply!Entity, Closed
  <2>10. CASE ClusterKind(e)
    BY <2>10, Zenon DEF ClusterKind, Closed
  <2> QED
    BY <1>1, <2>1, <2>2, <2>3, <2>4, <2>5, <2>6, <2>7, <2>8, <2>9, <2>10, Zenon DEF Kinds
<1>3. \A n \in notReadyNodes : Supply!NodeId(n) \in Supply!Ids
  <2>1. \A n \in notReadyNodes : Supply!NodeEntity(n) \in entities
    BY <1>1, Zenon DEF Collected
  <2>2. \A n : Supply!NodeEntity(n).id = Supply!NodeId(n)
    BY Zenon DEF Supply!NodeEntity, Supply!Entity
  <2> QED
    BY <2>1, <2>2, InIds, Zenon
<1>4. \A p \in podsWithVolumes : Supply!PodId(p) \in Supply!Ids
  <2>1. \A p \in podsWithVolumes : Supply!PodEntity(p) \in entities
    BY <1>1, Zenon DEF Collected
  <2>2. \A p : Supply!PodEntity(p).id = Supply!PodId(p)
    BY Zenon DEF Supply!PodEntity, Supply!Entity
  <2> QED
    BY <2>1, <2>2, InIds, Zenon
<1> QED
  BY <1>2, <1>3, <1>4, Zenon

\* It holds before the tasks start.
LEMMA ReportInvInit ==
  ASSUME Supply!Init
  PROVE  ReportInv
BY Zenon DEF Supply!Init, ReportInv, Kinds, Collected

\* What a builder makes depends only on what was lost and on the pods' phases.
LEMMA BuildersUnmoved ==
  ASSUME losses' = losses, phase' = phase
  PROVE  /\ \A n \in ChainNodes : Supply!NodeEntity(n)' = Supply!NodeEntity(n)
         /\ \A p \in ChainPods : Supply!PodEntity(p)' = Supply!PodEntity(p)
         /\ \A c \in Supply!Containers : ContainerEntity(c)' = ContainerEntity(c)
         /\ \A c \in Supply!Containers : AppEntity(c)' = AppEntity(c)
         /\ \A p \in ChainPods : Supply!PodMounts(p)' = Supply!PodMounts(p)
         /\ \A c \in Supply!Containers : Supply!HasContainerStats(c)' <=> Supply!HasContainerStats(c)
         /\ \A ns : Supply!Listed(ns)' <=> Supply!Listed(ns)
<1> USE DEF Supply!Lost
<1>1. ASSUME NEW n \in ChainNodes
      PROVE  Supply!NodeEntity(n)' = Supply!NodeEntity(n)
  BY Zenon DEF Supply!NodeEntity, Supply!NodeSells, Supply!NodeActive, Supply!HasFrequency, Supply!HasNodeStats, Supply!Entity, Supply!When
<1>2. ASSUME NEW p \in ChainPods
      PROVE  Supply!PodMounts(p)' = Supply!PodMounts(p)
  BY Zenon DEF Supply!PodMounts, Supply!HasVolumeStats, Supply!HasPodStats, Supply!HasNodeStats, Supply!When
<1>3. ASSUME NEW p \in ChainPods
      PROVE  Supply!PodEntity(p)' = Supply!PodEntity(p)
  <2>1. Supply!PodSells(p)' = Supply!PodSells(p)
    BY Zenon DEF Supply!PodSells, Supply!HasPodStats, Supply!HasNodeStats, Supply!HasPodResources, Supply!When
  <2>2. Supply!PodBuysFromNode(p)' = Supply!PodBuysFromNode(p)
    BY Zenon DEF Supply!PodBuysFromNode, Supply!HasPodStats, Supply!HasNodeStats, Supply!HasPodResources, Supply!When
  <2>3. Supply!PodBuysFromVolumes(p)' = Supply!PodBuysFromVolumes(p)
    BY <1>2, Zenon DEF Supply!PodBuysFromVolumes
  <2> QED
    BY <2>1, <2>2, <2>3, Zenon DEF Supply!PodEntity, Supply!Entity, Supply!BuysFrom
<1>4. ASSUME NEW c \in Supply!Containers
      PROVE  /\ ContainerEntity(c)' = ContainerEntity(c)
             /\ AppEntity(c)' = AppEntity(c)
             /\ Supply!HasContainerStats(c)' <=> Supply!HasContainerStats(c)
  BY Zenon DEF ContainerEntity, AppEntity, Supply!HasContainerStats, Supply!HasPodStats, Supply!HasNodeStats
<1> QED
  BY <1>1, <1>2, <1>3, <1>4, Zenon DEF Supply!Listed

\* A step loses nothing that was collected.
Grows ==
  /\ losses' = losses /\ phase' = phase
  /\ entities \subseteq entities' /\ controllers \subseteq controllers'
  /\ specs \subseteq specs' /\ volumeMetrics \subseteq volumeMetrics'

\* An entity stays of its kind as the collection grows.
LEMMA KindsKept ==
  ASSUME Grows
  PROVE  /\ \A e : NodeKind(e) => NodeKind(e)'
         /\ \A e : PodKind(e) => PodKind(e)'
         /\ \A e : ContainerKind(e) => ContainerKind(e)'
         /\ \A e : AppKind(e) => AppKind(e)'
<1> USE BuildersUnmoved DEF Grows
<1>1. ASSUME NEW e, NodeKind(e)
      PROVE  NodeKind(e)'
  BY <1>1, Zenon DEF NodeKind
<1>2. ASSUME NEW e, PodKind(e)
      PROVE  PodKind(e)'
  <2>1. PICK p \in ChainPods : e = Supply!PodEntity(p) /\ PodBacked(p)
    BY <1>2, Zenon DEF PodKind
  <2>2. PodBacked(p)'
    BY <2>1, ChainAssumption, Zenon DEF PodBacked
  <2> QED
    BY <2>1, <2>2, Zenon DEF PodKind
<1>3. ASSUME NEW e, ContainerKind(e)
      PROVE  ContainerKind(e)'
  <2>1. PICK c \in Supply!Containers :
          /\ e = ContainerEntity(c)
          /\ Supply!PodEntity(c[1]) \in entities
          /\ ChainControllerOf[c[1]] # NoController => Supply!SpecId(c[1], c[2]) \in specs
    BY <1>3, Zenon DEF ContainerKind
  <2>2. c[1] \in ChainPods
    BY DEF Supply!Containers
  <2> QED
    BY <2>1, <2>2, Zenon DEF ContainerKind
<1>4. ASSUME NEW e, AppKind(e)
      PROVE  AppKind(e)'
  BY <1>4, Zenon DEF AppKind
<1> QED
  BY <1>1, <1>2, <1>3, <1>4, Zenon

\* A task of a node keeps the kinds and collects what the client needs
\* (ExecuteTask).
LEMMA TaskKinds ==
  ASSUME ReportInv, NEW n \in ChainNodes, Supply!ExecuteTask(n)
  PROVE  Kinds' /\ Collected' /\ Grows /\ reported = FALSE /\ reported' = FALSE
<1> DEFINE node == Supply!BuildNodeDTOs(n)
           built == Supply!When(node # {}, Supply!BuildPodDTOs(n))
           running == built \cap Supply!RunningPods(n)
<1>1. /\ entities' = entities \cup node \cup {Supply!PodEntity(p) : p \in built}
           \cup Supply!BuildContainerDTOs(running) \cup Supply!BuildAppDTOs(running)
      /\ podEntities' = podEntities \cup running
      /\ podsWithVolumes' = podsWithVolumes \cup {p \in running : ChainMountsOf[p] # {}}
      /\ notReadyNodes' = notReadyNodes \cup Supply!When(built # {} /\ ~Supply!NodeActive(n), {n})
  BY Zenon DEF Supply!ExecuteTask, Supply!BuildEntityDTOs
<1>2. /\ controllers' = controllers \cup Supply!CollectControllers(n)
      /\ specs' = specs \cup Supply!CollectContainerSpecs(n)
      /\ volumeMetrics' = volumeMetrics \cup Supply!CollectVolumeMetrics(n)
      /\ losses' = losses /\ phase' = phase /\ reported' = reported /\ n \in todo
  BY Zenon DEF Supply!ExecuteTask
<1>3. reported = FALSE /\ reported' = FALSE
  BY <1>2, Zenon DEF ReportInv, Added
<1>4. Grows
  BY <1>1, <1>2, Zenon DEF Grows
<1>5. /\ \A p \in built : /\ p \in ChainPods /\ ChainNodeOf[p] = n /\ Supply!PodBuildable(p)
                          /\ ~Supply!Lost("master", n) /\ node = {Supply!NodeEntity(n)}
      /\ \A p \in running : p \in built /\ phase[p] # "Pending"
      /\ built # {} => node = {Supply!NodeEntity(n)}
      /\ \A e \in node : e = Supply!NodeEntity(n)
  BY Zenon DEF Supply!When, Supply!BuildPodDTOs, Supply!BuildNodeDTOs, Supply!RunningPods, Supply!HasClusterId
<1> HIDE DEF node, built, running
<1>6. ASSUME NEW p \in built
      PROVE  PodBacked(p)'
  <2>1. Supply!Listed(ChainNamespaceOf[p])'
    BY <1>5, BuildersUnmoved, <1>2, Zenon DEF Supply!PodBuildable
  <2>2. (Supply!NodeEntity(ChainNodeOf[p]) \in entities)'
    BY <1>1, <1>2, <1>5, BuildersUnmoved, Zenon
  <2>3. ASSUME ChainControllerOf[p] # NoController
        PROVE  ChainControllerOf[p] \in controllers'
    BY <2>3, <1>2, <1>5, Zenon DEF Supply!PodBuildable, Supply!CollectControllers
  <2>4. ASSUME NEW v \in Supply!PodMounts(p)
        PROVE  v \in ChainVolumes /\ <<p, v>> \in volumeMetrics'
    <3>1. v \in ChainMountsOf[p] /\ Supply!HasVolumeStats(<<p, v>>)
      BY Zenon DEF Supply!PodMounts, Supply!When
    <3>2. <<p, v>> \in Supply!Mounts /\ v \in ChainVolumes
      BY <3>1, <1>5, ChainAssumption DEF Supply!Mounts
    <3> QED
      BY <1>2, <1>5, <3>1, <3>2, Zenon DEF Supply!CollectVolumeMetrics
  <2>5. Supply!PodMounts(p)' = Supply!PodMounts(p)
    BY <1>2, <1>5, BuildersUnmoved, Zenon
  <2> QED
    BY <2>1, <2>2, <2>3, <2>4, <2>5, Zenon DEF PodBacked
<1>7. ASSUME NEW c \in Supply!Containers, c[1] \in running
      PROVE  ChainControllerOf[c[1]] # NoController => Supply!SpecId(c[1], c[2]) \in specs'
  BY <1>2, <1>5, <1>7, Zenon DEF Supply!CollectContainerSpecs, Supply!PodBuildable
<1>8. ASSUME NEW c \in Supply!Containers, c[1] \in running, Supply!HasContainerStats(c)
      PROVE  ContainerEntity(c) \in entities' /\ AppEntity(c) \in entities'
  <2>1. Supply!HasContainerResources(c)
    BY <1>5, <1>8, Zenon DEF Supply!HasContainerResources
  <2>2. ContainerEntity(c) \in Supply!BuildContainerDTOs(running)
    BY <2>1, <1>8, Zenon DEF Supply!BuildContainerDTOs, Supply!ContainersIn, ContainerEntity
  <2>3. AppEntity(c) \in Supply!BuildAppDTOs(running)
    BY <1>8, Zenon DEF Supply!BuildAppDTOs, Supply!AppsOf, Supply!ContainersIn, AppEntity
  <2> QED
    BY <2>2, <2>3, <1>1, Zenon
<1>9. Kinds'
  <2> SUFFICES ASSUME NEW e \in entities'
               PROVE  NodeKind(e)' \/ PodKind(e)' \/ ContainerKind(e)' \/ AppKind(e)'
    BY Zenon DEF Kinds
  <2>1. CASE e \in entities
    BY <2>1, <1>3, <1>4, KindsKept, Zenon DEF Kinds, ReportInv
  <2>2. CASE e \in node
    BY <2>2, <1>2, <1>5, BuildersUnmoved, Zenon DEF NodeKind
  <2>3. ASSUME NEW p \in built, e = Supply!PodEntity(p)
        PROVE  PodKind(e)'
    BY <2>3, <1>2, <1>5, <1>6, BuildersUnmoved, Zenon DEF PodKind
  <2>4. CASE e \in Supply!BuildContainerDTOs(running)
    <3>1. PICK c \in Supply!Containers : c[1] \in running /\ e = ContainerEntity(c)
      BY <2>4, Zenon DEF Supply!BuildContainerDTOs, Supply!ContainersIn, ContainerEntity
    <3>2. (Supply!PodEntity(c[1]) \in entities)'
      BY <3>1, <1>1, <1>2, <1>5, BuildersUnmoved, Zenon
    <3> QED
      BY <3>1, <3>2, <1>2, <1>7, BuildersUnmoved, Zenon DEF ContainerKind
  <2>5. CASE e \in Supply!BuildAppDTOs(running)
    <3>1. PICK c \in Supply!Containers : c[1] \in running /\ Supply!HasContainerStats(c) /\ e = AppEntity(c)
      BY <2>5, Zenon DEF Supply!BuildAppDTOs, Supply!AppsOf, Supply!ContainersIn, AppEntity
    <3> QED
      BY <3>1, <1>2, <1>8, BuildersUnmoved, Zenon DEF AppKind
  <2> QED
    BY <1>1, <2>1, <2>2, <2>3, <2>4, <2>5, Zenon
<1>10. Collected'
  <2>1. ASSUME NEW p \in podEntities', NEW c \in Supply!Containers, c[1] = p, Supply!HasContainerStats(c)
        PROVE  AppEntity(c) \in entities'
    BY <2>1, <1>1, <1>4, <1>8, Zenon DEF Collected, ReportInv, Grows
  <2>2. ASSUME NEW k \in controllers'
        PROVE  \E p \in ChainPods :
                 ChainControllerOf[p] = k /\ k # NoController /\ Supply!Listed(ChainNamespaceOf[p])
    BY <1>2, Zenon DEF Collected, ReportInv, Supply!CollectControllers
  <2>3. ASSUME NEW s \in specs'
        PROVE  \E p \in ChainPods, i \in Nat : s = Supply!SpecId(p, i)
    <3>1. CASE s \in specs
      BY <3>1, Zenon DEF Collected, ReportInv
    <3>2. CASE s \in Supply!CollectContainerSpecs(n)
      <4>1. PICK c \in Supply!Containers : s = Supply!SpecId(c[1], c[2])
        BY <3>2, Zenon DEF Supply!CollectContainerSpecs
      <4>2. c[1] \in ChainPods /\ c[2] \in Nat
        BY DEF Supply!Containers
      <4> QED
        BY <4>1, <4>2, Zenon
    <3> QED
      BY <3>1, <3>2, <1>2, Zenon
  <2>4. ASSUME NEW m \in notReadyNodes'
        PROVE  m \in ChainNodes /\ Supply!NodeEntity(m) \in entities'
    <3>1. CASE m \in notReadyNodes
      BY <3>1, <1>1, Zenon DEF Collected, ReportInv
    <3>2. CASE m \notin notReadyNodes
      BY <3>2, <1>1, <1>5, Zenon DEF Supply!When
    <3> QED
      BY <3>1, <3>2, Zenon
  <2>5. ASSUME NEW p \in podsWithVolumes'
        PROVE  p \in ChainPods /\ Supply!PodEntity(p) \in entities'
    <3>1. CASE p \in podsWithVolumes
      BY <3>1, <1>1, Zenon DEF Collected, ReportInv
    <3>2. CASE p \in running
      BY <3>2, <1>1, <1>5, Zenon
    <3> QED
      BY <3>1, <3>2, <1>1, Zenon
  <2> QED
    BY <2>1, <2>2, <2>3, <2>4, <2>5, <1>2, BuildersUnmoved, Zenon DEF Collected
<1> QED
  BY <1>3, <1>4, <1>9, <1>10, Zenon

\* What the client makes of controllers, services and volumes depends only on
\* what was collected.
LEMMA ReportBuilders ==
  ASSUME losses' = losses, phase' = phase, specs' = specs, podEntities' = podEntities
  PROVE  /\ \A k : ControllerEntity(k)' = ControllerEntity(k)
         /\ \A s : ServiceEntity(s)' = ServiceEntity(s)
         /\ \A m : Supply!HasVolumeCapacity(m)' <=> Supply!HasVolumeCapacity(m)
<1> USE DEF Supply!Lost, Supply!HasNodeStats, Supply!HasPodStats
<1>1. ASSUME NEW k
      PROVE  ControllerEntity(k)' = ControllerEntity(k)
  BY Zenon DEF ControllerEntity, Supply!ContainerSpecsOf, Supply!Entity
<1>2. ASSUME NEW s
      PROVE  ServiceEntity(s)' = ServiceEntity(s)
  <2>1. Supply!ServiceApps(s)' = Supply!ServiceApps(s)
    BY Zenon DEF Supply!ServiceApps, Supply!AppsOf, Supply!HasContainerStats
  <2> QED
    BY <2>1, Zenon DEF ServiceEntity, Supply!ServiceSells, Supply!ServiceBuys, Supply!Entity, Supply!When
<1>3. ASSUME NEW m
      PROVE  Supply!HasVolumeCapacity(m)' <=> Supply!HasVolumeCapacity(m)
  BY Zenon DEF Supply!HasVolumeCapacity, Supply!HasVolumeStats
<1> QED
  BY <1>1, <1>2, <1>3, Zenon

\* The client's own entities complete the report (Report).
LEMMA ReportKinds ==
  ASSUME ReportInv, Supply!Report
  PROVE  ReportInv'
<1>1. /\ todo = {} /\ todo' = todo /\ reported = FALSE /\ reported' = TRUE
      /\ losses' = losses /\ phase' = phase /\ podEntities' = podEntities /\ controllers' = controllers
      /\ specs' = specs /\ volumeMetrics' = volumeMetrics
      /\ notReadyNodes' = notReadyNodes /\ podsWithVolumes' = podsWithVolumes
  BY Zenon DEF Supply!Report, ReportInv
<1>2. PICK last \in [ChainVolumes -> ChainPods] :
        /\ \A v \in ChainVolumes : (\E m \in volumeMetrics : m[2] = v) => <<last[v], v>> \in volumeMetrics
        /\ LET es == entities \cup Supply!NamespaceDTOs \cup Supply!ControllerDTOs \cup Supply!ContainerSpecDTOs
                       \cup Supply!ServiceDTOs \cup Supply!VolumeDTOs(last)
           IN  entities' = es \cup {Supply!ClusterDTO(es)}
  BY Zenon DEF Supply!Report
<1>3. PICK cluster :
        /\ ClusterKind(cluster)
        /\ entities' = entities \cup Supply!NamespaceDTOs \cup Supply!ControllerDTOs \cup Supply!ContainerSpecDTOs
                         \cup Supply!ServiceDTOs \cup Supply!VolumeDTOs(last) \cup {cluster}
  <2> DEFINE es == entities \cup Supply!NamespaceDTOs \cup Supply!ControllerDTOs \cup Supply!ContainerSpecDTOs
                     \cup Supply!ServiceDTOs \cup Supply!VolumeDTOs(last)
  <2>1. ClusterKind(Supply!ClusterDTO(es))
    BY Zenon DEF ClusterKind, Supply!ClusterDTO, Supply!Entity, Supply!ClusterSells
  <2>2. entities' = es \cup {Supply!ClusterDTO(es)}
    BY <1>2, Zenon
  <2> QED
    BY <2>1, <2>2, Zenon
<1>4. Grows
  BY <1>1, <1>3, Zenon DEF Grows
<1>5. /\ Supply!NamespaceDTOs = {NamespaceEntity(ns) : ns \in {m \in ChainNamespaces : Supply!Listed(m)}}
      /\ Supply!ControllerDTOs = {ControllerEntity(k) : k \in controllers}
      /\ Supply!ContainerSpecDTOs = {SpecEntity(s) : s \in specs}
      /\ Supply!ServiceDTOs = {ServiceEntity(s) : s \in {t \in ChainServices : Supply!ServiceApps(t) # {}}}
      /\ Supply!VolumeDTOs(last) = {VolumeEntity(v) : v \in {w \in ChainVolumes : Supply!CapacityFound(w, last)}}
  BY Zenon DEF Supply!NamespaceDTOs, Supply!ControllerDTOs, Supply!ContainerSpecDTOs, Supply!ServiceDTOs,
       Supply!VolumeDTOs, NamespaceEntity, ControllerEntity, SpecEntity, ServiceEntity, VolumeEntity
<1>6. Kinds'
  <2> SUFFICES ASSUME NEW e \in entities'
               PROVE  \/ NodeKind(e)' \/ PodKind(e)' \/ ContainerKind(e)' \/ AppKind(e)'
                      \/ NamespaceKind(e)' \/ ControllerKind(e)' \/ SpecKind(e)' \/ ServiceKind(e)'
                      \/ VolumeKind(e)' \/ ClusterKind(e)'
    BY <1>1, Zenon DEF Kinds
  <2>1. CASE e \in entities
    BY <2>1, <1>1, <1>4, KindsKept, Zenon DEF Kinds, ReportInv
  <2>2. CASE e \in Supply!NamespaceDTOs
    BY <2>2, <1>5, Zenon DEF NamespaceKind
  <2>3. CASE e \in Supply!ControllerDTOs
    BY <2>3, <1>1, <1>5, ReportBuilders, Zenon DEF ControllerKind
  <2>4. CASE e \in Supply!ContainerSpecDTOs
    BY <2>4, <1>1, <1>5, Zenon DEF SpecKind
  <2>5. CASE e \in Supply!ServiceDTOs
    BY <2>5, <1>1, <1>5, ReportBuilders, Zenon DEF ServiceKind
  <2>6. CASE e \in Supply!VolumeDTOs(last)
    BY <2>6, <1>5, Zenon DEF VolumeKind
  <2>7. CASE e = cluster
    BY <2>7, <1>3, Zenon DEF ClusterKind
  <2> QED
    BY <1>3, <2>1, <2>2, <2>3, <2>4, <2>5, <2>6, <2>7, Zenon
<1>7. Collected'
  <2>1. Collected
    BY Zenon DEF ReportInv
  <2> QED
    BY <2>1, <1>1, <1>4, BuildersUnmoved, Zenon DEF Collected, Grows
<1>8. Added'
  <2>1. \A ns \in ChainNamespaces : Supply!Listed(ns)' => NamespaceEntity(ns)' \in entities'
    BY <1>1, <1>3, <1>5, BuildersUnmoved, Zenon
  <2>2. \A k \in controllers' : ControllerEntity(k)' \in entities'
    BY <1>1, <1>3, <1>5, ReportBuilders, Zenon
  <2>3. \A s \in specs' : SpecEntity(s)' \in entities'
    BY <1>1, <1>3, <1>5, Zenon
  <2>4. ASSUME NEW m \in volumeMetrics', m[2] \in ChainVolumes
        PROVE  \/ VolumeEntity(m[2]) \in entities'
               \/ \E o \in volumeMetrics' : o[2] = m[2] /\ ~Supply!HasVolumeCapacity(o)
    <3> DEFINE o == <<last[m[2]], m[2]>>
    <3>1. o \in volumeMetrics /\ last[m[2]] \in ChainPods
      BY <1>1, <1>2, <2>4, Zenon
    <3>2. ASSUME Supply!HasVolumeCapacity(o)
          PROVE  VolumeEntity(m[2]) \in entities'
      <4>1. Supply!CapacityFound(m[2], last)
        BY <3>1, <3>2, Zenon DEF Supply!CapacityFound
      <4> QED
        BY <4>1, <1>3, <1>5, <2>4, Zenon
    <3> QED
      BY <1>1, <3>1, <3>2, Zenon
  <2>5. \E e \in entities' : e.id = Supply!ClusterId
    BY <1>3, Zenon DEF ClusterKind
  <2> QED
    BY <1>1, <2>1, <2>2, <2>3, <2>4, <2>5, ReportBuilders, Zenon DEF Added
<1> QED
  BY <1>1, <1>6, <1>7, <1>8, Zenon DEF ReportInv

\* Every step keeps the invariant.
LEMMA ReportInvStep ==
  ASSUME ReportInv, [Supply!Next]_(Supply!vars)
  PROVE  ReportInv'
<1>1. ASSUME NEW n \in ChainNodes, Supply!ExecuteTask(n)
      PROVE  ReportInv'
  BY <1>1, TaskKinds, Zenon DEF ReportInv
<1>2. ASSUME UNCHANGED <<losses, phase, entities, podEntities, controllers,
                         specs, volumeMetrics, notReadyNodes, podsWithVolumes, reported>>,
             todo' = todo \/ (\E n \in todo : todo' = todo \ {n})
      PROVE  ReportInv'
  <2>1. Grows
    BY <1>2, Zenon DEF Grows
  <2>2. Kinds'
    <3>1. \A e : /\ NamespaceKind(e) => NamespaceKind(e)'
                 /\ ControllerKind(e) => ControllerKind(e)'
                 /\ SpecKind(e) => SpecKind(e)'
                 /\ ServiceKind(e) => ServiceKind(e)'
                 /\ VolumeKind(e) => VolumeKind(e)'
                 /\ ClusterKind(e) => ClusterKind(e)'
      BY <1>2, ReportBuilders, Zenon
      DEF NamespaceKind, ControllerKind, SpecKind, ServiceKind, VolumeKind, ClusterKind
    <3>2. Kinds
      BY Zenon DEF ReportInv
    <3> QED
      BY <1>2, <2>1, <3>1, <3>2, KindsKept, Zenon DEF Kinds
  <2>3. Collected'
    BY <1>2, BuildersUnmoved, Zenon DEF Collected, ReportInv
  <2>4. ASSUME reported
        PROVE  Added'
    BY <1>2, <2>4, BuildersUnmoved, ReportBuilders, Zenon DEF Added, ReportInv
  <2> QED
    BY <1>2, <2>2, <2>3, <2>4, Zenon DEF ReportInv
<1>3. ASSUME NEW n \in ChainNodes, Supply!FailTask(n)
      PROVE  ReportInv'
  BY <1>2, <1>3, Zenon DEF Supply!FailTask
<1>4. CASE Supply!Report
  BY <1>4, ReportKinds, Zenon
<1>5. CASE UNCHANGED Supply!vars
  BY <1>2, <1>5, Zenon DEF Supply!vars
<1> QED
  BY <1>1, <1>3, <1>4, <1>5, Zenon DEF Supply!Next, Supply!Rest

\* Whatever went missing while the cluster was read, an entity of the report
\* links only to entities in it and buys only from entities in it, under the key
\* they sell; a volume without capacity is the one exception (discoverWithNewFramework).
THEOREM ReportsAreClosed ==
  Supply!Spec => []ReportIsClosed
<1>1. Supply!Init => ReportInv
  BY ReportInvInit, Zenon
<1>2. ReportInv /\ [Supply!Next]_(Supply!vars) => ReportInv'
  BY ReportInvStep, Zenon
<1>3. ReportInv => ReportIsClosed
  BY ReportInvCloses, Zenon DEF ReportIsClosed
<1> QED
  BY <1>1, <1>2, <1>3, PTL DEF Supply!Spec

-----------------------------------------------------------------------------
(* The storage a node sells.                                               *)

\* The configuration stays what it was, and what was computed from it is what
\* it gives.
StorageInv ==
  /\ evictionHard \in [Storage!FileSystems -> HardStatements]
  /\ evictionSoft \in [Storage!FileSystems -> SoftStatements]
  /\ size \in [Storage!FileSystems -> Nat] /\ available \in [Storage!FileSystems -> Int]
  /\ \A fs \in Storage!FileSystems : available[fs] <= size[fs]
  /\ stage # "scrape" => threshold = Storage!ParseThresholdValues
  /\ Storage!ThresholdsCount

\* It holds before the kubelet is scraped: what is free is at most the size.
LEMMA StorageInvInit ==
  ASSUME Storage!Init
  PROVE  StorageInv
<1>1. size \in [Storage!FileSystems -> Nat]
  BY StorageAssumption, Zenon DEF Storage!Init
<1>2. /\ available \in [Storage!FileSystems -> Int]
      /\ \A fs \in Storage!FileSystems : available[fs] <= size[fs]
  <2>1. PICK used \in [Storage!FileSystems -> FsUsed] :
          available = [fs \in Storage!FileSystems |-> size[fs] - ((size[fs] * used[fs]) \div 100)]
    BY Zenon DEF Storage!Init
  <2>2. ASSUME NEW fs \in Storage!FileSystems
        PROVE  /\ size[fs] - ((size[fs] * used[fs]) \div 100) \in Int
               /\ size[fs] - ((size[fs] * used[fs]) \div 100) <= size[fs]
    <3>1. size[fs] \in Nat /\ used[fs] \in Nat
      BY <1>1, StorageAssumption, Zenon
    <3>2. size[fs] * used[fs] \in Nat
      BY <3>1
    <3> QED
      BY <3>1, <3>2
  <2> QED
    BY <2>1, <2>2, Zenon
<1> QED
  BY <1>1, <1>2, Zenon DEF Storage!Init, Storage!ThresholdsCount, StorageInv

\* The thresholds depend only on the configuration and the sizes.
LEMMA ThresholdsUnmoved ==
  ASSUME UNCHANGED <<evictionHard, evictionSoft, graceless, size, available>>
  PROVE  /\ \A fs \in Storage!FileSystems : Storage!LastThreshold(fs)' = Storage!LastThreshold(fs)
         /\ Storage!ParseThresholdValues' = Storage!ParseThresholdValues
<1>1. Storage!BadConfig' = Storage!BadConfig
  BY Zenon DEF Storage!BadConfig
<1>2. ASSUME NEW fs
      PROVE  Storage!LastThreshold(fs)' = Storage!LastThreshold(fs)
  <2>1. Storage!ParseThresholdConfig(fs)' = Storage!ParseThresholdConfig(fs)
    BY <1>1, Zenon DEF Storage!ParseThresholdConfig
  <2> QED
    BY <2>1, Zenon DEF Storage!LastThreshold
<1> QED
  BY <1>2, Zenon DEF Storage!ParseThresholdValues

\* The threshold of a file system is a number: the last statement that is
\* neither missing nor ignored, as a percentage of the size.
LEMMA LastThresholdInt ==
  ASSUME StorageInv, NEW fs \in Storage!FileSystems
  PROVE  Storage!LastThreshold(fs) \in Int
<1> DEFINE vs == Storage!ParseThresholdConfig(fs)
<1>1. ASSUME NEW v \in (HardStatements \cup SoftStatements) \ {NoStatement}
      PROVE  Storage!GetThresholdPercentile(v, size[fs]) \in Int
  <2>1. v.n \in Nat /\ size[fs] \in Nat
    BY StorageAssumption, Zenon DEF StorageInv
  <2> QED
    BY <2>1 DEF Storage!GetThresholdPercentile
<1>2. CASE vs = <<>>
  BY <1>2 DEF Storage!LastThreshold
<1>3. CASE vs # <<>>
  <2>1. vs[Len(vs)] \in (HardStatements \cup SoftStatements) \ {NoStatement}
    <3>1. evictionHard[fs] \in HardStatements /\ evictionSoft[fs] \in SoftStatements
      BY Zenon DEF StorageInv
    <3>2. vs = Storage!ParseThresholdStatement(evictionHard[fs]) \o Storage!ParseThresholdStatement(evictionSoft[fs])
      BY <1>3, Zenon DEF Storage!ParseThresholdConfig
    <3>3. \A v : Storage!Ignored(v) \/ v # NoStatement
      BY Zenon DEF Storage!Ignored
    <3>4. CASE Storage!Ignored(evictionSoft[fs])
      <4>1. ~Storage!Ignored(evictionHard[fs])
        BY <1>3, <3>2, <3>4 DEF Storage!ParseThresholdStatement
      <4>2. vs = <<evictionHard[fs]>>
        BY <3>2, <3>4, <4>1 DEF Storage!ParseThresholdStatement
      <4> QED
        BY <3>1, <3>3, <4>1, <4>2
    <3>5. CASE ~Storage!Ignored(evictionSoft[fs])
      <4>1. vs[Len(vs)] = evictionSoft[fs]
        BY <3>2, <3>5 DEF Storage!ParseThresholdStatement
      <4> QED
        BY <3>1, <3>3, <3>5, <4>1, Zenon
    <3> QED
      BY <3>4, <3>5, Zenon
  <2> QED
    BY <1>1, <1>3, <2>1, Zenon DEF Storage!LastThreshold
<1> QED
  BY <1>2, <1>3, Zenon

\* What is sold after the root file system (getNodeStorageCommoditiesSold).
LEMMA FirstIsSold ==
  ASSUME StorageInv
  PROVE  /\ size["rootfs"] = 0 => Storage!FirstSold = Storage!NothingSold
         /\ size["rootfs"] # 0 =>
              /\ Storage!FirstSold.placeable =
                   (IF Storage!Settable("rootfs") THEN Storage!AboveThreshold("rootfs") ELSE TRUE)
              /\ Storage!FirstSold.sold =
                   Storage!Sell(Storage!NothingSold.sold, "rootfs",
                                IF Storage!Settable("rootfs") THEN 100 - threshold["rootfs"] ELSE Storage!Unset)
<1>1. Storage!FirstSold = Storage!SellStorage(Storage!NothingSold, "rootfs")
  BY Zenon DEF Storage!FirstSold, Storage!Rootfs, Storage!Partitions
<1>2. "rootfs" # "imagefs"
  BY Zenon
<1>3. CASE size["rootfs"] = 0
  BY <1>1, <1>3, Zenon DEF Storage!SellStorage
<1>4. CASE size["rootfs"] # 0
  BY <1>1, <1>2, <1>4, Zenon DEF Storage!SellStorage, Storage!NothingSold, Storage!Imagefs
<1> QED
  BY <1>3, <1>4, Zenon

\* The image file system has the last word, and a partition reported twice is
\* sold once.
LEMMA BothAreSold ==
  ASSUME StorageInv
  PROVE  /\ size["imagefs"] = 0 => Storage!GetNodeStorageCommoditiesSold = Storage!FirstSold
         /\ size["imagefs"] # 0 =>
              /\ Storage!GetNodeStorageCommoditiesSold.placeable =
                   (IF Storage!Settable("imagefs") THEN Storage!AboveThreshold("imagefs") ELSE Storage!FirstSold.placeable)
              /\ (/\ "rootfs" \in DOMAIN Storage!FirstSold.sold /\ Storage!Settable("rootfs")
                  /\ size["rootfs"] = size["imagefs"] /\ available["rootfs"] = available["imagefs"])
                 => Storage!GetNodeStorageCommoditiesSold.sold =
                      IF threshold["imagefs"] > threshold["rootfs"]
                      THEN Storage!Sell(Storage!FirstSold.sold, "rootfs", 100 - threshold["imagefs"])
                      ELSE Storage!FirstSold.sold
<1>1. Storage!GetNodeStorageCommoditiesSold = Storage!SellStorage(Storage!FirstSold, "imagefs")
  BY Zenon DEF Storage!GetNodeStorageCommoditiesSold, Storage!Imagefs, Storage!Partitions
<1>2. PICK first : first = Storage!FirstSold
  BY Zenon
<1>3. CASE size["imagefs"] = 0
  BY <1>1, <1>3, Zenon DEF Storage!SellStorage
<1>4. CASE size["imagefs"] # 0
  BY <1>1, <1>2, <1>4, Zenon DEF Storage!SellStorage, Storage!Stricter, Storage!Rootfs, Storage!Imagefs
<1> QED
  BY <1>3, <1>4, Zenon

\* What ThresholdsCount asks of the commodities sold and of the verdict.
Counted(sold, offered) ==
  /\ Storage!Pressure("imagefs") => ~offered
  /\ (Storage!Pressure("rootfs") /\ offered) =>
        IF Storage!InRange(Storage!LastThreshold("imagefs"))
        THEN size["imagefs"] > 0 /\ Storage!AboveThreshold("imagefs")
        ELSE available["rootfs"] * 100 > 15 * size["rootfs"]
  /\ (/\ size["rootfs"] > 0 /\ size["rootfs"] = size["imagefs"] /\ available["rootfs"] = available["imagefs"]
      /\ \A fs \in Storage!FileSystems : Storage!InRange(Storage!LastThreshold(fs)))
     => /\ DOMAIN sold = {"rootfs"}
        /\ \E fs \in Storage!FileSystems :
              /\ sold["rootfs"] = 100 - Storage!LastThreshold(fs)
              /\ \A other \in Storage!FileSystems : Storage!LastThreshold(other) <= Storage!LastThreshold(fs)

\* What the builder sells keeps to the thresholds.  A threshold of 100% of the
\* image file system counts, but no file system is above it.
LEMMA BuiltCounts ==
  ASSUME StorageInv, stage = "build"
  PROVE  Counted(Storage!GetNodeStorageCommoditiesSold.sold, Storage!GetNodeStorageCommoditiesSold.placeable)
<1>1. PICK tr, ti : tr = Storage!LastThreshold("rootfs") /\ ti = Storage!LastThreshold("imagefs")
  BY Zenon
<1>2. tr \in Int /\ ti \in Int
  BY <1>1, LastThresholdInt, Zenon DEF Storage!FileSystems, Storage!Rootfs, Storage!Imagefs
<1>3. /\ size["rootfs"] \in Nat /\ available["rootfs"] \in Int /\ available["rootfs"] <= size["rootfs"]
      /\ size["imagefs"] \in Nat /\ available["imagefs"] \in Int /\ available["imagefs"] <= size["imagefs"]
  BY Zenon DEF StorageInv, Storage!FileSystems, Storage!Rootfs, Storage!Imagefs
<1>4. /\ threshold["imagefs"] = ti
      /\ threshold["rootfs"] = IF ~Storage!InRange(ti) THEN 15 ELSE IF ~Storage!InRange(tr) THEN 10 ELSE tr
  BY <1>1, Zenon DEF StorageInv, Storage!ParseThresholdValues, Storage!FileSystems, Storage!Rootfs, Storage!Imagefs
<1>5. PICK g : g = Storage!GetNodeStorageCommoditiesSold
  BY Zenon
<1>6. PICK first : first = Storage!FirstSold
  BY Zenon
<1>7. Storage!Pressure("imagefs") => ~g.placeable
  <2> SUFFICES ASSUME Storage!Pressure("imagefs") PROVE ~g.placeable
    BY Zenon
  <2>1. Storage!Settable("imagefs") /\ ~Storage!AboveThreshold("imagefs") /\ size["imagefs"] # 0
    BY <1>1, <1>2, <1>3, <1>4 DEF Storage!Pressure, Storage!InRange, Storage!Settable, Storage!AboveThreshold
  <2> QED
    BY <1>5, <2>1, BothAreSold, Zenon
<1>8. ASSUME Storage!Pressure("rootfs"), g.placeable
      PROVE  IF Storage!InRange(ti)
             THEN size["imagefs"] > 0 /\ Storage!AboveThreshold("imagefs")
             ELSE available["rootfs"] * 100 > 15 * size["rootfs"]
  <2>1. size["rootfs"] # 0
    BY <1>8, <1>3 DEF Storage!Pressure
  <2>2. first.placeable = (IF Storage!Settable("rootfs") THEN Storage!AboveThreshold("rootfs") ELSE TRUE)
    BY <1>6, <2>1, FirstIsSold, Zenon
  <2>3. CASE Storage!InRange(ti)
    <3>1. Storage!Settable("imagefs") /\ Storage!Settable("rootfs") /\ ~Storage!AboveThreshold("rootfs")
      BY <1>1, <1>2, <1>3, <1>4, <1>8, <2>3 DEF Storage!Pressure, Storage!InRange, Storage!Settable, Storage!AboveThreshold
    <3>2. ~first.placeable
      BY <2>2, <3>1, Zenon
    <3>3. size["imagefs"] # 0
      BY <1>5, <1>6, <1>8, <3>2, BothAreSold, Zenon
    <3>4. Storage!AboveThreshold("imagefs")
      BY <1>5, <1>8, <3>1, <3>3, BothAreSold, Zenon
    <3> QED
      BY <1>3, <2>3, <3>3, <3>4
  <2>4. CASE ~Storage!InRange(ti)
    <3>1. Storage!Settable("rootfs") /\ (Storage!AboveThreshold("rootfs") => available["rootfs"] * 100 > 15 * size["rootfs"])
      BY <1>4, <2>4 DEF Storage!Settable, Storage!AboveThreshold
    <3>2. Storage!Settable("imagefs") => ~Storage!AboveThreshold("imagefs")
      BY <1>2, <1>3, <1>4, <2>4 DEF Storage!InRange, Storage!Settable, Storage!AboveThreshold
    <3>3. first.placeable
      BY <1>5, <1>6, <1>8, <3>2, BothAreSold, Zenon
    <3> QED
      BY <2>2, <2>4, <3>1, <3>3, Zenon
  <2> QED
    BY <2>3, <2>4, Zenon
<1>9. ASSUME size["rootfs"] > 0, size["rootfs"] = size["imagefs"], available["rootfs"] = available["imagefs"],
             Storage!InRange(tr), Storage!InRange(ti)
      PROVE  /\ DOMAIN g.sold = {"rootfs"}
             /\ g.sold["rootfs"] = 100 - (IF ti > tr THEN ti ELSE tr)
  <2>1. size["rootfs"] # 0 /\ size["imagefs"] # 0
    BY <1>3, <1>9
  <2>2. Storage!Settable("rootfs") /\ threshold["rootfs"] = tr
    BY <1>2, <1>4, <1>9 DEF Storage!InRange, Storage!Settable
  <2>3. first.sold = [x \in {"rootfs"} |-> 100 - tr]
    BY <1>6, <2>1, <2>2, FirstIsSold, Zenon DEF Storage!NothingSold, Storage!Sell
  <2>4. g.sold = IF ti > tr THEN Storage!Sell(first.sold, "rootfs", 100 - ti) ELSE first.sold
    <3>1. "rootfs" \in DOMAIN first.sold
      BY <2>3, Zenon
    <3> QED
      BY <1>4, <1>5, <1>6, <1>9, <2>1, <2>2, <3>1, BothAreSold, Zenon
  <2> QED
    BY <2>3, <2>4, Zenon DEF Storage!Sell
<1>10. ASSUME size["rootfs"] > 0, size["rootfs"] = size["imagefs"], available["rootfs"] = available["imagefs"],
              \A fs \in Storage!FileSystems : Storage!InRange(Storage!LastThreshold(fs))
       PROVE  \E fs \in Storage!FileSystems :
                 /\ g.sold["rootfs"] = 100 - Storage!LastThreshold(fs)
                 /\ \A other \in Storage!FileSystems : Storage!LastThreshold(other) <= Storage!LastThreshold(fs)
  <2>1. Storage!InRange(tr) /\ Storage!InRange(ti)
    BY <1>1, <1>10, Zenon DEF Storage!FileSystems, Storage!Rootfs, Storage!Imagefs
  <2>2. CASE ti > tr
    BY <1>1, <1>2, <1>9, <1>10, <2>1, <2>2 DEF Storage!FileSystems, Storage!Rootfs, Storage!Imagefs
  <2>3. CASE ~(ti > tr)
    BY <1>1, <1>2, <1>9, <1>10, <2>1, <2>3 DEF Storage!FileSystems, Storage!Rootfs, Storage!Imagefs
  <2> QED
    BY <2>2, <2>3, Zenon
<1>11. (\A fs \in Storage!FileSystems : Storage!InRange(Storage!LastThreshold(fs)))
          => Storage!InRange(tr) /\ Storage!InRange(ti)
  BY <1>1, Zenon DEF Storage!FileSystems, Storage!Rootfs, Storage!Imagefs
<1> QED
  BY <1>1, <1>5, <1>7, <1>8, <1>9, <1>10, <1>11, Zenon DEF Counted

\* That depends only on the configuration, the sizes and the thresholds read.
LEMMA CountedUnmoved ==
  ASSUME NEW sold, NEW offered, Counted(sold, offered),
         UNCHANGED <<evictionHard, evictionSoft, graceless, size, available, threshold>>
  PROVE  Counted(sold, offered)'
<1>1. \A fs \in Storage!FileSystems : Storage!LastThreshold(fs)' = Storage!LastThreshold(fs)
  BY ThresholdsUnmoved, Zenon
<1>2. /\ Storage!LastThreshold("rootfs")' = Storage!LastThreshold("rootfs")
      /\ Storage!LastThreshold("imagefs")' = Storage!LastThreshold("imagefs")
  BY <1>1, Zenon DEF Storage!FileSystems, Storage!Rootfs, Storage!Imagefs
<1>3. /\ Storage!AboveThreshold("imagefs")' = Storage!AboveThreshold("imagefs")
      /\ Storage!InRange(Storage!LastThreshold("imagefs"))' = Storage!InRange(Storage!LastThreshold("imagefs"))
  BY <1>2, Zenon DEF Storage!AboveThreshold, Storage!InRange
<1>4. Storage!Pressure("rootfs")' = Storage!Pressure("rootfs")
  BY <1>2, Zenon DEF Storage!Pressure, Storage!InRange
<1>5. Storage!Pressure("imagefs")' = Storage!Pressure("imagefs")
  BY <1>2, Zenon DEF Storage!Pressure, Storage!InRange
<1>6. ASSUME NEW fs \in Storage!FileSystems
      PROVE  Storage!InRange(Storage!LastThreshold(fs))' = Storage!InRange(Storage!LastThreshold(fs))
  BY <1>1, Zenon DEF Storage!InRange
<1> QED
  BY <1>1, <1>3, <1>4, <1>5, <1>6, Zenon DEF Counted

\* Every step keeps the invariant.
LEMMA StorageInvStep ==
  ASSUME StorageInv, [Storage!Next]_(Storage!vars)
  PROVE  StorageInv'
<1>1. CASE Storage!Scrape
  BY <1>1, ThresholdsUnmoved, Zenon DEF Storage!Scrape, StorageInv, Storage!ThresholdsCount
<1>2. CASE Storage!Build
  <2>1. PICK sold, offered : /\ sold = Storage!GetNodeStorageCommoditiesSold.sold
                             /\ offered = Storage!GetNodeStorageCommoditiesSold.placeable
    BY Zenon
  <2>2. Counted(sold, offered)
    BY <1>2, <2>1, BuiltCounts, Zenon DEF Storage!Build
  <2>3. Counted(sold, offered)'
    BY <1>2, <2>2, CountedUnmoved, Zenon DEF Storage!Build
  <2>4. Counted(storageSold, placeable)'
    BY <1>2, <2>1, <2>3, Zenon DEF Storage!Build, Counted
  <2>5. Storage!ThresholdsCount'
    BY <2>4, Zenon DEF Counted, Storage!ThresholdsCount, Storage!Rootfs, Storage!Imagefs
  <2> QED
    BY <1>2, <2>5, ThresholdsUnmoved, Zenon DEF Storage!Build, StorageInv
<1>3. CASE UNCHANGED Storage!vars
  <2>1. PICK sold, offered : sold = storageSold /\ offered = placeable
    BY Zenon
  <2>2. ASSUME stage = "built"
        PROVE  Counted(storageSold, placeable)'
    <3>1. Counted(sold, offered)
      BY <2>1, <2>2, Zenon DEF StorageInv, Storage!ThresholdsCount, Counted, Storage!Rootfs, Storage!Imagefs
    <3>2. Counted(sold, offered)'
      BY <1>3, <3>1, CountedUnmoved, Zenon DEF Storage!vars
    <3> QED
      BY <1>3, <2>1, <3>2, Zenon DEF Storage!vars, Counted
  <2>3. Storage!ThresholdsCount'
    BY <1>3, <2>2, Zenon DEF Counted, Storage!ThresholdsCount, Storage!Rootfs, Storage!Imagefs, Storage!vars
  <2> QED
    BY <1>3, <2>3, ThresholdsUnmoved, Zenon DEF Storage!vars, StorageInv
<1> QED
  BY <1>1, <1>2, <1>3, Zenon DEF Storage!Next, Storage!Rest

\* For any configuration, sizes and usage: a node below the threshold of its
\* image file system is not offered for placement, one below that of its root
\* file system only in the two cases the code excepts, and two thresholds on one
\* partition are sold as the stricter one (parseThresholdValues,
\* getNodeStorageCommoditiesSold).
THEOREM ThresholdsAreCounted == Storage!Spec => []ThresholdsCount
<1>1. StorageInv => ThresholdsCount
  BY Zenon DEF StorageInv, ThresholdsCount
<1> QED
  BY <1>1, StorageInvInit, StorageInvStep, PTL DEF Storage!Spec

-----------------------------------------------------------------------------
(* The summary of the cluster.                                             *)

\* The entries of the lists.
Quotas == [hard : Nat, terminating : BOOLEAN]
StaticPods == [prefix : PodPrefixes, node : SummaryNodes]

\* The list rest is the list all from place n on.
From(rest, all, n) ==
  /\ n \in 1 .. Len(all) + 1
  /\ Len(rest) = Len(all) + 1 - n
  /\ \A i \in 1 .. Len(rest) : rest[i] = all[n + i - 1]

\* Nothing is done yet.
LEMMA FromStart ==
  ASSUME NEW S, NEW all \in Seq(S)
  PROVE  From(all, all, 1)
BY DEF From

\* All is done.
LEMMA FromEnd ==
  ASSUME NEW S, NEW all \in Seq(S), NEW n, From(<<>>, all, n), NEW i \in DOMAIN all
  PROVE  i < n
<1>1. n = Len(all) + 1 /\ Len(all) \in Nat
  BY DEF From
<1> QED
  BY <1>1

\* One more is done.
LEMMA FromNext ==
  ASSUME NEW S, NEW all \in Seq(S), NEW rest \in Seq(S), NEW n, From(rest, all, n), rest # <<>>
  PROVE  /\ n \in DOMAIN all /\ Head(rest) = all[n] /\ From(Tail(rest), all, n + 1)
<1>1. Len(all) \in Nat /\ n \in 1 .. Len(all) + 1 /\ Len(rest) \in Nat \ {0}
  BY DEF From
<1>2. n \in DOMAIN all /\ n + 1 \in 1 .. Len(all) + 1
  BY <1>1 DEF From
<1>3. Head(rest) = rest[1] /\ rest[1] = all[n + 1 - 1]
  BY <1>1 DEF From
<1>4. Len(Tail(rest)) = Len(rest) - 1 /\ \A i \in 1 .. Len(rest) - 1 : Tail(rest)[i] = rest[i + 1]
  BY <1>1
<1>5. \A i \in 1 .. Len(rest) - 1 : rest[i + 1] = all[n + (i + 1) - 1]
  BY <1>1 DEF From
<1>6. \A i \in 1 .. Len(rest) - 1 : n + (i + 1) - 1 = (n + 1) + i - 1
  BY <1>1
<1>7. Len(Tail(rest)) = Len(all) + 1 - (n + 1)
  BY <1>1, <1>4 DEF From
<1>8. n + 1 - 1 = n
  BY <1>1
<1> QED
  BY <1>2, <1>3, <1>4, <1>5, <1>6, <1>7, <1>8, Zenon DEF From

\* The limits of the quotas before place n of the list that apply.
Seen(n) == {given[i].hard : i \in {j \in DOMAIN given : j < n /\ ~given[j].terminating}}

\* Place n of the list is the next quota, and the capacity is the smallest
\* limit before it.
QuotaInv ==
  /\ given \in Seq(Quotas) /\ quotas \in Seq(Quotas)
  /\ \E n :
        /\ From(quotas, given, n)
        /\ 0 \notin Summary!Applicable =>
             /\ capacity \in Seen(n) \cup {NoLimit}
             /\ \A limit \in Seen(n) \cup {NoLimit} : capacity <= limit

\* Whether the pods of a prefix cover a node pool.
Covers(prefix) == \E pool \in pools : pool \subseteq Summary!NodeNames(staticPods, prefix)

\* A prefix is either to be looked at, with its nodes, or was, with its flag;
\* and the pods before place n have the flag of their prefix.
PrefixInv ==
  /\ DOMAIN nodeNames \cup DOMAIN daemonPrefix = Summary!Prefixes(staticPods)
  /\ \A prefix \in DOMAIN nodeNames : nodeNames[prefix] = Summary!NodeNames(staticPods, prefix)
  /\ \A prefix \in DOMAIN daemonPrefix : daemonPrefix[prefix] = Covers(prefix)

MirrorInv ==
  /\ staticPods \in Seq(StaticPods) /\ mirrorPods \in Seq(StaticPods)
  /\ PrefixInv
  /\ \E n :
        /\ From(mirrorPods, staticPods, n)
        /\ \A i \in DOMAIN staticPods : i < n => /\ staticPods[i] \in DOMAIN daemon
                                                 /\ daemon[staticPods[i]] = Covers(staticPods[i].prefix)

\* The inductive invariant of the summary.
SummaryInv == QuotaInv /\ MirrorInv

\* It holds of the quotas before the first is reconciled.
LEMMA QuotaInvInit ==
  ASSUME Summary!Init
  PROVE  QuotaInv
<1>1. given \in Seq(Quotas) /\ quotas = given /\ capacity = NoLimit
  BY SummaryAssumption, Zenon DEF Summary!Init, Quotas, StaticPods
<1>2. From(quotas, given, 1)
  BY <1>1, FromStart, Zenon
<1>3. \A j \in DOMAIN given : ~(j < 1)
  BY <1>1
<1>4. Seen(1) = {}
  BY <1>3, Zenon DEF Seen
<1>6. NoLimit <= NoLimit
  BY SummaryAssumption
<1>7. \A limit \in Seen(1) \cup {NoLimit} : capacity <= limit
  BY <1>1, <1>4, <1>6, Zenon
<1> QED
  BY <1>1, <1>2, <1>4, <1>7, Zenon DEF QuotaInv

\* It holds of the mirror pods before the first is looked at.
LEMMA MirrorInvInit ==
  ASSUME Summary!Init
  PROVE  MirrorInv
<1>1. staticPods \in Seq(StaticPods) /\ mirrorPods = staticPods
  BY SummaryAssumption, Zenon DEF Summary!Init, Quotas, StaticPods
<1>2. From(mirrorPods, staticPods, 1)
  BY <1>1, FromStart, Zenon
<1>3. \A j \in DOMAIN staticPods : ~(j < 1)
  BY <1>1
<1>5. PrefixInv
  <2>1. DOMAIN daemonPrefix = {}
    BY Zenon DEF Summary!Init, Summary!Empty
  <2> QED
    BY <2>1, Zenon DEF Summary!Init, PrefixInv
<1> QED
  BY <1>1, <1>2, <1>3, <1>5, Zenon DEF MirrorInv

\* After the last quota the capacity is the most restrictive limit.
LEMMA QuotasDone ==
  ASSUME QuotaInv, quotas = <<>>, 0 \notin Summary!Applicable
  PROVE  capacity \in Summary!Limits /\ \A limit \in Summary!Limits : capacity <= limit
<1>1. PICK n :
        /\ From(quotas, given, n)
        /\ capacity \in Seen(n) \cup {NoLimit}
        /\ \A limit \in Seen(n) \cup {NoLimit} : capacity <= limit
  BY Zenon DEF QuotaInv
<1>2. given \in Seq(Quotas)
  BY Zenon DEF QuotaInv
<1>4. \A j \in DOMAIN given : j < n
  BY <1>1, <1>2, FromEnd, Zenon
<1>5. Seen(n) = Summary!Applicable
  BY <1>4, Zenon DEF Seen, Summary!Applicable
<1> QED
  BY <1>1, <1>5, Zenon DEF Summary!Limits

\* After the last mirror pod every one has the flag of its prefix.
LEMMA MirrorsDone ==
  ASSUME MirrorInv, mirrorPods = <<>>
  PROVE  \A i \in DOMAIN staticPods : daemon[staticPods[i]] <=> Covers(staticPods[i].prefix)
<1>1. PICK n :
        /\ From(mirrorPods, staticPods, n)
        /\ \A i \in DOMAIN staticPods : i < n => daemon[staticPods[i]] = Covers(staticPods[i].prefix)
  BY Zenon DEF MirrorInv
<1>2. staticPods \in Seq(StaticPods)
  BY Zenon DEF MirrorInv
<1>4. \A j \in DOMAIN staticPods : j < n
  BY <1>1, <1>2, FromEnd, Zenon
<1> QED
  BY <1>1, <1>4, Zenon

\* The next quota adds its limit, unless it is for terminating pods.
LEMMA SeenNext ==
  ASSUME given \in Seq(Quotas), NEW n \in DOMAIN given
  PROVE  Seen(n + 1) = Seen(n) \cup (IF given[n].terminating THEN {} ELSE {given[n].hard})
<1>1. \A j \in DOMAIN given : j < n + 1 <=> (j < n \/ j = n)
  OBVIOUS
<1> QED
  BY <1>1, Zenon DEF Seen

\* Without a zero limit no limit counts as unset.
LEMMA SeenPositive ==
  ASSUME given \in Seq(Quotas), 0 \notin Summary!Applicable, NEW n
  PROVE  Seen(n) \subseteq Nat \ {0}
<1>1. Seen(n) \subseteq Summary!Applicable
  BY Zenon DEF Seen, Summary!Applicable
<1>2. \A j \in DOMAIN given : given[j].hard \in Nat
  <2>1. \A j \in DOMAIN given : given[j] \in Quotas
    OBVIOUS
  <2> QED
    BY <2>1, Zenon DEF Quotas
<1>3. Summary!Applicable \subseteq Nat
  BY <1>2, Zenon DEF Summary!Applicable
<1> QED
  BY <1>1, <1>3, Zenon

\* A quota keeps the invariant (ReconcileQuotas).
LEMMA QuotaStep ==
  ASSUME QuotaInv, Summary!ReconcileQuotas
  PROVE  QuotaInv'
<1>1. PICK n :
        /\ From(quotas, given, n)
        /\ 0 \notin Summary!Applicable =>
             /\ capacity \in Seen(n) \cup {NoLimit}
             /\ \A limit \in Seen(n) \cup {NoLimit} : capacity <= limit
  BY Zenon DEF QuotaInv
<1>2. given \in Seq(Quotas) /\ quotas \in Seq(Quotas) /\ quotas # <<>>
  BY Zenon DEF QuotaInv, Summary!ReconcileQuotas
<1>3. n \in DOMAIN given /\ Head(quotas) = given[n] /\ From(Tail(quotas), given, n + 1)
  BY <1>1, <1>2, FromNext, Zenon
<1>4. given' = given /\ quotas' = Tail(quotas) /\ capacity' = Summary!ReconcileQuota(capacity, given[n])
  BY <1>3, Zenon DEF Summary!ReconcileQuotas
<1>5. Tail(quotas) \in Seq(Quotas)
  BY <1>2
<1>6. Summary!Applicable' = Summary!Applicable /\ Seen(n + 1)' = Seen(n + 1)
  BY <1>4, Zenon DEF Summary!Applicable, Seen
<1>7. ASSUME 0 \notin Summary!Applicable
      PROVE  /\ capacity' \in Seen(n + 1) \cup {NoLimit}
             /\ \A limit \in Seen(n + 1) \cup {NoLimit} : capacity' <= limit
  <2>1. Seen(n) \cup {NoLimit} \subseteq Nat \ {0}
    BY <1>2, <1>7, SeenPositive, SummaryAssumption, Zenon
  <2>2. capacity \in Nat \ {0} /\ capacity \in Seen(n) \cup {NoLimit}
    BY <1>1, <1>7, <2>1, Zenon
  <2>3. CASE given[n].terminating
    BY <1>1, <1>2, <1>3, <1>4, <1>7, <2>3, SeenNext, Zenon DEF Summary!ReconcileQuota
  <2>4. CASE ~given[n].terminating
    <3>1. PICK hard : hard = given[n].hard
      BY Zenon
    <3>2. Seen(n + 1) = Seen(n) \cup {hard}
      BY <1>2, <1>3, <2>4, <3>1, SeenNext, Zenon
    <3>3. hard \in Nat
      <4>1. given[n] \in Quotas
        BY <1>2, <1>3
      <4> QED
        BY <3>1, <4>1, Zenon DEF Quotas
    <3>4. capacity' = IF hard < capacity THEN hard ELSE capacity
      BY <1>4, <2>2, <2>4, <3>1, Zenon DEF Summary!ReconcileQuota
    <3>5. \A limit \in Seen(n) \cup {NoLimit} : capacity' <= limit
      <4> SUFFICES ASSUME NEW limit \in Seen(n) \cup {NoLimit} PROVE capacity' <= limit
        BY Zenon
      <4>1. capacity <= limit /\ limit \in Nat
        BY <1>1, <1>7, <2>1, Zenon
      <4> QED
        BY <2>2, <3>3, <3>4, <4>1
    <3>6. capacity' <= hard
      BY <2>2, <3>3, <3>4
    <3>7. capacity' \in Seen(n + 1) \cup {NoLimit}
      BY <2>2, <3>2, <3>4, Zenon
    <3> QED
      BY <3>2, <3>5, <3>6, <3>7, Zenon
  <2> QED
    BY <2>3, <2>4, Zenon
<1>8. From(Tail(quotas), given, n + 1) /\ (From(quotas, given, n + 1)' <=> From(Tail(quotas), given, n + 1))
  BY <1>3, <1>4, Zenon DEF From
<1>9. PICK m : m = n + 1
  BY Zenon
<1> QED
  BY <1>2, <1>4, <1>5, <1>6, <1>7, <1>8, <1>9, Zenon DEF QuotaInv

\* Pools and static pods are rigid.
LEMMA CoversUnmoved ==
  ASSUME UNCHANGED <<staticPods, pools>>
  PROVE  /\ \A prefix : Covers(prefix)' = Covers(prefix)
         /\ \A prefix : Summary!NodeNames(staticPods, prefix)' = Summary!NodeNames(staticPods, prefix)
<1>1. ASSUME NEW prefix
      PROVE  Summary!NodeNames(staticPods, prefix)' = Summary!NodeNames(staticPods, prefix)
  BY Zenon DEF Summary!NodeNames
<1>2. ASSUME NEW prefix
      PROVE  Covers(prefix)' = Covers(prefix)
  BY <1>1, Zenon DEF Covers
<1> QED
  BY <1>1, <1>2, Zenon

\* A mirror pod keeps the invariant (computeMirrorPodToDaemonMap).
LEMMA MirrorStep ==
  ASSUME MirrorInv, Summary!ComputeMirrorPodToDaemonMap
  PROVE  MirrorInv'
<1>1. PICK n :
        /\ From(mirrorPods, staticPods, n)
        /\ \A i \in DOMAIN staticPods : i < n => /\ staticPods[i] \in DOMAIN daemon
                                                 /\ daemon[staticPods[i]] = Covers(staticPods[i].prefix)
  BY Zenon DEF MirrorInv
<1>2. staticPods \in Seq(StaticPods) /\ mirrorPods \in Seq(StaticPods) /\ mirrorPods # <<>> /\ PrefixInv
  BY Zenon DEF MirrorInv, Summary!ComputeMirrorPodToDaemonMap
<1>3. n \in DOMAIN staticPods /\ Head(mirrorPods) = staticPods[n] /\ From(Tail(mirrorPods), staticPods, n + 1)
  BY <1>1, <1>2, FromNext, Zenon
<1>4. UNCHANGED <<staticPods, pools>> /\ mirrorPods' = Tail(mirrorPods)
  BY Zenon DEF Summary!ComputeMirrorPodToDaemonMap
<1>5. Tail(mirrorPods) \in Seq(StaticPods)
  BY <1>2
<1>6. PICK pod : pod = staticPods[n]
  BY Zenon
<1>7. Summary!MarkMirrorPod(pod)
  BY <1>3, <1>6, Zenon DEF Summary!ComputeMirrorPodToDaemonMap
<1>8. pod.prefix \in Summary!Prefixes(staticPods)
  BY <1>3, <1>6, Zenon DEF Summary!Prefixes
<1>9. PrefixInv' /\ daemon' = Summary!Put(daemon, pod, Covers(pod.prefix))
  <2>1. CASE pod.prefix \in DOMAIN daemonPrefix
    <3>1. daemon' = Summary!Put(daemon, pod, daemonPrefix[pod.prefix]) /\ UNCHANGED <<nodeNames, daemonPrefix>>
      BY <1>7, <2>1, Zenon DEF Summary!MarkMirrorPod
    <3>2. daemonPrefix[pod.prefix] = Covers(pod.prefix)
      BY <1>2, <2>1, Zenon DEF PrefixInv
    <3> QED
      BY <1>2, <1>4, <3>1, <3>2, CoversUnmoved, Zenon DEF PrefixInv
  <2>2. CASE pod.prefix \notin DOMAIN daemonPrefix
    <3>1. pod.prefix \in DOMAIN nodeNames /\ nodeNames[pod.prefix] = Summary!NodeNames(staticPods, pod.prefix)
      BY <1>2, <1>8, <2>2, Zenon DEF PrefixInv
    <3>2. Summary!InEveryNodeOfAPool(pod.prefix) = Covers(pod.prefix)
      BY <3>1, Zenon DEF Summary!InEveryNodeOfAPool, Covers
    <3>3. /\ daemon' = Summary!Put(daemon, pod, Covers(pod.prefix))
          /\ daemonPrefix' = Summary!Put(daemonPrefix, pod.prefix, Covers(pod.prefix))
          /\ nodeNames' = Summary!Delete(nodeNames, pod.prefix)
      BY <1>7, <2>2, <3>2, Zenon DEF Summary!MarkMirrorPod
    <3>4. DOMAIN daemonPrefix' = DOMAIN daemonPrefix \cup {pod.prefix} /\ DOMAIN nodeNames' = DOMAIN nodeNames \ {pod.prefix}
      BY <3>3, Zenon DEF Summary!Put, Summary!Delete
    <3>5. DOMAIN nodeNames' \cup DOMAIN daemonPrefix' = Summary!Prefixes(staticPods)
      BY <1>2, <1>8, <3>4, Zenon DEF PrefixInv
    <3>6. \A prefix \in DOMAIN nodeNames' : nodeNames'[prefix] = Summary!NodeNames(staticPods, prefix)
      BY <1>2, <3>3, <3>4, Zenon DEF PrefixInv, Summary!Delete
    <3>7. \A prefix \in DOMAIN daemonPrefix' : daemonPrefix'[prefix] = Covers(prefix)
      BY <1>2, <3>3, <3>4, Zenon DEF PrefixInv, Summary!Put
    <3>8. Summary!Prefixes(staticPods)' = Summary!Prefixes(staticPods)
      BY <1>4, Zenon DEF Summary!Prefixes
    <3> QED
      BY <1>4, <3>3, <3>5, <3>6, <3>7, <3>8, CoversUnmoved, Zenon DEF PrefixInv
  <2> QED
    BY <2>1, <2>2, Zenon
<1>10. ASSUME NEW i \in DOMAIN staticPods, i < n + 1
       PROVE  staticPods[i] \in DOMAIN daemon' /\ daemon'[staticPods[i]] = Covers(staticPods[i].prefix)
  <2>1. CASE staticPods[i] = pod
    BY <1>9, <2>1, Zenon DEF Summary!Put
  <2>2. CASE staticPods[i] # pod
    <3>1. i < n
      BY <1>2, <1>3, <1>6, <1>10, <2>2
    <3> QED
      BY <1>1, <1>9, <2>2, <3>1, Zenon DEF Summary!Put
  <2> QED
    BY <2>1, <2>2, Zenon
<1>11. PICK m : m = n + 1
  BY Zenon
<1>12. From(mirrorPods, staticPods, m)'
  BY <1>3, <1>4, <1>11, Zenon DEF From
<1> QED
  BY <1>2, <1>4, <1>5, <1>9, <1>10, <1>11, <1>12, CoversUnmoved, Zenon DEF MirrorInv

\* Every step keeps the invariant.
LEMMA SummaryInvStep ==
  ASSUME SummaryInv, [Summary!Next]_(Summary!summaryVars)
  PROVE  SummaryInv'
<1>1. ASSUME UNCHANGED <<quotas, given, capacity>>
      PROVE  QuotaInv'
  <2>1. Summary!Applicable' = Summary!Applicable /\ \A n : Seen(n)' = Seen(n) /\ From(quotas, given, n)' = From(quotas, given, n)
    BY <1>1, Zenon DEF Summary!Applicable, Seen, From
  <2> QED
    BY <1>1, <2>1, Zenon DEF SummaryInv, QuotaInv
<1>2. ASSUME UNCHANGED <<pools, mirrorPods, staticPods, nodeNames, daemonPrefix, daemon>>
      PROVE  MirrorInv'
  <2>1. /\ Summary!Prefixes(staticPods)' = Summary!Prefixes(staticPods)
        /\ \A n : From(mirrorPods, staticPods, n)' = From(mirrorPods, staticPods, n)
    BY <1>2, Zenon DEF Summary!Prefixes, From
  <2>2. PrefixInv'
    BY <1>2, <2>1, CoversUnmoved, Zenon DEF SummaryInv, MirrorInv, PrefixInv
  <2> QED
    BY <1>2, <2>1, <2>2, CoversUnmoved, Zenon DEF SummaryInv, MirrorInv
<1>3. CASE Summary!ReconcileQuotas
  BY <1>2, <1>3, QuotaStep, Zenon DEF SummaryInv, Summary!ReconcileQuotas
<1>4. CASE Summary!ComputeMirrorPodToDaemonMap
  BY <1>1, <1>4, MirrorStep, Zenon DEF SummaryInv, Summary!ComputeMirrorPodToDaemonMap
<1>5. CASE UNCHANGED Summary!summaryVars
  BY <1>1, <1>2, <1>5, Zenon DEF SummaryInv, Summary!summaryVars
<1> QED
  BY <1>3, <1>4, <1>5, Zenon DEF Summary!Next, Summary!Rest

\* For lists of any length in any order: without a zero limit the capacity is
\* the most restrictive limit, and a mirror pod is a daemon exactly if the pods
\* of its prefix cover a node pool (ReconcileQuotas, computeMirrorPodToDaemonMap).
THEOREM OrderDecidesNothing == Summary!Spec => []SummaryIgnoresOrder
<1>1. Summary!Init => SummaryInv
  BY QuotaInvInit, MirrorInvInit, Zenon DEF SummaryInv
<1>2. SummaryInv => SummaryIgnoresOrder
  BY QuotasDone, MirrorsDone, Zenon DEF SummaryInv, SummaryIgnoresOrder, Summary!SummaryIgnoresOrder, Covers
<1> QED
  BY <1>1, <1>2, SummaryInvStep, PTL DEF Summary!Spec
=============================================================================
