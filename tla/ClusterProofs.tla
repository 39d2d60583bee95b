--------------------------- MODULE ClusterProofs ----------------------------
(***************************************************************************)
(* What holds, for any cluster, of the cache of the pods' controllers and  *)
(* of the commodities that steer placement: those of taints and those of   *)
(* affinity rules.                                                         *)
(***************************************************************************)
EXTENDS ClusterParts, WellFoundedInduction, TLAPS

-----------------------------------------------------------------------------
(* The cache of the pods' controllers                                      *)

OwnersTypes ==
  /\ clock \in Nat
  /\ ownerOf \in [OwnerSets -> Owning \cup {None}] /\ changedAt \in [OwnerSets -> Nat]
  /\ controllerCache \in [OwnedPods -> [owner : Owning \cup OwnerSets \cup {None}, expires : Nat]]
  /\ DOMAIN listedPods = {} \/ listedPods \in [OwnerSets -> Owning \cup {None}]
  /\ listedAt \in Nat \cup {None}

\* An owner that the lists of a discovery show and that is not the one of now
\* was replaced since the lists were made.
ListedInv ==
  listedAt # None =>
    /\ listedAt <= clock /\ clock - listedAt <= DiscoveryTime
    /\ \A s \in DOMAIN listedPods : listedPods[s] # ownerOf[s] => changedAt[s] >= listedAt

\* An entry lives as long as one written now, and what it says was true no
\* longer than a discovery before it was written.
EntryInv(p) ==
  /\ controllerCache[p].expires <= clock + CacheTTL
  /\ controllerCache[p].owner # None /\ controllerCache[p].owner # Owners!TrueOwner(p) =>
       changedAt[SetOf[p]] + CacheTTL + DiscoveryTime >= controllerCache[p].expires

OwnersInv == OwnersTypes /\ ListedInv /\ \A p \in Owners!Owned : EntryInv(p)

LEMMA OwnedFacts ==
  ASSUME NEW p \in Owners!Owned
  PROVE  p \in OwnedPods /\ SetOf[p] \in OwnerSets
  BY OwnersAssumption, Zenon DEF Owners!Owned

LEMMA OwnersInit == Owners!Init => OwnersInv
<1> SUFFICES ASSUME Owners!Init PROVE OwnersInv
  BY Zenon
<1>1. (CHOOSE d \in Owning : TRUE) \in Owning
  BY OwnersAssumption, Zenon
<1>2. OwnersTypes
  BY <1>1, Zenon DEF Owners!Init, Owners!NoEntry, OwnersTypes
<1>3. ListedInv
  BY Zenon DEF Owners!Init, ListedInv
<1>4. \A p \in Owners!Owned : EntryInv(p)
  BY OwnedFacts, OwnersAssumption DEF Owners!Init, Owners!NoEntry, EntryInv
<1> QED
  BY <1>2, <1>3, <1>4, Zenon DEF OwnersInv

LEMMA OwnersStep ==
  ASSUME OwnersInv, [Owners!Next]_ownerVars
  PROVE  OwnersInv'
<1> USE OwnersAssumption DEF OwnersInv
<1>1. CASE Owners!Tick
  <2>1. /\ clock' = clock + 1 /\ (listedAt # None => clock - listedAt < DiscoveryTime)
        /\ UNCHANGED <<ownerOf, changedAt, controllerCache, listedPods, listedAt>>
    BY <1>1, Zenon DEF Owners!Tick
  <2>2. OwnersTypes'
    BY <2>1 DEF OwnersTypes
  <2>3. ListedInv'
    BY <2>1 DEF OwnersTypes, ListedInv
  <2>4. ASSUME NEW p \in Owners!Owned PROVE EntryInv(p)'
    <3>1. controllerCache[p].expires \in Nat /\ EntryInv(p)
      BY OwnedFacts, Zenon DEF OwnersTypes
    <3>2. Owners!TrueOwner(p)' = Owners!TrueOwner(p)
      BY <2>1, Zenon DEF Owners!TrueOwner, Owners!Grandparent
    <3> QED
      BY <2>1, <3>1, <3>2 DEF OwnersTypes, EntryInv
  <2> QED
    BY <2>2, <2>3, <2>4, Zenon DEF Owners!Owned
<1>2. ASSUME NEW s \in OwnerSets, NEW d \in Owning \cup {None}, Owners!ChangeOwner(s, d) PROVE OwnersInv'
  <2>1. /\ ownerOf' = [ownerOf EXCEPT ![s] = d] /\ changedAt' = [changedAt EXCEPT ![s] = clock]
        /\ UNCHANGED <<clock, controllerCache, listedPods, listedAt>>
    BY <1>2, Zenon DEF Owners!ChangeOwner
  <2>2. OwnersTypes'
    BY <2>1, Zenon DEF OwnersTypes
  <2>3. ListedInv'
    BY <2>1, Zenon DEF OwnersTypes, ListedInv
  <2>4. ASSUME NEW p \in Owners!Owned PROVE EntryInv(p)'
    <3>1. p \in OwnedPods /\ SetOf[p] \in OwnerSets /\ controllerCache[p].expires \in Nat
      BY OwnedFacts, Zenon DEF OwnersTypes
    <3>2. CASE SetOf[p] = s
      BY <2>1, <3>1, <3>2 DEF OwnersTypes, EntryInv
    <3>3. CASE SetOf[p] # s
      BY <2>1, <3>1, <3>3, Zenon DEF OwnersTypes, EntryInv, Owners!TrueOwner, Owners!Grandparent
    <3> QED
      BY <3>2, <3>3, Zenon
  <2> QED
    BY <2>2, <2>3, <2>4, Zenon DEF Owners!Owned
<1>3. CASE Owners!CacheAllControllers
  <2>1. /\ listedPods' = ownerOf \/ listedPods' = [s \in {} |-> None]
        /\ listedAt' = clock /\ UNCHANGED <<clock, ownerOf, changedAt, controllerCache>>
    BY <1>3, Zenon DEF Owners!CacheAllControllers
  <2>2. OwnersTypes'
    BY <2>1, Zenon DEF OwnersTypes
  <2>3. ListedInv'
    BY <2>1 DEF OwnersTypes, ListedInv
  <2>4. ASSUME NEW p \in Owners!Owned PROVE EntryInv(p)'
    BY <2>1, Zenon DEF EntryInv, Owners!TrueOwner, Owners!Grandparent
  <2> QED
    BY <2>2, <2>3, <2>4, Zenon DEF Owners!Owned
<1>4. CASE Owners!UpdatePodControllerCache
  <2>1. /\ listedAt # None /\ listedAt' = None /\ listedPods' = [s \in {} |-> None]
        /\ UNCHANGED <<clock, ownerOf, changedAt>>
        /\ controllerCache' = [p \in OwnedPods |->
                       IF p \in Owners!Owned /\ ~Owners!Cached(p) /\ SetOf[p] \in DOMAIN listedPods
                       THEN Owners!Entry(Owners!FoundController(p)) ELSE controllerCache[p]]
    BY <1>4, Zenon DEF Owners!UpdatePodControllerCache
  <2>2. ASSUME NEW p \in Owners!Owned, ~Owners!Cached(p), SetOf[p] \in DOMAIN listedPods
        PROVE  /\ Owners!Entry(Owners!FoundController(p)) =
                    [owner |-> Owners!Grandparent(SetOf[p], listedPods), expires |-> clock + CacheTTL]
               /\ Owners!Grandparent(SetOf[p], listedPods) \in Owning \cup OwnerSets
    BY <2>2, OwnedFacts, Zenon DEF Owners!Entry, Owners!FoundController, Owners!Grandparent, OwnersTypes
  <2>3. controllerCache' \in [OwnedPods -> [owner : Owning \cup OwnerSets \cup {None}, expires : Nat]]
    <3>1. ASSUME NEW p \in OwnedPods
          PROVE  controllerCache'[p] \in [owner : Owning \cup OwnerSets \cup {None}, expires : Nat]
      BY <2>1, <2>2 DEF OwnersTypes
    <3> QED
      BY <2>1, <3>1, Zenon
  <2>4. OwnersTypes' /\ ListedInv'
    BY <2>1, <2>3, Zenon DEF OwnersTypes, ListedInv
  <2>5. ASSUME NEW p \in Owners!Owned PROVE EntryInv(p)'
    <3>1. p \in OwnedPods /\ SetOf[p] \in OwnerSets
      BY OwnedFacts, Zenon
    <3>2. CASE ~Owners!Cached(p) /\ SetOf[p] \in DOMAIN listedPods
      <4>1. controllerCache'[p] = [owner |-> Owners!Grandparent(SetOf[p], listedPods), expires |-> clock + CacheTTL]
        BY <2>1, <2>2, <3>1, <3>2, Zenon
      <4>2. Owners!Grandparent(SetOf[p], listedPods) # Owners!TrueOwner(p) => changedAt[SetOf[p]] >= listedAt
        BY <2>1, <3>2, Zenon DEF Owners!Grandparent, Owners!TrueOwner, ListedInv
      <4>3. clock <= listedAt + DiscoveryTime /\ listedAt \in Nat /\ changedAt[SetOf[p]] \in Nat /\ clock \in Nat
        BY <2>1, <3>1 DEF ListedInv, OwnersTypes
      <4>4. Owners!TrueOwner(p)' = Owners!TrueOwner(p)
        BY <2>1, Zenon DEF Owners!TrueOwner, Owners!Grandparent
      <4> QED
        BY <2>1, <4>1, <4>2, <4>3, <4>4 DEF EntryInv
    <3>3. CASE ~(~Owners!Cached(p) /\ SetOf[p] \in DOMAIN listedPods)
      BY <2>1, <3>1, <3>3, Zenon DEF EntryInv, Owners!TrueOwner, Owners!Grandparent
    <3> QED
      BY <3>2, <3>3, Zenon
  <2> QED
    BY <2>4, <2>5, Zenon DEF Owners!Owned
<1>5. ASSUME NEW q \in OwnedPods, NEW useCache \in BOOLEAN, Owners!GetPodControllerInfo(q, useCache)
      PROVE  OwnersInv'
  <2>1. /\ q \in Owners!Owned /\ UNCHANGED <<clock, ownerOf, changedAt, listedPods, listedAt>>
        /\ controllerCache' = [controllerCache EXCEPT ![q] = [owner |-> Owners!TrueOwner(q), expires |-> clock + CacheTTL]]
    BY <1>5, Zenon DEF Owners!GetPodControllerInfo, Owners!Entry
  <2>2. Owners!TrueOwner(q) \in Owning \cup OwnerSets
    BY <2>1, OwnedFacts, Zenon DEF Owners!TrueOwner, Owners!Grandparent, OwnersTypes
  <2>3. OwnersTypes' /\ ListedInv'
    BY <2>1, <2>2 DEF OwnersTypes, ListedInv
  <2>4. ASSUME NEW p \in Owners!Owned PROVE EntryInv(p)'
    <3>1. Owners!TrueOwner(p)' = Owners!TrueOwner(p)
      BY <2>1, Zenon DEF Owners!TrueOwner, Owners!Grandparent
    <3> QED
      BY <2>1, <3>1, OwnedFacts DEF EntryInv, OwnersTypes
  <2> QED
    BY <2>3, <2>4, Zenon DEF Owners!Owned
<1>6. CASE UNCHANGED ownerVars
  BY <1>6, Zenon DEF ownerVars, OwnersTypes, ListedInv, EntryInv, Owners!TrueOwner, Owners!Grandparent, Owners!Owned
<1> QED
  BY <1>1, <1>2, <1>3, <1>4, <1>5, <1>6, Zenon DEF Owners!Next

(* A cached controller that is no longer the pod's was its controller less *)
(* than the lifetime of an entry plus the length of a discovery ago, although *)
(* a discovery writes what it listed before and look-ups write in between    *)
(* (UpdatePodControllerCache, GetPodControllerInfo).                        *)
THEOREM StaleOwnersAreRecent == Owners!Spec => []StaleOwnerBounded
<1>1. OwnersInv /\ [Owners!Next]_(Owners!ccVars) => OwnersInv'
  BY OwnersStep, Zenon DEF Owners!ccVars, ownerVars
<1>2. OwnersInv => StaleOwnerBounded
  <2> SUFFICES ASSUME OwnersInv, NEW p \in Owners!Owned, Owners!Cached(p),
                      controllerCache[p].owner # Owners!TrueOwner(p)
               PROVE  clock - changedAt[SetOf[p]] < CacheTTL + DiscoveryTime
    BY Zenon DEF StaleOwnerBounded, Owners!StaleOwnerBounded
  <2> QED
    BY OwnedFacts, OwnersAssumption DEF OwnersInv, OwnersTypes, EntryInv, Owners!Cached
<1> QED
  BY OwnersInit, <1>1, <1>2, PTL DEF Owners!Spec

-----------------------------------------------------------------------------
(* Taints.                                                                 *)

\* Whatever the processor has computed is about the taints and pods there are.
TaintInv ==
  /\ runningPods \subseteq TaintPods
  /\ processed =>
       /\ \A n \in Taints!KnownNodes : taintsSold[n] = Taints!CreateTaintCommsSold(n)
       /\ \A p \in poweredOn \cap runningPods : taintsBought[p] = Taints!CreateTaintCommsBought(p)

LEMMA TaintInit == Taints!Init => TaintInv
  BY TaintAssumption, Zenon DEF Taints!Init, TaintInv

LEMMA TaintStep ==
  ASSUME TaintInv, [Taints!Next]_(Taints!vars)
  PROVE  TaintInv'
<1>1. CASE UNCHANGED Taints!vars
  BY <1>1 DEF TaintInv, Taints!vars, Taints!KnownNodes, Taints!CreateTaintCommsSold, Taints!CreateTaintCommsBought,
              Taints!GetTaintCollection, Taints!TolerationsTolerateTaint
<1>2. CASE Taints!Process
  <2>0. Taints!KnownNodes \subseteq TaintNodes
    BY TaintAssumption, Zenon DEF TaintInv, Taints!KnownNodes
  <2>1. /\ \A n \in Taints!KnownNodes : taintsSold'[n] = Taints!CreateTaintCommsSold(n)
        /\ \A p \in poweredOn \cap runningPods : taintsBought'[p] = Taints!CreateTaintCommsBought(p)
    BY <1>2, <2>0, Zenon DEF TaintInv, Taints!Process
  <2>2. /\ Taints!KnownNodes' = Taints!KnownNodes
        /\ \A n : (Taints!CreateTaintCommsSold(n))' = Taints!CreateTaintCommsSold(n)
        /\ \A p : (Taints!CreateTaintCommsBought(p))' = Taints!CreateTaintCommsBought(p)
    BY <1>2 DEF Taints!Process, Taints!KnownNodes, Taints!CreateTaintCommsSold, Taints!CreateTaintCommsBought,
                Taints!GetTaintCollection, Taints!TolerationsTolerateTaint
  <2> QED
    BY <1>2, <2>1, <2>2, Zenon DEF TaintInv, Taints!Process
<1> QED
  BY <1>1, <1>2, Zenon DEF Taints!Next, Taints!Rest

\* A pod that buys a taint's commodity finds it on the nodes without the taint
\* only: one with it would sell it through another node's copy of the taint.
LEMMA SteeredByTaints ==
  ASSUME TaintInv, processed, ~Taints!TimedTwice,
         NEW p \in poweredOn \cap runningPods, NEW n \in Taints!KnownNodes
  PROVE  taintsBought[p] \subseteq taintsSold[n] <=>
           \A t \in taintsOf[n] :
             t.effect \in {"NoSchedule", "NoExecute"} /\ t.key # "node.kubernetes.io/unschedulable" =>
               Taints!KeyOf(t) \in tolerated[p]
<1> DEFINE All == UNION {taintsOf[m] : m \in Taints!KnownNodes}
           Coll == Taints!GetTaintCollection(Taints!KnownNodes)
<1>1. Coll = {t \in All : t.effect \in {"NoSchedule", "NoExecute"} /\ t.key # "node.kubernetes.io/unschedulable"}
  BY Zenon DEF Taints!GetTaintCollection, Taints!IsUnschedulableNodeTaint, Taints!NoSchedule, Taints!NoExecute,
         Taints!Unschedulable
<1>2. taintsOf[n] \subseteq All
  BY Zenon
<1>3. \A t, u \in All : Taints!KeyOf(t) = Taints!KeyOf(u) => t = u
  BY Zenon DEF Taints!TimedTwice
<1>4. /\ taintsSold[n] = {Taints!KeyOf(t) : t \in Coll \ taintsOf[n]}
      /\ taintsBought[p] = {Taints!KeyOf(t) : t \in {c \in Coll : Taints!KeyOf(c) \notin tolerated[p]}}
  BY Zenon DEF TaintInv, Taints!CreateTaintCommsSold, Taints!CreateTaintCommsBought, Taints!TolerationsTolerateTaint
<1>5. ASSUME taintsBought[p] \subseteq taintsSold[n], NEW t \in Coll \cap taintsOf[n]
      PROVE  Taints!KeyOf(t) \in tolerated[p]
  <2> SUFFICES ASSUME Taints!KeyOf(t) \notin tolerated[p] PROVE FALSE
    BY Zenon
  <2>1. Taints!KeyOf(t) \in taintsSold[n]
    BY <1>4, <1>5, Zenon
  <2>2. PICK u \in Coll \ taintsOf[n] : Taints!KeyOf(u) = Taints!KeyOf(t)
    BY <1>4, <2>1
  <2> QED
    BY <1>1, <1>3, <2>2, Zenon
<1>6. ASSUME \A t \in Coll \cap taintsOf[n] : Taints!KeyOf(t) \in tolerated[p]
      PROVE  taintsBought[p] \subseteq taintsSold[n]
  BY <1>4, <1>6, Zenon
<1> HIDE DEF All, Coll
<1> QED
  BY <1>1, <1>2, <1>5, <1>6, Zenon

\* A running pod finds all the TAINT commodities it buys on a node exactly if it
\* tolerates the node's taints (taint_toleration_processor.go), whatever nodes,
\* taints and tolerations there are; unless a taint is timed on two nodes.
THEOREM TaintsDecide == Taints!Spec => []TaintsSteerPlacement
<1>1. TaintInv /\ [Taints!Next]_(Taints!vars) => TaintInv'
  BY TaintStep, Zenon
<1>2. TaintInv => TaintsSteerPlacement
  BY SteeredByTaints, Zenon DEF TaintsSteerPlacement, Taints!TaintsSteerPlacement, Taints!NoSchedule, Taints!NoExecute,
                         Taints!Unschedulable
<1> QED
  BY <1>1, <1>2, TaintInit, PTL DEF Taints!Spec

-----------------------------------------------------------------------------
(* The pods in the order of the list.                                      *)

\* A set of places that is not empty has a first one.
LEMMA FirstPlace ==
  ASSUME NEW T, T \subseteq Nat, T # {}
  PROVE  \E x \in T : \A y \in T : x <= y
<1> DEFINE R == OpToRel(<, Nat)
<1>1. R = {ss \in Nat \X Nat : ss[1] < ss[2]}
  BY DEF OpToRel
<1>2. IsWellFoundedOn(R, Nat)
  BY NatLessThanWellFounded
<1> HIDE DEF R
<1>3. PICK x \in T : \A y \in T : ~(<<y, x>> \in R)
  BY <1>2, WFMin, Zenon
<1>4. ASSUME NEW y \in T
      PROVE  x <= y
  <2>1. <<y, x>> \in Nat \X Nat /\ ~(<<y, x>> \in R)
    BY <1>3, Zenon
  <2>2. <<y, x>>[1] = y /\ <<y, x>>[2] = x
    BY Zenon
  <2>3. ~(y < x)
    BY <1>1, <2>1, <2>2, Zenon
  <2>4. x \in Nat /\ y \in Nat
    BY Zenon
  <2> QED
    BY <2>3, <2>4
<1> QED
  BY <1>4, Zenon

\* The cluster of a discovery is one of those assumed.
LEMMA ClusterFacts ==
  ASSUME cluster \in AffinityClusters
  PROVE  /\ cluster.order \in Seq(AffinityPods)
         /\ \A p \in AffinityPods : \E i \in DOMAIN cluster.order : cluster.order[i] = p
         /\ cluster.hostOf \in [AffinityPods -> AffinityNodes]
         /\ \A p \in AffinityPods : cluster.nodeTerms[p] # {}
         /\ cluster.newAlgorithm \in BOOLEAN
  BY AffinityAssumption, Zenon

\* A pod has a place among those of its node.
LEMMA PlaceOfPod ==
  ASSUME cluster \in AffinityClusters, NEW p \in AffinityPods
  PROVE  \E i \in Affinities!PodsOn(cluster.hostOf[p]) : cluster.order[i] = p
  BY ClusterFacts, Zenon DEF Affinities!PodsOn

\* A place of the list holds a pod.
LEMMA PodOfPlace ==
  ASSUME cluster \in AffinityClusters, NEW n, NEW i \in Affinities!PodsOn(n)
  PROVE  i \in Nat /\ cluster.order[i] \in AffinityPods
<1>1. i \in DOMAIN cluster.order /\ cluster.order \in Seq(AffinityPods)
  BY ClusterFacts, Zenon DEF Affinities!PodsOn
<1> QED
  BY <1>1

-----------------------------------------------------------------------------
(* Which pods the loops over the nodes look at.                            *)

\* A loop that meets no pod at which it breaks looks at all of them, and one
\* that meets some looks at one of these.
LEMMA LoopLooks ==
  ASSUME cluster \in AffinityClusters, NEW n, NEW places, places \subseteq Affinities!PodsOn(n),
         NEW p, NEW breaking
  PROVE  /\ (\A j \in places : cluster.order[j] \notin breaking \ {p}) =>
               Affinities!LookedAt(places, p, breaking) = {cluster.order[i] : i \in places} \ {p}
         /\ (\E j \in places : cluster.order[j] \in breaking \ {p}) =>
               \E e \in Affinities!LookedAt(places, p, breaking) : e \in breaking
<1>1. ASSUME \A j \in places : cluster.order[j] \notin breaking \ {p}
      PROVE  Affinities!LookedAt(places, p, breaking) = {cluster.order[i] : i \in places} \ {p}
  <2>1. {i \in places : \A j \in places : cluster.order[j] \in breaking \ {p} => i <= j} = places
    BY <1>1, Zenon
  <2> QED
    BY <2>1, Zenon DEF Affinities!LookedAt
<1>2. ASSUME NEW k \in places, cluster.order[k] \in breaking \ {p}
      PROVE  \E e \in Affinities!LookedAt(places, p, breaking) : e \in breaking
  <2> DEFINE T == {j \in places : cluster.order[j] \in breaking \ {p}}
  <2>1. T \subseteq Nat /\ T # {}
    BY <1>2, PodOfPlace, Zenon
  <2>2. PICK x \in T : \A y \in T : x <= y
    <3> HIDE DEF T
    <3> QED
      BY <2>1, FirstPlace, Zenon
  <2>3. cluster.order[x] \in Affinities!LookedAt(places, p, breaking)
    BY <2>2, Zenon DEF Affinities!LookedAt
  <2> QED
    BY <2>3, Zenon
<1> QED
  BY <1>1, <1>2, Zenon

\* The loop over the pods of all nodes with anti-affinity terms.
LEMMA ExistingLooks ==
  ASSUME cluster \in AffinityClusters, NEW p \in AffinityPods, NEW e \in Affinities!Others(p),
         Affinities!AntiAffinity(e) # {}
  PROVE  e \in Affinities!ExistingLookedAt(p) \/ Affinities!IsHostnameSpreadOnly(p)
<1> DEFINE breaking == {x \in AffinityPods : Affinities!HostnameSpreadOnly(x, p)}
           places == Affinities!WithRequiredAntiAffinity(cluster.hostOf[e])
<1>1. e \in AffinityPods /\ e # p /\ cluster.hostOf[e] \in AffinityNodes
  BY ClusterFacts, Zenon DEF Affinities!Others
<1>2. PICK i \in places : cluster.order[i] = e
  BY <1>1, PlaceOfPod, Zenon DEF Affinities!WithRequiredAntiAffinity
<1>3. places \subseteq Affinities!PodsOn(cluster.hostOf[e])
  BY Zenon DEF Affinities!WithRequiredAntiAffinity
<1>4. Affinities!LookedAt(places, p, breaking) \subseteq Affinities!ExistingLookedAt(p)
  BY <1>1, Zenon DEF Affinities!ExistingLookedAt
<1> HIDE DEF places
<1>5. CASE \A j \in places : cluster.order[j] \notin breaking \ {p}
  <2>1. Affinities!LookedAt(places, p, breaking) = {cluster.order[j] : j \in places} \ {p}
    <3> HIDE DEF breaking
    <3> QED
      BY <1>3, <1>5, LoopLooks, Zenon
  <2> QED
    BY <1>1, <1>2, <1>4, <2>1, Zenon
<1>6. CASE \E j \in places : cluster.order[j] \in breaking \ {p}
  <2>1. \E x \in Affinities!LookedAt(places, p, breaking) : x \in breaking
    <3> HIDE DEF breaking
    <3> QED
      BY <1>3, <1>6, LoopLooks, Zenon
  <2> QED
    BY <1>4, <2>1, Zenon DEF Affinities!IsHostnameSpreadOnly
<1> QED
  BY <1>5, <1>6, Zenon

\* It looks at no others.
LEMMA ExistingLooksOnly ==
  ASSUME cluster \in AffinityClusters, NEW p, NEW e \in Affinities!ExistingLookedAt(p)
  PROVE  e \in Affinities!Others(p) /\ Affinities!AntiAffinity(e) # {}
<1>1. PICK n \in AffinityNodes : \E i \in Affinities!WithRequiredAntiAffinity(n) : e = cluster.order[i] /\ e # p
  BY Zenon DEF Affinities!ExistingLookedAt, Affinities!LookedAt
<1> QED
  BY <1>1, PodOfPlace, Zenon DEF Affinities!WithRequiredAntiAffinity, Affinities!Others

\* A pod that is not left to segmentation is compared with all pods that have
\* anti-affinity terms.
LEMMA AllExisting ==
  ASSUME cluster \in AffinityClusters, NEW p \in AffinityPods, ~Affinities!IsHostnameSpreadOnly(p)
  PROVE  /\ Affinities!ExistingLookedAt(p) = {e \in Affinities!Others(p) : Affinities!AntiAffinity(e) # {}}
         /\ \A e \in Affinities!Others(p) : ~Affinities!HostnameSpreadOnly(e, p)
<1>1. Affinities!ExistingLookedAt(p) = {e \in Affinities!Others(p) : Affinities!AntiAffinity(e) # {}}
  BY ExistingLooks, ExistingLooksOnly, Zenon
<1>2. ASSUME NEW e \in Affinities!Others(p), Affinities!HostnameSpreadOnly(e, p)
      PROVE  FALSE
  <2>1. Affinities!AntiAffinity(e) # {}
    BY <1>2, Zenon DEF Affinities!HostnameSpreadOnly, Affinities!HostnameSpread, Affinities!SpreadTerms
  <2> QED
    BY <1>1, <1>2, <2>1, Zenon DEF Affinities!IsHostnameSpreadOnly
<1> QED
  BY <1>1, <1>2, Zenon

\* Replicas from one template keep apart from each other by the same terms.
LEMMA SpreadIsMutual ==
  ASSUME Affinities!Uniform, NEW p \in AffinityPods, NEW e \in AffinityPods
  PROVE  /\ Affinities!SpreadTerms(e, p) = Affinities!SpreadTerms(p, e)
         /\ Affinities!SameParent(p, e) => Affinities!AntiAffinity(p) = Affinities!AntiAffinity(e)
<1>1. Affinities!SameParent(p, e) <=> Affinities!SameParent(e, p)
  BY Zenon DEF Affinities!SameParent
<1>2. Affinities!SameParent(p, e) => /\ Affinities!AntiAffinity(p) = Affinities!AntiAffinity(e)
                                    /\ PodLabelOf[p] = PodLabelOf[e]
  BY Zenon DEF Affinities!Uniform, Affinities!AntiAffinity
<1>3. CASE Affinities!SameParent(p, e)
  <2>1. \A t : Affinities!Matches(t, p) <=> Affinities!Matches(t, e)
    BY <1>2, <1>3, Zenon DEF Affinities!Matches
  <2> QED
    BY <1>1, <1>2, <1>3, <2>1, Zenon DEF Affinities!SpreadTerms
<1>4. CASE ~Affinities!SameParent(p, e)
  BY <1>1, <1>4, Zenon DEF Affinities!SpreadTerms
<1> QED
  BY <1>2, <1>3, <1>4, Zenon

\* The same pod that is left to segmentation by another leaves that one to it.
LEMMA SpreadOnlyIsMutual ==
  ASSUME Affinities!Uniform, NEW p \in AffinityPods, NEW e \in AffinityPods,
         Affinities!HostnameSpreadOnly(p, e)
  PROVE  Affinities!HostnameSpreadOnly(e, p)
<1>1. Affinities!SameParent(p, e)
  BY Zenon DEF Affinities!HostnameSpreadOnly, Affinities!HostnameSpread, Affinities!SpreadTerms
<1> QED
  BY <1>1, SpreadIsMutual, Zenon
  DEF Affinities!HostnameSpreadOnly, Affinities!HostnameSpread, Affinities!TermsToConsiderFurther

\* A pod that is not left to segmentation and has terms of its own is compared
\* with all other pods.
LEMMA AllIncoming ==
  ASSUME cluster \in AffinityClusters, Affinities!Uniform,
         NEW p \in AffinityPods, ~Affinities!IsHostnameSpreadOnly(p)
  PROVE  /\ \A e \in Affinities!Others(p) : ~Affinities!HostnameSpreadOnly(p, e)
         /\ (Affinities!Affinity(p) # {} \/ Affinities!AntiAffinity(p) # {}) =>
               Affinities!IncomingLookedAt(p) = Affinities!Others(p)
<1> DEFINE breaking == {e \in AffinityPods : Affinities!HostnameSpreadOnly(p, e)}
           looked(n) == Affinities!LookedAt(Affinities!PodsOn(n), p, breaking)
<1>1. \A e \in Affinities!Others(p) : ~Affinities!HostnameSpreadOnly(p, e)
  BY AllExisting, SpreadOnlyIsMutual, Zenon DEF Affinities!Others
<1>2. \A x : x \notin breaking \ {p}
  BY <1>1, Zenon DEF Affinities!Others
<1>3. \A n : looked(n) = {cluster.order[i] : i \in Affinities!PodsOn(n)} \ {p}
  <2> HIDE DEF breaking
  <2> QED
    BY <1>2, LoopLooks, Zenon
<1>4. ASSUME Affinities!Affinity(p) # {} \/ Affinities!AntiAffinity(p) # {}
      PROVE  Affinities!IncomingLookedAt(p) = Affinities!Others(p)
  <2>1. Affinities!IncomingLookedAt(p) = UNION {looked(n) : n \in AffinityNodes}
    BY <1>4, Zenon DEF Affinities!IncomingLookedAt
  <2> HIDE DEF looked
  <2>2. ASSUME NEW e \in Affinities!Others(p)
        PROVE  \E n \in AffinityNodes : e \in looked(n)
    <3>1. e \in AffinityPods /\ e # p /\ cluster.hostOf[e] \in AffinityNodes
      BY ClusterFacts, Zenon DEF Affinities!Others
    <3> QED
      BY <1>3, <3>1, PlaceOfPod, Zenon
  <2>3. ASSUME NEW n \in AffinityNodes, NEW e \in looked(n)
        PROVE  e \in Affinities!Others(p)
    BY <1>3, PodOfPlace, Zenon DEF Affinities!Others
  <2> QED
    BY <2>1, <2>2, <2>3, Zenon
<1> QED
  BY <1>1, <1>4, Zenon

\* A replica that another keeps off its host notices one that does.
LEMMA SpreadNoticed ==
  ASSUME cluster \in AffinityClusters, NEW p \in AffinityPods, NEW e \in Affinities!Others(p),
         Affinities!HostnameSpread(e, p)
  PROVE  \E x \in Affinities!ExistingLookedAt(p) : Affinities!HostnameSpread(x, p)
<1>1. Affinities!AntiAffinity(e) # {}
  BY Zenon DEF Affinities!HostnameSpread, Affinities!SpreadTerms
<1> QED
  BY <1>1, ExistingLooks, Zenon DEF Affinities!IsHostnameSpreadOnly, Affinities!HostnameSpreadOnly

-----------------------------------------------------------------------------
(* What the counts mean.                                                   *)

\* A topology pair is a key and its value, if the node has the label.
LEMMA InPair ==
  ASSUME NEW n, NEW k, NEW x
  PROVE  x \in Affinities!Pair(n, k) <=> Affinities!HasLabel(n, k) /\ x = <<k, TopologyOf[n][k]>>
  BY Zenon DEF Affinities!Pair, Affinities!HasLabel

\* Two nodes that have a topology pair in common are in one domain of its key.
LEMMA PairShared ==
  ASSUME NEW n, NEW m, NEW k, NEW l, NEW x, x \in Affinities!Pair(n, k), x \in Affinities!Pair(m, l)
  PROVE  k = l /\ Affinities!NodesHaveSameTopologyKey(n, m, k)
<1>1. /\ Affinities!HasLabel(n, k) /\ x = <<k, TopologyOf[n][k]>>
      /\ x = <<l, TopologyOf[m][l]>>
  BY InPair, Zenon
<1>2. <<k, TopologyOf[n][k]>> = <<l, TopologyOf[m][l]>>
  BY <1>1, Zenon
<1>3. \A a, b, c, d : <<a, b>> = <<c, d>> => a = c /\ b = d
  BY Zenon
<1>4. k = l /\ TopologyOf[n][k] = TopologyOf[m][l]
  BY <1>2, <1>3, Zenon
<1> QED
  BY <1>1, <1>4, Zenon DEF Affinities!NodesHaveSameTopologyKey

\* And the other way round.
LEMMA SharedPair ==
  ASSUME NEW n, NEW m, NEW k, Affinities!NodesHaveSameTopologyKey(n, m, k)
  PROVE  /\ \E x : x \in Affinities!Pair(n, k)
         /\ \A x \in Affinities!Pair(n, k) : x \in Affinities!Pair(m, k)
  BY InPair, Zenon DEF Affinities!NodesHaveSameTopologyKey, Affinities!HasLabel

\* A node with the label has a topology pair.
LEMMA PairIfLabel ==
  ASSUME NEW n, NEW k
  PROVE  Affinities!HasLabel(n, k) <=> \E x : x \in Affinities!Pair(n, k)
  BY InPair, Zenon

\* The pods that count for a pod's affinity are those that match all its terms.
LEMMA AffinityCounts ==
  ASSUME cluster \in AffinityClusters, Affinities!Uniform,
         NEW p \in AffinityPods, ~Affinities!IsHostnameSpreadOnly(p), Affinities!Affinity(p) # {}, NEW x
  PROVE  x \in Affinities!GetIncomingAffinityCounts(p) <=>
           \E e \in Affinities!Companions(p), t \in Affinities!Affinity(p) :
              x \in Affinities!Pair(cluster.hostOf[e], t.key)
<1>1. Affinities!IncomingLookedAt(p) = Affinities!Others(p)
  BY AllIncoming, Zenon
<1>2. x \in Affinities!GetIncomingAffinityCounts(p) <=>
        \E e \in Affinities!Others(p) :
           x \in Affinities!UpdateWithAffinityTerms(Affinities!Affinity(p), e, cluster.hostOf[e])
  BY <1>1, Zenon DEF Affinities!GetIncomingAffinityCounts
<1>3. ASSUME NEW e
      PROVE  x \in Affinities!UpdateWithAffinityTerms(Affinities!Affinity(p), e, cluster.hostOf[e]) <=>
               /\ Affinities!PodMatchesAllAffinityTerms(Affinities!Affinity(p), e)
               /\ \E t \in Affinities!Affinity(p) : x \in Affinities!Pair(cluster.hostOf[e], t.key)
  BY Zenon DEF Affinities!UpdateWithAffinityTerms
<1> QED
  BY <1>2, <1>3, Zenon DEF Affinities!Companions

\* The pods that a pod's own anti-affinity counts are those it would conflict
\* with, but for its replicas on their hosts.
LEMMA AntiAffinityCounts ==
  ASSUME cluster \in AffinityClusters, Affinities!Uniform,
         NEW p \in AffinityPods, ~Affinities!IsHostnameSpreadOnly(p), Affinities!AntiAffinity(p) # {}, NEW x
  PROVE  x \in Affinities!GetIncomingAntiAffinityCounts(p) <=>
           \E e \in Affinities!Others(p) : \E t \in Affinities!AntiAffinity(p) :
              /\ Affinities!Matches(t, e)
              /\ ~(t.key = Affinities!Hostname /\ Affinities!SameParent(e, p))
              /\ x \in Affinities!Pair(cluster.hostOf[e], t.key)
<1>1. {e \in Affinities!IncomingLookedAt(p) : ~Affinities!HostnameSpreadOnly(p, e)} = Affinities!Others(p)
  BY AllIncoming, Zenon
<1>2. ASSUME NEW e, NEW t
      PROVE  t \in Affinities!TermsToConsiderFurther(p, e) /\ Affinities!Matches(t, e) <=>
               /\ t \in Affinities!AntiAffinity(p) /\ Affinities!Matches(t, e)
               /\ ~(t.key = Affinities!Hostname /\ Affinities!SameParent(e, p))
  <2>1. Affinities!SameParent(p, e) <=> Affinities!SameParent(e, p)
    BY Zenon DEF Affinities!SameParent
  <2> QED
    BY <2>1, Zenon DEF Affinities!TermsToConsiderFurther, Affinities!SpreadTerms
<1>3. x \in Affinities!GetIncomingAntiAffinityCounts(p) <=>
        \E e \in Affinities!Others(p) :
           x \in Affinities!UpdateWithAntiAffinityTerms(Affinities!TermsToConsiderFurther(p, e), e, cluster.hostOf[e])
  BY <1>1, Zenon DEF Affinities!GetIncomingAntiAffinityCounts
<1>4. ASSUME NEW e
      PROVE  x \in Affinities!UpdateWithAntiAffinityTerms(Affinities!TermsToConsiderFurther(p, e), e, cluster.hostOf[e]) <=>
               \E t : /\ t \in Affinities!TermsToConsiderFurther(p, e) /\ Affinities!Matches(t, e)
                      /\ x \in Affinities!Pair(cluster.hostOf[e], t.key)
  BY Zenon DEF Affinities!UpdateWithAntiAffinityTerms
<1> QED
  BY <1>2, <1>3, <1>4, Zenon

\* The same for the anti-affinity of the other pods.
LEMMA ExistingCounts ==
  ASSUME cluster \in AffinityClusters,
         NEW p \in AffinityPods, ~Affinities!IsHostnameSpreadOnly(p), NEW x
  PROVE  x \in Affinities!GetExistingAntiAffinityCounts(p) <=>
           \E e \in Affinities!Others(p) : \E t \in Affinities!AntiAffinity(e) :
              /\ Affinities!Matches(t, p)
              /\ ~(t.key = Affinities!Hostname /\ Affinities!SameParent(e, p))
              /\ x \in Affinities!Pair(cluster.hostOf[e], t.key)
<1>1. Affinities!ExistingLookedAt(p) = {e \in Affinities!Others(p) : Affinities!AntiAffinity(e) # {}}
  BY AllExisting, Zenon
<1>2. ASSUME NEW e, NEW t
      PROVE  t \in Affinities!TermsToConsiderFurther(e, p) /\ Affinities!Matches(t, p) <=>
               /\ t \in Affinities!AntiAffinity(e) /\ Affinities!Matches(t, p)
               /\ ~(t.key = Affinities!Hostname /\ Affinities!SameParent(e, p))
  BY Zenon DEF Affinities!TermsToConsiderFurther, Affinities!SpreadTerms
<1>3. x \in Affinities!GetExistingAntiAffinityCounts(p) <=>
        \E e \in Affinities!ExistingLookedAt(p) :
           x \in Affinities!UpdateWithAntiAffinityTerms(Affinities!TermsToConsiderFurther(e, p), p, cluster.hostOf[e])
  BY Zenon DEF Affinities!GetExistingAntiAffinityCounts
<1>4. ASSUME NEW e
      PROVE  x \in Affinities!UpdateWithAntiAffinityTerms(Affinities!TermsToConsiderFurther(e, p), p, cluster.hostOf[e]) <=>
               \E t : /\ t \in Affinities!TermsToConsiderFurther(e, p) /\ Affinities!Matches(t, p)
                      /\ x \in Affinities!Pair(cluster.hostOf[e], t.key)
  BY Zenon DEF Affinities!UpdateWithAntiAffinityTerms
<1> QED
  BY <1>1, <1>2, <1>3, <1>4, Zenon

-----------------------------------------------------------------------------
(* Filter lets a pod on a node exactly if the rules do.                    *)

\* satisfyPodAffinity, for a pod that is compared with all others.
LEMMA AffinityMeans ==
  ASSUME cluster \in AffinityClusters, Affinities!Uniform,
         NEW p \in AffinityPods, ~Affinities!IsHostnameSpreadOnly(p), NEW n
  PROVE  Affinities!SatisfyPodAffinity(p, n) <=>
           /\ \A t \in Affinities!Affinity(p) : Affinities!HasLabel(n, t.key)
           /\ \/ \A t \in Affinities!Affinity(p) : \E q \in Affinities!Companions(p) :
                    Affinities!NodesHaveSameTopologyKey(n, cluster.hostOf[q], t.key)
              \/ /\ Affinities!PodMatchesAllAffinityTerms(Affinities!Affinity(p), p)
                 /\ \A q \in Affinities!Companions(p), t \in Affinities!Affinity(p) :
                       ~Affinities!HasLabel(cluster.hostOf[q], t.key)
<1> DEFINE counts == Affinities!GetIncomingAffinityCounts(p)
<1>1. CASE Affinities!Affinity(p) = {}
  BY <1>1, Zenon DEF Affinities!SatisfyPodAffinity
<1>2. CASE Affinities!Affinity(p) # {}
  <2>1. counts = {} <=> \A q \in Affinities!Companions(p), t \in Affinities!Affinity(p) :
                           ~Affinities!HasLabel(cluster.hostOf[q], t.key)
    BY <1>2, AffinityCounts, PairIfLabel, Zenon
  <2>2. ASSUME NEW t \in Affinities!Affinity(p), Affinities!HasLabel(n, t.key)
        PROVE  Affinities!Pair(n, t.key) \subseteq counts <=>
                 \E q \in Affinities!Companions(p) : Affinities!NodesHaveSameTopologyKey(n, cluster.hostOf[q], t.key)
    <3>1. ASSUME NEW q \in Affinities!Companions(p),
                 Affinities!NodesHaveSameTopologyKey(n, cluster.hostOf[q], t.key)
          PROVE  Affinities!Pair(n, t.key) \subseteq counts
      <4>1. ASSUME NEW x \in Affinities!Pair(n, t.key)
            PROVE  x \in Affinities!Pair(cluster.hostOf[q], t.key)
        BY <3>1, InPair, Zenon DEF Affinities!NodesHaveSameTopologyKey, Affinities!HasLabel
      <4> QED
        BY <1>2, <4>1, AffinityCounts, Zenon
    <3>2. ASSUME Affinities!Pair(n, t.key) \subseteq counts
          PROVE  \E q \in Affinities!Companions(p) : Affinities!NodesHaveSameTopologyKey(n, cluster.hostOf[q], t.key)
      <4>1. PICK x \in Affinities!Pair(n, t.key) : TRUE
        BY <2>2, PairIfLabel, Zenon
      <4>2. PICK q \in Affinities!Companions(p), u \in Affinities!Affinity(p) :
                   x \in Affinities!Pair(cluster.hostOf[q], u.key)
        <5>1. x \in counts
          BY <3>2, <4>1, Zenon
        <5> QED
          BY <1>2, <5>1, AffinityCounts, Zenon
      <4> QED
        BY <4>1, <4>2, PairShared, Zenon
    <3> QED
      BY <3>1, <3>2, Zenon
  <2> HIDE DEF counts
  <2>3. Affinities!SatisfyPodAffinity(p, n) <=>
          /\ \A t \in Affinities!Affinity(p) : Affinities!HasLabel(n, t.key)
          /\ \/ \A t \in Affinities!Affinity(p) : Affinities!Pair(n, t.key) \subseteq counts
             \/ counts = {} /\ Affinities!PodMatchesAllAffinityTerms(Affinities!Affinity(p), p)
    BY Zenon DEF Affinities!SatisfyPodAffinity, counts
  <2> QED
    BY <2>1, <2>2, <2>3, Zenon
<1> QED
  BY <1>1, <1>2, Zenon

\* satisfyPodAntiAffinity.
LEMMA AntiAffinityMeans ==
  ASSUME cluster \in AffinityClusters, Affinities!Uniform,
         NEW p \in AffinityPods, ~Affinities!IsHostnameSpreadOnly(p), NEW n
  PROVE  Affinities!SatisfyPodAntiAffinity(p, n) <=> \A e \in Affinities!Others(p) : ~Affinities!ConflictWith(p, e, n)
<1> DEFINE counts == Affinities!GetIncomingAntiAffinityCounts(p)
<1>1. ASSUME NEW e \in Affinities!Others(p), Affinities!ConflictWith(p, e, n)
      PROVE  ~Affinities!SatisfyPodAntiAffinity(p, n)
  <2>1. PICK t \in Affinities!AntiAffinity(p) :
               /\ Affinities!Matches(t, e)
               /\ ~(t.key = Affinities!Hostname /\ Affinities!SameParent(e, p))
               /\ Affinities!NodesHaveSameTopologyKey(n, cluster.hostOf[e], t.key)
    BY <1>1, Zenon DEF Affinities!ConflictWith
  <2>2. PICK x \in Affinities!Pair(n, t.key) : x \in Affinities!Pair(cluster.hostOf[e], t.key)
    BY <2>1, SharedPair, Zenon
  <2>3. x \in counts
    BY <2>1, <2>2, AntiAffinityCounts, Zenon
  <2> QED
    BY <2>2, <2>3, Zenon DEF Affinities!SatisfyPodAntiAffinity
<1>2. ASSUME ~Affinities!SatisfyPodAntiAffinity(p, n)
      PROVE  \E e \in Affinities!Others(p) : Affinities!ConflictWith(p, e, n)
  <2>0. PICK u \in Affinities!AntiAffinity(p) : \E y \in Affinities!Pair(n, u.key) : y \in counts
    BY <1>2, Zenon DEF Affinities!SatisfyPodAntiAffinity
  <2>1. PICK x \in Affinities!Pair(n, u.key) : x \in counts
    BY <2>0, Zenon
  <2>2. PICK e \in Affinities!Others(p) : \E t \in Affinities!AntiAffinity(p) :
              /\ Affinities!Matches(t, e)
              /\ ~(t.key = Affinities!Hostname /\ Affinities!SameParent(e, p))
              /\ x \in Affinities!Pair(cluster.hostOf[e], t.key)
    BY <2>1, AntiAffinityCounts, Zenon
  <2>3. PICK t \in Affinities!AntiAffinity(p) :
              /\ Affinities!Matches(t, e)
              /\ ~(t.key = Affinities!Hostname /\ Affinities!SameParent(e, p))
              /\ x \in Affinities!Pair(cluster.hostOf[e], t.key)
    BY <2>2, Zenon
  <2>4. Affinities!NodesHaveSameTopologyKey(n, cluster.hostOf[e], t.key)
    <3>1. u.key = t.key /\ Affinities!NodesHaveSameTopologyKey(n, cluster.hostOf[e], u.key)
      BY <2>1, <2>3, PairShared, Zenon
    <3> QED
      BY <3>1, Zenon
  <2> QED
    BY <2>3, <2>4, Zenon DEF Affinities!ConflictWith
<1> QED
  BY <1>1, <1>2, Zenon DEF Affinities!SatisfyPodAntiAffinity

\* satisfyExistingPodsAntiAffinity.
LEMMA ExistingMeans ==
  ASSUME cluster \in AffinityClusters,
         NEW p \in AffinityPods, ~Affinities!IsHostnameSpreadOnly(p), NEW n \in AffinityNodes
  PROVE  Affinities!SatisfyExistingPodsAntiAffinity(p, n) <=>
           \A e \in Affinities!Others(p) : ~Affinities!Conflict(e, p, n)
<1> DEFINE counts == Affinities!GetExistingAntiAffinityCounts(p)
<1>1. ASSUME NEW e \in Affinities!Others(p), Affinities!Conflict(e, p, n)
      PROVE  ~Affinities!SatisfyExistingPodsAntiAffinity(p, n)
  <2>1. PICK t \in Affinities!AntiAffinity(e) :
               /\ Affinities!Matches(t, p)
               /\ ~(t.key = Affinities!Hostname /\ Affinities!SameParent(e, p))
               /\ Affinities!NodesHaveSameTopologyKey(n, cluster.hostOf[e], t.key)
    BY <1>1, Zenon DEF Affinities!Conflict
  <2>2. PICK x \in Affinities!Pair(n, t.key) : x \in Affinities!Pair(cluster.hostOf[e], t.key)
    BY <2>1, SharedPair, Zenon
  <2>3. x \in counts
    BY <2>1, <2>2, ExistingCounts, Zenon
  <2>4. t.key \in DOMAIN TopologyOf[n]
    <3>1. PICK i \in DOMAIN cluster.antiAffinity[e] : t = cluster.antiAffinity[e][i]
      BY Zenon DEF Affinities!AntiAffinity
    <3>2. e \in AffinityPods
      BY Zenon DEF Affinities!Others
    <3> QED
      BY <3>1, <3>2, AffinityAssumption, Zenon
  <2> QED
    BY <2>2, <2>3, <2>4, Zenon DEF Affinities!SatisfyExistingPodsAntiAffinity
<1>2. ASSUME ~Affinities!SatisfyExistingPodsAntiAffinity(p, n)
      PROVE  \E e \in Affinities!Others(p) : Affinities!Conflict(e, p, n)
  <2>0. PICK k \in DOMAIN TopologyOf[n] : \E y \in Affinities!Pair(n, k) : y \in counts
    BY <1>2, Zenon DEF Affinities!SatisfyExistingPodsAntiAffinity
  <2>1. PICK x \in Affinities!Pair(n, k) : x \in counts
    BY <2>0, Zenon
  <2>2. PICK e \in Affinities!Others(p) : \E t \in Affinities!AntiAffinity(e) :
              /\ Affinities!Matches(t, p)
              /\ ~(t.key = Affinities!Hostname /\ Affinities!SameParent(e, p))
              /\ x \in Affinities!Pair(cluster.hostOf[e], t.key)
    BY <2>1, ExistingCounts, Zenon
  <2>3. PICK t \in Affinities!AntiAffinity(e) :
              /\ Affinities!Matches(t, p)
              /\ ~(t.key = Affinities!Hostname /\ Affinities!SameParent(e, p))
              /\ x \in Affinities!Pair(cluster.hostOf[e], t.key)
    BY <2>2, Zenon
  <2>4. Affinities!NodesHaveSameTopologyKey(n, cluster.hostOf[e], t.key)
    BY <2>1, <2>3, PairShared, Zenon
  <2> QED
    BY <2>3, <2>4, Zenon DEF Affinities!Conflict
<1> QED
  BY <1>1, <1>2, Zenon DEF Affinities!SatisfyExistingPodsAntiAffinity

\* Filter asks what the scheduler asks.
LEMMA FilterMeans ==
  ASSUME cluster \in AffinityClusters, Affinities!Uniform,
         NEW p \in AffinityPods, ~Affinities!IsHostnameSpreadOnly(p), NEW n \in AffinityNodes
  PROVE  Affinities!Filter(p, n) <=> Affinities!AllowedOn(p, n)
  BY AffinityMeans, AntiAffinityMeans, ExistingMeans, Zenon DEF Affinities!Filter, Affinities!AllowedOn

-----------------------------------------------------------------------------
(* The invariant of ProcessAffinities.                                     *)

Considered(p) == Affinities!PodWithAffinity(p) \/ Affinities!PodsVolumeHasAffinities(p)

\* What is known of a pod that has been processed.
Processed(p) ==
  /\ p \notin waiting
  /\ p \notin cluster.unresolved
  /\ Considered(p)

SpreadInv ==
  \A p \in AffinityPods : Processed(p) =>
     /\ (\E e \in Affinities!ExistingLookedAt(p) : Affinities!HostnameSpread(e, p)) => p \in hostnameSpreadPods
     /\ (\E e \in Affinities!ExistingLookedAt(p) : Affinities!OtherSpread(e, p)) => p \in otherSpreadPods

NewInv ==
  /\ \A p \in podsWithAffinities : p \in AffinityPods /\ Processed(p) /\ ~Affinities!IsHostnameSpreadOnly(p)
  /\ \A n \in AffinityNodes, p \in AffinityPods :
        <<n, p>> \in nodesPods <=> p \in podsWithAffinities /\ Affinities!Filter(p, n)
  /\ SpreadInv

AllSold == UNION {Affinities!ProcessPodAffinityRules(p)[i].sold : p \in AffinityPods, i \in 1 .. 2}
AllBought == UNION {Affinities!ProcessPodAffinityRules(p)[i].bought : p \in AffinityPods, i \in 1 .. 2}

OldInv == waiting = AffinityPods \/ (accessSold = AllSold /\ accessBought = AllBought)

AffinityInv ==
  /\ cluster \in AffinityClusters
  /\ IF cluster.newAlgorithm THEN NewInv ELSE OldInv

\* Nothing is processed at the start.
LEMMA AffinityInvInit ==
  ASSUME Affinities!Init
  PROVE  AffinityInv
<1>1. cluster \in AffinityClusters
  BY Zenon DEF Affinities!Init
<1>2. NewInv
  BY Zenon DEF Affinities!Init, NewInv, SpreadInv, Processed
<1>3. OldInv
  BY DEF Affinities!Init, OldInv
<1> QED
  BY <1>1, <1>2, <1>3, Zenon DEF AffinityInv

\* What is computed from the cluster summary stays the same with it.
LEMMA RulesUnmoved ==
  ASSUME cluster' = cluster
  PROVE  /\ \A p : Considered(p)' <=> Considered(p)
         /\ \A p : Affinities!IsHostnameSpreadOnly(p)' <=> Affinities!IsHostnameSpreadOnly(p)
         /\ \A p : Affinities!ExistingLookedAt(p)' = Affinities!ExistingLookedAt(p)
         /\ \A e, p : Affinities!HostnameSpread(e, p)' <=> Affinities!HostnameSpread(e, p)
         /\ \A e, p : Affinities!OtherSpread(e, p)' <=> Affinities!OtherSpread(e, p)
         /\ \A p, n : Affinities!Filter(p, n)' <=> Affinities!Filter(p, n)
<1>1. ASSUME NEW p
      PROVE  /\ Affinities!Affinity(p)' = Affinities!Affinity(p)
             /\ Affinities!AntiAffinity(p)' = Affinities!AntiAffinity(p)
  BY Zenon DEF Affinities!Affinity, Affinities!AntiAffinity
<1>2. ASSUME NEW e, NEW p
      PROVE  Affinities!SpreadTerms(e, p)' = Affinities!SpreadTerms(e, p)
  BY <1>1, Zenon DEF Affinities!SpreadTerms, Affinities!SameParent, Affinities!Matches
<1>3. ASSUME NEW e, NEW p
      PROVE  /\ Affinities!HostnameSpread(e, p)' <=> Affinities!HostnameSpread(e, p)
             /\ Affinities!OtherSpread(e, p)' <=> Affinities!OtherSpread(e, p)
             /\ Affinities!TermsToConsiderFurther(e, p)' = Affinities!TermsToConsiderFurther(e, p)
  BY <1>1, <1>2, Zenon DEF Affinities!HostnameSpread, Affinities!OtherSpread, Affinities!TermsToConsiderFurther,
     Affinities!Hostname
<1>4. ASSUME NEW e, NEW p
      PROVE  Affinities!HostnameSpreadOnly(e, p)' <=> Affinities!HostnameSpreadOnly(e, p)
  BY <1>3, Zenon DEF Affinities!HostnameSpreadOnly
<1>5. ASSUME NEW n
      PROVE  /\ Affinities!PodsOn(n)' = Affinities!PodsOn(n)
             /\ Affinities!WithRequiredAntiAffinity(n)' = Affinities!WithRequiredAntiAffinity(n)
  <2>1. Affinities!PodsOn(n)' = Affinities!PodsOn(n)
    BY Zenon DEF Affinities!PodsOn
  <2>2. \A i : Affinities!AntiAffinity(cluster.order[i])' = Affinities!AntiAffinity(cluster.order[i])
    BY <1>1 DEF Affinities!AntiAffinity
  <2> QED
    BY <2>1, <2>2 DEF Affinities!WithRequiredAntiAffinity
<1>6. ASSUME NEW p
      PROVE  Affinities!ExistingLookedAt(p)' = Affinities!ExistingLookedAt(p)
  <2> DEFINE breaking == {e \in AffinityPods : Affinities!HostnameSpreadOnly(e, p)}
             looked(n) == Affinities!LookedAt(Affinities!WithRequiredAntiAffinity(n), p, breaking)
  <2>1. breaking' = breaking
    BY <1>4, Zenon
  <2>2. ASSUME NEW n
        PROVE  looked(n)' = looked(n)
    <3> HIDE DEF breaking
    <3> QED
      BY <1>5, <2>1 DEF Affinities!LookedAt
  <2> HIDE DEF looked
  <2>3. {looked(n) : n \in AffinityNodes}' = {looked(n) : n \in AffinityNodes}
    BY <2>2, Zenon
  <2> QED
    BY <2>3, Zenon DEF Affinities!ExistingLookedAt, looked
<1>7. ASSUME NEW p
      PROVE  Affinities!IncomingLookedAt(p)' = Affinities!IncomingLookedAt(p)
  <2> DEFINE breaking == {e \in AffinityPods : Affinities!HostnameSpreadOnly(p, e)}
             looked(n) == Affinities!LookedAt(Affinities!PodsOn(n), p, breaking)
  <2>1. breaking' = breaking
    BY <1>4, Zenon
  <2>2. ASSUME NEW n
        PROVE  looked(n)' = looked(n)
    <3> HIDE DEF breaking
    <3> QED
      BY <1>5, <2>1 DEF Affinities!LookedAt
  <2> HIDE DEF looked
  <2>3. {looked(n) : n \in AffinityNodes}' = {looked(n) : n \in AffinityNodes}
    BY <2>2, Zenon
  <2> QED
    <3>1. CASE Affinities!Affinity(p) = {} /\ Affinities!AntiAffinity(p) = {}
      BY <1>1, <3>1, Zenon DEF Affinities!IncomingLookedAt
    <3>2. CASE ~(Affinities!Affinity(p) = {} /\ Affinities!AntiAffinity(p) = {})
      <4>1. Affinities!IncomingLookedAt(p) = UNION {looked(n) : n \in AffinityNodes}
        BY <3>2, Zenon DEF Affinities!IncomingLookedAt, looked
      <4>2. Affinities!IncomingLookedAt(p)' = UNION {looked(n) : n \in AffinityNodes}'
        BY <1>1, <3>2, Zenon DEF Affinities!IncomingLookedAt, looked
      <4> QED
        BY <2>3, <4>1, <4>2, Zenon
    <3> QED
      BY <3>1, <3>2, Zenon
<1>8. ASSUME NEW p
      PROVE  Affinities!IsHostnameSpreadOnly(p)' <=> Affinities!IsHostnameSpreadOnly(p)
  BY <1>4, <1>6, Zenon DEF Affinities!IsHostnameSpreadOnly
<1>9. ASSUME NEW p
      PROVE  Affinities!GetExistingAntiAffinityCounts(p)' = Affinities!GetExistingAntiAffinityCounts(p)
  <2> DEFINE counted(e) == Affinities!UpdateWithAntiAffinityTerms(Affinities!TermsToConsiderFurther(e, p), p, cluster.hostOf[e])
  <2>1. ASSUME NEW e
        PROVE  counted(e)' = counted(e)
    BY <1>3 DEF Affinities!UpdateWithAntiAffinityTerms, Affinities!Pair, Affinities!Matches
  <2> HIDE DEF counted
  <2>2. {counted(e) : e \in Affinities!ExistingLookedAt(p)}' = {counted(e) : e \in Affinities!ExistingLookedAt(p)}
    BY <1>6, <2>1, Zenon
  <2> QED
    BY <2>2, Zenon DEF Affinities!GetExistingAntiAffinityCounts, counted
<1>10. ASSUME NEW p
       PROVE  Affinities!GetIncomingAffinityCounts(p)' = Affinities!GetIncomingAffinityCounts(p)
  <2> DEFINE counted(e) == Affinities!UpdateWithAffinityTerms(Affinities!Affinity(p), e, cluster.hostOf[e])
  <2>1. ASSUME NEW e
        PROVE  counted(e)' = counted(e)
    BY <1>1 DEF Affinities!UpdateWithAffinityTerms, Affinities!PodMatchesAllAffinityTerms, Affinities!Pair, Affinities!Matches
  <2> HIDE DEF counted
  <2>2. {counted(e) : e \in Affinities!IncomingLookedAt(p)}' = {counted(e) : e \in Affinities!IncomingLookedAt(p)}
    BY <1>7, <2>1, Zenon
  <2> QED
    BY <2>2, Zenon DEF Affinities!GetIncomingAffinityCounts, counted
<1>11. ASSUME NEW p
       PROVE  Affinities!GetIncomingAntiAffinityCounts(p)' = Affinities!GetIncomingAntiAffinityCounts(p)
  <2> DEFINE counted(e) == Affinities!UpdateWithAntiAffinityTerms(Affinities!TermsToConsiderFurther(p, e), e, cluster.hostOf[e])
  <2>1. ASSUME NEW e
        PROVE  counted(e)' = counted(e)
    BY <1>3 DEF Affinities!UpdateWithAntiAffinityTerms, Affinities!Pair, Affinities!Matches
  <2> HIDE DEF counted
  <2>2. {counted(e) : e \in {x \in Affinities!IncomingLookedAt(p) : ~Affinities!HostnameSpreadOnly(p, x)}}'
            = {counted(e) : e \in {x \in Affinities!IncomingLookedAt(p) : ~Affinities!HostnameSpreadOnly(p, x)}}
    BY <1>4, <1>7, <2>1, Zenon
  <2> QED
    BY <2>2, Zenon DEF Affinities!GetIncomingAntiAffinityCounts, counted
<1>12. ASSUME NEW p, NEW n
       PROVE  Affinities!Filter(p, n)' <=> Affinities!Filter(p, n)
  <2>1. Affinities!SatisfyPodAffinity(p, n)' <=> Affinities!SatisfyPodAffinity(p, n)
    BY <1>1, <1>10, Zenon DEF Affinities!SatisfyPodAffinity, Affinities!PodMatchesAllAffinityTerms, Affinities!Pair,
       Affinities!Matches, Affinities!HasLabel
  <2>2. Affinities!SatisfyPodAntiAffinity(p, n)' <=> Affinities!SatisfyPodAntiAffinity(p, n)
    BY <1>1, <1>11, Zenon DEF Affinities!SatisfyPodAntiAffinity, Affinities!Pair
  <2>3. Affinities!SatisfyExistingPodsAntiAffinity(p, n)' <=> Affinities!SatisfyExistingPodsAntiAffinity(p, n)
    BY <1>9, Zenon DEF Affinities!SatisfyExistingPodsAntiAffinity, Affinities!Pair
  <2>4. Affinities!SatisfyNodeAffinities(p, n)' <=> Affinities!SatisfyNodeAffinities(p, n)
    BY Zenon DEF Affinities!SatisfyNodeAffinities, Affinities!MatchesNodeAffinity, Affinities!MatchesPvNodeAffinity,
       Affinities!GetAllPvAffinityTerms
  <2> QED
    BY <2>1, <2>2, <2>3, <2>4, Zenon DEF Affinities!Filter
<1>13. ASSUME NEW p
       PROVE  Considered(p)' <=> Considered(p)
  BY <1>1, Zenon DEF Considered, Affinities!PodWithAffinity, Affinities!PodsVolumeHasAffinities
<1> QED
  BY <1>3, <1>6, <1>8, <1>12, <1>13, Zenon

\* The older algorithm computes the same from the same cluster.
LEMMA OldRulesUnmoved ==
  ASSUME cluster' = cluster
  PROVE  AllSold' = AllSold /\ AllBought' = AllBought
<1>1. ASSUME NEW p
      PROVE  /\ Affinities!Affinity(p)' = Affinities!Affinity(p)
             /\ Affinities!AntiAffinity(p)' = Affinities!AntiAffinity(p)
  BY Zenon DEF Affinities!Affinity, Affinities!AntiAffinity
<1>2. ASSUME NEW p, NEW n
      PROVE  Affinities!SatisfyNodeAffinities(p, n)' <=> Affinities!SatisfyNodeAffinities(p, n)
  BY Zenon DEF Affinities!SatisfyNodeAffinities, Affinities!MatchesNodeAffinity, Affinities!MatchesPvNodeAffinity,
     Affinities!GetAllPvAffinityTerms
<1>3. ASSUME NEW p, NEW n, NEW t
      PROVE  Affinities!AnyPodMatchesPodAffinityTerm(p, n, t)' <=> Affinities!AnyPodMatchesPodAffinityTerm(p, n, t)
  BY Zenon DEF Affinities!AnyPodMatchesPodAffinityTerm, Affinities!Others, Affinities!Matches,
     Affinities!NodesHaveSameTopologyKey, Affinities!HasLabel
<1>4. ASSUME NEW p, NEW n
      PROVE  Affinities!InterPodAffinityMatches(p, n)' <=> Affinities!InterPodAffinityMatches(p, n)
  <2>1. ASSUME NEW e
        PROVE  Affinities!MatchingAntiAffinityKeys(p, e)' = Affinities!MatchingAntiAffinityKeys(p, e)
    BY <1>1, Zenon DEF Affinities!MatchingAntiAffinityKeys, Affinities!LastTerm, Affinities!Matches
  <2>2. Affinities!SatisfiesExistingPodsAntiAffinity(p, n)' <=> Affinities!SatisfiesExistingPodsAntiAffinity(p, n)
    BY <2>1, Zenon DEF Affinities!SatisfiesExistingPodsAntiAffinity, Affinities!Others,
       Affinities!NodesHaveSameTopologyKey, Affinities!HasLabel
  <2>3. Affinities!SatisfiesPodsAffinityAntiAffinity(p, n)' <=> Affinities!SatisfiesPodsAffinityAntiAffinity(p, n)
    BY <1>1, <1>3, Zenon DEF Affinities!SatisfiesPodsAffinityAntiAffinity, Affinities!Others, Affinities!Matches
  <2> QED
    BY <2>2, <2>3, Zenon DEF Affinities!InterPodAffinityMatches
<1>5. ASSUME NEW p
      PROVE  Affinities!ProcessPodAffinityRules(p)' = Affinities!ProcessPodAffinityRules(p)
  <2>1. Affinities!NodeAffinityKeys(p)' = Affinities!NodeAffinityKeys(p)
    BY Zenon DEF Affinities!NodeAffinityKeys, Affinities!GetAllPvAffinityTerms
  <2>2. Affinities!PodAffinityKeys(p)' = Affinities!PodAffinityKeys(p)
    BY <1>1, Zenon DEF Affinities!PodAffinityKeys
  <2>3. {n \in AffinityNodes : Affinities!SatisfyNodeAffinities(p, n)}'
            = {n \in AffinityNodes : Affinities!SatisfyNodeAffinities(p, n)}
    BY <1>2, Zenon
  <2>4. {n \in AffinityNodes : Affinities!InterPodAffinityMatches(p, n)}'
            = {n \in AffinityNodes : Affinities!InterPodAffinityMatches(p, n)}
    BY <1>4, Zenon
  <2> QED
    BY <2>1, <2>2, <2>3, <2>4, Zenon DEF Affinities!ProcessPodAffinityRules, Affinities!AccessCommodities
<1>6. AllSold' = AllSold
  BY <1>5 DEF AllSold
<1>7. AllBought' = AllBought
  BY <1>5 DEF AllBought
<1> QED
  BY <1>6, <1>7, Zenon

\* Every worker step and the older algorithm's pass keep the invariant.
LEMMA AffinityInvStep ==
  ASSUME AffinityInv, [Affinities!Next]_Affinities!vars
  PROVE  AffinityInv'
<1>1. cluster' = cluster
  <2>1. UNCHANGED Affinities!vars => cluster' = cluster
    BY Zenon DEF Affinities!vars
  <2>2. (\E p \in AffinityPods : Affinities!ProcessAffinityPerPod(p)) => cluster' = cluster
    BY Zenon DEF Affinities!ProcessAffinityPerPod
  <2>3. Affinities!ProcessAffinityRules => cluster' = cluster
    BY DEF Affinities!ProcessAffinityRules
  <2> QED
    BY <2>1, <2>2, <2>3, Zenon DEF Affinities!Next, Affinities!Rest
<1>2. CASE UNCHANGED Affinities!vars
  <2>1. UNCHANGED <<waiting, nodesPods, podsWithAffinities, hostnameSpreadPods, otherSpreadPods,
                    accessSold, accessBought>>
    BY <1>2, Zenon DEF Affinities!vars
  <2>2. NewInv => NewInv'
    BY <1>1, <2>1, RulesUnmoved, Zenon DEF NewInv, SpreadInv, Processed
  <2>3. OldInv => OldInv'
    BY <1>1, <2>1, OldRulesUnmoved, Zenon DEF OldInv
  <2> QED
    BY <1>1, <2>2, <2>3, Zenon DEF AffinityInv
<1>3. ASSUME NEW p \in AffinityPods, Affinities!ProcessAffinityPerPod(p)
      PROVE  AffinityInv'
  <2>1. /\ cluster.newAlgorithm /\ p \in waiting /\ waiting' = waiting \ {p}
        /\ Affinities!SkipPod(p) \/ Affinities!PlacePod(p)
    BY <1>3, Zenon DEF Affinities!ProcessAffinityPerPod
  <2>2. NewInv
    BY <2>1, Zenon DEF AffinityInv
  <2>3. \A q : Processed(q)' <=> Processed(q) \/ (q = p /\ p \notin cluster.unresolved /\ Considered(p))
    BY <1>1, <2>1, RulesUnmoved, Zenon DEF Processed
  <2>4. p \notin podsWithAffinities
    BY <2>1, <2>2, Zenon DEF NewInv, Processed
  <2>5. CASE Affinities!SkipPod(p)
    <3>1. UNCHANGED <<nodesPods, podsWithAffinities, hostnameSpreadPods, otherSpreadPods>>
      BY <2>5, Zenon DEF Affinities!SkipPod, Affinities!newResult
    <3>2. \A q : Processed(q)' <=> Processed(q)
      BY <2>3, <2>5, Zenon DEF Affinities!SkipPod, Considered
    <3>3. NewInv'
      BY <1>1, <2>2, <3>1, <3>2, RulesUnmoved, Zenon DEF NewInv, SpreadInv
    <3> QED
      BY <1>1, <2>1, <3>3, Zenon DEF AffinityInv
  <2>6. CASE Affinities!PlacePod(p)
    <3>1. /\ p \notin cluster.unresolved
          /\ Considered(p)
          /\ hostnameSpreadPods \subseteq hostnameSpreadPods'
          /\ otherSpreadPods \subseteq otherSpreadPods'
          /\ (\E e \in Affinities!ExistingLookedAt(p) : Affinities!HostnameSpread(e, p)) => p \in hostnameSpreadPods'
          /\ (\E e \in Affinities!ExistingLookedAt(p) : Affinities!OtherSpread(e, p)) => p \in otherSpreadPods'
      BY <2>6 DEF Affinities!PlacePod, Affinities!PreFilter, Considered
    <3>2. SpreadInv'
      BY <1>1, <2>2, <2>3, <3>1, RulesUnmoved, Zenon DEF NewInv, SpreadInv
    <3>3. CASE Affinities!IsHostnameSpreadOnly(p)
      <4>1. UNCHANGED <<nodesPods, podsWithAffinities>>
        BY <2>6, <3>3, Zenon DEF Affinities!PlacePod
      <4> QED
        BY <1>1, <2>1, <2>2, <2>3, <3>2, <4>1, RulesUnmoved, Zenon DEF NewInv, AffinityInv
    <3>4. CASE ~Affinities!IsHostnameSpreadOnly(p)
      <4>1. /\ nodesPods' = nodesPods \cup {<<n, p>> : n \in {x \in AffinityNodes : Affinities!Filter(p, x)}}
            /\ podsWithAffinities' = podsWithAffinities \cup {p}
        BY <2>6, <3>4, Zenon DEF Affinities!PlacePod
      <4>2. ASSUME NEW q \in podsWithAffinities'
            PROVE  q \in AffinityPods /\ Processed(q)' /\ ~Affinities!IsHostnameSpreadOnly(q)'
        BY <1>1, <2>2, <2>3, <3>1, <3>4, <4>1, RulesUnmoved, Zenon DEF NewInv
      <4>3. ASSUME NEW n \in AffinityNodes, NEW q \in AffinityPods
            PROVE  <<n, q>> \in nodesPods' <=> q \in podsWithAffinities' /\ Affinities!Filter(q, n)'
        <5>1. Affinities!Filter(q, n)' <=> Affinities!Filter(q, n)
          BY <1>1, RulesUnmoved, Zenon
        <5>2. <<n, q>> \in nodesPods <=> q \in podsWithAffinities /\ Affinities!Filter(q, n)
          BY <2>2, Zenon DEF NewInv
        <5>3. <<n, q>> \in {<<m, p>> : m \in {x \in AffinityNodes : Affinities!Filter(p, x)}}
                 <=> q = p /\ Affinities!Filter(p, n)
          OBVIOUS
        <5> QED
          BY <2>4, <4>1, <5>1, <5>2, <5>3, Zenon
      <4>4. NewInv'
        BY <1>1, <3>2, <4>2, <4>3, Zenon DEF NewInv
      <4> QED
        BY <1>1, <2>1, <4>4, Zenon DEF AffinityInv
    <3> QED
      BY <3>3, <3>4, Zenon
  <2> QED
    BY <2>1, <2>5, <2>6, Zenon
<1>4. CASE Affinities!ProcessAffinityRules
  <2>1. OldInv'
    <3>1. accessSold' = AllSold /\ accessBought' = AllBought
      BY <1>4 DEF Affinities!ProcessAffinityRules, AllSold, AllBought
    <3> QED
      BY <1>1, <3>1, OldRulesUnmoved, Zenon DEF OldInv
  <2> QED
    BY <1>1, <1>4, <2>1, Zenon DEF AffinityInv, Affinities!ProcessAffinityRules
<1> QED
  BY <1>2, <1>3, <1>4, Zenon DEF Affinities!Next, Affinities!Rest

-----------------------------------------------------------------------------
(* What the results of both algorithms mean.                               *)

\* LABEL commodities follow the rules of all pods.
LEMMA LabelsByRules ==
  ASSUME cluster \in AffinityClusters, NewInv, Affinities!Uniform
  PROVE  Affinities!LabelsFollowRules
<1> SUFFICES ASSUME NEW p \in podsWithAffinities, NEW n \in AffinityNodes
             PROVE  LET found == Affinities!LabelsBought(p) \subseteq Affinities!LabelsSold(n)
                    IN  /\ found <=> \E q \in podsWithAffinities : Affinities!LabelKey(q) = Affinities!LabelKey(p)
                                                                  /\ Affinities!AllowedOn(q, n)
                        /\ found /\ (\E q \in Affinities!Others(p) \ cluster.unresolved : Affinities!OtherSpread(q, p))
                             => Affinities!AllowedOn(p, n)
  BY Zenon DEF Affinities!LabelsFollowRules
<1> DEFINE key(q) == Affinities!LabelKey(q)
           found == Affinities!LabelsBought(p) \subseteq Affinities!LabelsSold(n)
<1>1. \A q \in podsWithAffinities : q \in AffinityPods /\ Processed(q) /\ ~Affinities!IsHostnameSpreadOnly(q)
  BY Zenon DEF NewInv
<1>2. \A q \in AffinityPods : <<n, q>> \in nodesPods <=> q \in podsWithAffinities /\ Affinities!AllowedOn(q, n)
  BY <1>1, FilterMeans, Zenon DEF NewInv
<1>3. found <=> \E q \in AffinityPods : <<n, q>> \in nodesPods /\ key(q) = key(p)
  BY Zenon DEF Affinities!LabelsBought, Affinities!LabelsSold
<1>4. found <=> \E q \in podsWithAffinities : key(q) = key(p) /\ Affinities!AllowedOn(q, n)
  BY <1>1, <1>2, <1>3, Zenon
<1>5. ASSUME found, NEW q \in Affinities!Others(p), Affinities!OtherSpread(q, p)
      PROVE  Affinities!AllowedOn(p, n)
  <2>1. Affinities!AntiAffinity(q) # {}
    BY <1>5, Zenon DEF Affinities!OtherSpread, Affinities!SpreadTerms
  <2>2. q \in Affinities!ExistingLookedAt(p)
    BY <1>1, <2>1, AllExisting, Zenon
  <2>3. p \in otherSpreadPods
    BY <1>1, <1>5, <2>2, Zenon DEF NewInv, SpreadInv
  <2>4. key(p) = p
    BY <2>3, Zenon DEF Affinities!LabelKey
  <2>5. PICK r \in podsWithAffinities : key(r) = key(p) /\ Affinities!AllowedOn(r, n)
    BY <1>4, <1>5, Zenon
  <2>6. r = p
    <3>1. WorkloadOf[r] \notin AffinityPods
      BY <1>1, AffinityAssumption, Zenon
    <3>2. key(r) = r \/ key(r) = WorkloadOf[r]
      BY Zenon DEF Affinities!LabelKey
    <3> QED
      BY <1>1, <2>4, <2>5, <3>1, <3>2, Zenon
  <2> QED
    BY <2>5, <2>6, Zenon
<1> QED
  BY <1>4, <1>5, Zenon

\* A processed pod that a replica keeps off its host is left to segmentation.
LEMMA SpreadIsSegmented ==
  ASSUME cluster \in AffinityClusters, NewInv, waiting = {}, NEW p \in AffinityPods \ cluster.unresolved,
         NEW e \in Affinities!Others(p), Affinities!HostnameSpread(e, p), Affinities!AntiAffinity(p) # {}
  PROVE  p \in hostnameSpreadPods
<1>1. Processed(p)
  BY Zenon DEF Processed, Considered, Affinities!PodWithAffinity
<1>2. \E x \in Affinities!ExistingLookedAt(p) : Affinities!HostnameSpread(x, p)
  BY SpreadNoticed, Zenon
<1> QED
  BY <1>1, <1>2, Zenon DEF NewInv, SpreadInv

\* Replicas that refuse each other's host use one segment.
LEMMA ReplicasApart ==
  ASSUME cluster \in AffinityClusters, NewInv, waiting = {}, Affinities!Uniform
  PROVE  Affinities!ReplicasKeptApart
<1> SUFFICES ASSUME NEW p \in AffinityPods \ cluster.unresolved, NEW q \in AffinityPods \ cluster.unresolved,
                    p # q, Affinities!HostnameSpread(p, q)
             PROVE  Affinities!SegmentsBought(p) \cap Affinities!SegmentsBought(q) # {}
  BY Zenon DEF Affinities!ReplicasKeptApart
<1>1. Affinities!HostnameSpread(q, p)
  BY SpreadIsMutual, Zenon DEF Affinities!HostnameSpread
<1>2. /\ Affinities!SameParent(p, q)
      /\ Affinities!AntiAffinity(p) # {}
      /\ Affinities!AntiAffinity(q) # {}
  BY <1>1, Zenon DEF Affinities!HostnameSpread, Affinities!SpreadTerms
<1>3. p \in Affinities!Others(q) /\ q \in Affinities!Others(p)
  BY Zenon DEF Affinities!Others
<1>4. p \in hostnameSpreadPods /\ q \in hostnameSpreadPods
  BY <1>1, <1>2, <1>3, SpreadIsSegmented, Zenon
<1> QED
  BY <1>2, <1>4, Zenon DEF Affinities!SegmentsBought, Affinities!SameParent

\* What is sold and bought, key by key.
LEMMA SoldByRules ==
  ASSUME NEW n, NEW k
  PROVE  <<n, k>> \in AllSold <=>
           \E p \in AffinityPods :
              /\ n \in AffinityNodes
              /\ \/ k \in Affinities!NodeAffinityKeys(p) /\ Affinities!SatisfyNodeAffinities(p, n)
                 \/ k \in Affinities!PodAffinityKeys(p) /\ Affinities!InterPodAffinityMatches(p, n)
<1> DEFINE rules(p) == Affinities!ProcessPodAffinityRules(p)
<1>1. ASSUME NEW p
      PROVE  /\ rules(p)[1].sold = {m \in AffinityNodes : Affinities!SatisfyNodeAffinities(p, m)}
                                     \X Affinities!NodeAffinityKeys(p)
             /\ rules(p)[2].sold = {m \in AffinityNodes : Affinities!InterPodAffinityMatches(p, m)}
                                     \X Affinities!PodAffinityKeys(p)
  BY DEF Affinities!ProcessPodAffinityRules, Affinities!AccessCommodities
<1> HIDE DEF rules
<1>2. <<n, k>> \in AllSold <=> \E p \in AffinityPods : <<n, k>> \in rules(p)[1].sold \/ <<n, k>> \in rules(p)[2].sold
  BY DEF AllSold, rules
<1>3. ASSUME NEW p
      PROVE  /\ <<n, k>> \in rules(p)[1].sold <=>
                    /\ n \in AffinityNodes
                    /\ k \in Affinities!NodeAffinityKeys(p) /\ Affinities!SatisfyNodeAffinities(p, n)
             /\ <<n, k>> \in rules(p)[2].sold <=>
                    /\ n \in AffinityNodes
                    /\ k \in Affinities!PodAffinityKeys(p) /\ Affinities!InterPodAffinityMatches(p, n)
  BY <1>1
<1> QED
  BY <1>2, <1>3, Zenon

\* A sold commodity is a node with a key.
LEMMA SoldArePairs ==
  ASSUME NEW x \in AllSold
  PROVE  x = <<x[1], x[2]>>
<1> DEFINE rules(p) == Affinities!ProcessPodAffinityRules(p)
<1>1. ASSUME NEW p
      PROVE  /\ rules(p)[1].sold = {m \in AffinityNodes : Affinities!SatisfyNodeAffinities(p, m)}
                                     \X Affinities!NodeAffinityKeys(p)
             /\ rules(p)[2].sold = {m \in AffinityNodes : Affinities!InterPodAffinityMatches(p, m)}
                                     \X Affinities!PodAffinityKeys(p)
  BY DEF Affinities!ProcessPodAffinityRules, Affinities!AccessCommodities
<1> HIDE DEF rules
<1>2. \E p \in AffinityPods : x \in rules(p)[1].sold \/ x \in rules(p)[2].sold
  BY DEF AllSold, rules
<1> QED
  BY <1>1, <1>2

\* A pod buys its keys if they are sold anywhere.
LEMMA BoughtByRules ==
  ASSUME NEW p, NEW k
  PROVE  (\E x \in AllBought : x[1] = p /\ x[3] = k) <=>
           /\ p \in AffinityPods
           /\ \/ /\ k \in Affinities!NodeAffinityKeys(p)
                 /\ \E n \in AffinityNodes : Affinities!SatisfyNodeAffinities(p, n)
              \/ /\ k \in Affinities!PodAffinityKeys(p)
                 /\ \E n \in AffinityNodes : Affinities!InterPodAffinityMatches(p, n)
<1> DEFINE rules(q) == Affinities!ProcessPodAffinityRules(q)
<1>1. ASSUME NEW q
      PROVE  /\ rules(q)[1].bought = IF \A n \in AffinityNodes : ~Affinities!SatisfyNodeAffinities(q, n) THEN {}
                                     ELSE {q} \X {cluster.hostOf[q]} \X Affinities!NodeAffinityKeys(q)
             /\ rules(q)[2].bought = IF \A n \in AffinityNodes : ~Affinities!InterPodAffinityMatches(q, n) THEN {}
                                     ELSE {q} \X {cluster.hostOf[q]} \X Affinities!PodAffinityKeys(q)
  <2>1. \A A, B : <<A, B>>[1] = A /\ <<A, B>>[2] = B
    BY Zenon
  <2>2. /\ rules(q)[1] = Affinities!AccessCommodities(Affinities!NodeAffinityKeys(q), q,
                            {n \in AffinityNodes : Affinities!SatisfyNodeAffinities(q, n)})
        /\ rules(q)[2] = Affinities!AccessCommodities(Affinities!PodAffinityKeys(q), q,
                            {n \in AffinityNodes : Affinities!InterPodAffinityMatches(q, n)})
    BY <2>1, Zenon DEF Affinities!ProcessPodAffinityRules
  <2>3. ASSUME NEW keys, NEW fits
        PROVE  Affinities!AccessCommodities(keys, q, fits).bought
                 = IF fits = {} THEN {} ELSE {q} \X {cluster.hostOf[q]} \X keys
    BY Zenon DEF Affinities!AccessCommodities
  <2>4. {n \in AffinityNodes : Affinities!SatisfyNodeAffinities(q, n)} = {} <=>
          \A n \in AffinityNodes : ~Affinities!SatisfyNodeAffinities(q, n)
    BY Zenon
  <2>5. {n \in AffinityNodes : Affinities!InterPodAffinityMatches(q, n)} = {} <=>
          \A n \in AffinityNodes : ~Affinities!InterPodAffinityMatches(q, n)
    BY Zenon
  <2> HIDE DEF rules
  <2>6. rules(q)[1].bought = IF \A n \in AffinityNodes : ~Affinities!SatisfyNodeAffinities(q, n) THEN {}
                             ELSE {q} \X {cluster.hostOf[q]} \X Affinities!NodeAffinityKeys(q)
    BY <2>2, <2>3, <2>4
  <2>7. rules(q)[2].bought = IF \A n \in AffinityNodes : ~Affinities!InterPodAffinityMatches(q, n) THEN {}
                             ELSE {q} \X {cluster.hostOf[q]} \X Affinities!PodAffinityKeys(q)
    BY <2>2, <2>3, <2>5
  <2> QED
    BY <2>6, <2>7, Zenon
<1> HIDE DEF rules
<1>2. \A x : x \in AllBought <=> \E q \in AffinityPods : x \in rules(q)[1].bought \/ x \in rules(q)[2].bought
  BY DEF AllBought, rules
<1>3. ASSUME NEW x \in AllBought, x[1] = p, x[3] = k
      PROVE  /\ p \in AffinityPods
             /\ \/ /\ k \in Affinities!NodeAffinityKeys(p)
                   /\ \E n \in AffinityNodes : Affinities!SatisfyNodeAffinities(p, n)
                \/ /\ k \in Affinities!PodAffinityKeys(p)
                   /\ \E n \in AffinityNodes : Affinities!InterPodAffinityMatches(p, n)
  <2>1. PICK q \in AffinityPods : x \in rules(q)[1].bought \/ x \in rules(q)[2].bought
    BY <1>2, Zenon
  <2>2. CASE x \in rules(q)[1].bought
    <3>1. /\ x \in {q} \X {cluster.hostOf[q]} \X Affinities!NodeAffinityKeys(q)
          /\ \E n \in AffinityNodes : Affinities!SatisfyNodeAffinities(q, n)
      BY <1>1, <2>2, Zenon
    <3>2. x[1] = q /\ x[3] \in Affinities!NodeAffinityKeys(q)
      BY <3>1
    <3> QED
      BY <1>3, <3>1, <3>2, Zenon
  <2>3. CASE x \in rules(q)[2].bought
    <3>1. /\ x \in {q} \X {cluster.hostOf[q]} \X Affinities!PodAffinityKeys(q)
          /\ \E n \in AffinityNodes : Affinities!InterPodAffinityMatches(q, n)
      BY <1>1, <2>3, Zenon
    <3>2. x[1] = q /\ x[3] \in Affinities!PodAffinityKeys(q)
      BY <3>1
    <3> QED
      BY <1>3, <3>1, <3>2, Zenon
  <2> QED
    BY <2>1, <2>2, <2>3, Zenon
<1>4. ASSUME p \in AffinityPods, k \in Affinities!NodeAffinityKeys(p),
             \E n \in AffinityNodes : Affinities!SatisfyNodeAffinities(p, n)
      PROVE  <<p, cluster.hostOf[p], k>> \in AllBought
  <2>1. <<p, cluster.hostOf[p], k>> \in {p} \X {cluster.hostOf[p]} \X Affinities!NodeAffinityKeys(p)
    BY <1>4
  <2>2. <<p, cluster.hostOf[p], k>> \in rules(p)[1].bought
    BY <1>1, <1>4, <2>1, Zenon
  <2> QED
    BY <1>2, <1>4, <2>2, Zenon
<1>5. ASSUME p \in AffinityPods, k \in Affinities!PodAffinityKeys(p),
             \E n \in AffinityNodes : Affinities!InterPodAffinityMatches(p, n)
      PROVE  <<p, cluster.hostOf[p], k>> \in AllBought
  <2>1. <<p, cluster.hostOf[p], k>> \in {p} \X {cluster.hostOf[p]} \X Affinities!PodAffinityKeys(p)
    BY <1>5
  <2>2. <<p, cluster.hostOf[p], k>> \in rules(p)[2].bought
    BY <1>1, <1>5, <2>1, Zenon
  <2> QED
    BY <1>2, <1>5, <2>2, Zenon
<1>6. <<p, cluster.hostOf[p], k>>[1] = p /\ <<p, cluster.hostOf[p], k>>[3] = k
  OBVIOUS
<1> QED
  BY <1>3, <1>4, <1>5, <1>6, Zenon

\* Access commodities follow the node rules and the pod rules.
LEMMA AccessByRules ==
  ASSUME cluster \in AffinityClusters, accessSold = AllSold, accessBought = AllBought
  PROVE  Affinities!AccessFollowsRules
<1> SUFFICES ASSUME NEW p \in AffinityPods, NEW n \in AffinityNodes,
                    \A q \in AffinityPods : Affinities!NodeAffinityKeys(p) \cap Affinities!NodeAffinityKeys(q) # {}
                       => \A m \in AffinityNodes :
                            Affinities!SatisfyNodeAffinities(p, m) <=> Affinities!SatisfyNodeAffinities(q, m)
             PROVE  LET bought == {b[3] : b \in {x \in accessBought : x[1] = p}}
                        sold == {s[2] : s \in {x \in accessSold : x[1] = n}}
                    IN  bought \subseteq sold <=>
                          /\ Affinities!NodeAffinityKeys(p) \subseteq bought => Affinities!SatisfyNodeAffinities(p, n)
                          /\ Affinities!PodAffinityKeys(p) # {} /\ Affinities!PodAffinityKeys(p) \subseteq bought
                                => Affinities!InterPodAffinityMatches(p, n)
  BY Zenon DEF Affinities!AccessFollowsRules
<1> DEFINE bought == {b[3] : b \in {x \in accessBought : x[1] = p}}
           sold == {s[2] : s \in {x \in accessSold : x[1] = n}}
           nodeKeys(q) == Affinities!NodeAffinityKeys(q)
           podKeys(q) == Affinities!PodAffinityKeys(q)
           node(q, m) == Affinities!SatisfyNodeAffinities(q, m)
           pods(q, m) == Affinities!InterPodAffinityMatches(q, m)
<1>1. \A k : k \in bought <=>
                \/ k \in nodeKeys(p) /\ \E m \in AffinityNodes : node(p, m)
                \/ k \in podKeys(p) /\ \E m \in AffinityNodes : pods(p, m)
  <2>1. \A k : k \in bought <=> \E x \in AllBought : x[1] = p /\ x[3] = k
    BY Zenon
  <2>2. ASSUME NEW k
        PROVE  (\E x \in AllBought : x[1] = p /\ x[3] = k) <=>
                  \/ k \in nodeKeys(p) /\ \E m \in AffinityNodes : node(p, m)
                  \/ k \in podKeys(p) /\ \E m \in AffinityNodes : pods(p, m)
    BY BoughtByRules
  <2> HIDE DEF bought, nodeKeys, podKeys, node, pods
  <2> QED
    BY <2>1, <2>2, Zenon
<1>2. \A k : k \in sold <=> \E q \in AffinityPods :
             (k \in nodeKeys(q) /\ node(q, n)) \/ (k \in podKeys(q) /\ pods(q, n))
  <2>1. \A x \in AllSold : x = <<x[1], x[2]>>
    BY SoldArePairs, Zenon
  <2>2. \A k : k \in sold <=> <<n, k>> \in AllSold
    BY <2>1
  <2>3. ASSUME NEW k
        PROVE  <<n, k>> \in AllSold <=> \E q \in AffinityPods :
             (k \in nodeKeys(q) /\ node(q, n)) \/ (k \in podKeys(q) /\ pods(q, n))
    BY SoldByRules
  <2> HIDE DEF sold, nodeKeys, podKeys, node, pods
  <2> QED
    BY <2>2, <2>3, Zenon
<1>3. \A q, k : k \in nodeKeys(p) => k \notin podKeys(q)
  BY DEF Affinities!NodeAffinityKeys, Affinities!PodAffinityKeys
<1>4. \A q, k : k \in podKeys(p) /\ k \in podKeys(q) => q = p
  BY DEF Affinities!PodAffinityKeys
<1>5. \A q, k : k \in podKeys(p) => k \notin nodeKeys(q)
  BY DEF Affinities!NodeAffinityKeys, Affinities!PodAffinityKeys
<1>6. nodeKeys(p) = {} => node(p, n)
  <2>1. nodeKeys(p) = {} => cluster.nodeTerms[p] = None /\ Affinities!GetAllPvAffinityTerms(p) = {}
    <3>1. cluster.nodeTerms[p] # {}
      BY ClusterFacts, Zenon
    <3>2. \A T : {<<"node", t>> : t \in T} = {} => T = {}
      BY Zenon
    <3>3. nodeKeys(p) = {} => (IF cluster.nodeTerms[p] = None THEN {} ELSE cluster.nodeTerms[p])
                                 \cup Affinities!GetAllPvAffinityTerms(p) = {}
      BY <3>2, Zenon DEF Affinities!NodeAffinityKeys
    <3> HIDE DEF nodeKeys
    <3> QED
      BY <3>1, <3>3
  <2> QED
    BY <2>1, Zenon DEF Affinities!SatisfyNodeAffinities, Affinities!MatchesNodeAffinity,
       Affinities!MatchesPvNodeAffinity
<1> HIDE DEF bought, sold, nodeKeys, podKeys, node, pods
<1>7. ASSUME bought \subseteq sold, nodeKeys(p) \subseteq bought
      PROVE  node(p, n)
  <2>1. ASSUME NEW k \in nodeKeys(p)
        PROVE  node(p, n)
    <3>1. PICK q \in AffinityPods : k \in nodeKeys(q) /\ node(q, n)
      BY <1>2, <1>3, <1>7, <2>1, Zenon
    <3>2. nodeKeys(p) \cap nodeKeys(q) # {}
      BY <2>1, <3>1, Zenon
    <3> QED
      BY <3>1, <3>2, Zenon DEF nodeKeys, node
  <2> QED
    BY <1>6, <2>1, Zenon
<1>8. ASSUME bought \subseteq sold, NEW k \in podKeys(p), podKeys(p) \subseteq bought
      PROVE  pods(p, n)
  BY <1>2, <1>4, <1>5, <1>8, Zenon
<1>9. ASSUME nodeKeys(p) \subseteq bought => node(p, n),
             podKeys(p) # {} /\ podKeys(p) \subseteq bought => pods(p, n),
             NEW k \in bought
      PROVE  k \in sold
  <2>1. CASE k \in nodeKeys(p) /\ \E m \in AffinityNodes : node(p, m)
    <3>1. nodeKeys(p) \subseteq bought
      BY <1>1, <2>1, Zenon
    <3> QED
      <4>1. node(p, n)
        BY <1>9, <3>1, Zenon
      <4> QED
        BY <1>2, <2>1, <4>1, Zenon
  <2>2. CASE k \in podKeys(p) /\ \E m \in AffinityNodes : pods(p, m)
    <3>1. podKeys(p) \subseteq bought /\ podKeys(p) # {}
      BY <1>1, <2>2, Zenon
    <3> QED
      BY <1>2, <1>9, <2>2, <3>1, Zenon
  <2> QED
    BY <1>1, <1>9, <2>1, <2>2, Zenon
<1>10. bought \subseteq sold <=>
          /\ nodeKeys(p) \subseteq bought => node(p, n)
          /\ podKeys(p) # {} /\ podKeys(p) \subseteq bought => pods(p, n)
  <2>1. podKeys(p) # {} => \E k : k \in podKeys(p)
    BY Zenon
  <2>2. bought \subseteq sold /\ podKeys(p) # {} /\ podKeys(p) \subseteq bought => pods(p, n)
    BY <1>8, <2>1, Zenon
  <2>3. ASSUME nodeKeys(p) \subseteq bought => node(p, n),
               podKeys(p) # {} /\ podKeys(p) \subseteq bought => pods(p, n)
        PROVE  bought \subseteq sold
    BY <1>9, <2>3, Zenon
  <2> QED
    BY <1>7, <2>2, <2>3, Zenon
<1> QED
  BY <1>10 DEF bought, sold, nodeKeys, podKeys, node, pods

\* The invariant implies the property.
LEMMA AffinityInvMeans ==
  ASSUME AffinityInv
  PROVE  Affinities!PlacementFollowsRules
<1>1. cluster \in AffinityClusters
  BY Zenon DEF AffinityInv
<1>2. CASE cluster.newAlgorithm
  BY <1>1, <1>2, LabelsByRules, ReplicasApart, Zenon DEF AffinityInv, Affinities!PlacementFollowsRules
<1>3. CASE ~cluster.newAlgorithm
  <2> SUFFICES ASSUME waiting = {} PROVE Affinities!AccessFollowsRules
    BY <1>3, Zenon DEF Affinities!PlacementFollowsRules
  <2>1. OldInv
    BY <1>3, Zenon DEF AffinityInv
  <2>2. CASE AffinityPods = {}
    BY <2>2, Zenon DEF Affinities!AccessFollowsRules
  <2> QED
    BY <1>1, <2>1, <2>2, AccessByRules, Zenon DEF OldInv
<1> QED
  BY <1>2, <1>3, Zenon

\* For any cluster and any order of the workers: the LABEL and SEGMENTATION
\* commodities of the newer algorithm (ProcessAffinities) and the access
\* commodities of the older one (ProcessAffinityRules) place a pod where the
\* affinity rules allow it.
THEOREM PlacementIsByRules == Affinities!Spec => []PlacementFollowsRules
<1>1. Affinities!Init => AffinityInv
  BY AffinityInvInit, Zenon
<1>2. AffinityInv /\ [Affinities!Next]_Affinities!vars => AffinityInv'
  BY AffinityInvStep, Zenon
<1>3. AffinityInv => PlacementFollowsRules
  BY AffinityInvMeans, Zenon DEF PlacementFollowsRules
<1> QED
  BY <1>1, <1>2, <1>3, PTL DEF Affinities!Spec
=============================================================================
