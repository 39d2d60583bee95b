----------------------------- MODULE PodAffinity -----------------------------
(***************************************************************************)
(* How affinity rules become commodities (pkg/discovery/worker/compliance  *)
(* and its package podaffinity).  A discovery runs ProcessAffinities over  *)
(* all pods in parallel: every pod with an affinity is matched against     *)
(* every node, and the node/pod pairs that fit become LABEL commodities;   *)
(* replicas that keep apart by host name are left to SEGMENTATION          *)
(* commodities instead.  The older AffinityProcessor, still selected by a  *)
(* feature gate, decides the same question with a different algorithm and  *)
(* is modelled next to it.                                                 *)
(*                                                                         *)
(* A term selects a set of labels (namespaces and selector together) under *)
(* a topology key; a node selector term is the set of nodes it matches.    *)
(* The match counts are only compared with zero, so a count map is the set *)
(* of its topology pairs.                                                  *)
(***************************************************************************)
EXTENDS Naturals, Sequences

CONSTANTS
    Nodes, Pods, None,
    ControllerOf,       \* Pods -> the workload of the pod, or None
    LabelOf,            \* Pods -> the label the selectors test
    TopologyOf,         \* Nodes -> [topology key -> value, or None]
    HonorPvAffinity,    \* the feature gate HonorAzLabelPvAffinity
    Scenarios           \* the clusters: placement, affinities, volumes

VARIABLES
    cluster,            \* the cluster summary of this discovery
    waiting,            \* pods the parallelizer has not processed yet
    nodesPods,          \* <<node, pod>>: the pod may be placed on the node
    podsWithAffinities, \* pods that buy a LABEL commodity
    hostnameSpreadPods, \* members of hostnameSpreadWorkloads
    otherSpreadPods,
    accessSold,         \* <<node, key>> of the older algorithm's VMPM_ACCESS
    accessBought        \* <<pod, provider, key>> of the same

newResult == <<nodesPods, podsWithAffinities, hostnameSpreadPods, otherSpreadPods>>
oldResult == <<accessSold, accessBought>>
vars == <<cluster, waiting, nodesPods, podsWithAffinities, hostnameSpreadPods, otherSpreadPods,
          accessSold, accessBought>>

Hostname == "kubernetes.io/hostname"

Others(p) == Pods \ {p}

Affinity(p) == cluster.affinity[p]
AntiAffinity(p) == {cluster.antiAffinity[p][i] : i \in DOMAIN cluster.antiAffinity[p]}

\* NodeInfo: the pods of a node in list order, given by their places in the
\* list.  AddPodInfo keeps the ones with required anti-affinity terms apart.
PodsOn(n) == {i \in DOMAIN cluster.order : cluster.hostOf[cluster.order[i]] = n}
WithRequiredAntiAffinity(n) == {i \in PodsOn(n) : AntiAffinity(cluster.order[i]) # {}}

Matches(t, p) == LabelOf[p] \in t.selects
PodMatchesAllAffinityTerms(terms, p) == terms # {} /\ \A t \in terms : Matches(t, p)

\* update: the topology pair of a node under a key, if the node has the label.
Pair(n, k) == IF TopologyOf[n][k] = None THEN {} ELSE {<<k, TopologyOf[n][k]>>}

UpdateWithAffinityTerms(terms, p, n) ==
    IF PodMatchesAllAffinityTerms(terms, p) THEN UNION {Pair(n, t.key) : t \in terms} ELSE {}

UpdateWithAntiAffinityTerms(terms, p, n) ==
    UNION {Pair(n, t.key) : t \in {x \in terms : Matches(x, p)}}

-----------------------------------------------------------------------------
(* PreFilter *)

SameParent(p, q) == ControllerOf[p] # None /\ ControllerOf[p] = ControllerOf[q]

\* podAntiAffinityMatchesItsReplica(existing, this): the existing pod's terms
\* that keep it apart from its own replica, by host name or by another key.
SpreadTerms(existing, this) ==
    IF SameParent(existing, this) THEN {t \in AntiAffinity(existing) : Matches(t, this)} ELSE {}
HostnameSpread(existing, this) == \E t \in SpreadTerms(existing, this) : t.key = Hostname
OtherSpread(existing, this) == \E t \in SpreadTerms(existing, this) : t.key # Hostname
TermsToConsiderFurther(existing, this) ==
    AntiAffinity(existing) \ {t \in SpreadTerms(existing, this) : t.key = Hostname}

\* The existing pods a loop over a node's pods looks at for p: not p itself, and
\* none after the first one at which the loop breaks.
LookedAt(places, p, breaking) ==
    LET before == {i \in places : \A j \in places : cluster.order[j] \in breaking \ {p} => i <= j}
    IN  {cluster.order[i] : i \in before} \ {p}

\* The terms of the first pod are all about its replica and its host.
HostnameSpreadOnly(existing, this) ==
    HostnameSpread(existing, this) /\ TermsToConsiderFurther(existing, this) = {}

ExistingLookedAt(p) ==
    LET breaking == {e \in Pods : HostnameSpreadOnly(e, p)}
    IN  UNION {LookedAt(WithRequiredAntiAffinity(n), p, breaking) : n \in Nodes}

IsHostnameSpreadOnly(p) == \E e \in ExistingLookedAt(p) : HostnameSpreadOnly(e, p)

GetExistingAntiAffinityCounts(p) ==
    UNION {UpdateWithAntiAffinityTerms(TermsToConsiderFurther(e, p), p, cluster.hostOf[e]) :
               e \in ExistingLookedAt(p)}

\* Without required terms of its own a pod is not compared with the others.
IncomingLookedAt(p) ==
    LET breaking == {e \in Pods : HostnameSpreadOnly(p, e)}
    IN  IF Affinity(p) = {} /\ AntiAffinity(p) = {} THEN {}
        ELSE UNION {LookedAt(PodsOn(n), p, breaking) : n \in Nodes}

GetIncomingAffinityCounts(p) ==
    UNION {UpdateWithAffinityTerms(Affinity(p), e, cluster.hostOf[e]) : e \in IncomingLookedAt(p)}

GetIncomingAntiAffinityCounts(p) ==
    UNION {UpdateWithAntiAffinityTerms(TermsToConsiderFurther(p, e), e, cluster.hostOf[e]) :
               e \in {x \in IncomingLookedAt(p) : ~HostnameSpreadOnly(p, x)}}

-----------------------------------------------------------------------------
(* Filter *)

HasLabel(n, k) == TopologyOf[n][k] # None

\* Mutant: a pod with affinity to itself may go anywhere.
SelfSeriesAnywhere(p, n) ==
    /\ \A t \in Affinity(p) : HasLabel(n, t.key)
    /\ \/ \A t \in Affinity(p) : Pair(n, t.key) \subseteq GetIncomingAffinityCounts(p)
       \/ PodMatchesAllAffinityTerms(Affinity(p), p)

\* The counts of the first pod of a series that has affinity to itself are
\* ignored, so that the series can start somewhere.
SatisfyPodAffinity(p, n) ==
    LET counts == GetIncomingAffinityCounts(p)
    IN  /\ \A t \in Affinity(p) : HasLabel(n, t.key)
        /\ \/ \A t \in Affinity(p) : Pair(n, t.key) \subseteq counts
           \/ counts = {} /\ PodMatchesAllAffinityTerms(Affinity(p), p)

SatisfyPodAntiAffinity(p, n) ==
    \A t \in AntiAffinity(p) : Pair(n, t.key) \cap GetIncomingAntiAffinityCounts(p) = {}

SatisfyExistingPodsAntiAffinity(p, n) ==
    \A k \in DOMAIN TopologyOf[n] : Pair(n, k) \cap GetExistingAntiAffinityCounts(p) = {}

\* An absent requirement selects every node; the terms of all the pod's volumes
\* are one list of alternatives.
MatchesNodeAffinity(p, n) == cluster.nodeTerms[p] # None => n \in UNION cluster.nodeTerms[p]
GetAllPvAffinityTerms(p) == IF HonorPvAffinity THEN UNION cluster.pvTerms[p] ELSE {}
MatchesPvNodeAffinity(p, n) == GetAllPvAffinityTerms(p) # {} => n \in UNION GetAllPvAffinityTerms(p)
SatisfyNodeAffinities(p, n) == MatchesNodeAffinity(p, n) /\ MatchesPvNodeAffinity(p, n)

Filter(p, n) ==
    /\ SatisfyPodAffinity(p, n)
    /\ SatisfyPodAntiAffinity(p, n)
    /\ SatisfyExistingPodsAntiAffinity(p, n)
    /\ SatisfyNodeAffinities(p, n)

PodWithAffinity(p) == Affinity(p) # {} \/ AntiAffinity(p) # {} \/ cluster.nodeTerms[p] # None
PodsVolumeHasAffinities(p) == UNION cluster.pvTerms[p] # {}

-----------------------------------------------------------------------------
(* ProcessAffinities *)

Init ==
    /\ cluster \in Scenarios
    /\ waiting = Pods
    /\ nodesPods = {}
    /\ podsWithAffinities = {}
    /\ hostnameSpreadPods = {}
    /\ otherSpreadPods = {}
    /\ accessSold = {}
    /\ accessBought = {}

SkipPod(p) ==
    /\ ~(PodWithAffinity(p) \/ PodsVolumeHasAffinities(p)) \/ p \in cluster.unresolved
    /\ UNCHANGED newResult

\* Listing the namespaces of a selector failed for the pods of cluster.unresolved:
\* PreFilter returns an error before it looks at any other pod.
PreFilter(p) ==
    LET existing == ExistingLookedAt(p)
        incoming == IF IsHostnameSpreadOnly(p) THEN {} ELSE IncomingLookedAt(p)
    IN  /\ PodWithAffinity(p) \/ PodsVolumeHasAffinities(p)
        /\ p \notin cluster.unresolved
        /\ hostnameSpreadPods' = hostnameSpreadPods
               \cup (IF \E e \in existing : HostnameSpread(e, p) THEN {p} ELSE {})
               \cup {e \in incoming : HostnameSpread(p, e)}
        /\ otherSpreadPods' = otherSpreadPods
               \cup (IF \E e \in existing : OtherSpread(e, p) THEN {p} ELSE {})
               \cup {e \in incoming : OtherSpread(p, e)}

PlacePod(p) ==
    /\ PreFilter(p)
    /\ IF IsHostnameSpreadOnly(p)
       THEN UNCHANGED <<nodesPods, podsWithAffinities>>
       ELSE /\ nodesPods' = nodesPods \cup {<<n, p>> : n \in {x \in Nodes : Filter(p, x)}}
            /\ podsWithAffinities' = podsWithAffinities \cup {p}

\* What a worker does for one pod reads nothing the other workers write, and
\* its writes are insertions into sets under the processor's lock.
ProcessAffinityPerPod(p) ==
    /\ cluster.newAlgorithm
    /\ p \in waiting
    /\ waiting' = waiting \ {p}
    /\ UNCHANGED <<cluster, oldResult>>
    /\ SkipPod(p) \/ PlacePod(p)

-----------------------------------------------------------------------------
(* The commodities built from the result *)

\* The key of a pod's LABEL commodity: its workload, unless its replicas may
\* have to be placed differently.
LabelKey(p) == IF ControllerOf[p] = None \/ p \in otherSpreadPods THEN p ELSE ControllerOf[p]

LabelsSold(n) == {LabelKey(p) : p \in {q \in Pods : <<n, q>> \in nodesPods}}
LabelsBought(p) == IF p \in podsWithAffinities THEN {LabelKey(p)} ELSE {}

\* Segmentation: every node sells one unit for each spread workload, and every
\* spread pod with a known workload uses one.
SegmentsBought(p) == IF p \in hostnameSpreadPods /\ ControllerOf[p] # None THEN {ControllerOf[p]} ELSE {}

-----------------------------------------------------------------------------
(* The older AffinityProcessor *)

NodesHaveSameTopologyKey(n, m, k) == HasLabel(n, k) /\ TopologyOf[n][k] = TopologyOf[m][k]

\* getMatchingAntiAffinityTerms keeps a pointer to the loop variable: whichever
\* of an existing pod's terms matched, the key used is the one of its last term.
LastTerm(e) == cluster.antiAffinity[e][Len(cluster.antiAffinity[e])]
MatchingAntiAffinityKeys(p, e) ==
    IF \E t \in AntiAffinity(e) : Matches(t, p) THEN {LastTerm(e).key} ELSE {}

SatisfiesExistingPodsAntiAffinity(p, n) ==
    \A e \in Others(p) : \A k \in MatchingAntiAffinityKeys(p, e) :
        ~NodesHaveSameTopologyKey(n, cluster.hostOf[e], k)

AnyPodMatchesPodAffinityTerm(p, n, t) ==
    \E e \in Others(p) : Matches(t, e) /\ NodesHaveSameTopologyKey(n, cluster.hostOf[e], t.key)

SatisfiesPodsAffinityAntiAffinity(p, n) ==
    /\ \A t \in Affinity(p) :
           \/ AnyPodMatchesPodAffinityTerm(p, n, t)
           \/ Matches(t, p) /\ \A e \in Others(p) : ~Matches(t, e)
    /\ \A t \in AntiAffinity(p) : ~AnyPodMatchesPodAffinityTerm(p, n, t)

InterPodAffinityMatches(p, n) ==
    SatisfiesExistingPodsAntiAffinity(p, n) /\ SatisfiesPodsAffinityAntiAffinity(p, n)

\* A node selector term has one key for every pod that uses it.
NodeAffinityKeys(p) ==
    {<<"node", t>> : t \in (IF cluster.nodeTerms[p] = None THEN {} ELSE cluster.nodeTerms[p])
                           \cup GetAllPvAffinityTerms(p)}

\* A pod affinity term has one key for each pod.
PodAffinityKeys(p) == {<<"pod", p, t>> : t \in Affinity(p) \cup AntiAffinity(p)}

\* addAffinityAccessCommodities for every node that fits: the node sells the
\* keys, and the pod buys them from the node it is on, fitting or not.
AccessCommodities(keys, p, fits) ==
    [sold |-> fits \X keys, bought |-> IF fits = {} THEN {} ELSE {p} \X {cluster.hostOf[p]} \X keys]

ProcessPodAffinityRules(p) ==
    << AccessCommodities(NodeAffinityKeys(p), p, {n \in Nodes : SatisfyNodeAffinities(p, n)}),
       AccessCommodities(PodAffinityKeys(p), p, {n \in Nodes : InterPodAffinityMatches(p, n)}) >>

ProcessAffinityRules ==
    /\ ~cluster.newAlgorithm
    /\ waiting = Pods
    /\ waiting' = {}
    /\ accessSold' = UNION {ProcessPodAffinityRules(p)[i].sold : p \in Pods, i \in 1 .. 2}
    /\ accessBought' = UNION {ProcessPodAffinityRules(p)[i].bought : p \in Pods, i \in 1 .. 2}
    /\ UNCHANGED <<cluster, newResult>>

-----------------------------------------------------------------------------
Rest == waiting = {} /\ UNCHANGED vars

Next == (\E p \in Pods : ProcessAffinityPerPod(p)) \/ ProcessAffinityRules \/ Rest

Spec == Init /\ [][Next]_vars

-----------------------------------------------------------------------------
(* Properties *)

\* The replicas of a workload come from one template.
Uniform ==
    \A p, q \in Pods : SameParent(p, q) =>
        /\ LabelOf[p] = LabelOf[q]
        /\ cluster.affinity[p] = cluster.affinity[q] /\ cluster.antiAffinity[p] = cluster.antiAffinity[q]

\* What the Kubernetes scheduler asks of a node, pod by pod.  Replicas that keep
\* apart by host name are the segmentation policy's business.
Conflict(e, p, n) ==
    \E t \in AntiAffinity(e) :
        /\ Matches(t, p)
        /\ ~(t.key = Hostname /\ SameParent(e, p))
        /\ NodesHaveSameTopologyKey(n, cluster.hostOf[e], t.key)

ConflictWith(p, e, n) ==
    \E t \in AntiAffinity(p) :
        /\ Matches(t, e)
        /\ ~(t.key = Hostname /\ SameParent(e, p))
        /\ NodesHaveSameTopologyKey(n, cluster.hostOf[e], t.key)

Companions(p) == {q \in Others(p) : PodMatchesAllAffinityTerms(Affinity(p), q)}

AllowedOn(p, n) ==
    /\ \A e \in Others(p) : ~Conflict(e, p, n) /\ ~ConflictWith(p, e, n)
    /\ \A t \in Affinity(p) : HasLabel(n, t.key)
    /\ \/ \A t \in Affinity(p) : \E q \in Companions(p) : NodesHaveSameTopologyKey(n, cluster.hostOf[q], t.key)
       \/ /\ PodMatchesAllAffinityTerms(Affinity(p), p)
          /\ \A q \in Companions(p), t \in Affinity(p) : ~HasLabel(cluster.hostOf[q], t.key)
    /\ SatisfyNodeAffinities(p, n)

\* Whatever order the workers take the pods in, a pod whose LABEL commodity is
\* its own can buy it from exactly the nodes its rules and the other pods' rules
\* allow; a workload's commodity is sold where some replica is allowed, but never
\* for a replica spread over another topology than the host, which has its own.
LabelsFollowRules ==
    \A p \in podsWithAffinities, n \in Nodes :
        LET found == LabelsBought(p) \subseteq LabelsSold(n)
        IN  /\ found <=> \E q \in podsWithAffinities : LabelKey(q) = LabelKey(p) /\ AllowedOn(q, n)
            /\ found /\ (\E q \in Others(p) \ cluster.unresolved : OtherSpread(q, p)) => AllowedOn(p, n)

\* Replicas that refuse each other's host both draw on the one unit of their
\* workload's segment that a node sells, whichever of them is processed first and
\* whether or not they have other terms and are placed by LABEL as well.
ReplicasKeptApart ==
    \A p, q \in Pods \ cluster.unresolved :
        p # q /\ HostnameSpread(p, q) => SegmentsBought(p) \cap SegmentsBought(q) # {}

\* The older algorithm: a pod that buys access commodities finds all of them
\* exactly on the nodes that fit its node rules and its pod rules, as long as
\* no two pods share a node selector term among different requirements.
AccessFollowsRules ==
    \A p \in Pods, n \in Nodes :
        LET bought == {b[3] : b \in {x \in accessBought : x[1] = p}}
            sold == {s[2] : s \in {x \in accessSold : x[1] = n}}
            unmixed == \A q \in Pods : NodeAffinityKeys(p) \cap NodeAffinityKeys(q) # {}
                          => \A m \in Nodes : SatisfyNodeAffinities(p, m) <=> SatisfyNodeAffinities(q, m)
        IN  unmixed =>
              (bought \subseteq sold <=>
                 /\ NodeAffinityKeys(p) \subseteq bought => SatisfyNodeAffinities(p, n)
                 /\ PodAffinityKeys(p) # {} /\ PodAffinityKeys(p) \subseteq bought
                        => InterPodAffinityMatches(p, n))

\* The commodities that pods buy and nodes sell place a pod where its affinity
\* rules and those of the other pods allow it, with either algorithm: the newer
\* one, for replicas that come from one template, and the older one.
PlacementFollowsRules ==
    waiting = {} =>
        IF cluster.newAlgorithm THEN Uniform => LabelsFollowRules /\ ReplicasKeptApart
        ELSE AccessFollowsRules
=============================================================================
