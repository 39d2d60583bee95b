--------------------------- MODULE TaintToleration ---------------------------
(***************************************************************************)
(* Node taints and pod tolerations as TAINT commodities                    *)
(* (compliance/taint_toleration_processor.go).  A node sells a commodity   *)
(* for every taint of the cluster it does not carry; a pod buys one for    *)
(* every taint it does not tolerate; the market places a pod where all it  *)
(* buys is sold.  A taint is compared as a Go struct: its TimeAdded is a   *)
(* pointer, None or the taint's own on each node.                          *)
(***************************************************************************)

CONSTANTS Nodes, Pods, None,
          HostOf,           \* Pods -> Nodes
          Taints,           \* [key, effect]
          Clusters          \* the clusters: taints, tolerations, pods' states

VARIABLES taintsOf,         \* [Nodes -> set of [key, effect, added]]
          tolerated,        \* [Pods -> set of taints, as ToleratesTaint decides]
          poweredOn,        \* pods whose DTO is POWERED_ON
          runningPods,      \* pods in NodeToRunningPods
          taintsSold, taintsBought,
          processed

vars == <<taintsOf, tolerated, poweredOn, runningPods, taintsSold, taintsBought, processed>>

NoSchedule == "NoSchedule"
NoExecute == "NoExecute"
Unschedulable == "node.kubernetes.io/unschedulable"

\* The commodity key "key=value:effect" of a taint.
KeyOf(t) == [key |-> t.key, effect |-> t.effect]

\* NewTaintTolerationProcessor knows the nodes that have running pods.
KnownNodes == {HostOf[p] : p \in runningPods}

IsUnschedulableNodeTaint(t) == t.key = Unschedulable

\* Mutant: the taint of a cordoned node is taken for any other.
EveryTaintOf(nodes) == {t \in UNION {taintsOf[n] : n \in nodes} : t.effect \in {NoSchedule, NoExecute}}

GetTaintCollection(nodes) ==
    {t \in UNION {taintsOf[n] : n \in nodes} :
        ~IsUnschedulableNodeTaint(t) /\ t.effect \in {NoSchedule, NoExecute}}

CreateTaintCommsSold(n) == {KeyOf(t) : t \in GetTaintCollection(KnownNodes) \ taintsOf[n]}

TolerationsTolerateTaint(p, t) == KeyOf(t) \in tolerated[p]

CreateTaintCommsBought(p) ==
    {KeyOf(t) : t \in {c \in GetTaintCollection(KnownNodes) : ~TolerationsTolerateTaint(p, c)}}

\* createTaintCommoditiesSoldByNode and ...BoughtByPod pass over an entity
\* whose object is not known; retrieveNodeAndPodDTOs over pods not powered on.
Process ==
    /\ ~processed
    /\ processed' = TRUE
    /\ taintsSold' = [n \in Nodes |-> IF n \in KnownNodes THEN CreateTaintCommsSold(n) ELSE {}]
    /\ taintsBought' = [p \in Pods |-> IF p \in poweredOn \cap runningPods THEN CreateTaintCommsBought(p) ELSE {}]
    /\ UNCHANGED <<taintsOf, tolerated, poweredOn, runningPods>>

Init ==
    /\ \E c \in Clusters :
           /\ taintsOf = [n \in Nodes |-> {[key |-> t[1].key, effect |-> t[1].effect,
                                            added |-> IF t[2] THEN n ELSE None] : t \in c.taints[n]}]
           /\ tolerated = c.tolerated
           /\ poweredOn = c.poweredOn
           /\ runningPods = c.running
    /\ taintsSold = [n \in Nodes |-> {}]
    /\ taintsBought = [p \in Pods |-> {}]
    /\ processed = FALSE

Rest == processed /\ UNCHANGED vars

Next == Process \/ Rest

Spec == Init /\ [][Next]_vars

\* Two nodes carry one taint with different TimeAdded pointers.
TimedTwice ==
    \E t, u \in UNION {taintsOf[n] : n \in KnownNodes} : KeyOf(t) = KeyOf(u) /\ t # u

\* A running pod finds all the TAINT commodities it buys on a node exactly if it
\* tolerates each of the node's NoSchedule and NoExecute taints but the cordon,
\* whatever taints the other nodes add to the collection.  (With one taint timed
\* on two nodes each of them sells the other's key.)
TaintsSteerPlacement ==
    processed /\ ~TimedTwice =>
        \A p \in poweredOn \cap runningPods, n \in KnownNodes :
            taintsBought[p] \subseteq taintsSold[n] <=>
                \A t \in taintsOf[n] :
                    t.effect \in {NoSchedule, NoExecute} /\ t.key # Unschedulable => KeyOf(t) \in tolerated[p]
=============================================================================
