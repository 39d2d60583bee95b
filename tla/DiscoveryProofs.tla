-------------------------- MODULE DiscoveryProofs ---------------------------
(***************************************************************************)
(* What holds of a discovery, for every set of nodes, workers and          *)
(* monitors, and of the parts that run beside it: the sampling rounds, the *)
(* kubelet client and the metric sink.                                     *)
(*                                                                         *)
(* A discovery that has gathered its results has exactly one for each node *)
(* it dispatched, and the pipeline of dispatcher, workers and collector    *)
(* implements DiscoveryResults.  The argument follows a node through an    *)
(* open discovery.  It is in one place at a time: it waits for a worker,   *)
(* one worker holds it, its result is in the result pool, or its result    *)
(* has been collected; and the wait group counts the nodes whose result    *)
(* has not been collected.                                                 *)
(***************************************************************************)
EXTENDS DiscoveryPipeline, Collectors, FiniteSetTheorems, TLAPS

Busy(w) == wk[w].st # "free"
Gathered == {r.node : r \in results}

\* The types of what the argument is about.
Types ==
  /\ pc \in {"idle", "finish", "dispatch", "collect", "schedule"}
  /\ nodes \in SUBSET Nodes
  /\ wg \in Int
  /\ pool \in SUBSET Result /\ results \in SUBSET Result
  /\ wk \in [Workers -> [st : {"free", "run", "report"},
                         node : Nodes \cup {"none"}, ok : BOOLEAN]]

\* No node of the open discovery is in two places.
OnePlace ==
  /\ \A n \in todo : n \in nodes /\ n \notin Gathered
  /\ \A w \in Workers : Busy(w) =>
       /\ wk[w].node \in nodes /\ wk[w].node \notin todo /\ wk[w].node \notin Gathered
       /\ \A v \in Workers : Busy(v) /\ wk[v].node = wk[w].node => v = w
  /\ \A r \in pool :
       /\ r.node \in nodes /\ r.node \notin todo /\ r.node \notin Gathered
       /\ \A s \in pool : s.node = r.node => s = r
       /\ \A w \in Workers : Busy(w) => wk[w].node # r.node

\* Between discoveries every place is empty.
NothingLeft == todo = {} /\ pool = {} /\ \A w \in Workers : ~Busy(w)

Counted ==
  /\ Gathered \subseteq nodes
  /\ IsFiniteSet(results)
  /\ wg = Cardinality(nodes \ Gathered)
  /\ Cardinality(results) + wg = Cardinality(nodes)

IInv ==
  /\ Types
  /\ OnePlace
  /\ pc = "collect" => Counted
  /\ pc # "collect" => NothingLeft
  /\ pc = "schedule" => Gathered = nodes /\ Cardinality(results) = Cardinality(nodes)

-----------------------------------------------------------------------------

\* A monitor of a worker, or a call that outlived its task, touches nothing
\* that the invariant is about.
LEMMA MonitorsKeepIInv ==
  IInv /\ UNCHANGED <<pc, nodes, todo, wg, pool, results, wk>> => IInv'
BY Zenon DEF IInv, Types, OnePlace, Counted, NothingLeft, Gathered, Busy

\* The pipeline is empty when it starts.
LEMMA InitIInv == Init => IInv
<1> SUFFICES ASSUME Init PROVE IInv
  BY Zenon
<1>1. Types
  BY DEF Init, Types
<1>2. NothingLeft
  BY Zenon DEF Init, NothingLeft, Busy
<1>3. OnePlace
  BY <1>2, <1>1, Zenon DEF OnePlace, NothingLeft
<1> QED
  BY <1>1, <1>2, <1>3, Zenon DEF IInv, Init

\* Dispatch opens a discovery in which every node waits for a worker.
LEMMA DispatchIInv == IInv /\ Dispatch => IInv'
<1> SUFFICES ASSUME IInv, Dispatch PROVE IInv'
  BY Zenon
<1>1. NothingLeft /\ nodes \in SUBSET Nodes
  BY Zenon DEF IInv, Dispatch, Types
<1>2. IsFiniteSet(nodes)
  BY <1>1, PipelineAssumption, FS_Subset, Zenon
<1>3. Cardinality(nodes) \in Nat
  BY <1>2, FS_CardinalityType, Zenon
<1>4. Gathered' = {} /\ nodes' \ Gathered' = nodes
  BY Zenon DEF Dispatch, Gathered
<1>5. Types'
  BY <1>3 DEF IInv, Types, Dispatch, workerVars
<1>6. OnePlace'
  BY <1>1, <1>4, Zenon DEF OnePlace, NothingLeft, Dispatch, workerVars, Busy
<1>7. Counted'
  <2>1. IsFiniteSet(results') /\ Cardinality(results') = 0
    BY FS_EmptySet, Zenon DEF Dispatch
  <2> QED
    BY <2>1, <1>3, <1>4 DEF Counted, Dispatch
<1> QED
  BY <1>5, <1>6, <1>7, Zenon DEF IInv, Dispatch

\* Collecting a result moves its node out of the pool and counts it once.
LEMMA CollectIInv == ASSUME NEW r \in pool, IInv, Collect(r) PROVE IInv'
<1>a. /\ pc = "collect" /\ pc' = "collect" /\ nodes' = nodes /\ todo' = todo /\ wk' = wk
      /\ pool' = pool \ {r} /\ results' = results \cup {r} /\ wg' = wg - 1
  BY Zenon DEF Collect, clientVars, workerVars
<1>b. Types /\ OnePlace /\ Counted
  BY <1>a, Zenon DEF IInv
<1>1. r \in Result /\ r.node \in nodes /\ r.node \notin todo /\ r.node \notin Gathered /\ r \notin results
  BY <1>b, Zenon DEF Types, OnePlace, Gathered
<1>2. Gathered' = Gathered \cup {r.node}
  BY <1>a, Zenon DEF Gathered
<1>3. IsFiniteSet(nodes \ Gathered)
  BY <1>b, PipelineAssumption, FS_Subset, Zenon DEF Types
<1>4. Types'
  BY <1>a, <1>b, <1>1 DEF Types
<1>5. OnePlace'
  <2>1. \A n \in todo' : n \in nodes' /\ n \notin Gathered'
    BY <1>a, <1>b, <1>1, <1>2, Zenon DEF OnePlace
  <2>2. ASSUME NEW w \in Workers, Busy(w)'
        PROVE  /\ (wk[w].node \in nodes)' /\ (wk[w].node \notin todo)' /\ (wk[w].node \notin Gathered)'
               /\ \A v \in Workers : (Busy(v) /\ wk[v].node = wk[w].node)' => v = w
    BY <1>a, <1>b, <1>1, <1>2, <2>2, Zenon DEF OnePlace, Busy
  <2>3. ASSUME NEW s \in pool'
        PROVE  /\ (s.node \in nodes)' /\ (s.node \notin todo)' /\ (s.node \notin Gathered)'
               /\ \A t \in pool' : t.node = s.node => t = s
               /\ \A w \in Workers : Busy(w)' => wk'[w].node # s.node
    BY <1>a, <1>b, <1>1, <1>2, Zenon DEF OnePlace, Busy
  <2> QED
    BY <2>1, <2>2, <2>3, Zenon DEF OnePlace
<1>6. Counted'
  <2>1. nodes' \ Gathered' = (nodes \ Gathered) \ {r.node}
    BY <1>a, <1>2, Zenon
  <2>2. Cardinality(nodes' \ Gathered') = Cardinality(nodes \ Gathered) - 1
    BY <2>1, <1>1, <1>3, FS_RemoveElement, ZenonT(30)
  <2>3. IsFiniteSet(results') /\ Cardinality(results') = Cardinality(results) + 1
    BY <1>a, <1>b, <1>1, FS_AddElement, Zenon DEF Counted
  <2>4. Cardinality(results) \in Nat /\ Cardinality(nodes \ Gathered) \in Nat
    BY <1>b, <1>3, FS_CardinalityType, Zenon DEF Counted
  <2> QED
    BY <1>a, <1>b, <1>1, <1>2, <2>2, <2>3, <2>4, SMTT(30) DEF Counted
<1> QED
  BY <1>a, <1>4, <1>5, <1>6, Zenon DEF IInv

\* When the wait group is at zero every node's result has been collected, and
\* then no node can be anywhere else.
LEMMA CollectDoneIInv == IInv /\ CollectDone => IInv'
<1> SUFFICES ASSUME IInv, CollectDone PROVE IInv'
  BY Zenon
<1>a. /\ pc = "collect" /\ wg = 0 /\ pc' = "schedule"
      /\ UNCHANGED <<nodes, todo, wg, pool, results, wk>>
  BY Zenon DEF CollectDone, collectVars, workerVars
<1>b. Types /\ OnePlace /\ Counted
  BY <1>a, Zenon DEF IInv
<1>1. IsFiniteSet(nodes) /\ IsFiniteSet(nodes \ Gathered)
  BY <1>b, PipelineAssumption, FS_Subset, Zenon DEF Types
<1>2. nodes \ Gathered = {}
  BY <1>1, <1>a, <1>b, FS_EmptySet, Zenon DEF Counted
<1>3. Gathered = nodes
  BY <1>2, <1>b, Zenon DEF Counted
<1>4. NothingLeft
  BY <1>3, <1>b, Zenon DEF OnePlace, NothingLeft
<1>5. Cardinality(results) = Cardinality(nodes)
  <2>1. Cardinality(results) \in Nat
    BY <1>b, FS_CardinalityType, Zenon DEF Counted
  <2> QED
    BY <2>1, <1>a, <1>b, SMTT(30) DEF Counted
<1>6. Types' /\ OnePlace' /\ NothingLeft' /\ Gathered' = nodes' /\ Cardinality(results') = Cardinality(nodes')
  BY <1>a, <1>b, <1>3, <1>4, <1>5, Zenon DEF Types, OnePlace, NothingLeft, Gathered, Busy
<1> QED
  BY <1>a, <1>6, Zenon DEF IInv

\* A worker takes a node that waits: only an open discovery has one.
LEMMA AssignTaskIInv ==
  ASSUME NEW w \in Workers, NEW n \in Nodes, NEW S \in SUBSET Monitors, IInv, AssignTask(w, n, S)
  PROVE  IInv'
<1>a. /\ UNCHANGED <<pc, nodes, wg, pool, results>>
      /\ ~Busy(w) /\ n \in todo /\ todo' = todo \ {n}
      /\ wk' = [wk EXCEPT ![w] = [st |-> "run", node |-> n, ok |-> TRUE]]
  BY Zenon DEF AssignTask, clientVars, collectVars, Busy
<1>b. Types /\ OnePlace
  BY Zenon DEF IInv
<1>1. pc = "collect" /\ pc' = "collect" /\ Counted
  BY <1>a, Zenon DEF IInv, NothingLeft
<1>2. Types'
  BY <1>a, <1>b, Zenon DEF Types
<1>3. /\ wk'[w].node = n /\ Busy(w)'
      /\ \A v \in Workers : v # w => wk'[v] = wk[v]
  BY <1>a, <1>b, Zenon DEF Types, Busy
<1>4. Gathered' = Gathered /\ nodes' = nodes /\ n \in nodes /\ n \notin Gathered
  BY <1>a, <1>b, Zenon DEF Gathered, OnePlace
<1>5. OnePlace'
  <2>1. \A x \in todo' : x \in nodes' /\ x \notin Gathered'
    BY <1>a, <1>b, <1>4, Zenon DEF OnePlace
  <2>2. ASSUME NEW u \in Workers, Busy(u)'
        PROVE  /\ (wk[u].node \in nodes)' /\ (wk[u].node \notin todo)' /\ (wk[u].node \notin Gathered)'
               /\ \A v \in Workers : (Busy(v) /\ wk[v].node = wk[u].node)' => v = u
    <3>1. CASE u = w
      BY <3>1, <1>a, <1>b, <1>3, <1>4, SMTT(30) DEF OnePlace, Busy
    <3>2. CASE u # w
      BY <3>2, <2>2, <1>a, <1>b, <1>3, <1>4, SMTT(30) DEF OnePlace, Busy
    <3> QED
      BY <3>1, <3>2, Zenon
  <2>3. ASSUME NEW r \in pool'
        PROVE  /\ (r.node \in nodes)' /\ (r.node \notin todo)' /\ (r.node \notin Gathered)'
               /\ \A s \in pool' : s.node = r.node => s = r
               /\ \A v \in Workers : Busy(v)' => wk'[v].node # r.node
    <3>1. r \in pool /\ r.node # n
      BY <1>a, <1>b, Zenon DEF OnePlace
    <3>2. \A v \in Workers : Busy(v)' => wk'[v].node # r.node
      BY <3>1, <1>b, <1>3, Zenon DEF OnePlace, Busy
    <3> QED
      BY <3>1, <3>2, <1>a, <1>b, <1>4, Zenon DEF OnePlace
  <2> QED
    BY <2>1, <2>2, <2>3, Zenon DEF OnePlace
<1>6. Counted'
  BY <1>a, <1>1, <1>4, Zenon DEF Counted
<1> QED
  BY <1>1, <1>2, <1>5, <1>6, Zenon DEF IInv

\* A worker that has finished keeps its node until it reports.
LEMMA FinishTaskIInv == ASSUME NEW w \in Workers, IInv, FinishTask(w) PROVE IInv'
<1>a. /\ UNCHANGED <<pc, nodes, todo, wg, pool, results>>
      /\ Busy(w)
      /\ wk' = [wk EXCEPT ![w].st = "report", ![w].ok = \A m \in Monitors : mon[w][m] # "late"]
  BY Zenon DEF FinishTask, clientVars, collectVars, Busy
<1>b. Types
  BY Zenon DEF IInv
<1>1. wk'[w].node = wk[w].node /\ wk'[w].st = "report" /\ \A v \in Workers : v # w => wk'[v] = wk[v]
  BY <1>a, <1>b DEF Types
<1>2. \A v \in Workers : (Busy(v)' <=> Busy(v)) /\ wk'[v].node = wk[v].node
  BY <1>a, <1>1, Zenon DEF Busy
<1>3. Types'
  <2> DEFINE ok == \A m \in Monitors : mon[w][m] # "late"
             all == [st : {"free", "run", "report"}, node : Nodes \cup {"none"}, ok : BOOLEAN]
  <2>1. ok \in BOOLEAN
    BY Zenon
  <2> HIDE DEF ok
  <2>2. [wk[w] EXCEPT !.st = "report", !.ok = ok] \in all
    BY <2>1, <1>b, Zenon DEF Types
  <2>3. wk' = [wk EXCEPT ![w] = [wk[w] EXCEPT !.st = "report", !.ok = ok]]
    BY <1>a, <1>b, Zenon DEF ok, Types
  <2>4. wk' \in [Workers -> all]
    BY <2>2, <2>3, <1>b, Zenon DEF Types
  <2> QED
    BY <2>4, <1>a, <1>b, Zenon DEF Types
<1>4. Gathered' = Gathered
  BY <1>a, Zenon DEF Gathered
<1>5. OnePlace'
  <2>1. OnePlace
    BY Zenon DEF IInv
  <2>2. ASSUME NEW u \in Workers, Busy(u)'
        PROVE  /\ wk'[u].node \in nodes' /\ wk'[u].node \notin todo' /\ wk'[u].node \notin Gathered'
               /\ \A v \in Workers : Busy(v)' /\ wk'[v].node = wk'[u].node => v = u
    <3>1. Busy(u) /\ wk'[u].node = wk[u].node
      BY <2>2, <1>2, Zenon
    <3>2. ASSUME NEW v \in Workers, Busy(v)', wk'[v].node = wk'[u].node PROVE v = u
      BY <3>1, <3>2, <2>1, <1>2, Zenon DEF OnePlace
    <3>3. wk'[u].node \in nodes' /\ wk'[u].node \notin todo' /\ wk'[u].node \notin Gathered'
      BY <3>1, <2>1, <1>a, <1>4 DEF OnePlace
    <3> QED
      BY <3>2, <3>3, Zenon
  <2>3. ASSUME NEW r \in pool'
        PROVE  /\ (r.node \in nodes)' /\ (r.node \notin todo)' /\ (r.node \notin Gathered)'
               /\ \A s \in pool' : s.node = r.node => s = r
               /\ \A v \in Workers : Busy(v)' => wk'[v].node # r.node
    BY <2>1, <1>a, <1>2, <1>4, Zenon DEF OnePlace
  <2>4. \A x \in todo' : x \in nodes' /\ x \notin Gathered'
    BY <2>1, <1>a, <1>4, Zenon DEF OnePlace
  <2> QED
    BY <2>2, <2>3, <2>4, Zenon DEF OnePlace
<1>6. (NothingLeft => NothingLeft') /\ (Counted => Counted')
  BY <1>a, <1>2, <1>4, Zenon DEF NothingLeft, Counted
<1> QED
  BY <1>a, <1>3, <1>4, <1>5, <1>6, Zenon DEF IInv

\* A report moves the worker's node into the result pool.
LEMMA ReportIInv == ASSUME NEW w \in Workers, IInv, Report(w) PROVE IInv'
<1> DEFINE new == [node |-> wk[w].node, ok |-> wk[w].ok]
<1>a. /\ UNCHANGED <<pc, nodes, todo, wg, results>>
      /\ Busy(w) /\ pool' = pool \cup {new}
      /\ wk' = [wk EXCEPT ![w] = [st |-> "free", node |-> "none", ok |-> TRUE]]
  BY Zenon DEF Report, clientVars, collectVars, Busy
<1>b. Types /\ OnePlace
  BY Zenon DEF IInv
<1>1. pc = "collect" /\ pc' = "collect" /\ Counted
  BY <1>a, Zenon DEF IInv, NothingLeft
<1>2. wk[w].node \in nodes /\ new \in Result /\ new.node = wk[w].node
  BY <1>a, <1>b, Zenon DEF OnePlace, Types, Result
<1>3. Types'
  BY <1>a, <1>b, <1>2, Zenon DEF Types
<1>4. ~Busy(w)' /\ \A v \in Workers : v # w => wk'[v] = wk[v]
  BY <1>a, <1>b, Zenon DEF Types, Busy
<1>5. Gathered' = Gathered
  BY <1>a, Zenon DEF Gathered
<1>6. OnePlace'
  <2> HIDE DEF new
  <2>1. \A x \in todo' : x \in nodes' /\ x \notin Gathered'
    BY <1>a, <1>b, <1>5, Zenon DEF OnePlace
  <2>2. ASSUME NEW u \in Workers, Busy(u)'
        PROVE  /\ (wk[u].node \in nodes)' /\ (wk[u].node \notin todo)' /\ (wk[u].node \notin Gathered)'
               /\ \A v \in Workers : (Busy(v) /\ wk[v].node = wk[u].node)' => v = u
    BY <2>2, <1>a, <1>b, <1>4, <1>5 DEF OnePlace, Busy
  <2>3. ASSUME NEW r \in pool'
        PROVE  /\ (r.node \in nodes)' /\ (r.node \notin todo)' /\ (r.node \notin Gathered)'
               /\ \A s \in pool' : s.node = r.node => s = r
               /\ \A v \in Workers : Busy(v)' => wk'[v].node # r.node
    <3>1. CASE r = new
      BY <3>1, <1>a, <1>b, <1>2, <1>4, <1>5, SMTT(30) DEF OnePlace, Busy
    <3>2. CASE r # new
      BY <3>2, <1>a, <1>b, <1>2, <1>4, <1>5, SMTT(30) DEF OnePlace, Busy
    <3> QED
      BY <3>1, <3>2, Zenon
  <2> QED
    BY <2>1, <2>2, <2>3, Zenon DEF OnePlace
<1>7. Counted'
  BY <1>a, <1>1, <1>5, Zenon DEF Counted
<1> QED
  BY <1>1, <1>3, <1>6, <1>7, Zenon DEF IInv

-----------------------------------------------------------------------------

\* Every step of the client, the goroutines and the calls left behind keeps a
\* node in one place.
LEMMA NextIInv == IInv /\ [Next]_vars => IInv'
<1> SUFFICES ASSUME IInv, [Next]_vars PROVE IInv'
  BY Zenon
<1> USE DEF clientVars, collectVars, workerVars
<1>1. CASE DiscoverClusterFails
  BY <1>1, MonitorsKeepIInv, Zenon DEF DiscoverClusterFails
<1>2. ASSUME NEW ns \in SUBSET Nodes, DiscoverCluster(ns) PROVE IInv'
  <2>1. NothingLeft /\ Types
    BY <1>2, Zenon DEF DiscoverCluster, IInv
  <2>2. pc' = "finish" /\ nodes' = ns /\ UNCHANGED <<todo, wg, pool, results, wk>>
    BY <1>2, Zenon DEF DiscoverCluster
  <2>3. Types' /\ NothingLeft'
    BY <2>1, <2>2, Zenon DEF Types, NothingLeft, Busy
  <2>4. OnePlace'
    BY <2>3, Zenon DEF OnePlace, NothingLeft
  <2> QED
    BY <2>2, <2>3, <2>4, Zenon DEF IInv
<1>3. CASE FinishSampling \/ ScheduleDispatch
  <2>1. /\ pc # "collect" /\ pc' \in {"dispatch", "idle"}
        /\ UNCHANGED <<nodes, todo, wg, pool, results, wk>>
    BY <1>3, Zenon DEF FinishSampling, ScheduleDispatch
  <2>2. NothingLeft' /\ Types' /\ OnePlace'
    BY <2>1, Zenon DEF IInv, NothingLeft, Types, OnePlace, Busy, Gathered
  <2> QED
    BY <2>1, <2>2, Zenon DEF IInv
<1>4. CASE Dispatch
  BY <1>4, DispatchIInv, Zenon
<1>5. CASE CollectDone
  BY <1>5, CollectDoneIInv, Zenon
<1>6. ASSUME NEW r \in pool, Collect(r) PROVE IInv'
  BY <1>6, CollectIInv, Zenon
<1>7. ASSUME NEW w \in Workers, NEW n \in Nodes, NEW S \in SUBSET Monitors, AssignTask(w, n, S)
      PROVE  IInv'
  BY <1>7, AssignTaskIInv, Zenon
<1>8. ASSUME NEW w \in Workers, WorkerStep(w) PROVE IInv'
  <2>1. ASSUME NEW m \in Monitors, MonitorStep(w, m) PROVE IInv'
    BY <2>1, MonitorsKeepIInv, Zenon
    DEF MonitorStep, TimerFires, DoReturns, DoFails, LateMerge, MonitorTimesOut
  <2>2. CASE FinishTask(w)
    BY <2>2, FinishTaskIInv, Zenon
  <2>3. CASE Report(w)
    BY <2>3, ReportIInv, Zenon
  <2> QED
    BY <1>8, <2>1, <2>2, <2>3, Zenon DEF WorkerStep
<1>9. ASSUME NEW z \in zombies, ZombieReturns(z) PROVE IInv'
  BY <1>9, MonitorsKeepIInv, Zenon DEF ZombieReturns
<1>10. CASE Rest \/ UNCHANGED vars
  BY <1>10, MonitorsKeepIInv, Zenon DEF Rest, vars
<1> QED
  BY <1>1, <1>2, <1>3, <1>4, <1>5, <1>6, <1>7, <1>8, <1>9, <1>10, Zenon DEF Next

\* The places of the nodes are distinct in every reachable state.
THEOREM PipelineInvariant == Spec => []IInv
<1> QED
  BY InitIInv, NextIInv, PTL DEF Spec

\* A discovery that has gathered its results (Collect has returned) has
\* exactly one for each node it dispatched and leaves none behind, for every
\* cluster, number of workers and pattern of monitors that time out.
THEOREM EveryNodeReportsOnce == Spec => []OneResultPerNode
<1>1. IInv => OneResultPerNode
  BY Zenon DEF IInv, OneResultPerNode, NothingLeft, Gathered, Busy
<1> QED
  BY <1>1, PipelineInvariant, PTL

-----------------------------------------------------------------------------
(* The readings a task is reported with.                                   *)

\* A discovery under way has a number, and the monitors of a worker are at work
\* only while it holds a task.
AtWork ==
  /\ pc # "idle" => disc \in Discoveries
  /\ \A w \in Workers, m \in Monitors : mon[w][m] # "none" => Busy(w)

\* What a monitor has read for the task its worker holds is in the monitor's
\* sink before it is merged, and in the worker's sink afterwards.
ReadForTask ==
  \A w \in Workers : Busy(w) => \A m \in Monitors :
    /\ mon[w][m] = "merge" => TaskOf(w) \in msink[w][m]
    /\ mon[w][m] = "done" => TaskOf(w) \in sink[w][m]

ReadingsInv == TypeOK /\ AtWork /\ ReadForTask

\* No monitor is at work when the pipeline starts.
LEMMA InitReadings == Init => ReadingsInv
<1> SUFFICES ASSUME Init PROVE ReadingsInv
  BY Zenon
<1>1. TypeOK
  BY PipelineAssumption DEF Init, TypeOK, MonitorState
<1> QED
  BY <1>1, Zenon DEF Init, ReadingsInv, AtWork, ReadForTask, Busy

\* The steps of the client: the number of the discovery changes only when no
\* worker holds a task.
LEMMA ClientReadings ==
  ASSUME IInv, IInv', ReadingsInv,
         \/ DiscoverClusterFails \/ (\E ns \in SUBSET Nodes : DiscoverCluster(ns))
         \/ FinishSampling \/ Dispatch \/ CollectDone \/ ScheduleDispatch
         \/ \E r \in pool : Collect(r)
  PROVE  ReadingsInv'
<1> USE DEF clientVars, collectVars, workerVars
<1>a. TypeOK /\ AtWork /\ ReadForTask
  BY Zenon DEF ReadingsInv
<1>b. UNCHANGED <<wk, mon, msink, sink, zombies, slow>>
  BY Zenon DEF DiscoverClusterFails, DiscoverCluster, FinishSampling, Dispatch, CollectDone,
         ScheduleDispatch, Collect
<1>1. /\ disc' = disc \/ \A w \in Workers : ~Busy(w)
      /\ \/ pc' = "idle"
         \/ pc = "idle" /\ disc < MaxDiscoveries /\ disc' = disc + 1
         \/ pc # "idle" /\ disc' = disc
  BY Zenon DEF DiscoverClusterFails, DiscoverCluster, FinishSampling, Dispatch, CollectDone,
         ScheduleDispatch, Collect, IInv, NothingLeft
<1>2. wg' \in Nat
  <2>1. CASE wg' = wg
    BY <2>1, <1>a, Zenon DEF TypeOK
  <2>2. CASE pc' = "collect"
    <3>1. IsFiniteSet((nodes \ Gathered)')
      BY PipelineAssumption, FS_Subset, Zenon DEF IInv, Types
    <3>2. Counted'
      BY <2>2, Zenon DEF IInv
    <3> QED
      BY <3>1, <3>2, FS_CardinalityType, Zenon DEF Counted
  <2> QED
    BY <2>1, <2>2, Zenon DEF DiscoverClusterFails, DiscoverCluster, FinishSampling, Dispatch, CollectDone,
         ScheduleDispatch, Collect
<1>3. TypeOK'
  <2>1. disc' \in 0..MaxDiscoveries
    BY <1>a, PipelineAssumption DEF TypeOK, DiscoverClusterFails, DiscoverCluster, FinishSampling,
       Dispatch, CollectDone, ScheduleDispatch, Collect
  <2>2. todo' \in SUBSET Nodes
    BY <1>a, Zenon DEF TypeOK, DiscoverClusterFails, DiscoverCluster, FinishSampling,
       Dispatch, CollectDone, ScheduleDispatch, Collect
  <2>3. Types'
    BY Zenon DEF IInv
  <2> QED
    BY <1>a, <1>b, <1>2, <2>1, <2>2, <2>3, ZenonT(30) DEF TypeOK, Types
<1>4. AtWork'
  BY <1>1, <1>a, <1>b, PipelineAssumption, SMTT(30) DEF AtWork, Busy, TypeOK, Discoveries
<1>5. ReadForTask'
  BY <1>1, <1>a, <1>b, Zenon DEF ReadForTask, Busy, TaskOf
<1> QED
  BY <1>3, <1>4, <1>5, Zenon DEF ReadingsInv


\* A worker that takes a task starts with empty sinks and monitors that have
\* read nothing.
LEMMA AssignTaskReadings ==
  ASSUME NEW w \in Workers, NEW n \in Nodes, NEW S \in SUBSET Monitors,
         IInv, IInv', ReadingsInv, AssignTask(w, n, S)
  PROVE  ReadingsInv'
<1> USE DEF clientVars, collectVars
<1>a. TypeOK /\ AtWork /\ ReadForTask
  BY Zenon DEF ReadingsInv
<1>b. /\ UNCHANGED <<pc, disc, nodes, wg, results, pool, zombies>>
      /\ n \in todo /\ todo' = todo \ {n}
      /\ slow + Cardinality(S) <= MaxSlow /\ slow' = slow + Cardinality(S)
      /\ wk' = [wk EXCEPT ![w] = [st |-> "run", node |-> n, ok |-> TRUE]]
      /\ sink' = [sink EXCEPT ![w] = [m \in Monitors |-> {}]]
      /\ msink' = [msink EXCEPT ![w] = [m \in Monitors |-> {}]]
      /\ mon' = [mon EXCEPT ![w] = [m \in Monitors |-> IF m \in S THEN "slow" ELSE "do"]]
  BY Zenon DEF AssignTask
<1>1. TypeOK'
  <2>1. Cardinality(S) \in Nat
    BY PipelineAssumption, FS_Subset, FS_CardinalityType, ZenonT(30)
  <2>2. slow' \in 0..MaxSlow
    BY <2>1, <1>a, <1>b, PipelineAssumption, SMTT(30) DEF TypeOK
  <2>3. mon' \in [Workers -> [Monitors -> MonitorState]]
    BY <1>a, <1>b, Zenon DEF TypeOK, MonitorState
  <2>4. /\ msink' \in [Workers -> [Monitors -> SUBSET Task]]
        /\ sink' \in [Workers -> [Monitors -> SUBSET Task]]
    BY <1>a, <1>b, Zenon DEF TypeOK
  <2>5. Types'
    BY Zenon DEF IInv
  <2> QED
    BY <1>a, <1>b, <2>2, <2>3, <2>4, <2>5, ZenonT(30) DEF TypeOK, Types
<1>3. \A v \in Workers : v # w => wk'[v] = wk[v] /\ mon'[v] = mon[v] /\ msink'[v] = msink[v] /\ sink'[v] = sink[v]
  BY <1>a, <1>b, Zenon DEF TypeOK
<1>4. Busy(w)' /\ \A m \in Monitors : mon'[w][m] \in {"slow", "do"}
  BY <1>a, <1>b, Zenon DEF TypeOK, Busy
<1>5. AtWork'
  BY <1>a, <1>b, <1>3, <1>4, SMTT(30) DEF AtWork, Busy
<1>6. ReadForTask'
  BY <1>a, <1>b, <1>3, <1>4, SMTT(30) DEF ReadForTask, Busy, TaskOf
<1> QED
  BY <1>1, <1>5, <1>6, Zenon DEF ReadingsInv

\* The sinks g are the sinks f, with more readings in that of monitor m of w.
Adds(f, g, w, m, more) == g = f \/ g = [f EXCEPT ![w][m] = @ \cup more]

\* Adding readings to one sink takes none from any.
LEMMA AddReadings ==
  ASSUME NEW f \in [Workers -> [Monitors -> SUBSET Task]], NEW g,
         NEW w \in Workers, NEW m \in Monitors, NEW more \in SUBSET Task, Adds(f, g, w, m, more)
  PROVE  /\ g \in [Workers -> [Monitors -> SUBSET Task]]
         /\ \A v \in Workers, k \in Monitors : f[v][k] \subseteq g[v][k]
<1>1. CASE g = f
  BY <1>1, Zenon
<1>2. CASE g = [f EXCEPT ![w][m] = @ \cup more]
  <2> DEFINE row == [f[w] EXCEPT ![m] = f[w][m] \cup more]
  <2>1. g = [f EXCEPT ![w] = row]
    BY <1>2, Zenon
  <2>2. f[w] \in [Monitors -> SUBSET Task] /\ f[w][m] \cup more \in SUBSET Task
    BY Zenon
  <2>3. row \in [Monitors -> SUBSET Task] /\ \A k \in Monitors : f[w][k] \subseteq row[k]
    BY <2>2, Zenon
  <2> HIDE DEF row
  <2> QED
    BY <2>1, <2>3, Zenon
<1> QED
  BY <1>1, <1>2, Zenon DEF Adds

\* A monitor's step: only the worker's own readings for its task make a monitor
\* "merge" or "done", and readings are only ever added.
LEMMA MonitorReadings ==
  ASSUME NEW w \in Workers, NEW m \in Monitors, IInv, IInv', ReadingsInv, MonitorStep(w, m)
  PROVE  ReadingsInv'
<1> USE DEF clientVars, collectVars
<1>a. TypeOK /\ AtWork /\ ReadForTask
  BY Zenon DEF ReadingsInv
<1>b. /\ UNCHANGED <<pc, disc, nodes, todo, wg, results, pool, wk, slow>>
      /\ mon[w][m] # "none"
  BY Zenon DEF MonitorStep, TimerFires, DoReturns, DoFails, LateMerge, MonitorTimesOut
<1>1. Busy(w) /\ TaskOf(w) \in Task /\ TaskOf(w)' = TaskOf(w)
  <2>1. Busy(w)
    BY <1>a, <1>b, Zenon DEF AtWork
  <2>2. pc = "collect"
    BY <2>1, Zenon DEF IInv, NothingLeft
  <2> QED
    BY <2>1, <2>2, <1>a, <1>b, Zenon DEF AtWork, IInv, OnePlace, Types, TaskOf, Task
<1>2. PICK s \in MonitorState \ {"none"} : mon' = [mon EXCEPT ![w][m] = s]
  BY Zenon DEF MonitorStep, TimerFires, DoReturns, DoFails, LateMerge, MonitorTimesOut, SetMonitor, MonitorState
<1>3. \/ msink' = msink
      \/ msink' = [msink EXCEPT ![w][m] = @ \cup {TaskOf(w)}]
  BY Zenon DEF MonitorStep, TimerFires, DoReturns, DoFails, LateMerge, MonitorTimesOut
<1>4. PICK more \in SUBSET Task : sink' = sink \/ sink' = [sink EXCEPT ![w][m] = @ \cup more]
  <2>1. msink'[w][m] \in SUBSET Task /\ msink[w][m] \in SUBSET Task
    BY <1>a, <1>1, <1>3 DEF TypeOK
  <2>2. CASE sink' = sink
    BY <2>2, Zenon
  <2>3. CASE sink' = [sink EXCEPT ![w][m] = @ \cup msink'[w][m]]
    BY <2>1, <2>3, Zenon
  <2>4. CASE sink' = [sink EXCEPT ![w][m] = @ \cup msink[w][m]]
    BY <2>1, <2>4, Zenon
  <2> QED
    BY <2>2, <2>3, <2>4, Zenon
    DEF MonitorStep, TimerFires, DoReturns, DoFails, LateMerge, MonitorTimesOut
<1>5. zombies' \in SUBSET [w : Workers, m : Monitors, task : Task, merging : BOOLEAN]
  <2>1. CASE zombies' = zombies
    BY <2>1, <1>a, Zenon DEF TypeOK
  <2>2. CASE MonitorTimesOut(w, m)
    <3> DEFINE b == mon[w][m] = "merge"
    <3>1. b \in BOOLEAN
      BY Zenon
    <3>2. zombies' = zombies \cup {[w |-> w, m |-> m, task |-> TaskOf(w), merging |-> b]}
      BY <2>2, Zenon DEF MonitorTimesOut
    <3> HIDE DEF b
    <3> QED
      BY <3>1, <3>2, <1>1, <1>a, SMTT(30) DEF TypeOK
  <2> QED
    BY <2>1, <2>2, Zenon DEF MonitorStep, TimerFires, DoReturns, DoFails, LateMerge
<1>6. /\ msink' \in [Workers -> [Monitors -> SUBSET Task]]
      /\ sink' \in [Workers -> [Monitors -> SUBSET Task]]
      /\ \A v \in Workers, k \in Monitors :
           msink[v][k] \subseteq msink'[v][k] /\ sink[v][k] \subseteq sink'[v][k]
  <2>1. {TaskOf(w)} \in SUBSET Task
    BY <1>1, Zenon
  <2>2. /\ msink \in [Workers -> [Monitors -> SUBSET Task]]
        /\ sink \in [Workers -> [Monitors -> SUBSET Task]]
    BY <1>a, Zenon DEF TypeOK
  <2>3. /\ msink' \in [Workers -> [Monitors -> SUBSET Task]]
        /\ \A v \in Workers, k \in Monitors : msink[v][k] \subseteq msink'[v][k]
    <3>1. Adds(msink, msink', w, m, {TaskOf(w)})
      BY <1>3, Zenon DEF Adds
    <3> QED
      BY <2>1, <2>2, <3>1, AddReadings, Zenon
  <2>4. /\ sink' \in [Workers -> [Monitors -> SUBSET Task]]
        /\ \A v \in Workers, k \in Monitors : sink[v][k] \subseteq sink'[v][k]
    <3>1. Adds(sink, sink', w, m, more)
      BY <1>4, Zenon DEF Adds
    <3> QED
      BY <2>2, <3>1, AddReadings, Zenon
  <2> QED
    BY <2>3, <2>4, Zenon
<1>7. TypeOK'
  BY <1>a, <1>b, <1>2, <1>5, <1>6, Zenon DEF TypeOK
<1>8. AtWork'
  BY <1>a, <1>b, <1>1, <1>2, Zenon DEF AtWork, Busy, TypeOK
<1>9. \A v \in Workers, k \in Monitors : v # w \/ k # m => mon'[v][k] = mon[v][k]
  BY <1>a, <1>2, Zenon DEF TypeOK
<1>10. /\ mon'[w][m] = "merge" => TaskOf(w) \in msink'[w][m]
       /\ mon'[w][m] = "done" => TaskOf(w) \in sink'[w][m]
  <2>1. mon[w][m] = "merge" => TaskOf(w) \in msink[w][m]
    BY <1>a, <1>1, ZenonT(30) DEF ReadForTask
  <2>2. CASE TimerFires(w, m) \/ DoFails(w, m) \/ MonitorTimesOut(w, m)
    BY <2>2, <1>a, SMTT(30) DEF TimerFires, DoFails, MonitorTimesOut, SetMonitor, TypeOK
  <2>3. CASE DoReturns(w, m)
    BY <2>3, <1>a DEF DoReturns, SetMonitor, TypeOK
  <2>4. CASE LateMerge(w, m)
    BY <2>1, <2>4, <1>a, Zenon DEF LateMerge, SetMonitor, TypeOK
  <2> QED
    BY <2>2, <2>3, <2>4, Zenon DEF MonitorStep
<1>11. ReadForTask'
  <2>1. \A v \in Workers : TaskOf(v)' = TaskOf(v) /\ (Busy(v)' <=> Busy(v))
    BY <1>b, Zenon DEF TaskOf, Busy
  <2>2. ASSUME NEW v \in Workers, Busy(v), NEW k \in Monitors
        PROVE  /\ mon'[v][k] = "merge" => TaskOf(v) \in msink'[v][k]
               /\ mon'[v][k] = "done" => TaskOf(v) \in sink'[v][k]
    <3>1. CASE v = w /\ k = m
      BY <3>1, <1>10, Zenon DEF TaskOf
    <3>2. CASE v # w \/ k # m
      BY <2>2, <3>2, <1>a, <1>6, <1>9, Zenon DEF ReadForTask
    <3> QED
      BY <3>1, <3>2, Zenon
  <2> QED
    BY <2>1, <2>2, Zenon DEF ReadForTask
<1> QED
  BY <1>7, <1>8, <1>11, Zenon DEF ReadingsInv

\* A worker keeps its task until it reports, and then its monitors are idle.
LEMMA FinishAndReportReadings ==
  ASSUME NEW w \in Workers, IInv, IInv', ReadingsInv, FinishTask(w) \/ Report(w)
  PROVE  ReadingsInv'
<1> USE DEF clientVars, collectVars
<1>a. TypeOK /\ AtWork /\ ReadForTask
  BY Zenon DEF ReadingsInv
<1>b. UNCHANGED <<pc, disc, nodes, todo, wg, results, msink, sink, zombies, slow>>
  BY Zenon DEF FinishTask, Report
<1>c. Types /\ Types'
  BY Zenon DEF IInv
<1>1. CASE FinishTask(w)
  <2>1. /\ UNCHANGED mon /\ wk[w].st = "run"
        /\ wk' = [wk EXCEPT ![w].st = "report", ![w].ok = \A m \in Monitors : mon[w][m] # "late"]
    BY <1>1, Zenon DEF FinishTask
  <2>2. \A v \in Workers : (Busy(v)' <=> Busy(v)) /\ wk'[v].node = wk[v].node
    <3>1. wk'[w].node = wk[w].node /\ wk'[w].st = "report" /\ \A v \in Workers : v # w => wk'[v] = wk[v]
      BY <2>1, <1>c, Zenon DEF Types
    <3> QED
      BY <2>1, <3>1, Zenon DEF Busy
  <2>3. TypeOK'
    BY <2>1, <1>a, <1>b, <1>c, Zenon DEF TypeOK, Types
  <2>4. AtWork'
    BY <2>1, <2>2, <1>a, <1>b, Zenon DEF AtWork
  <2>5. ReadForTask'
    BY <2>1, <2>2, <1>a, <1>b, ZenonT(30) DEF ReadForTask, TaskOf
  <2> QED
    BY <2>3, <2>4, <2>5, Zenon DEF ReadingsInv
<1>2. CASE Report(w)
  <2>1. /\ wk' = [wk EXCEPT ![w] = [st |-> "free", node |-> "none", ok |-> TRUE]]
        /\ mon' = [mon EXCEPT ![w] = [m \in Monitors |-> "none"]]
    BY <1>2, Zenon DEF Report
  <2>2. TypeOK'
    BY <2>1, <1>a, <1>b, <1>c, Zenon DEF TypeOK, Types, MonitorState
  <2>3. /\ ~Busy(w)' /\ \A m \in Monitors : mon'[w][m] = "none"
        /\ \A v \in Workers : v # w => wk'[v] = wk[v] /\ mon'[v] = mon[v]
    BY <2>1, <1>a, Zenon DEF TypeOK, Busy
  <2>4. AtWork'
    BY <2>3, <1>a, <1>b, Zenon DEF AtWork, Busy
  <2>5. ReadForTask'
    BY <2>3, <1>a, <1>b, ZenonT(30) DEF ReadForTask, TaskOf, Busy
  <2> QED
    BY <2>2, <2>4, <2>5, Zenon DEF ReadingsInv
<1> QED
  BY <1>1, <1>2, Zenon

\* A call that outlived its task only adds to the sinks its worker has now.
LEMMA ZombieReadings ==
  ASSUME NEW z \in zombies, IInv, IInv', ReadingsInv, ZombieReturns(z)
  PROVE  ReadingsInv'
<1> USE DEF clientVars, collectVars
<1>a. TypeOK /\ AtWork /\ ReadForTask
  BY Zenon DEF ReadingsInv
<1>b. UNCHANGED <<pc, disc, nodes, todo, wg, results, pool, wk, mon, slow>>
  BY Zenon DEF ZombieReturns
<1>1. z.w \in Workers /\ z.m \in Monitors /\ {z.task} \in SUBSET Task /\ zombies' \subseteq zombies
  BY <1>a, ZenonT(30) DEF TypeOK, ZombieReturns
<1>2. /\ msink' \in [Workers -> [Monitors -> SUBSET Task]]
      /\ sink' \in [Workers -> [Monitors -> SUBSET Task]]
      /\ \A v \in Workers, k \in Monitors :
           msink[v][k] \subseteq msink'[v][k] /\ sink[v][k] \subseteq sink'[v][k]
  <2>1. /\ msink \in [Workers -> [Monitors -> SUBSET Task]]
        /\ sink \in [Workers -> [Monitors -> SUBSET Task]]
    BY <1>a, Zenon DEF TypeOK
  <2>2. /\ Adds(msink, msink', z.w, z.m, {z.task})
        /\ Adds(sink, sink', z.w, z.m, {z.task})
    BY Zenon DEF Adds, ZombieReturns
  <2>3. /\ msink' \in [Workers -> [Monitors -> SUBSET Task]]
        /\ \A v \in Workers, k \in Monitors : msink[v][k] \subseteq msink'[v][k]
    BY <2>1, <2>2, <1>1, AddReadings, Zenon
  <2>4. /\ sink' \in [Workers -> [Monitors -> SUBSET Task]]
        /\ \A v \in Workers, k \in Monitors : sink[v][k] \subseteq sink'[v][k]
    BY <2>1, <2>2, <1>1, AddReadings, Zenon
  <2> QED
    BY <2>3, <2>4, Zenon
<1>3. TypeOK'
  BY <1>a, <1>b, <1>1, <1>2, Zenon DEF TypeOK
<1>4. AtWork' /\ ReadForTask'
  BY <1>a, <1>b, <1>2, Zenon DEF AtWork, ReadForTask, TaskOf, Busy
<1> QED
  BY <1>3, <1>4, Zenon DEF ReadingsInv

\* Whatever the client, the workers, their monitors and the calls left behind
\* do, a monitor is done with a task only after its own readings are merged.
LEMMA NextReadings == IInv /\ IInv' /\ ReadingsInv /\ [Next]_vars => ReadingsInv'
<1> SUFFICES ASSUME IInv, IInv', ReadingsInv, [Next]_vars PROVE ReadingsInv'
  BY Zenon
<1>1. CASE \/ DiscoverClusterFails \/ (\E ns \in SUBSET Nodes : DiscoverCluster(ns))
           \/ FinishSampling \/ Dispatch \/ CollectDone \/ ScheduleDispatch
           \/ \E r \in pool : Collect(r)
  BY <1>1, ClientReadings, Zenon
<1>2. ASSUME NEW w \in Workers, NEW n \in Nodes, NEW S \in SUBSET Monitors, AssignTask(w, n, S)
      PROVE  ReadingsInv'
  BY <1>2, AssignTaskReadings, Zenon
<1>3. ASSUME NEW w \in Workers, WorkerStep(w) PROVE ReadingsInv'
  BY <1>3, MonitorReadings, FinishAndReportReadings, Zenon DEF WorkerStep
<1>4. ASSUME NEW z \in zombies, ZombieReturns(z) PROVE ReadingsInv'
  BY <1>4, ZombieReadings, Zenon
<1>5. CASE Rest \/ UNCHANGED vars
  BY <1>5, Zenon DEF Rest, vars, clientVars, collectVars, workerVars, ReadingsInv, TypeOK, AtWork, ReadForTask,
              TaskOf, Busy
<1> QED
  BY <1>1, <1>2, <1>3, <1>4, <1>5, Zenon DEF Next

\* The readings of every task are its own in every reachable state.
THEOREM ReadingsInvariant == Spec => []ReadingsInv
<1> QED
  BY InitReadings, NextReadings, PipelineInvariant, PTL DEF Spec

\* Every variable of the pipeline keeps its type: the wait group in particular
\* never goes below zero, where Go's WaitGroup panics.
THEOREM TypeCorrect == Spec => []TypeOK
<1>1. ReadingsInv => TypeOK
  BY Zenon DEF ReadingsInv
<1> QED
  BY <1>1, ReadingsInvariant, PTL

\* A task that executeTask reports as a success has, from every monitor that
\* did not fail, readings made for this very task, for any number of workers
\* and monitors and whatever calls of earlier tasks still run, write and merge.
THEOREM ReadingsAreOwn == Spec => []OwnReadings
<1>1. ReadingsInv => OwnReadings
  BY Zenon DEF ReadingsInv, ReadForTask, OwnReadings, Busy
<1> QED
  BY <1>1, ReadingsInvariant, PTL

-----------------------------------------------------------------------------
(* The refinement of DiscoveryResults. *)

\* A step of the pipeline begins a discovery, gathers one result, ends the
\* discovery, or changes nothing the abstract specification can see.
LEMMA NextImplements == IInv /\ [Next]_vars => [Results!Next]_(Results!vars)
<1> SUFFICES ASSUME IInv, [Next]_vars PROVE [Results!Next]_(Results!vars)
  BY Zenon
<1> USE DEF clientVars, collectVars, workerVars
<1>a. UNCHANGED <<pc, nodes, results>> => UNCHANGED Results!vars
  BY Zenon DEF Results!vars
<1>b. pc # "collect" /\ pc' # "collect" => UNCHANGED Results!vars
  BY Zenon DEF Results!vars
<1>1. CASE DiscoverClusterFails \/ FinishSampling \/ ScheduleDispatch
  BY <1>1, <1>b, Zenon DEF DiscoverClusterFails, FinishSampling, ScheduleDispatch
<1>2. ASSUME NEW ns \in SUBSET Nodes, DiscoverCluster(ns) PROVE UNCHANGED Results!vars
  BY <1>2, <1>b, Zenon DEF DiscoverCluster
<1>3. CASE Dispatch
  <2>1. nodes \in SUBSET Nodes
    BY Zenon DEF IInv, Types
  <2>2. Results!Begin(nodes)
    BY <1>3, Zenon DEF Dispatch, Results!Begin
  <2> QED
    BY <2>1, <2>2, Zenon DEF Results!Next
<1>4. CASE CollectDone
  <2>1. pc = "collect" /\ pc' = "schedule" /\ UNCHANGED <<nodes, results>>
    BY <1>4, Zenon DEF CollectDone
  <2>2. Gathered' = nodes'
    BY <2>1, <1>4, CollectDoneIInv, Zenon DEF IInv
  <2>3. Gathered = nodes
    BY <2>1, <2>2, Zenon DEF Gathered
  <2>4. Results!End
    BY <2>1, <2>3, Zenon DEF Results!End, Gathered
  <2> QED
    BY <2>4, Zenon DEF Results!Next
<1>5. ASSUME NEW r \in pool, Collect(r) PROVE Results!Next
  <2>1. pc = "collect" /\ results' = results \cup {r} /\ UNCHANGED <<pc, nodes>>
    BY <1>5, Zenon DEF Collect
  <2>2. r \in Result /\ r.node \in nodes /\ r.node \notin Gathered
    BY Zenon DEF IInv, Types, OnePlace
  <2>3. Results!Gather(r)
    BY <2>1, <2>2, Zenon DEF Results!Gather, Gathered
  <2> QED
    BY <2>2, <2>3, Zenon DEF Results!Next, Results!Result, Result
<1>6. ASSUME NEW w \in Workers, NEW n \in Nodes, NEW S \in SUBSET Monitors, AssignTask(w, n, S)
      PROVE  UNCHANGED Results!vars
  BY <1>6, <1>a, Zenon DEF AssignTask
<1>7. ASSUME NEW w \in Workers, WorkerStep(w) PROVE UNCHANGED Results!vars
  BY <1>7, <1>a, Zenon DEF WorkerStep, MonitorStep, TimerFires, DoReturns, DoFails, LateMerge,
                    MonitorTimesOut, FinishTask, Report
<1>8. ASSUME NEW z \in zombies, ZombieReturns(z) PROVE UNCHANGED Results!vars
  BY <1>8, <1>a, Zenon DEF ZombieReturns
<1>9. CASE Rest \/ UNCHANGED vars
  BY <1>9, <1>a, Zenon DEF Rest, vars
<1> QED
  BY <1>1, <1>2, <1>3, <1>4, <1>5, <1>6, <1>7, <1>8, <1>9, Zenon DEF Next

\* Dispatcher, workers, timeouts and collector together do what
\* DiscoveryResults says of one discovery: results are gathered for the nodes
\* of the discovery only, once each, and it ends when none is missing.
THEOREM PipelineImplementsResults == Spec => ImplementsResults
<1>1. Init => Results!Init
  BY Zenon DEF Init, Results!Init
<1> QED
  BY <1>1, NextImplements, PipelineInvariant, PTL DEF Spec, ImplementsResults, Results!Spec

-----------------------------------------------------------------------------
(* Sampling rounds do not pile up.                                         *)

Round ==
  [by : Sampling!Discoveries, id : Nat, left : Int,
   at : {"check", "assign", "done"}, abort : BOOLEAN]

Scheduler == [st : {"off", "wait", "round"}, count : Nat]

\* The types of what the argument is about.
SamplingTypes ==
  /\ sched \in [Sampling!Discoveries -> Scheduler]
  /\ rounds \subseteq Round /\ ticks \in Nat
  /\ sfree \in Int /\ young \in Int /\ old \in Int

\* At most one scheduler is alive, and none before the first ScheduleDispatch
\* or while a full discovery runs.
OneScheduler ==
  /\ \A d, e \in Sampling!Discoveries : sched[d].st # "off" /\ sched[e].st # "off" => d = e
  /\ ~timestamp \/ client = "full" => \A d \in Sampling!Discoveries : sched[d].st = "off"

\* A round that is not aborted is the last one, and its scheduler waits for it.
\* There is at most one child of the last tick and one of the ticks before; if
\* that one still waits for a worker then no task was assigned since the tick,
\* for it would have been the first to get one.
RoundsInv ==
  /\ \A c \in rounds : ~c.abort => c.id = ticks /\ sched[c.by].st = "round"
  /\ \A c \in rounds : c.id <= ticks
  /\ \A c, e \in rounds : (c.id = ticks <=> e.id = ticks) => c = e
  /\ \A c \in rounds : c.id < ticks /\ c.at = "assign" => young = 0

SamplingInv == SamplingTypes /\ OneScheduler /\ RoundsInv

LEMMA SamplingInit == Sampling!Init => SamplingInv
<1> SUFFICES ASSUME Sampling!Init PROVE SamplingInv
  BY Zenon
<1>1. SamplingTypes
  BY SamplingAssumption DEF Sampling!Init, SamplingTypes, Scheduler
<1>2. OneScheduler
  BY Zenon DEF Sampling!Init, OneScheduler
<1>3. RoundsInv
  BY Zenon DEF Sampling!Init, RoundsInv
<1> QED
  BY <1>1, <1>2, <1>3, Zenon DEF SamplingInv

\* A round's own step: it goes away, or goes on with the same id for the same
\* scheduler, aborted if it was.
RoundMoves(c) ==
  \/ rounds' = rounds \ {c}
  \/ \E e \in Round :
       /\ rounds' = (rounds \ {c}) \cup {e}
       /\ e.id = c.id /\ e.by = c.by /\ (c.abort => e.abort)

LEMMA RoundsMove ==
  ASSUME SamplingTypes, NEW c \in rounds, Sampling!RoundStep(c)
  PROVE  RoundMoves(c)
<1>1. c \in Round
  BY Zenon DEF SamplingTypes
<1>2. CASE Sampling!CheckAbort(c)
  <2>1. [c EXCEPT !.at = "done"] \in Round /\ [c EXCEPT !.at = "assign"] \in Round
    BY <1>1, Zenon DEF Round
  <2>2. \/ rounds' = (rounds \ {c}) \cup {[c EXCEPT !.at = "done"]}
        \/ rounds' = (rounds \ {c}) \cup {[c EXCEPT !.at = "assign"]}
        \/ rounds' = rounds \ {c}
    BY <1>2, Zenon DEF Sampling!CheckAbort
  <2> QED
    BY <1>1, <2>1, <2>2, Zenon DEF RoundMoves, Round
<1>3. CASE Sampling!AssignSample(c)
  <2>1. [c EXCEPT !.at = "check", !.left = @ - 1] \in Round
    <3>1. c.left - 1 \in Int
      BY <1>1 DEF Round
    <3> QED
      BY <1>1, <3>1, Zenon DEF Round
  <2> QED
    BY <1>1, <1>3, <2>1, Zenon DEF Sampling!AssignSample, RoundMoves, Round
<1>4. CASE Sampling!RoundDone(c) \/ Sampling!LateDone(c)
  BY <1>4, Zenon DEF Sampling!RoundDone, Sampling!LateDone, RoundMoves
<1>5. CASE Sampling!RoundTimesOut(c)
  <2>1. [c EXCEPT !.abort = TRUE] \in Round
    BY <1>1, Zenon DEF Round
  <2> QED
    BY <1>1, <1>5, <2>1, Zenon DEF Sampling!RoundTimesOut, RoundMoves, Round
<1> QED
  BY <1>2, <1>3, <1>4, <1>5, Zenon DEF Sampling!RoundStep

LEMMA SamplingTypesStep ==
  ASSUME SamplingInv, [Sampling!Next]_Sampling!vars
  PROVE  SamplingTypes'
<1> USE SamplingAssumption
<1> USE DEF SamplingTypes, Scheduler
<1>1. CASE UNCHANGED Sampling!vars
  BY <1>1, Zenon DEF SamplingInv, Sampling!vars, Sampling!samplers
<1>2. CASE Sampling!BeginDiscovery \/ Sampling!Rest
  BY <1>2, Zenon DEF SamplingInv, Sampling!BeginDiscovery, Sampling!Rest, Sampling!vars, Sampling!samplers
<1>7. CASE Sampling!FinishSampling
  <2>1. sched' \in [Sampling!Discoveries -> Scheduler]
    BY <1>7, Zenon DEF SamplingInv, Sampling!FinishSampling
  <2> QED
    BY <1>7, <2>1, Zenon DEF SamplingInv, Sampling!FinishSampling, Sampling!samplers
<1>3. ASSUME NEW n \in NodeCounts, Sampling!ScheduleDispatch(n)
      PROVE  SamplingTypes'
  BY <1>3, Zenon DEF SamplingInv, Sampling!ScheduleDispatch, Sampling!samplers
<1>4. ASSUME NEW d \in Sampling!Discoveries, Sampling!StartRound(d)
      PROVE  SamplingTypes'
  <2>1. sched[d].count \in Int /\ ticks + 1 \in Nat
    BY DEF SamplingInv
  <2>2. [by |-> d, id |-> ticks + 1, left |-> sched[d].count, at |-> "check", abort |-> FALSE] \in Round
    BY <2>1, Zenon DEF Round
  <2>3. rounds' \subseteq Round
    BY <1>4, <2>2, Zenon DEF SamplingInv, Sampling!StartRound
  <2>4. sched' \in [Sampling!Discoveries -> Scheduler]
    BY <1>4, Zenon DEF SamplingInv, Sampling!StartRound
  <2> QED
    BY <1>4, <2>1, <2>3, <2>4, SMTT(30) DEF SamplingInv, Sampling!StartRound
<1>5. ASSUME NEW c \in rounds, Sampling!RoundStep(c)
      PROVE  SamplingTypes'
  <2>1. rounds' \subseteq Round
    BY <1>5, RoundsMove, Zenon DEF SamplingInv, RoundMoves
  <2>2. c.by \in Sampling!Discoveries
    BY Zenon DEF SamplingInv, Round
  <2>3. sched' \in [Sampling!Discoveries -> Scheduler]
    BY <1>5, <2>2 DEF SamplingInv, Sampling!RoundStep, Sampling!CheckAbort, Sampling!AssignSample,
       Sampling!RoundDone, Sampling!RoundTimesOut, Sampling!LateDone
  <2> QED
    BY <1>5, <2>1, <2>3, SMTT(30) DEF SamplingInv, Sampling!RoundStep, Sampling!CheckAbort, Sampling!AssignSample,
       Sampling!RoundDone, Sampling!RoundTimesOut, Sampling!LateDone, Sampling!samplers
<1>6. CASE Sampling!SampleEnds \/ Sampling!RegisterWorker
  BY <1>6 DEF SamplingInv, Sampling!SampleEnds, Sampling!RegisterWorker
<1> QED
  BY <1>1, <1>2, <1>3, <1>4, <1>5, <1>6, <1>7, ZenonT(30) DEF Sampling!Next

\* A step of a round leaves every scheduler alive that is, and no other.
LEMMA RoundsKeepSchedulers ==
  ASSUME SamplingInv, NEW c \in rounds, Sampling!RoundStep(c)
  PROVE  /\ \A d \in Sampling!Discoveries : sched'[d].st = "off" <=> sched[d].st = "off"
         /\ \A d \in Sampling!Discoveries : c.abort \/ d # c.by => sched'[d] = sched[d]
<1>1. c.by \in Sampling!Discoveries
  BY Zenon DEF SamplingInv, SamplingTypes, Round
<1>2. CASE ~c.abort /\ sched' = [sched EXCEPT ![c.by].st = "wait"]
  <2>1. sched[c.by].st = "round"
    BY <1>2, Zenon DEF SamplingInv, RoundsInv
  <2> QED
    BY <1>1, <1>2, <2>1, Zenon DEF SamplingInv, SamplingTypes, Scheduler
<1>3. CASE sched' = sched
  BY <1>3, Zenon
<1> QED
  BY <1>2, <1>3, Zenon DEF Sampling!RoundStep, Sampling!CheckAbort, Sampling!AssignSample,
     Sampling!RoundDone, Sampling!RoundTimesOut, Sampling!LateDone

LEMMA OneSchedulerStep ==
  ASSUME SamplingInv, [Sampling!Next]_Sampling!vars
  PROVE  OneScheduler'
<1> USE DEF SamplingInv, OneScheduler
<1>1. CASE UNCHANGED Sampling!vars
  BY <1>1, Zenon DEF Sampling!vars
<1>2. CASE Sampling!BeginDiscovery \/ Sampling!Rest
  BY <1>2, Zenon DEF Sampling!BeginDiscovery, Sampling!Rest, Sampling!vars
<1>3. CASE Sampling!FinishSampling
  <2>1. CASE ~timestamp
    BY <1>3, <2>1, Zenon DEF Sampling!FinishSampling
  <2>2. CASE timestamp
    <3>1. PICK d \in Sampling!Discoveries :
             sched[d].st = "wait" /\ sched' = [sched EXCEPT ![d].st = "off"]
      BY <1>3, <2>2, Zenon DEF Sampling!FinishSampling
    <3>2. \A e \in Sampling!Discoveries : sched'[e].st = "off"
      BY <3>1, Zenon DEF SamplingTypes, Scheduler
    <3> QED
      BY <3>2, Zenon
  <2> QED
    BY <2>1, <2>2, Zenon
<1>4. ASSUME NEW n \in NodeCounts, Sampling!ScheduleDispatch(n)
      PROVE  OneScheduler'
  <2>1. \A d \in Sampling!Discoveries : d # era => sched'[d].st = "off"
    BY <1>4, Zenon DEF Sampling!ScheduleDispatch, SamplingTypes
  <2> QED
    BY <1>4, <2>1, Zenon DEF Sampling!ScheduleDispatch
<1>5. ASSUME NEW d \in Sampling!Discoveries, Sampling!StartRound(d)
      PROVE  OneScheduler'
  <2>1. \A e \in Sampling!Discoveries : sched'[e].st = "off" <=> sched[e].st = "off"
    BY <1>5, Zenon DEF Sampling!StartRound, SamplingTypes, Scheduler
  <2> QED
    BY <1>5, <2>1, Zenon DEF Sampling!StartRound
<1>6. ASSUME NEW c \in rounds, Sampling!RoundStep(c)
      PROVE  OneScheduler'
  <2>1. UNCHANGED <<client, timestamp>>
    BY <1>6, Zenon DEF Sampling!RoundStep, Sampling!CheckAbort, Sampling!AssignSample,
       Sampling!RoundDone, Sampling!RoundTimesOut, Sampling!LateDone
  <2> QED
    BY <1>6, <2>1, RoundsKeepSchedulers, Zenon
<1>7. CASE Sampling!SampleEnds \/ Sampling!RegisterWorker
  BY <1>7, Zenon DEF Sampling!SampleEnds, Sampling!RegisterWorker
<1> QED
  BY <1>1, <1>2, <1>3, <1>4, <1>5, <1>6, <1>7, Zenon DEF Sampling!Next

\* When a scheduler takes a tick, only the child of the round before may still
\* be there: one of an earlier round would have got the first worker that
\* became free since, and every worker became free.
LEMMA OnlyLastRoundIsLeft ==
  ASSUME SamplingInv, NEW d \in Sampling!Discoveries, Sampling!StartRound(d), NEW c \in rounds
  PROVE  c.abort /\ c.id = ticks
<1> USE DEF SamplingInv, SamplingTypes, Sampling!StartRound
<1>1. c \in Round
  BY Zenon
<1>2. c.abort
  <2>1. SUFFICES ASSUME ~c.abort PROVE FALSE
    BY <1>1, Zenon DEF Round
  <2>2. sched[c.by].st = "round" /\ c.by \in Sampling!Discoveries
    BY <1>1, <2>1, Zenon DEF RoundsInv, Round
  <2>3. c.by = d
    BY <2>2, Zenon DEF OneScheduler
  <2> QED
    BY <2>2, <2>3, Zenon
<1>3. ~Sampling!CanMove(c)
  BY <1>2, Zenon DEF Sampling!IntervalPassed
<1>4. c.at = "assign" /\ ~(sfree > 0)
  BY <1>1, <1>3, Zenon DEF Round, Sampling!CanMove
<1>5. old = 0 /\ ~(sfree < SamplingWorkers /\ 2 * SamplingWorkers - sfree - young - old > 0)
  BY Zenon DEF Sampling!IntervalPassed, Sampling!Registering, Sampling!SamplerCount
<1>6. young # 0
  BY <1>4, <1>5, SamplingAssumption, SMTT(30)
<1>7. ~(c.id < ticks) /\ c.id <= ticks
  BY <1>4, <1>6, Zenon DEF RoundsInv
<1> QED
  BY <1>1, <1>2, <1>7, SMTT(30) DEF Round

LEMMA RoundsStep ==
  ASSUME SamplingInv, [Sampling!Next]_Sampling!vars
  PROVE  RoundsInv'
<1> USE DEF SamplingInv
<1>1. CASE UNCHANGED Sampling!vars
  BY <1>1, Zenon DEF RoundsInv, Sampling!vars, Sampling!samplers
<1>2. CASE Sampling!BeginDiscovery \/ Sampling!Rest \/ Sampling!RegisterWorker
  BY <1>2, Zenon DEF RoundsInv, Sampling!BeginDiscovery, Sampling!Rest, Sampling!RegisterWorker,
     Sampling!vars, Sampling!samplers
<1>3. CASE Sampling!FinishSampling
  <2>1. UNCHANGED <<rounds, ticks, young>>
    BY <1>3, Zenon DEF Sampling!FinishSampling, Sampling!samplers
  <2>2. \A e \in Sampling!Discoveries : sched[e].st = "round" => sched'[e].st = "round"
    BY <1>3, Zenon DEF Sampling!FinishSampling, SamplingTypes, Scheduler
  <2> QED
    BY <2>1, <2>2, Zenon DEF RoundsInv, SamplingTypes, Round
<1>4. ASSUME NEW n \in NodeCounts, Sampling!ScheduleDispatch(n)
      PROVE  RoundsInv'
  <2>1. UNCHANGED <<rounds, ticks, young>>
    BY <1>4, Zenon DEF Sampling!ScheduleDispatch, Sampling!samplers
  <2>2. \A c \in rounds : c.abort
    BY <1>4, Zenon DEF RoundsInv, OneScheduler, SamplingTypes, Round, Sampling!ScheduleDispatch
  <2> QED
    BY <2>1, <2>2, Zenon DEF RoundsInv
<1>5. ASSUME NEW d \in Sampling!Discoveries, Sampling!StartRound(d)
      PROVE  RoundsInv'
  <2> DEFINE new == [by |-> d, id |-> ticks + 1, left |-> sched[d].count, at |-> "check", abort |-> FALSE]
  <2>1. rounds' = rounds \cup {new} /\ ticks' = ticks + 1 /\ young' = 0
    BY <1>5, Zenon DEF Sampling!StartRound
  <2>2. \A c \in rounds : c.abort /\ c.id = ticks
    BY <1>5, OnlyLastRoundIsLeft, Zenon
  <2>3. sched'[d].st = "round"
    BY <1>5, Zenon DEF Sampling!StartRound, SamplingTypes, Scheduler
  <2>4. \A c, e \in rounds : c = e
    BY <2>2, Zenon DEF RoundsInv
  <2>5. new.by = d /\ new.id = ticks'
    BY <2>1, Zenon
  <2>6. \A c \in rounds : c.id # ticks' /\ c.id <= ticks'
    BY <2>1, <2>2 DEF SamplingTypes
  <2>7. \A c \in rounds' : ~c.abort => c = new
    BY <2>1, <2>2, Zenon
  <2>8. \A c \in rounds' : c.id <= ticks'
    BY <2>1, <2>5, <2>6 DEF SamplingTypes
  <2>9. \A c, e \in rounds' : (c.id = ticks' <=> e.id = ticks') => c = e
    BY <2>1, <2>4, <2>5, <2>6, Zenon
  <2> QED
    BY <2>1, <2>3, <2>5, <2>7, <2>8, <2>9, Zenon DEF RoundsInv
<1>6. ASSUME NEW c \in rounds, Sampling!RoundStep(c)
      PROVE  RoundsInv'
  <2>1. RoundMoves(c)
    BY <1>6, RoundsMove, Zenon
  <2>2. ticks' = ticks
    BY <1>6, Zenon DEF Sampling!RoundStep, Sampling!CheckAbort, Sampling!AssignSample,
       Sampling!RoundDone, Sampling!RoundTimesOut, Sampling!LateDone
  <2>3. \A x \in rounds' : ~x.abort => x.id = ticks /\ sched'[x.by].st = "round"
    <3> SUFFICES ASSUME NEW x \in rounds', ~x.abort PROVE x.id = ticks /\ sched'[x.by].st = "round"
      BY Zenon
    <3>1. CASE x \in rounds /\ x # c
      <4>1. x.id = ticks /\ sched[x.by].st = "round" /\ x.by \in Sampling!Discoveries
        BY <3>1, Zenon DEF RoundsInv, SamplingTypes, Round
      <4>2. c.abort \/ c.id = ticks
        BY Zenon DEF RoundsInv
      <4>3. c.abort
        BY <3>1, <4>1, <4>2, Zenon DEF RoundsInv
      <4> QED
        BY <1>6, <4>1, <4>3, RoundsKeepSchedulers, Zenon
    <3>2. CASE ~(x \in rounds /\ x # c)
      <4>1. x.id = c.id /\ x.by = c.by /\ ~c.abort
        BY <2>1, <3>2, Zenon DEF RoundMoves
      <4>2. c.id = ticks /\ sched[c.by].st = "round"
        BY <4>1, Zenon DEF RoundsInv
      <4>3. UNCHANGED sched
        BY <1>6, <4>1, <3>2, SMTT(30) DEF Sampling!RoundStep, Sampling!CheckAbort, Sampling!AssignSample,
           Sampling!RoundDone, Sampling!RoundTimesOut, Sampling!LateDone, SamplingTypes, Round
      <4> QED
        BY <4>1, <4>2, <4>3, Zenon
    <3> QED
      BY <3>1, <3>2, Zenon
  <2>4. \A x \in rounds' : \E y \in rounds : y.id = x.id /\ (x \notin rounds => y = c)
    BY <2>1, Zenon DEF RoundMoves
  <2>5. \A x \in rounds' : x.id <= ticks
    BY <2>4, Zenon DEF RoundsInv
  <2>6. \A x, y \in rounds' : (x.id = ticks <=> y.id = ticks) => x = y
    BY <2>1 DEF RoundMoves, RoundsInv
  <2>7. \A x \in rounds' : x.id < ticks /\ x.at = "assign" => young' = 0
    <3> SUFFICES ASSUME NEW x \in rounds', x.id < ticks, x.at = "assign" PROVE young' = 0
      BY Zenon
    <3>1. x \in rounds
      <4> SUFFICES ASSUME x \notin rounds PROVE FALSE
        BY Zenon
      <4>1. c.id < ticks /\ c \in Round
        BY <2>4, Zenon DEF SamplingTypes
      <4>2. c.abort
        BY <4>1 DEF RoundsInv, SamplingTypes, Round
      <4>3. \/ rounds' = (rounds \ {c}) \cup {[c EXCEPT !.at = "done"]}
            \/ rounds' = (rounds \ {c}) \cup {[c EXCEPT !.at = "check", !.left = @ - 1]}
            \/ rounds' = rounds \ {c}
        BY <1>6, <4>2, Zenon DEF Sampling!RoundStep, Sampling!CheckAbort, Sampling!AssignSample,
           Sampling!RoundDone, Sampling!RoundTimesOut, Sampling!LateDone
      <4>4. \/ x = [c EXCEPT !.at = "done"]
            \/ x = [c EXCEPT !.at = "check", !.left = @ - 1]
        BY <4>3, Zenon
      <4>5. x.at \in {"done", "check"}
        BY <4>1, <4>4, Zenon DEF Round
      <4> QED
        BY <4>5, Zenon
    <3>2. young = 0
      BY <3>1, Zenon DEF RoundsInv
    <3>3. CASE Sampling!AssignSample(c)
      <4>1. c.id <= x.id
        BY <3>1, <3>3, Zenon DEF Sampling!AssignSample
      <4>2. c = x
        BY <3>1, <4>1, SMTT(30) DEF RoundsInv, SamplingTypes, Round
      <4> QED
        BY <3>1, <3>3, <4>2, Zenon DEF Sampling!AssignSample, SamplingTypes, Round
    <3>4. CASE ~Sampling!AssignSample(c)
      BY <1>6, <3>2, <3>4, ZenonT(30) DEF Sampling!RoundStep, Sampling!CheckAbort,
         Sampling!RoundDone, Sampling!RoundTimesOut, Sampling!LateDone, Sampling!samplers
    <3> QED
      BY <3>3, <3>4, Zenon
  <2> QED
    BY <2>2, <2>3, <2>5, <2>6, <2>7, Zenon DEF RoundsInv
<1>7. CASE Sampling!SampleEnds
  BY <1>7 DEF RoundsInv, Sampling!SampleEnds
<1> QED
  BY <1>1, <1>2, <1>3, <1>4, <1>5, <1>6, <1>7, Zenon DEF Sampling!Next

\* However slow the kubelets are and whenever discoveries come, there is one
\* scheduler of sampling rounds at most, none while a full discovery runs, and
\* one child of an aborted round at most beside that of the current round.
THEOREM RoundsDoNotPileUp == Sampling!Spec => []NoPileUp
<1>1. SamplingInv /\ [Sampling!Next]_Sampling!vars => SamplingInv'
  BY SamplingTypesStep, OneSchedulerStep, RoundsStep, Zenon DEF SamplingInv
<1>2. SamplingInv => NoPileUp
  <2> SUFFICES ASSUME SamplingInv PROVE NoPileUp
    BY Zenon
  <2>1. \A a, b, c \in rounds : a = b \/ a = c \/ b = c
    BY Zenon DEF SamplingInv, RoundsInv
  <2> QED
    BY <2>1, Zenon DEF SamplingInv, OneScheduler, NoPileUp, Sampling!NoPileUp
<1> QED
  BY <1>1, <1>2, SamplingInit, PTL DEF Sampling!Spec

-----------------------------------------------------------------------------
(* The cache of the kubelet client harms only scrapes that overlap.        *)

CacheEntry == [present : BOOLEAN, summary : BOOLEAN, freq : BOOLEAN, used : BOOLEAN]

\* The types of what the argument is about.  A summary is in an entry.
KubeletTypes ==
  /\ cache \in [Hosts -> CacheEntry]
  /\ \A h \in Hosts : cache[h].summary => cache[h].present
  /\ at \in [Kubelet!Scrapers -> {"idle", "lookup", "discover", "store", "summary", "check"}]
  /\ host \in [Kubelet!Scrapers -> Hosts]
  /\ had \in [Kubelet!Scrapers -> BOOLEAN]
  /\ got \in [Kubelet!Scrapers -> {"none", "fresh", "stale"}]
  /\ disturbed \in [Kubelet!Scrapers -> BOOLEAN]
  /\ recorded \in [Kubelet!Scrapers -> {"none", "fresh", "stale", "marked", "error"}]

\* What scraper s has seen of its entry is still so, unless another call has
\* touched the entry; and it recorded what it saw.
Undisturbed(s) ==
  /\ at[s] \in {"discover", "store"} /\ had[s] => cache[host[s]].present
  /\ at[s] = "check" => got[s] # "none" /\ (cache[host[s]].used <=> got[s] = "stale")
  /\ at[s] = "idle" =>
       /\ recorded[s] # "stale"
       /\ got[s] = "fresh" => recorded[s] \in {"none", "fresh"}

KubeletInv ==
  /\ KubeletTypes
  /\ \A s \in Kubelet!Scrapers : ~disturbed[s] => Undisturbed(s)
  /\ panicked => \E s \in Kubelet!Scrapers : at[s] = "store" /\ disturbed[s]

LEMMA KubeletInit == Kubelet!Init => KubeletInv
<1> SUFFICES ASSUME Kubelet!Init PROVE KubeletInv
  BY Zenon
<1>1. KubeletTypes
  BY KubeletAssumption, Zenon DEF Kubelet!Init, Kubelet!NoEntry, KubeletTypes, CacheEntry
<1>2. \A s \in Kubelet!Scrapers : Undisturbed(s)
  BY Zenon DEF Kubelet!Init, Undisturbed
<1> QED
  BY <1>1, <1>2, Zenon DEF Kubelet!Init, KubeletInv

\* A scraper that a step does not move, and whose entry it leaves alone or
\* marks as disturbed.
Bystander(x) ==
  /\ at'[x] = at[x] /\ host'[x] = host[x] /\ had'[x] = had[x]
  /\ got'[x] = got[x] /\ recorded'[x] = recorded[x]
  /\ ~disturbed'[x] => ~disturbed[x]
  /\ ~disturbed'[x] /\ at[x] \in {"discover", "store", "check"} => cache'[host[x]] = cache[host[x]]

LEMMA BystanderKeeps ==
  ASSUME KubeletInv, NEW x \in Kubelet!Scrapers, Bystander(x), ~disturbed'[x]
  PROVE  Undisturbed(x)'
BY Zenon DEF KubeletInv, Bystander, Undisturbed

LEMMA StartScrapeStep ==
  ASSUME KubeletInv, NEW s \in Kubelet!Scrapers, NEW h \in Hosts, Kubelet!StartScrape(s, h)
  PROVE  KubeletInv'
<1> USE DEF Kubelet!StartScrape, Kubelet!GoTo
<1>1. KubeletTypes'
  BY Zenon DEF KubeletInv, KubeletTypes
<1>2. ASSUME NEW x \in Kubelet!Scrapers, ~disturbed'[x]
      PROVE  Undisturbed(x)'
  <2>1. CASE x = s
    BY <2>1, Zenon DEF KubeletInv, KubeletTypes, Undisturbed
  <2>2. CASE x # s
    BY <1>2, <2>2, BystanderKeeps, Zenon DEF KubeletInv, KubeletTypes, Bystander
  <2> QED
    BY <2>1, <2>2, Zenon
<1> QED
  BY <1>1, <1>2, Zenon DEF KubeletInv

LEMMA LookupStep ==
  ASSUME KubeletInv, NEW s \in Kubelet!Scrapers, Kubelet!LookupFrequency(s)
  PROVE  KubeletInv'
<1> USE DEF Kubelet!LookupFrequency, Kubelet!GoTo
<1>1. KubeletTypes'
  BY Zenon DEF KubeletInv, KubeletTypes, CacheEntry
<1>2. ASSUME NEW x \in Kubelet!Scrapers, ~disturbed'[x]
      PROVE  Undisturbed(x)'
  <2>1. CASE x = s
    BY <2>1, Zenon DEF KubeletInv, KubeletTypes, Undisturbed
  <2>2. CASE x # s
    BY <1>2, <2>2, BystanderKeeps, Zenon DEF KubeletInv, KubeletTypes, Bystander
  <2> QED
    BY <2>1, <2>2, Zenon
<1> QED
  BY <1>1, <1>2, Zenon DEF KubeletInv

LEMMA DiscoverStep ==
  ASSUME KubeletInv, NEW s \in Kubelet!Scrapers, Kubelet!DiscoverFrequency(s)
  PROVE  KubeletInv'
<1>1. /\ ~panicked /\ at[s] = "discover"
      /\ \E p \in {"store", "summary"} : at' = [at EXCEPT ![s] = p]
      /\ UNCHANGED <<cache, host, had, got, disturbed, recorded, scrapes, panicked>>
  BY Zenon DEF Kubelet!DiscoverFrequency, Kubelet!GoTo
<1>2. KubeletTypes'
  BY <1>1, Zenon DEF KubeletInv, KubeletTypes
<1>3. ASSUME NEW x \in Kubelet!Scrapers, ~disturbed'[x]
      PROVE  Undisturbed(x)'
  <2>1. CASE x = s
    BY <1>1, <1>3, <2>1, Zenon DEF KubeletInv, KubeletTypes, Undisturbed
  <2>2. CASE x # s
    BY <1>1, <1>3, <2>2, BystanderKeeps, Zenon DEF KubeletInv, KubeletTypes, Bystander
  <2> QED
    BY <2>1, <2>2, Zenon
<1> QED
  BY <1>1, <1>2, <1>3, Zenon DEF KubeletInv

LEMMA FinishStep ==
  ASSUME KubeletInv, NEW s \in Kubelet!Scrapers, Kubelet!FinishScrape(s)
  PROVE  KubeletInv'
<1> USE DEF Kubelet!FinishScrape, Kubelet!GoTo
<1>1. KubeletTypes'
  BY Zenon DEF KubeletInv, KubeletTypes
<1>2. ASSUME NEW x \in Kubelet!Scrapers, ~disturbed'[x]
      PROVE  Undisturbed(x)'
  <2>1. CASE x = s
    BY <1>2, <2>1, Zenon DEF KubeletInv, KubeletTypes, Undisturbed
  <2>2. CASE x # s
    BY <1>2, <2>2, BystanderKeeps, Zenon DEF KubeletInv, KubeletTypes, Bystander
  <2> QED
    BY <2>1, <2>2, Zenon
<1> QED
  BY <1>1, <1>2, Zenon DEF KubeletInv

LEMMA CleanupStep ==
  ASSUME KubeletInv, NEW l \in SUBSET Hosts, Kubelet!CleanupCache(l)
  PROVE  KubeletInv'
<1> USE DEF Kubelet!CleanupCache
<1>1. KubeletTypes'
  BY Zenon DEF KubeletInv, KubeletTypes, CacheEntry, Kubelet!NoEntry
<1>2. ASSUME NEW x \in Kubelet!Scrapers, ~disturbed'[x]
      PROVE  Undisturbed(x)'
  BY <1>2, BystanderKeeps, Zenon DEF KubeletInv, KubeletTypes, Bystander
<1> QED
  BY <1>1, <1>2, Zenon DEF KubeletInv

LEMMA StoreStep ==
  ASSUME KubeletInv, NEW s \in Kubelet!Scrapers, Kubelet!StoreFrequency(s)
  PROVE  KubeletInv'
<1> DEFINE h == host[s]
<1>1. h \in Hosts /\ ~panicked /\ at[s] = "store"
  BY Zenon DEF KubeletInv, KubeletTypes, Kubelet!StoreFrequency
<1>2. UNCHANGED <<host, had, got, recorded>>
  BY Zenon DEF Kubelet!StoreFrequency
<1>3. CASE had[s] /\ ~cache[h].present
  <2>1. panicked' = TRUE /\ UNCHANGED <<cache, at, disturbed>>
    BY <1>3, Zenon DEF Kubelet!StoreFrequency
  <2>2. disturbed[s]
    BY <1>1, <1>3, Zenon DEF KubeletInv, Undisturbed
  <2> QED
    BY <1>1, <1>2, <2>1, <2>2, Zenon DEF KubeletInv, KubeletTypes, Undisturbed
<1>4. CASE ~(had[s] /\ ~cache[h].present)
  <2>1. /\ at' = [at EXCEPT ![s] = "summary"] /\ UNCHANGED panicked
        /\ cache' = [cache EXCEPT ![h] =
              IF had[s] THEN [@ EXCEPT !.freq = TRUE]
              ELSE [Kubelet!NoEntry EXCEPT !.present = TRUE, !.freq = TRUE]]
        /\ disturbed' = [x \in Kubelet!Scrapers |->
              IF x # s /\ host[x] = h /\ at[x] \in {"discover", "store", "check"} THEN TRUE ELSE disturbed[x]]
    BY <1>4, Zenon DEF Kubelet!StoreFrequency, Kubelet!GoTo, Kubelet!Disturb
  <2> DEFINE e == IF had[s] THEN [cache[h] EXCEPT !.freq = TRUE]
                  ELSE [Kubelet!NoEntry EXCEPT !.present = TRUE, !.freq = TRUE]
  <2>4. e \in CacheEntry /\ (e.summary => e.present)
    <3>1. cache[h] \in CacheEntry /\ (cache[h].summary => cache[h].present)
      BY <1>1, Zenon DEF KubeletInv, KubeletTypes
    <3>2. CASE had[s]
      BY <3>1, <3>2, Zenon DEF CacheEntry
    <3>3. CASE ~had[s]
      BY <3>3, Zenon DEF CacheEntry, Kubelet!NoEntry
    <3> QED
      BY <3>2, <3>3, Zenon
  <2>5. cache' = [cache EXCEPT ![h] = e]
    BY <2>1, Zenon
  <2> HIDE DEF e
  <2>2. KubeletTypes'
    <3>1. cache' \in [Hosts -> CacheEntry] /\ \A k \in Hosts : cache'[k].summary => cache'[k].present
      BY <1>1, <2>4, <2>5, Zenon DEF KubeletInv, KubeletTypes
    <3> QED
      BY <1>1, <1>2, <2>1, <3>1, Zenon DEF KubeletInv, KubeletTypes
  <2>3. ASSUME NEW x \in Kubelet!Scrapers, ~disturbed'[x]
        PROVE  Undisturbed(x)'
    <3>1. CASE x = s
      BY <2>1, <3>1, Zenon DEF KubeletInv, KubeletTypes, Undisturbed
    <3>2. CASE x # s
      BY <1>2, <2>1, <2>3, <3>2, BystanderKeeps, ZenonT(30) DEF KubeletInv, KubeletTypes, Bystander
    <3> QED
      BY <3>1, <3>2, Zenon
  <2> QED
    BY <1>1, <2>1, <2>2, <2>3, Zenon DEF KubeletInv
<1> QED
  BY <1>3, <1>4, Zenon

LEMMA SummaryStep ==
  ASSUME KubeletInv, NEW s \in Kubelet!Scrapers, Kubelet!GetSummary(s)
  PROVE  KubeletInv'
<1> DEFINE h == host[s]
<1>1. h \in Hosts /\ ~panicked
  BY Zenon DEF KubeletInv, KubeletTypes, Kubelet!GetSummary
<1>2. UNCHANGED <<host, had, panicked>>
  BY Zenon DEF Kubelet!GetSummary
<1>3. PICK answered \in BOOLEAN :
        /\ cache' = [cache EXCEPT ![h] = Kubelet!SummaryEntry(@, answered)]
        /\ got' = [got EXCEPT ![s] =
              IF answered THEN "fresh" ELSE IF cache[h].summary THEN "stale" ELSE "none"]
        /\ IF answered \/ cache[h].summary
             THEN at' = [at EXCEPT ![s] = "check"] /\ UNCHANGED recorded
             ELSE at' = [at EXCEPT ![s] = "idle"] /\ recorded' = [recorded EXCEPT ![s] = "error"]
  <2>1. Kubelet!RequestOutcomes \subseteq BOOLEAN
    <3>1. ASSUME NEW f \in BOOLEAN, NEW k, NEW p
          PROVE  Kubelet!ExecuteRequest(f, k, p) \in BOOLEAN
      BY Zenon DEF Kubelet!ExecuteRequest
    <3> QED
      BY <3>1 DEF Kubelet!RequestOutcomes
  <2>2. PICK answered \in Kubelet!RequestOutcomes :
          /\ cache' = [cache EXCEPT ![h] = Kubelet!SummaryEntry(@, answered)]
          /\ got' = [got EXCEPT ![s] =
                IF answered THEN "fresh" ELSE IF cache[h].summary THEN "stale" ELSE "none"]
          /\ IF answered \/ cache[h].summary
               THEN at' = [at EXCEPT ![s] = "check"] /\ UNCHANGED recorded
               ELSE at' = [at EXCEPT ![s] = "idle"] /\ recorded' = [recorded EXCEPT ![s] = "error"]
    BY Zenon DEF Kubelet!GetSummary, Kubelet!GoTo
  <2> QED
    BY <2>1, <2>2, Zenon
<1>4. disturbed' = [x \in Kubelet!Scrapers |-> IF x = s THEN FALSE
                      ELSE IF host[x] = h /\ at[x] \in {"discover", "store", "check"}
                      THEN TRUE ELSE disturbed[x]]
  BY Zenon DEF Kubelet!GetSummary
<1>5. /\ Kubelet!SummaryEntry(cache[h], answered) \in CacheEntry
      /\ Kubelet!SummaryEntry(cache[h], answered).summary => Kubelet!SummaryEntry(cache[h], answered).present
      /\ answered => ~Kubelet!SummaryEntry(cache[h], answered).used
      /\ ~answered /\ cache[h].present => Kubelet!SummaryEntry(cache[h], answered).used
  <2>1. PICK e : e = cache[h]
    BY Zenon
  <2>2. e \in CacheEntry /\ (e.summary => e.present)
    BY <1>1, <2>1, Zenon DEF KubeletInv, KubeletTypes
  <2>3. CASE answered
    BY <2>1, <2>2, <2>3, ZenonT(30) DEF CacheEntry, Kubelet!SummaryEntry
  <2>4. CASE ~answered
    BY <2>1, <2>2, <2>4, ZenonT(30) DEF CacheEntry, Kubelet!SummaryEntry
  <2> QED
    BY <1>3, <2>3, <2>4, Zenon
<1> HIDE DEF h
<1>6. KubeletTypes'
  <2>1. cache' \in [Hosts -> CacheEntry] /\ \A k \in Hosts : cache'[k].summary => cache'[k].present
    BY <1>1, <1>3, <1>5, Zenon DEF KubeletInv, KubeletTypes
  <2> QED
    BY <1>2, <1>3, <1>4, <2>1, ZenonT(30) DEF KubeletInv, KubeletTypes
<1>7. ASSUME NEW x \in Kubelet!Scrapers, ~disturbed'[x]
      PROVE  Undisturbed(x)'
  <2>1. CASE x = s
    BY <1>1, <1>2, <1>3, <1>5, <2>1, SMTT(30) DEF KubeletInv, KubeletTypes, Undisturbed, h
  <2>2. CASE x # s
    BY <1>1, <1>2, <1>3, <1>4, <1>7, <2>2, BystanderKeeps, SMTT(30) DEF KubeletInv, KubeletTypes, Bystander
  <2> QED
    BY <2>1, <2>2, Zenon
<1> QED
  BY <1>1, <1>2, <1>6, <1>7, Zenon DEF KubeletInv

\* However scrapes and clean-ups interleave and whatever the kubelets answer, an
\* old summary is taken for a new one, or a new one dropped, only by a scrape
\* whose cache entry another call touched between its request and its look at
\* the entry; and StoreFrequency meets a nil entry only if the entry was removed
\* between its two locks.
THEOREM OnlyOverlapHarms == Kubelet!Spec => []HarmNeedsOverlap
<1>1. KubeletInv /\ [Kubelet!Next]_Kubelet!vars => KubeletInv'
  <2> SUFFICES ASSUME KubeletInv, [Kubelet!Next]_Kubelet!vars PROVE KubeletInv'
    BY Zenon
  <2>1. CASE UNCHANGED Kubelet!vars
    BY <2>1, Zenon DEF Kubelet!vars, Kubelet!scraperVars, KubeletInv, KubeletTypes, Undisturbed
  <2>2. ASSUME NEW s \in Kubelet!Scrapers, Kubelet!ScrapeStep(s)
        PROVE  KubeletInv'
    BY <2>2, LookupStep, DiscoverStep, StoreStep, SummaryStep, FinishStep, ZenonT(30) DEF Kubelet!ScrapeStep
  <2> QED
    BY <2>1, <2>2, StartScrapeStep, CleanupStep, Zenon DEF Kubelet!Next
<1>2. KubeletInv => HarmNeedsOverlap
  BY Zenon DEF KubeletInv, Undisturbed, HarmNeedsOverlap, Kubelet!HarmNeedsOverlap
<1> QED
  BY <1>1, <1>2, KubeletInit, PTL DEF Kubelet!Spec

-----------------------------------------------------------------------------
(* The usage points a full discovery averages.                             *)

\* Sequences of points as a DTO needs them, none older than b.
Points(b) == {e \in Seq(Nat) : Len(e) \in 1..MaxPoints /\ \A i \in 1..Len(e) : e[i] > b}

SinkTypes ==
  /\ now \in Nat
  /\ cleared \in Nat \X Nat /\ cleared[1] <= cleared[2] /\ cleared[2] <= now
  /\ phase \in {"sampling", "full"} /\ inflight \subseteq Nat
  /\ step \in [Sink!Mergers -> {"do", "own", "ownPut", "global", "globalPut", "done", "failed"}]
  /\ entry \in Seq(Nat) \cup {Absent}
  /\ read \in [Sink!Mergers -> Seq(Nat) \cup {Absent}]

\* A sample is merged in the cycle it was scraped in or in the next one, so the
\* global entry never has a point from before the last but one ClearCache.
SamplesInv ==
  /\ \A p \in inflight : p > cleared[1] /\ (phase = "full" => p > cleared[2])
  /\ global \in Points(cleared[1]) \cup {Absent}

\* What the monitors' goroutines have read and will write.  The entry is there
\* once the kubelet monitor has put its own point, whoever overwrites it then.
MergeInv ==
  /\ phase = "sampling" => \A m \in Sink!Mergers : step[m] \in {"done", "failed"}
  /\ phase = "full" =>
       /\ entry \in Points(cleared[1]) \cup {Absent}
       /\ step["kubelet"] \in {"global", "globalPut", "done"} => entry # Absent
       /\ \A m \in Sink!Mergers :
            /\ step[m] \in {"ownPut", "globalPut"} => read[m] \in Points(cleared[1]) \cup {Absent}
            /\ step[m] = "globalPut" => global # Absent
            /\ step[m] \in {"own", "ownPut"} => current \in Nat /\ current > cleared[1]

SinkInv == SinkTypes /\ SamplesInv /\ MergeInv

LEMMA SinkInit == Sink!Init => SinkInv
BY SinkAssumption, SMTT(30) DEF Sink!Init, Sink!Mergers, SinkInv, SinkTypes, SamplesInv, MergeInv

\* UpdateMetricEntry keeps entries usable, whatever it has read.
LEMMA UpdateIsUsable ==
  ASSUME NEW b \in Nat, NEW new \in Points(b), NEW old_ \in Points(b) \cup {Absent}
  PROVE  Sink!UpdateMetricEntry(new, old_) \in Points(b)
<1>1. CASE old_ = Absent
  BY <1>1, Zenon DEF Sink!UpdateMetricEntry
<1>2. CASE old_ # Absent
  <2> DEFINE points == old_ \o new
             n == Len(points)
  <2>1. old_ \in Points(b)
    BY <1>2, Zenon
  <2>2. points \in Seq(Nat) /\ n = Len(old_) + Len(new)
    BY <2>1 DEF Points
  <2>3. \A i \in 1..n : points[i] > b
    BY <2>1, <2>2, SMTT(30) DEF Points
  <2>4. n \in Nat /\ n >= 1
    BY <2>1, <2>2, SMTT(30) DEF Points
  <2>5. Sink!UpdateMetricEntry(new, old_) =
          IF n > MaxPoints THEN SubSeq(points, n - MaxPoints + 1, n) ELSE points
    BY <1>2, Zenon DEF Sink!UpdateMetricEntry, Sink!UpdateValue
  <2> HIDE DEF points, n
  <2>6. CASE n > MaxPoints
    <3> DEFINE tail == SubSeq(points, n - MaxPoints + 1, n)
    <3>1. tail \in Seq(Nat) /\ Len(tail) = MaxPoints
      BY <2>2, <2>4, <2>6, SinkAssumption, SMTT(30) DEF n
    <3>2. \A i \in 1..MaxPoints : tail[i] = points[n - MaxPoints + i]
      BY <2>2, <2>4, <2>6, SinkAssumption, SMTT(30) DEF n
    <3>3. \A i \in 1..MaxPoints : n - MaxPoints + i \in 1..n
      BY <2>4, <2>6, SinkAssumption, SMTT(30)
    <3> HIDE DEF tail
    <3>4. \A i \in 1..MaxPoints : tail[i] > b
      BY <2>3, <3>2, <3>3, Zenon
    <3>5. tail \in Points(b)
      BY <3>1, <3>4, SinkAssumption, SMTT(30) DEF Points
    <3> QED
      BY <2>5, <2>6, <3>5, Zenon DEF tail
  <2>7. CASE ~(n > MaxPoints)
    <3>1. n \in 1..MaxPoints
      BY <2>4, <2>7, SinkAssumption, SMTT(30)
    <3>2. Len(points) \in 1..MaxPoints /\ \A i \in 1..Len(points) : points[i] > b
      BY <2>3, <3>1, ZenonT(30) DEF n
    <3>3. points \in Points(b)
      BY <2>2, <3>2, Zenon DEF Points
    <3> QED
      BY <2>5, <2>7, <3>3, Zenon
  <2> QED
    BY <2>6, <2>7, Zenon
<1> QED
  BY <1>1, <1>2, Zenon

\* What the points of a bound are, and that a point newer than b is one.
LEMMA PointsFacts ==
  ASSUME NEW b \in Nat
  PROVE  /\ Points(b) \subseteq Seq(Nat) /\ Absent \notin Points(b)
         /\ \A p \in Nat : p > b => <<p>> \in Points(b)
<1>1. ASSUME NEW p \in Nat, p > b
      PROVE  <<p>> \in Points(b)
  <2>1. <<p>> \in Seq(Nat) /\ Len(<<p>>) = 1 /\ <<p>>[1] = p
    OBVIOUS
  <2> QED
    BY <1>1, <2>1, SinkAssumption, SMTT(30) DEF Points
<1> QED
  BY <1>1, SinkAssumption, Zenon DEF Points

LEMMA SamplesStep ==
  ASSUME SinkInv, [Sink!Next]_Sink!vars
  PROVE  SamplesInv'
<1> USE DEF SinkInv, SinkTypes
<1>1. CASE UNCHANGED Sink!vars \/ Sink!Rest
  BY <1>1, Zenon DEF SamplesInv, Sink!vars, Sink!Rest
<1>2. CASE Sink!Scrape
  <2>1. /\ now' = now + 1 /\ inflight' = {now + 1}
        /\ UNCHANGED <<cleared, phase, global>>
    BY <1>2, Zenon DEF Sink!Scrape
  <2>2. now + 1 > cleared[1] /\ now + 1 > cleared[2]
    OBVIOUS
  <2> QED
    BY <2>1, <2>2, Zenon DEF SamplesInv
<1>3. ASSUME NEW p \in inflight, Sink!MergeSample(p)
      PROVE  SamplesInv'
  <2>1. /\ inflight' = inflight \ {p} /\ global' = Sink!UpdateMetricEntry(<<p>>, global)
        /\ UNCHANGED <<cleared, phase>>
    BY <1>3, Zenon DEF Sink!MergeSample
  <2>2. p \in Nat /\ p > cleared[1] /\ cleared[1] \in Nat
    BY Zenon DEF SamplesInv
  <2>3. global' \in Points(cleared[1])
    BY <2>1, <2>2, PointsFacts, UpdateIsUsable, ZenonT(30) DEF SamplesInv
  <2> QED
    BY <2>1, <2>3, Zenon DEF SamplesInv
<1>4. CASE Sink!StartTask
  BY <1>4, Zenon DEF Sink!StartTask, SamplesInv
<1>5. CASE Sink!ClearCache
  <2>1. /\ cleared' = <<cleared[2], now>> /\ global' = Absent /\ phase = "full" /\ phase' = "sampling"
        /\ UNCHANGED inflight
    BY <1>5, Zenon DEF Sink!ClearCache
  <2>2. cleared'[1] = cleared[2]
    BY <2>1, Zenon
  <2> QED
    BY <2>1, <2>2, Zenon DEF SamplesInv
<1>6. ASSUME NEW m \in Sink!Mergers, Sink!DoReturns(m) \/ Sink!ReadEntry(m) \/ Sink!WriteEntry(m)
      PROVE  SamplesInv'
  BY <1>6, Zenon DEF Sink!DoReturns, Sink!ReadEntry, Sink!WriteEntry, SamplesInv
<1> QED
  BY <1>1, <1>2, <1>3, <1>4, <1>5, <1>6, ZenonT(30) DEF Sink!Next

\* A monitor's goroutine writes usable points, whatever the other one has
\* written since it read the entry.
LEMMA WriteIsUsable ==
  ASSUME SinkInv, NEW m \in Sink!Mergers, Sink!WriteEntry(m)
  PROVE  phase = "full" /\ entry' \in Points(cleared[1])
<1> USE DEF SinkInv, SinkTypes
<1>1. step[m] \in {"ownPut", "globalPut"}
  BY Zenon DEF Sink!WriteEntry
<1>2. phase = "full" /\ cleared[1] \in Nat
  BY <1>1, Zenon DEF MergeInv
<1>3. read[m] \in Points(cleared[1]) \cup {Absent}
  BY <1>1, <1>2, ZenonT(30) DEF MergeInv
<1>4. CASE step[m] = "ownPut"
  <2>1. <<current>> \in Points(cleared[1])
    BY <1>2, <1>4, PointsFacts, Zenon DEF MergeInv
  <2> QED
    BY <1>2, <1>3, <1>4, <2>1, UpdateIsUsable, SMTT(30) DEF Sink!WriteEntry
<1>5. CASE step[m] = "globalPut"
  <2>1. global \in Points(cleared[1])
    BY <1>2, <1>5, Zenon DEF MergeInv, SamplesInv
  <2> QED
    BY <1>2, <1>3, <1>5, <2>1, UpdateIsUsable DEF Sink!WriteEntry
<1> QED
  BY <1>1, <1>4, <1>5, Zenon

LEMMA LaterStill ==
  ASSUME NEW a \in Nat, NEW b \in Nat, a <= b
  PROVE  b <= b /\ b + 1 \in Nat /\ a <= b + 1
BY SMTT(30)

LEMMA SinkTypesStep ==
  ASSUME SinkInv, [Sink!Next]_Sink!vars
  PROVE  SinkTypes'
<1> USE DEF SinkInv, SinkTypes
<1>1. CASE UNCHANGED Sink!vars \/ Sink!Rest
  BY <1>1, Zenon DEF Sink!vars, Sink!Rest
<1>2. CASE Sink!Scrape
  <2>1. now + 1 \in Nat /\ cleared[2] <= now + 1
    BY LaterStill, ZenonT(30)
  <2> QED
    BY <1>2, <2>1, Zenon DEF Sink!Scrape
<1>3. ASSUME NEW p \in inflight, Sink!MergeSample(p)
      PROVE  SinkTypes'
  BY <1>3, Zenon DEF Sink!MergeSample
<1>4. CASE Sink!StartTask
  BY <1>4, Zenon DEF Sink!StartTask
<1>5. CASE Sink!ClearCache
  <2>1. cleared' = <<cleared[2], now>> /\ cleared[2] \in Nat /\ now \in Nat
    BY <1>5, Zenon DEF Sink!ClearCache
  <2>2. cleared' \in Nat \X Nat /\ cleared'[1] = cleared[2] /\ cleared'[2] = now
    BY <2>1, Zenon
  <2>3. cleared'[1] <= cleared'[2] /\ cleared'[2] <= now
    BY <2>1, <2>2, LaterStill, Zenon
  <2> QED
    BY <1>5, <2>2, <2>3, Zenon DEF Sink!ClearCache
<1>6. ASSUME NEW m \in Sink!Mergers, Sink!DoReturns(m)
      PROVE  SinkTypes'
  <2>1. now + 1 \in Nat /\ cleared[2] <= now + 1
    BY LaterStill, Zenon
  <2>2. now' \in Nat /\ cleared[2] <= now'
    BY <1>6, <2>1, Zenon DEF Sink!DoReturns
  <2>3. step' \in [Sink!Mergers -> {"do", "own", "ownPut", "global", "globalPut", "done", "failed"}]
    BY <1>6, ZenonT(30) DEF Sink!DoReturns
  <2> QED
    BY <1>6, <2>2, <2>3, Zenon DEF Sink!DoReturns
<1>7. ASSUME NEW m \in Sink!Mergers, Sink!ReadEntry(m)
      PROVE  SinkTypes'
  BY <1>7, Zenon DEF Sink!ReadEntry
<1>8. ASSUME NEW m \in Sink!Mergers, Sink!WriteEntry(m)
      PROVE  SinkTypes'
  <2>1. entry' \in Seq(Nat) /\ cleared[1] \in Nat
    BY <1>8, WriteIsUsable, PointsFacts, Zenon
  <2> QED
    BY <1>8, <2>1, Zenon DEF Sink!WriteEntry
<1> QED
  BY <1>1, <1>2, <1>3, <1>4, <1>5, <1>6, <1>7, <1>8, Zenon DEF Sink!Next

LEMMA MergeStep ==
  ASSUME SinkInv, [Sink!Next]_Sink!vars
  PROVE  MergeInv'
<1> USE DEF SinkInv, SinkTypes
<1>0. cleared[1] \in Nat /\ "kubelet" \in Sink!Mergers
  BY Zenon DEF Sink!Mergers
<1>1. CASE UNCHANGED Sink!vars \/ Sink!Rest
  BY <1>1, Zenon DEF Sink!vars, Sink!Rest, MergeInv
<1>2. CASE Sink!Scrape
  BY <1>2, Zenon DEF Sink!Scrape, MergeInv
<1>3. ASSUME NEW p \in inflight, Sink!MergeSample(p)
      PROVE  MergeInv'
  <2>1. p \in Nat /\ p > cleared[1]
    BY Zenon DEF SamplesInv
  <2>2. global' \in Points(cleared[1])
    BY <1>0, <1>3, <2>1, PointsFacts, UpdateIsUsable, Zenon DEF SamplesInv, Sink!MergeSample
  <2>3. global' # Absent
    BY <1>0, <2>2, PointsFacts, Zenon
  <2> QED
    BY <1>3, <2>3, Zenon DEF Sink!MergeSample, MergeInv
<1>4. CASE Sink!StartTask
  BY <1>0, <1>4, Zenon DEF Sink!StartTask, MergeInv
<1>5. CASE Sink!ClearCache
  BY <1>5, Zenon DEF Sink!ClearCache, MergeInv
<1>6. ASSUME NEW m \in Sink!Mergers, Sink!DoReturns(m)
      PROVE  MergeInv'
  <2>1. step[m] = "do" /\ phase = "full"
    BY <1>6, Zenon DEF Sink!DoReturns, MergeInv
  <2>2. now + 1 > cleared[1] /\ now + 1 \in Nat
    OBVIOUS
  <2>3. UNCHANGED <<phase, cleared, entry, global, read>>
    BY <1>6, Zenon DEF Sink!DoReturns
  <2>4. CASE m = "kubelet" /\ current' = now + 1 /\ step' = [step EXCEPT ![m] = "own"]
    BY <2>1, <2>2, <2>3, <2>4, Zenon DEF MergeInv
  <2>5. CASE m = "cluster" /\ current' = current /\ step' = [step EXCEPT ![m] = "global"]
    BY <2>1, <2>3, <2>5 DEF MergeInv
  <2>6. CASE current' = current /\ step' = [step EXCEPT ![m] = "failed"]
    BY <2>1, <2>3, <2>6 DEF MergeInv
  <2> QED
    BY <1>6, <2>4, <2>5, <2>6, Zenon DEF Sink!DoReturns
<1>7. ASSUME NEW m \in Sink!Mergers, Sink!ReadEntry(m)
      PROVE  MergeInv'
  BY <1>0, <1>7, Zenon DEF Sink!ReadEntry, MergeInv
<1>8. ASSUME NEW m \in Sink!Mergers, Sink!WriteEntry(m)
      PROVE  MergeInv'
  <2>1. phase = "full" /\ entry' \in Points(cleared[1]) /\ entry' # Absent
    BY <1>0, <1>8, WriteIsUsable, PointsFacts, Zenon
  <2> QED
    BY <1>0, <1>8, <2>1, Zenon DEF Sink!WriteEntry, MergeInv
<1> QED
  BY <1>1, <1>2, <1>3, <1>4, <1>5, <1>6, <1>7, <1>8, Zenon DEF Sink!Next

\* Whenever a DTO is built the entry has a point, no more of them than are
\* configured, and none from before the last but one discovery, although samples
\* come late, a point may be merged twice and the goroutines of the two monitors
\* overwrite what the other one has written.
THEOREM MergedPointsAreUsable == Sink!Spec => []PointsUsable
<1>1. SinkInv /\ [Sink!Next]_Sink!vars => SinkInv'
  BY SinkTypesStep, SamplesStep, MergeStep, Zenon DEF SinkInv
<1>2. SinkInv => PointsUsable
  <2> SUFFICES ASSUME SinkInv, Sink!Merged
               PROVE  /\ entry # Absent /\ Len(entry) \in 1..MaxPoints
                      /\ \A i \in DOMAIN entry : entry[i] > cleared[1]
    BY Zenon DEF PointsUsable, Sink!PointsUsable
  <2>1. phase = "full" /\ step["kubelet"] = "done"
    BY Zenon DEF Sink!Merged, Sink!Mergers
  <2>2. entry \in Points(cleared[1]) /\ entry # Absent
    BY <2>1, Zenon DEF SinkInv, MergeInv
  <2> QED
    BY <2>2 DEF Points
<1> QED
  BY <1>1, <1>2, SinkInit, PTL DEF Sink!Spec
=============================================================================
