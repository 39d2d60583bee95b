------------------------- MODULE DiscoveryPipeline --------------------------
(***************************************************************************)
(* One full discovery after another: the client                            *)
(* (pkg/discovery/k8s_discovery_client.go), the dispatcher and its pool of *)
(* full workers, the workers with one goroutine pair per monitor and a     *)
(* timeout, and the result collector (pkg/discovery/worker).               *)
(*                                                                         *)
(* Go channels become sets: the pool of full workers is the set of workers *)
(* in state "free", any of which may be next, and the result pool is the   *)
(* set of results in it.  A reading is the task it was made for.  The      *)
(* sampling tasks run in goroutines and on workers of their own            *)
(* (SamplingDispatch); the client meets them in FinishSampling only, which *)
(* always returns.                                                         *)
(***************************************************************************)
EXTENDS Integers, FiniteSets

CONSTANTS
  Nodes,           \* the nodes a cluster may have
  Workers,         \* the full workers; their number is DiscoveryWorkers
  Monitors,        \* the monitoring workers of a full worker
  MaxDiscoveries,  \* bound: Discover calls
  MaxSlow          \* bound: monitor calls that may outlive their timeout

ASSUME PipelineAssumption ==
  /\ IsFiniteSet(Nodes) /\ IsFiniteSet(Workers) /\ IsFiniteSet(Monitors)
  /\ Workers # {}
  /\ MaxDiscoveries \in Nat /\ MaxSlow \in Nat

VARIABLES
  pc,         \* where the client is in DiscoverWithNewFramework
  disc,       \* number of the current discovery
  nodes,      \* clusterSummary.Nodes of the current discovery
  todo,       \* nodes the Dispatch goroutine has not assigned yet
  wg,         \* counter of Collect's WaitGroup
  pool,       \* ResultCollector.resultPool
  results,    \* DiscoveryResult: what Collect has gathered
  wk,         \* each full worker: its state, its task's node, the outcome
  mon,        \* the goroutine pair of each monitor of each full worker
  msink,      \* the readings in the sink of each monitoring worker
  sink,       \* the readings in the main sink of each full worker
  zombies,    \* monitor calls whose task timed out and that still run
  slow        \* slow monitor calls so far

clientVars  == <<pc, disc, nodes>>
collectVars == <<wg, results>>
workerVars  == <<wk, mon, msink, sink, zombies, slow>>
vars == <<clientVars, todo, collectVars, pool, workerVars>>

WorkerCount == Cardinality(Workers)
Discoveries == 1..MaxDiscoveries

\* A task is known by its discovery and its node.
Task == Discoveries \X Nodes

Result == [node : Nodes, ok : BOOLEAN]

MonitorState ==
  {"none", "do", "slow", "fired", "merge", "done", "err", "late"}

TypeOK ==
  /\ pc \in {"idle", "finish", "dispatch", "collect", "schedule"}
  /\ disc \in 0..MaxDiscoveries
  /\ nodes \in SUBSET Nodes /\ todo \in SUBSET Nodes
  /\ wg \in Nat
  /\ pool \in SUBSET Result /\ results \in SUBSET Result
  /\ wk \in [Workers -> [st : {"free", "run", "report"},
                         node : Nodes \cup {"none"}, ok : BOOLEAN]]
  /\ mon \in [Workers -> [Monitors -> MonitorState]]
  /\ msink \in [Workers -> [Monitors -> SUBSET Task]]
  /\ sink \in [Workers -> [Monitors -> SUBSET Task]]
  /\ zombies \in SUBSET [w : Workers, m : Monitors, task : Task, merging : BOOLEAN]
  /\ slow \in 0..MaxSlow

Init ==
  /\ pc = "idle" /\ disc = 0 /\ nodes = {} /\ todo = {}
  /\ wg = 0 /\ pool = {} /\ results = {}
  /\ wk = [w \in Workers |-> [st |-> "free", node |-> "none", ok |-> TRUE]]
  /\ mon = [w \in Workers |-> [m \in Monitors |-> "none"]]
  /\ msink = [w \in Workers |-> [m \in Monitors |-> {}]]
  /\ sink = [w \in Workers |-> [m \in Monitors |-> {}]]
  /\ zombies = {} /\ slow = 0

-----------------------------------------------------------------------------
(* The client: DiscoverWithNewFramework up to ScheduleDispatch.            *)

\* DiscoverCluster returned an error: nothing else is touched, and sampling
\* goes on with the nodes of the last discovery.
DiscoverClusterFails ==
  /\ pc = "idle" /\ disc < MaxDiscoveries
  /\ disc' = disc + 1
  /\ UNCHANGED <<pc, nodes, todo, collectVars, pool, workerVars>>

DiscoverCluster(ns) ==
  /\ pc = "idle" /\ disc < MaxDiscoveries
  /\ pc' = "finish" /\ disc' = disc + 1 /\ nodes' = ns
  /\ UNCHANGED <<todo, collectVars, pool, workerVars>>

\* SamplingDispatcher.FinishSampling returns.
FinishSampling ==
  /\ pc = "finish"
  /\ pc' = "dispatch"
  /\ UNCHANGED <<disc, nodes, todo, collectVars, pool, workerVars>>

\* Mutant: the results of the last discovery are kept.
DispatchKeepsResults ==
  /\ pc = "dispatch"
  /\ pc' = "collect"
  /\ todo' = nodes
  /\ wg' = Cardinality(nodes)
  /\ UNCHANGED <<disc, nodes, results, pool, workerVars>>

\* Dispatch starts the assigning goroutine and Collect the collecting one.
Dispatch ==
  /\ pc = "dispatch"
  /\ pc' = "collect"
  /\ todo' = nodes
  /\ wg' = Cardinality(nodes) /\ results' = {}
  /\ UNCHANGED <<disc, nodes, pool, workerVars>>

\* The collecting goroutine takes one result.
Collect(r) ==
  /\ pc = "collect" /\ r \in pool
  /\ pool' = pool \ {r} /\ results' = results \cup {r}
  /\ wg' = wg - 1
  /\ UNCHANGED <<clientVars, todo, workerVars>>

\* wg.Wait returns; the collecting goroutine is stopped.
CollectDone ==
  /\ pc = "collect" /\ wg = 0
  /\ pc' = "schedule"
  /\ UNCHANGED <<disc, nodes, todo, collectVars, pool, workerVars>>

\* ScheduleDispatch returns at once; what follows it builds DTOs from the
\* results and does not touch the pipeline.
ScheduleDispatch ==
  /\ pc = "schedule"
  /\ pc' = "idle"
  /\ UNCHANGED <<disc, nodes, todo, collectVars, pool, workerVars>>

-----------------------------------------------------------------------------
(* A full worker: RegisterAndRun and executeTask.                          *)

TaskOf(w) == <<disc, wk[w].node>>

\* assignTask hands a node to a free worker, which resets its sink and starts
\* every monitor: ReceiveTask resets the monitor's sink, and the call starts.
\* The calls in S may outlive their timeout.
AssignTask(w, n, S) ==
  /\ wk[w].st = "free" /\ n \in todo
  /\ slow + Cardinality(S) <= MaxSlow
  /\ todo' = todo \ {n}
  /\ wk' = [wk EXCEPT ![w] = [st |-> "run", node |-> n, ok |-> TRUE]]
  /\ sink' = [sink EXCEPT ![w] = [m \in Monitors |-> {}]]
  /\ msink' = [msink EXCEPT ![w] = [m \in Monitors |-> {}]]
  /\ mon' = [mon EXCEPT ![w] = [m \in Monitors |-> IF m \in S THEN "slow" ELSE "do"]]
  /\ slow' = slow + Cardinality(S)
  /\ UNCHANGED <<clientVars, collectVars, pool, zombies>>

SetMonitor(w, m, s) == mon' = [mon EXCEPT ![w][m] = s]

\* The timer of a slow call fires: its channel holds a value from now on.
TimerFires(w, m) ==
  /\ mon[w][m] = "slow"
  /\ SetMonitor(w, m, "fired")
  /\ UNCHANGED <<clientVars, todo, collectVars, pool, wk, msink, sink, zombies, slow>>

\* Mutant: finishCh is closed before the readings are merged.
DoReturnsUnmerged(w, m) ==
  /\ mon[w][m] \in {"do", "slow", "fired"}
  /\ msink' = [msink EXCEPT ![w][m] = @ \cup {TaskOf(w)}]
  /\ SetMonitor(w, m, IF mon[w][m] = "fired" THEN "merge" ELSE "done")
  /\ UNCHANGED <<clientVars, todo, collectVars, pool, wk, sink, zombies, slow>>

\* w.Do() returns its readings and finds timeoutCh empty.  If it could stop
\* the timer, merging into the worker's sink and closing finishCh are all that
\* is left to do; a timer that has fired leaves the outer select a choice.
DoReturns(w, m) ==
  /\ mon[w][m] \in {"do", "slow", "fired"}
  /\ msink' = [msink EXCEPT ![w][m] = @ \cup {TaskOf(w)}]
  /\ IF mon[w][m] = "fired"
       THEN SetMonitor(w, m, "merge") /\ UNCHANGED sink
       ELSE /\ SetMonitor(w, m, "done")
            /\ sink' = [sink EXCEPT ![w][m] = @ \cup msink'[w][m]]
  /\ UNCHANGED <<clientVars, todo, collectVars, pool, wk, zombies, slow>>

\* w.Do() returns an error: nothing is merged, finishCh is closed all the same.
\* If the timer has fired too, the outer select may take either channel.
DoFails(w, m) ==
  /\ \/ mon[w][m] \in {"do", "slow", "fired"} /\ SetMonitor(w, m, "err")
     \/ mon[w][m] = "fired" /\ SetMonitor(w, m, "late")
  /\ UNCHANGED <<clientVars, todo, collectVars, pool, wk, msink, sink, zombies, slow>>

\* The merge after the timer has fired: finishCh is closed, and the outer
\* select takes it or the timer.
LateMerge(w, m) ==
  /\ mon[w][m] = "merge"
  /\ SetMonitor(w, m, "done") \/ SetMonitor(w, m, "late")
  /\ sink' = [sink EXCEPT ![w][m] = @ \cup msink[w][m]]
  /\ UNCHANGED <<clientVars, todo, collectVars, pool, wk, msink, zombies, slow>>

\* The outer select takes the timer: the task has timed out, and the call goes
\* on by itself.
MonitorTimesOut(w, m) ==
  /\ mon[w][m] \in {"fired", "merge"}
  /\ SetMonitor(w, m, "late")
  /\ zombies' = zombies \cup
       {[w |-> w, m |-> m, task |-> TaskOf(w), merging |-> mon[w][m] = "merge"]}
  /\ UNCHANGED <<clientVars, todo, collectVars, pool, wk, msink, sink, slow>>

\* A call that outlived its task returns.  While it ran it wrote into the sink
\* its monitoring worker has now; it merges into the worker's main sink only
\* if it had passed the check of timeoutCh before the timeout.
ZombieReturns(z) ==
  /\ zombies' = zombies \ {z}
  /\ IF z.merging
       THEN /\ sink' = [sink EXCEPT ![z.w][z.m] = @ \cup {z.task}]
            /\ UNCHANGED msink
       ELSE /\ msink' = [msink EXCEPT ![z.w][z.m] = @ \cup {z.task}]
            /\ UNCHANGED sink
  /\ UNCHANGED <<clientVars, todo, collectVars, pool, wk, mon, slow>>

\* Mutant: a timed out monitor is waited for until its call returns.
FinishTaskWaits(w) ==
  /\ wk[w].st = "run"
  /\ \A m \in Monitors : mon[w][m] \in {"done", "err", "late"}
  /\ IF \E z \in zombies : z.w = w THEN UNCHANGED wk
     ELSE wk' = [wk EXCEPT ![w].st = "report",
                           ![w].ok = \A m \in Monitors : mon[w][m] # "late"]
  /\ UNCHANGED <<clientVars, todo, collectVars, pool, mon, msink, sink, zombies, slow>>

\* wg.Wait returns: the result is an error if a monitor timed out, else the
\* metrics are collected from the sink and the DTOs are built.
FinishTask(w) ==
  /\ wk[w].st = "run"
  /\ \A m \in Monitors : mon[w][m] \in {"done", "err", "late"}
  /\ wk' = [wk EXCEPT ![w].st = "report",
                      ![w].ok = \A m \in Monitors : mon[w][m] # "late"]
  /\ UNCHANGED <<clientVars, todo, collectVars, pool, mon, msink, sink, zombies, slow>>

\* The send on the result pool, whose capacity is twice the worker count; then
\* RegisterWorker, which never waits: the pool has room for every full worker.
Report(w) ==
  /\ wk[w].st = "report"
  /\ Cardinality(pool) < 2 * WorkerCount
  /\ pool' = pool \cup {[node |-> wk[w].node, ok |-> wk[w].ok]}
  /\ wk' = [wk EXCEPT ![w] = [st |-> "free", node |-> "none", ok |-> TRUE]]
  /\ mon' = [mon EXCEPT ![w] = [m \in Monitors |-> "none"]]
  /\ UNCHANGED <<clientVars, todo, collectVars, msink, sink, zombies, slow>>


-----------------------------------------------------------------------------

MonitorStep(w, m) ==
  \/ TimerFires(w, m) \/ DoReturns(w, m) \/ DoFails(w, m)
  \/ LateMerge(w, m) \/ MonitorTimesOut(w, m)

WorkerStep(w) ==
  \/ \E m \in Monitors : MonitorStep(w, m)
  \/ FinishTask(w) \/ Report(w)

\* Every Discover call has returned, every worker waits for a task, and no
\* monitor call is left behind.
Quiet ==
  /\ pc = "idle" /\ disc = MaxDiscoveries
  /\ \A w \in Workers : wk[w].st = "free"
  /\ zombies = {}

Rest == Quiet /\ UNCHANGED vars

Next ==
  \/ DiscoverClusterFails
  \/ \E ns \in SUBSET Nodes : DiscoverCluster(ns)
  \/ FinishSampling \/ Dispatch \/ CollectDone \/ ScheduleDispatch
  \/ \E r \in pool : Collect(r)
  \/ \E w \in Workers, n \in Nodes, S \in SUBSET Monitors : AssignTask(w, n, S)
  \/ \E w \in Workers : WorkerStep(w)
  \/ \E z \in zombies : ZombieReturns(z)
  \/ Rest

Spec == Init /\ [][Next]_vars

\* Fairness: the client, the collector, the dispatcher and each worker go on as
\* long as they can, and timers fire.  Nothing is assumed of the server's
\* requests or of slow calls.
Fairness ==
  /\ WF_vars(FinishSampling \/ Dispatch \/ CollectDone \/ ScheduleDispatch)
  /\ WF_vars(\E r \in pool : Collect(r))
  /\ WF_vars(\E w \in Workers, n \in Nodes : AssignTask(w, n, {}))
  /\ \A w \in Workers :
       WF_vars(\/ \E m \in Monitors :
                    TimerFires(w, m) \/ (mon[w][m] # "slow" /\ MonitorStep(w, m))
               \/ FinishTask(w) \/ Report(w))

FairSpec == Spec /\ Fairness

-----------------------------------------------------------------------------
(* Properties.                                                             *)

\* A discovery that has gathered its results has exactly one for each node it
\* dispatched: no worker still holds one of its tasks, no result is left over
\* in the pool for the next discovery, and none was counted twice, whatever
\* monitors timed out on the way (Dispatch, RegisterAndRun, Collect).
OneResultPerNode ==
  pc = "schedule" =>
    /\ {r.node : r \in results} = nodes
    /\ Cardinality(results) = Cardinality(nodes)
    /\ todo = {} /\ pool = {}
    /\ \A w \in Workers : wk[w].st = "free"

\* A task that is reported as a success was built from readings made for this
\* very task by every monitor that did not fail, even when calls of earlier
\* tasks of the worker still run, write and merge (executeTask).
OwnReadings ==
  \A w \in Workers :
    wk[w].st = "report" /\ wk[w].ok =>
      \A m \in Monitors : mon[w][m] = "done" => TaskOf(w) \in sink[w][m]

\* Every Discover call returns, although monitors hang: the timeout of each
\* monitor frees the worker, whose result the collector is waiting for.
DiscoveryReturns == pc # "idle" ~> pc = "idle"

\* The pipeline implements DiscoveryResults: the discovery is open from the
\* Dispatch call until Collect returns.
Results == INSTANCE DiscoveryResults WITH
  open <- pc = "collect",
  want <- IF pc = "collect" THEN nodes ELSE {},
  got  <- IF pc = "collect" THEN results ELSE {}

ImplementsResults == Results!Spec
=============================================================================
