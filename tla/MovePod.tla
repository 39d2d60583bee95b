------------------------------- MODULE MovePod -------------------------------
(***************************************************************************)
(* A pod move: movePod (pkg/action/executor/move_util.go) with its         *)
(* deferred clean-ups, the garbage collector that comes after a restart    *)
(* (pkg/discovery/worker/garbage_collector.go), and the controllers of the *)
(* cluster that see every intermediate state.                              *)
(*                                                                         *)
(* The workload is one Deployment (the grandparent) with its ReplicaSets   *)
(* (the parents), or ReplicaSets that have no owner.  The action lock is   *)
(* per parent: moves of the same parent follow one another (LeaseLock).    *)
(***************************************************************************)
EXTENDS Integers, FiniteSets

CONSTANTS Parents,         \* replica sets
          Moves,           \* move actions
          ParentOf,        \* ParentOf[m]: parent of the pod that m moves
          Volume,          \* Volume[m]: that pod uses a persistent volume
          Desired,         \* replicas of every parent
          PodIds, NoPod,   \* names of pods (a name is used again once nobody knows it)
          HasGrandParent,  \* the parents belong to a deployment
          InitDelay, Threshold, Period,  \* the readiness probe of the pod's container
          PodAge,          \* GarbageCollector.podAge
          MaxFailures,     \* bound on the API calls of the forward steps that fail
          MaxRestoreFailures,  \* bound on the deferred restores that fail three times
          MaxCrashes, MaxEvictions

ASSUME MoveAssumption ==
    /\ Parents # {}
    /\ ParentOf \in [Moves -> Parents]
    /\ Volume \in [Moves -> BOOLEAN]
    /\ HasGrandParent \in BOOLEAN
    /\ IsFiniteSet(PodIds) /\ NoPod \notin PodIds
    /\ Desired \in Nat
    /\ {InitDelay, Threshold, Period, PodAge} \subseteq Nat
    /\ {MaxFailures, MaxRestoreFailures, MaxCrashes, MaxEvictions} \subseteq Nat

VARIABLES
    pods,        \* pods[p]: what the API server knows of p
    sched,       \* sched[r]: the scheduler named in r's template
    marked,      \* the parents with the garbage collection label
    paused,      \* the rollout of the deployment is paused
    gpMarked,    \* the deployment has the garbage collection label
    pc,          \* pc[m]: the step of movePod, or the deferred call, that comes next
    orig, clone, \* orig[m], clone[m]: the two pods of m
    known,       \* known[m]: podList, the parent's pods before the scheduler changed
    moved,       \* moved[m]: the flag of movePod
    up,          \* "up", "down", or how far the cleanup after a start has come
    failures, restoreFailures, crashes, evictions

clusterVars == <<pods, sched, marked, paused, gpMarked>>
moveVars == <<orig, clone, known, moved>>
counters == <<failures, restoreFailures, crashes, evictions>>
vars == <<clusterVars, pc, moveVars, up, counters>>

\* The deferred calls of movePod, in the order in which they run.
Restoring == {"validate", "unpause", "uncreate", "unpend"}
Idle == {"new", "done"}
InFlight(m) == pc[m] \notin Idle

\* calculateReadinessThreshold with the defaults of 60 retries every 10 seconds.
WaitBound ==
    LET retries == IF Threshold > 60 THEN Threshold ELSE 60
        interval == IF Period > 10 THEN Period ELSE 10
    IN  InitDelay + (retries - 1) * interval

NonePod == [phase |-> "none", rs |-> CHOOSE r \in Parents : TRUE, owned |-> FALSE, gc |-> FALSE,
            dummy |-> FALSE, placed |-> FALSE, old |-> FALSE]

\* A pod of r that runs.
RunningPod(r) == [NonePod EXCEPT !.phase = "ready", !.rs = r, !.owned = TRUE]

Live(p) == pods[p].phase # "none"
Owned(r) == {p \in PodIds : Live(p) /\ pods[p].rs = r /\ pods[p].owned}

\* A name that no pod has and no move remembers.
Free(p) ==
    /\ ~Live(p)
    /\ \A m \in Moves : p # orig[m] /\ p # clone[m] /\ p \notin known[m]
Fresh(p) == Free(p) /\ \A o \in PodIds : Free(o) => p <= o

Init ==
    /\ pods \in [PodIds -> {NonePod} \cup {RunningPod(r) : r \in Parents}]
    /\ \A r \in Parents : Cardinality(Owned(r)) = Desired
    /\ \A p \in PodIds : Live(p) => \A o \in PodIds : ~Live(o) => p < o
    /\ sched = [r \in Parents |-> "default"]
    /\ marked = {}
    /\ paused = FALSE
    /\ gpMarked = FALSE
    /\ pc = [m \in Moves |-> "new"]
    /\ orig = [m \in Moves |-> NoPod]
    /\ clone = [m \in Moves |-> NoPod]
    /\ known = [m \in Moves |-> {}]
    /\ moved = [m \in Moves |-> FALSE]
    /\ up = "up"
    /\ failures = 0 /\ restoreFailures = 0 /\ crashes = 0 /\ evictions = 0

Fail ==
    /\ failures < MaxFailures
    /\ failures' = failures + 1
    /\ UNCHANGED <<restoreFailures, crashes, evictions>>

Goto(m, from, to) == up = "up" /\ pc[m] = from /\ pc' = [pc EXCEPT ![m] = to]
Delete(p) == pods' = [pods EXCEPT ![p] = NonePod]

\* Where the deferred calls start once the clone exists, and where those of the
\* scheduler have been set up too.
UndoClone == IF HasGrandParent THEN "unpause" ELSE "uncreate"

\* execute and reSchedule: the lock of the parent is free, the pod is found, its
\* owners are read.
Start(m) ==
    /\ \A n \in Moves : InFlight(n) => ParentOf[n] # ParentOf[m]
    /\ Goto(m, "new", "create")
    /\ \E p \in Owned(ParentOf[m]) :
         pods[p].phase = "ready" /\ orig' = [orig EXCEPT ![m] = p]
    /\ UNCHANGED <<clusterVars, clone, known, moved, up, counters>>

\* The clone: labels without those that a deployment's replica set selects by,
\* the garbage collection label, the template of the topmost owner, a node.
Clone(m) ==
    [phase |-> "pending", rs |-> ParentOf[m], owned |-> ~HasGrandParent, gc |-> TRUE,
     dummy |-> ~HasGrandParent /\ sched[ParentOf[m]] = "dummy", placed |-> TRUE, old |-> FALSE]

\* Step 1, createClonePod.
CreateClonePod(m) ==
    /\ Goto(m, "create", IF HasGrandParent THEN "pause" ELSE "list")
    /\ \E p \in PodIds :
         /\ Fresh(p)
         /\ pods' = [pods EXCEPT ![p] = Clone(m)]
         /\ clone' = [clone EXCEPT ![m] = p]
    /\ UNCHANGED <<sched, marked, paused, gpMarked, orig, known, moved, up, counters>>

\* createClonePod fails, or the answer is lost: nothing is deferred yet.
CreateFails(m) ==
    /\ Goto(m, "create", "done")
    /\ Fail
    /\ \/ UNCHANGED pods
       \/ \E p \in PodIds : Fresh(p) /\ pods' = [pods EXCEPT ![p] = Clone(m)]
    /\ orig' = [orig EXCEPT ![m] = NoPod]
    /\ UNCHANGED <<sched, marked, paused, gpMarked, clone, known, moved, up>>

\* Step 2, ResourceRollout(pause); unpausing is deferred first.  A call that
\* fails may have been carried out.
Pause(m) ==
    /\ \/ Goto(m, "pause", "list") /\ paused' = TRUE /\ gpMarked' = TRUE /\ UNCHANGED counters
       \/ /\ Goto(m, "pause", "unpause")
          /\ Fail
          /\ (paused' = TRUE /\ gpMarked' = TRUE) \/ UNCHANGED <<paused, gpMarked>>
    /\ UNCHANGED <<pods, sched, marked, moveVars, up>>

\* parentsPods: the pods the parent has now.
ParentsPods(m) ==
    /\ \/ /\ Goto(m, "list", "invalidate")
          /\ known' = [known EXCEPT ![m] = Owned(ParentOf[m])]
          /\ UNCHANGED counters
       \/ Goto(m, "list", UndoClone) /\ Fail /\ UNCHANGED known
    /\ UNCHANGED <<clusterVars, orig, clone, moved, up>>

\* Step 3, ChangeScheduler(invalid); setting it back is deferred first.
ChangeSchedulerInvalid(m) ==
    LET set == /\ sched' = [sched EXCEPT ![ParentOf[m]] = "dummy"]
               /\ marked' = marked \cup {ParentOf[m]}
    IN  /\ \/ /\ Goto(m, "invalidate", IF Volume[m] THEN "delete" ELSE "wait")
              /\ set
              /\ UNCHANGED counters
           \/ Goto(m, "invalidate", "validate") /\ Fail /\ (set \/ UNCHANGED <<sched, marked>>)
        /\ UNCHANGED <<pods, paused, gpMarked, moveVars, up>>

\* Mutant: a pod that runs its containers is taken for ready.
CloneReadyEarly(m) ==
    /\ Goto(m, "wait", IF Volume[m] THEN "label" ELSE "delete")
    /\ Live(clone[m])
    /\ UNCHANGED <<clusterVars, moveVars, up, counters>>

\* Step 5, WaitForPodReady: the clone runs, or the retries are over.
CloneReady(m) ==
    /\ Goto(m, "wait", IF Volume[m] THEN "label" ELSE "delete")
    /\ pods[clone[m]].phase = "ready"
    /\ UNCHANGED <<clusterVars, moveVars, up, counters>>

CloneTimeout(m) ==
    /\ Goto(m, "wait", "validate")
    /\ pods[clone[m]].phase # "ready"
    /\ UNCHANGED <<clusterVars, moveVars, up, counters>>

\* Step 4, before step 5 if the pod uses a volume: the original is deleted.  The
\* call fails if the original is gone.
DeleteOriginal(m) ==
    /\ \/ /\ Goto(m, "delete", IF Volume[m] THEN "wait" ELSE "label")
          /\ Live(orig[m])
          /\ Delete(orig[m])
          /\ UNCHANGED counters
       \/ Goto(m, "delete", "validate") /\ ~Live(orig[m]) /\ UNCHANGED <<pods, counters>>
       \/ Goto(m, "delete", "validate") /\ Fail /\ (Delete(orig[m]) \/ UNCHANGED pods)
    /\ UNCHANGED <<sched, marked, paused, gpMarked, moveVars, up>>

\* Mutant: the labels are copied next to the garbage collection label.
UpdateLabelsKeepsGC(m) ==
    /\ Goto(m, "label", "validate")
    /\ Live(clone[m])
    /\ pods' = [pods EXCEPT ![clone[m]].owned = TRUE]
    /\ moved' = [moved EXCEPT ![m] = TRUE]
    /\ UNCHANGED <<sched, marked, paused, gpMarked, orig, clone, known, up, counters>>

\* Step 6: Get and Update of the clone; the original's labels replace its own.
UpdateLabels(m) ==
    LET set == pods' = [pods EXCEPT ![clone[m]] = [@ EXCEPT !.owned = TRUE, !.gc = FALSE, !.old = FALSE]]
    IN  /\ Goto(m, "label", "validate")
        /\ \/ /\ Live(clone[m]) /\ set
              /\ moved' = [moved EXCEPT ![m] = TRUE]
              /\ UNCHANGED counters
           \/ ~Live(clone[m]) /\ UNCHANGED <<pods, moved, counters>>
           \/ Fail /\ ((Live(clone[m]) /\ set) \/ UNCHANGED pods) /\ UNCHANGED moved
        /\ UNCHANGED <<sched, marked, paused, gpMarked, orig, clone, known, up>>

\* A deferred restore fails three times; only a message remains.
RestoreFail ==
    /\ restoreFailures < MaxRestoreFailures
    /\ restoreFailures' = restoreFailures + 1
    /\ UNCHANGED <<failures, crashes, evictions>>

\* Step 7, deferred: ChangeScheduler(valid).
ChangeSchedulerValid(m) ==
    /\ Goto(m, "validate", UndoClone)
    /\ \/ /\ sched' = [sched EXCEPT ![ParentOf[m]] = "default"]
          /\ marked' = marked \ {ParentOf[m]}
          /\ UNCHANGED counters
       \/ RestoreFail /\ UNCHANGED <<sched, marked>>
    /\ UNCHANGED <<pods, paused, gpMarked, moveVars, up>>

\* Step 8, deferred: ResourceRollout(unpause).
Unpause(m) ==
    /\ Goto(m, "unpause", "uncreate")
    /\ \/ paused' = FALSE /\ gpMarked' = FALSE /\ UNCHANGED counters
       \/ RestoreFail /\ UNCHANGED <<paused, gpMarked>>
    /\ UNCHANGED <<pods, sched, marked, moveVars, up>>

\* Deferred: the clone of a failed move is deleted; an error is not looked at.
DeleteClone(m) ==
    /\ Goto(m, "uncreate", "unpend")
    /\ \/ moved[m] /\ UNCHANGED <<pods, counters>>
       \/ ~moved[m] /\ Delete(clone[m]) /\ UNCHANGED counters
       \/ ~moved[m] /\ Fail /\ UNCHANGED pods
    /\ UNCHANGED <<sched, marked, paused, gpMarked, moveVars, up>>

\* newPendingInvalidPods: pods of the parent that are new, pending and wait for
\* the scheduler that does not exist.
InvalidPending(m) ==
    {p \in Owned(ParentOf[m]) \ known[m] : pods[p].phase = "pending" /\ pods[p].dummy}

\* Deferred: deleteInvalidPendingPods; its List or some of its Deletes may fail.
\* The lock is released.
DeleteInvalidPendingPods(m) ==
    /\ Goto(m, "unpend", "done")
    /\ \E S \in SUBSET InvalidPending(m) :
         /\ pods' = [p \in PodIds |-> IF p \in S THEN NonePod ELSE pods[p]]
         /\ (S = InvalidPending(m) /\ UNCHANGED counters) \/ Fail
    /\ orig' = [orig EXCEPT ![m] = NoPod]
    /\ clone' = [clone EXCEPT ![m] = NoPod]
    /\ known' = [known EXCEPT ![m] = {}]
    /\ UNCHANGED <<sched, marked, paused, gpMarked, moved, up>>

Step(m) ==
    \/ CreateClonePod(m) \/ CreateFails(m) \/ Pause(m) \/ ParentsPods(m) \/ ChangeSchedulerInvalid(m)
    \/ CloneReady(m) \/ CloneTimeout(m) \/ DeleteOriginal(m) \/ UpdateLabels(m)
    \/ ChangeSchedulerValid(m) \/ Unpause(m) \/ DeleteClone(m) \/ DeleteInvalidPendingPods(m)
------------------------------------------------------------------------------
\* kubeturbo dies: no deferred call runs, the lock map is gone.
Crash ==
    /\ up # "down"
    /\ crashes < MaxCrashes
    /\ crashes' = crashes + 1
    /\ up' = "down"
    /\ pc' = [m \in Moves |-> IF InFlight(m) THEN "done" ELSE pc[m]]
    /\ orig' = [m \in Moves |-> NoPod]
    /\ clone' = [m \in Moves |-> NoPod]
    /\ known' = [m \in Moves |-> {}]
    /\ UNCHANGED <<clusterVars, moved, failures, restoreFailures, evictions>>

\* revertSchedulers, one parent with the label after the other, ...
RevertScheduler(r) ==
    /\ up = "down"
    /\ r \in marked
    /\ sched' = [sched EXCEPT ![r] = "default"]
    /\ marked' = marked \ {r}
    /\ UNCHANGED <<pods, paused, gpMarked, pc, moveVars, up, counters>>

\* ... leaving out what cannot be reverted, ...
RevertSchedulersEnd ==
    /\ up = "down"
    /\ (marked = {} /\ UNCHANGED counters) \/ RestoreFail
    /\ up' = "gc"
    /\ UNCHANGED <<clusterVars, pc, moveVars>>

\* ... then unpauseRollouts for the deployment; ConnectToTurbo follows.
UnpauseRollouts ==
    /\ up = "gc"
    /\ up' = "up"
    /\ \/ paused' = (paused /\ ~gpMarked) /\ gpMarked' = FALSE /\ UNCHANGED counters
       \/ RestoreFail /\ UNCHANGED <<paused, gpMarked>>
    /\ UNCHANGED <<pods, sched, marked, pc, moveVars>>

\* Mutant: only clones are collected.
IsLeakedPodClonesOnly(p) == Live(p) /\ pods[p].old /\ pods[p].gc

\* Mutant: the age of a clone is not looked at.
IsLeakedPodAnyAge(p) == Live(p) /\ (pods[p].gc \/ (pods[p].dummy /\ pods[p].old))

\* isLeakedPod
IsLeakedPod(p) == Live(p) /\ pods[p].old /\ (pods[p].gc \/ pods[p].dummy)

\* cleanupLeakedClonePods and cleanupLeakedWrongSchedulerPods, at every interval.
CleanupLeakedPod(p) ==
    /\ up = "up"
    /\ IsLeakedPod(p)
    /\ Delete(p)
    /\ UNCHANGED <<sched, marked, paused, gpMarked, pc, moveVars, up, counters>>
------------------------------------------------------------------------------
(***************************************************************************)
(* The cluster.                                                            *)
(***************************************************************************)
\* A pod gets older than podAge.  A pod that a move works on gets that old only
\* if the move may wait that long.
Age(p) ==
    /\ Live(p) /\ ~pods[p].old /\ (pods[p].gc \/ pods[p].dummy)
    /\ WaitBound > PodAge \/ \A m \in Moves : p # clone[m]
    /\ pods' = [pods EXCEPT ![p].old = TRUE]
    /\ UNCHANGED <<sched, marked, paused, gpMarked, pc, moveVars, up, counters>>

\* The replica set makes a pod from its template when it has too few, ...
ScaleUp(r) ==
    /\ Cardinality(Owned(r)) < Desired
    /\ \E p \in PodIds :
         /\ Fresh(p)
         /\ pods' = [pods EXCEPT ![p] =
                       [phase |-> "pending", rs |-> r, owned |-> TRUE, gc |-> FALSE,
                        dummy |-> sched[r] = "dummy", placed |-> FALSE, old |-> FALSE]]
    /\ UNCHANGED <<sched, marked, paused, gpMarked, pc, moveVars, up, counters>>

\* ... and deletes one when it has too many, a pending one if there is one.
ScaleDown(r) ==
    /\ Cardinality(Owned(r)) > Desired
    /\ \E p \in Owned(r) :
         /\ pods[p].phase = "ready" => \A o \in Owned(r) : pods[o].phase = "ready"
         /\ Delete(p)
    /\ UNCHANGED <<sched, marked, paused, gpMarked, pc, moveVars, up, counters>>

\* A pod is scheduled, unless it names the dummy scheduler, and gets ready.
Ready(p) ==
    /\ pods[p].phase = "pending"
    /\ pods[p].placed \/ ~pods[p].dummy
    /\ pods' = [pods EXCEPT ![p].phase = "ready"]
    /\ UNCHANGED <<sched, marked, paused, gpMarked, pc, moveVars, up, counters>>

\* Somebody else deletes a pod of the workload.
Evict(p) ==
    /\ Live(p) /\ pods[p].owned
    /\ evictions < MaxEvictions
    /\ evictions' = evictions + 1
    /\ Delete(p)
    /\ UNCHANGED <<sched, marked, paused, gpMarked, pc, moveVars, up, failures, restoreFailures, crashes>>

Cluster ==
    \/ \E p \in PodIds : Age(p) \/ Ready(p) \/ Evict(p)
    \/ \E r \in Parents : ScaleUp(r) \/ ScaleDown(r)

Next ==
    \/ \E m \in Moves : Start(m) \/ Step(m)
    \/ Crash \/ RevertSchedulersEnd \/ UnpauseRollouts
    \/ \E r \in Parents : RevertScheduler(r)
    \/ \E p \in PodIds : CleanupLeakedPod(p)
    \/ Cluster

\* A move that has started goes on, kubeturbo is restarted and collects its
\* garbage, the cluster's controllers work.  A clone need not get ready.
Fairness ==
    /\ \A m \in Moves : WF_vars(Step(m))
    /\ \A r \in Parents : WF_vars(RevertScheduler(r))
    /\ WF_vars(RevertSchedulersEnd)
    /\ WF_vars(UnpauseRollouts)
    /\ \A p \in PodIds : WF_vars(CleanupLeakedPod(p)) /\ WF_vars(Age(p))
    /\ \A p \in PodIds : WF_vars(Ready(p) /\ ~pods[p].placed)
    /\ \A r \in Parents : WF_vars(ScaleUp(r)) /\ WF_vars(ScaleDown(r))

Spec == Init /\ [][Next]_vars
FairSpec == Spec /\ Fairness
------------------------------------------------------------------------------
PodRecords ==
    [phase : {"none", "pending", "ready"}, rs : Parents, owned : BOOLEAN, gc : BOOLEAN,
     dummy : BOOLEAN, placed : BOOLEAN, old : BOOLEAN]

PCs == {"new", "create", "pause", "list", "invalidate", "wait", "delete", "label", "done"} \cup Restoring

\* The values the state can take.
TypeOK ==
    /\ pods \in [PodIds -> PodRecords]
    /\ sched \in [Parents -> {"default", "dummy"}]
    /\ marked \in SUBSET Parents
    /\ paused \in BOOLEAN /\ gpMarked \in BOOLEAN
    /\ pc \in [Moves -> PCs]
    /\ orig \in [Moves -> PodIds \cup {NoPod}]
    /\ clone \in [Moves -> PodIds \cup {NoPod}]
    /\ known \in [Moves -> SUBSET PodIds]
    /\ moved \in [Moves -> BOOLEAN]
    /\ up \in {"up", "down", "gc"}
    /\ failures \in 0..MaxFailures /\ restoreFailures \in 0..MaxRestoreFailures
    /\ crashes \in 0..MaxCrashes /\ evictions \in 0..MaxEvictions

\* A parent names the dummy scheduler only while the rollout of its deployment is
\* paused; otherwise the deployment would roll out a replica set of its own.  The
\* deferred calls and the garbage collector restore in the right order, as long as
\* no restore has failed for good.
PausedWhileDummy ==
    HasGrandParent /\ restoreFailures = 0 => \A r \in Parents : sched[r] = "dummy" => paused

\* When no move is in flight and no cleanup is due, the controllers are as they
\* were: scheduler, rollout and labels, as long as no restore has failed for good.
\* Forward steps may fail, kubeturbo may crash anywhere.
RestoredWhenIdle ==
    restoreFailures = 0 /\ up = "up" /\ (\A m \in Moves : ~InFlight(m)) =>
      marked = {} /\ ~paused /\ ~gpMarked /\ \A r \in Parents : sched[r] = "default"

\* Nobody deletes the clone a move is waiting for: not the replica set, to which
\* it must not belong yet, and not the garbage collector.
CloneSurvives ==
    \A m \in Moves : pc[m] \in {"pause", "list", "invalidate", "wait", "delete", "label"} => Live(clone[m])

Serving(r) == {p \in PodIds : pods[p].phase = "ready" /\ pods[p].rs = r}
Undisturbed == failures = 0 /\ restoreFailures = 0 /\ crashes = 0 /\ evictions = 0

\* Moves without a volume do not cost the workload a running pod at any time, as
\* long as nothing fails.
Availability ==
    Undisturbed /\ (\A m \in Moves : Volume[m] => pc[m] = "new") =>
      \A r \in Parents : Cardinality(Serving(r)) >= Desired

\* A controller in an interim state carries the label by which the next start
\* finds it, even when a deferred restore has failed.
InterimIsMarked ==
    /\ \A r \in Parents : sched[r] = "dummy" => r \in marked
    /\ paused => gpMarked

DeletesOnlyOriginal ==
    \A p \in PodIds :
      failures = 0 /\ pods[p].phase = "ready" /\ pods[p].owned /\ pods'[p].phase = "none" =>
        Cluster \/ \E m \in Moves : p = orig[m] /\ pc[m] = "delete"
\* A running pod of the workload is deleted by kubeturbo only as the original of
\* a move that is at that step, as long as no forward call has failed; what an
\* earlier move, a failed restore, a crash or the dummy scheduler left behind never
\* makes a pod in service garbage.
DeletesOnlyOriginals == [][DeletesOnlyOriginal]_vars

Healthy ==
    /\ marked = {} /\ ~paused /\ ~gpMarked
    /\ \A r \in Parents : sched[r] = "default" /\ Cardinality(Owned(r)) = Desired
    /\ \A p \in PodIds : Live(p) => pods[p].owned /\ pods[p].phase = "ready" /\ ~pods[p].gc /\ ~pods[p].dummy

\* In the end the workload has its replicas, all running, and nothing of a move
\* is left behind, unless a restore failed for good.
EventuallyHealthy == <>[]Healthy \/ <>(restoreFailures > 0)
==============================================================================
