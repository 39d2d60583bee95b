---------------------------- MODULE MovePodProofs ----------------------------
(***************************************************************************)
(* What holds of MovePod for any number of pods, moves, failures, crashes  *)
(* and evictions.                                                          *)
(***************************************************************************)
EXTENDS MovePod, FiniteSetTheorems, TLAPS

\* An absent pod is a pod record.
LEMMA NonePodType == NonePod \in PodRecords
  BY MoveAssumption, Zenon DEF NonePod, PodRecords

\* So is a running one.
LEMMA RunningPodType == \A r \in Parents : RunningPod(r) \in PodRecords
  BY MoveAssumption, Zenon DEF NonePod, PodRecords, RunningPod

\* The initial state is well typed.
LEMMA TypeInit == Init => TypeOK
<1> SUFFICES ASSUME Init PROVE TypeOK
  BY Zenon
<1>1. pods \in [PodIds -> PodRecords]
  BY NonePodType, RunningPodType DEF Init
<1>2. sched \in [Parents -> {"default", "dummy"}] /\ marked \in SUBSET Parents
  BY Zenon DEF Init
<1>3. pc \in [Moves -> PCs] /\ moved \in [Moves -> BOOLEAN]
  BY Zenon DEF Init, PCs
<1>4. /\ orig \in [Moves -> PodIds \cup {NoPod}]
      /\ clone \in [Moves -> PodIds \cup {NoPod}]
      /\ known \in [Moves -> SUBSET PodIds]
  BY Zenon DEF Init
<1>5. /\ failures \in 0..MaxFailures /\ restoreFailures \in 0..MaxRestoreFailures
      /\ crashes \in 0..MaxCrashes /\ evictions \in 0..MaxEvictions
  BY MoveAssumption DEF Init
<1> QED
  BY <1>1, <1>2, <1>3, <1>4, <1>5, Zenon DEF Init, TypeOK

\* The fields of a pod that an action sets.
LEMMA PodUpdates ==
  ASSUME TypeOK
  PROVE  /\ \A p \in PodIds : Delete(p) => pods' \in [PodIds -> PodRecords]
         /\ \A m \in Moves : Clone(m) \in PodRecords
         /\ \A p \in PodIds : \A rec \in PodRecords : [pods EXCEPT ![p] = rec] \in [PodIds -> PodRecords]
         /\ \A p \in PodIds :
              /\ [pods EXCEPT ![p].old = TRUE] \in [PodIds -> PodRecords]
              /\ [pods EXCEPT ![p].phase = "ready"] \in [PodIds -> PodRecords]
              /\ [pods EXCEPT ![p] = [@ EXCEPT !.owned = TRUE, !.gc = FALSE, !.old = FALSE]]
                   \in [PodIds -> PodRecords]
<1>1. pods \in [PodIds -> PodRecords]
  BY Zenon DEF TypeOK
<1>2. \A p \in PodIds : Delete(p) => pods' \in [PodIds -> PodRecords]
  BY <1>1, NonePodType, Zenon DEF Delete
<1>3. \A m \in Moves : Clone(m) \in PodRecords
  BY MoveAssumption, Zenon DEF Clone, PodRecords, TypeOK
<1>4. \A p \in PodIds : \A rec \in PodRecords : [pods EXCEPT ![p] = rec] \in [PodIds -> PodRecords]
  BY <1>1, Zenon
<1>5. \A p \in PodIds : [pods EXCEPT ![p].old = TRUE] \in [PodIds -> PodRecords]
  BY <1>1, Zenon DEF PodRecords
<1>6. \A p \in PodIds : [pods EXCEPT ![p].phase = "ready"] \in [PodIds -> PodRecords]
  BY <1>1 DEF PodRecords
<1>7. ASSUME NEW p \in PodIds
      PROVE  [pods EXCEPT ![p] = [@ EXCEPT !.owned = TRUE, !.gc = FALSE, !.old = FALSE]]
               \in [PodIds -> PodRecords]
  <2>1. pods[p] \in PodRecords
    BY <1>1, Zenon
  <2>2. [pods[p] EXCEPT !.owned = TRUE, !.gc = FALSE, !.old = FALSE] \in PodRecords
    BY <2>1, Zenon DEF PodRecords
  <2> QED
    BY <1>1, <2>2, Zenon
<1> QED
  BY <1>2, <1>3, <1>4, <1>5, <1>6, <1>7, Zenon

CountersType ==
    /\ failures \in 0..MaxFailures /\ restoreFailures \in 0..MaxRestoreFailures
    /\ crashes \in 0..MaxCrashes /\ evictions \in 0..MaxEvictions

\* The counters stay within their bounds.
LEMMA CounterSteps ==
  ASSUME TypeOK
  PROVE  /\ Fail => CountersType'
         /\ RestoreFail => CountersType'
         /\ UNCHANGED counters => CountersType'
  BY MoveAssumption DEF TypeOK, CountersType, Fail, RestoreFail, counters

\* The steps of a move.
LEMMA TypeMoveStep == ASSUME TypeOK, NEW m \in Moves, Start(m) \/ Step(m) PROVE TypeOK'
<1>a. /\ pods \in [PodIds -> PodRecords]
      /\ sched \in [Parents -> {"default", "dummy"}]
      /\ marked \in SUBSET Parents
      /\ paused \in BOOLEAN /\ gpMarked \in BOOLEAN
      /\ pc \in [Moves -> PCs]
      /\ orig \in [Moves -> PodIds \cup {NoPod}]
      /\ clone \in [Moves -> PodIds \cup {NoPod}]
      /\ known \in [Moves -> SUBSET PodIds]
      /\ moved \in [Moves -> BOOLEAN]
      /\ up \in {"up", "down", "gc"}
      /\ ParentOf[m] \in Parents
  BY MoveAssumption, Zenon DEF TypeOK
<1>b. \A r \in Parents : Owned(r) \in SUBSET PodIds
  BY Zenon DEF Owned
<1>pc. \A from : \A to \in PCs : Goto(m, from, to) => pc' \in [Moves -> PCs]
  BY <1>a, Zenon DEF Goto
<1>pcs. {"new", "create", "pause", "list", "invalidate", "wait", "delete", "label", "done",
         "validate", "unpause", "uncreate", "unpend", UndoClone} \subseteq PCs
  BY Zenon DEF PCs, Restoring, UndoClone
<1> HIDE DEF PCs, Goto, Fail, RestoreFail, NonePod, PodRecords, Delete, Clone, Fresh, Live, Owned, UndoClone
<1>1. CASE Start(m)
  <2>1. orig' \in [Moves -> PodIds \cup {NoPod}]
    BY <1>1, <1>a, <1>b, Zenon DEF Start
  <2>2. pc' \in [Moves -> PCs]
    BY <1>1, <1>pc, <1>pcs, Zenon DEF Start
  <2> QED
    BY <1>1, <1>a, <2>1, <2>2, CounterSteps, Zenon DEF Start, TypeOK, clusterVars, CountersType
<1>2. CASE CreateClonePod(m)
  <2>1. pods' \in [PodIds -> PodRecords]
    <3>1. PICK p \in PodIds : pods' = [pods EXCEPT ![p] = Clone(m)]
      BY <1>2, Zenon DEF CreateClonePod
    <3>2. Clone(m) \in PodRecords
      BY PodUpdates, Zenon
    <3> QED
      BY <1>a, <3>1, <3>2, Zenon
  <2>2. clone' \in [Moves -> PodIds \cup {NoPod}]
    BY <1>2, <1>a DEF CreateClonePod
  <2>3. pc' \in [Moves -> PCs]
    BY <1>2, <1>pc, <1>pcs, Zenon DEF CreateClonePod
  <2> QED
    BY <1>2, <1>a, <2>1, <2>2, <2>3, CounterSteps, Zenon DEF CreateClonePod, TypeOK, CountersType
<1>3. CASE CreateFails(m)
  <2>1. pods' \in [PodIds -> PodRecords]
    <3>1. UNCHANGED pods \/ \E p \in PodIds : pods' = [pods EXCEPT ![p] = Clone(m)]
      BY <1>3, Zenon DEF CreateFails
    <3>2. Clone(m) \in PodRecords
      BY PodUpdates, Zenon
    <3> QED
      BY <1>a, <3>1, <3>2, Zenon
  <2>2. orig' \in [Moves -> PodIds \cup {NoPod}]
    BY <1>3, <1>a, Zenon DEF CreateFails
  <2>3. pc' \in [Moves -> PCs]
    BY <1>3, <1>pc, <1>pcs, Zenon DEF CreateFails
  <2> QED
    BY <1>3, <1>a, <2>1, <2>2, <2>3, CounterSteps, Zenon DEF CreateFails, TypeOK, CountersType
<1>4. CASE Pause(m)
  <2>1. pc' \in [Moves -> PCs]
    BY <1>4, <1>pc, <1>pcs, Zenon DEF Pause
  <2>2. CountersType' /\ paused' \in BOOLEAN /\ gpMarked' \in BOOLEAN
    BY <1>4, <1>a, CounterSteps, Zenon DEF Pause
  <2> QED
    BY <1>4, <1>a, <2>1, <2>2, Zenon DEF Pause, TypeOK, CountersType, moveVars
<1>5. CASE ParentsPods(m)
  <2>1. pc' \in [Moves -> PCs]
    BY <1>5, <1>pc, <1>pcs, Zenon DEF ParentsPods
  <2>2. known' \in [Moves -> SUBSET PodIds]
    BY <1>5, <1>a, <1>b, Zenon DEF ParentsPods
  <2>3. CountersType'
    BY <1>5, CounterSteps, Zenon DEF ParentsPods
  <2> QED
    BY <1>5, <1>a, <2>1, <2>2, <2>3, Zenon DEF ParentsPods, TypeOK, CountersType, clusterVars
<1>6. CASE ChangeSchedulerInvalid(m)
  <2>1. pc' \in [Moves -> PCs]
    BY <1>6, <1>pc, <1>pcs, Zenon DEF ChangeSchedulerInvalid
  <2>2. sched' \in [Parents -> {"default", "dummy"}] /\ marked' \in SUBSET Parents
    BY <1>6, <1>a DEF ChangeSchedulerInvalid
  <2>3. CountersType'
    BY <1>6, CounterSteps, Zenon DEF ChangeSchedulerInvalid
  <2> QED
    BY <1>6, <1>a, <2>1, <2>2, <2>3, Zenon DEF ChangeSchedulerInvalid, TypeOK, CountersType, moveVars
<1>7. CASE CloneReady(m) \/ CloneTimeout(m)
  <2>1. pc' \in [Moves -> PCs]
    BY <1>7, <1>pc, <1>pcs, Zenon DEF CloneReady, CloneTimeout
  <2> QED
    BY <1>7, <1>a, <2>1, CounterSteps, Zenon DEF CloneReady, CloneTimeout, TypeOK, CountersType, clusterVars, moveVars
<1>8. CASE DeleteOriginal(m)
  <2>1. pc' \in [Moves -> PCs]
    BY <1>8, <1>pc, <1>pcs, Zenon DEF DeleteOriginal
  <2>2. pods' \in [PodIds -> PodRecords]
    BY <1>8, <1>a, NonePodType DEF DeleteOriginal, Delete
  <2>3. CountersType'
    BY <1>8, CounterSteps, Zenon DEF DeleteOriginal
  <2> QED
    BY <1>8, <1>a, <2>1, <2>2, <2>3, Zenon DEF DeleteOriginal, TypeOK, CountersType, moveVars
<1>9. CASE UpdateLabels(m)
  <2>1. pc' \in [Moves -> PCs]
    BY <1>9, <1>pc, <1>pcs, Zenon DEF UpdateLabels
  <2>2. pods' \in [PodIds -> PodRecords]
    <3> DEFINE new == [pods EXCEPT ![clone[m]] =
                         [@ EXCEPT !.owned = TRUE, !.gc = FALSE, !.old = FALSE]]
    <3>1. pods' = new \/ pods' = pods
      BY <1>9, Zenon DEF UpdateLabels
    <3>2. CASE clone[m] \in PodIds
      <4>1. new \in [PodIds -> PodRecords]
        BY <3>2, PodUpdates, Zenon
      <4> QED
        BY <1>a, <3>1, <4>1, Zenon
    <3>3. CASE clone[m] \notin PodIds
      BY <1>a, <3>1, <3>3, Zenon
    <3> QED
      BY <3>2, <3>3, Zenon
  <2>3. CountersType' /\ moved' \in [Moves -> BOOLEAN]
    BY <1>9, <1>a, CounterSteps, Zenon DEF UpdateLabels
  <2> QED
    BY <1>9, <1>a, <2>1, <2>2, <2>3, Zenon DEF UpdateLabels, TypeOK, CountersType
<1>10. CASE ChangeSchedulerValid(m)
  <2>1. pc' \in [Moves -> PCs]
    BY <1>10, <1>pc, <1>pcs, Zenon DEF ChangeSchedulerValid
  <2>2. sched' \in [Parents -> {"default", "dummy"}] /\ marked' \in SUBSET Parents
    BY <1>10, <1>a, Zenon DEF ChangeSchedulerValid
  <2>3. CountersType'
    BY <1>10, CounterSteps, Zenon DEF ChangeSchedulerValid
  <2> QED
    BY <1>10, <1>a, <2>1, <2>2, <2>3, Zenon DEF ChangeSchedulerValid, TypeOK, CountersType, moveVars
<1>11. CASE Unpause(m)
  <2>1. pc' \in [Moves -> PCs]
    BY <1>11, <1>pc, <1>pcs, Zenon DEF Unpause
  <2>2. CountersType' /\ paused' \in BOOLEAN /\ gpMarked' \in BOOLEAN
    BY <1>11, <1>a, CounterSteps, Zenon DEF Unpause
  <2> QED
    BY <1>11, <1>a, <2>1, <2>2, Zenon DEF Unpause, TypeOK, CountersType, moveVars
<1>12. CASE DeleteClone(m)
  <2>1. pc' \in [Moves -> PCs]
    BY <1>12, <1>pc, <1>pcs, Zenon DEF DeleteClone
  <2>2. pods' \in [PodIds -> PodRecords]
    BY <1>12, <1>a, NonePodType DEF DeleteClone, Delete
  <2>3. CountersType'
    BY <1>12, CounterSteps, Zenon DEF DeleteClone
  <2> QED
    BY <1>12, <1>a, <2>1, <2>2, <2>3, Zenon DEF DeleteClone, TypeOK, CountersType, moveVars
<1>13. CASE DeleteInvalidPendingPods(m)
  <2>1. pc' \in [Moves -> PCs]
    BY <1>13, <1>pc, <1>pcs, Zenon DEF DeleteInvalidPendingPods
  <2>2. pods' \in [PodIds -> PodRecords]
    BY <1>13, <1>a, NonePodType, Zenon DEF DeleteInvalidPendingPods
  <2>3. CountersType'
    BY <1>13, CounterSteps, Zenon DEF DeleteInvalidPendingPods
  <2>4. /\ orig' \in [Moves -> PodIds \cup {NoPod}]
        /\ clone' \in [Moves -> PodIds \cup {NoPod}]
        /\ known' \in [Moves -> SUBSET PodIds]
    BY <1>13, <1>a, Zenon DEF DeleteInvalidPendingPods
  <2> QED
    BY <1>13, <1>a, <2>1, <2>2, <2>3, <2>4, Zenon DEF DeleteInvalidPendingPods, TypeOK, CountersType
<1> QED
  BY <1>1, <1>2, <1>3, <1>4, <1>5, <1>6, <1>7, <1>8, <1>9, <1>10, <1>11, <1>12, <1>13, Zenon DEF Step

\* Crashes, the cleanup after them, and the cluster.
LEMMA TypeOtherStep ==
  ASSUME TypeOK, [Next]_vars, ~\E m \in Moves : Start(m) \/ Step(m)
  PROVE  TypeOK'
<1>a. /\ pods \in [PodIds -> PodRecords]
      /\ sched \in [Parents -> {"default", "dummy"}]
      /\ marked \in SUBSET Parents
      /\ paused \in BOOLEAN /\ gpMarked \in BOOLEAN
      /\ pc \in [Moves -> PCs]
      /\ orig \in [Moves -> PodIds \cup {NoPod}]
      /\ clone \in [Moves -> PodIds \cup {NoPod}]
      /\ known \in [Moves -> SUBSET PodIds]
      /\ moved \in [Moves -> BOOLEAN]
      /\ up \in {"up", "down", "gc"}
      /\ CountersType
  BY Zenon DEF TypeOK, CountersType
<1> USE DEF clusterVars, moveVars, counters
<1>1. CASE Crash
  <2>1. pc' \in [Moves -> PCs]
    BY <1>1, <1>a, Zenon DEF Crash, PCs
  <2>2. crashes' \in 0..MaxCrashes
    BY <1>1, <1>a, MoveAssumption DEF Crash, CountersType
  <2> QED
    BY <1>1, <1>a, <2>1, <2>2, Zenon DEF Crash, TypeOK, CountersType
<1>2. CASE RevertSchedulersEnd
  <2>1. CountersType'
    BY <1>2, CounterSteps, Zenon DEF RevertSchedulersEnd
  <2> QED
    BY <1>2, <1>a, <2>1, Zenon DEF RevertSchedulersEnd, TypeOK, CountersType
<1>3. CASE UnpauseRollouts
  <2>1. CountersType'
    BY <1>3, CounterSteps, Zenon DEF UnpauseRollouts
  <2>2. paused' \in BOOLEAN /\ gpMarked' \in BOOLEAN
    BY <1>3, <1>a, Zenon DEF UnpauseRollouts
  <2> QED
    BY <1>3, <1>a, <2>1, <2>2, Zenon DEF UnpauseRollouts, TypeOK, CountersType
<1>4. ASSUME NEW r \in Parents, RevertScheduler(r) PROVE TypeOK'
  BY <1>4, <1>a, Zenon DEF RevertScheduler, TypeOK, CountersType
<1>5. ASSUME NEW p \in PodIds, CleanupLeakedPod(p) PROVE TypeOK'
  <2>1. pods' \in [PodIds -> PodRecords]
    BY <1>5, PodUpdates, Zenon DEF CleanupLeakedPod
  <2> QED
    BY <1>5, <1>a, <2>1, Zenon DEF CleanupLeakedPod, TypeOK, CountersType
<1>6. ASSUME NEW p \in PodIds, Age(p) PROVE TypeOK'
  <2>1. pods' \in [PodIds -> PodRecords]
    BY <1>6, PodUpdates, Zenon DEF Age
  <2> QED
    BY <1>6, <1>a, <2>1, Zenon DEF Age, TypeOK, CountersType
<1>7. ASSUME NEW p \in PodIds, Ready(p) PROVE TypeOK'
  <2>1. pods' \in [PodIds -> PodRecords]
    BY <1>7, PodUpdates, Zenon DEF Ready
  <2> QED
    BY <1>7, <1>a, <2>1, Zenon DEF Ready, TypeOK, CountersType
<1>8. ASSUME NEW p \in PodIds, Evict(p) PROVE TypeOK'
  <2>1. pods' \in [PodIds -> PodRecords]
    BY <1>8, PodUpdates, Zenon DEF Evict
  <2>2. evictions' \in 0..MaxEvictions
    BY <1>8, <1>a, MoveAssumption DEF Evict, CountersType
  <2> QED
    BY <1>8, <1>a, <2>1, <2>2, Zenon DEF Evict, TypeOK, CountersType
<1>9. ASSUME NEW r \in Parents, ScaleUp(r) PROVE TypeOK'
  <2> DEFINE new == [phase |-> "pending", rs |-> r, owned |-> TRUE, gc |-> FALSE,
                     dummy |-> sched[r] = "dummy", placed |-> FALSE, old |-> FALSE]
  <2>1. PICK p \in PodIds : pods' = [pods EXCEPT ![p] = new]
    BY <1>9, Zenon DEF ScaleUp
  <2>2. new \in PodRecords
    BY Zenon DEF PodRecords
  <2>3. pods' \in [PodIds -> PodRecords]
    BY <1>a, <2>1, <2>2, Zenon
  <2> QED
    BY <1>9, <1>a, <2>3, Zenon DEF ScaleUp, TypeOK, CountersType
<1>10. ASSUME NEW r \in Parents, ScaleDown(r) PROVE TypeOK'
  <2>1. PICK p \in PodIds : Delete(p)
    BY <1>10, Zenon DEF ScaleDown, Owned
  <2>2. pods' \in [PodIds -> PodRecords]
    BY <2>1, PodUpdates, Zenon
  <2> QED
    BY <1>10, <1>a, <2>2, Zenon DEF ScaleDown, TypeOK, CountersType
<1>11. CASE UNCHANGED vars
  BY <1>11, <1>a, Zenon DEF vars, TypeOK, CountersType
<1> QED
  BY <1>1, <1>2, <1>3, <1>4, <1>5, <1>6, <1>7, <1>8, <1>9, <1>10, <1>11, Zenon DEF Next, Cluster

\* Every step keeps the state well typed.
LEMMA TypeStep == TypeOK /\ [Next]_vars => TypeOK'
  BY TypeMoveStep, TypeOtherStep, Zenon

\* The state of a move, of its pods and of the controllers keeps its type.
THEOREM TypeCorrect == Spec => []TypeOK
<1>1. Init => TypeOK
  BY TypeInit, Zenon
<1>2. TypeOK /\ [Next]_vars => TypeOK'
  BY TypeStep, Zenon
<1> QED
  BY <1>1, <1>2, PTL DEF Spec
------------------------------------------------------------------------------
(***************************************************************************)
(* The controllers.                                                        *)
(***************************************************************************)
controllers == <<sched, marked, paused, gpMarked>>

\* The steps of a move that leave the controllers alone, and the other steps.
Passive(m) ==
    \/ Start(m) \/ CreateClonePod(m) \/ CreateFails(m) \/ ParentsPods(m) \/ CloneReady(m)
    \/ CloneTimeout(m) \/ DeleteOriginal(m) \/ UpdateLabels(m) \/ DeleteClone(m)
    \/ DeleteInvalidPendingPods(m)
Elsewhere ==
    \/ \E p \in PodIds : CleanupLeakedPod(p)
    \/ Cluster
    \/ UNCHANGED vars

\* Passive steps leave the controllers alone.
LEMMA PassiveStep == ASSUME NEW m, Passive(m) PROVE UNCHANGED <<controllers, up>>
  BY Zenon DEF Passive, controllers, Start, CreateClonePod, CreateFails, ParentsPods, CloneReady, CloneTimeout,
     DeleteOriginal, UpdateLabels, DeleteClone, DeleteInvalidPendingPods, clusterVars

\* So do steps elsewhere, which leave the moves alone too.
LEMMA ElsewhereStep == ASSUME Elsewhere PROVE UNCHANGED <<controllers, pc, moveVars, up>>
  BY Zenon DEF Elsewhere, CleanupLeakedPod, Cluster, Age, Ready, Evict, ScaleUp, ScaleDown, controllers, vars, clusterVars

\* Every step is of one of these kinds.
LEMMA Steps ==
  ASSUME [Next]_vars
  PROVE  \/ \E m \in Moves : Passive(m) \/ Pause(m) \/ ChangeSchedulerInvalid(m)
                             \/ ChangeSchedulerValid(m) \/ Unpause(m)
         \/ Crash \/ RevertSchedulersEnd \/ UnpauseRollouts
         \/ \E r \in Parents : RevertScheduler(r)
         \/ Elsewhere
  BY Zenon DEF Next, Step, Passive, Elsewhere

\* Label and interim state are set and removed together.
LEMMA InterimStep == ASSUME TypeOK, InterimIsMarked, [Next]_vars PROVE InterimIsMarked'
<1>a. /\ sched \in [Parents -> {"default", "dummy"}]
      /\ ParentOf \in [Moves -> Parents]
  BY MoveAssumption, Zenon DEF TypeOK
<1>1. CASE UNCHANGED controllers
  BY <1>1, Zenon DEF InterimIsMarked, controllers
<1>2. ASSUME NEW m \in Moves, Pause(m) PROVE InterimIsMarked'
  BY <1>2 DEF Pause, InterimIsMarked
<1>3. ASSUME NEW m \in Moves, ChangeSchedulerInvalid(m) PROVE InterimIsMarked'
  BY <1>3, <1>a DEF ChangeSchedulerInvalid, InterimIsMarked
<1>4. ASSUME NEW m \in Moves, ChangeSchedulerValid(m) PROVE InterimIsMarked'
  BY <1>4, <1>a DEF ChangeSchedulerValid, InterimIsMarked
<1>5. ASSUME NEW m \in Moves, Unpause(m) PROVE InterimIsMarked'
  BY <1>5 DEF Unpause, InterimIsMarked
<1>6. ASSUME NEW r \in Parents, RevertScheduler(r) PROVE InterimIsMarked'
  BY <1>6, <1>a, Zenon DEF RevertScheduler, InterimIsMarked
<1>7. CASE UnpauseRollouts
  <2>1. paused' => gpMarked'
    BY <1>7, Zenon DEF UnpauseRollouts, InterimIsMarked
  <2> QED
    BY <1>7, <2>1, Zenon DEF UnpauseRollouts, InterimIsMarked
<1>8. CASE Crash \/ RevertSchedulersEnd
  BY <1>8, <1>1, Zenon DEF Crash, RevertSchedulersEnd, clusterVars, controllers
<1> QED
  BY <1>1, <1>2, <1>3, <1>4, <1>5, <1>6, <1>7, <1>8, Steps, PassiveStep, ElsewhereStep, Zenon

\* A parent with the dummy scheduler and a paused deployment have the label by
\* which the garbage collector finds them after a start, whatever fails, crashes
\* and moves at the same time.
THEOREM InterimStatesAreMarked == Spec => []InterimIsMarked
<1>1. Init => InterimIsMarked
  BY Zenon DEF Init, InterimIsMarked
<1>2. TypeOK /\ InterimIsMarked /\ [Next]_vars => InterimIsMarked'
  BY InterimStep, Zenon
<1> QED
  BY <1>1, <1>2, TypeCorrect, PTL DEF Spec

\* The steps between the pause and the unpause, and those between the two changes
\* of the scheduler.
Invalid == {"wait", "delete", "label", "validate"}
Held == {"list", "invalidate"} \cup Invalid

\* What strengthens PausedWhileDummy and RestoredWhenIdle: an interim state of a
\* controller belongs to a move at the steps that undo it, or to the cleanup.
Alone ==
    /\ up # "up" => \A m \in Moves : ~InFlight(m)
    /\ \A m, n \in Moves : InFlight(m) /\ InFlight(n) => m = n
Owners ==
    /\ \A m \in Moves : pc[m] \in {"pause", "unpause"} => HasGrandParent
    /\ paused \/ gpMarked => HasGrandParent
    /\ \A m \in Moves : pc[m] \in Held /\ HasGrandParent => paused
Accounted ==
    /\ \A r \in Parents : sched[r] = "dummy" \/ r \in marked =>
         up = "down" \/ \E m \in Moves : pc[m] \in Invalid
    /\ paused \/ gpMarked => up # "up" \/ \E m \in Moves : pc[m] \in Held \cup {"unpause"}
DummyIsPaused == HasGrandParent => \A r \in Parents : sched[r] = "dummy" => paused
ControllerInv == TypeOK /\ InterimIsMarked /\ Alone /\ Owners /\ Accounted /\ DummyIsPaused

\* The inductive invariant.
RestoreInv ==
    /\ TypeOK /\ InterimIsMarked
    /\ restoreFailures = 0 => Alone /\ Owners /\ Accounted /\ DummyIsPaused

\* A move goes from one step to the next; the others stay where they are.
Passes(m, from, to) ==
    /\ up = "up" /\ up' = "up"
    /\ pc[m] = from /\ pc'[m] = to
    /\ \A n \in Moves : n # m => pc'[n] = pc[n]

\* Goto leads a move to its next step.
LEMMA GotoPasses ==
  ASSUME TypeOK, NEW m \in Moves, NEW from, NEW to, Goto(m, from, to), up' = up
  PROVE  Passes(m, from, to)
  BY Zenon DEF TypeOK, Goto, Passes

\* Where the steps that leave the controllers alone lead.
LEMMA PassivePasses ==
  ASSUME TypeOK, NEW m \in Moves, Passive(m)
  PROVE  \/ /\ Passes(m, "new", "create")
            /\ \A n \in Moves : InFlight(n) => ParentOf[n] # ParentOf[m]
         \/ Passes(m, "create", IF HasGrandParent THEN "pause" ELSE "list")
         \/ Passes(m, "create", "done")
         \/ Passes(m, "list", "invalidate")
         \/ Passes(m, "list", IF HasGrandParent THEN "unpause" ELSE "uncreate")
         \/ \E from, to \in Invalid : Passes(m, from, to)
         \/ Passes(m, "uncreate", "unpend")
         \/ Passes(m, "unpend", "done")
<1>1. up' = up
  BY PassiveStep, Zenon
<1>2. ASSUME NEW from, NEW to, Goto(m, from, to) PROVE Passes(m, from, to)
  BY <1>1, <1>2, GotoPasses, Zenon
<1>3. CASE Start(m)
  BY <1>2, <1>3, Zenon DEF Start
<1>4. CASE CreateClonePod(m) \/ CreateFails(m)
  BY <1>2, <1>4, Zenon DEF CreateClonePod, CreateFails
<1>5. CASE ParentsPods(m)
  BY <1>2, <1>5, Zenon DEF ParentsPods, UndoClone
<1>6. CASE CloneReady(m) \/ CloneTimeout(m)
  BY <1>2, <1>6, Zenon DEF CloneReady, CloneTimeout, Invalid
<1>7. CASE DeleteOriginal(m)
  BY <1>2, <1>7, Zenon DEF DeleteOriginal, Invalid
<1>8. CASE UpdateLabels(m)
  BY <1>2, <1>8, Zenon DEF UpdateLabels, Invalid
<1>9. CASE DeleteClone(m) \/ DeleteInvalidPendingPods(m)
  BY <1>2, <1>9, Zenon DEF DeleteClone, DeleteInvalidPendingPods
<1> QED
  BY <1>3, <1>4, <1>5, <1>6, <1>7, <1>8, <1>9, Zenon DEF Passive

\* A step that is not a failing restore keeps the controllers accounted for.
LEMMA ControllerStep ==
  ASSUME restoreFailures' = 0, \A r, q \in Parents : r = q, ControllerInv, [Next]_vars
  PROVE  ControllerInv'
<1>a. TypeOK' /\ InterimIsMarked'
  BY TypeStep, InterimStep, Zenon DEF ControllerInv
<1>b. /\ sched \in [Parents -> {"default", "dummy"}]
      /\ marked \in SUBSET Parents
      /\ ParentOf \in [Moves -> Parents]
      /\ ~RestoreFail
  BY MoveAssumption DEF ControllerInv, TypeOK, RestoreFail
<1>c. TypeOK /\ InterimIsMarked /\ Alone /\ Owners /\ Accounted /\ DummyIsPaused
  BY Zenon DEF ControllerInv
<1> USE DEF Idle, InFlight, Held, Invalid
<1> SUFFICES (Alone /\ Owners /\ Accounted /\ DummyIsPaused)'
  BY <1>a, Zenon DEF ControllerInv
<1>1. ASSUME NEW m \in Moves, Passive(m) PROVE (Alone /\ Owners /\ Accounted /\ DummyIsPaused)'
  <2>1. sched' = sched /\ marked' = marked /\ paused' = paused /\ gpMarked' = gpMarked /\ up' = up
    BY <1>1, PassiveStep, Zenon DEF controllers
  <2>2. \/ Passes(m, "new", "create") /\ \A n \in Moves : ~InFlight(n)
        \/ Passes(m, "create", IF HasGrandParent THEN "pause" ELSE "list")
        \/ Passes(m, "create", "done")
        \/ Passes(m, "list", "invalidate")
        \/ Passes(m, "list", IF HasGrandParent THEN "unpause" ELSE "uncreate")
        \/ \E from, to \in Invalid : Passes(m, from, to)
        \/ Passes(m, "uncreate", "unpend")
        \/ Passes(m, "unpend", "done")
    BY <1>1, <1>b, <1>c, PassivePasses
  <2>3. Alone'
    BY <1>c, <2>2 DEF Alone, Passes
  <2>4. Owners'
    BY <1>c, <2>1, <2>2, Zenon DEF Owners, Passes
  <2>5. Accounted'
    BY <1>c, <2>1, <2>2 DEF Accounted, Owners, Alone, Passes
  <2> QED
    BY <1>c, <2>1, <2>3, <2>4, <2>5, Zenon DEF DummyIsPaused
<1>2. ASSUME NEW m \in Moves, Pause(m) PROVE (Alone /\ Owners /\ Accounted /\ DummyIsPaused)'
  <2>1. sched' = sched /\ marked' = marked /\ up' = up
    BY <1>2, Zenon DEF Pause
  <2>2. \/ Passes(m, "pause", "list") /\ paused' = TRUE /\ gpMarked' = TRUE
        \/ Passes(m, "pause", "unpause") /\ paused' = TRUE /\ gpMarked' = TRUE
        \/ Passes(m, "pause", "unpause") /\ paused' = paused /\ gpMarked' = gpMarked
    BY <1>2, <1>c, <2>1, GotoPasses, Zenon DEF Pause
  <2>3. Alone'
    BY <1>c, <2>2, Zenon DEF Alone, Passes
  <2>4. Owners'
    BY <1>c, <2>1, <2>2 DEF Owners, Passes
  <2>5. Accounted'
    BY <1>c, <2>1, <2>2, Zenon DEF Accounted, Passes
  <2> QED
    BY <1>c, <2>1, <2>2, <2>3, <2>4, <2>5 DEF DummyIsPaused
<1>3. ASSUME NEW m \in Moves, ChangeSchedulerInvalid(m)
      PROVE (Alone /\ Owners /\ Accounted /\ DummyIsPaused)'
  <2>1. paused' = paused /\ gpMarked' = gpMarked /\ up' = up
    BY <1>3, Zenon DEF ChangeSchedulerInvalid
  <2>2. \E to \in Invalid : Passes(m, "invalidate", to)
    BY <1>3, <1>c, <2>1, GotoPasses, Zenon DEF ChangeSchedulerInvalid
  <2>3. Alone'
    BY <1>c, <2>2, Zenon DEF Alone, Passes
  <2>4. Owners'
    BY <1>c, <2>1, <2>2, Zenon DEF Owners, Passes
  <2>5. Accounted'
    BY <1>c, <2>1, <2>2, Zenon DEF Accounted, Passes
  <2>6. DummyIsPaused'
    BY <1>c, <2>1, <2>2, Zenon DEF DummyIsPaused, Owners, Passes
  <2> QED
    BY <2>3, <2>4, <2>5, <2>6, Zenon
<1>4. ASSUME NEW m \in Moves, ChangeSchedulerValid(m)
      PROVE (Alone /\ Owners /\ Accounted /\ DummyIsPaused)'
  <2>1. paused' = paused /\ gpMarked' = gpMarked /\ up' = up
    BY <1>4, Zenon DEF ChangeSchedulerValid
  <2>2. Passes(m, "validate", IF HasGrandParent THEN "unpause" ELSE "uncreate")
    BY <1>4, <1>c, <2>1, GotoPasses, Zenon DEF ChangeSchedulerValid, UndoClone
  <2>3. \A r \in Parents : sched'[r] = "default" /\ r \notin marked'
    BY <1>4, <1>b, Zenon DEF ChangeSchedulerValid
  <2>4. Alone'
    BY <1>c, <2>2, Zenon DEF Alone, Passes
  <2>5. Owners'
    BY <1>c, <2>1, <2>2, Zenon DEF Owners, Passes
  <2>6. Accounted'
    BY <1>c, <2>1, <2>2, <2>3, Zenon DEF Accounted, Owners, Alone, Passes
  <2> QED
    BY <2>3, <2>4, <2>5, <2>6, Zenon DEF DummyIsPaused
<1>5. ASSUME NEW m \in Moves, Unpause(m) PROVE (Alone /\ Owners /\ Accounted /\ DummyIsPaused)'
  <2>1. sched' = sched /\ marked' = marked /\ up' = up
    BY <1>5, Zenon DEF Unpause
  <2>2. Passes(m, "unpause", "uncreate") /\ paused' = FALSE /\ gpMarked' = FALSE
    BY <1>5, <1>b, <1>c, <2>1, GotoPasses, Zenon DEF Unpause
  <2>3. \A n \in Moves : n # m => pc[n] \in Idle
    BY <1>c, <2>2, Zenon DEF Alone, Passes
  <2>4. \A r \in Parents : sched[r] # "dummy" /\ r \notin marked
    BY <1>c, <2>2, <2>3, Zenon DEF Accounted, Passes
  <2>5. Alone'
    BY <1>c, <2>2, Zenon DEF Alone, Passes
  <2>6. Owners'
    BY <1>c, <2>1, <2>2, <2>3, Zenon DEF Owners, Passes
  <2>7. Accounted'
    BY <2>1, <2>2, <2>4, Zenon DEF Accounted
  <2> QED
    BY <2>1, <2>4, <2>5, <2>6, <2>7, Zenon DEF DummyIsPaused
<1>6. CASE Crash
  <2>1. sched' = sched /\ marked' = marked /\ paused' = paused /\ gpMarked' = gpMarked /\ up' = "down"
    BY <1>6, Zenon DEF Crash, clusterVars
  <2>2. \A m \in Moves : pc'[m] \in Idle
    BY <1>6, Zenon DEF Crash
  <2> QED
    BY <1>c, <2>1, <2>2, Zenon DEF Alone, Owners, Accounted, DummyIsPaused
<1>7. CASE RevertSchedulersEnd
  <2>1. /\ sched' = sched /\ marked' = marked /\ paused' = paused /\ gpMarked' = gpMarked
        /\ up = "down" /\ up' = "gc" /\ pc' = pc /\ marked = {}
    BY <1>7, <1>b, Zenon DEF RevertSchedulersEnd, clusterVars
  <2>2. \A r \in Parents : sched[r] # "dummy"
    BY <1>c, <2>1, Zenon DEF InterimIsMarked
  <2> QED
    BY <1>c, <2>1, <2>2, Zenon DEF Alone, Owners, Accounted, DummyIsPaused
<1>8. CASE UnpauseRollouts
  <2>1. /\ sched' = sched /\ marked' = marked /\ pc' = pc /\ up = "gc" /\ up' = "up"
        /\ gpMarked' = FALSE
    BY <1>8, <1>b, Zenon DEF UnpauseRollouts
  <2>2. ~paused'
    BY <1>8, <1>b, <1>c, Zenon DEF UnpauseRollouts, InterimIsMarked
  <2>3. \A m \in Moves : pc[m] \in Idle
    BY <1>c, <2>1, Zenon DEF Alone
  <2>4. \A r \in Parents : sched[r] # "dummy" /\ r \notin marked
    BY <1>c, <2>1, <2>3, Zenon DEF Accounted
  <2> QED
    BY <2>1, <2>2, <2>3, <2>4, Zenon DEF Alone, Owners, Accounted, DummyIsPaused
<1>9. ASSUME NEW r \in Parents, RevertScheduler(r)
      PROVE (Alone /\ Owners /\ Accounted /\ DummyIsPaused)'
  <2>1. /\ paused' = paused /\ gpMarked' = gpMarked /\ up = "down" /\ up' = up /\ pc' = pc
        /\ \A q \in Parents : sched'[q] = "dummy" => sched[q] = "dummy"
    BY <1>9, <1>b, Zenon DEF RevertScheduler
  <2> QED
    BY <1>c, <2>1, Zenon DEF Alone, Owners, Accounted, DummyIsPaused
<1>10. CASE Elsewhere
  <2>1. /\ sched' = sched /\ marked' = marked /\ paused' = paused /\ gpMarked' = gpMarked
        /\ up' = up /\ pc' = pc
    BY <1>10, ElsewhereStep, Zenon DEF controllers
  <2> QED
    BY <1>c, <2>1, Zenon DEF Alone, Owners, Accounted, DummyIsPaused
<1> QED
  BY <1>1, <1>2, <1>3, <1>4, <1>5, <1>6, <1>7, <1>8, <1>9, <1>10, Steps, Zenon

\* A restore that has failed is not forgotten.
LEMMA RestoreFailureStep ==
  ASSUME TypeOK, [Next]_vars, restoreFailures' = 0
  PROVE  restoreFailures = 0
<1>1. RestoreFail => restoreFailures' # 0
  BY MoveAssumption DEF RestoreFail, TypeOK
<1>2. RestoreFail \/ UNCHANGED restoreFailures
  BY Zenon
  DEF Next, Step, Start, CreateClonePod, CreateFails, ParentsPods, CloneReady, CloneTimeout, Pause,
      ChangeSchedulerInvalid, ChangeSchedulerValid, Unpause, DeleteOriginal, UpdateLabels, DeleteClone,
      DeleteInvalidPendingPods, Crash, RevertSchedulersEnd, UnpauseRollouts, RevertScheduler,
      CleanupLeakedPod, Cluster, Age, Ready, Evict, ScaleUp, ScaleDown, Fail, counters, vars
<1> QED
  BY <1>1, <1>2, Zenon

\* The inductive invariant holds throughout, for one replica set.
LEMMA ControllerInvariant ==
  ASSUME \A r, q \in Parents : r = q
  PROVE  Spec => []RestoreInv
<1>1. Init => RestoreInv
  <2> SUFFICES ASSUME Init PROVE RestoreInv
    BY Zenon
  <2>1. TypeOK
    BY TypeInit, Zenon
  <2>2. /\ sched = [r \in Parents |-> "default"] /\ marked = {} /\ ~paused /\ ~gpMarked
        /\ \A m \in Moves : pc[m] = "new"
        /\ up = "up"
    BY Zenon DEF Init
  <2> QED
    BY <2>1, <2>2, Zenon DEF RestoreInv, InterimIsMarked, Alone, Owners, Accounted, DummyIsPaused, InFlight,
       Idle, Held, Invalid
<1>2. RestoreInv /\ [Next]_vars => RestoreInv'
  BY TypeStep, InterimStep, ControllerStep, RestoreFailureStep, Zenon DEF RestoreInv, ControllerInv
<1> QED
  BY <1>1, <1>2, PTL DEF Spec

\* As long as the moves are those of one replica set, and no deferred restore has
\* failed for good, the dummy scheduler is never seen by a deployment that may roll
\* out: step 2 precedes step 3 and step 7 precedes step 8, across failures, crashes
\* and restarts.
THEOREM DummyOnlyWhilePaused ==
  ASSUME \A r, q \in Parents : r = q
  PROVE  Spec => []PausedWhileDummy
<1>1. RestoreInv => PausedWhileDummy
  BY Zenon DEF RestoreInv, DummyIsPaused, PausedWhileDummy
<1> QED
  BY <1>1, ControllerInvariant, PTL

\* Under the same conditions the controllers are as they were whenever no move is
\* in flight and the cleanup after a start is over.
THEOREM IdleMeansRestored ==
  ASSUME \A r, q \in Parents : r = q
  PROVE  Spec => []RestoredWhenIdle
<1>1. RestoreInv => RestoredWhenIdle
  <2> SUFFICES ASSUME RestoreInv, restoreFailures = 0, up = "up", \A m \in Moves : ~InFlight(m)
               PROVE  marked = {} /\ ~paused /\ ~gpMarked /\ \A r \in Parents : sched[r] = "default"
    BY Zenon DEF RestoredWhenIdle
  <2>1. sched \in [Parents -> {"default", "dummy"}] /\ marked \in SUBSET Parents
    BY Zenon DEF RestoreInv, TypeOK
  <2>2. \A m \in Moves : pc[m] \in {"new", "done"}
    BY Zenon DEF InFlight, Idle
  <2> QED
    BY <2>1, <2>2, Zenon DEF RestoreInv, Accounted, Held, Invalid
<1> QED
  BY <1>1, ControllerInvariant, PTL
------------------------------------------------------------------------------
(***************************************************************************)
(* The clone.                                                              *)
(***************************************************************************)
CloneSteps == {"pause", "list", "invalidate", "wait", "delete", "label"}

\* What strengthens CloneSurvives: the clone belongs to nobody, is young, and no
\* move takes it for its original or for its own clone.
CloneSafe(m) ==
    /\ clone[m] \in PodIds
    /\ Live(clone[m]) /\ ~pods[clone[m]].owned /\ ~pods[clone[m]].old
    /\ \A n \in Moves : orig[n] # clone[m]
    /\ \A n \in Moves : n # m => clone[n] # clone[m]
CloneInv == \A m \in Moves : pc[m] \in CloneSteps => CloneSafe(m)

\* A step keeps a clone safe if it does not touch the clone and no move gets a
\* new original or a new clone.
Quiet ==
    /\ \A n \in Moves : orig'[n] \in {orig[n], NoPod}
    /\ \A n \in Moves : clone'[n] \in {clone[n], NoPod}
Untouched(m) ==
    /\ clone'[m] = clone[m]
    /\ pods'[clone[m]].phase # "none"
    /\ pods'[clone[m]].owned = pods[clone[m]].owned
    /\ pods'[clone[m]].old = pods[clone[m]].old

\* Steps that are quiet keep every clone safe that they do not touch.
LEMMA QuietStep ==
  ASSUME CloneInv, Quiet,
         \A m \in Moves : pc'[m] \in CloneSteps => pc[m] \in CloneSteps,
         \A m \in Moves : CloneSafe(m) /\ pc'[m] \in CloneSteps => Untouched(m)
  PROVE  CloneInv'
<1> SUFFICES ASSUME NEW m \in Moves, pc'[m] \in CloneSteps PROVE CloneSafe(m)'
  BY Zenon DEF CloneInv
<1>1. CloneSafe(m) /\ Untouched(m)
  BY Zenon DEF CloneInv
<1>2. NoPod # clone[m]
  BY <1>1, MoveAssumption, Zenon DEF CloneSafe
<1> QED
  BY <1>1, <1>2, Zenon DEF CloneSafe, Untouched, Live, Quiet

\* Deleting, making or ageing another pod does not touch the clone.
LEMMA OtherPod ==
  ASSUME TypeOK, NEW m \in Moves, CloneSafe(m), clone' = clone,
         NEW p, NEW rec, p # clone[m], pods' = [pods EXCEPT ![p] = rec]
  PROVE  Untouched(m)
  BY Zenon DEF TypeOK, CloneSafe, Untouched, Live

\* A step that changes no pod touches no clone.
LEMMA SamePods ==
  ASSUME NEW m \in Moves, CloneSafe(m), clone' = clone, pods' = pods
  PROVE  Untouched(m)
  BY Zenon DEF CloneSafe, Untouched, Live

\* Steps that belong to no move.
LEMMA CloneElsewhere ==
  ASSUME HasGrandParent, WaitBound <= PodAge, TypeOK, CloneInv, Elsewhere
  PROVE  CloneInv'
<1>1. pc' = pc /\ orig' = orig /\ clone' = clone
  BY ElsewhereStep, Zenon DEF moveVars
<1>2. Quiet
  BY <1>1, Zenon DEF Quiet
<1> SUFFICES ASSUME NEW m \in Moves, CloneSafe(m), pc'[m] \in CloneSteps PROVE Untouched(m)
  BY <1>1, <1>2, QuietStep, Zenon
<1>3. CASE UNCHANGED vars
  BY <1>1, <1>3, SamePods, Zenon DEF vars, clusterVars
<1>4. ASSUME NEW p \in PodIds, CleanupLeakedPod(p) PROVE Untouched(m)
  <2>1. p # clone[m] /\ pods' = [pods EXCEPT ![p] = NonePod]
    BY <1>4, Zenon DEF CleanupLeakedPod, IsLeakedPod, CloneSafe, Delete
  <2> QED
    BY <1>1, <2>1, OtherPod, Zenon
<1>5. ASSUME NEW p \in PodIds, Evict(p) PROVE Untouched(m)
  <2>1. p # clone[m] /\ pods' = [pods EXCEPT ![p] = NonePod]
    BY <1>5, Zenon DEF Evict, CloneSafe, Delete
  <2> QED
    BY <1>1, <2>1, OtherPod, Zenon
<1>6. ASSUME NEW p \in PodIds, Age(p) PROVE Untouched(m)
  <2>1. WaitBound \in Int /\ PodAge \in Int
    BY MoveAssumption DEF WaitBound
  <2>2. p # clone[m]
    BY <1>6, <2>1 DEF Age
  <2>3. pods' = [pods EXCEPT ![p] = [@ EXCEPT !.old = TRUE]]
    BY <1>6, Zenon DEF Age
  <2> QED
    BY <1>1, <2>2, <2>3, OtherPod, Zenon
<1>7. ASSUME NEW p \in PodIds, Ready(p) PROVE Untouched(m)
  BY <1>1, <1>7, Zenon DEF Ready, Untouched, CloneSafe, TypeOK, PodRecords, Live
<1>8. ASSUME NEW r \in Parents, ScaleUp(r) PROVE Untouched(m)
  <2> DEFINE new == [phase |-> "pending", rs |-> r, owned |-> TRUE, gc |-> FALSE,
                     dummy |-> sched[r] = "dummy", placed |-> FALSE, old |-> FALSE]
  <2>1. PICK p \in PodIds : Fresh(p) /\ pods' = [pods EXCEPT ![p] = new]
    BY <1>8, Zenon DEF ScaleUp
  <2>2. p # clone[m]
    BY <2>1, Zenon DEF Fresh, Free
  <2> HIDE DEF new
  <2> QED
    BY <1>1, <2>1, <2>2, OtherPod, Zenon
<1>9. ASSUME NEW r \in Parents, ScaleDown(r) PROVE Untouched(m)
  <2>1. PICK p \in Owned(r) : Delete(p)
    BY <1>9, Zenon DEF ScaleDown
  <2>2. p # clone[m]
    BY Zenon DEF Owned, CloneSafe
  <2> QED
    BY <1>1, <2>1, <2>2, OtherPod, Zenon DEF Delete
<1> QED
  BY <1>3, <1>4, <1>5, <1>6, <1>7, <1>8, <1>9, Zenon DEF Elsewhere, Cluster

\* The steps of a move that neither make nor delete a pod.
LEMMA CloneStill ==
  ASSUME TypeOK, CloneInv, NEW k \in Moves,
         NEW from, NEW to, Passes(k, from, to), to \in CloneSteps => from \in CloneSteps,
         pods' = pods, orig' = orig, clone' = clone
  PROVE  CloneInv'
<1>1. Quiet
  BY Zenon DEF Quiet
<1>2. \A m \in Moves : pc'[m] \in CloneSteps => pc[m] \in CloneSteps
  BY Zenon DEF Passes
<1>3. \A m \in Moves : CloneSafe(m) => Untouched(m)
  BY SamePods, Zenon
<1> QED
  BY <1>1, <1>2, <1>3, QuietStep, Zenon

\* The steps of a move keep all clones safe.
LEMMA CloneMoveStep ==
  ASSUME HasGrandParent, TypeOK, CloneInv, NEW k \in Moves, Start(k) \/ Step(k)
  PROVE  CloneInv'
<1>a. /\ orig \in [Moves -> PodIds \cup {NoPod}]
      /\ clone \in [Moves -> PodIds \cup {NoPod}]
      /\ pods \in [PodIds -> PodRecords]
      /\ up' = up
  <2>1. up' = up
    BY PassiveStep, Zenon DEF Step, Passive, Pause, ChangeSchedulerInvalid, ChangeSchedulerValid, Unpause
  <2> QED
    BY <2>1, Zenon DEF TypeOK
<1>b. ASSUME NEW from, NEW to, Goto(k, from, to) PROVE Passes(k, from, to)
  BY <1>a, <1>b, GotoPasses, Zenon
<1> USE DEF CloneSteps
<1>1. CASE Start(k)
  <2>1. Passes(k, "new", "create") /\ pods' = pods /\ clone' = clone
    BY <1>1, <1>b, Zenon DEF Start, clusterVars
  <2>2. PICK p \in Owned(ParentOf[k]) : orig' = [orig EXCEPT ![k] = p]
    BY <1>1, Zenon DEF Start
  <2> SUFFICES ASSUME NEW m \in Moves, pc'[m] \in CloneSteps PROVE CloneSafe(m)'
    BY Zenon DEF CloneInv
  <2>3. CloneSafe(m)
    BY <2>1, Zenon DEF Passes, CloneInv
  <2>4. p # clone[m]
    BY <2>3, Zenon DEF Owned, CloneSafe
  <2>5. \A n \in Moves : orig'[n] # clone[m]
    BY <1>a, <2>2, <2>3, <2>4, Zenon DEF CloneSafe
  <2> QED
    BY <2>1, <2>3, <2>5, Zenon DEF CloneSafe, Live
<1>2. CASE CreateClonePod(k)
  <2>1. Passes(k, "create", "pause") /\ orig' = orig
    BY <1>2, <1>b, Zenon DEF CreateClonePod
  <2>2. PICK p \in PodIds : /\ Fresh(p)
                            /\ pods' = [pods EXCEPT ![p] = Clone(k)]
                            /\ clone' = [clone EXCEPT ![k] = p]
    BY <1>2, Zenon DEF CreateClonePod
  <2>3. \A n \in Moves : orig[n] # p /\ clone[n] # p
    BY <2>2, Zenon DEF Fresh, Free
  <2>4. CloneSafe(k)'
    <3>1. clone'[k] = p /\ pods'[p] = Clone(k)
      BY <1>a, <2>2, Zenon
    <3>2. Clone(k).phase = "pending" /\ ~Clone(k).owned /\ ~Clone(k).old
      BY Zenon DEF Clone
    <3>3. \A n \in Moves : n # k => clone'[n] = clone[n]
      BY <1>a, <2>2, Zenon
    <3> QED
      BY <2>1, <2>3, <3>1, <3>2, <3>3, Zenon DEF CloneSafe, Live
  <2>5. ASSUME NEW m \in Moves, m # k, pc'[m] \in CloneSteps PROVE CloneSafe(m)'
    <3>1. CloneSafe(m)
      BY <2>1, <2>5, Zenon DEF Passes, CloneInv
    <3>2. clone'[m] = clone[m] /\ clone[m] # p
      BY <1>a, <2>2, <2>3, <2>5, Zenon
    <3>3. pods'[clone[m]] = pods[clone[m]]
      BY <1>a, <2>2, <3>1, <3>2, Zenon DEF CloneSafe
    <3>4. \A n \in Moves : n # m => clone'[n] # clone[m]
      BY <1>a, <2>2, <3>1, <3>2, Zenon DEF CloneSafe
    <3> QED
      BY <2>1, <3>1, <3>2, <3>3, <3>4, Zenon DEF CloneSafe, Live
  <2> QED
    BY <2>4, <2>5, Zenon DEF CloneInv
<1>3. CASE CreateFails(k)
  <2>1. Passes(k, "create", "done") /\ orig' = [orig EXCEPT ![k] = NoPod] /\ clone' = clone
    BY <1>3, <1>b, Zenon DEF CreateFails
  <2>2. UNCHANGED pods \/ \E p \in PodIds : Fresh(p) /\ pods' = [pods EXCEPT ![p] = Clone(k)]
    BY <1>3, Zenon DEF CreateFails
  <2>3. Quiet
    BY <1>a, <2>1, Zenon DEF Quiet
  <2>4. \A m \in Moves : pc'[m] \in CloneSteps => pc[m] \in CloneSteps
    BY <2>1, Zenon DEF Passes
  <2>5. ASSUME NEW m \in Moves, CloneSafe(m) PROVE Untouched(m)
    <3>1. CASE UNCHANGED pods
      BY <2>1, <2>5, <3>1, SamePods, Zenon
    <3>2. ASSUME NEW p \in PodIds, Fresh(p), pods' = [pods EXCEPT ![p] = Clone(k)]
          PROVE  Untouched(m)
      <4>1. p # clone[m]
        BY <3>2, Zenon DEF Fresh, Free
      <4> QED
        BY <2>1, <2>5, <3>2, <4>1, OtherPod, Zenon
    <3> QED
      BY <2>2, <3>1, <3>2, Zenon
  <2> QED
    BY <2>3, <2>4, <2>5, QuietStep, Zenon
<1>4. CASE Pause(k)
  <2>1. \E to \in {"list", "unpause"} : Passes(k, "pause", to)
    BY <1>4, <1>b, Zenon DEF Pause
  <2>2. pods' = pods /\ orig' = orig /\ clone' = clone
    BY <1>4, Zenon DEF Pause, moveVars
  <2> QED
    BY <2>1, <2>2, CloneStill, Zenon
<1>5. CASE ParentsPods(k)
  <2>1. \E to : Passes(k, "list", to)
    BY <1>5, <1>b, Zenon DEF ParentsPods
  <2>2. pods' = pods /\ orig' = orig /\ clone' = clone
    BY <1>5, Zenon DEF ParentsPods, clusterVars
  <2> QED
    BY <2>1, <2>2, CloneStill, Zenon
<1>6. CASE ChangeSchedulerInvalid(k)
  <2>1. \E to : Passes(k, "invalidate", to)
    BY <1>6, <1>b, Zenon DEF ChangeSchedulerInvalid
  <2>2. pods' = pods /\ orig' = orig /\ clone' = clone
    BY <1>6, Zenon DEF ChangeSchedulerInvalid, moveVars
  <2> QED
    BY <2>1, <2>2, CloneStill, Zenon
<1>7. CASE CloneReady(k) \/ CloneTimeout(k)
  <2>1. \E to : Passes(k, "wait", to)
    BY <1>7, <1>b, Zenon DEF CloneReady, CloneTimeout
  <2>2. pods' = pods /\ orig' = orig /\ clone' = clone
    BY <1>7, Zenon DEF CloneReady, CloneTimeout, moveVars, clusterVars
  <2> QED
    BY <2>1, <2>2, CloneStill, Zenon
<1>8. CASE DeleteOriginal(k)
  <2>1. \E to : Passes(k, "delete", to)
    BY <1>8, <1>b, Zenon DEF DeleteOriginal
  <2>2. orig' = orig /\ clone' = clone /\ (pods' = pods \/ pods' = [pods EXCEPT ![orig[k]] = NonePod])
    BY <1>8, Zenon DEF DeleteOriginal, moveVars, Delete
  <2>3. Quiet
    BY <2>2, Zenon DEF Quiet
  <2>4. \A m \in Moves : pc'[m] \in CloneSteps => pc[m] \in CloneSteps
    BY <2>1, Zenon DEF Passes
  <2>5. ASSUME NEW m \in Moves, CloneSafe(m) PROVE Untouched(m)
    <3>1. orig[k] # clone[m]
      BY <2>5, Zenon DEF CloneSafe
    <3> QED
      BY <2>2, <2>5, <3>1, OtherPod, SamePods, Zenon
  <2> QED
    BY <2>3, <2>4, <2>5, QuietStep, Zenon
<1>9. CASE UpdateLabels(k)
  <2> DEFINE rec == [pods[clone[k]] EXCEPT !.owned = TRUE, !.gc = FALSE, !.old = FALSE]
  <2>1. Passes(k, "label", "validate") /\ orig' = orig /\ clone' = clone
    BY <1>9, <1>b, Zenon DEF UpdateLabels
  <2>2. pods' = pods \/ pods' = [pods EXCEPT ![clone[k]] = rec]
    BY <1>9, Zenon DEF UpdateLabels
  <2>3. Quiet
    BY <2>1, Zenon DEF Quiet
  <2>4. \A m \in Moves : pc'[m] \in CloneSteps => pc[m] \in CloneSteps /\ m # k
    BY <2>1, Zenon DEF Passes
  <2>5. ASSUME NEW m \in Moves, CloneSafe(m), pc'[m] \in CloneSteps PROVE Untouched(m)
    <3>1. clone[k] # clone[m]
      BY <2>4, <2>5, Zenon DEF CloneSafe
    <3> HIDE DEF rec
    <3> QED
      BY <2>1, <2>2, <2>5, <3>1, OtherPod, SamePods, Zenon
  <2> QED
    BY <2>3, <2>4, <2>5, QuietStep, Zenon
<1>10. CASE ChangeSchedulerValid(k) \/ Unpause(k)
  <2>1. \E from : \E to \in {"unpause", "uncreate"} : Passes(k, from, to)
    BY <1>10, <1>b, Zenon DEF ChangeSchedulerValid, Unpause, UndoClone
  <2>2. pods' = pods /\ orig' = orig /\ clone' = clone
    BY <1>10, Zenon DEF ChangeSchedulerValid, Unpause, moveVars
  <2> QED
    BY <2>1, <2>2, CloneStill, Zenon
<1>11. CASE DeleteClone(k)
  <2>1. Passes(k, "uncreate", "unpend") /\ orig' = orig /\ clone' = clone
    BY <1>11, <1>b, Zenon DEF DeleteClone, moveVars
  <2>2. pods' = pods \/ pods' = [pods EXCEPT ![clone[k]] = NonePod]
    BY <1>11, Zenon DEF DeleteClone, Delete
  <2>3. Quiet
    BY <2>1, Zenon DEF Quiet
  <2>4. \A m \in Moves : pc'[m] \in CloneSteps => pc[m] \in CloneSteps /\ m # k
    BY <2>1, Zenon DEF Passes
  <2>5. ASSUME NEW m \in Moves, CloneSafe(m), pc'[m] \in CloneSteps PROVE Untouched(m)
    <3>1. clone[k] # clone[m]
      BY <2>4, <2>5, Zenon DEF CloneSafe
    <3> QED
      BY <2>1, <2>2, <2>5, <3>1, OtherPod, SamePods, Zenon
  <2> QED
    BY <2>3, <2>4, <2>5, QuietStep, Zenon
<1>12. CASE DeleteInvalidPendingPods(k)
  <2>1. /\ Passes(k, "unpend", "done")
        /\ orig' = [orig EXCEPT ![k] = NoPod]
        /\ clone' = [clone EXCEPT ![k] = NoPod]
    BY <1>12, <1>b, Zenon DEF DeleteInvalidPendingPods
  <2>2. PICK S \in SUBSET InvalidPending(k) : pods' = [p \in PodIds |-> IF p \in S THEN NonePod ELSE pods[p]]
    BY <1>12, Zenon DEF DeleteInvalidPendingPods
  <2>3. Quiet
    BY <1>a, <2>1, Zenon DEF Quiet
  <2>4. \A m \in Moves : pc'[m] \in CloneSteps => pc[m] \in CloneSteps /\ m # k
    BY <2>1, Zenon DEF Passes
  <2>5. ASSUME NEW m \in Moves, CloneSafe(m), pc'[m] \in CloneSteps PROVE Untouched(m)
    <3>1. clone[m] \notin S
      BY <2>5, Zenon DEF InvalidPending, Owned, CloneSafe
    <3>2. clone'[m] = clone[m]
      BY <1>a, <2>1, <2>4, <2>5, Zenon
    <3>3. pods'[clone[m]] = pods[clone[m]]
      BY <2>2, <2>5, <3>1, Zenon DEF CloneSafe
    <3> QED
      BY <2>5, <3>2, <3>3 DEF Untouched, CloneSafe, Live
  <2> QED
    BY <2>3, <2>4, <2>5, QuietStep, Zenon
<1> QED
  BY <1>1, <1>2, <1>3, <1>4, <1>5, <1>6, <1>7, <1>8, <1>9, <1>10, <1>11, <1>12, Zenon DEF Step

\* Every step keeps all clones safe.
LEMMA CloneStep ==
  ASSUME HasGrandParent, WaitBound <= PodAge, TypeOK, CloneInv, [Next]_vars
  PROVE  CloneInv'
<1>1. CASE Crash
  <2>1. \A m \in Moves : pc'[m] \notin CloneSteps
    BY <1>1, Zenon DEF Crash, InFlight, Idle, CloneSteps
  <2> QED
    BY <2>1, Zenon DEF CloneInv
<1>2. CASE RevertSchedulersEnd \/ UnpauseRollouts \/ \E r \in Parents : RevertScheduler(r)
  <2>1. pods' = pods /\ pc' = pc /\ orig' = orig /\ clone' = clone
    BY <1>2, Zenon DEF RevertSchedulersEnd, UnpauseRollouts, RevertScheduler, clusterVars, moveVars
  <2> QED
    BY <2>1, Zenon DEF CloneInv, CloneSafe, Live
<1> QED
  BY <1>1, <1>2, CloneMoveStep, CloneElsewhere, Zenon DEF Next, Elsewhere

\* The clone of a pod of a deployment is there until its labels are updated, if
\* the readiness probe lets the move give up before the garbage collector's age:
\* no replica set owns it, and no other move, failed or not, deletes it.
THEOREM CloneIsKept ==
  ASSUME HasGrandParent, WaitBound <= PodAge
  PROVE  Spec => []CloneSurvives
<1>1. Init => CloneInv
  BY Zenon DEF Init, CloneInv, CloneSteps
<1>2. TypeOK /\ CloneInv /\ [Next]_vars => CloneInv'
  BY CloneStep, Zenon
<1>3. CloneInv => CloneSurvives
  BY Zenon DEF CloneInv, CloneSafe, CloneSurvives, CloneSteps
<1> QED
  BY <1>1, <1>2, <1>3, TypeCorrect, PTL DEF Spec
------------------------------------------------------------------------------
(***************************************************************************)
(* The pods in service.                                                    *)
(***************************************************************************)
\* What the garbage collector goes by: a pod that belongs to a replica set is
\* not labelled for collection, and one that waits for the dummy scheduler does
\* not run.
Clean(p) ==
    /\ pods[p].owned => ~pods[p].gc
    /\ pods[p].dummy => ~pods[p].placed /\ pods[p].phase # "ready"

\* A clone that the deferred call would delete belongs to no replica set, and
\* is the clone of one move only.
Spare(m) ==
    clone[m] \in PodIds =>
      /\ failures = 0 /\ ~moved[m] => ~pods[clone[m]].owned
      /\ \A n \in Moves : n # m => clone[n] # clone[m]

GarbageInv == (\A p \in PodIds : Clean(p)) /\ (\A m \in Moves : Spare(m))

InService(r) == {p \in PodIds : pods[p].phase = "ready" /\ pods[p].rs = r /\ pods[p].owned}
Gentle == \A m \in Moves : Volume[m] => pc[m] = "new"

\* An original is a pod of the parent as long as it is there.
OrigInv == \A m \in Moves : orig[m] \in PodIds /\ Live(orig[m]) => pods[orig[m]].rs = ParentOf[m]

\* Moves of one parent follow one another.
Serial == \A m, n \in Moves : InFlight(m) /\ InFlight(n) /\ ParentOf[m] = ParentOf[n] => m = n

\* A parent has its replicas in service, but for the one that a running clone
\* stands in for.
Relieved(r) == \E m \in Moves : ParentOf[m] = r /\ pc[m] = "label"
Staffed(r) == Cardinality(InService(r)) + (IF Relieved(r) THEN 1 ELSE 0) >= Desired
CloneRuns(m) ==
    /\ pc[m] \in CloneSteps => pods[clone[m]].rs = ParentOf[m]
    /\ pc[m] \in {"delete", "label"} => pods[clone[m]].phase = "ready"
ServiceInv ==
    Undisturbed /\ Gentle => (\A m \in Moves : CloneRuns(m)) /\ (\A r \in Parents : Staffed(r))

\* What a replica set makes of its template.
Scaled(r) == [phase |-> "pending", rs |-> r, owned |-> TRUE, gc |-> FALSE,
              dummy |-> sched[r] = "dummy", placed |-> FALSE, old |-> FALSE]

\* What a step may do to a pod.
Made(p) == Fresh(p) /\ \/ \E m \in Moves : pods'[p] = Clone(m)
                       \/ \E r \in Parents : pods'[p] = Scaled(r)
Started(p) ==
    /\ pods[p].phase = "pending" /\ (pods[p].placed \/ ~pods[p].dummy)
    /\ pods'[p] = [pods[p] EXCEPT !.phase = "ready"]
Adopted(p) ==
    \E m \in Moves : /\ pc[m] = "label" /\ p = clone[m] /\ Live(p)
                     /\ moved'[m] \/ failures' # 0
                     /\ pods'[p] = [pods[p] EXCEPT !.owned = TRUE, !.gc = FALSE, !.old = FALSE]
Removed(p) ==
    /\ pods'[p] = NonePod
    /\ \/ \E m \in Moves : DeleteOriginal(m) /\ p = orig[m]
       \/ \E m \in Moves : pc[m] = "uncreate" /\ p = clone[m] /\ ~moved[m]
       \/ pods[p].phase = "pending"
       \/ IsLeakedPod(p)
       \/ \E r \in Parents : p \in Owned(r) /\ ScaleDown(r)
       \/ Evict(p)
Fate(p) ==
    \/ pods'[p] = pods[p] \/ pods'[p] = [pods[p] EXCEPT !.old = TRUE]
    \/ Made(p) \/ Started(p) \/ Adopted(p) \/ Removed(p)

\* The fate of a pod in a step of a move.
LEMMA MoveFate ==
  ASSUME TypeOK, NEW m \in Moves, Start(m) \/ Step(m), NEW p \in PodIds
  PROVE  Fate(p)
<1>a. pods \in [PodIds -> PodRecords] /\ MaxFailures \in Nat /\ failures \in Nat
  <2>1. pods \in [PodIds -> PodRecords] /\ failures \in 0..MaxFailures
    BY Zenon DEF TypeOK
  <2> QED
    BY <2>1, MoveAssumption
<1>b. ASSUME NEW q, NEW rec, pods' = [pods EXCEPT ![q] = rec]
      PROVE  pods'[p] = IF q = p THEN rec ELSE pods[p]
  BY <1>a, <1>b, Zenon
<1>1. CASE pods' = pods
  BY <1>1, Zenon DEF Fate
<1>2. CASE CreateClonePod(m) \/ CreateFails(m)
  <2>1. pods' = pods \/ \E q \in PodIds : Fresh(q) /\ pods' = [pods EXCEPT ![q] = Clone(m)]
    BY <1>2, Zenon DEF CreateClonePod, CreateFails
  <2> QED
    BY <2>1, <1>b DEF Fate, Made
<1>3. CASE DeleteOriginal(m)
  <2>1. pods' = pods \/ pods' = [pods EXCEPT ![orig[m]] = NonePod]
    BY <1>3, Zenon DEF DeleteOriginal, Delete
  <2>2. pods'[p] = pods[p] \/ (p = orig[m] /\ pods'[p] = NonePod)
    BY <2>1, <1>a, Zenon
  <2> QED
    BY <1>3, <2>2, Zenon DEF Fate, Removed
<1>4. CASE UpdateLabels(m)
  <2> DEFINE rec == [pods[clone[m]] EXCEPT !.owned = TRUE, !.gc = FALSE, !.old = FALSE]
  <2>1. /\ pc[m] = "label"
        /\ \/ pods' = pods
           \/ /\ Live(clone[m]) /\ pods' = [pods EXCEPT ![clone[m]] = rec]
              /\ moved' = [moved EXCEPT ![m] = TRUE] \/ Fail
    BY <1>4, Zenon DEF UpdateLabels, Goto
  <2>2. moved' = [moved EXCEPT ![m] = TRUE] \/ Fail => moved'[m] \/ failures' # 0
    BY <1>a DEF TypeOK, Fail
  <2>3. CASE pods' = [pods EXCEPT ![clone[m]] = rec] /\ p = clone[m]
    <3>1. pods'[p] = [pods[p] EXCEPT !.owned = TRUE, !.gc = FALSE, !.old = FALSE] \/ pods'[p] = pods[p]
      BY <2>3, <1>a, Zenon
    <3> QED
      BY <2>1, <2>2, <2>3, <3>1, Zenon DEF Fate, Adopted
  <2>4. CASE pods' = [pods EXCEPT ![clone[m]] = rec] /\ p # clone[m]
    BY <2>4, <1>a, Zenon DEF Fate
  <2> QED
    BY <2>1, <2>3, <2>4, Zenon DEF Fate
<1>5. CASE DeleteClone(m)
  <2>1. /\ pc[m] = "uncreate"
        /\ pods' = pods \/ (~moved[m] /\ pods' = [pods EXCEPT ![clone[m]] = NonePod])
    BY <1>5, Zenon DEF DeleteClone, Goto, Delete
  <2>2. pods'[p] = pods[p] \/ (p = clone[m] /\ ~moved[m] /\ pods'[p] = NonePod)
    BY <2>1, <1>a, Zenon
  <2> QED
    BY <2>1, <2>2, Zenon DEF Fate, Removed
<1>6. CASE DeleteInvalidPendingPods(m)
  <2>1. PICK S \in SUBSET InvalidPending(m) : pods' = [q \in PodIds |-> IF q \in S THEN NonePod ELSE pods[q]]
    BY <1>6, Zenon DEF DeleteInvalidPendingPods
  <2> QED
    BY <2>1, Zenon DEF Fate, Removed, InvalidPending
<1> QED
  BY <1>1, <1>2, <1>3, <1>4, <1>5, <1>6, Zenon
  DEF Step, Start, Pause, ParentsPods, ChangeSchedulerInvalid, CloneReady, CloneTimeout,
      ChangeSchedulerValid, Unpause, clusterVars

\* The fate of a pod in any step.
LEMMA PodFate == ASSUME TypeOK, [Next]_vars, NEW p \in PodIds PROVE Fate(p)
<1>a. pods \in [PodIds -> PodRecords]
  BY Zenon DEF TypeOK
<1>b. ASSUME NEW q, NEW rec, pods' = [pods EXCEPT ![q] = rec]
      PROVE  pods'[p] = IF q = p THEN rec ELSE pods[p]
  BY <1>a, <1>b, Zenon
<1>1. ASSUME NEW m \in Moves, Start(m) \/ Step(m) PROVE Fate(p)
  BY <1>1, MoveFate, Zenon
<1>2. CASE Crash \/ RevertSchedulersEnd \/ UnpauseRollouts \/ (\E r \in Parents : RevertScheduler(r)) \/ UNCHANGED vars
  <2>1. pods' = pods
    BY <1>2, Zenon DEF Crash, RevertSchedulersEnd, UnpauseRollouts, RevertScheduler, clusterVars, vars
  <2> QED
    BY <2>1, Zenon DEF Fate
<1>3. ASSUME NEW q \in PodIds, CleanupLeakedPod(q) PROVE Fate(p)
  BY <1>3, <1>b DEF CleanupLeakedPod, Delete, Fate, Removed
<1>4. ASSUME NEW q \in PodIds, Age(q) PROVE Fate(p)
  BY <1>4, <1>a, Zenon DEF Age, Fate
<1>5. ASSUME NEW q \in PodIds, Ready(q) PROVE Fate(p)
  BY <1>5, <1>a, Zenon DEF Ready, Fate, Started
<1>6. ASSUME NEW q \in PodIds, Evict(q) PROVE Fate(p)
  <2>1. CASE q = p
    BY <2>1, <1>6, <1>b DEF Evict, Delete, Fate, Removed
  <2>2. CASE q # p
    BY <2>2, <1>6, <1>b, Zenon DEF Evict, Delete, Fate
  <2> QED
    BY <2>1, <2>2, Zenon
<1>7. ASSUME NEW r \in Parents, ScaleUp(r) PROVE Fate(p)
  <2>1. PICK q \in PodIds : Fresh(q) /\ pods' = [pods EXCEPT ![q] = Scaled(r)]
    BY <1>7, Zenon DEF ScaleUp, Scaled
  <2> QED
    BY <2>1, <1>b, Zenon DEF Fate, Made
<1>8. ASSUME NEW r \in Parents, ScaleDown(r) PROVE Fate(p)
  <2>1. PICK q \in Owned(r) : pods' = [pods EXCEPT ![q] = NonePod]
    BY <1>8, Zenon DEF ScaleDown, Delete
  <2> QED
    BY <2>1, <1>8, <1>b DEF Fate, Removed
<1> QED
  BY <1>1, <1>2, <1>3, <1>4, <1>5, <1>6, <1>7, <1>8, Zenon DEF Next, Cluster

\* What a step may do to a clone's name, and to the flag of its move.
Named(m) ==
    \/ clone'[m] = clone[m] /\ moved'[m] \in {moved[m], TRUE}
    \/ clone'[m] = NoPod
    \/ /\ pc[m] = "create" /\ clone'[m] \in PodIds /\ Fresh(clone'[m]) /\ pods'[clone'[m]] = Clone(m)
       /\ moved'[m] = moved[m] /\ \A n \in Moves : n # m => clone'[n] = clone[n]

\* Only createClonePod gives a move a clone.
LEMMA CloneName == ASSUME TypeOK, [Next]_vars, NEW m \in Moves PROVE Named(m)
<1>a. /\ clone \in [Moves -> PodIds \cup {NoPod}] /\ moved \in [Moves -> BOOLEAN]
      /\ pods \in [PodIds -> PodRecords]
  BY Zenon DEF TypeOK
<1>1. CASE clone' = clone /\ moved' = moved
  BY <1>1, Zenon DEF Named
<1>2. ASSUME NEW k \in Moves, CreateClonePod(k) PROVE Named(m)
  <2>1. PICK p \in PodIds : Fresh(p) /\ pods' = [pods EXCEPT ![p] = Clone(k)] /\ clone' = [clone EXCEPT ![k] = p]
    BY <1>2, Zenon DEF CreateClonePod
  <2>2. pc[k] = "create" /\ moved' = moved
    BY <1>2, Zenon DEF CreateClonePod, Goto
  <2>3. CASE k = m
    BY <2>1, <2>2, <2>3, <1>a, Zenon DEF Named
  <2>4. CASE k # m
    BY <2>1, <2>2, <2>4, <1>a, Zenon DEF Named
  <2> QED
    BY <2>3, <2>4, Zenon
<1>3. ASSUME NEW k \in Moves, UpdateLabels(k) PROVE Named(m)
  <2>1. clone' = clone /\ (moved' = moved \/ moved' = [moved EXCEPT ![k] = TRUE])
    BY <1>3, Zenon DEF UpdateLabels
  <2> QED
    BY <2>1, <1>a, Zenon DEF Named
<1>4. ASSUME NEW k \in Moves, DeleteInvalidPendingPods(k) PROVE Named(m)
  BY <1>4, <1>a, Zenon DEF DeleteInvalidPendingPods, Named
<1>5. CASE Crash
  BY <1>5, Zenon DEF Crash, Named
<1>6. ASSUME NEW k \in Moves,
             \/ Start(k) \/ CreateFails(k) \/ Pause(k) \/ ParentsPods(k) \/ ChangeSchedulerInvalid(k)
             \/ CloneReady(k) \/ CloneTimeout(k) \/ DeleteOriginal(k) \/ ChangeSchedulerValid(k)
             \/ Unpause(k) \/ DeleteClone(k)
      PROVE  Named(m)
  BY <1>1, <1>6, Zenon DEF Start, CreateFails, Pause, ParentsPods, ChangeSchedulerInvalid, CloneReady, CloneTimeout,
     DeleteOriginal, ChangeSchedulerValid, Unpause, DeleteClone, moveVars
<1>7. CASE \/ RevertSchedulersEnd \/ UnpauseRollouts \/ (\E r \in Parents : RevertScheduler(r))
           \/ Elsewhere
  BY <1>1, <1>7, ElsewhereStep, Zenon DEF RevertSchedulersEnd, UnpauseRollouts, RevertScheduler, moveVars
<1> QED
  BY <1>2, <1>3, <1>4, <1>5, <1>6, <1>7, Zenon DEF Next, Step, Elsewhere

\* The counters of failures, crashes and evictions never go down.
LEMMA CountersGrow ==
  ASSUME TypeOK, [Next]_vars
  PROVE  /\ failures' >= failures /\ restoreFailures' >= restoreFailures
         /\ crashes' >= crashes /\ evictions' >= evictions
<1>a. failures \in Int /\ restoreFailures \in Int /\ crashes \in Int /\ evictions \in Int
  BY DEF TypeOK
<1>1. ASSUME NEW m \in Moves, Start(m) \/ Step(m) PROVE UNCHANGED counters \/ Fail \/ RestoreFail
  BY <1>1, Zenon DEF Start, Step, CreateClonePod, CreateFails, Pause, ParentsPods, ChangeSchedulerInvalid, CloneReady,
     CloneTimeout, DeleteOriginal, UpdateLabels, ChangeSchedulerValid, Unpause, DeleteClone,
     DeleteInvalidPendingPods
<1>2. CASE RevertSchedulersEnd \/ UnpauseRollouts \/ (\E r \in Parents : RevertScheduler(r)) \/ UNCHANGED vars
           \/ \E p \in PodIds : CleanupLeakedPod(p)
  <2>1. UNCHANGED counters \/ RestoreFail
    BY <1>2, Zenon DEF RevertSchedulersEnd, UnpauseRollouts, RevertScheduler, vars, CleanupLeakedPod
  <2> QED
    BY <1>a, <2>1 DEF counters, RestoreFail
<1>3. CASE Crash \/ Cluster
  BY <1>a, <1>3 DEF Crash, Cluster, Age, Ready, Evict, ScaleUp, ScaleDown, counters
<1> QED
  BY <1>a, <1>1, <1>2, <1>3 DEF Next, counters, Fail, RestoreFail

\* Every step keeps pods in service clean and spare clones apart.
LEMMA GarbageStep ==
  ASSUME HasGrandParent, TypeOK, GarbageInv, [Next]_vars
  PROVE  GarbageInv'
<1>a. pods \in [PodIds -> PodRecords] /\ pods' \in [PodIds -> PodRecords]
  BY TypeStep, Zenon DEF TypeOK
<1>1. ASSUME NEW p \in PodIds PROVE Clean(p)'
  <2>1. Clean(p) /\ Fate(p)
    BY PodFate, Zenon DEF GarbageInv
  <2>2. CASE Made(p)
    <3>1. ASSUME NEW m \in Moves PROVE ~Clone(m).owned /\ ~Clone(m).dummy
      BY Zenon DEF Clone
    <3>2. ASSUME NEW r \in Parents
          PROVE  ~Scaled(r).gc /\ ~Scaled(r).placed /\ Scaled(r).phase = "pending"
      BY Zenon DEF Scaled
    <3> QED
      BY <2>2, <3>1, <3>2, Zenon DEF Made, Clean
  <2>3. CASE Removed(p)
    BY <2>3 DEF Removed, Clean, NonePod
  <2>4. CASE Adopted(p)
    BY <2>1, <2>4, <1>a DEF Adopted, Clean, PodRecords
  <2>5. CASE Started(p)
    BY <2>1, <2>5, <1>a, Zenon DEF Started, Clean, PodRecords
  <2> QED
    BY <2>1, <2>2, <2>3, <2>4, <2>5, <1>a, Zenon DEF Fate, Clean, PodRecords
<1>2. ASSUME NEW m \in Moves PROVE Spare(m)'
  <2>1. Spare(m) /\ Named(m)
    BY CloneName, Zenon DEF GarbageInv
  <2>2. ASSUME clone'[m] \in PodIds, NEW n \in Moves, n # m PROVE clone'[n] # clone'[m]
    <3>1. Named(n)
      BY CloneName, Zenon
    <3>2. CASE clone'[m] = clone[m]
      BY <2>1, <2>2, <3>1, <3>2, MoveAssumption, Zenon DEF Named, Spare, Fresh, Free
    <3>3. CASE clone'[m] # clone[m]
      BY <2>1, <2>2, <3>3, MoveAssumption, Zenon DEF Named, Fresh, Free
    <3> QED
      BY <3>2, <3>3, Zenon
  <2>3. ASSUME clone'[m] \in PodIds, failures' = 0, ~moved'[m] PROVE ~pods'[clone'[m]].owned
    <3>1. failures = 0
      BY <2>3, CountersGrow DEF TypeOK
    <3>2. CASE clone'[m] = clone[m]
      <4> DEFINE p == clone[m]
      <4>a. p \in PodIds
        BY <2>3, <3>2, Zenon
      <4>b. ~moved[m]
        <5>1. moved'[m] \in {moved[m], TRUE}
          BY <2>1, <3>2, <4>a, MoveAssumption, Zenon DEF Named, Fresh, Free
        <5> QED
          BY <2>3, <5>1, Zenon
      <4>1. ~pods[p].owned /\ Fate(p)
        BY <2>1, <3>1, <4>a, <4>b, PodFate, Zenon DEF Spare
      <4>2. ~Made(p)
        BY Zenon DEF Made, Fresh, Free
      <4>3. ~Adopted(p)
        BY <2>1, <2>3, <4>a, <3>2, Zenon DEF Adopted, Spare
      <4> QED
        BY <3>2, <4>a, <4>1, <4>2, <4>3, <1>a DEF Fate, Removed, Started, NonePod, PodRecords
    <3>3. CASE clone'[m] # clone[m]
      <4>1. pods'[clone'[m]] = Clone(m)
        BY <2>1, <2>3, <3>3, MoveAssumption, Zenon DEF Named
      <4>2. ~Clone(m).owned
        BY Zenon DEF Clone
      <4> QED
        BY <4>1, <4>2, Zenon
    <3> QED
      BY <3>2, <3>3, Zenon
  <2> QED
    BY <2>2, <2>3, Zenon DEF Spare
<1> QED
  BY <1>1, <1>2, Zenon DEF GarbageInv

\* No pod is labelled or waits for the dummy scheduler at first.
LEMMA GarbageInit == Init => GarbageInv
<1> SUFFICES ASSUME Init PROVE GarbageInv
  BY Zenon
<1>1. ASSUME NEW p \in PodIds PROVE Clean(p)
  <2>1. pods[p] = NonePod \/ \E r \in Parents : pods[p] = RunningPod(r)
    BY Zenon DEF Init
  <2>2. ~NonePod.owned /\ ~NonePod.dummy
    BY Zenon DEF NonePod
  <2>3. \A r \in Parents : ~RunningPod(r).gc /\ ~RunningPod(r).dummy
    BY Zenon DEF NonePod, RunningPod
  <2> QED
    BY <2>1, <2>2, <2>3, Zenon DEF Clean
<1>2. ASSUME NEW m \in Moves PROVE Spare(m)
  BY MoveAssumption, Zenon DEF Init, Spare
<1> QED
  BY <1>1, <1>2, Zenon DEF GarbageInv

\* In every reachable state of a deployment's moves the garbage collector has
\* nothing against a pod in service.
THEOREM ServiceIsNoGarbage ==
  ASSUME HasGrandParent
  PROVE  Spec => []GarbageInv
<1>1. TypeOK /\ GarbageInv /\ [Next]_vars => GarbageInv'
  BY GarbageStep, Zenon
<1> QED
  BY <1>1, GarbageInit, TypeCorrect, PTL DEF Spec

\* A running pod of a deployment is deleted by movePod, its deferred calls and
\* the garbage collector only as the original of a move that is at that step, as
\* long as no forward call has failed; for any number of moves, parents, failed
\* restores and crashes.
THEOREM OnlyOriginalsAreDeleted ==
  ASSUME HasGrandParent
  PROVE  Spec => DeletesOnlyOriginals
<1>1. ASSUME TypeOK, GarbageInv, [Next]_vars PROVE [DeletesOnlyOriginal]_vars
  <2> SUFFICES ASSUME NEW p \in PodIds, failures = 0, pods[p].phase = "ready", pods[p].owned,
                      pods'[p].phase = "none"
               PROVE  Cluster \/ \E m \in Moves : p = orig[m] /\ pc[m] = "delete"
    BY Zenon DEF DeletesOnlyOriginal
  <2>1. pods[p] \in PodRecords
    BY <1>1, Zenon DEF TypeOK
  <2>2. Removed(p)
    <3>1. Fate(p)
      BY <1>1, PodFate, Zenon
    <3>2. ~Made(p)
      BY Zenon DEF Made, Fresh, Free, Live
    <3>3. pods'[p] # pods[p]
      BY Zenon
    <3>4. pods'[p] # [pods[p] EXCEPT !.old = TRUE]
      BY <2>1, Zenon DEF PodRecords
    <3>5. ~Started(p)
      BY <2>1, Zenon DEF Started, PodRecords
    <3>6. ~Adopted(p)
      <4>1. Adopted(p) => pods'[p] = [pods[p] EXCEPT !.owned = TRUE, !.gc = FALSE, !.old = FALSE]
        BY Zenon DEF Adopted
      <4>2. [pods[p] EXCEPT !.owned = TRUE, !.gc = FALSE, !.old = FALSE].phase = pods[p].phase
        BY <2>1, Zenon DEF PodRecords
      <4> QED
        BY <4>1, <4>2, Zenon
    <3> QED
      BY <3>1, <3>2, <3>3, <3>4, <3>5, <3>6, Zenon DEF Fate
  <2>3. ~IsLeakedPod(p)
    BY <1>1, Zenon DEF GarbageInv, Clean, IsLeakedPod
  <2>4. \A m \in Moves : p = clone[m] => moved[m]
    BY <1>1, Zenon DEF GarbageInv, Spare
  <2>5. \A m \in Moves : DeleteOriginal(m) => pc[m] = "delete"
    BY Zenon DEF DeleteOriginal, Goto
  <2> QED
    BY <2>2, <2>3, <2>4, <2>5, Zenon DEF Removed, Cluster
<1>2. TypeOK /\ GarbageInv /\ [Next]_vars => [DeletesOnlyOriginal]_vars
  BY <1>1, Zenon
<1> QED
  BY <1>2, ServiceIsNoGarbage, TypeCorrect, PTL DEF Spec, DeletesOnlyOriginals

-----------------------------------------------------------------------------
(* Moves keep the replicas of a parent in service.                         *)

\* A pod keeps its replica set, and goes on running and being owned.
Kept(p) ==
    /\ pods'[p].rs = pods[p].rs
    /\ pods'[p].phase = pods[p].phase \/ (pods[p].phase = "pending" /\ pods'[p].phase = "ready")
    /\ pods[p].owned => pods'[p].owned

\* So does a pod that a step neither makes nor removes.
LEMMA PodKept ==
  ASSUME TypeOK, [Next]_vars, NEW p \in PodIds, ~Made(p), ~Removed(p)
  PROVE  Kept(p)
<1>a. pods[p] \in PodRecords
  BY Zenon DEF TypeOK
<1>1. Fate(p)
  BY PodFate, Zenon
<1>2. CASE pods'[p] = pods[p]
  BY <1>2, Zenon DEF Kept
<1>3. CASE pods'[p] = [pods[p] EXCEPT !.old = TRUE]
  BY <1>a, <1>3, Zenon DEF Kept, PodRecords
<1>4. CASE Started(p)
  BY <1>a, <1>4, Zenon DEF Started, Kept, PodRecords
<1>5. CASE Adopted(p)
  <2>1. pods'[p] = [pods[p] EXCEPT !.owned = TRUE, !.gc = FALSE, !.old = FALSE]
    BY <1>5, Zenon DEF Adopted
  <2> QED
    BY <1>a, <2>1, Zenon DEF Kept, PodRecords
<1> QED
  BY <1>1, <1>2, <1>3, <1>4, <1>5, Zenon DEF Fate

\* What a step may do to the place of a move.
Turn(m) ==
    \/ pc'[m] = pc[m]
    \/ Start(m) \/ CreateClonePod(m) \/ CloneReady(m) \/ DeleteOriginal(m) \/ UpdateLabels(m) \/ Crash
    \/ /\ InFlight(m) /\ pc[m] # "label" /\ pc'[m] \notin {"new", "create", "label"}
       /\ pc'[m] = "delete" => Volume[m]
       /\ pc'[m] \in CloneSteps => pc[m] \in CloneSteps

\* A move goes on by its own steps.
LEMMA MoveTurn == ASSUME TypeOK, [Next]_vars, NEW m \in Moves PROVE Turn(m)
<1>a. pc \in [Moves -> PCs]
  BY Zenon DEF TypeOK
<1>1. ASSUME NEW k \in Moves, Start(k) \/ Step(k), k # m PROVE Turn(m)
  <2>1. \E from, to : Goto(k, from, to)
    BY <1>1, Zenon DEF Start, Step, CreateClonePod, CreateFails, Pause, ParentsPods, ChangeSchedulerInvalid, CloneReady,
       CloneTimeout, DeleteOriginal, UpdateLabels, ChangeSchedulerValid, Unpause, DeleteClone,
       DeleteInvalidPendingPods
  <2> QED
    BY <1>a, <1>1, <2>1, Zenon DEF Goto, Turn
<1>2. CASE Step(m)
  <2>a. ASSUME NEW from, NEW to, Goto(m, from, to) PROVE pc[m] = from /\ pc'[m] = to
    BY <1>a, <2>a, Zenon DEF Goto
  <2> USE DEF InFlight, Idle, CloneSteps
  <2>1. CASE CreateClonePod(m) \/ CloneReady(m) \/ DeleteOriginal(m) \/ UpdateLabels(m)
    BY <2>1, Zenon DEF Turn
  <2>2. CASE CreateFails(m)
    BY <2>2, <2>a DEF CreateFails, Turn
  <2>3. CASE Pause(m)
    BY <2>3, <2>a DEF Pause, Turn
  <2>4. CASE ParentsPods(m)
    BY <2>4, <2>a DEF ParentsPods, UndoClone, Turn
  <2>5. CASE ChangeSchedulerInvalid(m)
    BY <2>5, <2>a DEF ChangeSchedulerInvalid, Turn
  <2>6. CASE CloneTimeout(m)
    BY <2>6, <2>a DEF CloneTimeout, Turn
  <2>7. CASE ChangeSchedulerValid(m)
    BY <2>7, <2>a DEF ChangeSchedulerValid, UndoClone, Turn
  <2>8. CASE Unpause(m)
    BY <2>8, <2>a DEF Unpause, Turn
  <2>9. CASE DeleteClone(m)
    BY <2>9, <2>a DEF DeleteClone, Turn
  <2>10. CASE DeleteInvalidPendingPods(m)
    BY <2>10, <2>a DEF DeleteInvalidPendingPods, Turn
  <2> QED
    BY <1>2, <2>1, <2>2, <2>3, <2>4, <2>5, <2>6, <2>7, <2>8, <2>9, <2>10, Zenon DEF Step
<1>3. CASE Start(m) \/ Crash
  BY <1>3, Zenon DEF Turn
<1>4. CASE RevertSchedulersEnd \/ UnpauseRollouts \/ (\E r \in Parents : RevertScheduler(r)) \/ Elsewhere
  BY <1>4, ElsewhereStep, Zenon DEF RevertSchedulersEnd, UnpauseRollouts, RevertScheduler, Turn
<1> QED
  BY <1>1, <1>2, <1>3, <1>4, Zenon DEF Next, Elsewhere

\* A move is started at most once, and when no other move of the parent is in flight.
LEMMA SerialStep == ASSUME TypeOK, Serial, [Next]_vars PROVE Serial'
<1>a. pc \in [Moves -> PCs]
  BY Zenon DEF TypeOK
<1> USE DEF InFlight, Idle
<1>1. ASSUME NEW m \in Moves, ~InFlight(m), InFlight(m)' PROVE Start(m)
  <2>1. Turn(m)
    BY MoveTurn, Zenon
  <2> QED
    BY <1>a, <1>1, <2>1, Zenon DEF Turn, CreateClonePod, CloneReady, DeleteOriginal, UpdateLabels, Crash, Goto
<1>2. ASSUME NEW m \in Moves, Start(m) PROVE Serial'
  <2>1. /\ \A n \in Moves : n # m => pc'[n] = pc[n]
        /\ \A n \in Moves : InFlight(n) => ParentOf[n] # ParentOf[m]
    BY <1>a, <1>2, Zenon DEF Start, Goto
  <2> QED
    BY <2>1 DEF Serial
<1>3. CASE \A m \in Moves : ~Start(m)
  <2>1. \A m \in Moves : InFlight(m)' => InFlight(m)
    BY <1>1, <1>3, Zenon
  <2> HIDE DEF InFlight
  <2> QED
    BY <2>1, Zenon DEF Serial
<1> QED
  BY <1>2, <1>3, Zenon

\* An original is chosen among the parent's pods, and its name is not used again.
LEMMA OrigStep == ASSUME TypeOK, OrigInv, [Next]_vars PROVE OrigInv'
<1>a. /\ orig \in [Moves -> PodIds \cup {NoPod}]
      /\ pods \in [PodIds -> PodRecords] /\ pods' \in [PodIds -> PodRecords]
  BY TypeStep, Zenon DEF TypeOK
<1> SUFFICES ASSUME NEW m \in Moves, orig'[m] \in PodIds, pods'[orig'[m]].phase # "none"
             PROVE  pods'[orig'[m]].rs = ParentOf[m]
  BY Zenon DEF OrigInv, Live
<1>1. orig'[m] = orig[m] \/ (pods' = pods /\ orig'[m] \in Owned(ParentOf[m]))
  <2>1. CASE orig' = orig
    BY <2>1, Zenon
  <2>2. ASSUME NEW k \in Moves, Start(k) PROVE orig'[m] = orig[m] \/ (pods' = pods /\ orig'[m] \in Owned(ParentOf[m]))
    <3>1. PICK p \in Owned(ParentOf[k]) : orig' = [orig EXCEPT ![k] = p]
      BY <2>2, Zenon DEF Start
    <3>2. pods' = pods
      BY <2>2, Zenon DEF Start, clusterVars
    <3> QED
      BY <3>1, <3>2, <1>a, Zenon
  <2>3. ASSUME NEW k \in Moves, CreateFails(k) \/ DeleteInvalidPendingPods(k) PROVE orig'[m] = orig[m]
    <3>1. orig' = [orig EXCEPT ![k] = NoPod]
      BY <2>3, Zenon DEF CreateFails, DeleteInvalidPendingPods
    <3> QED
      BY <3>1, <1>a, MoveAssumption, Zenon
  <2>4. CASE Crash
    BY <2>4, MoveAssumption, Zenon DEF Crash
  <2>5. ASSUME NEW k \in Moves,
               \/ CreateClonePod(k) \/ Pause(k) \/ ParentsPods(k) \/ ChangeSchedulerInvalid(k)
               \/ CloneReady(k) \/ CloneTimeout(k) \/ DeleteOriginal(k) \/ UpdateLabels(k)
               \/ ChangeSchedulerValid(k) \/ Unpause(k) \/ DeleteClone(k)
        PROVE  orig' = orig
    BY <2>5, Zenon DEF CreateClonePod, Pause, ParentsPods, ChangeSchedulerInvalid, CloneReady, CloneTimeout,
       DeleteOriginal, UpdateLabels, ChangeSchedulerValid, Unpause, DeleteClone, moveVars
  <2>6. CASE RevertSchedulersEnd \/ UnpauseRollouts \/ (\E r \in Parents : RevertScheduler(r)) \/ Elsewhere
    BY <2>1, <2>6, ElsewhereStep, Zenon DEF RevertSchedulersEnd, UnpauseRollouts, RevertScheduler, moveVars
  <2> QED
    BY <2>1, <2>2, <2>3, <2>4, <2>5, <2>6, Zenon DEF Next, Step, Elsewhere
<1>2. CASE pods' = pods /\ orig'[m] \in Owned(ParentOf[m])
  BY <1>2, Zenon DEF Owned
<1>3. CASE orig'[m] = orig[m]
  <2>1. Fate(orig[m]) /\ ~Made(orig[m])
    BY <1>3, PodFate, Zenon DEF Made, Fresh, Free
  <2>2. ~Removed(orig[m])
    BY <1>3 DEF Removed, NonePod
  <2>3. Kept(orig[m])
    BY <1>3, <2>1, <2>2, PodKept, Zenon
  <2>4. pods'[orig[m]].rs = pods[orig[m]].rs /\ Live(orig[m])
    BY <1>3, <2>3, Zenon DEF Kept, Live
  <2> QED
    BY <1>3, <2>4, Zenon DEF OrigInv
<1> QED
  BY <1>1, <1>2, <1>3, Zenon

\* A step to a state in which nothing has failed.
Smooth == Undisturbed' /\ Gentle'

\* Nothing had failed before either.
LEMMA SmoothBefore == ASSUME TypeOK, [Next]_vars, Smooth PROVE Undisturbed /\ Gentle /\ ~Crash /\ ~Fail
<1>a. /\ failures \in Nat /\ restoreFailures \in Nat /\ crashes \in Nat /\ evictions \in Nat
      /\ pc \in [Moves -> PCs]
  BY DEF TypeOK
<1>1. Undisturbed
  BY <1>a, CountersGrow DEF Smooth, Undisturbed
<1>2. ~Crash /\ ~Fail
  BY <1>a DEF Crash, Fail, Smooth, Undisturbed
<1>3. ASSUME NEW m \in Moves, Volume[m] PROVE pc[m] = "new"
  <2>1. pc'[m] = "new"
    BY <1>3, Zenon DEF Smooth, Gentle
  <2>2. Turn(m)
    BY MoveTurn, Zenon
  <2>3. ASSUME NEW from, NEW to, Goto(m, from, to) PROVE to = "new"
    BY <1>a, <2>1, <2>3, Zenon DEF Goto
  <2> QED
    BY <1>2, <2>1, <2>2, <2>3, Zenon DEF Turn, Start, CreateClonePod, CloneReady, DeleteOriginal, UpdateLabels
<1> QED
  BY <1>1, <1>2, <1>3, Zenon DEF Gentle

\* The clone of a move is one of the parent's pods, and runs when the original goes.
LEMMA CloneRunsStep ==
  ASSUME HasGrandParent, TypeOK, CloneInv, CloneInv', ServiceInv, [Next]_vars, Smooth, NEW m \in Moves
  PROVE  CloneRuns(m)'
<1>a. /\ CloneRuns(m) /\ (~Volume[m] \/ pc'[m] = "new")
      /\ pc \in [Moves -> PCs] /\ pods \in [PodIds -> PodRecords] /\ clone \in [Moves -> PodIds \cup {NoPod}]
  BY SmoothBefore, Zenon DEF ServiceInv, Smooth, Gentle, TypeOK
<1>b. ASSUME NEW from, NEW to, Goto(m, from, to) PROVE pc[m] = from /\ pc'[m] = to
  BY <1>a, <1>b, Zenon DEF Goto
<1> SUFFICES ASSUME pc'[m] \in CloneSteps PROVE CloneRuns(m)'
  BY Zenon DEF CloneRuns, CloneSteps
<1>1. CASE pc[m] \in CloneSteps
  <2>1. CloneSafe(m) /\ CloneSafe(m)'
    BY <1>1, Zenon DEF CloneInv
  <2>2. clone'[m] = clone[m]
    BY <1>1, <2>1, CloneName, MoveAssumption, Zenon DEF Named, CloneSafe, CloneSteps
  <2>3. ~Made(clone[m]) /\ ~Removed(clone[m])
    BY <2>1, <2>2 DEF CloneSafe, Made, Fresh, Free, Removed, NonePod, Live
  <2>4. Kept(clone[m])
    BY <2>1, <2>3, PodKept, Zenon DEF CloneSafe
  <2>5. pc'[m] \in {"delete", "label"} => pc[m] \in {"delete", "label"} \/ pods[clone[m]].phase = "ready"
    <3>1. Turn(m)
      BY MoveTurn, Zenon
    <3> QED
      BY <1>a, <1>b, <1>1, <3>1, SmoothBefore, Zenon
      DEF Turn, Start, CreateClonePod, CloneReady, DeleteOriginal, UpdateLabels, CloneSteps
  <2>6. pods'[clone'[m]].rs = ParentOf[m]
    BY <1>a, <1>1, <2>2, <2>4, Zenon DEF Kept, CloneRuns
  <2>7. pc'[m] \in {"delete", "label"} => pods'[clone'[m]].phase = "ready"
    <3>1. pc'[m] \in {"delete", "label"} => pods[clone[m]].phase = "ready"
      BY <1>a, <2>5, Zenon DEF CloneRuns
    <3> QED
      BY <3>1, <2>2, <2>4, Zenon DEF Kept
  <2> QED
    BY <2>6, <2>7, Zenon DEF CloneRuns
<1>2. CASE pc[m] \notin CloneSteps
  <2>1. CreateClonePod(m)
    <3>1. Turn(m)
      BY MoveTurn, Zenon
    <3> QED
      BY <1>b, <1>2, <3>1, SmoothBefore
      DEF Turn, Start, CloneReady, DeleteOriginal, UpdateLabels, CloneSteps
  <2>2. PICK p \in PodIds : pods' = [pods EXCEPT ![p] = Clone(m)] /\ clone' = [clone EXCEPT ![m] = p]
    BY <2>1, Zenon DEF CreateClonePod
  <2>3. pc'[m] = "pause"
    BY <2>1, <1>b, Zenon DEF CreateClonePod
  <2>4. pods'[clone'[m]] = Clone(m)
    BY <2>2, <1>a, Zenon
  <2>5. Clone(m).rs = ParentOf[m]
    BY Zenon DEF Clone
  <2> QED
    BY <2>3, <2>4, <2>5, Zenon DEF CloneRuns
<1> QED
  BY <1>1, <1>2, Zenon

\* Which step takes a running pod away from its replica set.
LEMMA ServiceKept ==
  ASSUME TypeOK, GarbageInv, [Next]_vars, Smooth, NEW r \in Parents, NEW p \in InService(r)
  PROVE  \/ p \in InService(r)'
         \/ \E m \in Moves : DeleteOriginal(m) /\ p = orig[m]
         \/ ScaleDown(r)
<1>a. p \in PodIds /\ pods[p].phase = "ready" /\ pods[p].rs = r /\ pods[p].owned
  BY Zenon DEF InService
<1>1. CASE Removed(p)
  <2>1. ~IsLeakedPod(p)
    BY <1>a, Zenon DEF GarbageInv, Clean, IsLeakedPod
  <2>2. \A m \in Moves : p = clone[m] => moved[m]
    BY <1>a, SmoothBefore, Zenon DEF GarbageInv, Spare, Undisturbed
  <2>3. \A q \in Parents : p \in Owned(q) => q = r
    BY <1>a, Zenon DEF Owned
  <2>4. ~Evict(p)
    <3>1. evictions \in Nat /\ evictions' = 0
      BY DEF TypeOK, Smooth, Undisturbed
    <3> QED
      BY <3>1 DEF Evict
  <2> QED
    BY <1>a, <1>1, <2>1, <2>2, <2>3, <2>4, Zenon DEF Removed
<1>2. CASE ~Removed(p)
  <2>1. ~Made(p)
    BY <1>a, Zenon DEF Made, Fresh, Free, Live
  <2>2. Kept(p)
    BY <1>a, <1>2, <2>1, PodKept, Zenon
  <2> QED
    BY <1>a, <2>2, Zenon DEF Kept, InService
<1> QED
  BY <1>1, <1>2, Zenon

\* The pods in service are finitely many.
LEMMA ServiceFinite ==
  ASSUME NEW r \in Parents
  PROVE  /\ IsFiniteSet(InService(r)) /\ Cardinality(InService(r)) \in Nat
         /\ IsFiniteSet(InService(r)') /\ Cardinality(InService(r)') \in Nat
<1>1. InService(r) \in SUBSET PodIds /\ InService(r)' \in SUBSET PodIds
  BY Zenon DEF InService
<1>2. IsFiniteSet(InService(r)) /\ IsFiniteSet(InService(r)')
  BY <1>1, FS_Subset, MoveAssumption, Zenon
<1> QED
  BY <1>2, FS_CardinalityType, Zenon

\* A step that keeps all but one pod in service costs at most that one.
LEMMA ServiceLoss ==
  ASSUME NEW r \in Parents, NEW p, InService(r) \ {p} \subseteq InService(r)'
  PROVE  Cardinality(InService(r)') >= Cardinality(InService(r)) - (IF p \in InService(r) THEN 1 ELSE 0)
<1>1. Cardinality(InService(r) \ {p}) = IF p \in InService(r) THEN Cardinality(InService(r)) - 1 ELSE Cardinality(InService(r))
  BY ServiceFinite, FS_RemoveElement, Zenon
<1>2. Cardinality(InService(r) \ {p}) <= Cardinality(InService(r)')
  BY ServiceFinite, FS_Subset, Zenon
<1> QED
  BY <1>1, <1>2, ServiceFinite

\* A step that keeps every pod in service does not lower their number.
LEMMA ServiceGain ==
  ASSUME NEW r \in Parents, InService(r) \subseteq InService(r)'
  PROVE  Cardinality(InService(r)') >= Cardinality(InService(r))
<1>1. Cardinality(InService(r)) <= Cardinality(InService(r)')
  BY ServiceFinite, FS_Subset, Zenon
<1> QED
  BY <1>1, ServiceFinite, Zenon

\* Deleting the original: the clone runs and stands in for it.
LEMMA StaffedDelete ==
  ASSUME TypeOK, CloneInv, GarbageInv, OrigInv, Serial, [Next]_vars, Smooth, NEW r \in Parents, Staffed(r),
         NEW m \in Moves, DeleteOriginal(m)
  PROVE  Staffed(r)'
<1>a. /\ pc \in [Moves -> PCs] /\ pods \in [PodIds -> PodRecords] /\ Desired \in Nat
      /\ pc[m] = "delete" /\ Volume[m] = FALSE
  <2>1. pc \in [Moves -> PCs] /\ pods \in [PodIds -> PodRecords] /\ Desired \in Nat /\ pc[m] = "delete"
    BY MoveAssumption, Zenon DEF TypeOK, DeleteOriginal, Goto
  <2>2. ~Volume[m] /\ Volume[m] \in BOOLEAN
    BY <2>1, SmoothBefore, MoveAssumption, Zenon DEF Gentle
  <2> QED
    BY <2>1, <2>2, Zenon
<1>b. ASSUME NEW n \in Moves, n # m PROVE pc'[n] = pc[n]
  BY <1>a, <1>b, Zenon DEF DeleteOriginal, Goto
<1>1. CASE pods' = pods
  <2>1. InService(r)' = InService(r)
    BY <1>1, Zenon DEF InService
  <2>2. Relieved(r) => Relieved(r)'
    BY <1>a, <1>b, Zenon DEF Relieved
  <2> QED
    BY <1>a, <2>1, <2>2, ServiceFinite DEF Staffed
<1>2. CASE pods' # pods
  <2>1. pc'[m] = "label" /\ Live(orig[m]) /\ pods' = [pods EXCEPT ![orig[m]] = NonePod]
    BY <1>2, <1>a, SmoothBefore, Zenon DEF DeleteOriginal, Goto, Delete
  <2>2. InService(r) \ {orig[m]} \subseteq InService(r)'
    BY <1>a, <2>1, Zenon DEF InService
  <2>3. CASE ParentOf[m] = r
    <3>1. Relieved(r)'
      BY <2>1, <2>3, Zenon DEF Relieved
    <3>2. ~Relieved(r)
      BY <1>a, <2>3, Zenon DEF Relieved, Serial, InFlight, Idle
    <3> QED
      BY <1>a, <2>2, <3>1, <3>2, ServiceLoss, ServiceFinite DEF Staffed
  <2>4. CASE ParentOf[m] # r
    <3>1. orig[m] \notin InService(r)
      BY <2>1, <2>4, Zenon DEF OrigInv, InService
    <3>2. Relieved(r) => Relieved(r)'
      BY <1>a, <1>b, Zenon DEF Relieved
    <3> QED
      BY <1>a, <2>2, <3>1, <3>2, ServiceLoss, ServiceFinite DEF Staffed
  <2> QED
    BY <2>3, <2>4, Zenon
<1> QED
  BY <1>1, <1>2, Zenon

\* Updating the labels: the clone takes the place of the original.
LEMMA StaffedLabel ==
  ASSUME TypeOK, CloneInv, [Next]_vars, Smooth, NEW r \in Parents, Staffed(r),
         NEW m \in Moves, CloneRuns(m), UpdateLabels(m)
  PROVE  Staffed(r)'
<1> DEFINE c == clone[m]
<1>a. /\ pc \in [Moves -> PCs] /\ pods \in [PodIds -> PodRecords] /\ Desired \in Nat
      /\ pc[m] = "label"
  BY MoveAssumption, Zenon DEF TypeOK, UpdateLabels, Goto
<1>b. ASSUME NEW n \in Moves, n # m PROVE pc'[n] = pc[n]
  BY <1>a, <1>b, Zenon DEF UpdateLabels, Goto
<1>c. /\ c \in PodIds /\ pods[c] \in PodRecords /\ Live(c) /\ ~pods[c].owned
      /\ pods[c].rs = ParentOf[m] /\ pods[c].phase = "ready"
  BY <1>a, Zenon DEF CloneInv, CloneSafe, CloneRuns, CloneSteps
<1>1. pods' = [pods EXCEPT ![c] = [pods[c] EXCEPT !.owned = TRUE, !.gc = FALSE, !.old = FALSE]]
  BY <1>c, SmoothBefore, Zenon DEF UpdateLabels
<1>2. pods'[c].owned /\ pods'[c].rs = ParentOf[m] /\ pods'[c].phase = "ready"
  <2>1. pods'[c] = [pods[c] EXCEPT !.owned = TRUE, !.gc = FALSE, !.old = FALSE]
    BY <1>a, <1>c, <1>1, Zenon
  <2> QED
    BY <1>c, <2>1, Zenon DEF PodRecords
<1>3. InService(r) \subseteq InService(r)' /\ c \notin InService(r)
  <2>1. c \notin InService(r)
    BY <1>c, Zenon DEF InService
  <2>2. \A p \in PodIds : p # c => pods'[p] = pods[p]
    BY <1>a, <1>1, Zenon
  <2> QED
    BY <2>1, <2>2, Zenon DEF InService
<1>4. CASE ParentOf[m] = r
  <2>1. c \in InService(r)'
    BY <1>c, <1>2, <1>4, Zenon DEF InService
  <2>2. Cardinality(InService(r) \cup {c}) = Cardinality(InService(r)) + 1
    BY <1>3, ServiceFinite, FS_AddElement, Zenon
  <2>3. InService(r) \cup {c} \in SUBSET InService(r)'
    BY <1>3, <2>1, Zenon
  <2>4. Cardinality(InService(r) \cup {c}) <= Cardinality(InService(r)')
    BY <2>3, ServiceFinite, FS_Subset, Zenon
  <2> QED
    BY <1>a, <2>2, <2>4, ServiceFinite DEF Staffed
<1>5. CASE ParentOf[m] # r
  <2>1. Relieved(r) => Relieved(r)'
    BY <1>a, <1>b, <1>5, Zenon DEF Relieved
  <2> QED
    BY <1>a, <1>3, <2>1, ServiceGain, ServiceFinite DEF Staffed
<1> QED
  BY <1>4, <1>5, Zenon

\* A replica set that has too many pods deletes one that runs only if all do.
LEMMA StaffedScaleDown ==
  ASSUME TypeOK, NEW r \in Parents, Staffed(r), ScaleDown(r)
  PROVE  Staffed(r)'
<1>a. pods \in [PodIds -> PodRecords] /\ Desired \in Nat /\ pc' = pc
  BY MoveAssumption, Zenon DEF TypeOK, ScaleDown
<1>1. PICK p \in Owned(r) : /\ pods[p].phase = "ready" => \A o \in Owned(r) : pods[o].phase = "ready"
                            /\ pods' = [pods EXCEPT ![p] = NonePod]
  BY Zenon DEF ScaleDown, Delete
<1>2. InService(r) \ {p} \subseteq InService(r)'
  BY <1>a, <1>1, Zenon DEF InService
<1>3. CASE pods[p].phase = "ready"
  <2>1. Owned(r) = InService(r)
    BY <1>1, <1>3, Zenon DEF Owned, InService, Live
  <2>2. Cardinality(InService(r)) > Desired
    BY <2>1, Zenon DEF ScaleDown
  <2>3. Cardinality(InService(r)') >= Cardinality(InService(r)) - (IF p \in InService(r) THEN 1 ELSE 0)
    BY <1>2, ServiceLoss, Zenon
  <2>4. Cardinality(InService(r)') >= Desired
    BY <1>a, <2>2, <2>3, ServiceFinite
  <2> QED
    BY <1>a, <2>4, ServiceFinite DEF Staffed
<1>4. CASE pods[p].phase # "ready"
  <2>1. p \notin InService(r)
    BY <1>4, Zenon DEF InService
  <2>2. Relieved(r)' <=> Relieved(r)
    BY <1>a, Zenon DEF Relieved
  <2> QED
    BY <1>a, <1>2, <2>1, <2>2, ServiceLoss, ServiceFinite DEF Staffed
<1> QED
  BY <1>3, <1>4, Zenon

\* As long as nothing has failed, every step leaves each parent its replicas.
LEMMA ServiceStep ==
  ASSUME HasGrandParent, TypeOK, CloneInv, CloneInv', GarbageInv, OrigInv, Serial, ServiceInv, [Next]_vars
  PROVE  ServiceInv'
<1> SUFFICES ASSUME Smooth PROVE (\A m \in Moves : CloneRuns(m)') /\ (\A r \in Parents : Staffed(r)')
  BY Zenon DEF ServiceInv, Smooth
<1>1. (\A m \in Moves : CloneRuns(m)) /\ (\A r \in Parents : Staffed(r)) /\ ~Crash
  BY SmoothBefore, Zenon DEF ServiceInv
<1>2. ASSUME NEW r \in Parents PROVE Staffed(r)'
  <2>1. CASE \E m \in Moves : DeleteOriginal(m)
    BY <1>1, <2>1, StaffedDelete, Zenon
  <2>2. CASE \E m \in Moves : UpdateLabels(m)
    BY <1>1, <2>2, StaffedLabel, Zenon
  <2>3. CASE ScaleDown(r)
    BY <1>1, <2>3, StaffedScaleDown, Zenon
  <2>4. CASE (\A m \in Moves : ~DeleteOriginal(m) /\ ~UpdateLabels(m)) /\ ~ScaleDown(r)
    <3>1. InService(r) \subseteq InService(r)'
      BY <2>4, ServiceKept, Zenon
    <3>2. ASSUME NEW m \in Moves, pc[m] = "label" PROVE pc'[m] = "label"
      <4>1. Turn(m)
        BY MoveTurn, Zenon
      <4> QED
        BY <1>1, <2>4, <3>2, <4>1, Zenon DEF Turn, Start, CreateClonePod, CloneReady, Goto
    <3>3. Relieved(r) => Relieved(r)'
      BY <3>2, Zenon DEF Relieved
    <3>4. Cardinality(InService(r)') >= Cardinality(InService(r))
      BY <3>1, ServiceGain, Zenon
    <3> QED
      BY <1>1, <3>3, <3>4, ServiceFinite, MoveAssumption DEF Staffed
  <2> QED
    BY <2>1, <2>2, <2>3, <2>4, Zenon
<1>3. ASSUME NEW m \in Moves PROVE CloneRuns(m)'
  BY CloneRunsStep, Zenon
<1> QED
  BY <1>2, <1>3, Zenon

\* The inductive invariant behind Availability.
ReplicaInv == TypeOK /\ CloneInv /\ GarbageInv /\ OrigInv /\ Serial /\ ServiceInv

\* At first every parent has its replicas, and no move has a pod.
LEMMA ReplicaInit == Init => ReplicaInv
<1> SUFFICES ASSUME Init PROVE ReplicaInv
  BY Zenon
<1>1. TypeOK
  BY TypeInit, Zenon
<1>2. /\ \A m \in Moves : pc[m] = "new" /\ orig[m] = NoPod
  BY Zenon DEF Init
<1>3. CloneInv /\ OrigInv /\ Serial /\ \A m \in Moves : CloneRuns(m)
  BY <1>2, MoveAssumption, Zenon DEF CloneInv, CloneSteps, OrigInv, Serial, InFlight, Idle, CloneRuns
<1>4. ASSUME NEW r \in Parents PROVE Staffed(r)
  <2>1. \A p \in PodIds : pods[p] = NonePod \/ \E q \in Parents : pods[p] = RunningPod(q)
    BY Zenon DEF Init
  <2>2. NonePod.phase = "none" /\ \A q \in Parents : RunningPod(q).phase = "ready"
    BY Zenon DEF NonePod, RunningPod
  <2>3. InService(r) = Owned(r)
    BY <2>1, <2>2, Zenon DEF InService, Owned, Live
  <2>4. Cardinality(InService(r)) = Desired
    BY <2>3, Zenon DEF Init
  <2> QED
    BY <2>4, MoveAssumption DEF Staffed
<1> QED
  BY <1>1, <1>3, <1>4, GarbageInit, Zenon DEF ReplicaInv, ServiceInv

\* The invariant gives Availability: a clone that stands in for an original runs too.
LEMMA ReplicaServing == ReplicaInv => Availability
<1> SUFFICES ASSUME ReplicaInv, Undisturbed, \A m \in Moves : Volume[m] => pc[m] = "new", NEW r \in Parents
             PROVE  Cardinality(Serving(r)) >= Desired
  BY Zenon DEF Availability
<1>a. /\ Staffed(r) /\ \A m \in Moves : CloneRuns(m)
      /\ IsFiniteSet(Serving(r)) /\ Cardinality(Serving(r)) \in Nat /\ Desired \in Nat
  <2>1. Staffed(r) /\ \A m \in Moves : CloneRuns(m)
    BY Zenon DEF ReplicaInv, ServiceInv, Gentle
  <2>2. Serving(r) \in SUBSET PodIds
    BY Zenon DEF Serving
  <2>3. IsFiniteSet(Serving(r)) /\ Desired \in Nat
    BY <2>2, MoveAssumption, FS_Subset, Zenon
  <2> QED
    BY <2>1, <2>3, FS_CardinalityType, Zenon
<1>1. InService(r) \in SUBSET Serving(r)
  BY Zenon DEF InService, Serving
<1>2. CASE Relieved(r)
  <2>1. PICK m \in Moves : ParentOf[m] = r /\ pc[m] = "label"
    BY <1>2, Zenon DEF Relieved
  <2>2. clone[m] \in Serving(r) /\ clone[m] \notin InService(r)
    BY <1>a, <2>1, Zenon DEF ReplicaInv, CloneInv, CloneSafe, CloneRuns, CloneSteps, Serving, InService
  <2>3. Cardinality(InService(r) \cup {clone[m]}) = Cardinality(InService(r)) + 1
    BY <2>2, ServiceFinite, FS_AddElement, Zenon
  <2>4. InService(r) \cup {clone[m]} \in SUBSET Serving(r)
    BY <1>1, <2>2, Zenon
  <2>5. Cardinality(InService(r) \cup {clone[m]}) <= Cardinality(Serving(r))
    BY <1>a, <2>4, FS_Subset, Zenon
  <2> QED
    BY <1>a, <1>2, <2>3, <2>5, ServiceFinite DEF Staffed
<1>3. CASE ~Relieved(r)
  <2>1. Cardinality(InService(r)) <= Cardinality(Serving(r))
    BY <1>a, <1>1, FS_Subset, Zenon
  <2> QED
    BY <1>a, <1>3, <2>1, ServiceFinite DEF Staffed
<1> QED
  BY <1>2, <1>3, Zenon

\* Moves of a deployment's pods without a volume do not cost the workload a running
\* pod at any time, as long as nothing fails and the readiness probe lets the move
\* give up before the garbage collector's age: the original goes when the clone runs,
\* the replica set deletes a running pod only if it has one too many, and the
\* collector leaves both alone.
THEOREM MovesKeepReplicas ==
  ASSUME HasGrandParent, WaitBound <= PodAge
  PROVE  Spec => []Availability
<1>1. ReplicaInv /\ [Next]_vars => ReplicaInv'
  <2> SUFFICES ASSUME ReplicaInv, [Next]_vars PROVE ReplicaInv'
    BY Zenon
  <2>1. TypeOK' /\ CloneInv' /\ GarbageInv'
    BY TypeStep, CloneStep, GarbageStep, Zenon DEF ReplicaInv
  <2>2. OrigInv' /\ Serial' /\ ServiceInv'
    BY <2>1, OrigStep, SerialStep, ServiceStep, Zenon DEF ReplicaInv
  <2> QED
    BY <2>1, <2>2, Zenon DEF ReplicaInv
<1> QED
  BY <1>1, ReplicaInit, ReplicaServing, PTL DEF Spec
=============================================================================
