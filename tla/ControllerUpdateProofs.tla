------------------------ MODULE ControllerUpdateProofs ------------------------
(***************************************************************************)
(* What holds of ControllerUpdate for any actions, controller, users and   *)
(* failures, and of the scaling of machine sets for any requests and       *)
(* machines.                                                               *)
(***************************************************************************)
EXTENDS ControllerUpdate, MachinePart, FiniteSetTheorems, TLAPS

\* A scaling changes the replicas by a whole number.
LEMMA DiffType == \A a \in Actions : Diff(a) \in Int
  BY ControllerAssumption, SMT DEF Diff

\* buildResizeSpec makes a specification.
LEMMA SpecType ==
  ASSUME NEW item \in ItemSet, NEW k \in ContainerSpecs
  PROVE  BuildResizeSpec(item, k) \in ResizeSpecs
  <1>1. NewAmount(item) \in Amounts
    BY SMT DEF NewAmount, ItemSet, Amounts, Unset
  <1> QED
    BY <1>1, SMT DEF BuildResizeSpec, ResizeSpecs, ItemSet, Amounts, Unset

\* updateResourceAmount leaves a container.
LEMMA ResizeType ==
  ASSUME NEW k \in ContainerSpecs, NEW ss \in Seq(ResizeSpecs)
  PROVE  UpdateResourceAmount(k, ss).container \in ContainerSpecs
  <1> DEFINE Sts == [container : ContainerSpecs, changed : BOOLEAN]
  <1>1. ASSUME NEW st \in Sts, NEW spec \in ResizeSpecs
        PROVE  UpdateOne(st, spec) \in Sts
    <2>1. st.container \in ContainerSpecs /\ st.changed \in BOOLEAN
      BY Zenon
    <2>2. UpdateOne(st, spec).container \in ContainerSpecs
      BY <2>1, Zenon DEF UpdateOne, ContainerSpecs, ResizeSpecs
    <2>3. UpdateOne(st, spec).changed \in BOOLEAN
      BY <2>1, Zenon DEF UpdateOne
    <2> QED
      BY <2>2, <2>3, Zenon DEF UpdateOne
  <1>2. [container |-> k, changed |-> FALSE] \in Sts
    BY Zenon
  <1> HIDE DEF Sts
  <1>3. CASE Len(ss) = 0
    BY <1>3 DEF UpdateResourceAmount
  <1>4. CASE Len(ss) = 1
    <2>1. ss[1] \in ResizeSpecs
      BY <1>4
    <2>2. UpdateOne([container |-> k, changed |-> FALSE], ss[1]) \in Sts
      BY <1>1, <1>2, <2>1, Zenon
    <2> QED
      BY <1>4, <2>2, Zenon DEF UpdateResourceAmount, Sts
  <1>5. CASE Len(ss) \notin {0, 1}
    <2>1. ss[1] \in ResizeSpecs /\ ss[2] \in ResizeSpecs
      <3>1. Len(ss) \in Nat /\ Len(ss) >= 2
        BY <1>5, SMTT(30)
      <3> QED
        BY <3>1
    <2>2. UpdateOne(UpdateOne([container |-> k, changed |-> FALSE], ss[1]), ss[2]) \in Sts
      BY <1>1, <1>2, <2>1, Zenon
    <2> QED
      BY <1>5, <2>2, Zenon DEF UpdateResourceAmount, Sts
  <1> QED
    BY <1>3, <1>4, <1>5, Zenon

\* The fields of an updater, and what an updater is made of.
LEMMA UpdaterType ==
  ASSUME TypeOK, NEW a \in Actions
  PROVE  /\ updater[a] \in Updaters
         /\ updater[a].specs \in [Containers -> Seq(ResizeSpecs)]
         /\ updater[a].read \in Objects
         /\ updater[a].read.replicas \in Int
         /\ updater[a].read.template \in Templates
         /\ updater[a].backup \in Seq(Templates)
         /\ updater[a].tries \in 0..(Attempts - 1)
  BY Zenon DEF TypeOK, Updaters, Objects

\* A new updater has its type.
LEMMA NoUpdaterType == Controller0 \in Objects /\ NoUpdater \in Updaters
  <1>1. Controller0 \in Objects
    BY ControllerAssumption DEF Controller0, Objects, Templates
  <1>2. [c \in Containers |-> <<>>] \in [Containers -> Seq(ResizeSpecs)]
    OBVIOUS
  <1>3. 0 \in 0..(Attempts - 1)
    BY ControllerAssumption
  <1> QED
    BY <1>1, <1>2, <1>3 DEF NoUpdater, Updaters

\* The state of an action keeps its type.
ActionTypeOK == pc \in [Actions -> PCs] /\ lock \in Actions \cup {NoAction} /\ updater \in [Actions -> Updaters]

\* Returning, giving up and retrying keep the types of an action's state.
LEMMA RetryType ==
  ASSUME TypeOK, NEW a \in Actions
  PROVE  /\ Return(a, "failed") => ActionTypeOK'
         /\ Return(a, "succeeded") => ActionTypeOK'
         /\ GiveUp(a) => ActionTypeOK'
         /\ Retry(a) => ActionTypeOK'
  <1>a. ActionTypeOK
    BY Zenon DEF TypeOK, ActionTypeOK
  <1>1. Return(a, "failed") => ActionTypeOK'
    BY <1>a, NoUpdaterType, Zenon DEF ActionTypeOK, Return, PCs
  <1>2. Return(a, "succeeded") => ActionTypeOK'
    BY <1>a, NoUpdaterType, Zenon DEF ActionTypeOK, Return, PCs
  <1>3. GiveUp(a) => ActionTypeOK'
    BY <1>a, <1>1, Zenon DEF ActionTypeOK, GiveUp, Goto, PCs
  <1>4. ASSUME updater[a].tries < Attempts - 1, Goto(a, "get"),
               updater' = [updater EXCEPT ![a].tries = @ + 1]
        PROVE  ActionTypeOK'
    <2>1. updater[a].tries + 1 \in 0..(Attempts - 1)
      BY <1>4, UpdaterType, ControllerAssumption, SMTT(30)
    <2>2. [updater[a] EXCEPT !.tries = @ + 1] \in Updaters
      BY <2>1, UpdaterType, Zenon DEF Updaters
    <2> QED
      BY <1>a, <1>4, <2>2, Zenon DEF ActionTypeOK, Goto, PCs
  <1> QED
    BY <1>1, <1>2, <1>3, <1>4, Zenon DEF Retry

\* Every step keeps the types.
LEMMA TypeStep == TypeOK /\ [Next]_vars => TypeOK'
  <1> SUFFICES ASSUME TypeOK, [Next]_vars PROVE TypeOK'
    BY Zenon
  <1> DEFINE Rest == /\ obj \in Objects
                     /\ fresh \in SUBSET Actions
                     /\ pod \in [Actions -> {"running", "terminating", "gone"}]
                     /\ crashed \in BOOLEAN /\ paused \in Pauses
                     /\ applied \in [Actions -> Nat]
                     /\ expected \in Int
                     /\ clashed \in SUBSET Actions
                     /\ failures \in 0..MaxFailures
                     /\ scales \in 0..MaxWrites /\ edits \in 0..MaxWrites
  <1>a. ActionTypeOK /\ Rest
    BY Zenon DEF TypeOK, ActionTypeOK
  <1>b. ActionTypeOK' /\ Rest' => TypeOK'
    BY Zenon DEF TypeOK, ActionTypeOK
  <1>f. Fail => failures' \in 0..MaxFailures
    BY <1>a, ControllerAssumption DEF Fail
  <1>1. ASSUME NEW a \in Actions, GetLock(a) PROVE TypeOK'
    BY <1>1, <1>a, <1>b, Zenon DEF GetLock, Goto, ActionTypeOK, PCs, controller, history, userVars
  <1>2. ASSUME NEW a \in Actions, Prepare(a) PROVE TypeOK'
    <2>1. Rest'
      BY <1>2, <1>a, <1>f, Zenon DEF Prepare, controller, history, userVars
    <2>2. BuildSpecs(a) \in [Containers -> Seq(ResizeSpecs)]
      <3> SUFFICES ASSUME NEW c \in Containers
                   PROVE  [i \in DOMAIN Items[a][c] |-> BuildResizeSpec(Items[a][c][i], obj.template[c])]
                             \in Seq(ResizeSpecs)
        BY Zenon DEF BuildSpecs
      <3>1. Items[a][c] \in Seq(ItemSet) /\ obj.template[c] \in ContainerSpecs
        BY <1>a, ControllerAssumption DEF Objects, Templates
      <3>2. \A i \in 1..Len(Items[a][c]) : BuildResizeSpec(Items[a][c][i], obj.template[c]) \in ResizeSpecs
        BY <3>1, SpecType
      <3>3. DOMAIN Items[a][c] = 1..Len(Items[a][c]) /\ Len(Items[a][c]) \in Nat
        BY <3>1
      <3> QED
        BY <3>2, <3>3
    <2>3. [updater[a] EXCEPT !.specs = BuildSpecs(a)] \in Updaters
      BY <2>2, UpdaterType, Zenon DEF Updaters
    <2>4. ActionTypeOK'
      <3>1. CASE Return(a, "failed")
        BY <3>1, RetryType, Zenon
      <3>2. CASE Goto(a, "get") /\ updater' = [updater EXCEPT ![a].specs = BuildSpecs(a)]
        BY <3>2, <2>3, <1>a, Zenon DEF ActionTypeOK, Goto, PCs
      <3> QED
        BY <1>2, <3>1, <3>2, Zenon DEF Prepare
    <2> QED
      BY <2>1, <2>4, <1>b, Zenon
  <1>3. ASSUME NEW a \in Actions, Get(a) PROVE TypeOK'
    <2>1. Rest'
      BY <1>3, <1>a, <1>f, Zenon DEF Get, history, userVars
    <2>2. [updater[a] EXCEPT !.read = obj, !.backup = <<obj.template>>] \in Updaters
      <3>1. obj.template \in Templates
        BY <1>a, Zenon DEF Objects
      <3>2. <<obj.template>> \in Seq(Templates)
        BY <3>1
      <3> QED
        BY <3>2, <1>a, UpdaterType, Zenon DEF Updaters
    <2>3. ActionTypeOK'
      <3>1. CASE Retry(a)
        BY <3>1, RetryType, Zenon
      <3>2. CASE Goto(a, "reconcile")
                 /\ updater' = [updater EXCEPT ![a].read = obj, ![a].backup = <<obj.template>>]
        <4>1. updater' = [updater EXCEPT ![a] = [updater[a] EXCEPT !.read = obj, !.backup = <<obj.template>>]]
          BY <3>2, <1>a, Zenon DEF ActionTypeOK
        <4> QED
          BY <3>2, <4>1, <2>2, <1>a DEF ActionTypeOK, Goto, PCs
      <3> QED
        BY <1>3, <3>1, <3>2, Zenon DEF Get
    <2> QED
      BY <2>1, <2>3, <1>b, Zenon
  <1>4. ASSUME NEW a \in Actions, ReconcileReplicas(a) PROVE TypeOK'
    <2>1. Rest'
      BY <1>4, <1>a, Zenon DEF ReconcileReplicas, controller, history, userVars
    <2>2. updater[a].read.replicas + Diff(a) \in Int
      BY UpdaterType, DiffType
    <2>3. [updater[a] EXCEPT !.read.replicas = updater[a].read.replicas + Diff(a)] \in Updaters
      <3>1. [updater[a].read EXCEPT !.replicas = updater[a].read.replicas + Diff(a)] \in Objects
        BY <2>2, UpdaterType, Zenon DEF Objects
      <3> QED
        BY <3>1, UpdaterType, Zenon DEF Updaters
    <2>4. ActionTypeOK'
      <3>1. CASE Retry(a)
        BY <3>1, RetryType, Zenon
      <3>2. CASE /\ Goto(a, IF Kind[a] = "suspend" THEN "suspend" ELSE "write")
                 /\ updater' = [updater EXCEPT ![a].read.replicas = updater[a].read.replicas + Diff(a)]
        BY <3>2, <2>3, <1>a, Zenon DEF ActionTypeOK, Goto, PCs
      <3> QED
        BY <1>4, <3>1, <3>2, Zenon DEF ReconcileReplicas
    <2> QED
      BY <2>1, <2>4, <1>b, Zenon
  <1>5. ASSUME NEW a \in Actions, SuspendPod(a) PROVE TypeOK'
    <2>1. Rest'
      BY <1>5, <1>a, <1>f, Zenon DEF SuspendPod, controller, history, userVars
    <2>2. ActionTypeOK'
      BY <1>5, <1>a, RetryType, Zenon DEF SuspendPod, Goto, ActionTypeOK, PCs
    <2> QED
      BY <2>1, <2>2, <1>b, Zenon
  <1>6. ASSUME NEW a \in Actions, ReconcileTemplate(a) PROVE TypeOK'
    <2>1. Rest'
      BY <1>6, <1>a, Zenon DEF ReconcileTemplate, controller, history, userVars
    <2>2. Resized(a, updater[a].read.template) \in Templates
      BY UpdaterType, ResizeType, Zenon DEF Resized, Templates
    <2>3. [updater[a] EXCEPT !.read.template = Resized(a, updater[a].read.template)] \in Updaters
      <3>1. [updater[a].read EXCEPT !.template = Resized(a, updater[a].read.template)] \in Objects
        BY <2>2, UpdaterType, Zenon DEF Objects
      <3> QED
        BY <3>1, UpdaterType, Zenon DEF Updaters
    <2>4. ActionTypeOK'
      <3>1. CASE Return(a, "succeeded")
        BY <3>1, RetryType, Zenon
      <3>2. CASE Goto(a, "write")
                 /\ updater' = [updater EXCEPT ![a].read.template = Resized(a, updater[a].read.template)]
        BY <3>2, <2>3, <1>a, Zenon DEF ActionTypeOK, Goto, PCs
      <3> QED
        BY <1>6, <3>1, <3>2, Zenon DEF ReconcileTemplate
    <2> QED
      BY <2>1, <2>4, <1>b, Zenon
  <1>7. ASSUME NEW a \in Actions, Update(a) PROVE TypeOK'
    <2>1. ActionTypeOK'
      BY <1>7, <1>a, RetryType, Zenon DEF Update, Goto, ActionTypeOK, PCs
    <2>2. CASE Apply(a)
      <3>1. Rest'
        BY <1>7, <2>2, <1>a, <1>f, UpdaterType, DiffType, SMTT(30) DEF Update, Apply, Store, userVars
      <3> QED
        BY <2>1, <3>1, <1>b, Zenon
    <2>3. CASE UNCHANGED <<controller, applied, expected>>
      <3>1. Rest'
        BY <1>7, <2>3, <1>a, <1>f, Zenon DEF Update, controller, userVars
      <3> QED
        BY <2>1, <3>1, <1>b, Zenon
    <2> QED
      BY <1>7, <2>2, <2>3, Zenon DEF Update
  <1>8. ASSUME NEW a \in Actions, ShouldRollout(a) \/ WaitForReplicas(a) PROVE TypeOK'
    <2>1. Rest'
      BY <1>8, <1>a, <1>f, Zenon DEF ShouldRollout, WaitForReplicas, controller, history, userVars
    <2>2. ActionTypeOK'
      BY <1>8, RetryType, Zenon DEF ShouldRollout, WaitForReplicas
    <2> QED
      BY <2>1, <2>2, <1>b, Zenon
  <1>9. ASSUME NEW a \in Actions, RevertPanics(a) PROVE TypeOK'
    BY <1>9, <1>a, <1>b, Zenon DEF RevertPanics, ActionTypeOK, controller, history, userVars
  <1>10. ASSUME NEW a \in Actions, RevertGet(a) PROVE TypeOK'
    <2> DEFINE back == updater[a].backup[1]
    <2>1. Rest'
      BY <1>10, <1>a, <1>f, Zenon DEF RevertGet, history, userVars
    <2>2. back \in Templates
      <3>1. updater[a].backup \in Seq(Templates) /\ updater[a].backup # <<>>
        BY <1>10, UpdaterType, Zenon DEF RevertGet
      <3> QED
        BY <3>1
    <2>3. [updater[a] EXCEPT !.read = [obj EXCEPT !.template = back]] \in Updaters
      <3>1. [obj EXCEPT !.template = back] \in Objects
        BY <2>2, <1>a, Zenon DEF Objects
      <3> QED
        BY <3>1, UpdaterType, Zenon DEF Updaters
    <2>4. ActionTypeOK'
      <3>1. CASE Return(a, "failed")
        BY <3>1, RetryType, Zenon
      <3>2. CASE /\ Goto(a, "undo")
                 /\ updater' = [updater EXCEPT ![a].read = [obj EXCEPT !.template = back]]
        BY <3>2, <2>3, <1>a, Zenon DEF ActionTypeOK, Goto, PCs
      <3> QED
        BY <1>10, <3>1, <3>2, Zenon DEF RevertGet
    <2> QED
      BY <2>1, <2>4, <1>b, Zenon
  <1>11. ASSUME NEW a \in Actions, RevertUpdate(a) PROVE TypeOK'
    <2>1. Rest'
      BY <1>11, <1>a, <1>f, UpdaterType, Zenon DEF RevertUpdate, Store, controller, userVars
    <2>2. ActionTypeOK'
      BY <1>11, RetryType, Zenon DEF RevertUpdate
    <2> QED
      BY <2>1, <2>2, <1>b, Zenon
  <1>12. ASSUME NEW a \in Actions, PodGone(a) PROVE TypeOK'
    BY <1>12, <1>a, <1>b, Zenon DEF PodGone, ActionTypeOK, controller, history, userVars
  <1>13. ASSUME NEW n \in UserReplicas, UserScales(n) PROVE TypeOK'
    <2>1. n \in Int
      BY ControllerAssumption
    <2>2. obj.replicas \in Int /\ [obj EXCEPT !.replicas = n] \in Objects
      BY <2>1, <1>a, Zenon DEF Objects
    <2>3. scales' \in 0..MaxWrites
      BY <1>13, <1>a, ControllerAssumption DEF UserScales
    <2>4. expected' \in Int
      BY <1>13, <2>1, <2>2, <1>a DEF UserScales
    <2>5. Rest'
      BY <1>13, <2>2, <2>3, <2>4, <1>a, Zenon DEF UserScales, Store
    <2> QED
      BY <1>13, <2>5, <1>a, <1>b, Zenon DEF UserScales, ActionTypeOK
  <1>14. ASSUME NEW c \in Containers, UserEdits(c) PROVE TypeOK'
    <2>1. obj.template \in Templates /\ obj.template[c] \in ContainerSpecs
      BY <1>a, Zenon DEF Objects, Templates
    <2>2. [obj.template[c] EXCEPT !.limit = UserAmount] \in ContainerSpecs
      BY <2>1, ControllerAssumption, Zenon DEF ContainerSpecs, Amounts
    <2>3. [obj.template EXCEPT ![c] = [obj.template[c] EXCEPT !.limit = UserAmount]] \in Templates
      BY <2>1, <2>2, Zenon DEF Templates
    <2>4. [obj EXCEPT !.template[c].limit = UserAmount] \in Objects
      BY <2>3, <1>a, Zenon DEF Objects
    <2>5. edits' \in 0..MaxWrites
      BY <1>14, <1>a, ControllerAssumption, SMTT(30) DEF UserEdits
    <2>6. Rest'
      BY <1>14, <2>4, <2>5, <1>a, Zenon DEF UserEdits, Store, history
    <2> QED
      BY <1>14, <2>6, <1>a, <1>b, Zenon DEF UserEdits, ActionTypeOK
  <1>15. CASE UNCHANGED vars
    BY <1>15, <1>a, <1>b, Zenon DEF vars, ActionTypeOK, controller, history, userVars
  <1> QED
    BY <1>1, <1>2, <1>3, <1>4, <1>5, <1>6, <1>7, <1>8, <1>9, <1>10, <1>11, <1>12, <1>13, <1>14, <1>15, Zenon
    DEF Next, ActionStep, User

\* The first state has the types.
LEMMA TypeInit == Init => TypeOK
  <1> SUFFICES ASSUME Init PROVE TypeOK
    BY Zenon
  <1>1. Replicas0 \in Int /\ 0 \in 0..MaxFailures /\ 0 \in 0..MaxWrites
    BY ControllerAssumption
  <1> QED
    BY <1>1, NoUpdaterType, Zenon DEF Init, TypeOK, PCs

\* The controller, the updaters and the histories keep their types, whatever the
\* actions, the users and the failures (parentController, k8sControllerUpdater).
THEOREM TypeCorrect == Spec => []TypeOK
  BY TypeInit, TypeStep, PTL DEF Spec
------------------------------------------------------------------------------
\* What the updater of a has in hand: while its version is the latest, what it read
\* is what is stored, but for its own change; a scaling never goes below one; only
\* containers with items have specifications.
ReadAt(a) ==
    /\ pc[a] = "reconcile" /\ a \in fresh => updater[a].read = obj
    /\ pc[a] \in {"suspend", "write"} /\ a \in fresh =>
         /\ updater[a].read.replicas = obj.replicas + Diff(a)
         /\ \A c \in Containers : Items[a][c] = <<>> => updater[a].read.template[c] = obj.template[c]
    /\ pc[a] \in {"suspend", "write"} /\ Diff(a) # 0 => updater[a].read.replicas >= 1
    /\ pc[a] = "undo" /\ a \in fresh => updater[a].read.replicas = obj.replicas
    /\ \A c \in Containers : Items[a][c] = <<>> => updater[a].specs[c] = <<>>

ReadInv == \A a \in Actions : ReadAt(a)

\* The inductive invariant behind the theorems on scaling.
ScalingInv == TypeOK /\ ReadInv /\ NoLostScaling

\* A step of a leaves the other actions alone.
Own(a) == \A b \in Actions \ {a} : pc'[b] = pc[b] /\ updater'[b] = updater[b]

\* A step of a reads the controller, or writes it and makes every read old.
ReadsOrWrites(a) == (obj' = obj /\ fresh' \subseteq fresh \cup {a}) \/ fresh' = {}

\* What another action has in hand is not disturbed.
LEMMA OthersRead ==
  ASSUME NEW a \in Actions, NEW b \in Actions, a # b, ReadAt(b), Own(a), ReadsOrWrites(a)
  PROVE  ReadAt(b)'
  <1>1. pc'[b] = pc[b] /\ updater'[b] = updater[b]
    BY Zenon DEF Own
  <1>2. CASE obj' = obj /\ (b \in fresh' => b \in fresh)
    BY <1>1, <1>2, Zenon DEF ReadAt
  <1>3. CASE b \notin fresh'
    BY <1>1, <1>3, Zenon DEF ReadAt
  <1> QED
    BY <1>2, <1>3, Zenon DEF ReadsOrWrites

\* After an error or at the end of an action nothing is in hand.
LEMMA RetryRead ==
  ASSUME TypeOK, NEW a \in Actions, ReadAt(a),
         Return(a, "failed") \/ Return(a, "succeeded") \/ GiveUp(a) \/ Retry(a)
  PROVE  Own(a) /\ ReadAt(a)'
  <1>a. pc \in [Actions -> PCs] /\ updater \in [Actions -> Updaters]
    BY Zenon DEF TypeOK
  <1>1. Own(a)
    BY <1>a, Zenon DEF Return, GiveUp, Retry, Goto, Own
  <1>2. pc'[a] \in {"get", "revert", "failed", "succeeded"}
    BY <1>a, Zenon DEF Return, GiveUp, Retry, Goto
  <1>3. updater'[a].specs = updater[a].specs \/ updater'[a] = NoUpdater
    BY <1>a, SMTT(30) DEF Return, GiveUp, Retry, Updaters
  <1>4. \A c \in Containers : Items[a][c] = <<>> => updater'[a].specs[c] = <<>>
    BY <1>3 DEF ReadAt, NoUpdater
  <1> QED
    BY <1>1, <1>2, <1>4, Zenon DEF ReadAt

\* A container without specifications stays as it is.
LEMMA ResizeNothing ==
  ASSUME NEW k \in ContainerSpecs
  PROVE  UpdateResourceAmount(k, <<>>).container = k
  BY DEF UpdateResourceAmount

\* Every step keeps what the updaters have in hand.
LEMMA ReadStep == TypeOK /\ ReadInv /\ [Next]_vars => ReadInv'
  <1> SUFFICES ASSUME TypeOK, ReadInv, [Next]_vars PROVE ReadInv'
    BY Zenon
  <1>a. pc \in [Actions -> PCs] /\ updater \in [Actions -> Updaters] /\ obj \in Objects
    BY Zenon DEF TypeOK
  <1>b. \A a \in Actions : ReadAt(a)
    BY Zenon DEF ReadInv
  <1>o. ASSUME NEW a \in Actions, Own(a), ReadsOrWrites(a), ReadAt(a)' PROVE ReadInv'
    BY <1>o, <1>b, OthersRead, Zenon DEF ReadInv
  <1>r. ASSUME NEW a \in Actions, ReadsOrWrites(a),
               Return(a, "failed") \/ Return(a, "succeeded") \/ GiveUp(a) \/ Retry(a)
        PROVE  ReadInv'
    BY <1>r, <1>b, <1>o, RetryRead, Zenon
  <1>1. ASSUME NEW a \in Actions, GetLock(a) PROVE ReadInv'
    <2>1. Own(a) /\ ReadsOrWrites(a) /\ updater' = updater /\ pc'[a] \in {"prepare", "failed"}
      BY <1>1, <1>a, Zenon DEF GetLock, Goto, Own, ReadsOrWrites, controller
    <2> QED
      BY <2>1, <1>b, <1>o, Zenon DEF ReadAt
  <1>2. ASSUME NEW a \in Actions, Prepare(a) PROVE ReadInv'
    <2>1. ReadsOrWrites(a)
      BY <1>2, Zenon DEF Prepare, ReadsOrWrites, controller
    <2>2. CASE Goto(a, "get") /\ updater' = [updater EXCEPT ![a].specs = BuildSpecs(a)]
      <3>1. Own(a) /\ pc'[a] = "get" /\ updater'[a].specs = BuildSpecs(a)
        BY <2>2, <1>a, Zenon DEF Goto, Own, Updaters
      <3>2. ASSUME NEW c \in Containers, Items[a][c] = <<>> PROVE BuildSpecs(a)[c] = <<>>
        BY <3>2 DEF BuildSpecs
      <3> QED
        BY <2>1, <3>1, <3>2, <1>o, Zenon DEF ReadAt
    <2> QED
      BY <1>2, <2>1, <2>2, <1>r, Zenon DEF Prepare
  <1>3. ASSUME NEW a \in Actions, Get(a) PROVE ReadInv'
    <2>1. ReadsOrWrites(a)
      BY <1>3, Zenon DEF Get, ReadsOrWrites
    <2>2. CASE Goto(a, "reconcile")
               /\ updater' = [updater EXCEPT ![a].read = obj, ![a].backup = <<obj.template>>]
      <3>1. /\ Own(a) /\ pc'[a] = "reconcile"
            /\ updater'[a].specs = updater[a].specs /\ updater'[a].read = obj
        BY <2>2, <1>a, Zenon DEF Goto, Own, Updaters
      <3>2. obj' = obj
        BY <1>3, Zenon DEF Get
      <3> QED
        BY <2>1, <3>1, <3>2, <1>b, <1>o DEF ReadAt
    <2> QED
      BY <1>3, <2>1, <2>2, <1>r, Zenon DEF Get
  <1>4. ASSUME NEW a \in Actions, ReconcileReplicas(a) PROVE ReadInv'
    <2>1. ReadsOrWrites(a) /\ obj' = obj /\ fresh' = fresh /\ pc[a] = "reconcile"
      BY <1>4, Zenon DEF ReconcileReplicas, ReadsOrWrites, controller, At
    <2>2. CASE /\ updater[a].read.replicas + Diff(a) >= 1
               /\ Goto(a, IF Kind[a] = "suspend" THEN "suspend" ELSE "write")
               /\ updater' = [updater EXCEPT ![a].read.replicas = updater[a].read.replicas + Diff(a)]
      <3>1. /\ Own(a) /\ pc'[a] \in {"suspend", "write"}
            /\ updater'[a].specs = updater[a].specs
            /\ updater'[a].read.template = updater[a].read.template
            /\ updater'[a].read.replicas = updater[a].read.replicas + Diff(a)
        BY <2>2, <1>a, Zenon DEF Goto, Own, Updaters, Objects
      <3> QED
        BY <2>1, <2>2, <3>1, <1>b, <1>o, Zenon DEF ReadAt
    <2> QED
      BY <1>4, <2>1, <2>2, <1>r, Zenon DEF ReconcileReplicas
  <1>5. ASSUME NEW a \in Actions, SuspendPod(a) PROVE ReadInv'
    <2>1. ReadsOrWrites(a) /\ obj' = obj /\ fresh' = fresh /\ pc[a] = "suspend"
      BY <1>5, Zenon DEF SuspendPod, ReadsOrWrites, controller, At
    <2>2. CASE Goto(a, "write") /\ updater' = updater
      <3>1. Own(a) /\ pc'[a] = "write"
        BY <2>2, <1>a, Zenon DEF Goto, Own
      <3> QED
        BY <2>1, <2>2, <3>1, <1>b, <1>o, Zenon DEF ReadAt
    <2> QED
      BY <1>5, <2>1, <2>2, <1>r, Zenon DEF SuspendPod
  <1>6. ASSUME NEW a \in Actions, ReconcileTemplate(a) PROVE ReadInv'
    <2>1. ReadsOrWrites(a) /\ obj' = obj /\ fresh' = fresh /\ pc[a] = "reconcile" /\ Diff(a) = 0
      BY <1>6, Zenon DEF ReconcileTemplate, ReadsOrWrites, controller, At
    <2>2. CASE Goto(a, "write")
               /\ updater' = [updater EXCEPT ![a].read.template = Resized(a, updater[a].read.template)]
      <3>1. /\ Own(a) /\ pc'[a] = "write"
            /\ updater'[a].specs = updater[a].specs
            /\ updater'[a].read.template = Resized(a, updater[a].read.template)
            /\ updater'[a].read.replicas = updater[a].read.replicas
        BY <2>2, <1>a, Zenon DEF Goto, Own, Updaters, Objects
      <3>2. ASSUME NEW c \in Containers, Items[a][c] = <<>>
            PROVE  Resized(a, updater[a].read.template)[c] = updater[a].read.template[c]
        BY <3>2, <1>b, UpdaterType, ResizeNothing, Zenon DEF Resized, ReadAt, Templates
      <3>3. updater[a].read.replicas = updater[a].read.replicas + Diff(a)
        BY <2>1, UpdaterType
      <3> QED
        BY <2>1, <3>1, <3>2, <3>3, <1>b, <1>o, Zenon DEF ReadAt
    <2> QED
      BY <1>6, <2>1, <2>2, <1>r, Zenon DEF ReconcileTemplate
  <1>7. ASSUME NEW a \in Actions, Update(a) PROVE ReadInv'
    <2>1. ReadsOrWrites(a)
      BY <1>7, Zenon DEF Update, Apply, Store, ReadsOrWrites, controller
    <2>2. CASE Goto(a, "wait") /\ updater' = updater
      <3>1. Own(a) /\ pc'[a] = "wait"
        BY <2>2, <1>a, Zenon DEF Goto, Own
      <3> QED
        BY <2>1, <2>2, <3>1, <1>b, <1>o, Zenon DEF ReadAt
    <2> QED
      BY <1>7, <2>1, <2>2, <1>r, Zenon DEF Update
  <1>8. ASSUME NEW a \in Actions, ShouldRollout(a) \/ WaitForReplicas(a) PROVE ReadInv'
    <2>1. ReadsOrWrites(a)
      BY <1>8, Zenon DEF ShouldRollout, WaitForReplicas, ReadsOrWrites, controller
    <2> QED
      BY <1>8, <2>1, <1>r, Zenon DEF ShouldRollout, WaitForReplicas
  <1>9. ASSUME NEW a \in Actions, RevertPanics(a) PROVE ReadInv'
    BY <1>9, <1>b, Zenon DEF RevertPanics, ReadInv, ReadAt, controller
  <1>10. ASSUME NEW a \in Actions, RevertGet(a) PROVE ReadInv'
    <2> DEFINE back == updater[a].backup[1]
    <2>1. ReadsOrWrites(a) /\ obj' = obj
      BY <1>10, Zenon DEF RevertGet, ReadsOrWrites
    <2>2. CASE /\ Goto(a, "undo")
               /\ updater' = [updater EXCEPT ![a].read = [obj EXCEPT !.template = back]]
      <3>1. /\ Own(a) /\ pc'[a] = "undo"
            /\ updater'[a].specs = updater[a].specs
            /\ updater'[a].read.replicas = obj.replicas
        BY <2>2, <1>a, Zenon DEF Goto, Own, Updaters, Objects
      <3> QED
        BY <2>1, <3>1, <1>b, <1>o DEF ReadAt
    <2> QED
      BY <1>10, <2>1, <2>2, <1>r, Zenon DEF RevertGet
  <1>11. ASSUME NEW a \in Actions, RevertUpdate(a) PROVE ReadInv'
    <2>1. ReadsOrWrites(a)
      BY <1>11, Zenon DEF RevertUpdate, Store, ReadsOrWrites, controller
    <2> QED
      BY <1>11, <2>1, <1>r, Zenon DEF RevertUpdate
  <1>12. ASSUME NEW a \in Actions, PodGone(a) PROVE ReadInv'
    BY <1>12, <1>b, Zenon DEF PodGone, ReadInv, ReadAt, controller
  <1>13. ASSUME User PROVE ReadInv'
    <2>1. fresh' = {} /\ pc' = pc /\ updater' = updater
      BY <1>13, Zenon DEF User, UserScales, UserEdits, Store
    <2> QED
      BY <2>1, <1>b, Zenon DEF ReadInv, ReadAt
  <1>14. CASE UNCHANGED vars
    BY <1>14, <1>b, Zenon DEF vars, ReadInv, ReadAt, controller
  <1> QED
    BY <1>1, <1>2, <1>3, <1>4, <1>5, <1>6, <1>7, <1>8, <1>9, <1>10, <1>11, <1>12, <1>13, <1>14, Zenon
    DEF Next, ActionStep

\* A step writes the controller in one of four ways: not at all, an update of
\* kubeturbo that is carried out, one of its reverts, or a user.
LEMMA Writes ==
  ASSUME [Next]_vars
  PROVE  \/ UNCHANGED <<obj, applied, expected>>
         \/ \E a \in Actions : At(a, "write") /\ Apply(a) /\ UNCHANGED scales
         \/ \E a \in Actions : /\ At(a, "undo") /\ a \in fresh /\ obj' = updater[a].read
                               /\ UNCHANGED <<applied, expected, scales>>
         \/ \E n \in UserReplicas : UserScales(n)
         \/ \E c \in Containers : UserEdits(c)
  <1>1. ASSUME NEW a \in Actions, Update(a)
        PROVE  UNCHANGED <<obj, applied, expected>> \/ (At(a, "write") /\ Apply(a) /\ UNCHANGED scales)
    BY <1>1, Zenon DEF Update, controller, userVars
  <1>2. ASSUME NEW a \in Actions, RevertUpdate(a)
        PROVE  \/ UNCHANGED <<obj, applied, expected>>
               \/ /\ At(a, "undo") /\ a \in fresh /\ obj' = updater[a].read
                  /\ UNCHANGED <<applied, expected, scales>>
    BY <1>2, Zenon DEF RevertUpdate, Store, Accepts, controller, userVars
  <1>3. ASSUME NEW a \in Actions, ActionStep(a), ~Update(a), ~RevertUpdate(a)
        PROVE  UNCHANGED <<obj, applied, expected>>
    BY <1>3, Zenon DEF ActionStep, GetLock, Prepare, Get, ReconcileReplicas, SuspendPod, ReconcileTemplate,
                ShouldRollout, WaitForReplicas, RevertPanics, RevertGet, controller, history
  <1>4. ASSUME NEW a \in Actions, PodGone(a) PROVE UNCHANGED <<obj, applied, expected>>
    BY <1>4, Zenon DEF PodGone, controller, history
  <1>5. CASE UNCHANGED vars
    BY <1>5, Zenon DEF vars, controller, history
  <1> QED
    BY <1>1, <1>2, <1>3, <1>4, <1>5, Zenon DEF Next, User

\* ScalingInv is inductive.
LEMMA ScalingStep == ScalingInv /\ [Next]_vars => ScalingInv'
  <1> SUFFICES ASSUME ScalingInv, [Next]_vars PROVE ScalingInv'
    BY Zenon
  <1>a. TypeOK /\ ReadInv /\ NoLostScaling
    BY Zenon DEF ScalingInv
  <1>1. TypeOK' /\ ReadInv'
    BY <1>a, TypeStep, ReadStep, Zenon
  <1>2. CASE UNCHANGED <<obj, applied, expected>>
    BY <1>1, <1>2, <1>a, Zenon DEF ScalingInv, NoLostScaling
  <1>3. ASSUME NEW a \in Actions, At(a, "write"), Apply(a) PROVE ScalingInv'
    <2>1. updater[a].read.replicas = obj.replicas + Diff(a)
      BY <1>3, <1>a, Zenon DEF At, Apply, Accepts, ReadInv, ReadAt
    <2> QED
      BY <1>1, <1>3, <2>1, <1>a, Zenon DEF ScalingInv, NoLostScaling, Apply, Store
  <1>4. ASSUME NEW a \in Actions, At(a, "undo"), a \in fresh, obj' = updater[a].read, UNCHANGED expected
        PROVE  ScalingInv'
    <2>1. updater[a].read.replicas = obj.replicas
      BY <1>4, <1>a, Zenon DEF At, ReadInv, ReadAt
    <2> QED
      BY <1>1, <1>4, <2>1, <1>a, Zenon DEF ScalingInv, NoLostScaling
  <1>5. ASSUME NEW n \in UserReplicas, UserScales(n) PROVE ScalingInv'
    <2>1. n \in Int /\ obj.replicas \in Int /\ expected = obj.replicas
      BY <1>a, ControllerAssumption DEF TypeOK, Objects, NoLostScaling
    <2>2. obj'.replicas = n
      BY <1>5, <1>a, Zenon DEF UserScales, Store, TypeOK, Objects
    <2>3. expected' = n
      BY <1>5, <2>1 DEF UserScales
    <2> QED
      BY <1>1, <2>2, <2>3, Zenon DEF ScalingInv, NoLostScaling
  <1>6. ASSUME NEW c \in Containers, UserEdits(c) PROVE ScalingInv'
    <2>1. obj'.replicas = obj.replicas /\ expected' = expected
      BY <1>6, <1>a, Zenon DEF UserEdits, Store, TypeOK, Objects, history
    <2> QED
      BY <1>1, <2>1, <1>a, Zenon DEF ScalingInv, NoLostScaling
  <1> QED
    BY <1>2, <1>3, <1>4, <1>5, <1>6, Writes, Zenon

\* The first state satisfies ScalingInv.
LEMMA ScalingInit == Init => ScalingInv
  <1> SUFFICES ASSUME Init PROVE ScalingInv
    BY Zenon
  <1>1. TypeOK
    BY TypeInit, Zenon
  <1>2. ReadInv
    BY Zenon DEF Init, ReadInv, ReadAt, NoUpdater
  <1>3. NoLostScaling
    BY Zenon DEF Init, NoLostScaling, Controller0
  <1> QED
    BY <1>1, <1>2, <1>3, Zenon DEF ScalingInv

\* No scaling is lost: the replicas are the first ones plus every change carried out,
\* although actions without a lock, reverts and users write the same object.
THEOREM NoScalingIsLost == Spec => []NoLostScaling
  <1>1. ScalingInv => NoLostScaling
    BY Zenon DEF ScalingInv
  <1> QED
    BY <1>1, ScalingInit, ScalingStep, PTL DEF Spec

\* suspendOrProvision keeps its promise at the time of the update: no step of
\* kubeturbo takes the replicas below one.
THEOREM NotBelowOne == Spec => NeverBelowOne
  <1>1. ASSUME ScalingInv, [Next]_vars, scales' = scales
        PROVE  obj'.replicas = obj.replicas \/ obj'.replicas >= 1
    <2>a. TypeOK /\ ReadInv
      BY <1>1, Zenon DEF ScalingInv
    <2>1. ASSUME NEW a \in Actions, At(a, "write"), Apply(a)
          PROVE  obj'.replicas = obj.replicas \/ obj'.replicas >= 1
      <3>1. obj' = updater[a].read /\ a \in fresh /\ pc[a] = "write"
        BY <2>1, Zenon DEF At, Apply, Accepts, Store
      <3>2. CASE Diff(a) # 0
        BY <3>1, <3>2, <2>a, Zenon DEF ReadInv, ReadAt
      <3>3. CASE Diff(a) = 0
        <4>1. updater[a].read.replicas = obj.replicas + Diff(a) /\ obj.replicas \in Int
          BY <3>1, <2>a, Zenon DEF ReadInv, ReadAt, TypeOK, Objects
        <4> QED
          BY <3>1, <3>3, <4>1
      <3> QED
        BY <3>2, <3>3, Zenon
    <2>2. ASSUME NEW a \in Actions, At(a, "undo"), a \in fresh, obj' = updater[a].read
          PROVE  obj'.replicas = obj.replicas
      BY <2>2, <2>a, Zenon DEF At, ReadInv, ReadAt
    <2>3. ASSUME NEW n \in UserReplicas, UserScales(n) PROVE FALSE
      BY <2>3, <1>1, <2>a, ControllerAssumption DEF UserScales, TypeOK
    <2>4. ASSUME NEW c \in Containers, UserEdits(c) PROVE obj'.replicas = obj.replicas
      BY <2>4, <2>a, Zenon DEF UserEdits, Store, TypeOK, Objects
    <2> QED
      BY <1>1, <2>1, <2>2, <2>3, <2>4, Writes, Zenon
  <1>2. ScalingInv /\ [Next]_vars
        => [scales' = scales => obj'.replicas = obj.replicas \/ obj'.replicas >= 1]_vars
    BY <1>1, Zenon
  <1> QED
    BY <1>2, ScalingInit, ScalingStep, PTL DEF Spec, NeverBelowOne

\* An update of kubeturbo leaves the containers alone that its action does not
\* resize, with what users wrote to them after the action started.
THEOREM OthersAreKept == Spec => OthersContainersKept
  <1> DEFINE Kept == \A a \in Actions, c \in Containers :
                        applied'[a] > applied[a] /\ Items[a][c] = <<>> => obj'.template[c] = obj.template[c]
  <1>1. ASSUME ScalingInv, [Next]_vars PROVE Kept
    <2> SUFFICES ASSUME NEW a \in Actions, NEW c \in Containers,
                        applied'[a] > applied[a], Items[a][c] = <<>>
                 PROVE  obj'.template[c] = obj.template[c]
      BY Zenon
    <2>a. TypeOK /\ ReadInv
      BY <1>1, Zenon DEF ScalingInv
    <2>b. applied \in [Actions -> Nat]
      BY <2>a, Zenon DEF TypeOK
    <2>1. applied' # applied
      BY <2>b
    <2>2. PICK b \in Actions : At(b, "write") /\ Apply(b)
      <3>1. ASSUME NEW n \in UserReplicas, UserScales(n) PROVE FALSE
        BY <2>1, <3>1, Zenon DEF UserScales
      <3>2. ASSUME NEW k \in Containers, UserEdits(k) PROVE FALSE
        BY <2>1, <3>2, Zenon DEF UserEdits, history
      <3> QED
        BY <1>1, <2>1, <3>1, <3>2, Writes, Zenon
    <2>3. b = a
      BY <2>2, <2>b DEF Apply
    <2>4. obj' = updater[a].read /\ a \in fresh /\ pc[a] = "write"
      BY <2>2, <2>3, Zenon DEF At, Apply, Accepts, Store
    <2> QED
      BY <2>4, <2>a, Zenon DEF ReadInv, ReadAt
  <1>2. ScalingInv /\ [Next]_vars => [Kept]_vars
    BY <1>1, Zenon
  <1> QED
    BY <1>2, ScalingInit, ScalingStep, PTL DEF Spec, OthersContainersKept
------------------------------------------------------------------------------
\* How far a scaling has come tells whether it was carried out.
OnceAt(a) ==
    Diff(a) # 0 =>
      /\ pc[a] \in {"new", "prepare", "get", "reconcile", "suspend", "write"} => applied[a] = 0
      /\ pc[a] \in {"wait", "succeeded"} => applied[a] = 1
      /\ pc[a] = "failed" => applied[a] <= 1
      /\ pc[a] \notin {"revert", "undo"}

OnceInv == failures = 0 /\ ~paused => \A a \in Actions : OnceAt(a)

\* The inductive invariant behind ScaledOnce.
OnlyOnceInv == TypeOK /\ OnceInv

\* Failures are never forgotten and a pause never ends.
LEMMA Monotone ==
  ASSUME TypeOK, [Next]_vars
  PROVE  (failures' = 0 => failures = 0) /\ paused' = paused /\ (failures' = 0 => ~Fail)
  <1>a. failures \in Nat
    BY ControllerAssumption DEF TypeOK
  <1>1. (Fail \/ UNCHANGED failures) /\ paused' = paused
    BY ZenonT(30) DEF Next, ActionStep, User, GetLock, Prepare, Get, ReconcileReplicas, SuspendPod,
                 ReconcileTemplate, Update, ShouldRollout, WaitForReplicas, RevertPanics, RevertGet,
                 RevertUpdate, PodGone, UserScales, UserEdits, vars
  <1> QED
    BY <1>a, <1>1 DEF Fail

\* A failed scaling ends: GiveUp reverts resizes only.
LEMMA ScalingGivesUp ==
  ASSUME NEW a \in Actions, Diff(a) # 0
  PROVE  Kind[a] # "resize"
  BY ControllerAssumption, SMT DEF Diff

\* OnlyOnceInv is inductive.
LEMMA OnceStep == OnlyOnceInv /\ [Next]_vars => OnlyOnceInv'
  <1> SUFFICES ASSUME TypeOK, OnceInv, [Next]_vars, failures' = 0, ~paused', NEW b \in Actions,
                      Diff(b) # 0
               PROVE  OnceAt(b)'
    <2>1. ASSUME TypeOK, [Next]_vars PROVE TypeOK'
      BY <2>1, TypeStep, Zenon
    <2> QED
      BY <2>1, Zenon DEF OnlyOnceInv, OnceInv, OnceAt
  <1>a. pc \in [Actions -> PCs] /\ applied \in [Actions -> Nat]
    BY Zenon DEF TypeOK
  <1>b. failures = 0 /\ ~paused /\ OnceAt(b) /\ ~Fail
    BY Monotone DEF OnceInv
  <1>c. Kind[b] # "resize"
    BY ScalingGivesUp, Zenon
  <1>s. ASSUME pc'[b] = pc[b], applied'[b] = applied[b] PROVE OnceAt(b)'
    BY <1>s, <1>b, Zenon DEF OnceAt
  <1>1. ASSUME NEW a \in Actions, a # b, ActionStep(a) PROVE OnceAt(b)'
    <2>1. pc'[b] = pc[b]
      BY <1>1, <1>a, Zenon DEF ActionStep, GetLock, Prepare, Get, ReconcileReplicas, SuspendPod,
                 ReconcileTemplate, Update, ShouldRollout, WaitForReplicas, RevertPanics, RevertGet,
                 RevertUpdate, Goto, Return, GiveUp, Retry
    <2>2. applied'[b] = applied[b]
      BY <1>1, <1>a, Zenon DEF ActionStep, GetLock, Prepare, Get, ReconcileReplicas, SuspendPod,
                 ReconcileTemplate, Update, Apply, ShouldRollout, WaitForReplicas, RevertPanics,
                 RevertGet, RevertUpdate, history
    <2> QED
      BY <2>1, <2>2, <1>s, Zenon
  <1>2. ASSUME Return(b, "failed") \/ GiveUp(b) \/ Retry(b),
               pc[b] \in {"new", "prepare", "get", "reconcile", "suspend", "write"},
               applied' = applied
        PROVE  OnceAt(b)'
    <2>1. pc'[b] \in {"failed", "get"}
      BY <1>2, <1>a, <1>c, Zenon DEF Return, GiveUp, Retry, Goto
    <2> QED
      BY <1>2, <2>1, <1>b DEF OnceAt
  <1>3. CASE GetLock(b)
    BY <1>3, <1>a, <1>b DEF GetLock, At, Goto, OnceAt, history
  <1>4. CASE Prepare(b)
    <2>1. pc[b] = "prepare" /\ applied' = applied
      BY <1>4, Zenon DEF Prepare, At, history
    <2>2. CASE Goto(b, "get")
      BY <2>1, <2>2, <1>a, <1>b, Zenon DEF Goto, OnceAt
    <2> QED
      BY <1>4, <2>1, <2>2, <1>2, Zenon DEF Prepare
  <1>5. CASE Get(b)
    <2>1. pc[b] = "get" /\ applied' = applied
      BY <1>5, Zenon DEF Get, At, history
    <2>2. CASE Goto(b, "reconcile")
      BY <2>1, <2>2, <1>a, <1>b, Zenon DEF Goto, OnceAt
    <2> QED
      BY <1>5, <2>1, <2>2, <1>2, Zenon DEF Get
  <1>6. CASE ReconcileReplicas(b)
    <2>1. pc[b] = "reconcile" /\ applied' = applied
      BY <1>6, Zenon DEF ReconcileReplicas, At, history
    <2>2. CASE Goto(b, IF Kind[b] = "suspend" THEN "suspend" ELSE "write")
      BY <2>1, <2>2, <1>a, <1>b, Zenon DEF Goto, OnceAt
    <2> QED
      BY <1>6, <2>1, <2>2, <1>2, Zenon DEF ReconcileReplicas
  <1>7. CASE SuspendPod(b)
    <2>1. pc[b] = "suspend" /\ applied' = applied
      BY <1>7, Zenon DEF SuspendPod, At, history
    <2>2. CASE Goto(b, "write")
      BY <2>1, <2>2, <1>a, <1>b, Zenon DEF Goto, OnceAt
    <2> QED
      BY <1>7, <2>1, <2>2, <1>2, Zenon DEF SuspendPod
  <1>8. CASE Update(b)
    <2>1. pc[b] = "write"
      BY <1>8, Zenon DEF Update, At
    <2>2. CASE Apply(b) /\ Goto(b, "wait")
      BY <2>1, <2>2, <1>a, <1>b DEF Apply, Goto, OnceAt
    <2>3. CASE Retry(b) /\ applied' = applied
      BY <2>1, <2>3, <1>2, Zenon
    <2> QED
      BY <1>8, <2>2, <2>3, <1>b, Zenon DEF Update
  <1>9. CASE WaitForReplicas(b)
    <2>1. pc[b] = "wait" /\ applied' = applied
      BY <1>9, Zenon DEF WaitForReplicas, At, history
    <2>2. pc'[b] \in {"failed", "succeeded"}
      BY <1>9, <1>a, <1>b, <1>c, Zenon DEF WaitForReplicas, Return, GiveUp
    <2> QED
      BY <2>1, <2>2, <1>b DEF OnceAt
  <1>10. CASE ReconcileTemplate(b) \/ ShouldRollout(b) \/ RevertPanics(b) \/ RevertGet(b) \/ RevertUpdate(b)
    BY <1>10, <1>b, Zenon DEF ReconcileTemplate, ShouldRollout, RevertPanics, RevertGet, RevertUpdate, At, OnceAt
  <1>11. CASE User \/ UNCHANGED vars \/ \E a \in Actions : PodGone(a)
    BY <1>11, <1>s, Zenon DEF User, UserScales, UserEdits, PodGone, vars, history
  <1>12. CASE ActionStep(b)
    BY <1>12, <1>3, <1>4, <1>5, <1>6, <1>7, <1>8, <1>9, <1>10, Zenon DEF ActionStep
  <1> QED
    BY <1>1, <1>11, <1>12, Zenon DEF Next

\* Without failing calls and refused rollouts a scaling is carried out at most once,
\* and was carried out if it reports success, however many conflicts RetryDuring
\* has to repeat it for.
THEOREM ScalingIsAppliedOnce == Spec => []ScaledOnce
  <1>1. Init => OnlyOnceInv
    BY TypeInit, Zenon DEF Init, OnlyOnceInv, OnceInv, OnceAt
  <1>2. ASSUME OnlyOnceInv PROVE ScaledOnce
    <2>1. \A a \in Actions : pc[a] \in PCs
      BY <1>2, Zenon DEF OnlyOnceInv, TypeOK
    <2> QED
      BY <1>2, <2>1 DEF OnlyOnceInv, OnceInv, OnceAt, ScaledOnce, PCs
  <1> QED
    BY <1>1, <1>2, OnceStep, PTL DEF Spec
------------------------------------------------------------------------------
\* Where an action is, when it has read the controller.
HasRead(a) == pc[a] \in {"reconcile", "suspend", "write", "wait", "revert", "undo"}

\* The inductive invariant behind PanicsOnlyAfterFailure: without failures, who has
\* come past the get has a backup.
BackupInv ==
    /\ TypeOK
    /\ failures = 0 => ~crashed /\ \A a \in Actions : HasRead(a) => updater[a].backup # <<>>

\* BackupInv is inductive.
LEMMA BackupStep == BackupInv /\ [Next]_vars => BackupInv'
  <1> SUFFICES ASSUME BackupInv, [Next]_vars, failures' = 0
               PROVE  ~crashed' /\ \A b \in Actions : HasRead(b)' => updater'[b].backup # <<>>
    BY TypeStep, Zenon DEF BackupInv
  <1>a. pc \in [Actions -> PCs] /\ updater \in [Actions -> Updaters] /\ obj \in Objects
    BY Zenon DEF BackupInv, TypeOK
  <1>b. failures = 0 /\ ~Fail /\ ~crashed /\ \A b \in Actions : HasRead(b) => updater[b].backup # <<>>
    BY Monotone, Zenon DEF BackupInv
  <1>1. ~crashed'
    BY <1>b, Zenon DEF Next, ActionStep, User, GetLock, Prepare, Get, ReconcileReplicas, SuspendPod,
                 ReconcileTemplate, Update, ShouldRollout, WaitForReplicas, RevertPanics, RevertGet,
                 RevertUpdate, PodGone, UserScales, UserEdits, vars, At, HasRead
  <1>2. ASSUME NEW b \in Actions, HasRead(b)' PROVE updater'[b].backup # <<>>
    <2>1. CASE pc'[b] = pc[b] /\ updater'[b].backup = updater[b].backup
      BY <2>1, <1>2, <1>b, Zenon DEF HasRead
    <2>2. ASSUME NEW a \in Actions, a # b, ActionStep(a)
          PROVE  pc'[b] = pc[b] /\ updater'[b] = updater[b]
      BY <2>2, <1>a, Zenon DEF ActionStep, GetLock, Prepare, Get, ReconcileReplicas, SuspendPod,
                 ReconcileTemplate, Update, ShouldRollout, WaitForReplicas, RevertPanics, RevertGet,
                 RevertUpdate, Goto, Return, GiveUp, Retry
    <2>3. ASSUME HasRead(b), Return(b, "failed") \/ Return(b, "succeeded") \/ GiveUp(b) \/ Retry(b)
          PROVE  updater'[b].backup # <<>>
      BY <2>3, <1>2, <1>a, <1>b, Zenon DEF HasRead, Return, GiveUp, Retry, Goto, Updaters
    <2>4. CASE GetLock(b) \/ Prepare(b)
      BY <2>4, <1>2, <1>a, Zenon DEF GetLock, Prepare, Goto, Return, HasRead
    <2>5. CASE Get(b)
      <3>1. updater'[b].backup = <<obj.template>>
        BY <2>5, <1>a, <1>b DEF Get, Updaters
      <3> QED
        BY <3>1
    <2>6. CASE ReconcileReplicas(b) \/ ReconcileTemplate(b) \/ SuspendPod(b) \/ Update(b)
      <3>1. HasRead(b)
        BY <2>6, Zenon DEF ReconcileReplicas, ReconcileTemplate, SuspendPod, Update, At, HasRead
      <3>2. \/ updater'[b].backup = updater[b].backup
            \/ Return(b, "succeeded") \/ Retry(b)
        BY <2>6, <1>a, Zenon DEF ReconcileReplicas, ReconcileTemplate, SuspendPod, Update, Updaters
      <3> QED
        BY <3>1, <3>2, <2>3, <1>b, Zenon
    <2>7. CASE ShouldRollout(b) \/ WaitForReplicas(b) \/ RevertPanics(b) \/ RevertGet(b) \/ RevertUpdate(b)
      <3>1. HasRead(b)
        BY <2>7, Zenon DEF ShouldRollout, WaitForReplicas, RevertPanics, RevertGet, RevertUpdate, At, HasRead
      <3>2. \/ updater'[b].backup = updater[b].backup
            \/ Return(b, "failed") \/ Return(b, "succeeded") \/ GiveUp(b) \/ Retry(b)
        BY <2>7, <1>a DEF ShouldRollout, WaitForReplicas, RevertPanics, RevertGet, RevertUpdate, Updaters
      <3> QED
        BY <3>1, <3>2, <2>3, <1>b, Zenon
    <2>8. CASE User \/ UNCHANGED vars \/ \E a \in Actions : PodGone(a)
      BY <2>8, <2>1, Zenon DEF User, UserScales, UserEdits, PodGone, vars
    <2> QED
      BY <2>1, <2>2, <2>4, <2>5, <2>6, <2>7, <2>8, Zenon DEF Next, ActionStep
  <1> QED
    BY <1>1, <1>2, Zenon

\* revert finds its backup unless a call has failed: kubeturbo does not panic
\* because of conflicts, timeouts or other writers.
THEOREM PanicNeedsFailure == Spec => []PanicsOnlyAfterFailure
  <1>1. Init => BackupInv
    BY TypeInit, Zenon DEF Init, BackupInv, HasRead
  <1>2. ASSUME BackupInv PROVE PanicsOnlyAfterFailure
    <2>1. failures \in Nat /\ crashed \in BOOLEAN
      BY <1>2, ControllerAssumption DEF BackupInv, TypeOK
    <2> QED
      BY <1>2, <2>1 DEF BackupInv, PanicsOnlyAfterFailure
  <1> QED
    BY <1>1, <1>2, BackupStep, PTL DEF Spec

\* The inductive invariant behind SuspendedPodIsDeleted: who is about to lower the
\* replicas for a suspend has deleted the pod.
SuspendInv ==
    /\ TypeOK
    /\ \A a \in Actions : Kind[a] = "suspend" /\ (pc[a] = "write" \/ applied[a] > 0) => pod[a] # "running"

\* SuspendInv is inductive.
LEMMA SuspendStep == SuspendInv /\ [Next]_vars => SuspendInv'
  <1> SUFFICES ASSUME SuspendInv, [Next]_vars, NEW b \in Actions, Kind[b] = "suspend",
                      pc'[b] = "write" \/ applied'[b] > 0
               PROVE  pod'[b] # "running"
    BY TypeStep, Zenon DEF SuspendInv
  <1>a. /\ pc \in [Actions -> PCs] /\ applied \in [Actions -> Nat]
        /\ pod \in [Actions -> {"running", "terminating", "gone"}]
    BY Zenon DEF SuspendInv, TypeOK
  <1>b. pc[b] = "write" \/ applied[b] > 0 => pod[b] # "running"
    BY Zenon DEF SuspendInv
  <1>c. Diff(b) # 0
    BY DEF Diff
  <1>1. pod[b] # "running" => pod'[b] # "running"
    BY <1>a, ZenonT(30) DEF Next, ActionStep, User, GetLock, Prepare, Get, ReconcileReplicas, SuspendPod,
                 ReconcileTemplate, Update, ShouldRollout, WaitForReplicas, RevertPanics, RevertGet,
                 RevertUpdate, PodGone, UserScales, UserEdits, vars
  <1>2. CASE applied'[b] > 0
    <2>1. applied[b] > 0 \/ pc[b] = "write"
      BY <1>2, <1>a, ZenonT(30) DEF Next, ActionStep, User, GetLock, Prepare, Get, ReconcileReplicas, SuspendPod,
                 ReconcileTemplate, Update, Apply, ShouldRollout, WaitForReplicas, RevertPanics, RevertGet,
                 RevertUpdate, PodGone, UserScales, UserEdits, vars, history, At
    <2> QED
      BY <2>1, <1>1, <1>b, Zenon
  <1>3. CASE pc'[b] = "write" /\ pc[b] # "write"
    <2>1. ASSUME NEW a \in Actions, ActionStep(a), a # b PROVE FALSE
      BY <2>1, <1>3, <1>a, Zenon DEF ActionStep, GetLock, Prepare, Get, ReconcileReplicas, SuspendPod,
                 ReconcileTemplate, Update, ShouldRollout, WaitForReplicas, RevertPanics, RevertGet,
                 RevertUpdate, Goto, Return, GiveUp, Retry
    <2>2. ActionStep(b)
      BY <2>1, <1>3, Zenon DEF Next, User, UserScales, UserEdits, PodGone, vars
    <2>3. ~Return(b, "failed") /\ ~Return(b, "succeeded") /\ ~GiveUp(b) /\ ~Retry(b)
      BY <1>3, <1>a, Zenon DEF Return, GiveUp, Retry, Goto
    <2>4. SuspendPod(b)
      <3>1. ~GetLock(b) /\ ~Prepare(b) /\ ~Get(b)
        BY <1>3, <1>a, <2>3, Zenon DEF GetLock, Prepare, Get, Goto
      <3>2. ~ReconcileReplicas(b) /\ ~ReconcileTemplate(b) /\ ~Update(b)
        BY <1>3, <1>a, <1>c, <2>3, Zenon DEF ReconcileReplicas, ReconcileTemplate, Update, Goto
      <3>3. ~ShouldRollout(b) /\ ~WaitForReplicas(b) /\ ~RevertPanics(b) /\ ~RevertGet(b) /\ ~RevertUpdate(b)
        BY <1>3, <1>a, <2>3, Zenon DEF ShouldRollout, WaitForReplicas, RevertPanics, RevertGet, RevertUpdate, Goto
      <3> QED
        BY <2>2, <3>1, <3>2, <3>3, Zenon DEF ActionStep
    <2> QED
      BY <2>3, <2>4, <1>a, Zenon DEF SuspendPod
  <1>4. CASE pc'[b] = "write" /\ pc[b] = "write"
    BY <1>4, <1>1, <1>b, Zenon
  <1> QED
    BY <1>2, <1>3, <1>4, Zenon

\* A suspend lowers the replicas only when its pod is being deleted.
THEOREM SuspendDeletesFirst == Spec => []SuspendedPodIsDeleted
  <1>1. Init => SuspendInv
    BY TypeInit DEF Init, SuspendInv
  <1>2. SuspendInv => SuspendedPodIsDeleted
    BY Zenon DEF SuspendInv, SuspendedPodIsDeleted
  <1> QED
    BY <1>1, <1>2, SuspendStep, PTL DEF Spec
------------------------------------------------------------------------------
(***************************************************************************)
(* A failed resize.                                                        *)
(***************************************************************************)
\* How far the only resizer has come tells what the template is, and what it would
\* put back.
TraceAt(a) ==
    /\ pc[a] \in {"new", "prepare", "get", "reconcile", "write", "failed"} => obj.template = Template0
    /\ pc[a] \in {"reconcile", "write", "wait", "revert", "undo"} => updater[a].backup = <<Template0>>
    /\ pc[a] = "undo" => updater[a].read.template = Template0
    /\ pc[a] # "suspend"

\* Only resizes are reverted.
RevertsResizes == \A a \in Actions : pc[a] \in {"revert", "undo"} => Kind[a] = "resize"

\* Nothing has happened that a resize a does not answer for.
Alone(a) ==
    /\ failures = 0 /\ edits = 0 /\ ~paused
    /\ a \notin clashed /\ Kind[a] = "resize" /\ SoleResizer(a)

\* The inductive invariant behind FailedResizeLeavesNoTrace.
TraceInv ==
    /\ TypeOK /\ ReadInv /\ RevertsResizes
    /\ \A a \in Actions : Alone(a) => TraceAt(a)

\* Every step reverts resizes only.
LEMMA RevertsStep == ASSUME TypeOK, RevertsResizes, [Next]_vars PROVE RevertsResizes'
  <1>a. pc \in [Actions -> PCs]
    BY Zenon DEF TypeOK
  <1> SUFFICES ASSUME NEW b \in Actions, pc'[b] \in {"revert", "undo"}, pc[b] \notin {"revert", "undo"}
               PROVE  Kind[b] = "resize"
    BY Zenon DEF RevertsResizes
  <1>1. ASSUME NEW a \in Actions, ActionStep(a), a # b PROVE FALSE
    BY <1>1, <1>a, Zenon DEF ActionStep, GetLock, Prepare, Get, ReconcileReplicas, SuspendPod,
       ReconcileTemplate, Update, ShouldRollout, WaitForReplicas, RevertPanics, RevertGet,
       RevertUpdate, Goto, Return, GiveUp, Retry
  <1>2. ActionStep(b)
    BY <1>1, Zenon DEF Next, User, UserScales, UserEdits, PodGone, vars
  <1>3. ASSUME NEW to, to \notin {"revert", "undo"} PROVE ~Goto(b, to) /\ ~Return(b, to)
    BY <1>a, <1>3, Zenon DEF Goto, Return
  <1>4. CASE GiveUp(b) \/ Retry(b)
    <2>1. GiveUp(b)
      BY <1>3, <1>4, Zenon DEF Retry
    <2> QED
      BY <1>3, <2>1, Zenon DEF GiveUp
  <1>5. CASE GetLock(b) \/ Prepare(b) \/ Get(b)
    <2>1. pc' # [pc EXCEPT ![b] = "prepare"]
      BY <1>a, Zenon
    <2> QED
      BY <1>3, <1>4, <1>5, <2>1, Zenon DEF GetLock, Prepare, Get
  <1>6. CASE ReconcileReplicas(b) \/ SuspendPod(b) \/ ReconcileTemplate(b)
    BY <1>3, <1>4, <1>6, Zenon DEF ReconcileReplicas, SuspendPod, ReconcileTemplate
  <1>7. CASE Update(b) \/ ShouldRollout(b) \/ WaitForReplicas(b)
    BY <1>3, <1>4, <1>7, Zenon DEF Update, ShouldRollout, WaitForReplicas
  <1>8. CASE RevertPanics(b) \/ RevertGet(b) \/ RevertUpdate(b)
    BY <1>3, <1>8, Zenon DEF RevertPanics, RevertGet, RevertUpdate, At
  <1> QED
    BY <1>2, <1>5, <1>6, <1>7, <1>8, Zenon DEF ActionStep

\* Who answers for everything now did so before.
LEMMA AloneBefore == ASSUME TypeOK, [Next]_vars, NEW a \in Actions, Alone(a)' PROVE Alone(a) /\ ~Fail
  <1>a. /\ pc \in [Actions -> PCs] /\ applied \in [Actions -> Nat] /\ edits \in Nat /\ failures \in Nat
        /\ clashed \in SUBSET Actions
    BY ControllerAssumption DEF TypeOK
  <1>1. failures = 0 /\ ~paused /\ ~Fail /\ Kind[a] = "resize"
    BY Monotone DEF Alone
  <1>2. edits = 0
    <2>1. edits' = edits \/ edits' = edits + 1
      BY ZenonT(30) DEF Next, ActionStep, User, GetLock, Prepare, Get, ReconcileReplicas, SuspendPod,
         ReconcileTemplate, Update, ShouldRollout, WaitForReplicas, RevertPanics, RevertGet,
         RevertUpdate, PodGone, UserScales, UserEdits, vars, userVars
    <2> QED
      BY <1>a, <2>1, SMTT(30) DEF Alone
  <1>3. clashed \subseteq clashed'
    BY ZenonT(30) DEF Next, ActionStep, User, GetLock, Prepare, Get, ReconcileReplicas, SuspendPod,
       ReconcileTemplate, Update, ShouldRollout, WaitForReplicas, RevertPanics, RevertGet,
       RevertUpdate, PodGone, UserScales, UserEdits, vars, history
  <1>4. ASSUME NEW b \in Actions, applied'[b] = 0, pc'[b] \notin {"undo", "failed"}
        PROVE  applied[b] = 0 /\ pc[b] \notin {"undo", "failed"}
    <2>1. applied[b] = 0
      <3>1. applied' = applied \/ \E d \in Actions : applied' = [applied EXCEPT ![d] = @ + 1]
        BY ZenonT(30) DEF Next, ActionStep, User, GetLock, Prepare, Get, ReconcileReplicas, SuspendPod,
           ReconcileTemplate, Update, Apply, ShouldRollout, WaitForReplicas, RevertPanics, RevertGet,
           RevertUpdate, PodGone, UserScales, UserEdits, vars, history
      <3> QED
        BY <1>a, <1>4, <3>1, SMTT(30)
    <2>2. ASSUME NEW d \in Actions, ActionStep(d), pc[b] \in {"undo", "failed"} PROVE FALSE
      <3>1. CASE d # b
        BY <1>4, <2>2, <3>1, <1>a, ZenonT(30) DEF ActionStep, GetLock, Prepare, Get, ReconcileReplicas, SuspendPod,
           ReconcileTemplate, Update, ShouldRollout, WaitForReplicas, RevertPanics, RevertGet,
           RevertUpdate, Goto, Return, GiveUp, Retry
      <3>2. CASE d = b
        BY <1>4, <2>2, <3>2, <1>a, Zenon DEF ActionStep, GetLock, Prepare, Get, ReconcileReplicas, SuspendPod,
           ReconcileTemplate, Update, ShouldRollout, WaitForReplicas, RevertPanics, RevertGet,
           RevertUpdate, At, Return
      <3> QED
        BY <3>1, <3>2, Zenon
    <2>3. pc[b] \notin {"undo", "failed"}
      BY <1>4, <2>2, Zenon DEF Next, User, UserScales, UserEdits, PodGone, vars
    <2> QED
      BY <2>1, <2>3, Zenon
  <1>5. SoleResizer(a)
    BY <1>4, Zenon DEF Alone, SoleResizer
  <1> QED
    BY <1>1, <1>2, <1>3, <1>5, Zenon DEF Alone

\* What others do while a is the only resizer leaves the template alone.
LEMMA OthersTemplate ==
  ASSUME TypeOK, ReadInv, RevertsResizes, [Next]_vars, NEW a \in Actions, Alone(a), Alone(a)',
         NEW b \in Actions, a # b, ActionStep(b)
  PROVE  obj'.template = obj.template
  <1>a. obj \in Objects /\ updater \in [Actions -> Updaters] /\ applied \in [Actions -> Nat]
    BY Zenon DEF TypeOK
  <1>1. ASSUME At(b, "write"), Apply(b) PROVE obj'.template = obj.template
    <2>1. applied'[b] # 0
      BY <1>1, <1>a DEF Apply
    <2>2. Kind[b] # "resize"
      BY <2>1, Zenon DEF Alone, SoleResizer
    <2>3. b \in fresh /\ obj' = updater[b].read /\ pc[b] = "write"
      BY <1>1, Zenon DEF Apply, Accepts, Store, At
    <2>4. \A c \in Containers : updater[b].read.template[c] = obj.template[c]
      BY <2>2, <2>3, ControllerAssumption, Zenon DEF ReadInv, ReadAt
    <2>5. updater[b].read.template \in Templates /\ obj.template \in Templates
      BY <1>a, Zenon DEF Updaters, Objects
    <2>6. updater[b].read.template = obj.template
      BY <2>4, <2>5 DEF Templates
    <2> QED
      BY <2>3, <2>6, Zenon
  <1>2. CASE RevertUpdate(b)
    <2>1. Kind[b] = "resize" /\ pc[b] = "undo"
      BY <1>2, Zenon DEF RevertUpdate, At, RevertsResizes
    <2> QED
      BY <2>1, Zenon DEF Alone, SoleResizer
  <1>3. CASE Update(b)
    <2>1. obj' = obj \/ (At(b, "write") /\ Apply(b))
      BY <1>3, Zenon DEF Update, controller
    <2> QED
      BY <1>1, <2>1, Zenon
  <1> QED
    BY <1>2, <1>3, Zenon DEF ActionStep, GetLock, Prepare, Get, ReconcileReplicas, SuspendPod, ReconcileTemplate,
       ShouldRollout, WaitForReplicas, RevertPanics, RevertGet, controller

\* The template follows the only resizer.
LEMMA TraceStep ==
  ASSUME TraceInv, [Next]_vars, NEW a \in Actions, Alone(a)'
  PROVE  TraceAt(a)'
  <1>a. pc \in [Actions -> PCs] /\ updater \in [Actions -> Updaters] /\ obj \in Objects /\ updater[a] \in Updaters
    BY Zenon DEF TraceInv, TypeOK
  <1>b. Alone(a) /\ ~Fail /\ TraceAt(a)
    BY AloneBefore, Zenon DEF TraceInv
  <1>c. Kind[a] = "resize" /\ Diff(a) = 0 /\ ~paused
    BY <1>b, ControllerAssumption, Zenon DEF Alone, Diff
  <1>s. ASSUME pc'[a] = pc[a], updater'[a] = updater[a], obj'.template = obj.template PROVE TraceAt(a)'
    BY <1>s, <1>b, Zenon DEF TraceAt
  \* An error or the end of an attempt, before anything was written or after the wait.
  <1>r. ASSUME GiveUp(a) \/ Retry(a), updater[a].backup = <<Template0>>, obj' = obj,
               pc[a] = "wait" => GiveUp(a), pc[a] \in {"write", "wait"}
        PROVE  TraceAt(a)'
    <2>1. CASE GiveUp(a)
      BY <1>r, <2>1, <1>a, <1>c, Zenon DEF GiveUp, Goto, TraceAt
    <2>2. CASE ~GiveUp(a)
      <3>1. pc'[a] = "get" /\ pc[a] = "write"
        BY <1>r, <2>2, <1>a, Zenon DEF Retry, Goto
      <3> QED
        BY <1>r, <3>1, <1>b, Zenon DEF TraceAt
    <2> QED
      BY <2>1, <2>2, Zenon
  <1>1. ASSUME NEW b \in Actions, b # a, ActionStep(b) PROVE TraceAt(a)'
    <2>1. pc'[a] = pc[a] /\ updater'[a] = updater[a]
      BY <1>1, <1>a, Zenon DEF ActionStep, GetLock, Prepare, Get, ReconcileReplicas, SuspendPod,
         ReconcileTemplate, Update, ShouldRollout, WaitForReplicas, RevertPanics, RevertGet,
         RevertUpdate, Goto, Return, GiveUp, Retry
    <2>2. obj'.template = obj.template
      BY <1>1, <1>b, OthersTemplate, Zenon DEF TraceInv
    <2> QED
      BY <2>1, <2>2, <1>s, Zenon
  <1>2. CASE GetLock(a)
    <2>1. pc[a] = "new" /\ pc'[a] = "prepare" /\ obj' = obj
      BY <1>2, <1>a, <1>c, Zenon DEF GetLock, At, Goto, PodAction, controller
    <2> QED
      BY <2>1, <1>b, Zenon DEF TraceAt
  <1>3. CASE Prepare(a)
    <2>1. pc[a] = "prepare" /\ pc'[a] \in {"get", "failed"} /\ obj' = obj
      BY <1>3, <1>a, Zenon DEF Prepare, At, Goto, Return, controller
    <2> QED
      BY <2>1, <1>b, Zenon DEF TraceAt
  <1>4. CASE Get(a)
    <2>1. /\ pc[a] = "get" /\ pc'[a] = "reconcile" /\ obj' = obj
          /\ updater' = [updater EXCEPT ![a].read = obj, ![a].backup = <<obj.template>>]
      BY <1>4, <1>a, <1>b, Zenon DEF Get, At, Goto
    <2>2. updater'[a].backup = <<obj.template>>
      BY <2>1, <1>a, Zenon DEF Updaters
    <2> QED
      BY <2>1, <2>2, <1>b, Zenon DEF TraceAt
  <1>5. CASE ReconcileTemplate(a)
    <2>1. pc[a] = "reconcile" /\ obj' = obj
      BY <1>5, Zenon DEF ReconcileTemplate, At, controller
    <2>2. CASE Return(a, "succeeded")
      BY <2>2, <1>a, Zenon DEF Return, TraceAt
    <2>3. CASE /\ Goto(a, "write")
               /\ updater' = [updater EXCEPT ![a].read.template = Resized(a, @)]
      <3>1. pc'[a] = "write" /\ updater'[a].backup = updater[a].backup
        BY <2>3, <1>a, Zenon DEF Goto, Updaters
      <3> QED
        BY <2>1, <3>1, <1>b, Zenon DEF TraceAt
    <2> QED
      BY <1>5, <2>2, <2>3, Zenon DEF ReconcileTemplate
  <1>6. CASE Update(a)
    <2>1. pc[a] = "write" /\ updater[a].backup = <<Template0>>
      BY <1>6, <1>b, Zenon DEF Update, At, TraceAt
    <2>2. CASE Goto(a, "wait") /\ updater' = updater
      BY <2>1, <2>2, <1>a, Zenon DEF Goto, TraceAt
    <2>3. CASE Retry(a) /\ obj' = obj
      BY <2>1, <2>3, <1>r, Zenon
    <2> QED
      BY <1>6, <2>2, <2>3, <1>b, Zenon DEF Update, controller
  <1>7. CASE WaitForReplicas(a)
    <2>1. pc[a] = "wait" /\ obj' = obj /\ updater[a].backup = <<Template0>>
      BY <1>7, <1>b, Zenon DEF WaitForReplicas, At, controller, TraceAt
    <2>2. CASE Return(a, "succeeded")
      BY <2>2, <1>a, Zenon DEF Return, TraceAt
    <2>3. CASE GiveUp(a)
      BY <2>1, <2>3, <1>r, Zenon
    <2> QED
      BY <1>7, <2>2, <2>3, <1>b, Zenon DEF WaitForReplicas
  <1>8. CASE RevertGet(a)
    <2>1. pc[a] = "revert" /\ obj' = obj /\ updater[a].backup = <<Template0>> /\ updater[a].backup[1] = Template0
      BY <1>8, <1>b DEF RevertGet, At, TraceAt
    <2>2. CASE obj.template = updater[a].backup[1] /\ Return(a, "failed")
      BY <2>1, <2>2, <1>a, Zenon DEF Return, TraceAt
    <2>3. CASE /\ Goto(a, "undo")
               /\ updater' = [updater EXCEPT ![a].read = [obj EXCEPT !.template = updater[a].backup[1]]]
      <3>1. pc'[a] = "undo" /\ updater'[a].backup = updater[a].backup /\ updater'[a].read.template = Template0
        BY <2>1, <2>3, <1>a, Zenon DEF Goto, Updaters, Objects
      <3> QED
        BY <2>1, <3>1, Zenon DEF TraceAt
    <2> QED
      BY <1>8, <2>2, <2>3, <1>b, Zenon DEF RevertGet
  <1>9. CASE RevertUpdate(a)
    <2>1. pc[a] = "undo" /\ pc'[a] = "failed" /\ updater[a].read.template = Template0
      BY <1>9, <1>a, <1>b, Zenon DEF RevertUpdate, At, Return, TraceAt
    <2>2. a \notin clashed'
      BY Zenon DEF Alone
    <2>3. obj' = updater[a].read
      BY <1>9, <1>b, <2>2, Zenon DEF RevertUpdate, Store
    <2> QED
      BY <2>1, <2>3, Zenon DEF TraceAt
  <1>10. CASE ReconcileReplicas(a) \/ SuspendPod(a) \/ ShouldRollout(a) \/ RevertPanics(a)
    BY <1>10, <1>b, <1>c, Zenon DEF ReconcileReplicas, SuspendPod, ShouldRollout, RevertPanics, At, TraceAt
  <1>11. CASE User \/ UNCHANGED vars \/ \E b \in Actions : PodGone(b)
    <2>1. pc' = pc /\ updater' = updater
      BY <1>11, Zenon DEF User, UserScales, UserEdits, PodGone, vars
    <2>2. ASSUME NEW c \in Containers, UserEdits(c) PROVE FALSE
      BY <2>2, <1>b DEF UserEdits, Alone
    <2>3. ASSUME NEW n \in UserReplicas, UserScales(n) PROVE obj'.template = obj.template
      BY <2>3, <1>a, Zenon DEF UserScales, Store, Objects
    <2>4. obj'.template = obj.template
      BY <1>11, <2>2, <2>3, Zenon DEF User, PodGone, vars, controller
    <2> QED
      BY <2>1, <2>4, <1>s, Zenon
  <1>12. ASSUME ActionStep(a), ~RevertPanics(a) PROVE TraceAt(a)'
    BY <1>12, <1>2, <1>3, <1>4, <1>5, <1>6, <1>7, <1>8, <1>9, <1>10, Zenon DEF ActionStep
  <1> QED
    BY <1>1, <1>10, <1>11, <1>12, Zenon DEF Next

\* A resize that reports a failure has left the template as it was, whoever scales
\* the controller meanwhile, if no API call failed, no rollout was refused, no other
\* resize and no user wrote the template, and its revert met no conflict.
THEOREM FailedResizeIsUndone == Spec => []FailedResizeLeavesNoTrace
  <1>1. Init => TraceInv
    <2> SUFFICES ASSUME Init PROVE TraceInv
      BY Zenon
    <2>1. TypeOK /\ ReadInv
      BY ScalingInit, Zenon DEF ScalingInv
    <2>2. RevertsResizes /\ \A a \in Actions : TraceAt(a)
      BY Zenon DEF Init, Controller0, RevertsResizes, TraceAt
    <2> QED
      BY <2>1, <2>2, Zenon DEF TraceInv
  <1>2. TraceInv /\ [Next]_vars => TraceInv'
    BY TypeStep, ReadStep, RevertsStep, TraceStep, Zenon DEF TraceInv
  <1>3. TraceInv => FailedResizeLeavesNoTrace
    BY Zenon DEF TraceInv, Alone, TraceAt, FailedResizeLeavesNoTrace
  <1> QED
    BY <1>1, <1>2, <1>3, PTL DEF Spec

-----------------------------------------------------------------------------
(* Scaling of machine sets.                                                *)

MachineSets == [replicas : Int, observed : Int, version : Int]
MachineStates == [node : BOOLEAN, deleting : BOOLEAN, marked : BOOLEAN, broken : BOOLEAN]

\* Where an execution has neither marked a machine nor changed the set.
Early == {"start", "list", "claim", "check", "mark"}

\* Suspensions that have marked their machine and not changed the set yet.
Suspending == {r \in ScaleRequests : request[r].at = "update" /\ wanted[r].diff < 0}

MachineTypes ==
  /\ wanted \in [ScaleRequests -> [diff : {1, -1}, machine : FirstMachines \cup LaterMachines]]
  /\ machineSet \in MachineSets /\ scaled \subseteq ScaleRequests
  /\ IsFiniteSet(DOMAIN machines) /\ \A m \in DOMAIN machines : machines[m] \in MachineStates
  /\ DOMAIN request = ScaleRequests
  /\ \A r \in ScaleRequests :
       DOMAIN request[r] = {"at", "copy", "listed", "new", "waits"} /\ request[r].copy \in MachineSets

\* An execution whose copy has the version of the set has the set as it is; it
\* has changed it once at most, and has checked the bounds before.
CopyInv(r) ==
  /\ request[r].copy.version <= machineSet.version
  /\ request[r].copy.version = machineSet.version => request[r].copy = machineSet
  /\ request[r].at \in {"mark", "update"} => request[r].copy.replicas + wanted[r].diff \in MinNodes .. MaxNodes
  /\ request[r].at = "mark" => wanted[r].diff < 0
  /\ request[r].at \in Early \cup {"update"} => r \notin scaled

\* A machine is marked by a suspension of its own.
MarkInv ==
  /\ marks \subseteq DOMAIN machines \cup gone
  /\ \A m \in DOMAIN machines : machines[m].marked <=> m \in marks
  /\ \A m \in marks : \E r \in ScaleRequests :
       wanted[r].diff < 0 /\ wanted[r].machine = m /\ request[r].at \notin Early

SizeInv ==
  ~lagged => /\ machineSet.replicas = Cardinality(FirstMachines) + Machines!StoredDiff
             /\ machineSet.replicas \in MinNodes .. MaxNodes

\* There are no more machines without a mark than the set is to have after the
\* suspensions on their way, and a marked machine is left for each of those.
Spared ==
  /\ \A m \in DOMAIN machines : machines[m].deleting => m \in marks
  /\ Cardinality(Machines!Alive \ marks) + Cardinality(Suspending) <= machineSet.replicas
  /\ Cardinality(Suspending) <= Cardinality(Machines!Alive \cap marks)
TakeInv == ~lagged /\ ~Machines!Repeated => Spared

MachineInv == MachineTypes /\ (\A r \in ScaleRequests : CopyInv(r)) /\ MarkInv /\ SizeInv /\ TakeInv

LEMMA MachinesCardinality == \A S : Machines!Cardinality(S) = Cardinality(S)
  BY Zenon DEF Machines!Cardinality, Cardinality

LEMMA StoredDiffIs ==
  ASSUME NEW U, NEW D, U = {r \in scaled : wanted[r].diff > 0}, D = {r \in scaled : wanted[r].diff < 0}
  PROVE  Machines!StoredDiff = Cardinality(U) - Cardinality(D)
  BY MachinesCardinality, Zenon DEF Machines!StoredDiff

LEMMA MachineInit == Machines!Init => MachineInv
<1> SUFFICES ASSUME Machines!Init PROVE MachineInv
  BY Zenon
<1> DEFINE n == Cardinality(FirstMachines)
<1>0. /\ n \in Nat /\ machineSet = [replicas |-> n, observed |-> n, version |-> 0]
      /\ machines = [m \in FirstMachines |-> Machines!Ready] /\ DOMAIN request = ScaleRequests
      /\ \A r \in ScaleRequests : /\ request[r].at = "start" /\ request[r].copy = machineSet
                                   /\ DOMAIN request[r] = {"at", "copy", "listed", "new", "waits"}
      /\ scaled = {} /\ marks = {}
  BY ScaleAssumption, FS_CardinalityType, MachinesCardinality, Zenon DEF Machines!Init
<1>1. Machines!Ready \in MachineStates /\ ~Machines!Ready.marked /\ ~Machines!Ready.deleting
  BY Zenon DEF Machines!Ready, MachineStates
<1>2. MachineTypes
  <2>1. wanted \in [ScaleRequests -> [diff : {1, -1}, machine : FirstMachines \cup LaterMachines]]
    BY ScaleAssumption, Zenon DEF Machines!Init
  <2> QED
    BY <1>0, <1>1, <2>1, ScaleAssumption DEF MachineTypes, MachineSets
<1>3. ASSUME NEW r \in ScaleRequests PROVE CopyInv(r)
  BY <1>0 DEF CopyInv, MachineSets
<1>4. MarkInv
  BY <1>0, <1>1, Zenon DEF MarkInv
<1>5. SizeInv
  <2>1. Machines!StoredDiff = 0
    <3>1. PICK U, D : U = {r \in scaled : wanted[r].diff > 0} /\ D = {r \in scaled : wanted[r].diff < 0}
      BY Zenon
    <3>2. U = {} /\ D = {}
      BY <1>0, <3>1, Zenon
    <3>3. Cardinality(U) = 0 /\ Cardinality(D) = 0
      BY <3>2, FS_EmptySet, Zenon
    <3> QED
      BY <3>1, <3>3, StoredDiffIs
  <2> QED
    BY <1>0, <2>1, ScaleAssumption DEF SizeInv
<1>6. TakeInv
  <2>1. Suspending = {} /\ Cardinality(Suspending) = 0
    BY <1>0, FS_EmptySet, Zenon DEF Suspending
  <2>2. Machines!Alive \ marks = FirstMachines /\ Machines!Alive \cap marks = {}
    BY <1>0, <1>1, Zenon DEF Machines!Alive
  <2>3. Cardinality(Machines!Alive \cap marks) = 0 /\ Cardinality(Machines!Alive \ marks) = n
    BY <2>2, FS_EmptySet, Zenon
  <2> QED
    BY <1>0, <1>1, <2>1, <2>3 DEF TakeInv, Spared
<1> QED
  BY <1>2, <1>3, <1>4, <1>5, <1>6, Zenon DEF MachineInv

\* The sets that are counted.
LEMMA Counted ==
  ASSUME MachineTypes
  PROVE  /\ IsFiniteSet(Machines!Alive) /\ IsFiniteSet(Machines!Alive \ marks) /\ IsFiniteSet(Machines!Alive \cap marks)
         /\ IsFiniteSet(Suspending) /\ IsFiniteSet(scaled)
         /\ Cardinality(Machines!Alive) \in Nat /\ Cardinality(Machines!Alive \ marks) \in Nat
         /\ Cardinality(Machines!Alive \cap marks) \in Nat /\ Cardinality(Suspending) \in Nat
         /\ Cardinality(Machines!Alive) = Cardinality(Machines!Alive \ marks) + Cardinality(Machines!Alive \cap marks)
<1> DEFINE A == Machines!Alive
<1>1. IsFiniteSet(A)
  <2>1. A \in SUBSET (DOMAIN machines) /\ IsFiniteSet(DOMAIN machines)
    BY Zenon DEF MachineTypes, Machines!Alive
  <2> QED
    BY <2>1, FS_Subset, Zenon
<1>2. IsFiniteSet(A \ marks) /\ Cardinality(A \ marks) = Cardinality(A) - Cardinality(A \cap marks)
  BY <1>1, FS_Difference, Zenon
<1>3. IsFiniteSet(A \cap marks)
  BY <1>1, FS_Intersection, Zenon
<1>4. IsFiniteSet(Suspending) /\ IsFiniteSet(scaled)
  <2>1. Suspending \in SUBSET ScaleRequests /\ scaled \in SUBSET ScaleRequests
    BY Zenon DEF Suspending, MachineTypes
  <2> QED
    BY <2>1, ScaleAssumption, FS_Subset, Zenon
<1>5. /\ Cardinality(A) \in Nat /\ Cardinality(A \ marks) \in Nat /\ Cardinality(A \cap marks) \in Nat
      /\ Cardinality(Suspending) \in Nat
  BY <1>1, <1>2, <1>3, <1>4, FS_CardinalityType, Zenon
<1> QED
  BY <1>1, <1>2, <1>3, <1>4, <1>5

\* An execution moves on and leaves the machines and their set alone.
LEMMA MovesOn ==
  ASSUME MachineInv, NEW r \in ScaleRequests,
         UNCHANGED <<wanted, machineSet, machines, marks, gone, scaled, lagged>>,
         DOMAIN request' = ScaleRequests, \A q \in ScaleRequests \ {r} : request'[q] = request[q],
         DOMAIN request'[r] = DOMAIN request[r], request'[r].copy \in {request[r].copy, machineSet},
         request'[r].at \in Early \cup {"update"} => request[r].at \in Early,
         request'[r].at = "mark" => wanted[r].diff < 0, request'[r].at = "update" => wanted[r].diff > 0,
         request'[r].at \in {"mark", "update"} => request'[r].copy.replicas + wanted[r].diff \in MinNodes .. MaxNodes
  PROVE  MachineInv'
<1>1. MachineTypes'
  BY Zenon DEF MachineInv, MachineTypes
<1>2. ASSUME NEW q \in ScaleRequests PROVE CopyInv(q)'
  <2>1. CopyInv(q) /\ machineSet \in MachineSets
    BY Zenon DEF MachineInv, MachineTypes
  <2>2. CASE q # r
    BY <2>1, <2>2, Zenon DEF CopyInv
  <2>3. CASE q = r
    BY <2>1, <2>3, SMTT(30) DEF CopyInv, MachineSets
  <2> QED
    BY <2>2, <2>3, Zenon
<1>3. MarkInv'
  BY DEF MachineInv, MarkInv, Early
<1>4. SizeInv'
  BY Zenon DEF MachineInv, SizeInv, Machines!StoredDiff
<1>5. TakeInv'
  <2> SUFFICES ASSUME ~lagged, ~Machines!Repeated' PROVE Spared'
    BY Zenon DEF TakeInv
  <2>1. ~Machines!Repeated /\ Machines!Alive' = Machines!Alive
    BY Zenon DEF Machines!Repeated, Machines!Alive
  <2>2. Suspending' \in SUBSET Suspending
    BY DEF Suspending, MachineInv, MachineTypes
  <2>3. Cardinality(Suspending') <= Cardinality(Suspending) /\ Cardinality(Suspending') \in Nat
    BY <1>1, <2>2, Counted, FS_Subset, FS_CardinalityType, Zenon DEF MachineInv
  <2> QED
    BY <2>1, <2>3, Counted DEF MachineInv, MachineTypes, MachineSets, TakeInv, Spared
<1> QED
  BY <1>1, <1>2, <1>3, <1>4, <1>5, Zenon DEF MachineInv

\* A suspension marks its machine, which no other has marked.
LEMMA Marks ==
  ASSUME MachineInv, NEW r \in ScaleRequests, request[r].at = "mark", Machines!Found(r),
         machines' = [machines EXCEPT ![wanted[r].machine].marked = TRUE],
         marks' = marks \cup {wanted[r].machine}, Machines!Goto(r, "update"),
         UNCHANGED <<wanted, machineSet, gone, scaled, lagged>>
  PROVE  MachineInv'
<1> PICK m : m = wanted[r].machine
  BY Zenon
<1>0. /\ m \in DOMAIN machines /\ machines[m] \in MachineStates /\ wanted[r].diff < 0
      /\ wanted[r].diff \in {1, -1} /\ CopyInv(r)
  BY Zenon DEF MachineInv, MachineTypes, CopyInv, Machines!Found
<1>1. /\ DOMAIN request' = ScaleRequests /\ \A q \in ScaleRequests \ {r} : request'[q] = request[q]
      /\ request'[r].at = "update" /\ request'[r].copy = request[r].copy
      /\ DOMAIN request'[r] = DOMAIN request[r]
  BY Zenon DEF MachineInv, MachineTypes, Machines!Goto
<1>2. /\ DOMAIN machines' = DOMAIN machines /\ \A x \in DOMAIN machines \ {m} : machines'[x] = machines[x]
      /\ machines'[m] \in MachineStates /\ machines'[m].marked /\ (machines'[m].deleting <=> machines[m].deleting)
  BY <1>0, Zenon DEF MachineStates
<1>3. MachineTypes'
  BY <1>0, <1>1, <1>2 DEF MachineInv, MachineTypes
<1>4. ASSUME NEW q \in ScaleRequests PROVE CopyInv(q)'
  <2>1. CopyInv(q)
    BY Zenon DEF MachineInv
  <2>2. CASE q # r
    BY <1>1, <2>1, <2>2, Zenon DEF CopyInv
  <2>3. CASE q = r
    BY <1>0, <1>1, <2>3, Zenon DEF CopyInv, Early
  <2> QED
    BY <2>2, <2>3, Zenon
<1>5. MarkInv'
  <2>1. marks' \subseteq DOMAIN machines' \cup gone'
    BY <1>0, <1>2, Zenon DEF MachineInv, MarkInv
  <2>2. \A x \in DOMAIN machines' : machines'[x].marked <=> x \in marks'
    BY <1>2, Zenon DEF MachineInv, MarkInv
  <2>3. ASSUME NEW x \in marks'
        PROVE  \E q \in ScaleRequests : wanted[q].diff < 0 /\ wanted[q].machine = x /\ request'[q].at \notin Early
    <3>1. CASE x = m
      BY <1>0, <1>1, <3>1, Zenon DEF Early
    <3>2. CASE x # m
      <4>1. PICK q \in ScaleRequests : wanted[q].diff < 0 /\ wanted[q].machine = x /\ request[q].at \notin Early
        BY <3>2, Zenon DEF MachineInv, MarkInv
      <4>2. q # r
        BY <3>2, <4>1, Zenon
      <4> QED
        BY <1>1, <4>1, <4>2, Zenon
    <3> QED
      BY <3>1, <3>2, Zenon
  <2> QED
    BY <2>1, <2>2, <2>3, Zenon DEF MarkInv
<1>6. SizeInv'
  BY Zenon DEF MachineInv, SizeInv, Machines!StoredDiff
<1>7. TakeInv'
  <2> SUFFICES ASSUME ~lagged, ~Machines!Repeated' PROVE Spared'
    BY Zenon DEF TakeInv
  <2> DEFINE A == Machines!Alive
             S == Suspending
  <2>1. Spared /\ ~Machines!Repeated
    BY Zenon DEF MachineInv, TakeInv, Machines!Repeated
  <2>2. m \notin marks
    <3> SUFFICES ASSUME m \in marks PROVE FALSE
      BY Zenon
    <3>1. PICK q \in ScaleRequests : wanted[q].diff < 0 /\ wanted[q].machine = m /\ request[q].at \notin Early
      BY Zenon DEF MachineInv, MarkInv
    <3>2. q # r /\ wanted[q].diff = wanted[r].diff /\ wanted[q].machine = wanted[r].machine
      BY <1>0, <3>1 DEF Early, MachineInv, MachineTypes
    <3>3. wanted[q] = wanted[r]
      BY <3>2 DEF MachineInv, MachineTypes
    <3> QED
      BY <2>1, <3>2, <3>3, Zenon DEF Machines!Repeated
  <2>3. m \in A /\ A' = A
    BY <1>0, <1>2, <2>1, <2>2, Zenon DEF Spared, Machines!Alive
  <2>4. A' \ marks' = (A \ marks) \ {m} /\ A' \cap marks' = (A \cap marks) \cup {m}
    BY <2>3, Zenon
  <2>5. /\ Cardinality((A \ marks) \ {m}) = Cardinality(A \ marks) - 1
        /\ Cardinality((A \cap marks) \cup {m}) = Cardinality(A \cap marks) + 1
    <3>1. m \in A \ marks /\ m \notin A \cap marks /\ IsFiniteSet(A \ marks) /\ IsFiniteSet(A \cap marks)
      BY <2>2, <2>3, Counted, Zenon DEF MachineInv
    <3> QED
      BY <3>1, FS_AddElement, FS_RemoveElement, Zenon
  <2>6. S' = S \cup {r} /\ r \notin S
    BY <1>0, <1>1, Zenon DEF Suspending
  <2>7. Cardinality(S') = Cardinality(S) + 1
    BY <2>6, Counted, FS_AddElement, Zenon DEF MachineInv
  <2>8. \A x \in DOMAIN machines' : machines'[x].deleting => x \in marks'
    BY <1>2, <2>1, Zenon DEF Spared
  <2>9. /\ Cardinality(A' \ marks') + Cardinality(S') = Cardinality(A \ marks) + Cardinality(S)
        /\ Cardinality(A' \cap marks') = Cardinality(A \cap marks) + 1
    <3>1. Cardinality(A \ marks) \in Nat /\ Cardinality(S) \in Nat
      BY Counted, Zenon DEF MachineInv
    <3>2. Cardinality(A' \ marks') = Cardinality(A \ marks) - 1
      BY <2>4, <2>5, Zenon
    <3>3. Cardinality(A' \cap marks') = Cardinality(A \cap marks) + 1
      BY <2>4, <2>5, Zenon
    <3> QED
      BY <2>7, <3>1, <3>2, <3>3
  <2>10. Cardinality(A \cap marks) \in Nat /\ Cardinality(S) \in Nat
    BY Counted, Zenon DEF MachineInv
  <2> QED
    BY <2>1, <2>7, <2>8, <2>9, <2>10 DEF Spared
<1> QED
  BY <1>3, <1>4, <1>5, <1>6, <1>7, Zenon DEF MachineInv

\* The update of a copy that is the machine set as it is.
LEMMA Stores ==
  ASSUME MachineInv, NEW r \in ScaleRequests, request[r].at = "update",
         request[r].copy.version = machineSet.version, NEW stored, machineSet' = stored,
         stored = [machineSet EXCEPT !.replicas = request[r].copy.observed + wanted[r].diff, !.version = @ + 1],
         request' = [request EXCEPT ![r].at = "await", ![r].copy = stored], scaled' = scaled \cup {r},
         lagged' = (lagged \/ request[r].copy.observed # request[r].copy.replicas),
         UNCHANGED <<wanted, machines, marks, gone>>
  PROVE  MachineInv'
<1>0. /\ request[r].copy = machineSet /\ machineSet \in MachineSets /\ wanted[r].diff \in {1, -1}
      /\ r \notin scaled /\ machineSet.replicas + wanted[r].diff \in MinNodes .. MaxNodes
  BY Zenon DEF MachineInv, MachineTypes, CopyInv
<1>1. /\ stored \in MachineSets /\ stored.replicas = machineSet.observed + wanted[r].diff
      /\ stored.version = machineSet.version + 1
  <2>1. machineSet.observed + wanted[r].diff \in Int /\ machineSet.version + 1 \in Int
    BY <1>0 DEF MachineSets
  <2>2. stored = [machineSet EXCEPT !.replicas = machineSet.observed + wanted[r].diff, !.version = machineSet.version + 1]
    BY <1>0, Zenon DEF MachineSets
  <2> QED
    BY <1>0, <2>1, <2>2, Zenon DEF MachineSets
<1>2. /\ DOMAIN request' = ScaleRequests /\ \A q \in ScaleRequests \ {r} : request'[q] = request[q]
      /\ request'[r].at = "await" /\ request'[r].copy = stored /\ DOMAIN request'[r] = DOMAIN request[r]
  BY Zenon DEF MachineInv, MachineTypes
<1>3. ~lagged' => ~lagged /\ machineSet.observed = machineSet.replicas
  BY <1>0, Zenon
<1>4. MachineTypes'
  BY <1>1, <1>2, Zenon DEF MachineInv, MachineTypes
<1>5. ASSUME NEW q \in ScaleRequests PROVE CopyInv(q)'
  <2>1. CopyInv(q) /\ request[q].copy \in MachineSets
    BY Zenon DEF MachineInv, MachineTypes
  <2>2. CASE q # r
    BY <1>0, <1>1, <1>2, <2>1, <2>2, SMTT(30) DEF CopyInv, MachineSets
  <2>3. CASE q = r
    <3>0. stored.version \in Int
      BY <1>1, Zenon DEF MachineSets
    <3>1. stored.version <= stored.version
      BY <3>0
    <3> QED
      BY <1>2, <2>3, <3>1, Zenon DEF CopyInv, Early
  <2> QED
    BY <2>2, <2>3, Zenon
<1>6. MarkInv'
  <2>1. \A q \in ScaleRequests : request[q].at \notin Early => request'[q].at \notin Early
    BY <1>2, Zenon DEF Early
  <2> QED
    BY <2>1, Zenon DEF MachineInv, MarkInv
<1>7. SizeInv'
  <2> SUFFICES ASSUME ~lagged'
               PROVE  /\ machineSet'.replicas = Cardinality(FirstMachines) + Machines!StoredDiff'
                      /\ machineSet'.replicas \in MinNodes .. MaxNodes
    BY Zenon DEF SizeInv
  <2>1. PICK U, D : U = {q \in scaled : wanted[q].diff > 0} /\ D = {q \in scaled : wanted[q].diff < 0}
    BY Zenon
  <2>2. PICK V, E : V = {q \in scaled' : wanted'[q].diff > 0} /\ E = {q \in scaled' : wanted'[q].diff < 0}
    BY Zenon
  <2>3. /\ Machines!StoredDiff = Cardinality(U) - Cardinality(D)
        /\ Machines!StoredDiff' = Cardinality(V) - Cardinality(E)
    BY <2>1, <2>2, MachinesCardinality, Zenon DEF Machines!StoredDiff
  <2>4. /\ IsFiniteSet(U) /\ IsFiniteSet(D) /\ Cardinality(U) \in Nat /\ Cardinality(D) \in Nat
        /\ r \notin U /\ r \notin D
    <3>1. U \in SUBSET scaled /\ D \in SUBSET scaled /\ IsFiniteSet(scaled)
      BY <2>1, Counted, Zenon DEF MachineInv
    <3> QED
      BY <1>0, <3>1, FS_Subset, FS_CardinalityType, Zenon
  <2>5. Cardinality(V) - Cardinality(E) = Cardinality(U) - Cardinality(D) + wanted[r].diff
    <3>1. CASE wanted[r].diff = 1
      <4>1. V = U \cup {r} /\ E = D
        BY <2>1, <2>2, <3>1
      <4>2. Cardinality(V) = Cardinality(U) + 1
        BY <2>4, <4>1, FS_AddElement, Zenon
      <4> QED
        BY <2>4, <3>1, <4>1, <4>2, SMTT(30)
    <3>2. CASE wanted[r].diff = -1
      <4>1. V = U /\ E = D \cup {r}
        BY <2>1, <2>2, <3>2
      <4>2. Cardinality(E) = Cardinality(D) + 1
        BY <2>4, <4>1, FS_AddElement, Zenon
      <4> QED
        BY <2>4, <3>2, <4>1, <4>2, SMTT(30)
    <3> QED
      BY <1>0, <3>1, <3>2, Zenon
  <2>6. Cardinality(FirstMachines) \in Nat /\ wanted[r].diff \in Int
    BY <1>0, ScaleAssumption, FS_CardinalityType
  <2>7. machineSet.replicas = Cardinality(FirstMachines) + (Cardinality(U) - Cardinality(D))
    BY <1>3, <2>3, Zenon DEF MachineInv, SizeInv
  <2>8. machineSet'.replicas = machineSet.replicas + wanted[r].diff
    BY <1>1, <1>3, Zenon
  <2> QED
    BY <1>0, <2>3, <2>4, <2>5, <2>6, <2>7, <2>8, SMTT(30)
<1>8. TakeInv'
  <2> SUFFICES ASSUME ~lagged', ~Machines!Repeated' PROVE Spared'
    BY Zenon DEF TakeInv
  <2>1. Spared /\ Machines!Alive' = Machines!Alive
    BY <1>3, Zenon DEF MachineInv, TakeInv, Machines!Repeated, Machines!Alive
  <2>2. machineSet'.replicas = machineSet.replicas + wanted[r].diff
    BY <1>1, <1>3, Zenon
  <2>3. Suspending' = Suspending \ {r} /\ (r \in Suspending <=> wanted[r].diff = -1)
    BY <1>0, <1>2 DEF Suspending
  <2>4. Cardinality(Suspending \ {r}) = IF r \in Suspending THEN Cardinality(Suspending) - 1 ELSE Cardinality(Suspending)
    BY Counted, FS_RemoveElement, Zenon DEF MachineInv
  <2>5. /\ Cardinality(Suspending) \in Nat /\ machineSet.replicas \in Int
        /\ Cardinality(Machines!Alive \ marks) \in Nat /\ Cardinality(Machines!Alive \cap marks) \in Nat
    BY <1>0, Counted, Zenon DEF MachineInv, MachineSets
  <2>6. Cardinality(Suspending') = IF wanted[r].diff = -1 THEN Cardinality(Suspending) - 1 ELSE Cardinality(Suspending)
    BY <2>3, <2>4, Zenon
  <2> QED
    BY <1>0, <2>1, <2>2, <2>5, <2>6, SMTT(30) DEF Spared
<1> QED
  BY <1>4, <1>5, <1>6, <1>7, <1>8, Zenon DEF MachineInv

\* A step of the machine set controller that leaves the executor alone.
LEMMA ControllerStep ==
  ASSUME MachineInv, UNCHANGED <<wanted, request, scaled, lagged, marks>>,
         machineSet' \in MachineSets, machineSet'.replicas = machineSet.replicas,
         machineSet' = machineSet \/ machineSet'.version = machineSet.version + 1,
         IsFiniteSet(DOMAIN machines'), \A m \in DOMAIN machines' : machines'[m] \in MachineStates,
         marks \subseteq DOMAIN machines' \cup gone',
         \A m \in DOMAIN machines' : machines'[m].marked <=> m \in marks,
         ~lagged /\ ~Machines!Repeated => Spared'
  PROVE  MachineInv'
<1>1. MachineTypes'
  BY Zenon DEF MachineInv, MachineTypes
<1>2. ASSUME NEW r \in ScaleRequests PROVE CopyInv(r)'
  <2>1. CopyInv(r) /\ request[r].copy \in MachineSets /\ machineSet \in MachineSets
    BY Zenon DEF MachineInv, MachineTypes
  <2>2. CASE machineSet' = machineSet
    BY <2>1, <2>2, Zenon DEF CopyInv
  <2>3. CASE machineSet'.version = machineSet.version + 1
    BY <2>1, <2>3 DEF CopyInv, MachineSets
  <2> QED
    BY <2>2, <2>3, Zenon
<1>3. MarkInv'
  BY Zenon DEF MachineInv, MarkInv
<1>4. SizeInv'
  BY Zenon DEF MachineInv, SizeInv, Machines!StoredDiff
<1>5. TakeInv'
  BY Zenon DEF TakeInv, Machines!Repeated
<1> QED
  BY <1>1, <1>2, <1>3, <1>4, <1>5, Zenon DEF MachineInv

\* What is spared when the machines that count stay the same.
LEMMA SameMachines ==
  ASSUME Spared, UNCHANGED <<wanted, request, marks>>, machineSet'.replicas = machineSet.replicas,
         Machines!Alive' = Machines!Alive,
         \A m \in DOMAIN machines' : machines'[m].deleting => m \in marks
  PROVE  Spared'
<1>1. Suspending' = Suspending
  BY Zenon DEF Suspending
<1> QED
  BY <1>1, Zenon DEF Spared

\* Marked machines are deleted first, and enough of them are there.
LEMMA DeleteMachineStep ==
  ASSUME MachineInv, NEW m, Machines!DeleteMachine(m)
  PROVE  MachineInv'
<1> DEFINE A == Machines!Alive
<1>0. /\ UNCHANGED <<wanted, request, scaled, lagged, marks, machineSet, gone>> /\ m \in A
      /\ Cardinality(A) > machineSet.replicas /\ m \in DOMAIN machines /\ machines[m] \in MachineStates
      /\ machines[m].marked \/ \A x \in A : ~machines[x].marked
      /\ machines' = [machines EXCEPT ![m].deleting = TRUE] /\ machineSet \in MachineSets
  BY MachinesCardinality, Zenon DEF Machines!DeleteMachine, Machines!executor, Machines!Alive, MachineInv, MachineTypes
<1>1. /\ DOMAIN machines' = DOMAIN machines /\ \A x \in DOMAIN machines \ {m} : machines'[x] = machines[x]
      /\ machines'[m] \in MachineStates /\ machines'[m].deleting /\ (machines'[m].marked <=> machines[m].marked)
  BY <1>0, Zenon DEF MachineStates
<1>2. ASSUME ~lagged, ~Machines!Repeated PROVE Spared'
  <2>1. Spared /\ \A x \in DOMAIN machines : machines[x].marked <=> x \in marks
    BY <1>2, Zenon DEF MachineInv, TakeInv, MarkInv
  <2>2. /\ Cardinality(A \ marks) \in Nat /\ Cardinality(A \cap marks) \in Nat /\ Cardinality(Suspending) \in Nat
        /\ Cardinality(A) = Cardinality(A \ marks) + Cardinality(A \cap marks) /\ machineSet.replicas \in Int
        /\ IsFiniteSet(A \cap marks)
    BY <1>0, Counted, Zenon DEF MachineInv, MachineSets
  <2>3. Cardinality(Suspending) < Cardinality(A \cap marks)
    <3> HIDE DEF A
    <3> QED
      BY <1>0, <2>1, <2>2 DEF Spared, A
  <2>4. m \in marks
    <3> SUFFICES ASSUME m \notin marks PROVE FALSE
      BY Zenon
    <3>1. A \cap marks = {}
      BY <1>0, <2>1, Zenon DEF Machines!Alive
    <3>2. Cardinality(A \cap marks) = 0
      BY <3>1, FS_EmptySet, Zenon
    <3> QED
      BY <2>2, <2>3, <3>2
  <2>5. A' \ marks' = A \ marks /\ A' \cap marks' = (A \cap marks) \ {m}
    BY <1>0, <1>1, <2>4, Zenon DEF Machines!Alive
  <2>6. Cardinality((A \cap marks) \ {m}) = Cardinality(A \cap marks) - 1
    BY <1>0, <2>2, <2>4, FS_RemoveElement, Zenon
  <2>7. Suspending' = Suspending
    BY <1>0, Zenon DEF Suspending
  <2>8. \A x \in DOMAIN machines' : machines'[x].deleting => x \in marks'
    BY <1>0, <1>1, <2>1, <2>4, Zenon DEF Spared
  <2>9. Cardinality(A' \cap marks') = Cardinality(A \cap marks) - 1 /\ Cardinality(A' \ marks') = Cardinality(A \ marks)
    BY <2>5, <2>6, Zenon
  <2> QED
    BY <1>0, <2>1, <2>2, <2>3, <2>7, <2>8, <2>9, SMTT(30) DEF Spared
<1> QED
  BY <1>0, <1>1, <1>2, ControllerStep, Zenon DEF MachineInv, MachineTypes, MarkInv

\* A new machine has a name of its own and no mark.
LEMMA CreateMachineStep ==
  ASSUME MachineInv, NEW m, Machines!CreateMachine(m)
  PROVE  MachineInv'
<1> DEFINE A == Machines!Alive
<1>0. /\ UNCHANGED <<wanted, request, scaled, lagged, marks, machineSet, gone>> /\ m \notin DOMAIN machines
      /\ m \notin marks /\ Cardinality(A) < machineSet.replicas /\ machineSet \in MachineSets
  BY MachinesCardinality, Zenon DEF Machines!CreateMachine, Machines!executor, MachineInv, MachineTypes, MarkInv
<1>1. /\ DOMAIN machines' = DOMAIN machines \cup {m} /\ \A x \in DOMAIN machines : machines'[x] = machines[x]
      /\ machines'[m] \in MachineStates /\ ~machines'[m].deleting /\ ~machines'[m].marked
  <2>1. /\ [Machines!Ready EXCEPT !.node = FALSE] \in MachineStates
        /\ ~[Machines!Ready EXCEPT !.node = FALSE].deleting /\ ~[Machines!Ready EXCEPT !.node = FALSE].marked
    BY Zenon DEF Machines!Ready, MachineStates
  <2> QED
    BY <1>0, <2>1, Zenon DEF Machines!CreateMachine
<1>2. IsFiniteSet(DOMAIN machines')
  BY <1>1, FS_AddElement DEF MachineInv, MachineTypes
<1>3. ASSUME ~lagged, ~Machines!Repeated PROVE Spared'
  <2>1. Spared
    BY <1>3, Zenon DEF MachineInv, TakeInv
  <2>2. /\ Cardinality(A \ marks) \in Nat /\ Cardinality(A \cap marks) \in Nat /\ Cardinality(Suspending) \in Nat
        /\ Cardinality(A) = Cardinality(A \ marks) + Cardinality(A \cap marks) /\ machineSet.replicas \in Int
        /\ IsFiniteSet(A \ marks)
    BY <1>0, Counted, Zenon DEF MachineInv, MachineSets
  <2>3. A' \ marks' = (A \ marks) \cup {m} /\ m \notin A \ marks /\ A' \cap marks' = A \cap marks
    BY <1>0, <1>1, Zenon DEF Machines!Alive
  <2>4. Cardinality((A \ marks) \cup {m}) = Cardinality(A \ marks) + 1
    BY <2>2, <2>3, FS_AddElement, Zenon
  <2>5. Suspending' = Suspending
    BY <1>0, Zenon DEF Suspending
  <2>6. \A x \in DOMAIN machines' : machines'[x].deleting => x \in marks'
    BY <1>0, <1>1, <2>1, Zenon DEF Spared
  <2>7. Cardinality(A' \cap marks') = Cardinality(A \cap marks) /\ Cardinality(A' \ marks') = Cardinality(A \ marks) + 1
    BY <2>3, <2>4, Zenon
  <2> QED
    BY <1>0, <2>1, <2>2, <2>5, <2>6, <2>7, SMTT(30) DEF Spared
<1> QED
  BY <1>0, <1>1, <1>2, <1>3, ControllerStep, Zenon DEF MachineInv, MachineTypes, MarkInv

LEMMA RemoveMachineStep ==
  ASSUME MachineInv, NEW m, Machines!RemoveMachine(m)
  PROVE  MachineInv'
<1>0. /\ UNCHANGED <<wanted, request, scaled, lagged, marks, machineSet>> /\ gone' = gone \cup {m}
      /\ m \in DOMAIN machines /\ machines[m].deleting /\ machineSet \in MachineSets
  BY Zenon DEF Machines!RemoveMachine, Machines!executor, MachineInv, MachineTypes
<1>1. /\ DOMAIN machines' = DOMAIN machines \ {m}
      /\ \A x \in DOMAIN machines' : machines'[x] = machines[x]
  BY Zenon DEF Machines!RemoveMachine
<1>2. IsFiniteSet(DOMAIN machines')
  BY <1>1, FS_RemoveElement DEF MachineInv, MachineTypes
<1>3. Machines!Alive' = Machines!Alive
  BY <1>0, <1>1, Zenon DEF Machines!Alive
<1>4. ASSUME ~lagged, ~Machines!Repeated PROVE Spared'
  <2>1. Spared
    BY <1>4, Zenon DEF MachineInv, TakeInv
  <2>2. \A x \in DOMAIN machines' : machines'[x].deleting => x \in marks
    BY <1>1, <2>1, Zenon DEF Spared
  <2> QED
    BY <1>0, <1>3, <2>1, <2>2, SameMachines, Zenon
<1> QED
  BY <1>0, <1>1, <1>2, <1>4, ControllerStep, Zenon DEF MachineInv, MachineTypes, MarkInv

LEMMA SettleMachineStep ==
  ASSUME MachineInv, NEW m, Machines!SettleMachine(m)
  PROVE  MachineInv'
<1>0. /\ UNCHANGED <<wanted, request, scaled, lagged, marks, machineSet, gone>>
      /\ m \in DOMAIN machines /\ machines[m] \in MachineStates /\ machineSet \in MachineSets
      /\ machines' \in {[machines EXCEPT ![m].node = TRUE], [machines EXCEPT ![m].broken = TRUE]}
  BY Zenon DEF Machines!SettleMachine, Machines!executor, MachineInv, MachineTypes
<1>1. /\ DOMAIN machines' = DOMAIN machines /\ \A x \in DOMAIN machines \ {m} : machines'[x] = machines[x]
      /\ machines'[m] \in MachineStates /\ (machines'[m].deleting <=> machines[m].deleting)
      /\ (machines'[m].marked <=> machines[m].marked)
  BY <1>0, Zenon DEF MachineStates
<1>2. Machines!Alive' = Machines!Alive
  BY <1>0, <1>1, Zenon DEF Machines!Alive
<1>3. ASSUME ~lagged, ~Machines!Repeated PROVE Spared'
  <2>1. Spared
    BY <1>3, Zenon DEF MachineInv, TakeInv
  <2>2. \A x \in DOMAIN machines' : machines'[x].deleting => x \in marks
    BY <1>1, <2>1, Zenon DEF Spared
  <2> QED
    BY <1>0, <1>2, <2>1, <2>2, SameMachines, Zenon
<1> QED
  BY <1>0, <1>1, <1>3, ControllerStep, Zenon DEF MachineInv, MachineTypes, MarkInv

LEMMA UpdateStatusStep ==
  ASSUME MachineInv, Machines!UpdateStatus
  PROVE  MachineInv'
<1> PICK n : n = Machines!Cardinality(Machines!Alive)
  BY Zenon
<1>0. /\ UNCHANGED <<wanted, request, scaled, lagged, marks, machines, gone>>
      /\ machineSet' = [machineSet EXCEPT !.observed = n, !.version = @ + 1] /\ machineSet \in MachineSets
  BY Zenon DEF Machines!UpdateStatus, Machines!executor, MachineInv, MachineTypes
<1>1. n \in Int
  BY Counted, MachinesCardinality DEF MachineInv
<1>2. /\ machineSet' \in MachineSets /\ machineSet'.replicas = machineSet.replicas
      /\ machineSet'.version = machineSet.version + 1
  <2>1. machineSet.version + 1 \in Int
    BY <1>0 DEF MachineSets
  <2>2. machineSet' = [machineSet EXCEPT !.observed = n, !.version = machineSet.version + 1]
    BY <1>0, Zenon DEF MachineSets
  <2> QED
    BY <1>0, <1>1, <2>1, <2>2, Zenon DEF MachineSets
<1>3. ASSUME ~lagged, ~Machines!Repeated PROVE Spared'
  <2>1. Spared /\ Machines!Alive' = Machines!Alive
    BY <1>0, <1>3, Zenon DEF MachineInv, TakeInv, Machines!Alive
  <2> QED
    BY <1>0, <1>2, <2>1, SameMachines, Zenon DEF Spared
<1> QED
  BY <1>0, <1>2, <1>3, ControllerStep, Zenon DEF MachineInv, MachineTypes, MarkInv

\* An execution goes to another place, with the copy it has.
LEMMA GoesTo ==
  ASSUME MachineInv, NEW r \in ScaleRequests, NEW at, Machines!Goto(r, at),
         UNCHANGED <<wanted, machineSet, machines, marks, gone, scaled, lagged>>,
         at \in Early \cup {"update"} => request[r].at \in Early,
         at = "mark" => wanted[r].diff < 0, at = "update" => wanted[r].diff > 0,
         at \in {"mark", "update"} => request[r].copy.replicas + wanted[r].diff \in MinNodes .. MaxNodes
  PROVE  MachineInv'
<1>1. /\ DOMAIN request' = ScaleRequests /\ \A q \in ScaleRequests \ {r} : request'[q] = request[q]
      /\ request'[r].at = at /\ request'[r].copy = request[r].copy /\ DOMAIN request'[r] = DOMAIN request[r]
  BY Zenon DEF MachineInv, MachineTypes, Machines!Goto
<1> QED
  BY <1>1, MovesOn, Zenon

\* The ends of an execution, and the places where it only waits.
LEMMA Fails ==
  ASSUME MachineInv, NEW r \in ScaleRequests, Machines!Fail(r) \/ Machines!FailLocked(r) \/ Machines!Crash(r)
  PROVE  MachineInv'
<1>1. UNCHANGED <<wanted, machineSet, machines, marks, gone, scaled, lagged>>
  BY Zenon DEF Machines!Fail, Machines!FailLocked, Machines!Crash, Machines!cluster
<1>2. Machines!Goto(r, "failed") \/ Machines!Goto(r, "crashed")
  BY Zenon DEF Machines!Fail, Machines!FailLocked, Machines!EndLocked, Machines!Crash
<1> QED
  BY <1>1, <1>2, GoesTo, Zenon DEF Early

LEMMA Waits ==
  ASSUME MachineInv, NEW r \in ScaleRequests, NEW at, NEW holds, NEW next \in {"confirm", "final", "unlock"},
         at \in {"await", "created", "deleted"}, Machines!WaitForState(r, at, holds, next)
  PROVE  MachineInv'
<1>1. CASE Machines!FailLocked(r)
  BY <1>1, Fails, Zenon
<1>2. CASE ~Machines!FailLocked(r)
  <2>1. request[r].at = at /\ UNCHANGED <<wanted, machineSet, machines, marks, gone, scaled, lagged>>
    BY <1>2, Zenon DEF Machines!WaitForState, Machines!cluster, Machines!At
  <2>2. CASE Machines!Goto(r, next)
    BY <2>1, <2>2, GoesTo, Zenon DEF Early
  <2>3. CASE request' = [request EXCEPT ![r].waits = @ - 1]
    <3>1. /\ DOMAIN request' = ScaleRequests /\ \A q \in ScaleRequests \ {r} : request'[q] = request[q]
          /\ request'[r].at = at /\ request'[r].copy = request[r].copy /\ DOMAIN request'[r] = DOMAIN request[r]
      BY <2>1, <2>3, Zenon DEF MachineInv, MachineTypes
    <3> QED
      BY <2>1, <3>1, MovesOn, Zenon DEF Early
  <2> QED
    BY <1>2, <2>2, <2>3, Zenon DEF Machines!WaitForState
<1> QED
  BY <1>1, <1>2, Zenon

LEMMA MachineExecute ==
  ASSUME MachineInv, NEW r \in ScaleRequests, Machines!Execute(r)
  PROVE  MachineInv'
<1> DEFINE Quietly == UNCHANGED <<wanted, machineSet, machines, marks, gone, scaled, lagged>>
<1>0. ASSUME Machines!Fail(r) \/ Machines!FailLocked(r) \/ Machines!Crash(r) PROVE MachineInv'
  BY <1>0, Fails, Zenon
<1>1. CASE Machines!GetMachineSet(r)
  <2>1. CASE Machines!Fail(r) \/ Machines!Crash(r)
    BY <1>0, <2>1, Zenon
  <2>2. CASE request' = [request EXCEPT ![r].at = "list", ![r].copy = machineSet] /\ Quietly
    <3>1. /\ DOMAIN request' = ScaleRequests /\ \A q \in ScaleRequests \ {r} : request'[q] = request[q]
          /\ request'[r].at = "list" /\ request'[r].copy = machineSet /\ DOMAIN request'[r] = DOMAIN request[r]
      BY <2>2, Zenon DEF MachineInv, MachineTypes
    <3>2. request[r].at \in Early
      BY <1>1, Zenon DEF Machines!GetMachineSet, Machines!At, Early
    <3> QED
      BY <2>2, <3>1, <3>2, MovesOn, Zenon
  <2> QED
    BY <1>1, <2>1, <2>2, Zenon DEF Machines!GetMachineSet, Machines!cluster
<1>2. CASE Machines!FindKey(r)
  <2>1. CASE Machines!Fail(r)
    BY <1>0, <2>1, Zenon
  <2>2. CASE request' = [request EXCEPT ![r].at = "claim", ![r].listed = DOMAIN machines] /\ Quietly
    <3>1. /\ DOMAIN request' = ScaleRequests /\ \A q \in ScaleRequests \ {r} : request'[q] = request[q]
          /\ request'[r].at = "claim" /\ request'[r].copy = request[r].copy /\ DOMAIN request'[r] = DOMAIN request[r]
      BY <2>2, Zenon DEF MachineInv, MachineTypes
    <3>2. request[r].at \in Early
      BY <1>2, Zenon DEF Machines!FindKey, Machines!At, Early
    <3> QED
      BY <2>2, <3>1, <3>2, MovesOn, Zenon
  <2> QED
    BY <1>2, <2>1, <2>2, Zenon DEF Machines!FindKey, Machines!cluster
<1>3. CASE Machines!AddKey(r)
  BY <1>3, GoesTo, Zenon DEF Machines!AddKey, Machines!At, Machines!cluster, Early
<1>4. CASE Machines!CheckPreconditions(r)
  <2>1. CASE Machines!FailLocked(r)
    BY <1>0, <2>1, Zenon
  <2>2. CASE ~Machines!FailLocked(r)
    <3>1. /\ Quietly /\ Machines!Goto(r, IF wanted[r].diff < 0 THEN "mark" ELSE "update") /\ request[r].at \in Early
          /\ request[r].copy.replicas + wanted[r].diff \in MinNodes .. MaxNodes
      BY <1>4, <2>2, Zenon DEF Machines!CheckPreconditions, Machines!ResultingSizeInBounds, Machines!At, Machines!cluster, Early
    <3>2. wanted[r].diff \in {1, -1}
      BY Zenon DEF MachineInv, MachineTypes
    <3>3. CASE wanted[r].diff < 0
      BY <3>1, <3>3, GoesTo, Zenon
    <3>4. CASE wanted[r].diff > 0
      BY <3>1, <3>4, GoesTo, Zenon
    <3> QED
      BY <3>2, <3>3, <3>4
  <2> QED
    BY <2>1, <2>2, Zenon
<1>5. CASE Machines!MarkMachine(r)
  <2>1. CASE Machines!FailLocked(r) \/ Machines!Crash(r)
    BY <1>0, <2>1, Zenon
  <2>2. CASE ~(Machines!FailLocked(r) \/ Machines!Crash(r))
    BY <1>5, <2>2, Marks, ZenonT(30) DEF Machines!MarkMachine, Machines!At
  <2> QED
    BY <2>1, <2>2, Zenon
<1>6. CASE Machines!UpdateMachineSet(r)
  <2>1. CASE Machines!FailLocked(r)
    BY <1>0, <2>1, Zenon
  <2>2. CASE ~Machines!FailLocked(r)
    <3> PICK stored : stored = [machineSet EXCEPT !.replicas = request[r].copy.observed + wanted[r].diff, !.version = @ + 1]
      BY Zenon
    <3> QED
      BY <1>6, <2>2, Stores, Zenon DEF Machines!UpdateMachineSet, Machines!At
  <2> QED
    BY <2>1, <2>2, Zenon
<1>7. CASE Machines!AwaitReplicas(r)
  BY <1>7, Waits, ZenonT(30) DEF Machines!AwaitReplicas
<1>8. CASE Machines!Confirm(r)
  <2>1. CASE Machines!FailLocked(r)
    BY <1>0, <2>1, Zenon
  <2>2. CASE ~Machines!FailLocked(r)
    <3>1. /\ Quietly /\ request[r].at = "confirm"
          /\ \/ request' = [request EXCEPT ![r].at = "deleted", ![r].waits = ScaleWaits]
             \/ \E m : request' = [request EXCEPT ![r].at = "created", ![r].new = {m}, ![r].waits = ScaleWaits]
      BY <1>8, <2>2, Zenon DEF Machines!Confirm, Machines!At, Machines!cluster
    <3>2. /\ DOMAIN request' = ScaleRequests /\ \A q \in ScaleRequests \ {r} : request'[q] = request[q]
          /\ request'[r].at \in {"deleted", "created"} /\ request'[r].copy = request[r].copy
          /\ DOMAIN request'[r] = DOMAIN request[r]
      <4>0. DOMAIN request = ScaleRequests
        BY Zenon DEF MachineInv, MachineTypes
      <4>1. CASE request' = [request EXCEPT ![r].at = "deleted", ![r].waits = ScaleWaits]
        BY <4>0, <4>1, Zenon DEF MachineInv, MachineTypes
      <4>2. ASSUME NEW m, request' = [request EXCEPT ![r].at = "created", ![r].new = {m}, ![r].waits = ScaleWaits]
            PROVE  /\ DOMAIN request' = ScaleRequests /\ \A q \in ScaleRequests \ {r} : request'[q] = request[q]
                   /\ request'[r].at = "created" /\ request'[r].copy = request[r].copy
                   /\ DOMAIN request'[r] = DOMAIN request[r]
        BY <4>0, <4>2, Zenon DEF MachineInv, MachineTypes
      <4> QED
        BY <3>1, <4>1, <4>2, Zenon
    <3> QED
      BY <3>1, <3>2, MovesOn, Zenon DEF Early
  <2> QED
    BY <2>1, <2>2, Zenon
<1>9. CASE Machines!AwaitProvisioning(r)
  BY <1>9, Waits, Zenon DEF Machines!AwaitProvisioning
<1>10. CASE Machines!FinishProvisioning(r)
  <2>1. CASE Machines!FailLocked(r) \/ Machines!Crash(r)
    BY <1>0, <2>1, Zenon
  <2>2. CASE Machines!EndLocked(r, "done") /\ Quietly
    BY <2>2, GoesTo, Zenon DEF Machines!EndLocked, Early
  <2> QED
    BY <1>10, <2>1, <2>2, Zenon DEF Machines!FinishProvisioning, Machines!cluster
<1>11. CASE Machines!AwaitDeprovisioning(r)
  BY <1>11, Waits, Zenon DEF Machines!AwaitDeprovisioning
<1>12. CASE Machines!Unlock(r)
  BY <1>12, GoesTo, Zenon DEF Machines!Unlock, Machines!EndLocked, Machines!cluster, Early
<1> QED
  BY <1>1, <1>2, <1>3, <1>4, <1>5, <1>6, <1>7, <1>8, <1>9, <1>10, <1>11, <1>12, Zenon DEF Machines!Execute

LEMMA MachineStep ==
  ASSUME MachineInv, [Machines!Next]_(Machines!vars)
  PROVE  MachineInv'
<1>1. CASE \E r \in ScaleRequests : Machines!Execute(r)
  BY <1>1, MachineExecute, Zenon
<1>2. CASE Machines!UpdateStatus
  BY <1>2, UpdateStatusStep, Zenon
<1>3. ASSUME NEW m, \/ Machines!CreateMachine(m) \/ Machines!DeleteMachine(m)
                    \/ Machines!RemoveMachine(m) \/ Machines!SettleMachine(m)
      PROVE  MachineInv'
  BY <1>3, CreateMachineStep, DeleteMachineStep, RemoveMachineStep, SettleMachineStep, Zenon
<1>4. CASE UNCHANGED Machines!vars
  <2>1. /\ UNCHANGED <<wanted, request, scaled, lagged, marks, machineSet, machines, gone>>
        /\ Machines!Alive' = Machines!Alive /\ machineSet \in MachineSets
    BY <1>4, Zenon DEF Machines!vars, Machines!Alive, MachineInv, MachineTypes
  <2>2. ASSUME ~lagged, ~Machines!Repeated PROVE Spared'
    BY <2>1, <2>2, SameMachines, Zenon DEF MachineInv, TakeInv, Spared
  <2> QED
    BY <2>1, <2>2, ControllerStep, Zenon DEF MachineInv, MachineTypes, MarkInv
<1> QED
  BY <1>1, <1>2, <1>3, <1>4, Zenon DEF Machines!Next, Machines!Controller, Machines!Rest

\* The invariant behind the theorems below.
THEOREM MachineInvariant == Machines!Spec => []MachineInv
<1>1. MachineInv /\ [Machines!Next]_(Machines!vars) => MachineInv'
  BY MachineStep, Zenon
<1> QED
  BY <1>1, MachineInit, PTL DEF Machines!Spec

\* The size of a machine set is what the stored updates add up to, and within
\* the configured bounds (executeAction of the machine scaler), although two
\* executions may both take the key; unless one was computed from a status
\* behind the spec.
THEOREM ScalesAddUp == Machines!Spec => []NoScaleLost
<1>1. MachineInv => NoScaleLost
  BY MachinesCardinality, Zenon DEF MachineInv, SizeInv, NoScaleLost, Machines!NoScaleLost
<1> QED
  BY <1>1, MachineInvariant, PTL

\* The machine set controller deletes no machine but those that suspensions have
\* marked, for any number of requests that overlap, fail half-way and leave
\* their mark behind.
THEOREM MarkedMachinesGo == Machines!Spec => []OnlyMarkedDeleted
<1>1. MachineInv => OnlyMarkedDeleted
  BY Zenon DEF MachineInv, TakeInv, Spared, OnlyMarkedDeleted, Machines!OnlyMarkedDeleted
<1> QED
  BY <1>1, MachineInvariant, PTL
=============================================================================
