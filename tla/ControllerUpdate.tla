--------------------------- MODULE ControllerUpdate ---------------------------
(***************************************************************************)
(* Actions that change a workload controller: pod provision and suspend,   *)
(* controller scale and controller resize, from ActionHandler.execute      *)
(* through HorizontalScaler and WorkloadControllerResizer to               *)
(* k8sControllerUpdater and parentController.                              *)
(*                                                                         *)
(* The controller is one object of the API server, which refuses an update *)
(* made from an old resourceVersion.  Users and autoscalers write it too.  *)
(* The pod actions hold the lock that LeaseLock implements, the controller *)
(* actions hold none.                                                      *)
(***************************************************************************)
EXTENDS Resize

CONSTANTS Actions,      \* actions on the one controller
          NoAction,     \* the lock is free
          Kind,         \* Kind[a]: "provision", "suspend", "scale" or "resize"
          ScaleBy,      \* ScaleBy[a]: new minus current NUMBER_REPLICAS of a scale
          Containers,   \* containers of the pod template
          Items,        \* Items[a][c]: the action items of a resize for container c
          Replicas0,    \* the controller before any action
          Template0,
          UserAmount,   \* what a user sets a limit to
          Attempts,     \* DefaultExecutionRetry
          Pauses,       \* the values of paused to look at
          UserReplicas, \* what users and autoscalers scale to
          MaxFailures,  \* bound on the API calls that fail
          MaxWrites     \* bound on the writes of users

ASSUME ControllerAssumption ==
    /\ NoAction \notin Actions
    /\ Kind \in [Actions -> {"provision", "suspend", "scale", "resize"}]
    /\ ScaleBy \in [Actions -> Int]
    /\ Items \in [Actions -> [Containers -> Seq(ItemSet)]]
    /\ \A a \in Actions, c \in Containers : Kind[a] # "resize" => Items[a][c] = <<>>
    /\ Replicas0 \in Nat
    /\ Template0 \in [Containers -> ContainerSpecs]
    /\ UserAmount \in Nat
    /\ Attempts \in Nat \ {0}
    /\ Pauses \subseteq BOOLEAN
    /\ UserReplicas \subseteq Nat /\ MaxFailures \in Nat /\ MaxWrites \in Nat

VARIABLES
    obj,       \* the controller: replicas and template
    fresh,     \* actions that have the latest resourceVersion of the controller
    pod,       \* pod[a]: the target pod of a, "running", "terminating" or "gone"
    lock,      \* the pod action that has the lock of the controller
    pc,        \* pc[a]: how far action a has come
    updater,   \* updater[a]: the k8sControllerUpdater of a, see Updaters
    crashed,   \* kubeturbo has panicked
    paused,    \* a DeploymentConfig without triggers that is paused; never changes
    applied,   \* applied[a]: updates of a that the API server carried out (history)
    expected,  \* replicas if every scaling carried out counts (history)
    clashed,   \* resizes whose revert met a conflict (history)
    failures, scales, edits

controller == <<obj, fresh>>
history == <<applied, expected, clashed>>
userVars == <<scales, edits>>
vars == <<controller, pod, lock, pc, updater, crashed, paused, history, failures, userVars>>

\* isPodRelevantAction
PodAction(a) == Kind[a] \in {"provision", "suspend"}

\* getReplicaDiff; a resize has none.
Diff(a) == CASE Kind[a] = "provision" -> 1
             [] Kind[a] = "suspend" -> -1
             [] Kind[a] = "scale" -> ScaleBy[a]
             [] OTHER -> 0

Controller0 == [replicas |-> Replicas0, template |-> Template0]
NoUpdater == [specs |-> [c \in Containers |-> <<>>], read |-> Controller0, backup |-> <<>>, tries |-> 0]

Init ==
    /\ obj = Controller0
    /\ fresh = {}
    /\ pod = [a \in Actions |-> "running"]
    /\ lock = NoAction
    /\ pc = [a \in Actions |-> "new"]
    /\ updater = [a \in Actions |-> NoUpdater]
    /\ crashed = FALSE
    /\ paused \in Pauses
    /\ applied = [a \in Actions |-> 0]
    /\ expected = Replicas0
    /\ clashed = {}
    /\ failures = 0 /\ scales = 0 /\ edits = 0

\* An API call fails.
Fail == failures < MaxFailures /\ failures' = failures + 1

At(a, here) == ~crashed /\ pc[a] = here

Goto(a, to) == pc' = [pc EXCEPT ![a] = to] /\ UNCHANGED lock

\* Execute returns, the deferred ReleaseLock runs, the result goes to the server
\* and the updater is garbage.
Return(a, answer) ==
    /\ pc' = [pc EXCEPT ![a] = answer]
    /\ lock' = IF lock = a THEN NoAction ELSE lock
    /\ updater' = [updater EXCEPT ![a] = NoUpdater]

\* execute: a pod action gets the lock or gives up, a controller action goes on.
GetLock(a) ==
    /\ At(a, "new")
    /\ \/ ~PodAction(a) /\ Goto(a, "prepare")
       \/ PodAction(a) /\ lock = NoAction /\ lock' = a /\ pc' = [pc EXCEPT ![a] = "prepare"]
       \/ PodAction(a) /\ lock # NoAction /\ Goto(a, "failed")
    /\ UNCHANGED <<controller, pod, updater, crashed, paused, history, failures, userVars>>

\* The specifications that WorkloadControllerResizer.Execute makes from the
\* controller as it finds it.
BuildSpecs(a) ==
    [c \in Containers |->
        [i \in DOMAIN Items[a][c] |-> BuildResizeSpec(Items[a][c][i], obj.template[c])]]

NothingToResize(a) ==
    \E c \in Containers : \E i \in DOMAIN Items[a][c] : EmptySpec(BuildSpecs(a)[c][i])

\* Pod action: getRelatedPod, and the updater is made from the pod's owner.  Resizer:
\* the details of the controller are read and the specifications built; limit
\* ranges are checked, quotas are raised (QuotaAccess).  Nothing of it touches the
\* controller, and any part may fail.
Prepare(a) ==
    /\ At(a, "prepare")
    /\ \/ /\ ~NothingToResize(a)
          /\ Goto(a, "get")
          /\ updater' = [updater EXCEPT ![a].specs = BuildSpecs(a)]
          /\ UNCHANGED failures
       \/ NothingToResize(a) /\ Return(a, "failed") /\ UNCHANGED failures
       \/ Return(a, "failed") /\ Fail
    /\ UNCHANGED <<controller, pod, crashed, paused, history, userVars>>

\* Mutant: a failed resize is not reverted.
GiveUpKeeps(a) == Return(a, "failed")

\* updateWithRetry has failed: only the controller resizer reverts.
GiveUp(a) ==
    \/ Kind[a] # "resize" /\ Return(a, "failed")
    \/ Kind[a] = "resize" /\ Goto(a, "revert") /\ UNCHANGED updater

\* Mutant: the attempts are not counted.
RetryForever(a) == Goto(a, "get") /\ UNCHANGED updater

\* RetryDuring after an error: another attempt, or the end because it was the
\* last or the time is up.
Retry(a) ==
    \/ /\ updater[a].tries < Attempts - 1
       /\ Goto(a, "get")
       /\ updater' = [updater EXCEPT ![a].tries = @ + 1]
    \/ GiveUp(a)

\* Mutant: the replicas come from an earlier read.
GetOldReplicas(a) ==
    /\ At(a, "get")
    /\ Goto(a, "reconcile")
    /\ updater' = [updater EXCEPT ![a].read.template = obj.template, ![a].backup = <<obj.template>>]
    /\ fresh' = fresh \cup {a}
    /\ UNCHANGED <<obj, pod, crashed, paused, history, failures, userVars>>

\* parentController.get: every attempt replaces the object and its backup.
Get(a) ==
    /\ At(a, "get")
    /\ \/ /\ Goto(a, "reconcile")
          /\ updater' = [updater EXCEPT ![a].read = obj, ![a].backup = <<obj.template>>]
          /\ fresh' = fresh \cup {a}
          /\ UNCHANGED failures
       \/ Retry(a) /\ Fail /\ UNCHANGED fresh
    /\ UNCHANGED <<obj, pod, crashed, paused, history, userVars>>

\* reconcile for a scaling: suspendOrProvision checks the new number before it
\* suspends the pod, if the action has one.
ReconcileReplicas(a) ==
    LET num == updater[a].read.replicas + Diff(a)
    IN  /\ At(a, "reconcile") /\ Diff(a) # 0
        /\ \/ num < 1 /\ Retry(a)
           \/ /\ num >= 1
              /\ Goto(a, IF Kind[a] = "suspend" THEN "suspend" ELSE "write")
              /\ updater' = [updater EXCEPT ![a].read.replicas = num]
        /\ UNCHANGED <<controller, pod, crashed, paused, history, failures, userVars>>

\* suspendPod: Get and Delete, either of which may fail; the answer of the Delete
\* may be lost.
SuspendPod(a) ==
    /\ At(a, "suspend")
    /\ \/ /\ pod[a] # "gone" /\ Goto(a, "write")
          /\ pod' = [pod EXCEPT ![a] = "terminating"]
          /\ UNCHANGED <<updater, failures>>
       \/ pod[a] = "gone" /\ Retry(a) /\ UNCHANGED <<pod, failures>>
       \/ /\ pod[a] # "gone" /\ Retry(a) /\ Fail
          /\ pod' \in {pod, [pod EXCEPT ![a] = "terminating"]}
    /\ UNCHANGED <<controller, crashed, paused, history, userVars>>

Resized(a, template) ==
    [c \in Containers |-> UpdateResourceAmount(template[c], updater[a].specs[c]).container]

Changed(a, template) ==
    \E c \in Containers : UpdateResourceAmount(template[c], updater[a].specs[c]).changed

\* reconcile for a resize: if nothing counts as changed, update returns no error.
ReconcileTemplate(a) ==
    /\ At(a, "reconcile") /\ Diff(a) = 0
    /\ \/ /\ Changed(a, updater[a].read.template)
          /\ Goto(a, "write")
          /\ updater' = [updater EXCEPT ![a].read.template = Resized(a, @)]
       \/ ~Changed(a, updater[a].read.template) /\ Return(a, "succeeded")
    /\ UNCHANGED <<controller, pod, crashed, paused, history, failures, userVars>>

\* The API server takes no update whose containers are not valid.
Valid(new) == \A c \in Containers : CheckLimitsRequests(new.template[c])

\* A write gives the controller a new resourceVersion.
Store(new) == obj' = new /\ fresh' = {}

\* The API server takes an update of a if it is made from the latest version.
Accepts(a) == a \in fresh /\ Valid(updater[a].read)

\* The API server carries the update of a out.
Apply(a) ==
    /\ Accepts(a)
    /\ Store(updater[a].read)
    /\ applied' = [applied EXCEPT ![a] = @ + 1]
    /\ expected' = expected + Diff(a)

\* parentController.update, for a controller that neither GitOps nor an operator
\* manages: carried out; refused; failed on the way; the answer lost.
Update(a) ==
    /\ At(a, "write")
    /\ \/ Apply(a) /\ Goto(a, "wait") /\ UNCHANGED <<updater, failures>>
       \/ ~Accepts(a) /\ Retry(a) /\ UNCHANGED <<controller, applied, expected, failures>>
       \/ Retry(a) /\ Fail /\ (Apply(a) \/ UNCHANGED <<controller, applied, expected>>)
    /\ UNCHANGED <<pod, crashed, paused, clashed, userVars>>

\* shouldRolloutDeploymentConfig: a rollout that is needed and paused is an error.
ShouldRollout(a) ==
    /\ At(a, "wait") /\ paused
    /\ Retry(a)
    /\ UNCHANGED <<controller, pod, crashed, paused, history, failures, userVars>>

\* rolloutDeploymentConfig and waitForAllNewReplicasToBeCreated: the replicas are
\* there; a call fails, which is retried; a quota forbids them, or ten minutes
\* pass, more than RetryDuring allows.
WaitForReplicas(a) ==
    /\ At(a, "wait") /\ ~paused
    /\ \/ Return(a, "succeeded") /\ UNCHANGED failures
       \/ Retry(a) /\ Fail
       \/ GiveUp(a) /\ UNCHANGED failures
    /\ UNCHANGED <<controller, pod, crashed, paused, history, userVars>>

\* revert reads backupObj, which is nil if no get has succeeded.
RevertPanics(a) ==
    /\ At(a, "revert") /\ updater[a].backup = <<>>
    /\ crashed' = TRUE
    /\ UNCHANGED <<controller, pod, lock, pc, updater, paused, history, failures, userVars>>

\* revert: a fresh Get; no update if the template is the old one.
RevertGet(a) ==
    /\ At(a, "revert") /\ updater[a].backup # <<>>
    /\ \/ /\ obj.template # updater[a].backup[1]
          /\ Goto(a, "undo")
          /\ updater' = [updater EXCEPT ![a].read = [obj EXCEPT !.template = updater[a].backup[1]]]
          /\ fresh' = fresh \cup {a}
          /\ UNCHANGED failures
       \/ obj.template = updater[a].backup[1] /\ Return(a, "failed") /\ UNCHANGED <<fresh, failures>>
       \/ Return(a, "failed") /\ Fail /\ UNCHANGED fresh
    /\ UNCHANGED <<obj, pod, crashed, paused, history, userVars>>

\* revert: the Update, tried once.
RevertUpdate(a) ==
    /\ At(a, "undo")
    /\ Return(a, "failed")
    /\ \/ Accepts(a) /\ Store(updater[a].read) /\ UNCHANGED <<clashed, failures>>
       \/ ~Accepts(a) /\ clashed' = clashed \cup {a} /\ UNCHANGED <<controller, failures>>
       \/ Fail /\ UNCHANGED <<controller, clashed>>
    /\ UNCHANGED <<pod, crashed, paused, applied, expected, userVars>>

ActionStep(a) ==
    \/ GetLock(a) \/ Prepare(a) \/ Get(a)
    \/ ReconcileReplicas(a) \/ SuspendPod(a) \/ ReconcileTemplate(a) \/ Update(a)
    \/ ShouldRollout(a) \/ WaitForReplicas(a)
    \/ RevertPanics(a) \/ RevertGet(a) \/ RevertUpdate(a)

\* A pod that is being deleted is gone some time later.
PodGone(a) ==
    /\ pod[a] = "terminating"
    /\ pod' = [pod EXCEPT ![a] = "gone"]
    /\ UNCHANGED <<controller, lock, pc, updater, crashed, paused, history, failures, userVars>>

\* A user or an autoscaler sets the replicas.
UserScales(n) ==
    /\ scales + edits < MaxWrites /\ n # obj.replicas
    /\ scales' = scales + 1
    /\ Store([obj EXCEPT !.replicas = n])
    /\ expected' = expected + n - obj.replicas
    /\ UNCHANGED <<pod, lock, pc, updater, crashed, paused, applied, clashed, failures, edits>>

\* A user changes the limit of a container.
UserEdits(c) ==
    LET new == [obj EXCEPT !.template[c].limit = UserAmount]
    IN  /\ scales + edits < MaxWrites /\ new # obj /\ Valid(new)
        /\ edits' = edits + 1
        /\ Store(new)
        /\ UNCHANGED <<pod, lock, pc, updater, crashed, paused, history, failures, scales>>

User == (\E n \in UserReplicas : UserScales(n)) \/ (\E c \in Containers : UserEdits(c))

Next == (\E a \in Actions : ActionStep(a) \/ PodGone(a)) \/ User

\* As long as an action can go on, some action does; a weaker assumption than that
\* every goroutine runs.
Fairness == WF_vars(\E a \in Actions : ActionStep(a))

Spec == Init /\ [][Next]_vars
FairSpec == Spec /\ Fairness
------------------------------------------------------------------------------
PCs == {"new", "prepare", "get", "reconcile", "suspend", "write", "wait",
        "revert", "undo", "succeeded", "failed"}
Templates == [Containers -> ContainerSpecs]
Objects == [replicas : Int, template : Templates]

\* The resize specifications, parentController.obj with the changes of reconcile,
\* the template of backupObj (none if it is nil) and the attempts made.
Updaters == [specs : [Containers -> Seq(ResizeSpecs)], read : Objects,
             backup : Seq(Templates), tries : 0..(Attempts - 1)]

\* The values the state can take.
TypeOK ==
    /\ obj \in Objects
    /\ fresh \in SUBSET Actions
    /\ pod \in [Actions -> {"running", "terminating", "gone"}]
    /\ lock \in Actions \cup {NoAction}
    /\ pc \in [Actions -> PCs]
    /\ updater \in [Actions -> Updaters]
    /\ crashed \in BOOLEAN
    /\ paused \in Pauses
    /\ applied \in [Actions -> Nat]
    /\ expected \in Int
    /\ clashed \in SUBSET Actions
    /\ failures \in 0..MaxFailures /\ scales \in 0..MaxWrites /\ edits \in 0..MaxWrites

\* No scaling is lost: the replicas are the ones at the start plus every change
\* that the API server carried out, whoever made it; no update or revert writes
\* back a number it read before another's change.
NoLostScaling == obj.replicas = expected

\* As long as no API call fails and no rollout is refused, conflicts with other
\* writers and the retries they cause never apply a scaling twice, and one that
\* reports success was applied.
ScaledOnce ==
    failures = 0 /\ ~paused =>
      \A a \in Actions : Diff(a) # 0 =>
         applied[a] <= 1 /\ (pc[a] = "succeeded" => applied[a] = 1)

\* The resizes other than a have written nothing: no update was carried out, and
\* none has reverted.  A revert writes back what its last get found, which may be
\* what a has meanwhile taken back.
SoleResizer(a) ==
    \A b \in Actions \ {a} :
      Kind[b] = "resize" => applied[b] = 0 /\ pc[b] \notin {"undo", "failed"}

\* A resize that nobody disturbs in the template is all or nothing, although
\* others scale the controller meanwhile: when it reports a failure, no API call
\* failed and no rollout was refused, the template is the old one, unless its
\* revert met a conflict.
FailedResizeLeavesNoTrace ==
    failures = 0 /\ edits = 0 /\ ~paused =>
      \A a \in Actions \ clashed :
        Kind[a] = "resize" /\ SoleResizer(a) /\ pc[a] = "failed" => obj.template = Template0

\* revert dereferences a backup that is not there only if a get has failed.
PanicsOnlyAfterFailure == crashed => failures > 0

\* The pod that a suspend is about is deleted before the replicas go down ("We want
\* to suspend the target pod ... first"): the controller is left no choice.
SuspendedPodIsDeleted ==
    \A a \in Actions : Kind[a] = "suspend" /\ applied[a] > 0 => pod[a] # "running"

\* kubeturbo never scales a controller below one replica ("resulting replica is
\* less than 1 after suspension"), although a user may do so between its get and
\* its update.
NeverBelowOne ==
    [][scales' = scales => obj'.replicas = obj.replicas \/ obj'.replicas >= 1]_vars

\* Apart from a revert, an update of kubeturbo changes only containers that the
\* action resizes: what users wrote to the others in between stays.
OthersContainersKept ==
    [][\A a \in Actions, c \in Containers :
         applied'[a] > applied[a] /\ Items[a][c] = <<>> => obj'.template[c] = obj.template[c]]_vars

Ended(a) == pc[a] \in {"succeeded", "failed"}

\* Every action ends, however often it is retried, unless kubeturbo panics.
EveryActionEnds == <>(crashed \/ \A a \in Actions : Ended(a))

\* A scaling changes the replicas by its difference once ("replicasDiff: 1 for
\* provision, -1 for suspend", k8s_controller_updater.go).
AppliedOnce == \A a \in Actions : Diff(a) # 0 => applied[a] <= 1

\* When a resize reports success and nobody else wrote the template, each container
\* has the amounts of the action ("has already been updated to the desired
\* specification", k8s_controller_updater.go).
SuccessIsDesired ==
    \A a \in Actions :
      Kind[a] = "resize" /\ pc[a] = "succeeded" /\ edits = 0 /\ SoleResizer(a) =>
        \A c \in Containers : \A i \in DOMAIN Items[a][c] :
          obj.template[c][Items[a][c][i].commodity] = NewAmount(Items[a][c][i])
==============================================================================
