----------------------------- MODULE QuotaAccess -----------------------------
(***************************************************************************)
(* How kubeturbo stretches the ResourceQuotas of a namespace for the time  *)
(* of an action (pkg/action/executor/quota_util.go, movePod and the        *)
(* workload controller resizer) and how the garbage collector puts them    *)
(* back after a restart (pkg/discovery/worker/garbage_collector.go).       *)
(*                                                                         *)
(* A quota limits one resource.  Its original is kept in an annotation on  *)
(* the quota itself: ann[q] is the stack of hard limits found by decoding  *)
(* the annotation, then the annotation of what was decoded, and so on.     *)
(* The lock of the namespace is the one that LeaseLock implements.         *)
(***************************************************************************)
EXTENDS Integers, Sequences

CONSTANTS Quotas,       \* the quotas of one namespace
          Actions,      \* moves and resizes in that namespace
          NoAction,     \* the lock is free
          Orig,         \* Orig[q]: hard limit given by the owner of q
          Base,         \* Base[q]: usage before any action
          Need,         \* Need[a][q]: what a's extra pods take of q, 0 if q does not match them
          MaxFailures,  \* bound on the API calls that fail
          MaxCrashes    \* bound on the crashes of kubeturbo

ASSUME QuotaAssumption ==
    /\ Orig \in [Quotas -> Nat]
    /\ Base \in [Quotas -> Nat]
    /\ Need \in [Actions -> [Quotas -> Nat]]
    /\ MaxFailures \in Nat /\ MaxCrashes \in Nat
    /\ NoAction \notin Actions

\* Some action needs the most of q: the actions are finitely many.
ASSUME MostAssumption ==
    \A q \in Quotas : \E a \in Actions : \A b \in Actions : Need[b][q] <= Need[a][q]

VARIABLES
    spec,      \* spec[q]: Spec.Hard
    label,     \* label[q]: q carries the garbage collection label
    ann,       \* ann[q]: the last-good-config annotation, see above
    status,    \* status[q]: Status.Hard, set from Spec.Hard by the quota controller
    used,      \* used[q]: Status.Used
    extra,     \* the actions whose extra pod is counted in used
    lock,      \* the action that has the quota lock
    pc,        \* pc[a]: how far action a has come
    saved,     \* saved[a][q]: spec and annotation of q as a's Get saw them
    raise,     \* raise[a]: QuotaAccessorImpl.quotas
    todo,      \* todo[a]: quotas that Update or Revert has still to send
    up,        \* "up", "down" or "gc" (the cleanup that comes before any action)
    gcTodo,    \* quotas that cleanupQuotas has listed and not yet reverted
    failures, crashes

quotaVars == <<spec, label, ann>>
envVars == <<status, used, extra>>
actionVars == <<lock, pc, saved, raise, todo>>
procVars == <<up, gcTodo, crashes>>
vars == <<quotaVars, envVars, actionVars, procVars, failures>>

Nothing == [q \in Quotas |-> [spec |-> Orig[q], ann |-> <<>>]]

Init ==
    /\ spec = Orig
    /\ label = [q \in Quotas |-> FALSE]
    /\ ann = [q \in Quotas |-> <<>>]
    /\ status = Orig
    /\ used = Base
    /\ extra = {}
    /\ lock = NoAction
    /\ pc = [a \in Actions |-> "new"]
    /\ saved = [a \in Actions |-> Nothing]
    /\ raise = [a \in Actions |-> {}]
    /\ todo = [a \in Actions |-> {}]
    /\ up = "up"
    /\ gcTodo = {}
    /\ failures = 0
    /\ crashes = 0

\* An API call fails.
Fail == failures < MaxFailures /\ failures' = failures + 1

Goto(a, from, to) == up = "up" /\ pc[a] = from /\ pc' = [pc EXCEPT ![a] = to]

\* The first Get, outside the lock: the namespace has quotas, or the call fails.
HasQuotas(a) ==
    /\ \/ Goto(a, "new", "waiting") /\ UNCHANGED failures
       \/ Goto(a, "new", "failed") /\ Fail
    /\ UNCHANGED <<quotaVars, envVars, lock, saved, raise, todo, procVars>>

\* lockForQuota: the lock is taken, or Trylock gives up while another has it.
LockForQuota(a) ==
    /\ \/ Goto(a, "waiting", "locked") /\ lock = NoAction /\ lock' = a
       \/ Goto(a, "waiting", "failed") /\ lock # NoAction /\ UNCHANGED lock
    /\ UNCHANGED <<quotaVars, envVars, saved, raise, todo, procVars, failures>>

\* Evaluate: the quotas whose limit the extra pods of a would exceed.
Exceeded(a) == {q \in Quotas : Need[a][q] > 0 /\ used[q] + Need[a][q] > status[q]}

\* checkQuotas: Get under the lock, and Evaluate on the list it returned.
CheckQuotas(a) ==
    /\ \/ /\ Goto(a, "locked", "update")
          /\ saved' = [saved EXCEPT ![a] = [q \in Quotas |-> [spec |-> spec[q], ann |-> ann[q]]]]
          /\ raise' = [raise EXCEPT ![a] = Exceeded(a)]
          /\ todo' = [todo EXCEPT ![a] = Exceeded(a)]
          /\ UNCHANGED failures
       \/ Goto(a, "locked", "release") /\ Fail /\ UNCHANGED <<saved, raise, todo>>
    /\ UNCHANGED <<quotaVars, envVars, lock, procVars>>

\* Mutant: the quota that goes out has no garbage collection label.
StretchUnmarked(a, q) ==
    /\ spec' = [spec EXCEPT ![q] = saved[a][q].spec + Need[a][q]]
    /\ ann' = [ann EXCEPT ![q] = <<saved[a][q].spec>> \o saved[a][q].ann]
    /\ UNCHANGED label

\* Mutant: EncodeQuota drops the annotations of the quota it encodes.
StretchFlat(a, q) ==
    /\ spec' = [spec EXCEPT ![q] = saved[a][q].spec + Need[a][q]]
    /\ label' = [label EXCEPT ![q] = TRUE]
    /\ ann' = [ann EXCEPT ![q] = <<saved[a][q].spec>>]

\* Mutant: the pods are added for every container that has the resource.
StretchTwice(a, q) ==
    /\ spec' = [spec EXCEPT ![q] = saved[a][q].spec + 2 * Need[a][q]]
    /\ label' = [label EXCEPT ![q] = TRUE]
    /\ ann' = [ann EXCEPT ![q] = <<saved[a][q].spec>> \o saved[a][q].ann]

\* The object that Evaluate made replaces the quota (its resourceVersion was
\* cleared): a higher limit, the label, the encoded original.
Stretch(a, q) ==
    /\ spec' = [spec EXCEPT ![q] = saved[a][q].spec + Need[a][q]]
    /\ label' = [label EXCEPT ![q] = TRUE]
    /\ ann' = [ann EXCEPT ![q] = <<saved[a][q].spec>> \o saved[a][q].ann]

\* Update of one quota.
Update(a, q) ==
    /\ q \in todo[a]
    /\ Goto(a, "update", "update")
    /\ Stretch(a, q)
    /\ todo' = [todo EXCEPT ![a] = @ \ {q}]
    /\ UNCHANGED <<envVars, lock, saved, raise, procVars, failures>>

\* An update fails, or its answer is lost: checkQuotas returns the error before
\* Revert is deferred.
UpdateFails(a) ==
    /\ todo[a] # {}
    /\ Goto(a, "update", "release")
    /\ Fail
    /\ \/ UNCHANGED quotaVars
       \/ \E q \in todo[a] : Stretch(a, q)
    /\ todo' = [todo EXCEPT ![a] = {}]
    /\ UNCHANGED <<envVars, lock, saved, raise, procVars>>

\* checkQuotas is done, Revert is deferred.
UpdateDone(a) ==
    /\ todo[a] = {}
    /\ Goto(a, "update", "create")
    /\ UNCHANGED <<quotaVars, envVars, lock, saved, raise, todo, procVars, failures>>

Admitted(a) == \A q \in Quotas : Need[a][q] > 0 => used[q] + Need[a][q] <= status[q]

\* createClonePod: the pod is admitted under the limits in Status.Hard.
CreateClonePod(a) ==
    /\ Admitted(a)
    /\ Goto(a, "create", "run")
    /\ used' = [q \in Quotas |-> used[q] + Need[a][q]]
    /\ extra' = extra \cup {a}
    /\ UNCHANGED <<quotaVars, status, lock, saved, raise, todo, procVars, failures>>

\* createClonePod fails: the call itself does, or the pod is still refused after
\* two minutes of polling, by when the quota controller has caught up.
CreateFails(a) ==
    /\ \/ ~Admitted(a) /\ status = spec /\ UNCHANGED failures
       \/ Fail
    /\ Goto(a, "create", "revert")
    /\ todo' = [todo EXCEPT ![a] = raise[a]]
    /\ UNCHANGED <<quotaVars, envVars, lock, saved, raise, procVars>>

\* The action ends, well or not; one of the two pods is being deleted.
ActionEnds(a) ==
    /\ Goto(a, "run", "revert")
    /\ todo' = [todo EXCEPT ![a] = raise[a]]
    /\ UNCHANGED <<quotaVars, envVars, lock, saved, raise, procVars, failures>>

\* Revert of one quota: the decoded original, without the label, replaces it.
Revert(a, q) ==
    /\ q \in todo[a]
    /\ Goto(a, "revert", "revert")
    /\ spec' = [spec EXCEPT ![q] = saved[a][q].spec]
    /\ label' = [label EXCEPT ![q] = FALSE]
    /\ ann' = [ann EXCEPT ![q] = saved[a][q].ann]
    /\ todo' = [todo EXCEPT ![a] = @ \ {q}]
    /\ UNCHANGED <<envVars, lock, saved, raise, procVars, failures>>

\* The update of a revert fails: a warning, and on to the next quota.
RevertFails(a, q) ==
    /\ q \in todo[a]
    /\ Goto(a, "revert", "revert")
    /\ Fail
    /\ todo' = [todo EXCEPT ![a] = @ \ {q}]
    /\ UNCHANGED <<quotaVars, envVars, lock, saved, raise, procVars>>

\* The deferred ReleaseLock; the accessor is garbage.
ReleaseLock(a) ==
    /\ \/ Goto(a, "revert", "done") /\ todo[a] = {}
       \/ Goto(a, "release", "failed")
    /\ lock' = NoAction
    /\ saved' = [saved EXCEPT ![a] = Nothing]
    /\ raise' = [raise EXCEPT ![a] = {}]
    /\ UNCHANGED <<quotaVars, envVars, todo, procVars, failures>>

ActionStep(a) ==
    \/ HasQuotas(a) \/ LockForQuota(a) \/ CheckQuotas(a)
    \/ UpdateFails(a) \/ UpdateDone(a)
    \/ CreateClonePod(a) \/ CreateFails(a) \/ ActionEnds(a) \/ ReleaseLock(a)
    \/ \E q \in Quotas : Update(a, q) \/ Revert(a, q) \/ RevertFails(a, q)

InFlight(a) == pc[a] \notin {"new", "done", "failed"}

\* kubeturbo dies: the actions, their accessors and the lock map are gone.
Crash ==
    /\ up # "down"
    /\ crashes < MaxCrashes
    /\ crashes' = crashes + 1
    /\ up' = "down"
    /\ gcTodo' = {}
    /\ lock' = NoAction
    /\ pc' = [a \in Actions |-> IF InFlight(a) THEN "failed" ELSE pc[a]]
    /\ saved' = [a \in Actions |-> Nothing]
    /\ raise' = [a \in Actions |-> {}]
    /\ todo' = [a \in Actions |-> {}]
    /\ UNCHANGED <<quotaVars, envVars, failures>>

\* cleanupQuotas at the next start: the quotas with the label are listed (three
\* attempts, all of which may fail).
CleanupQuotas ==
    /\ up = "down"
    /\ up' = "gc"
    /\ \/ gcTodo' = {q \in Quotas : label[q]} /\ UNCHANGED failures
       \/ gcTodo' = {} /\ Fail
    /\ UNCHANGED <<quotaVars, envVars, actionVars, crashes>>

\* Mutant: the test for the annotation is inverted and the loop does not get on.
RevertQuotaInverted(q) ==
    /\ up = "gc" /\ q \in gcTodo
    /\ ann[q] = <<>>
    /\ gcTodo' = gcTodo \ {q}
    /\ label' = [label EXCEPT ![q] = FALSE]
    /\ UNCHANGED <<spec, ann, envVars, actionVars, up, crashes, failures>>

\* revertQuota: limit from the decoded annotation, annotation and label removed.
RevertQuota(q) ==
    /\ up = "gc" /\ q \in gcTodo
    /\ gcTodo' = gcTodo \ {q}
    /\ \/ /\ spec' = [spec EXCEPT ![q] = IF ann[q] = <<>> THEN @ ELSE Head(ann[q])]
          /\ ann' = [ann EXCEPT ![q] = <<>>]
          /\ label' = [label EXCEPT ![q] = FALSE]
          /\ UNCHANGED failures
       \/ Fail /\ UNCHANGED quotaVars
    /\ UNCHANGED <<envVars, actionVars, up, crashes>>

\* ConnectToTurbo comes after StartCleanup: only now can actions arrive.
ConnectToTurbo ==
    /\ up = "gc" /\ gcTodo = {}
    /\ up' = "up"
    /\ UNCHANGED <<quotaVars, envVars, actionVars, gcTodo, crashes, failures>>

Process == Crash \/ CleanupQuotas \/ (\E q \in Quotas : RevertQuota(q)) \/ ConnectToTurbo

\* The quota controller of the cluster.
SyncStatus(q) ==
    /\ status[q] # spec[q]
    /\ status' = [status EXCEPT ![q] = spec[q]]
    /\ UNCHANGED <<quotaVars, used, extra, actionVars, procVars, failures>>

\* One of the two pods of an action that is over is gone.
PodGone(a) ==
    /\ a \in extra /\ pc[a] \in {"revert", "done", "failed"}
    /\ extra' = extra \ {a}
    /\ used' = [q \in Quotas |-> used[q] - Need[a][q]]
    /\ UNCHANGED <<quotaVars, status, actionVars, procVars, failures>>

Cluster == (\E q \in Quotas : SyncStatus(q)) \/ (\E a \in Actions : PodGone(a))

Next == (\E a \in Actions : ActionStep(a)) \/ Process \/ Cluster

\* Every action runs to its end, kubeturbo is restarted, the cluster's
\* controllers work.
Fairness ==
    /\ \A a \in Actions : WF_vars(ActionStep(a))
    /\ WF_vars(Process /\ crashes' = crashes)
    /\ \A q \in Quotas : WF_vars(SyncStatus(q))
    /\ \A a \in Actions : WF_vars(PodGone(a))

Spec == Init /\ [][Next]_vars
FairSpec == Spec /\ Fairness
------------------------------------------------------------------------------
PCs == {"new", "waiting", "locked", "update", "create", "run", "revert", "release", "done", "failed"}

\* The values the state can take.
TypeOK ==
    /\ spec \in [Quotas -> Nat]
    /\ label \in [Quotas -> BOOLEAN]
    /\ ann \in [Quotas -> Seq(Nat)]
    /\ status \in [Quotas -> Nat]
    /\ used \in [Quotas -> Int]
    /\ extra \in SUBSET Actions
    /\ lock \in Actions \cup {NoAction}
    /\ pc \in [Actions -> PCs]
    /\ saved \in [Actions -> [Quotas -> [spec : Nat, ann : Seq(Nat)]]]
    /\ raise \in [Actions -> SUBSET Quotas]
    /\ todo \in [Actions -> SUBSET Quotas]
    /\ up \in {"up", "down", "gc"}
    /\ gcTodo \in SUBSET Quotas
    /\ failures \in 0..MaxFailures
    /\ crashes \in 0..MaxCrashes

\* A quota whose limit kubeturbo has changed carries the label by which the
\* garbage collector finds it ("Updating the quota this way also facilitates the
\* garbage collection", quota_util.go).
StretchedIsMarked == \A q \in Quotas : spec[q] # Orig[q] => label[q]

\* StretchedIsMarked holds as long as no API call has failed, whenever kubeturbo
\* crashes.
RaisedIsMarked == failures = 0 => StretchedIsMarked

\* As long as no API call has failed: when no action is under the quota lock and no
\* cleanup is due, every quota is what its owner made it, label and annotation are
\* gone too, whenever kubeturbo crashes.
RestoredWhenIdle ==
    failures = 0 /\ up = "up" /\ lock = NoAction =>
      spec = Orig /\ \A q \in Quotas : ~label[q] /\ ann[q] = <<>>

\* As long as kubeturbo has not crashed, the owner's limit can be read from the
\* quota: it is the limit itself or at the bottom of the annotation, although
\* API calls fail ("carry the opportunity for an user to use this as a
\* reference", garbage_collector.go).
OriginalKept ==
    crashes = 0 =>
      \A q \in Quotas : spec[q] = Orig[q] \/ (ann[q] # <<>> /\ ann[q][Len(ann[q])] = Orig[q])

\* The most that one action adds to q.
MostNeed(q) ==
    CHOOSE n \in {Need[a][q] : a \in Actions} : \A a \in Actions : Need[a][q] <= n

\* Whatever fails and whenever kubeturbo crashes, an idle kubeturbo has left a
\* quota at or above its owner's limit, and above it by no more than one action's
\* stretch for every API call that failed.
LeakBounded ==
    up = "up" /\ lock = NoAction =>
      \A q \in Quotas : spec[q] >= Orig[q] /\ spec[q] <= Orig[q] + failures * MostNeed(q)

\* In the end every quota has the limit of its owner, for good, unless an API call
\* failed.
EventuallyRestored == <>[](spec = Orig) \/ <>(failures > 0)
==============================================================================
