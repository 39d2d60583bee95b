----------------------------- MODULE PodActions -----------------------------
(***************************************************************************)
(* Actions of the server on pods that earlier actions have replaced        *)
(* (pkg/action/action_handler.go, pkg/action/util/pod_manager.go).  The    *)
(* server names a pod as it was last discovered; the handler follows a     *)
(* cache of replacements to the pod of today, once to find the lock of its *)
(* controller and once more under that lock.  A goroutine reports progress *)
(* until the action ends.  The lock itself is the subject of LeaseLock; a  *)
(* pod is [series, gen], its gen-th replacement in the namespace series.   *)
(***************************************************************************)
EXTENDS Integers

CONSTANTS
    Actions,
    Series,         \* pods that are replaced one after the other
    Scenarios,      \* choices of [target, bare, reported]
    MaxIte,         \* maxIteForLatestValue
    MaxLate         \* bound on the reports counted after the end

VARIABLES
    scene,          \* target: action -> [series, truncated], the pod it names
                    \* bare: the pods have no controller
                    \* reported: actions whose keepAlive goroutine is followed
    pods,           \* the pods in phase Running, terminating ones included
    nameCache, uidCache,
    action,         \* action -> [at, key, pod, new]
    reporter,       \* action -> state of its keepAlive goroutine
    late,           \* action -> reports sent after its result
    expired         \* series of which a cache entry has expired

vars == <<scene, pods, nameCache, uidCache, action, reporter, late, expired>>
podState == <<pods, nameCache, uidCache, expired>>

First(s) == [series |-> s, gen |-> 0]
NoPod == [series |-> "", gen |-> 0]

\* The pods of all series start with one name, in namespaces of their own.
NameOf(p) == IF p.gen = 0 THEN <<"web", 0>> ELSE <<p.series, p.gen>>
UidOf(p) == <<p.series, p.gen>>
Generations(s) == {p.gen : p \in {q \in pods : q.series = s}}
LastGeneration(s) == CHOOSE g \in Generations(s) : \A h \in Generations(s) : h <= g
Newest(s) == [series |-> s, gen |-> LastGeneration(s)]

Init ==
    /\ scene \in Scenarios
    /\ pods = {First(s) : s \in Series}
    /\ nameCache = [n \in {} |-> n] /\ uidCache = [u \in {} |-> u]
    /\ action = [a \in Actions |-> [at |-> "new", key |-> <<"image", 0>>, pod |-> NoPod, new |-> NoPod]]
    /\ reporter = [a \in Actions |-> "none"]
    /\ late = [a \in Actions |-> 0]
    /\ expired = {}

-----------------------------------------------------------------------------
(* The pod manager *)

\* Mutant: one replacement is followed.
FollowOnce(cache, key) == cache[key]

\* The chain of replacements is followed MaxIte times after the first.
GetLatestValue(cache, key) ==
    LET walk[i \in 0 .. MaxIte] ==
            IF i = 0 THEN cache[key]
            ELSE IF walk[i - 1] \in DOMAIN cache THEN cache[walk[i - 1]] ELSE walk[i - 1]
    IN  walk[MaxIte]

ByName(s, n) == {p \in pods : p.series = s /\ NameOf(p) = n}
ByUid(s, u) == {p \in pods : p.series = s /\ UidOf(p) = u}

\* A cached name is final; the uid is for display names that were truncated.
GetRunningPod(s, name, uid) ==
    IF name \in DOMAIN nameCache THEN ByName(s, GetLatestValue(nameCache, name))
    ELSE IF ByName(s, name) # {} THEN ByName(s, name)
    ELSE IF uid \in DOMAIN uidCache THEN ByUid(s, GetLatestValue(uidCache, uid))
    ELSE ByUid(s, uid)

GetRelatedPod(a) ==
    LET p == First(scene.target[a].series)
    IN  GetRunningPod(p.series, IF scene.target[a].truncated THEN <<"we", 0>> ELSE NameOf(p), UidOf(p))

Set(cache, key, value) == [k \in DOMAIN cache \cup {key} |-> IF k = key THEN value ELSE cache[k]]
Without(cache, key) == [k \in DOMAIN cache \ {key} |-> cache[k]]

CachePod(old, new) ==
    /\ nameCache' = Set(nameCache, NameOf(old), NameOf(new))
    /\ uidCache' = Set(uidCache, UidOf(old), UidOf(new))

\* An entry is dropped when its time to live has passed.
Expire ==
    /\ \/ \E n \in DOMAIN nameCache :
            /\ nameCache' = Without(nameCache, n)
            /\ expired' = expired \cup (IF n[1] = "web" THEN Series ELSE {n[1]})
            /\ UNCHANGED uidCache
       \/ \E u \in DOMAIN uidCache :
            /\ uidCache' = Without(uidCache, u)
            /\ expired' = expired \cup {u[1]}
            /\ UNCHANGED nameCache
    /\ UNCHANGED <<scene, pods, action, reporter, late>>

-----------------------------------------------------------------------------
(* The action handler *)

At(a, at) == action[a].at = at
End(a, at) == action' = [action EXCEPT ![a] = [at |-> at, key |-> <<"image", 0>>, pod |-> NoPod, new |-> NoPod]]
Holds(a) == action[a].at \in {"pod", "work", "output", "release"}
Running(a) == action[a].at \notin {"new", "rejected", "failed", "notFound", "done"}

\* An action of a kind that no executor is registered for, or without target.
CheckActionExecutionDTO(a) ==
    /\ At(a, "new")
    /\ End(a, "rejected")
    /\ UNCHANGED <<scene, podState, reporter, late>>

\* A valid action gets a reporter.
ExecuteAction(a) ==
    /\ At(a, "new")
    /\ action' = [action EXCEPT ![a].at = "key"]
    /\ reporter' = [reporter EXCEPT ![a] = IF a \in scene.reported THEN "report" ELSE @]
    /\ UNCHANGED <<scene, podState, late>>

\* Mutant: the lock is that of the pod.
LockOfPod(p) == NameOf(p)

\* The lock is that of the controller, or of the image if there is none.
GetPodLockKey(p) == <<IF scene.bare THEN "image" ELSE p.series, 0>>

GetLockKey(a) ==
    /\ At(a, "key")
    /\ \/ End(a, "failed")
       \/ \E p \in GetRelatedPod(a) :
            action' = [action EXCEPT ![a].at = "lock", ![a].key = GetPodLockKey(p)]
    /\ UNCHANGED <<scene, podState, reporter, late>>

GetLockHelper(a) ==
    /\ At(a, "lock")
    /\ \/ End(a, "failed")
       \/ /\ ~\E b \in Actions : Holds(b) /\ action[b].key = action[a].key
          /\ action' = [action EXCEPT ![a].at = "pod"]
    /\ UNCHANGED <<scene, podState, reporter, late>>

\* The pod is looked up again: the action waited for may have replaced it.
Dispatch(a) ==
    /\ At(a, "pod")
    /\ \/ /\ GetRelatedPod(a) = {}
          /\ End(a, "notFound")
       \/ End(a, "failed")
       \/ \E p \in GetRelatedPod(a) :
            action' = [action EXCEPT ![a].at = "work", ![a].pod = p]
    /\ UNCHANGED <<scene, podState, reporter, late>>

\* The executor fails, changes no pod, or replaces the pod; the old one is
\* still terminating when it returns.
Work(a) ==
    /\ At(a, "work")
    /\ \/ /\ End(a, "failed")
          /\ UNCHANGED pods
       \/ /\ action' = [action EXCEPT ![a].at = "release"]
          /\ UNCHANGED <<pods>>
       \/ LET new == [Newest(scene.target[a].series) EXCEPT !.gen = @ + 1]
          IN  /\ pods' = pods \cup {new}
              /\ action' = [action EXCEPT ![a].at = "output", ![a].new = new]
    /\ UNCHANGED <<scene, nameCache, uidCache, expired, reporter, late>>

ProcessOutput(a) ==
    /\ At(a, "output")
    /\ CachePod(action[a].pod, action[a].new)
    /\ action' = [action EXCEPT ![a].at = "release"]
    /\ UNCHANGED <<scene, pods, expired, reporter, late>>

\* The deferred calls release the lock and stop the reporter.
Return(a) ==
    /\ At(a, "release")
    /\ End(a, "done")
    /\ UNCHANGED <<scene, podState, reporter, late>>

Report(a) ==
    /\ reporter[a] = "report"
    /\ reporter' = [reporter EXCEPT ![a] = "wait"]
    /\ late' = [late EXCEPT ![a] = IF Running(a) \/ @ = MaxLate THEN @ ELSE @ + 1]
    /\ UNCHANGED <<scene, podState, action>>

\* The timer and the stop channel; if both are ready, either is taken, but a
\* timer that was started after the stop is not ready yet.
AwaitStop(a) ==
    /\ reporter[a] = "wait"
    /\ \/ Running(a) /\ reporter' = [reporter EXCEPT ![a] = "report"]
       \/ ~Running(a) /\ late[a] = 0 /\ reporter' = [reporter EXCEPT ![a] = "report"]
       \/ ~Running(a) /\ reporter' = [reporter EXCEPT ![a] = "exited"]
    /\ UNCHANGED <<scene, podState, action, late>>

\* The kubelet removes a pod that was replaced.
Terminate(p) ==
    /\ p \in pods /\ p # Newest(p.series)
    /\ pods' = pods \ {p}
    /\ UNCHANGED <<scene, nameCache, uidCache, expired, action, reporter, late>>

Ended == \A a \in Actions : ~Running(a) /\ ~At(a, "new")

Rest == Ended /\ UNCHANGED vars

Handler(a) ==
    \/ CheckActionExecutionDTO(a) \/ ExecuteAction(a) \/ GetLockKey(a) \/ GetLockHelper(a) \/ Dispatch(a) \/ Work(a)
    \/ ProcessOutput(a) \/ Return(a)

Next ==
    \/ \E a \in Actions : Handler(a) \/ Report(a) \/ AwaitStop(a)
    \/ \E p \in pods : Terminate(p)
    \/ Expire \/ Rest

Spec == Init /\ [][Next]_vars

-----------------------------------------------------------------------------
(* Properties *)

Working(a) == action[a].at \in {"work", "output"}

\* The cache can lead from the pod the action names to its newest replacement:
\* no link has expired and the chain is not longer than the handler follows.
Reachable(s) == s \notin expired /\ LastGeneration(s) <= MaxIte + 1

\* Two actions never work on pods of one series at a time, although the pod
\* that an action is for changes while it waits for the lock.
OneActionPerSeries ==
    \A a, b \in Actions : a # b /\ Working(a) /\ Working(b) => scene.target[a].series # scene.target[b].series

\* As long as the chain of replacements is cached, an action that has its lock
\* works on the newest pod of its series, never on one that an earlier action has
\* replaced; and it finds that pod, unless a pod of that name in another
\* namespace was replaced: the names are cached without their namespace.
NewestPodUsed ==
    \A a \in Actions :
        Reachable(scene.target[a].series) =>
            /\ At(a, "work") => action[a].pod = Newest(scene.target[a].series)
            /\ At(a, "notFound") =>
                 ~scene.target[a].truncated /\ \E s \in Series \ {scene.target[a].series} : LastGeneration(s) > 0
=============================================================================
