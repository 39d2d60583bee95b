---------------------------- MODULE MachineScale ----------------------------
(***************************************************************************)
(* Provision and suspend actions on the machines of one machine set        *)
(* (pkg/action/executor/machine_scale_executor.go, machine_scaler_capi.go).*)
(* The action handler takes no lock for them; the executor keeps a key of  *)
(* its own, looked up and added in two steps.  It then works on the copy   *)
(* of the machine set it read, which the API server refuses to store when  *)
(* the set has changed since.  The machine set controller, which creates,  *)
(* deletes and counts machines, runs on its own.                           *)
(***************************************************************************)
EXTENDS Integers, FiniteSets

CONSTANTS
    Requests,           \* the executions
    InitialMachines, NewMachines,
    Wanted,             \* choices of request -> [diff, machine]
    MinNodes, MaxNodes, \* the configured node pool size
    MaxWaits            \* operationMaxWaits

VARIABLES
    wanted,             \* request -> [diff, machine]
    machineSet,         \* [replicas, observed, version]: spec, status, version
    machines,           \* name -> [node, deleting, marked, broken]
    keyHeld,            \* the machine set's key is in the executor's cache
    request,            \* request -> [at, copy, listed, new, waits]
    applied,            \* requests whose update was stored
    marks,              \* machines some request has marked for deletion
    gone,               \* machines that were deleted
    lagged,             \* an update was computed from a status behind the spec
    crashed             \* a nil reference ended the process

vars == <<wanted, machineSet, machines, keyHeld, request, applied, marks, gone, lagged, crashed>>
cluster == <<machineSet, machines, marks, gone>>

Alive == {m \in DOMAIN machines : ~machines[m].deleting}
Ready == [node |-> TRUE, deleting |-> FALSE, marked |-> FALSE, broken |-> FALSE]

Init ==
    /\ wanted \in Wanted
    /\ machineSet = [replicas |-> Cardinality(InitialMachines), observed |-> Cardinality(InitialMachines), version |-> 0]
    /\ machines = [m \in InitialMachines |-> Ready]
    /\ keyHeld = FALSE
    /\ request = [r \in Requests |-> [at |-> "start", copy |-> machineSet, listed |-> {}, new |-> {}, waits |-> MaxWaits]]
    /\ applied = {} /\ marks = {} /\ gone = {}
    /\ lagged = FALSE /\ crashed = FALSE

-----------------------------------------------------------------------------
(* The executor *)

At(r, at) == ~crashed /\ request[r].at = at
Goto(r, at) == request' = [request EXCEPT ![r].at = at]
Fail(r) == Goto(r, "failed") /\ UNCHANGED <<wanted, cluster, applied, lagged>>

\* The deferred unlock deletes the key, whoever added it.
EndLocked(r, at) == Goto(r, at) /\ keyHeld' = FALSE
FailLocked(r) == EndLocked(r, "failed") /\ UNCHANGED <<wanted, cluster, applied, lagged>>

\* identifyManagingMachine follows the node reference of every machine up to
\* the one it looks for; a machine that has no node yet has none.
Found(r) == wanted[r].machine \in DOMAIN machines /\ machines[wanted[r].machine].node
MayCrash == \E m \in DOMAIN machines : ~machines[m].node

Crash(r) == crashed' = TRUE /\ Goto(r, "crashed") /\ UNCHANGED <<wanted, cluster, applied, lagged>>

GetMachineSet(r) ==
    /\ At(r, "start")
    /\ UNCHANGED keyHeld
    /\ \/ /\ Found(r)
          /\ request' = [request EXCEPT ![r].at = "list", ![r].copy = machineSet]
          /\ UNCHANGED <<wanted, cluster, applied, lagged, crashed>>
       \/ Fail(r) /\ UNCHANGED crashed
       \/ MayCrash /\ Crash(r)

\* The machines are listed and the key is looked up.
FindKey(r) ==
    /\ At(r, "list")
    /\ UNCHANGED <<keyHeld, crashed>>
    /\ \/ /\ ~keyHeld
          /\ request' = [request EXCEPT ![r].at = "claim", ![r].listed = DOMAIN machines]
          /\ UNCHANGED <<wanted, cluster, applied, lagged>>
       \/ Fail(r)

AddKey(r) ==
    /\ At(r, "claim")
    /\ keyHeld' = TRUE
    /\ Goto(r, "check")
    /\ UNCHANGED <<wanted, cluster, applied, lagged, crashed>>

CheckMachineSet(r) == request[r].copy.replicas = Cardinality(Alive)

\* The replicas of the spec are what the bounds are checked with.
ResultingSizeInBounds(r) == request[r].copy.replicas + wanted[r].diff \in MinNodes .. MaxNodes

CheckPreconditions(r) ==
    /\ At(r, "check")
    /\ UNCHANGED crashed
    /\ \/ /\ CheckMachineSet(r) /\ ResultingSizeInBounds(r)
          /\ Goto(r, IF wanted[r].diff < 0 THEN "mark" ELSE "update")
          /\ UNCHANGED <<wanted, cluster, keyHeld, applied, lagged>>
       \/ FailLocked(r)

\* Mutant: the annotation is set on the copy only.
MarkLocalCopy(r) ==
    /\ At(r, "mark")
    /\ Found(r)
    /\ Goto(r, "update")
    /\ UNCHANGED <<wanted, cluster, keyHeld, applied, lagged, crashed>>

\* The machine is marked so that the controller deletes it before others; it
\* stays marked when a later step fails.
MarkMachine(r) ==
    /\ At(r, "mark")
    /\ \/ /\ Found(r)
          /\ machines' = [machines EXCEPT ![wanted[r].machine].marked = TRUE]
          /\ marks' = marks \cup {wanted[r].machine}
          /\ Goto(r, "update")
          /\ UNCHANGED <<wanted, machineSet, gone, keyHeld, applied, lagged, crashed>>
       \/ FailLocked(r) /\ UNCHANGED crashed
       \/ MayCrash /\ Crash(r) /\ UNCHANGED keyHeld

\* Mutant: the replicas are stored over whatever is there.
UpdateBlindly(r) ==
    /\ At(r, "update")
    /\ UNCHANGED crashed
    /\ LET desired == request[r].copy.observed + wanted[r].diff
           stored == [machineSet EXCEPT !.replicas = desired, !.version = @ + 1]
       IN  /\ machineSet' = stored
           /\ request' = [request EXCEPT ![r].at = "await", ![r].copy = stored]
           /\ applied' = applied \cup {r}
           /\ lagged' = (lagged \/ request[r].copy.observed # request[r].copy.replicas)
           /\ UNCHANGED <<wanted, machines, marks, gone, keyHeld>>

\* The new size is computed from the replicas of the status.
UpdateMachineSet(r) ==
    /\ At(r, "update")
    /\ UNCHANGED crashed
    /\ LET desired == request[r].copy.observed + wanted[r].diff
           stored == [machineSet EXCEPT !.replicas = desired, !.version = @ + 1]
       IN  \/ /\ request[r].copy.version = machineSet.version
              /\ machineSet' = stored
              /\ request' = [request EXCEPT ![r].at = "await", ![r].copy = stored]
              /\ applied' = applied \cup {r}
              /\ lagged' = (lagged \/ request[r].copy.observed # request[r].copy.replicas)
              /\ UNCHANGED <<wanted, machines, marks, gone, keyHeld>>
           \/ FailLocked(r)

\* A state is polled up to a number of times; a request that fails, or the
\* last poll, ends the action.
WaitForState(r, at, holds, next) ==
    /\ At(r, at)
    /\ UNCHANGED crashed
    /\ \/ /\ IF holds THEN Goto(r, next)
             ELSE request[r].waits > 0 /\ request' = [request EXCEPT ![r].waits = @ - 1]
          /\ UNCHANGED <<wanted, cluster, keyHeld, applied, lagged>>
       \/ FailLocked(r)

AwaitReplicas(r) == WaitForState(r, "await", CheckMachineSet(r), "confirm")

IdentifyDiff(r) == DOMAIN machines \ request[r].listed

\* After a provision, any machine that was not listed before is the new one.
Confirm(r) ==
    /\ At(r, "confirm")
    /\ UNCHANGED crashed
    /\ \/ /\ IF wanted[r].diff < 0
             THEN request' = [request EXCEPT ![r].at = "deleted", ![r].waits = MaxWaits]
             ELSE \E m \in IdentifyDiff(r) :
                    request' = [request EXCEPT ![r].at = "created", ![r].new = {m}, ![r].waits = MaxWaits]
          /\ UNCHANGED <<wanted, cluster, keyHeld, applied, lagged>>
       \/ FailLocked(r)

CheckMachineSuccess(r) == \A m \in request[r].new : m \in DOMAIN machines /\ ~machines[m].broken

AwaitProvisioning(r) == WaitForState(r, "created", CheckMachineSuccess(r), "final")

\* The machine is read once more.  If it has failed meanwhile, the error is
\* taken from the older copy, which has none.
FinishProvisioning(r) ==
    /\ At(r, "final")
    /\ IF CheckMachineSuccess(r) THEN EndLocked(r, "done") /\ UNCHANGED <<wanted, cluster, applied, lagged, crashed>>
       ELSE IF request[r].new \subseteq DOMAIN machines THEN Crash(r) /\ UNCHANGED keyHeld
       ELSE FailLocked(r) /\ UNCHANGED crashed

AwaitDeprovisioning(r) == WaitForState(r, "deleted", wanted[r].machine \notin DOMAIN machines, "unlock")

Unlock(r) ==
    /\ At(r, "unlock")
    /\ EndLocked(r, "done")
    /\ UNCHANGED <<wanted, cluster, applied, lagged, crashed>>

Execute(r) ==
    \/ GetMachineSet(r) \/ FindKey(r) \/ AddKey(r) \/ CheckPreconditions(r) \/ MarkMachine(r)
    \/ UpdateMachineSet(r) \/ AwaitReplicas(r) \/ Confirm(r) \/ AwaitProvisioning(r)
    \/ FinishProvisioning(r) \/ AwaitDeprovisioning(r) \/ Unlock(r)

-----------------------------------------------------------------------------
(* The machine set controller and the machines *)

executor == <<wanted, keyHeld, request, applied, lagged, crashed>>

CreateMachine(m) ==
    /\ Cardinality(Alive) < machineSet.replicas
    /\ m \notin DOMAIN machines \cup gone
    /\ machines' = [x \in DOMAIN machines \cup {m} |->
                      IF x = m THEN [Ready EXCEPT !.node = FALSE] ELSE machines[x]]
    /\ UNCHANGED <<executor, machineSet, marks, gone>>

\* Marked machines are deleted before others.
DeleteMachine(m) ==
    /\ Cardinality(Alive) > machineSet.replicas
    /\ m \in Alive
    /\ machines[m].marked \/ \A x \in Alive : ~machines[x].marked
    /\ machines' = [machines EXCEPT ![m].deleting = TRUE]
    /\ UNCHANGED <<executor, machineSet, marks, gone>>

RemoveMachine(m) ==
    /\ m \in DOMAIN machines /\ machines[m].deleting
    /\ machines' = [x \in DOMAIN machines \ {m} |-> machines[x]]
    /\ gone' = gone \cup {m}
    /\ UNCHANGED <<executor, machineSet, marks>>

UpdateStatus ==
    /\ machineSet.observed # Cardinality(Alive)
    /\ machineSet' = [machineSet EXCEPT !.observed = Cardinality(Alive), !.version = @ + 1]
    /\ UNCHANGED <<executor, machines, marks, gone>>

\* A new machine gets its node, or fails.
SettleMachine(m) ==
    /\ m \in DOMAIN machines /\ ~machines[m].node /\ ~machines[m].broken
    /\ machines' \in {[machines EXCEPT ![m].node = TRUE], [machines EXCEPT ![m].broken = TRUE]}
    /\ UNCHANGED <<executor, machineSet, marks, gone>>

Controller ==
    \/ UpdateStatus
    \/ \E m \in DOMAIN machines \cup NewMachines :
         CreateMachine(m) \/ DeleteMachine(m) \/ RemoveMachine(m) \/ SettleMachine(m)

Ended(r) == crashed \/ request[r].at \in {"done", "failed"}

Rest == (\A r \in Requests : Ended(r)) /\ UNCHANGED vars

Next == (\E r \in Requests : Execute(r)) \/ Controller \/ Rest

Spec == Init /\ [][Next]_vars

-----------------------------------------------------------------------------
(* Properties *)

\* Two requests for one machine.
Repeated == \E r, s \in Requests : r # s /\ wanted[r] = wanted[s]

\* Only machines that an action marked are deleted, unless the status lagged or
\* a machine is suspended again while it is being deleted, which takes another
\* machine in its place.
OnlyMarkedDeleted ==
    ~lagged /\ ~Repeated => \A m \in DOMAIN machines : machines[m].deleting => m \in marks

\* What the stored updates of provisions and suspensions add up to.
StoredDiff == Cardinality({r \in applied : wanted[r].diff > 0}) - Cardinality({r \in applied : wanted[r].diff < 0})

\* However the actions on a machine set overlap, although two of them may both
\* believe that they hold the key, no scaling is lost: the size is what the stored
\* updates add up to, and within the configured bounds; unless an action computed
\* it from a status that lagged behind the spec the bounds were checked with.
NoScaleLost ==
    ~lagged =>
        /\ machineSet.replicas = Cardinality(InitialMachines) + StoredDiff
        /\ machineSet.replicas \in MinNodes .. MaxNodes
=============================================================================
