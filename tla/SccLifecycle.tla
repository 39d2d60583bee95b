---------------------------- MODULE SccLifecycle ----------------------------
(***************************************************************************)
(* The accounts kubeturbo impersonates on OpenShift, and how the process   *)
(* ends (cmd/kubeturbo/app/kubeturbo_builder.go).  ManageSCCs runs in a    *)
(* goroutine of its own and creates a service account, a role and a role   *)
(* binding for every SCC, then one cluster role and its binding; the exit  *)
(* handler deletes them when the process is signalled, while ManageSCCs    *)
(* may still be at work; a killed process leaves them to the next one.     *)
(*                                                                         *)
(* RetryDuring is one step: it succeeds, or gives up after its last        *)
(* attempt, which the API server may or may not have carried out.          *)
(***************************************************************************)
EXTENDS Naturals, Sequences

CONSTANTS SCCs,         \* the SCCs in list order
          MaxRuns,      \* bound: processes started one after the other
          MaxFailures   \* bound: calls given up over all the processes

VARIABLES objects,      \* API objects that exist: <<kind, scc>>
          subjects,     \* SCCs whose accounts the cluster role binding names
          sccMapping,   \* util.SCCMapping of the process
          manager,      \* where ManageSCCs is
          cleaner,      \* the two possible runs of CleanUpSCCMgmtResources
          exiting,      \* "no"; "early" or "late": the signal came while
                        \* ManageSCCs was at work, or after it was done
          waitCount,    \* cleanupWG
          turbo,        \* "connected", "closed"
          process,      \* "up", "exited", "killed"
          runs,
          gaveUp,       \* calls given up so far
          lost          \* whether this process gave up one

vars == <<objects, subjects, sccMapping, manager, cleaner, exiting, waitCount, turbo, process, runs, gaveUp, lost>>

Names == {SCCs[i] : i \in DOMAIN SCCs}
ClusterWide == "cluster"
ObjectsOf(s) == {<<"account", s>>, <<"role", s>>, <<"binding", s>>}
ClusterObjects == {<<"role", ClusterWide>>, <<"binding", ClusterWide>>}

Idle == [at |-> "idle", left |-> {}, seen |-> {}, queue |-> <<>>]
Start == [at |-> "review", next |-> 1]

Init ==
    /\ objects = {}
    /\ subjects = {}
    /\ sccMapping = {}
    /\ manager = Start
    /\ cleaner = [c \in {"manager", "exit"} |-> Idle]
    /\ exiting = "no"
    /\ waitCount = 1
    /\ turbo = "connected"
    /\ process = "up"
    /\ runs = 1
    /\ gaveUp = 0
    /\ lost = FALSE

-----------------------------------------------------------------------------
(* ManageSCCs *)

\* reviewSCCAccess and GetSCCs: without the permissions, or with no SCCs to be
\* had, nothing is managed and nothing cleaned up.
ReviewSCCAccess ==
    /\ manager.at = "review"
    /\ manager' \in {[manager EXCEPT !.at = "account"], [manager EXCEPT !.at = "unmanaged"]}
    /\ UNCHANGED <<objects, subjects, sccMapping, cleaner, gaveUp, lost>>

Scc == SCCs[manager.next]

\* The deferred cleanup of a failed ManageSCCs: it knows the SCCs of the map.
CleanUp(c) ==
    cleaner' = [cleaner EXCEPT ![c] =
        IF sccMapping = {} THEN [Idle EXCEPT !.at = "done"]
        ELSE [at |-> "loop", left |-> sccMapping, seen |-> sccMapping, queue |-> <<>>]]

GiveUp == gaveUp < MaxFailures /\ gaveUp' = gaveUp + 1 /\ lost' = TRUE

Abort ==
    /\ manager' = [manager EXCEPT !.at = "failed"]
    /\ CleanUp("manager")
    /\ GiveUp
    /\ UNCHANGED <<subjects, sccMapping>>

\* A creation: an existing object is as good as a new one.
Create(at, object, Then) ==
    /\ manager.at = at
    /\ \/ /\ objects' = objects \cup {object}
          /\ Then
          /\ UNCHANGED <<gaveUp, lost>>
       \/ /\ objects' \in {objects, objects \cup {object}}
          /\ Abort

Goto(at) == manager' = [manager EXCEPT !.at = at] /\ UNCHANGED <<subjects, sccMapping, cleaner>>

CreateSCCServiceAccount == Create("account", <<"account", Scc>>, Goto("role"))
CreateSCCRole == Create("role", <<"role", Scc>>, Goto("binding"))

\* The map learns of an SCC when its three objects are there.
MapTheScc ==
    /\ sccMapping' = sccMapping \cup {Scc}
    /\ manager' = IF manager.next < Len(SCCs) THEN [at |-> "account", next |-> manager.next + 1]
                                              ELSE [manager EXCEPT !.at = "clusterRole"]
    /\ UNCHANGED <<subjects, cleaner>>
CreateSCCRoleBinding == Create("binding", <<"binding", Scc>>, MapTheScc)

CreateSCCClusterRole == Create("clusterRole", <<"role", ClusterWide>>, Goto("clusterBinding"))

\* Mutant: an existing binding is left as it is.
KeepSubjects ==
    /\ subjects' = IF <<"binding", ClusterWide>> \in objects THEN subjects ELSE Names
    /\ manager' = [manager EXCEPT !.at = "managed"]
    /\ UNCHANGED <<sccMapping, cleaner>>

\* An existing binding is updated with the accounts of this process.
BindAll ==
    /\ subjects' = Names
    /\ manager' = [manager EXCEPT !.at = "managed"]
    /\ UNCHANGED <<sccMapping, cleaner>>
CreateSCCClusterRoleBinding == Create("clusterBinding", <<"binding", ClusterWide>>, BindAll)

ManageSCCs ==
    /\ \/ ReviewSCCAccess
       \/ CreateSCCServiceAccount
       \/ CreateSCCRole
       \/ CreateSCCRoleBinding
       \/ CreateSCCClusterRole
       \/ CreateSCCClusterRoleBinding
    /\ process = "up"
    /\ UNCHANGED <<exiting, waitCount, turbo, process, runs>>

-----------------------------------------------------------------------------
(* CleanUpSCCMgmtResources *)

\* Mutant: the role binding is forgotten.
NextSccKeepsBinding(c) ==
    /\ cleaner[c].at = "loop" /\ cleaner[c].queue = <<>>
    /\ \E s \in cleaner[c].left :
           cleaner' = [cleaner EXCEPT ![c].left = @ \ {s}, ![c].queue = << <<"role", s>>, <<"account", s>> >>]
    /\ UNCHANGED <<objects, subjects, waitCount, gaveUp, lost>>

\* The loop visits the SCCs that were in the map when it began, and may or may
\* not visit one that is added meanwhile.
NextScc(c) ==
    /\ cleaner[c].at = "loop" /\ cleaner[c].queue = <<>>
    /\ \E s \in cleaner[c].left :
           cleaner' = [cleaner EXCEPT
               ![c].left = @ \ {s},
               ![c].queue = << <<"role", s>>, <<"binding", s>>, <<"account", s>> >>]
    /\ UNCHANGED <<objects, subjects, waitCount, gaveUp, lost>>

LastObjects(c) ==
    /\ cleaner[c].at = "loop" /\ cleaner[c].queue = <<>> /\ cleaner[c].left = {}
    /\ cleaner' = [cleaner EXCEPT
           ![c].at = "last",
           ![c].queue = << <<"binding", ClusterWide>>, <<"role", ClusterWide>> >>]
    /\ UNCHANGED <<objects, subjects, waitCount, gaveUp, lost>>

LateScc(c) ==
    /\ cleaner[c].at = "loop"
    /\ \E s \in sccMapping \ cleaner[c].seen :
           cleaner' = [cleaner EXCEPT ![c].left = @ \cup {s}, ![c].seen = @ \cup {s}]
    /\ UNCHANGED <<objects, subjects, waitCount, gaveUp, lost>>

\* Every deletion is tried on its own; one that fails does not stop the rest.
Delete(c) ==
    /\ cleaner[c].queue # <<>>
    /\ LET object == Head(cleaner[c].queue)
       IN  /\ \/ objects' = objects \ {object} /\ UNCHANGED <<gaveUp, lost>>
              \/ objects' \in {objects, objects \ {object}} /\ GiveUp
           /\ subjects' = IF <<"binding", ClusterWide>> \in objects' THEN subjects ELSE {}
           /\ cleaner' = [cleaner EXCEPT ![c].queue = Tail(@)]
           /\ UNCHANGED waitCount

\* The exit handler's cleanup tells the wait group.
Finish(c) ==
    /\ cleaner[c].at = "last" /\ cleaner[c].queue = <<>>
    /\ cleaner' = [cleaner EXCEPT ![c].at = "done"]
    /\ waitCount' = IF c = "exit" THEN waitCount - 1 ELSE waitCount
    /\ UNCHANGED <<objects, subjects, gaveUp, lost>>

CleanUpSCCMgmtResources(c) ==
    /\ process = "up"
    /\ NextScc(c) \/ LateScc(c) \/ LastObjects(c) \/ Delete(c) \/ Finish(c)
    /\ UNCHANGED <<sccMapping, manager, exiting, turbo, process, runs>>

-----------------------------------------------------------------------------
(* The end of the process *)

\* The signal starts the two exit functions, each counted before its goroutine
\* starts, and the handler itself is done.  A cleanup with nothing to do is
\* over at once.
Counted == IF sccMapping = {} THEN 1 ELSE 2
HandleExit ==
    /\ process = "up" /\ exiting = "no"
    /\ exiting' = IF manager.at \in {"managed", "unmanaged"} THEN "late" ELSE "early"
    /\ CleanUp("exit")
    /\ waitCount' = waitCount + Counted - 1
    /\ UNCHANGED <<objects, subjects, sccMapping, manager, turbo, process, runs, gaveUp, lost>>

DisconnectFromTurbo ==
    /\ process = "up" /\ exiting # "no" /\ turbo = "connected"
    /\ turbo' = "closed"
    /\ waitCount' = waitCount - 1
    /\ UNCHANGED <<objects, subjects, sccMapping, manager, cleaner, exiting, process, runs, gaveUp, lost>>

\* ConnectToTurbo returns when the connection is closed; Run then waits for the
\* exit functions.
Exit ==
    /\ process = "up" /\ turbo = "closed" /\ waitCount = 0
    /\ process' = "exited"
    /\ UNCHANGED <<objects, subjects, sccMapping, manager, cleaner, exiting, waitCount, turbo, runs, gaveUp, lost>>

\* The grace period ends, or the concurrent use of the map is detected.
Kill ==
    /\ process = "up"
    /\ runs < MaxRuns
    /\ process' = "killed"
    /\ UNCHANGED <<objects, subjects, sccMapping, manager, cleaner, exiting, waitCount, turbo, runs, gaveUp, lost>>

Restart ==
    /\ process \in {"exited", "killed"}
    /\ runs < MaxRuns
    /\ runs' = runs + 1
    /\ sccMapping' = {} /\ manager' = Start /\ cleaner' = [c \in {"manager", "exit"} |-> Idle]
    /\ exiting' = "no" /\ waitCount' = 1 /\ turbo' = "connected" /\ process' = "up" /\ lost' = FALSE
    /\ UNCHANGED <<objects, subjects, gaveUp>>

Rest == process = "exited" /\ runs = MaxRuns /\ UNCHANGED vars

ExitStep == (\E c \in {"manager", "exit"} : CleanUpSCCMgmtResources(c)) \/ DisconnectFromTurbo \/ Exit

Next == ManageSCCs \/ HandleExit \/ ExitStep \/ Kill \/ Restart \/ Rest

Spec == Init /\ [][Next]_vars

-----------------------------------------------------------------------------
(* Properties *)

CleanupBegun == \E c \in DOMAIN cleaner : cleaner[c].at # "idle"

\* While no cleanup has begun, the account of a mapped SCC can be impersonated:
\* its three objects exist, also when an earlier process left some of them; and
\* once ManageSCCs is through, the cluster role binding names every account,
\* whatever binding an earlier process left.
MappedIsUsable ==
    process = "up" /\ ~CleanupBegun =>
        /\ \A s \in sccMapping : ObjectsOf(s) \subseteq objects
        /\ manager.at = "managed" => subjects = Names /\ ClusterObjects \subseteq objects

\* Run returns only when the exit function is through and the connection to the
\* server closed; and a process that had set everything up and exits on its own,
\* with every deletion carried out, leaves nothing behind: neither its own objects
\* nor those an earlier process leaked.
GracefulExitCleans ==
    process = "exited" =>
        /\ cleaner["exit"].at = "done" /\ turbo = "closed"
        /\ exiting = "late" /\ manager.at = "managed" /\ ~lost => objects = {}
=============================================================================
