---------------------------- MODULE PolicyGroups ----------------------------
(***************************************************************************)
(* The groups a discovery reports: pods and containers by the kind of      *)
(* their owner, merged from the tasks in the order in which they end, the  *)
(* nodes that are not ready, and the settings of the policies that policy  *)
(* bindings attach to services and container specs                         *)
(* (worker/group_discovery_worker.go, processor/turbo_policy_processor.go).*)
(* A regular expression is the set of names it matches.                    *)
(***************************************************************************)
EXTENDS Integers, Sequences, FiniteSets, SequencesExt, FiniteSetsExt, Functions

CONSTANTS
    Scenes,         \* choices of the cluster, see inventory
    MaxReplicas     \* defaultMaxReplicas

VARIABLES
    inventory,      \* podsOf: task -> sequence of [id, kind, containers]
                    \* static: static group -> entities; services: {[ns, name]}
                    \* controllers: {[ns, name, kind, containers]}
                    \* policies: {[kind, ns, name, min, max, objectives, choices]}
                    \*   choices: setting -> whether its value is valid
                    \* bindings: {[ns, name, kind, policy, targets]}
    pending,        \* tasks that have not ended
    results,        \* sequence of owner kind -> entity type -> members
    collected,      \* tasks that have succeeded
    failedLists,    \* lists of custom resources that could not be read
    bound,          \* TurboPolicyBindings: [binding, policy]
    groups,         \* the groups reported
    groupStage      \* "policies", "tasks", "built"

vars == <<inventory, pending, results, collected, failedLists, bound, groups, groupStage>>

Null == -1      \* a JSON null
Bad == {"("}    \* a regular expression that does not compile
SLO == "SLOHorizontalScale"
CVS == "ContainerVerticalScale"
NoGroups == [entity |-> <<>>, static |-> <<>>, policy |-> {}]

Init ==
    /\ inventory \in Scenes
    /\ pending = DOMAIN inventory.podsOf
    /\ results = <<>> /\ collected = {} /\ failedLists = {} /\ bound = {}
    /\ groups = NoGroups
    /\ groupStage = "policies"

-----------------------------------------------------------------------------
(* Policies and bindings *)

CreatePolicyId(kind, ns, name) == <<kind, ns, name>>

\* A list that cannot be read is taken for empty.
ProcessTurboPolicies ==
    /\ groupStage = "policies"
    /\ groupStage' = "tasks"
    /\ \E failed \in SUBSET {SLO, CVS, "bindings"} :
          LET listed == {p \in inventory.policies : p.kind \notin failed}
              refers(b, p) == CreatePolicyId(b.kind, b.ns, b.policy) = CreatePolicyId(p.kind, p.ns, p.name)
          IN  /\ failedLists' = failed
              /\ bound' = IF "bindings" \in failed THEN {}
                          ELSE {x \in [binding : inventory.bindings, policy : listed] :
                                  x.binding.targets # {} /\ refers(x.binding, x.policy)}
    /\ UNCHANGED <<inventory, pending, results, collected, groups>>

-----------------------------------------------------------------------------
(* The tasks' groups *)

CollectGroupMetrics(pods) ==
    LET ofKind(k) == SelectSeq(pods, LAMBDA p : p.kind = k)
        containers(p) == SetToSortSeq({<<p.id, i>> : i \in 1 .. p.containers}, LAMBDA x, y : x[2] < y[2])
    IN  [k \in {p.kind : p \in ToSet(pods)} \ {""} |->
            [type \in {"Pod", "Container"} |->
                FlattenSeq([i \in 1 .. Len(ofKind(k)) |->
                    IF type = "Pod" THEN <<ofKind(k)[i].id>> ELSE containers(ofKind(k)[i])])]]

EndTask(t) ==
    /\ groupStage = "tasks" /\ t \in pending
    /\ pending' = pending \ {t}
    /\ \/ /\ results' = Append(results, CollectGroupMetrics(inventory.podsOf[t]))
          /\ collected' = collected \cup {t}
       \/ UNCHANGED <<results, collected>>
    /\ UNCHANGED <<inventory, failedLists, bound, groups, groupStage>>

\* Members are added to the types that the group has.
MergeGroup(old, new) ==
    [type \in DOMAIN old |-> IF type \in DOMAIN new THEN old[type] \o new[type] ELSE old[type]]

MergeGroups(all, task) ==
    [k \in DOMAIN all \cup DOMAIN task |->
        IF k \notin DOMAIN task THEN all[k]
        ELSE IF k \notin DOMAIN all THEN task[k]
        ELSE MergeGroup(all[k], task[k])]

-----------------------------------------------------------------------------
(* The settings of policies *)

Matches(pattern, name) == name \in pattern

\* One target that is no service, or one bad pattern, fails the binding.
ResolveSLOPolicyTargets(b) ==
    LET here == {s \in inventory.services : s.ns = b.ns}
    IN  IF \/ \E t \in b.targets : t.kind # "Service"
           \/ here # {} /\ \E t \in b.targets : t.pattern = Bad
        THEN {}
        ELSE {s \in here : \E t \in b.targets : Matches(t.pattern, s.name)}

ValidWorkloadController(kind) == kind \in {"Deployment", "StatefulSet", "DaemonSet"}

\* The container specs of the binding's namespace.
ResolveCVSPolicyTargets(b) ==
    LET here == {c \in inventory.controllers : c.ns = b.ns /\ ValidWorkloadController(c.kind)}
    IN  IF \E t \in b.targets :
              \/ ~ValidWorkloadController(t.kind)
              \/ t.container = {}
              \/ here # {} /\ t.pattern = Bad
              \/ t.container = Bad /\ \E c \in here : Matches(t.pattern, c.name) /\ c.containers # {}
        THEN {}
        ELSE UNION {{[ns |-> c.ns, name |-> <<c.name, x>>] :
                       x \in {y \in c.containers : \E t \in b.targets : Matches(t.pattern, c.name) /\ Matches(t.container, y)}} :
                    c \in here}

InvalidReplicas(p) == \E n \in p.min \cup p.max : n \notin 1 .. MaxReplicas

\* Bounds the wrong way round are replaced by the widest ones.
ValidateReplicas(p) ==
    IF \E lo \in p.min, hi \in p.max : lo > hi
    THEN [min |-> {1}, max |-> {MaxReplicas}]
    ELSE [min |-> p.min, max |-> p.max]

\* The value is decoded into a variable that all objectives share: a null
\* leaves the value of the objective before it.
Objectives(p) ==
    FoldLeft(LAMBDA acc, o : LET v == IF o.value = Null THEN acc.value ELSE o.value
                             IN  [value |-> v, ok |-> acc.ok /\ v > 0, settings |-> acc.settings \cup {<<o.name, v>>}],
             [value |-> 0, ok |-> p.objectives # <<>>, settings |-> {}], p.objectives)

\* Choices looked up in a table, where what is not found counts as 0; the
\* others are parsed, and one that does not parse fails the policy.
LookedUp == {"aggressiveness", "rateOfResize", "minObservationPeriod", "maxObservationPeriod"}
Parses(p) == \A c \in DOMAIN p.choices : p.choices[c] \/ c \in LookedUp

CreateSLOPolicy(p) == [ok |-> ~InvalidReplicas(p) /\ Objectives(p).ok /\ Parses(p),
                       replicas |-> ValidateReplicas(p), settings |-> Objectives(p).settings]
CreateCVSPolicy(p) == [ok |-> Parses(p), replicas |-> [min |-> {}, max |-> {}],
                       settings |-> {<<c, IF p.choices[c] THEN 1 ELSE 0>> : c \in DOMAIN p.choices}]

PolicyGroup(x) ==
    LET made == IF x.binding.kind = SLO THEN CreateSLOPolicy(x.policy) ELSE CreateCVSPolicy(x.policy)
        members == IF x.binding.kind = SLO THEN ResolveSLOPolicyTargets(x.binding) ELSE ResolveCVSPolicyTargets(x.binding)
    IN  [ok |-> made.ok /\ members # {}, binding |-> x.binding, policy |-> x.policy, members |-> members,
         replicas |-> made.replicas, settings |-> made.settings]

\* Mutant: the first binding that fails ends the loop.
StopAtFailure(all) == IF \A g \in all : g.ok THEN all ELSE {}

\* A binding that fails is skipped.
BuildTurboPolicyDTOs(all) == {g \in all : g.ok}

\* The sidecars, the pods with volumes, the nodes that are not ready and the
\* mirror pods: a group with no member is not built.
StaticGroups == Restrict(inventory.static, {g \in DOMAIN inventory.static : inventory.static[g] # {}})

\* Without any group of pods the builder, and with it all groups, fails.
NothingToGroup(merged) == DOMAIN merged = {}

Do ==
    /\ groupStage = "tasks" /\ pending = {}
    /\ groupStage' = "built"
    /\ LET merged == FoldLeft(MergeGroups, [k \in {} |-> <<>>], results)
       IN  groups' = IF NothingToGroup(merged) THEN NoGroups
                     ELSE [entity |-> merged, static |-> StaticGroups,
                           policy |-> BuildTurboPolicyDTOs({PolicyGroup(x) : x \in bound})]
    /\ UNCHANGED <<inventory, pending, results, collected, failedLists, bound>>

Rest == groupStage = "built" /\ UNCHANGED vars

Next == ProcessTurboPolicies \/ (\E t \in pending : EndTask(t)) \/ Do \/ Rest

Spec == Init /\ [][Next]_vars

-----------------------------------------------------------------------------
(* Properties *)

Found == {p \in UNION {ToSet(inventory.podsOf[t]) : t \in collected} : p.kind # ""}

\* Every pod and container of the tasks that succeeded is in the group of its
\* owner's kind, once, in whatever order the tasks ended.
OwnersGrouped ==
    /\ DOMAIN groups.entity = {p.kind : p \in Found}
    /\ \A k \in DOMAIN groups.entity :
          LET own == {p \in Found : p.kind = k}
              g == groups.entity[k]
          IN  /\ ToSet(g["Pod"]) = {p.id : p \in own} /\ IsInjective(g["Pod"])
              /\ ToSet(g["Container"]) = UNION {{<<p.id, i>> : i \in 1 .. p.containers} : p \in own}
              /\ IsInjective(g["Container"])

\* No group loses a member or is lost for what becomes of another: each pod and
\* container is in the group of its owner's kind; unless a list could not be read
\* or no pod with an owner was found, the static groups are reported, and a
\* binding that on its own yields a group yields it whatever becomes of the rest.
GroupsComplete ==
    groupStage = "built" =>
        /\ OwnersGrouped
        /\ failedLists = {} /\ Found # {} =>
              /\ \A g \in DOMAIN inventory.static :
                    inventory.static[g] # {} => g \in DOMAIN groups.static /\ groups.static[g] = inventory.static[g]
              /\ \A b \in inventory.bindings, p \in inventory.policies :
                    /\ b.kind = p.kind /\ b.ns = p.ns /\ b.policy = p.name /\ b.targets # {}
                    /\ PolicyGroup([binding |-> b, policy |-> p]).ok
                    => \E g \in groups.policy : g.binding = b /\ g.policy = p
=============================================================================
