---------------------------- MODULE HandlerPart -----------------------------
(***************************************************************************)
(* The handler of pod actions, for any values of its constants.            *)
(***************************************************************************)
EXTENDS Part, Integers

CONSTANTS PodActionIds, PodSeries, PodScenarios, ChainLength, LateReports   \* of PodActions

\* An action is for a pod of one of the series; the number of replacements that
\* are followed is a natural number.
ASSUME HandlerAssumption ==
  /\ \A c \in PodScenarios : \A a \in PodActionIds : c.target[a].series \in PodSeries
  /\ ChainLength \in Nat

VARIABLES scene, pods, nameCache, uidCache, action, reporter, late, expired

PodHandler == INSTANCE PodActions WITH
  Actions <- PodActionIds, Series <- PodSeries, Scenarios <- PodScenarios,
  MaxIte <- ChainLength, MaxLate <- LateReports

handlerVars == <<scene, pods, nameCache, uidCache, action, reporter, late, expired>>

-----------------------------------------------------------------------------
(* The part's properties, stated where its module explains them.           *)

\* Actions on a pod and its replacements exclude each other.
OneActionPerSeries == part = "actions" => PodHandler!OneActionPerSeries

\* An action finds the newest replacement of its pod and works on it.
NewestPodUsed == part = "actions" => PodHandler!NewestPodUsed
=============================================================================
