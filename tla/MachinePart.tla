---------------------------- MODULE MachinePart -----------------------------
(***************************************************************************)
(* The scaling of machine sets, for any values of its constants.           *)
(***************************************************************************)
EXTENDS Part, Integers, FiniteSets

CONSTANTS ScaleRequests, FirstMachines, LaterMachines, ScaleChoices, MinNodes, MaxNodes, ScaleWaits
                                                  \* of MachineScale

\* A request adds a machine to the set or takes one away; the set is within the
\* configured bounds at first.
ASSUME ScaleAssumption ==
  /\ IsFiniteSet(ScaleRequests) /\ IsFiniteSet(FirstMachines)
  /\ ScaleChoices \subseteq [ScaleRequests -> [diff : {1, -1}, machine : FirstMachines \cup LaterMachines]]
  /\ MinNodes \in Int /\ MaxNodes \in Int /\ Cardinality(FirstMachines) \in MinNodes .. MaxNodes

VARIABLES wanted, machineSet, machines, keyHeld, request, scaled, marks, gone, lagged, halted

Machines == INSTANCE MachineScale WITH
  Requests <- ScaleRequests, InitialMachines <- FirstMachines, NewMachines <- LaterMachines,
  Wanted <- ScaleChoices, MinNodes <- MinNodes, MaxNodes <- MaxNodes, MaxWaits <- ScaleWaits,
  applied <- scaled, crashed <- halted

machineVars == <<wanted, machineSet, machines, keyHeld, request, scaled, marks, gone, lagged, halted>>

-----------------------------------------------------------------------------
(* The part's properties, stated where its module explains them.           *)

\* No scaling of a machine set is lost, and its size stays in bounds.
NoScaleLost == part = "machines" => Machines!NoScaleLost

\* Only machines marked by an action are deleted.
OnlyMarkedDeleted == part = "machines" => Machines!OnlyMarkedDeleted
=============================================================================
