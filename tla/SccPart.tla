------------------------------ MODULE SccPart -------------------------------
(***************************************************************************)
(* The resources of SCCs, for any values of the constants.                 *)
(***************************************************************************)
EXTENDS Part, Sequences

CONSTANTS SccList, SccRuns, SccFailures

\* Without an SCC nothing is managed.
ASSUME SccAssumption == SccList \in Seq(STRING) /\ SccList # <<>>

VARIABLES
  objects, subjects, sccMapping, manager, cleaner, exiting, waitCount,
    turbo, process, runs, gaveUp, lost

Scc == INSTANCE SccLifecycle WITH SCCs <- SccList, MaxRuns <- SccRuns, MaxFailures <- SccFailures

sccVars == <<objects, subjects, sccMapping, manager, cleaner, exiting,
    waitCount, turbo, process, runs, gaveUp, lost>>

-----------------------------------------------------------------------------
(* Its properties, stated where its module explains them.                  *)

\* A mapped SCC can be impersonated.
MappedIsUsable == part = "scc" => Scc!MappedIsUsable

\* A graceful exit waits for its cleanup and leaves no SCC resource behind.
GracefulExitCleans == part = "scc" => Scc!GracefulExitCleans
=============================================================================
