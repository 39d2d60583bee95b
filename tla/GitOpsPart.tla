----------------------------- MODULE GitOpsPart -----------------------------
(***************************************************************************)
(* The resizes by way of a git repository, for any values of their         *)
(* constants.                                                              *)
(***************************************************************************)
EXTENDS Part

CONSTANTS GitActions, GitContainers, GitWants, GitSettings, GitAttempts

\* An action resizes a container of the workload; the repository is on one of
\* the two hosts.
ASSUME GitAssumption ==
  /\ \A a \in GitActions : GitWants[a].container \in GitContainers
  /\ \A s \in GitSettings : s.host \in {"github", "gitlab"}

VARIABLES host, mode, live, repo, prs, act, faults, edits, history, writers

Git == INSTANCE GitOpsUpdate WITH
  Actions <- GitActions, Containers <- GitContainers, WantOf <- GitWants,
  Settings <- GitSettings, MaxAttempts <- GitAttempts

gitVars == <<host, mode, live, repo, prs, act, faults, edits, history,
    writers>>

-----------------------------------------------------------------------------
(* Its properties, stated where its module explains them.                  *)

\* A GitOps action that succeeds has had its size in the base branch.
SuccessMeansLanded == part = "gitops" => Git!SuccessMeansLanded

\* No GitOps action has two requests open.
OneRequestPerAction == part = "gitops" => Git!OneRequestPerAction

\* On GitHub no commit of an action undoes one of a user.
CommitKeepsEdits == [][part = "gitops" => Git!KeepsEdits]_gitVars
=============================================================================
