---------------------------- MODULE GitOpsUpdate ----------------------------
(***************************************************************************)
(* Resizes of a workload that Argo CD keeps in step with a git repository  *)
(* (pkg/action/executor/gitops).  An action does not change the workload   *)
(* but its file, on the base branch or on a branch with a pull request     *)
(* that somebody merges or closes.  Actions on a workload controller take  *)
(* no lock, users commit to the same branches, and calls to the host of    *)
(* the repository fail before or after they took effect.                   *)
(*                                                                         *)
(* The file is `spec`, what the pod template says of each container, and   *)
(* `rest`, the edits made to it elsewhere.  A branch also has the version  *)
(* of its head, and what it forked from.                                   *)
(***************************************************************************)
EXTENDS Naturals, FiniteSets

CONSTANTS
    Actions, Containers,
    WantOf,                     \* action -> [container, size]
    Settings,                   \* of [host, mode, faults, edits]: where the repository is, the commit
                                \* mode of each action, calls that fail, commits of users
    MaxAttempts

VARIABLES
    host, mode,                 \* of the repository, and of each action's configuration
    live,                       \* the pod template in the cluster
    repo,                       \* branch -> [head, spec, rest, fork]
    prs,                        \* branch -> "open", "merged" or "closed"
    act,                        \* action -> its handler
    faults, edits,              \* still to come
    history,                    \* ghost: the specs the base branch has had
    writers                     \* ghost: branch -> actions that have committed to it

vars == <<host, mode, live, repo, prs, act, faults, edits, history, writers>>

Base == <<"base", 0>>
OldSpec == [c \in Containers |-> 0]
Fresh(n) == [at |-> "get", attempt |-> n, backup |-> OldSpec, desired |-> OldSpec,
             branch |-> Base, pr |-> FALSE, ref |-> 0, rest |-> {}]

\* The function f with the value v at x.
With(f, x, v) == [y \in DOMAIN f \cup {x} |-> IF y = x THEN v ELSE f[y]]

Init ==
    /\ \E s \in Settings : host = s.host /\ mode = s.mode /\ faults = s.faults /\ edits = s.edits
    /\ live = OldSpec
    /\ repo = [b \in {Base} |-> [head |-> 0, spec |-> OldSpec, rest |-> {}, fork |-> <<OldSpec, {}>>]]
    /\ prs = [b \in {} |-> "open"]
    /\ act = [a \in Actions |-> Fresh(1)]
    /\ history = {OldSpec} /\ writers = [b \in {Base} |-> {}]

At(a, s) == act[a].at = s

\* A handler that waits, reverts or has ended needs its branch and its backup.
Settled(r) ==
    [Fresh(1) EXCEPT !.at = r.at, !.branch = r.branch,
                     !.backup = IF r.at \in {"wait", "revert"} THEN r.backup ELSE @]
Step(a, r) ==
    act' = [act EXCEPT ![a] = IF r.at \in {"wait", "revert", "ok", "failed"} THEN Settled(r) ELSE r]
Goto(a, s) == Step(a, [act[a] EXCEPT !.at = s])
Has(spec, a) == spec[WantOf[a].container] = WantOf[a].size
Request(a) == mode[a] = "request"

\* The repository becomes r, by a commit of the actions in `by` to branch b.
SetRepo(r, b, by) ==
    /\ repo' = r
    /\ history' = history \cup {r[Base].spec}
    /\ writers' = IF b \in DOMAIN writers THEN [writers EXCEPT ![b] = @ \cup by] ELSE With(writers, b, by)

KeepRepo == UNCHANGED <<repo, history, writers>>
KeepRemote == KeepRepo /\ UNCHANGED prs

-----------------------------------------------------------------------------
(* One attempt: k8sControllerUpdater.update up to UpdateRemote. *)

\* RetryDuring: another attempt, unless they or the time are used up.
AttemptFails(a) ==
    \/ Goto(a, "revert")
    \/ /\ act[a].attempt < MaxAttempts
       /\ Step(a, [Fresh(act[a].attempt + 1) EXCEPT !.backup = act[a].backup])

Wanted(a) == [live EXCEPT ![WantOf[a].container] = WantOf[a].size]
FirstCall(a) == IF Request(a) THEN "find" ELSE IF host = "github" THEN "ref" ELSE "read"

\* get and reconcile; nothing is to be done if the workload has the size.
Get(a) ==
    /\ At(a, "get")
    /\ IF Has(live, a) THEN Goto(a, "ok")
       ELSE Step(a, [act[a] EXCEPT !.backup = live, !.desired = Wanted(a), !.at = FirstCall(a)])
    /\ KeepRemote /\ UNCHANGED <<host, mode, edits, live, faults>>

OpenPrs == {b \in DOMAIN prs : prs[b] = "open"}

\* Mutant: requests are looked for under another title.
NoneOfThatTitle == {}
ListedPrs == OpenPrs

\* checkPrExists, checkMrExists: any open request for the workload will do.
CheckPrExists(a) ==
    /\ At(a, "find")
    /\ \/ \E b \in ListedPrs :
            Step(a, [act[a] EXCEPT !.branch = b, !.pr = TRUE,
                                   !.at = IF host = "github" THEN "ref" ELSE "read"])
       \/ ListedPrs = {} /\ Goto(a, IF host = "github" THEN "branch" ELSE "read")
    /\ KeepRemote /\ UNCHANGED <<host, mode, edits, live, faults>>

GetBranchRef(a) ==
    /\ At(a, "ref")
    /\ IF act[a].branch \in DOMAIN repo
       THEN Step(a, [act[a] EXCEPT !.ref = repo[act[a].branch].head, !.at = "read"])
       ELSE AttemptFails(a)
    /\ KeepRemote /\ UNCHANGED <<host, mode, edits, live, faults>>

\* The name of a new branch ends in the time, so it is nobody else's.
NewBranch(a) == <<a, act[a].attempt>>
ForkOfBase(spec, rest) ==
    [head |-> 0, spec |-> spec, rest |-> rest, fork |-> <<repo[Base].spec, repo[Base].rest>>]

\* A call that changes the remote takes effect and is answered, or one of the
\* two is missing and the attempt fails.
Call(a, effect, nothing, next) ==
    \/ effect /\ Step(a, next) /\ UNCHANGED faults
    \/ faults > 0 /\ faults' = faults - 1 /\ (effect \/ nothing) /\ AttemptFails(a)

CreateNewBranch(a) ==
    /\ At(a, "branch")
    /\ Call(a, SetRepo(With(repo, NewBranch(a), ForkOfBase(repo[Base].spec, repo[Base].rest)), NewBranch(a), {}),
            KeepRepo, [act[a] EXCEPT !.branch = NewBranch(a), !.ref = 0, !.at = "read"])
    /\ UNCHANGED <<host, mode, edits, live, prs>>

\* getRemoteFileContent and PatchYamlContent: the whole pod template is compared
\* and replaced.  A branch that needs no change is waited for if it has a request.
GetRemoteFileContent(a) ==
    /\ At(a, "read")
    /\ LET b == act[a].branch
       IN  IF b \notin DOMAIN repo THEN AttemptFails(a)
           ELSE IF repo[b].spec = act[a].desired THEN Goto(a, IF act[a].pr THEN "wait" ELSE "ok")
           ELSE Step(a, [act[a] EXCEPT !.rest = repo[b].rest, !.at = "push"])
    /\ KeepRemote /\ UNCHANGED <<host, mode, edits, live, faults>>

AfterPush(a) == IF ~Request(a) THEN "ok" ELSE IF act[a].pr THEN "wait" ELSE "open"
Commit(b, a) == [repo[b] EXCEPT !.head = @ + 1, !.spec = act[a].desired, !.rest = act[a].rest]

\* Mutant: the reference is updated by force.
PushCommitForced(a) ==
    /\ At(a, "push") /\ host = "github"
    /\ LET b == act[a].branch
       IN  \/ /\ b \in DOMAIN repo
              /\ Call(a, SetRepo([repo EXCEPT ![b] = Commit(b, a)], b, {a}), KeepRepo,
                      [act[a] EXCEPT !.at = AfterPush(a)])
           \/ b \notin DOMAIN repo /\ AttemptFails(a) /\ KeepRepo /\ UNCHANGED faults
    /\ UNCHANGED <<host, mode, edits, live, prs>>

\* createTree and pushCommit on GitHub: the commit's parent is the head that
\* was read first, and a branch that has moved since refuses it.
PushCommit(a) ==
    /\ At(a, "push") /\ host = "github"
    /\ LET b == act[a].branch
       IN  \/ /\ b \in DOMAIN repo /\ repo[b].head = act[a].ref
              /\ Call(a, SetRepo([repo EXCEPT ![b] = Commit(b, a)], b, {a}), KeepRepo,
                      [act[a] EXCEPT !.at = AfterPush(a)])
           \/ /\ ~(b \in DOMAIN repo /\ repo[b].head = act[a].ref)
              /\ AttemptFails(a) /\ KeepRepo /\ UNCHANGED faults
    /\ UNCHANGED <<host, mode, edits, live, prs>>

\* CreateCommit on GitLab: the file is replaced on the branch as it is now, or
\* on a new branch of the base as it is now.
CreateCommit(a) ==
    /\ At(a, "push") /\ host = "gitlab"
    /\ LET b == act[a].branch
       IN  \/ /\ Request(a) /\ ~act[a].pr
              /\ Call(a, SetRepo(With(repo, NewBranch(a), ForkOfBase(act[a].desired, act[a].rest)),
                                 NewBranch(a), {a}),
                      KeepRepo, [act[a] EXCEPT !.branch = NewBranch(a), !.at = "open"])
           \/ /\ ~Request(a) \/ act[a].pr
              /\ b \in DOMAIN repo
              /\ Call(a, SetRepo([repo EXCEPT ![b] = Commit(b, a)], b, {a}), KeepRepo,
                      [act[a] EXCEPT !.at = AfterPush(a)])
           \/ b \notin DOMAIN repo /\ AttemptFails(a) /\ KeepRepo /\ UNCHANGED faults
    /\ UNCHANGED <<host, mode, edits, live, prs>>

\* newPR, newMR.
NewPR(a) ==
    /\ At(a, "open")
    /\ Call(a, prs' = With(prs, act[a].branch, "open"), UNCHANGED prs, [act[a] EXCEPT !.at = "wait"])
    /\ KeepRepo /\ UNCHANGED <<host, mode, edits, live>>

\* A call that only reads fails.
ReadFails(a) ==
    /\ act[a].at \in {"find", "ref", "read"}
    /\ faults > 0 /\ faults' = faults - 1
    /\ AttemptFails(a)
    /\ KeepRemote /\ UNCHANGED <<host, mode, edits, live>>

-----------------------------------------------------------------------------
(* Waiting for the request, and what the action leaves behind. *)

\* Mutant: a request that is no longer open has been merged.
PollAnyEnd(a) ==
    /\ At(a, "wait")
    /\ prs[act[a].branch] # "open"
    /\ Goto(a, "ok")
    /\ KeepRemote /\ UNCHANGED <<host, mode, edits, live, faults>>

\* GitHubWaitForCompletionFn, GitLabWaitForCompletionFn: merged is success, closed
\* an error that is not retried; an open request and a failed poll are waited out.
Poll(a) ==
    /\ At(a, "wait")
    /\ \/ prs[act[a].branch] = "merged" /\ Goto(a, "ok")
       \/ prs[act[a].branch] = "closed" /\ Goto(a, "revert")
    /\ KeepRemote /\ UNCHANGED <<host, mode, edits, live, faults>>

\* The wait of a week ends; the time for attempts is long over.
WaitExpires(a) ==
    /\ At(a, "wait") /\ prs[act[a].branch] = "open"
    /\ Goto(a, "revert")
    /\ KeepRemote /\ UNCHANGED <<host, mode, edits, live, faults>>

\* revertChange after a failure: the workload gets the template it had when the
\* last attempt began, unless one of the two calls fails.
RevertChange(a) ==
    /\ At(a, "revert")
    /\ live' \in {act[a].backup, live}
    /\ Goto(a, "failed")
    /\ KeepRemote /\ UNCHANGED <<host, mode, edits, faults>>

UpdateRemote(a) ==
    \/ Get(a) \/ CheckPrExists(a) \/ GetBranchRef(a) \/ CreateNewBranch(a)
    \/ GetRemoteFileContent(a) \/ PushCommit(a) \/ CreateCommit(a) \/ NewPR(a)

Execute(a) == UpdateRemote(a) \/ ReadFails(a) \/ Poll(a) \/ WaitExpires(a) \/ RevertChange(a)

-----------------------------------------------------------------------------
(* Users, the host of the repository and Argo CD. *)

\* A user commits to a branch, outside the pod template.
UserCommits ==
    /\ \E e \in edits, b \in DOMAIN repo :
         /\ SetRepo([repo EXCEPT ![b].head = @ + 1, ![b].rest = @ \cup {e}], b, {})
         /\ edits' = edits \ {e}
    /\ UNCHANGED <<host, mode, live, prs, act, faults>>

Mergeable(b) ==
    \A c \in Containers :
      Cardinality({repo[b].spec[c], repo[Base].spec[c], repo[b].fork[1][c]}) < 3
Merged(b) ==
    LET ours == repo[Base]  theirs == repo[b]
    IN  [ours EXCEPT
           !.head = @ + 1,
           !.spec = [c \in Containers |-> IF theirs.spec[c] = theirs.fork[1][c] THEN @[c] ELSE theirs.spec[c]],
           !.rest = (@ \ (theirs.fork[2] \ theirs.rest)) \cup theirs.rest]

\* A request is merged, and its branch kept or deleted.
MergePR ==
    /\ \E b \in OpenPrs, keep \in BOOLEAN :
         /\ Mergeable(b)
         /\ LET r == [repo EXCEPT ![Base] = Merged(b)]
            IN  SetRepo(IF keep THEN r ELSE [x \in DOMAIN r \ {b} |-> r[x]], Base, {})
         /\ prs' = [prs EXCEPT ![b] = "merged"]
    /\ UNCHANGED <<host, mode, edits, live, act, faults>>

ClosePR ==
    /\ \E b \in OpenPrs : prs' = [prs EXCEPT ![b] = "closed"]
    /\ KeepRepo /\ UNCHANGED <<host, mode, edits, live, act, faults>>

\* Argo CD brings the workload in step with the base branch.
Sync ==
    /\ live' = repo[Base].spec /\ live' # live
    /\ KeepRemote /\ UNCHANGED <<host, mode, edits, act, faults>>

Ended == \A a \in Actions : act[a].at \in {"ok", "failed"}
Rest == Ended /\ UNCHANGED vars

Next ==
    \/ \E a \in Actions : Execute(a)
    \/ UserCommits \/ MergePR \/ ClosePR \/ Sync
    \/ Rest

Spec == Init /\ [][Next]_vars

-----------------------------------------------------------------------------
KeepsEdits ==
    host = "github" => \A b \in DOMAIN repo \cap DOMAIN repo' : repo[b].rest \subseteq repo'[b].rest
\* On GitHub the commit of an action takes no user's commit off its branch,
\* however the two interleave: the head an action read before the file is the
\* parent it commits to, and a branch that moved refuses it.
CommitKeepsEdits == [][KeepsEdits]_vars

\* An action that reports success has had its size in the base branch, unless
\* another action committed to its request: the template that one wrote came
\* from the workload and not from the request.
SuccessMeansLanded ==
    \A a \in Actions : At(a, "ok") =>
        \/ \E spec \in history : Has(spec, a)
        \/ writers[act[a].branch] \ {a} # {}

\* However many answers are lost, no action has two requests open: an attempt
\* takes up the request that an earlier one opened.
OneRequestPerAction ==
    \A b, d \in OpenPrs : b[1] = d[1] => b = d
=============================================================================
