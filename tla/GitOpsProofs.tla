---------------------------- MODULE GitOpsProofs ----------------------------
(***************************************************************************)
(* Proofs about resizes by way of a git repository (GitOpsUpdate), for any *)
(* set of actions, any sizes they want, any settings of the repository and *)
(* any bounds on attempts and faults.                                      *)
(***************************************************************************)
EXTENDS GitOpsPart, Integers, FiniteSets, TLAPS

Sizes == {0} \cup {GitWants[a].size : a \in GitActions}
Specs == [GitContainers -> Sizes]
Edits == UNION {s.edits : s \in GitSettings}
Names == GitActions \X (Nat \ {0})

Handlers ==
  [at : {"get", "find", "branch", "ref", "read", "push", "open", "wait", "revert", "ok", "failed"},
   attempt : Nat \ {0}, backup : Specs, desired : Specs, branch : Names \cup {Git!Base}, pr : BOOLEAN,
   ref : Nat, rest : SUBSET Edits]
Files == [head : Nat, spec : Specs, rest : SUBSET Edits, fork : Specs \X SUBSET Edits]

RemoteTypes ==
  /\ host \in {"github", "gitlab"} /\ live \in Specs /\ edits \subseteq Edits
  /\ DOMAIN writers \subseteq Names \cup {Git!Base}
  /\ Git!Base \in DOMAIN repo /\ DOMAIN repo \subseteq DOMAIN writers
  /\ \A b \in DOMAIN repo : repo[b] \in Files
  /\ DOMAIN prs \subseteq DOMAIN writers \ {Git!Base}

\* What SuccessMeansLanded says of an action whose branch is b.
Landed(a, b) == (\E spec \in history : Git!Has(spec, a)) \/ writers[b] \ {a} # {}

\* The base branch and the workload have had nothing but what is in the
\* history; a request is opened after the commit of its action, has the
\* action's size as long as nobody else commits to it, and lands it.
RemoteInv ==
  /\ Git!OldSpec \in history /\ repo[Git!Base].spec \in history /\ live \in history
  /\ \A b \in DOMAIN repo :
       /\ repo[b].fork[1] \in history
       /\ host = "github" => repo[b].fork[2] \subseteq repo[b].rest
  /\ Git!OpenPrs \subseteq DOMAIN repo
  /\ \A b \in DOMAIN prs :
       /\ b[1] \in writers[b]
       /\ b \in DOMAIN repo /\ writers[b] \subseteq {b[1]} => Git!Has(repo[b].spec, b[1])
       /\ prs[b] = "merged" => Landed(b[1], b)
  /\ \A b, d \in Git!OpenPrs : b[1] = d[1] => b = d

\* The names an action may still give to a branch: its later attempts, and this
\* one as long as it has not made its branch.  They are nobody's so far.
NextName(a) ==
  IF act[a].at \in {"get", "find", "branch"} \/ (host = "gitlab" /\ act[a].at # "open")
  THEN act[a].attempt ELSE act[a].attempt + 1
Trying(a) == act[a].at \in {"get", "find", "branch", "ref", "read", "push", "open"}
IsFuture(b) == Trying(b[1]) /\ b[2] >= NextName(b[1])
FutureInv == \A b \in DOMAIN writers : b # Git!Base => ~IsFuture(b)

\* The action has found no request and is on its way to open one.
Mine(a) == Git!Request(a) /\ ~act[a].pr /\ act[a].at \in {"branch", "read", "push", "open"}

\* Where a handler is and what it holds.
PlaceInv(a) ==
  /\ act[a].branch \in DOMAIN writers
  /\ act[a].branch = Git!Base \/ act[a].branch[1] = a \/ act[a].branch \in DOMAIN prs
  /\ act[a].backup \in history
  /\ act[a].at \in {"get", "find"} => ~act[a].pr /\ act[a].branch = Git!Base
  /\ act[a].at \in {"find", "branch", "open"} => Git!Request(a)
  /\ act[a].at \in {"branch", "open"} => ~act[a].pr
  /\ act[a].at = "branch" => host = "github"
  /\ act[a].at \in {"find", "branch", "ref", "read", "push"} => Git!Has(act[a].desired, a)
  /\ act[a].at \in {"ref", "read", "push"} /\ ~Git!Request(a) => act[a].branch = Git!Base /\ ~act[a].pr
  /\ act[a].at = "ref" /\ Git!Request(a) => act[a].pr
  /\ act[a].pr \/ act[a].at = "wait" => act[a].branch \in DOMAIN prs
  /\ act[a].at = "ok" => Landed(a, act[a].branch)

\* A branch that has no request yet is the business of its action alone.
OwnInv(a) ==
  /\ Mine(a) => \A b \in Git!OpenPrs : b[1] # a
  /\ Mine(a) /\ act[a].at \in {"read", "push"} /\ host = "gitlab" => act[a].branch = Git!Base
  /\ Mine(a) /\ act[a].at \in {"read", "push"} /\ host = "github" =>
       /\ act[a].branch = Git!NewBranch(a) /\ act[a].branch \in DOMAIN repo \ DOMAIN prs
       /\ writers[act[a].branch] = {} /\ repo[act[a].branch].spec \in history
  /\ act[a].at = "open" =>
       /\ act[a].branch = Git!NewBranch(a) /\ act[a].branch \in DOMAIN repo \ DOMAIN prs
       /\ a \in writers[act[a].branch] /\ Git!Has(repo[act[a].branch].spec, a)

\* On GitHub the head that an action read first tells whether what it read
\* afterwards is still what the branch has.
HeadInv(a) ==
  act[a].at \in {"read", "push"} /\ host = "github" /\ act[a].branch \in DOMAIN repo =>
    /\ act[a].ref <= repo[act[a].branch].head
    /\ act[a].at = "push" /\ act[a].ref = repo[act[a].branch].head => act[a].rest = repo[act[a].branch].rest

ActInv(a) == PlaceInv(a) /\ OwnInv(a) /\ HeadInv(a)

GitInv ==
  /\ RemoteTypes /\ act \in [GitActions -> Handlers]
  /\ RemoteInv /\ FutureInv /\ \A a \in GitActions : ActInv(a)
-----------------------------------------------------------------------------
(* Steps of a handler                                                      *)

\* A change of the remote as the actions in C see it: nothing is forgotten,
\* no request of theirs is opened, a branch of theirs without request stays as
\* it is, and a branch whose file changes has a new head.
RemoteChange(C) ==
  /\ UNCHANGED <<host, mode>>
  /\ history \subseteq history'
  /\ DOMAIN writers \subseteq DOMAIN writers' /\ \A b \in DOMAIN writers : writers[b] \subseteq writers'[b]
  /\ DOMAIN prs \subseteq DOMAIN prs'
  /\ \A b \in Git!OpenPrs' : b[1] \in C => b \in Git!OpenPrs
  /\ \A b \in DOMAIN repo \ DOMAIN prs : b # Git!Base /\ b[1] \in C =>
       /\ b \in DOMAIN repo' \ DOMAIN prs'
       /\ repo'[b].spec = repo[b].spec /\ writers'[b] = writers[b]
  /\ \A b \in DOMAIN repo' \cap DOMAIN writers :
       /\ b \in DOMAIN repo /\ repo[b].head <= repo'[b].head
       /\ repo[b].head = repo'[b].head => repo'[b].rest = repo[b].rest

\* An action that does not move keeps its invariant.
LEMMA Bystander ==
  ASSUME GitInv, RemoteTypes', NEW C, NEW c \in GitActions, c \in C, RemoteChange(C), act'[c] = act[c]
  PROVE  ActInv(c)'
<1>0. ActInv(c) /\ act[c] \in Handlers /\ (Git!Request(c)' <=> Git!Request(c))
  BY Zenon DEF GitInv, Git!Request, RemoteChange
<1>1. \A b \in DOMAIN writers : Landed(c, b) => Landed(c, b)'
  BY Zenon DEF Landed, RemoteChange, Git!Has
<1>2. PlaceInv(c)'
  BY <1>0, <1>1, Zenon DEF ActInv, PlaceInv, RemoteChange, Git!Has
<1>3. OwnInv(c)'
  <2>1. Git!NewBranch(c)' = Git!NewBranch(c) /\ (Mine(c)' <=> Mine(c))
    BY <1>0, Zenon DEF Git!NewBranch, Mine
  <2>2. Mine(c) => \A b \in Git!OpenPrs' : b[1] # c
    BY <1>0, Zenon DEF ActInv, OwnInv, RemoteChange
  <2>3. ASSUME act[c].branch = Git!NewBranch(c), act[c].branch \in DOMAIN repo \ DOMAIN prs
        PROVE  /\ act[c].branch \in DOMAIN repo' \ DOMAIN prs'
               /\ repo'[act[c].branch].spec = repo[act[c].branch].spec
               /\ writers'[act[c].branch] = writers[act[c].branch]
    BY <1>0, <2>3 DEF RemoteChange, Git!NewBranch, Git!Base, Handlers
  <2> QED
    BY <1>0, <2>1, <2>2, <2>3, Zenon DEF ActInv, OwnInv, RemoteChange, Git!Has
<1>4. HeadInv(c)'
  <2> DEFINE b == act[c].branch
  <2> SUFFICES ASSUME b \in DOMAIN repo', act[c].at \in {"read", "push"}, host = "github"
               PROVE  /\ act[c].ref <= repo'[b].head
                      /\ act[c].at = "push" /\ act[c].ref = repo'[b].head => act[c].rest = repo'[b].rest
    BY Zenon DEF HeadInv, RemoteChange
  <2>1. /\ b \in DOMAIN repo /\ repo[b].head <= repo'[b].head
        /\ repo[b].head = repo'[b].head => repo'[b].rest = repo[b].rest
    BY <1>0, Zenon DEF ActInv, PlaceInv, RemoteChange
  <2>2. repo[b].head \in Nat /\ repo'[b].head \in Nat /\ act[c].ref \in Nat
    BY <1>0, <2>1, Zenon DEF GitInv, RemoteTypes, Files, Handlers
  <2>3. /\ act[c].ref <= repo[b].head
        /\ act[c].at = "push" /\ act[c].ref = repo[b].head => act[c].rest = repo[b].rest
    BY <1>0, <2>1, Zenon DEF ActInv, HeadInv
  <2> QED
    BY <2>1, <2>2, <2>3
<1> QED
  BY <1>2, <1>3, <1>4, Zenon DEF ActInv

\* The names of the future become fewer, and what one action adds to the
\* remote is of the past.
LEMMA FutureStep ==
  ASSUME GitInv, NEW a \in GitActions, NEW N, UNCHANGED host,
         \A c \in GitActions \ {a} : act'[c] = act[c],
         Trying(a)' => Trying(a) /\ NextName(a)' >= NextName(a),
         NextName(a)' \in Nat, DOMAIN writers' = DOMAIN writers \cup N, \A b \in N : ~IsFuture(b)'
  PROVE  FutureInv'
<1> SUFFICES ASSUME NEW b \in DOMAIN writers, b # Git!Base, IsFuture(b)' PROVE FALSE
  BY Zenon DEF FutureInv
<1>1. b[1] \in GitActions /\ b[2] \in Nat /\ ~IsFuture(b)
  BY Zenon DEF GitInv, RemoteTypes, Names, FutureInv
<1>2. NextName(a) \in Nat
  BY DEF GitInv, Handlers, NextName
<1>3. CASE b[1] = a
  BY <1>1, <1>2, <1>3 DEF IsFuture
<1>4. CASE b[1] # a
  BY <1>1, <1>4, Zenon DEF IsFuture, Trying, NextName
<1> QED
  BY <1>3, <1>4, Zenon

\* The handler of a gets on to r, or settles.
LEMMA Proceeds ==
  ASSUME GitInv, NEW a \in GitActions, NEW r \in Handlers, Git!Step(a, r),
         r.at \notin {"wait", "revert", "ok", "failed"}
  PROVE  /\ act' \in [GitActions -> Handlers] /\ act'[a] = r
         /\ \A c \in GitActions \ {a} : act'[c] = act[c]
<1>1. act' = [act EXCEPT ![a] = r]
  BY Zenon DEF Git!Step
<1> QED
  BY <1>1, Zenon DEF GitInv

LEMMA OldSpecType == Git!OldSpec \in Specs
  BY Zenon DEF Git!OldSpec, Specs, Sizes

LEMMA Settles ==
  ASSUME GitInv, NEW a \in GitActions, NEW r \in Handlers, Git!Step(a, r),
         r.at \in {"wait", "revert", "ok", "failed"}
  PROVE  /\ act' \in [GitActions -> Handlers]
         /\ act'[a].at = r.at /\ act'[a].branch = r.branch /\ ~act'[a].pr
         /\ act'[a].backup \in {r.backup, Git!OldSpec}
         /\ \A c \in GitActions \ {a} : act'[c] = act[c]
<1> DEFINE new == Git!Settled(r)
<1>1. act' = [act EXCEPT ![a] = new]
  BY Zenon DEF Git!Step
<1> DEFINE f == Git!Fresh(1)
           e == IF r.at \in {"wait", "revert"} THEN r.backup ELSE Git!OldSpec
<1>2. e \in Specs /\ e \in {r.backup, Git!OldSpec} /\ r.branch \in Names \cup {Git!Base}
  BY OldSpecType, Zenon DEF Handlers
<1>3. f \in Handlers /\ f.backup = Git!OldSpec /\ ~f.pr
  <2>1. FALSE \in BOOLEAN /\ 1 \in Nat \ {0} /\ 0 \in Nat /\ {} \in SUBSET Edits
    OBVIOUS
  <2> QED
    BY <2>1, OldSpecType, Zenon DEF Git!Fresh, Handlers
<1> HIDE DEF f
<1>4. new = [f EXCEPT !.at = r.at, !.branch = r.branch, !.backup = e]
  BY <1>3, Zenon DEF Git!Settled, f, Handlers
<1> HIDE DEF e, new
<1>5. new \in Handlers /\ new.at = r.at /\ new.branch = r.branch /\ ~new.pr /\ new.backup = e
  BY <1>2, <1>3, <1>4, Zenon DEF Handlers
<1> QED
  BY <1>1, <1>2, <1>5, Zenon DEF GitInv

\* A handler that waits, reverts or has ended.
LEMMA SettledInv ==
  ASSUME GitInv, NEW a \in GitActions, NEW C, RemoteChange(C), NEW r \in Handlers, Git!Step(a, r),
         r.at \in {"wait", "revert", "ok", "failed"}, r.backup \in history, r.branch \in DOMAIN writers',
         r.branch = Git!Base \/ r.branch[1] = a \/ r.branch \in DOMAIN prs',
         r.at = "wait" => r.branch \in DOMAIN prs', r.at = "ok" => Landed(a, r.branch)'
  PROVE  /\ act' \in [GitActions -> Handlers] /\ ActInv(a)' /\ ~Trying(a)'
         /\ \A c \in GitActions \ {a} : act'[c] = act[c]
<1>1. /\ act' \in [GitActions -> Handlers]
      /\ act'[a].at = r.at /\ act'[a].branch = r.branch /\ ~act'[a].pr
      /\ act'[a].backup \in {r.backup, Git!OldSpec}
      /\ \A c \in GitActions \ {a} : act'[c] = act[c]
  BY Settles, Zenon
<1>2. act'[a].backup \in history'
  BY <1>1, Zenon DEF GitInv, RemoteInv, RemoteChange
<1>3. Landed(a, r.branch)' => Landed(a, act[a].branch)'
  BY <1>1, Zenon DEF Landed
<1>4. PlaceInv(a)'
  BY <1>1, <1>2, <1>3, Zenon DEF PlaceInv
<1>5. OwnInv(a)' /\ HeadInv(a)' /\ ~Trying(a)'
  BY <1>1, Zenon DEF OwnInv, HeadInv, Trying, Mine
<1> QED
  BY <1>1, <1>4, <1>5, Zenon DEF ActInv

\* An attempt fails: the next one starts afresh, with a name of its own, or the
\* handler reverts.
LEMMA AttemptFailsInv ==
  ASSUME GitInv, NEW a \in GitActions, NEW C, RemoteChange(C), Trying(a), Git!AttemptFails(a)
  PROVE  /\ act' \in [GitActions -> Handlers] /\ ActInv(a)'
         /\ \A c \in GitActions \ {a} : act'[c] = act[c]
         /\ Trying(a)' => NextName(a)' = act[a].attempt + 1
<1>0. act[a] \in Handlers /\ PlaceInv(a)
  BY Zenon DEF GitInv, ActInv
<1>1. CASE Git!Goto(a, "revert")
  <2> DEFINE r == [act[a] EXCEPT !.at = "revert"]
  <2>1. Git!Step(a, r)
    BY <1>1, Zenon DEF Git!Goto
  <2>2. /\ r \in Handlers /\ r.at = "revert"
        /\ r.branch = act[a].branch /\ r.backup = act[a].backup
    BY <1>0, Zenon DEF Handlers
  <2>3. /\ r.backup \in history /\ r.branch \in DOMAIN writers'
        /\ r.branch = Git!Base \/ r.branch[1] = a \/ r.branch \in DOMAIN prs'
    BY <1>0, <2>2, Zenon DEF PlaceInv, RemoteChange
  <2> HIDE DEF r
  <2> QED
    BY <2>1, <2>2, <2>3, SettledInv, Zenon
<1>2. CASE Git!Step(a, [Git!Fresh(act[a].attempt + 1) EXCEPT !.backup = act[a].backup])
  <2> DEFINE r == [Git!Fresh(act[a].attempt + 1) EXCEPT !.backup = act[a].backup]
  <2>1. act[a].attempt + 1 \in Nat \ {0} /\ act[a].backup \in Specs
    BY <1>0 DEF Handlers
  <2>2. Git!Fresh(act[a].attempt + 1) \in Handlers
    <3>1. FALSE \in BOOLEAN /\ 0 \in Nat /\ {} \in SUBSET Edits
      BY Zenon
    <3> QED
      BY <2>1, <3>1, OldSpecType, Zenon DEF Git!Fresh, Handlers
  <2>3. r \in Handlers
    BY <2>1, <2>2, Zenon DEF Handlers
  <2>4. /\ r.at = "get" /\ r.attempt = act[a].attempt + 1 /\ r.branch = Git!Base /\ ~r.pr
        /\ r.backup = act[a].backup
    BY Zenon DEF Git!Fresh
  <2> HIDE DEF r
  <2>5. /\ act' \in [GitActions -> Handlers] /\ act'[a] = r
        /\ \A c \in GitActions \ {a} : act'[c] = act[c]
    BY <1>2, <2>3, <2>4, Proceeds, Zenon DEF r
  <2>6. Git!Base \in DOMAIN writers' /\ r.backup \in history'
    BY <1>0, <2>4, Zenon DEF GitInv, RemoteTypes, PlaceInv, RemoteChange
  <2>7. PlaceInv(a)' /\ OwnInv(a)' /\ HeadInv(a)'
    BY <2>4, <2>5, <2>6, Zenon DEF PlaceInv, OwnInv, HeadInv, Mine
  <2>8. NextName(a)' = act[a].attempt + 1
    BY <2>4, <2>5, Zenon DEF NextName
  <2> QED
    BY <2>5, <2>7, <2>8, Zenon DEF ActInv
<1> QED
  BY <1>1, <1>2, Zenon DEF Git!AttemptFails

\* The invariant from its parts.
LEMMA Assemble ==
  ASSUME GitInv, NEW a \in GitActions, RemoteTypes', RemoteInv', RemoteChange(GitActions \ {a}),
         act' \in [GitActions -> Handlers], ActInv(a)', FutureInv',
         \A c \in GitActions \ {a} : act'[c] = act[c]
  PROVE  GitInv'
<1>1. ASSUME NEW c \in GitActions PROVE ActInv(c)'
  <2>1. CASE c = a
    BY <2>1, Zenon
  <2>2. CASE c # a
    BY <2>2, Bystander, Zenon
  <2> QED
    BY <2>1, <2>2, Zenon
<1> QED
  BY <1>1, Zenon DEF GitInv

\* A remote that stays as it is; the workload may get what it has had before.
Quiet ==
  /\ UNCHANGED <<host, mode, edits, repo, prs, history, writers>>
  /\ live' \in Specs \cap history

LEMMA NothingNew ==
  ASSUME GitInv, Git!KeepRemote, UNCHANGED <<host, mode, edits, live>>
  PROVE  Quiet
  BY Zenon DEF GitInv, RemoteTypes, RemoteInv, Git!KeepRemote, Git!KeepRepo, Quiet

LEMMA QuietRemote ==
  ASSUME GitInv, Quiet
  PROVE  RemoteTypes' /\ RemoteInv' /\ RemoteChange(GitActions)
<1> USE DEF Quiet
<1>1. Git!OpenPrs' = Git!OpenPrs
  BY Zenon DEF Git!OpenPrs
<1>2. RemoteTypes'
  BY Zenon DEF GitInv, RemoteTypes
<1>3. \A a, b : Landed(a, b)' <=> Landed(a, b)
  BY Zenon DEF Landed, Git!Has
<1>4. RemoteInv'
  BY <1>1, <1>3, Zenon DEF GitInv, RemoteInv, Git!Has
<1>5. RemoteChange(GitActions)
  <2>1. \A b \in DOMAIN repo : repo[b].head <= repo[b].head
    BY DEF GitInv, RemoteTypes, Files
  <2> QED
    BY <1>1, <2>1, Zenon DEF RemoteChange
<1> QED
  BY <1>2, <1>4, <1>5, Zenon

LEMMA FewerSee ==
  ASSUME NEW C, NEW D, D \subseteq C, RemoteChange(C)
  PROVE  RemoteChange(D)
  BY Zenon DEF RemoteChange

\* A step of a handler that leaves the remote alone.
LEMMA QuietStep ==
  ASSUME GitInv, NEW a \in GitActions, Quiet,
         act' \in [GitActions -> Handlers], ActInv(a)',
         \A c \in GitActions \ {a} : act'[c] = act[c],
         Trying(a)' => Trying(a) /\ NextName(a)' >= NextName(a)
  PROVE  GitInv'
<1>1. RemoteTypes' /\ RemoteInv' /\ RemoteChange(GitActions \ {a})
  BY QuietRemote, FewerSee, Zenon
<1>2. NextName(a)' \in Nat
  BY DEF NextName, Handlers
<1>3. FutureInv'
  <2>1. PICK N : N = {}
    BY Zenon
  <2>2. DOMAIN writers' = DOMAIN writers \cup N /\ \A b \in N : ~IsFuture(b)'
    BY <2>1, Zenon DEF Quiet
  <2> QED
    BY <1>2, <2>2, FutureStep, Zenon DEF Quiet
<1> QED
  BY <1>1, <1>3, Assemble, Zenon

\* A handler that settles, and an attempt that fails, without an effect.
LEMMA QuietSettles ==
  ASSUME GitInv, NEW a \in GitActions, Quiet,
         NEW at \in {"wait", "revert", "ok", "failed"}, Git!Goto(a, at),
         at = "wait" => act[a].branch \in DOMAIN prs, at = "ok" => Landed(a, act[a].branch)
  PROVE  GitInv'
<1>0. act[a] \in Handlers /\ PlaceInv(a)
  BY Zenon DEF GitInv, ActInv
<1> PICK r : r = [act[a] EXCEPT !.at = at]
  BY Zenon
<1>1. Git!Step(a, r)
  BY Zenon DEF Git!Goto
<1>2. /\ r \in Handlers /\ r.at = at /\ r.branch = act[a].branch /\ r.backup = act[a].backup
  BY <1>0, Zenon DEF Handlers
<1>3. /\ r.backup \in history /\ r.branch \in DOMAIN writers'
      /\ r.branch = Git!Base \/ r.branch[1] = a \/ r.branch \in DOMAIN prs'
  BY <1>0, <1>2, Zenon DEF PlaceInv, Quiet
<1>4. Landed(a, act[a].branch) => Landed(a, r.branch)'
  BY <1>2, Zenon DEF Landed, Git!Has, Quiet
<1>5. RemoteChange(GitActions)
  BY QuietRemote, Zenon
<1>6. /\ act' \in [GitActions -> Handlers] /\ ActInv(a)' /\ ~Trying(a)'
      /\ \A c \in GitActions \ {a} : act'[c] = act[c]
  BY <1>1, <1>2, <1>3, <1>4, <1>5, SettledInv, Zenon DEF Quiet
<1> QED
  BY <1>6, QuietStep, Zenon

LEMMA QuietFails ==
  ASSUME GitInv, NEW a \in GitActions, Quiet,
         Trying(a), Git!AttemptFails(a)
  PROVE  GitInv'
<1>1. RemoteChange(GitActions)
  BY QuietRemote, Zenon
<1>2. /\ act' \in [GitActions -> Handlers] /\ ActInv(a)'
      /\ \A c \in GitActions \ {a} : act'[c] = act[c]
      /\ Trying(a)' => NextName(a)' = act[a].attempt + 1
  BY <1>1, AttemptFailsInv, Zenon
<1>3. act[a].attempt + 1 >= NextName(a)
  BY DEF GitInv, Handlers, NextName
<1> QED
  BY <1>2, <1>3, QuietStep, Zenon

-----------------------------------------------------------------------------
(* The calls that read                                                     *)

LEMMA GetStep ==
  ASSUME GitInv, NEW a \in GitActions, Git!Get(a)
  PROVE  GitInv'
<1>0. /\ act[a] \in Handlers /\ PlaceInv(a) /\ act[a].at = "get"
      /\ Quiet /\ UNCHANGED <<host, mode, repo, prs, history, writers>>
  BY NothingNew, Zenon DEF GitInv, ActInv, Git!Get, Git!At, Git!KeepRemote, Git!KeepRepo
<1>1. CASE Git!Has(live, a)
  <2>1. Landed(a, act[a].branch)
    BY <1>1, Zenon DEF GitInv, RemoteInv, Landed
  <2>2. Git!Goto(a, "ok")
    BY <1>1, Zenon DEF Git!Get
  <2> QED
    BY <1>0, <2>1, <2>2, QuietSettles, Zenon
<1>2. CASE ~Git!Has(live, a)
  <2> PICK at : at = Git!FirstCall(a)
    BY Zenon
  <2> PICK r : r = [act[a] EXCEPT !.backup = live, !.desired = Git!Wanted(a), !.at = at]
    BY Zenon
  <2>1. Git!Step(a, r)
    BY <1>2, Zenon DEF Git!Get
  <2>2. live \in Specs /\ live \in history /\ Git!Wanted(a) \in Specs /\ Git!Has(Git!Wanted(a), a)
    BY GitAssumption, Zenon DEF GitInv, RemoteTypes, RemoteInv, Git!Wanted, Git!Has, Specs, Sizes
  <2>3. /\ at \in {"find", "ref", "read"} /\ (at = "find" <=> Git!Request(a))
        /\ host = "github" => at # "read"
    BY Zenon DEF Git!FirstCall
  <2>4. /\ r \in Handlers /\ r.at = at /\ r.branch = act[a].branch /\ r.backup = live /\ r.pr = act[a].pr
        /\ r.desired = Git!Wanted(a) /\ r.attempt = act[a].attempt
    BY <1>0, <2>2, <2>3, Zenon DEF Handlers
  <2>5. /\ act' \in [GitActions -> Handlers] /\ act'[a] = r
        /\ \A c \in GitActions \ {a} : act'[c] = act[c]
    BY <2>1, <2>3, <2>4, Proceeds, Zenon
  <2>6. r.branch = Git!Base /\ ~r.pr /\ (Git!Request(a)' <=> Git!Request(a))
    BY <1>0, <2>4, Zenon DEF PlaceInv, Git!Request
  <2>7. PlaceInv(a)'
    BY <1>0, <2>2, <2>3, <2>4, <2>5, <2>6 DEF PlaceInv, Git!Has
  <2>8. OwnInv(a)' /\ HeadInv(a)'
    BY <1>0, <2>3, <2>4, <2>5, <2>6, Zenon DEF OwnInv, HeadInv, Mine
  <2>9. Trying(a) /\ NextName(a)' >= NextName(a)
    BY <1>0, <2>4, <2>5 DEF Trying, NextName, Handlers
  <2> QED
    BY <1>0, <2>5, <2>7, <2>8, <2>9, QuietStep, Zenon DEF ActInv
<1> QED
  BY <1>1, <1>2, Zenon

\* The handler takes up an open request, or finds none.
LEMMA CheckPrExistsStep ==
  ASSUME GitInv, NEW a \in GitActions, Git!CheckPrExists(a)
  PROVE  GitInv'
<1>0. /\ act[a] \in Handlers /\ PlaceInv(a) /\ act[a].at = "find"
      /\ Quiet /\ UNCHANGED <<host, mode, repo, prs, history, writers>>
  BY NothingNew, Zenon DEF GitInv, ActInv, Git!CheckPrExists, Git!At, Git!KeepRemote, Git!KeepRepo
<1>1. Git!Request(a) /\ Git!Request(a)' /\ host \in {"github", "gitlab"} /\ Trying(a)
  BY <1>0, Zenon DEF PlaceInv, Git!Request, GitInv, RemoteTypes, Trying
<1>2. ASSUME NEW b \in Git!OpenPrs,
             Git!Step(a, [act[a] EXCEPT !.branch = b, !.pr = TRUE,
                                        !.at = IF host = "github" THEN "ref" ELSE "read"])
      PROVE  GitInv'
  <2> PICK at : at = IF host = "github" THEN "ref" ELSE "read"
    BY Zenon
  <2> PICK r : r = [act[a] EXCEPT !.branch = b, !.pr = TRUE, !.at = at]
    BY Zenon
  <2>1. b \in DOMAIN prs /\ b \in DOMAIN writers /\ b \in Names
    BY Zenon DEF Git!OpenPrs, GitInv, RemoteTypes
  <2>2. TRUE \in BOOLEAN /\ at \in {"ref", "read"} /\ (at = "read" => host # "github")
    BY Zenon
  <2>3. r \in Handlers
    BY <1>0, <2>1, <2>2, Zenon DEF Handlers
  <2>4. /\ r.at = at /\ r.branch = b /\ r.pr /\ r.backup = act[a].backup /\ r.desired = act[a].desired
        /\ r.attempt = act[a].attempt
    BY <1>0, Zenon DEF Handlers
  <2>5. /\ act' \in [GitActions -> Handlers] /\ act'[a] = r
        /\ \A c \in GitActions \ {a} : act'[c] = act[c]
    BY <1>2, <2>2, <2>3, <2>4, Proceeds, Zenon
  <2>6. PlaceInv(a)'
    BY <1>0, <1>1, <2>1, <2>2, <2>4, <2>5 DEF PlaceInv, Git!Has
  <2>7. OwnInv(a)' /\ HeadInv(a)'
    BY <1>0, <2>2, <2>4, <2>5, Zenon DEF OwnInv, HeadInv, Mine
  <2>8. NextName(a)' >= NextName(a)
    BY <1>0, <2>2, <2>4, <2>5 DEF NextName, Handlers
  <2> QED
    BY <1>0, <1>1, <2>5, <2>6, <2>7, <2>8, QuietStep, Zenon DEF ActInv
<1>3. CASE Git!ListedPrs = {} /\ Git!Goto(a, IF host = "github" THEN "branch" ELSE "read")
  <2> PICK at : at = IF host = "github" THEN "branch" ELSE "read"
    BY Zenon
  <2> PICK r : r = [act[a] EXCEPT !.at = at]
    BY Zenon
  <2>1. Git!OpenPrs = {} /\ Git!OpenPrs' = {}
    BY <1>0, <1>3, Zenon DEF Git!ListedPrs, Git!OpenPrs
  <2>2. /\ at \in {"branch", "read"} /\ (at = "read" <=> host = "gitlab")
    BY <1>1, Zenon
  <2>3. /\ r \in Handlers /\ r.at = at /\ r.branch = act[a].branch /\ r.pr = act[a].pr
        /\ r.backup = act[a].backup /\ r.desired = act[a].desired /\ r.attempt = act[a].attempt
    BY <1>0, <2>2, Zenon DEF Handlers
  <2>4. Git!Step(a, r)
    BY <1>3, Zenon DEF Git!Goto
  <2>5. /\ act' \in [GitActions -> Handlers] /\ act'[a] = r
        /\ \A c \in GitActions \ {a} : act'[c] = act[c]
    BY <2>2, <2>3, <2>4, Proceeds, Zenon
  <2>6. PlaceInv(a)'
    BY <1>0, <1>1, <2>2, <2>3, <2>5, Zenon DEF PlaceInv, Git!Has
  <2>7. OwnInv(a)' /\ HeadInv(a)'
    BY <1>0, <1>1, <2>1, <2>2, <2>3, <2>5, Zenon DEF PlaceInv, OwnInv, HeadInv, Mine
  <2>8. NextName(a)' >= NextName(a)
    BY <1>0, <2>2, <2>3, <2>5 DEF NextName, Handlers
  <2> QED
    BY <1>0, <1>1, <2>5, <2>6, <2>7, <2>8, QuietStep, Zenon DEF ActInv
<1> QED
  BY <1>2, <1>3, Zenon DEF Git!CheckPrExists, Git!ListedPrs

\* The head of the branch is read before its file.
LEMMA GetBranchRefStep ==
  ASSUME GitInv, NEW a \in GitActions, Git!GetBranchRef(a)
  PROVE  GitInv'
<1>0. /\ act[a] \in Handlers /\ PlaceInv(a) /\ act[a].at = "ref"
      /\ Quiet /\ UNCHANGED <<host, mode, repo, prs, history, writers>>
  BY NothingNew, Zenon DEF GitInv, ActInv, Git!GetBranchRef, Git!At, Git!KeepRemote, Git!KeepRepo
<1>1. Trying(a)
  BY <1>0, Zenon DEF Trying
<1>2. CASE act[a].branch \in DOMAIN repo
  <2> PICK r : r = [act[a] EXCEPT !.ref = repo[act[a].branch].head, !.at = "read"]
    BY Zenon
  <2>1. repo[act[a].branch].head \in Nat
    BY <1>2, Zenon DEF GitInv, RemoteTypes, Files
  <2>2. /\ r \in Handlers /\ r.at = "read" /\ r.branch = act[a].branch /\ r.pr = act[a].pr
        /\ r.backup = act[a].backup /\ r.desired = act[a].desired /\ r.attempt = act[a].attempt
        /\ r.ref = repo[act[a].branch].head
    BY <1>0, <2>1, Zenon DEF Handlers
  <2>3. /\ act' \in [GitActions -> Handlers] /\ act'[a] = r
        /\ \A c \in GitActions \ {a} : act'[c] = act[c]
    BY <1>2, <2>2, Proceeds, Zenon DEF Git!GetBranchRef
  <2>4. Git!Request(a)' <=> Git!Request(a)
    BY <1>0, Zenon DEF Git!Request
  <2>5. PlaceInv(a)'
    BY <1>0, <2>2, <2>3, <2>4 DEF PlaceInv, Git!Has
  <2>6. OwnInv(a)'
    BY <1>0, <2>2, <2>3, <2>4, Zenon DEF PlaceInv, OwnInv, Mine
  <2>7. HeadInv(a)'
    BY <1>0, <2>1, <2>2, <2>3 DEF HeadInv
  <2>8. NextName(a)' >= NextName(a)
    BY <1>0, <2>2, <2>3 DEF NextName, Handlers
  <2> QED
    BY <1>0, <1>1, <2>3, <2>5, <2>6, <2>7, <2>8, QuietStep, Zenon DEF ActInv
<1>3. CASE act[a].branch \notin DOMAIN repo
  BY <1>0, <1>1, <1>3, QuietFails, Zenon DEF Git!GetBranchRef
<1> QED
  BY <1>2, <1>3, Zenon

\* The file has what the action wants, or is to be replaced.
LEMMA GetRemoteFileContentStep ==
  ASSUME GitInv, NEW a \in GitActions, Git!GetRemoteFileContent(a)
  PROVE  GitInv'
<1> DEFINE b == act[a].branch
<1>0. /\ act[a] \in Handlers /\ PlaceInv(a) /\ OwnInv(a) /\ HeadInv(a) /\ act[a].at = "read"
      /\ Quiet /\ UNCHANGED <<host, mode, repo, prs, history, writers>>
  BY NothingNew, Zenon DEF GitInv, ActInv, Git!GetRemoteFileContent, Git!At, Git!KeepRemote, Git!KeepRepo
<1>1. Trying(a) /\ host \in {"github", "gitlab"} /\ (Git!Request(a)' <=> Git!Request(a))
  BY <1>0, Zenon DEF Trying, GitInv, RemoteTypes, Git!Request
<1>2. CASE b \notin DOMAIN repo
  BY <1>0, <1>1, <1>2, QuietFails, Zenon DEF Git!GetRemoteFileContent
<1>3. CASE b \in DOMAIN repo /\ repo[b].spec = act[a].desired
  <2>1. Git!Has(repo[b].spec, a)
    BY <1>0, <1>3, Zenon DEF PlaceInv
  <2>2. CASE act[a].pr
    BY <1>0, <1>3, <2>2, QuietSettles, Zenon DEF Git!GetRemoteFileContent, PlaceInv
  <2>3. CASE ~act[a].pr
    <3>1. repo[b].spec \in history
      <4>1. CASE b = Git!Base
        BY <4>1, Zenon DEF GitInv, RemoteInv
      <4>2. CASE b # Git!Base
        BY <1>0, <1>1, <2>3, <4>2, Zenon DEF PlaceInv, OwnInv, Mine
      <4> QED
        BY <4>1, <4>2, Zenon
    <3>2. Landed(a, b)
      BY <2>1, <3>1, Zenon DEF Landed
    <3> QED
      BY <1>0, <1>3, <2>3, <3>2, QuietSettles, Zenon DEF Git!GetRemoteFileContent
  <2> QED
    BY <2>2, <2>3, Zenon
<1>4. CASE b \in DOMAIN repo /\ repo[b].spec # act[a].desired
  <2> PICK r : r = [act[a] EXCEPT !.rest = repo[b].rest, !.at = "push"]
    BY Zenon
  <2>1. repo[b].rest \in SUBSET Edits
    BY <1>4, Zenon DEF GitInv, RemoteTypes, Files
  <2>2. /\ r \in Handlers /\ r.at = "push" /\ r.branch = act[a].branch /\ r.pr = act[a].pr
        /\ r.backup = act[a].backup /\ r.desired = act[a].desired /\ r.attempt = act[a].attempt
        /\ r.ref = act[a].ref /\ r.rest = repo[b].rest
    BY <1>0, <2>1, Zenon DEF Handlers
  <2>3. /\ act' \in [GitActions -> Handlers] /\ act'[a] = r
        /\ \A c \in GitActions \ {a} : act'[c] = act[c]
    BY <1>4, <2>2, Proceeds, Zenon DEF Git!GetRemoteFileContent
  <2>4. PlaceInv(a)'
    BY <1>0, <1>1, <2>2, <2>3 DEF PlaceInv, Git!Has
  <2>5. OwnInv(a)'
    BY <1>0, <1>1, <2>2, <2>3 DEF OwnInv, Mine, Git!NewBranch, Git!OpenPrs
  <2>6. HeadInv(a)'
    BY <1>0, <2>2, <2>3 DEF HeadInv
  <2>7. NextName(a)' >= NextName(a)
    BY <1>0, <2>2, <2>3 DEF NextName, Handlers
  <2> QED
    BY <1>0, <1>1, <2>3, <2>4, <2>5, <2>6, <2>7, QuietStep, Zenon DEF ActInv
<1> QED
  BY <1>2, <1>3, <1>4, Zenon

\* A read fails, a wait ends, and the workload gets its template back.
LEMMA ReadFailsStep ==
  ASSUME GitInv, NEW a \in GitActions, Git!ReadFails(a)
  PROVE  GitInv'
<1>1. Quiet /\ Trying(a) /\ Git!AttemptFails(a)
  BY NothingNew, Zenon DEF Git!ReadFails, Trying
<1> QED
  BY <1>1, QuietFails, Zenon

LEMMA PollStep ==
  ASSUME GitInv, NEW a \in GitActions, Git!Poll(a) \/ Git!WaitExpires(a)
  PROVE  GitInv'
<1>0. Quiet /\ act[a].at = "wait" /\ PlaceInv(a)
  BY NothingNew, Zenon DEF GitInv, ActInv, Git!Poll, Git!WaitExpires, Git!At
<1>1. CASE prs[act[a].branch] = "merged" /\ Git!Goto(a, "ok")
  <2>1. act[a].branch \in DOMAIN prs
    BY <1>0, Zenon DEF PlaceInv
  <2>2. Landed(a, act[a].branch)
    BY <1>1, <2>1 DEF GitInv, RemoteInv, Landed
  <2> QED
    BY <1>0, <1>1, <2>2, QuietSettles, Zenon
<1>2. CASE Git!Goto(a, "revert")
  BY <1>0, <1>2, QuietSettles, Zenon
<1> QED
  BY <1>1, <1>2, Zenon DEF Git!Poll, Git!WaitExpires

LEMMA RevertChangeStep ==
  ASSUME GitInv, NEW a \in GitActions, Git!RevertChange(a)
  PROVE  GitInv'
<1>1. act[a].backup \in Specs \cap history /\ live \in Specs \cap history
  BY Zenon DEF GitInv, ActInv, PlaceInv, Handlers, RemoteTypes, RemoteInv
<1>2. Quiet /\ Git!Goto(a, "failed")
  BY <1>1, Zenon DEF Git!RevertChange, Git!KeepRemote, Git!KeepRepo, Quiet
<1> QED
  BY <1>2, QuietSettles, Zenon

-----------------------------------------------------------------------------
(* The calls that change the remote                                        *)

\* A branch is made: its name was nobody's.
LEMMA BranchMade ==
  ASSUME GitInv, NEW a \in GitActions, NEW nb, nb = Git!NewBranch(a), NEW file \in Files, NEW by,
         Git!SetRepo(Git!With(repo, nb, file), nb, by), UNCHANGED <<host, mode, live, edits, prs>>,
         Trying(a), NextName(a) = act[a].attempt, file.fork[1] \in history,
         host = "github" => file.fork[2] \subseteq file.rest
  PROVE  /\ RemoteTypes' /\ RemoteInv' /\ RemoteChange(GitActions)
         /\ DOMAIN writers' = DOMAIN writers \cup {nb} /\ writers'[nb] = by
         /\ nb \in DOMAIN repo' \ DOMAIN prs' /\ repo'[nb] = file
<1>1. nb \in Names /\ nb # Git!Base /\ nb[1] = a /\ nb[2] = act[a].attempt
  BY Zenon DEF GitInv, Git!NewBranch, Git!Base, Names, Handlers
<1>2. nb \notin DOMAIN writers
  BY <1>1 DEF GitInv, FutureInv, IsFuture, Handlers
<1>3. /\ DOMAIN repo' = DOMAIN repo \cup {nb} /\ repo'[nb] = file
      /\ \A b \in DOMAIN repo : repo'[b] = repo[b]
  BY <1>2, Zenon DEF Git!SetRepo, Git!With, GitInv, RemoteTypes
<1>4. /\ DOMAIN writers' = DOMAIN writers \cup {nb} /\ writers'[nb] = by
      /\ \A b \in DOMAIN writers : writers'[b] = writers[b]
  BY <1>2, Zenon DEF Git!SetRepo, Git!With
<1>5. history' = history
  <2>1. history' = history \cup {repo'[Git!Base].spec}
    BY Zenon DEF Git!SetRepo
  <2>2. repo'[Git!Base].spec = repo[Git!Base].spec /\ repo[Git!Base].spec \in history
    BY <1>3, Zenon DEF GitInv, RemoteTypes, RemoteInv
  <2> QED
    BY <2>1, <2>2, Zenon
<1>6. Git!OpenPrs' = Git!OpenPrs
  BY Zenon DEF Git!OpenPrs
<1>7. nb \notin DOMAIN repo /\ nb \notin DOMAIN prs
  BY <1>2, Zenon DEF GitInv, RemoteTypes
<1>8. RemoteTypes'
  BY <1>1, <1>3, <1>4, Zenon DEF GitInv, RemoteTypes
<1>9. RemoteInv'
  <2>1. \A b \in DOMAIN prs : Landed(b[1], b)' <=> Landed(b[1], b)
    BY <1>4, <1>5, Zenon DEF GitInv, RemoteTypes, Landed, Git!Has
  <2>2. \A b \in DOMAIN prs : writers'[b] = writers[b] /\ (b \in DOMAIN repo' => b \in DOMAIN repo)
    BY <1>3, <1>4, <1>7, Zenon DEF GitInv, RemoteTypes
  <2>3. \A b \in DOMAIN repo' :
           /\ repo'[b].fork[1] \in history
           /\ host = "github" => repo'[b].fork[2] \subseteq repo'[b].rest
    BY <1>3, Zenon DEF GitInv, RemoteInv
  <2> QED
    BY <1>3, <1>5, <1>6, <2>1, <2>2, <2>3 DEF GitInv, RemoteTypes, RemoteInv, Git!Has, Git!OldSpec
<1>10. RemoteChange(GitActions)
  <2>1. \A b \in DOMAIN repo : repo[b].head <= repo[b].head
    BY DEF GitInv, RemoteTypes, Files
  <2> QED
    BY <1>2, <1>3, <1>4, <1>5, <1>6, <2>1, Zenon DEF GitInv, RemoteTypes, RemoteChange
<1> QED
  BY <1>3, <1>4, <1>7, <1>8, <1>9, <1>10, Zenon

\* An action commits to its branch.
LEMMA CommitMade ==
  ASSUME GitInv, NEW a \in GitActions, NEW b, b = act[a].branch, b \in DOMAIN repo,
         Git!SetRepo([repo EXCEPT ![b] = Git!Commit(b, a)], b, {a}),
         UNCHANGED <<host, mode, live, edits, prs>>, Git!Has(act[a].desired, a),
         host = "github" => act[a].rest = repo[b].rest
  PROVE  /\ RemoteTypes' /\ RemoteInv' /\ RemoteChange(GitActions \ {a})
         /\ DOMAIN writers' = DOMAIN writers /\ DOMAIN repo' = DOMAIN repo
         /\ repo'[b].spec = act[a].desired /\ a \in writers'[b]
<1> PICK file : file = Git!Commit(b, a)
  BY Zenon
<1>0. act[a] \in Handlers /\ repo[b] \in Files /\ PlaceInv(a)
  BY Zenon DEF GitInv, RemoteTypes, ActInv
<1>1. /\ file \in Files /\ file.head = repo[b].head + 1 /\ file.spec = act[a].desired
      /\ file.rest = act[a].rest /\ file.fork = repo[b].fork
  <2>1. act[a].desired \in Specs /\ act[a].rest \in SUBSET Edits /\ repo[b].head + 1 \in Nat
    BY <1>0 DEF Handlers, Files
  <2> QED
    BY <1>0, <2>1, Zenon DEF Git!Commit, Files
<1>2. /\ DOMAIN repo' = DOMAIN repo /\ repo'[b] = file
      /\ \A d \in DOMAIN repo \ {b} : repo'[d] = repo[d]
  BY Zenon DEF Git!SetRepo
<1>3. b \in DOMAIN writers
  BY Zenon DEF GitInv, RemoteTypes
<1>4. /\ DOMAIN writers' = DOMAIN writers /\ writers'[b] = writers[b] \cup {a}
      /\ \A d \in DOMAIN writers \ {b} : writers'[d] = writers[d]
  BY <1>3, Zenon DEF Git!SetRepo
<1>5. history \subseteq history' /\ repo'[Git!Base].spec \in history'
  BY DEF Git!SetRepo
<1>6. Git!OpenPrs' = Git!OpenPrs
  BY Zenon DEF Git!OpenPrs
<1>7. RemoteTypes'
  BY <1>1, <1>2, <1>4, Zenon DEF GitInv, RemoteTypes
<1>8. RemoteInv'
  <2>1. ASSUME NEW d \in DOMAIN repo
        PROVE  /\ repo'[d].fork[1] \in history'
               /\ host = "github" => repo'[d].fork[2] \subseteq repo'[d].rest
    <3>1. repo[d].fork[1] \in history /\ (host = "github" => repo[d].fork[2] \subseteq repo[d].rest)
      BY Zenon DEF GitInv, RemoteInv
    <3>2. CASE d = b
      BY <1>1, <1>2, <1>5, <3>1, <3>2, Zenon
    <3>3. CASE d # b
      BY <1>2, <1>5, <3>1, <3>3, Zenon
    <3> QED
      BY <3>2, <3>3, Zenon
  <2>2. ASSUME NEW d \in DOMAIN prs
        PROVE  /\ d[1] \in writers'[d]
               /\ d \in DOMAIN repo' /\ writers'[d] \subseteq {d[1]} => Git!Has(repo'[d].spec, d[1])
               /\ prs[d] = "merged" => Landed(d[1], d)'
    <3>1. d \in DOMAIN writers /\ d[1] \in writers[d] /\ (prs[d] = "merged" => Landed(d[1], d))
      BY Zenon DEF GitInv, RemoteTypes, RemoteInv
    <3>2. writers[d] \subseteq writers'[d]
      BY <1>4, <3>1, Zenon
    <3>3. Landed(d[1], d) => Landed(d[1], d)'
      BY <1>5, <3>2, Zenon DEF Landed, Git!Has
    <3>4. ASSUME d \in DOMAIN repo', writers'[d] \subseteq {d[1]} PROVE Git!Has(repo'[d].spec, d[1])
      <4>1. CASE d = b
        BY <1>1, <1>2, <1>4, <3>4, <4>1, Zenon
      <4>2. CASE d # b
        BY <1>2, <1>4, <3>1, <3>4, <4>2, Zenon DEF GitInv, RemoteInv
      <4> QED
        BY <4>1, <4>2, Zenon
    <3> QED
      BY <3>1, <3>2, <3>3, <3>4, Zenon
  <2> QED
    BY <1>2, <1>5, <1>6, <2>1, <2>2, Zenon DEF GitInv, RemoteTypes, RemoteInv, Git!OldSpec, Git!Has
<1>9. RemoteChange(GitActions \ {a})
  <2>1. ASSUME NEW d \in DOMAIN repo \ DOMAIN prs, d # Git!Base, d[1] # a PROVE d # b
    BY <1>0, <2>1, Zenon DEF PlaceInv
  <2>2. ASSUME NEW d \in DOMAIN repo
        PROVE  /\ repo[d].head <= repo'[d].head
               /\ repo[d].head = repo'[d].head => repo'[d].rest = repo[d].rest
    <3>1. repo[d].head \in Nat
      BY Zenon DEF GitInv, RemoteTypes, Files
    <3> QED
      BY <1>1, <1>2, <3>1
  <2> QED
    BY <1>2, <1>4, <1>5, <1>6, <2>1, <2>2, Zenon DEF RemoteChange, GitInv, RemoteTypes
<1> QED
  BY <1>1, <1>2, <1>4, <1>7, <1>8, <1>9, Zenon

\* An action opens its request: it has no other.
LEMMA RequestMade ==
  ASSUME GitInv, NEW a \in GitActions, NEW b, b = act[a].branch, act[a].at = "open",
         prs' = Git!With(prs, b, "open"), UNCHANGED <<host, mode, live, edits, repo, history, writers>>
  PROVE  /\ RemoteTypes' /\ RemoteInv' /\ RemoteChange(GitActions \ {a}) /\ b \in DOMAIN prs'
<1>0. /\ PlaceInv(a) /\ OwnInv(a) /\ act[a] \in Handlers
  BY Zenon DEF GitInv, ActInv
<1>1. /\ b = Git!NewBranch(a) /\ b \in DOMAIN repo \ DOMAIN prs /\ a \in writers[b]
      /\ Git!Has(repo[b].spec, a) /\ \A d \in Git!OpenPrs : d[1] # a
  BY <1>0, Zenon DEF PlaceInv, OwnInv, Mine
<1>2. b[1] = a /\ b # Git!Base
  BY <1>0, <1>1 DEF Git!NewBranch, Git!Base, Handlers
<1>3. /\ DOMAIN prs' = DOMAIN prs \cup {b} /\ prs'[b] = "open"
      /\ \A d \in DOMAIN prs : prs'[d] = prs[d]
  BY <1>1, Zenon DEF Git!With
<1>4. Git!OpenPrs' = Git!OpenPrs \cup {b}
  BY <1>1, <1>3, Zenon DEF Git!OpenPrs
<1>5. RemoteTypes'
  BY <1>1, <1>2, <1>3, Zenon DEF GitInv, RemoteTypes
<1>6. RemoteInv'
  <2>1. \A d : Landed(d[1], d)' <=> Landed(d[1], d)
    BY Zenon DEF Landed, Git!Has
  <2>2. ASSUME NEW d \in DOMAIN prs'
        PROVE  /\ d[1] \in writers[d]
               /\ d \in DOMAIN repo /\ writers[d] \subseteq {d[1]} => Git!Has(repo[d].spec, d[1])
               /\ prs'[d] = "merged" => Landed(d[1], d)
    BY <1>1, <1>2, <1>3, Zenon DEF GitInv, RemoteInv
  <2>3. \A d, e \in Git!OpenPrs' : d[1] = e[1] => d = e
    BY <1>1, <1>2, <1>4, Zenon DEF GitInv, RemoteInv
  <2> QED
    BY <1>1, <1>4, <2>1, <2>2, <2>3, Zenon DEF GitInv, RemoteInv, Git!OldSpec, Git!Has
<1>7. RemoteChange(GitActions \ {a})
  <2>1. \A d \in DOMAIN repo : repo[d].head <= repo[d].head
    BY DEF GitInv, RemoteTypes, Files
  <2> QED
    BY <1>2, <1>3, <1>4, <2>1, Zenon DEF RemoteChange
<1> QED
  BY <1>3, <1>5, <1>6, <1>7, Zenon

\* The branch is made, and the handler gets on or its attempt fails: in either
\* case the name is used up.
LEMMA NameUsed ==
  ASSUME GitInv, NEW a \in GitActions, NEW nb, nb = Git!NewBranch(a), UNCHANGED host,
         \A c \in GitActions \ {a} : act'[c] = act[c], Trying(a), NextName(a) = act[a].attempt,
         Trying(a)' => NextName(a)' = act[a].attempt + 1, act' \in [GitActions -> Handlers],
         DOMAIN writers' = DOMAIN writers \cup {nb}
  PROVE  FutureInv'
<1>1. nb[1] = a /\ nb[2] = act[a].attempt /\ act[a].attempt \in Nat /\ NextName(a)' \in Nat
  BY DEF GitInv, Git!NewBranch, Handlers, NextName
<1>2. PICK N : N = {nb}
  BY Zenon
<1>3. \A b \in N : ~IsFuture(b)'
  BY <1>1, <1>2 DEF IsFuture
<1> QED
  BY <1>1, <1>2, <1>3, FutureStep

LEMMA SameNames ==
  ASSUME GitInv, NEW a \in GitActions, UNCHANGED host, \A c \in GitActions \ {a} : act'[c] = act[c],
         Trying(a), Trying(a)' => NextName(a)' = act[a].attempt + 1, act' \in [GitActions -> Handlers],
         DOMAIN writers' = DOMAIN writers
  PROVE  FutureInv'
<1>1. NextName(a)' \in Nat /\ act[a].attempt + 1 >= NextName(a)
  BY DEF GitInv, Handlers, NextName
<1>2. PICK N : N = {}
  BY Zenon
<1>3. DOMAIN writers' = DOMAIN writers \cup N /\ \A b \in N : ~IsFuture(b)'
  BY <1>2, Zenon
<1> QED
  BY <1>1, <1>3, FutureStep, Zenon

LEMMA BranchThenFails ==
  ASSUME GitInv, NEW a \in GitActions, NEW nb, nb = Git!NewBranch(a), NEW file \in Files, NEW by,
         Git!SetRepo(Git!With(repo, nb, file), nb, by), UNCHANGED <<host, mode, live, edits, prs>>,
         Trying(a), NextName(a) = act[a].attempt, file.fork[1] \in history,
         host = "github" => file.fork[2] \subseteq file.rest, Git!AttemptFails(a)
  PROVE  GitInv'
<1>1. /\ RemoteTypes' /\ RemoteInv' /\ RemoteChange(GitActions)
      /\ DOMAIN writers' = DOMAIN writers \cup {nb}
  BY BranchMade, Zenon
<1>2. /\ act' \in [GitActions -> Handlers] /\ ActInv(a)'
      /\ \A c \in GitActions \ {a} : act'[c] = act[c]
      /\ Trying(a)' => NextName(a)' = act[a].attempt + 1
  BY <1>1, AttemptFailsInv, Zenon
<1>3. FutureInv'
  BY <1>1, <1>2, NameUsed, Zenon
<1>4. RemoteChange(GitActions \ {a})
  BY <1>1, FewerSee, Zenon
<1> QED
  BY <1>1, <1>2, <1>3, <1>4, Assemble, Zenon

LEMMA CreateNewBranchStep ==
  ASSUME GitInv, NEW a \in GitActions, Git!CreateNewBranch(a)
  PROVE  GitInv'
<1> PICK nb : nb = Git!NewBranch(a)
  BY Zenon
<1> PICK file : file = Git!ForkOfBase(repo[Git!Base].spec, repo[Git!Base].rest)
  BY Zenon
<1>0. /\ act[a] \in Handlers /\ PlaceInv(a) /\ OwnInv(a) /\ act[a].at = "branch"
      /\ UNCHANGED <<host, mode, live, edits, prs>>
  BY Zenon DEF GitInv, ActInv, Git!CreateNewBranch, Git!At
<1>1. /\ host = "github" /\ Git!Request(a) /\ Git!Request(a)' /\ ~act[a].pr /\ Trying(a)
      /\ NextName(a) = act[a].attempt
  BY <1>0, Zenon DEF PlaceInv, Git!Request, Trying, NextName
<1>2. /\ file \in Files /\ file.head = 0 /\ file.spec = repo[Git!Base].spec
      /\ file.fork[1] = repo[Git!Base].spec /\ file.fork[2] = file.rest
  <2>1. repo[Git!Base].spec \in Specs /\ repo[Git!Base].rest \in SUBSET Edits /\ 0 \in Nat
    BY Zenon DEF GitInv, RemoteTypes, Files
  <2> QED
    BY <2>1, Zenon DEF Git!ForkOfBase, Files
<1>3. repo[Git!Base].spec \in history
  BY Zenon DEF GitInv, RemoteInv
<1> DEFINE Effect == Git!SetRepo(Git!With(repo, nb, file), nb, {})
<1>4. CASE Effect /\ Git!Step(a, [act[a] EXCEPT !.branch = nb, !.ref = 0, !.at = "read"])
  <2> PICK r : r = [act[a] EXCEPT !.branch = nb, !.ref = 0, !.at = "read"]
    BY Zenon
  <2>1. /\ RemoteTypes' /\ RemoteInv' /\ RemoteChange(GitActions)
        /\ DOMAIN writers' = DOMAIN writers \cup {nb} /\ writers'[nb] = {}
        /\ nb \in DOMAIN repo' \ DOMAIN prs' /\ repo'[nb] = file
    BY <1>0, <1>1, <1>2, <1>3, <1>4, BranchMade
  <2>2. nb \in Names /\ nb[1] = a
    BY <1>0, Zenon DEF Git!NewBranch, Names, Handlers
  <2>3. /\ r \in Handlers /\ r.at = "read" /\ r.branch = nb /\ r.pr = act[a].pr /\ r.ref = 0
        /\ r.backup = act[a].backup /\ r.desired = act[a].desired /\ r.attempt = act[a].attempt
    BY <1>0, <2>2, Zenon DEF Handlers
  <2>4. /\ act' \in [GitActions -> Handlers] /\ act'[a] = r
        /\ \A c \in GitActions \ {a} : act'[c] = act[c]
    BY <1>4, <2>3, Proceeds, Zenon
  <2>5. PlaceInv(a)'
    BY <1>0, <1>1, <2>1, <2>2, <2>3, <2>4 DEF PlaceInv, RemoteChange, Git!Has
  <2>6. OwnInv(a)'
    <3>1. Git!NewBranch(a)' = nb /\ Git!OpenPrs' = Git!OpenPrs
      BY <1>0, <2>3, <2>4, Zenon DEF Git!NewBranch, Git!OpenPrs
    <3>2. \A b \in Git!OpenPrs : b[1] # a
      BY <1>0, <1>1, Zenon DEF OwnInv, Mine
    <3>3. file.spec \in history'
      BY <1>2, <1>3, <2>1, Zenon DEF RemoteChange
    <3> QED
      BY <1>0, <1>1, <2>1, <2>3, <2>4, <3>1, <3>2, <3>3 DEF OwnInv, Mine
  <2>7. HeadInv(a)'
    BY <1>2, <2>1, <2>3, <2>4 DEF HeadInv
  <2>8. NextName(a)' = act[a].attempt + 1
    BY <1>0, <1>1, <2>3, <2>4, Zenon DEF NextName
  <2>9. FutureInv'
    BY <1>0, <1>1, <2>1, <2>4, <2>8, NameUsed, Zenon
  <2> QED
    BY <2>1, <2>4, <2>5, <2>6, <2>7, <2>9, FewerSee, Assemble, Zenon DEF ActInv
<1>5. CASE Effect /\ Git!AttemptFails(a)
  BY <1>0, <1>1, <1>2, <1>3, <1>5, BranchThenFails, Zenon
<1>6. CASE Git!KeepRepo /\ Git!AttemptFails(a)
  <2>1. Quiet
    BY <1>0, <1>6, NothingNew, Zenon DEF Git!KeepRemote
  <2> QED
    BY <1>1, <1>6, <2>1, QuietFails, Zenon
<1> QED
  BY <1>4, <1>5, <1>6, Zenon DEF Git!CreateNewBranch, Git!Call

\* The commit is made, and the handler is done, waits or goes on to its request.
LEMMA CommitThenOn ==
  ASSUME GitInv, NEW a \in GitActions, NEW b, b = act[a].branch, b \in DOMAIN repo, act[a].at = "push",
         Git!SetRepo([repo EXCEPT ![b] = Git!Commit(b, a)], b, {a}),
         UNCHANGED <<host, mode, live, edits, prs>>, host = "github" => act[a].rest = repo[b].rest,
         host = "gitlab" => ~Git!Request(a) \/ act[a].pr,
         Git!Step(a, [act[a] EXCEPT !.at = Git!AfterPush(a)])
  PROVE  GitInv'
<1> PICK at : at = Git!AfterPush(a)
  BY Zenon
<1> PICK r : r = [act[a] EXCEPT !.at = at]
  BY Zenon
<1>0. /\ act[a] \in Handlers /\ PlaceInv(a) /\ OwnInv(a) /\ host \in {"github", "gitlab"}
      /\ Git!Request(a)' <=> Git!Request(a)
  BY Zenon DEF GitInv, RemoteTypes, ActInv, Git!Request
<1>1. Git!Has(act[a].desired, a)
  BY <1>0, Zenon DEF PlaceInv
<1>2. /\ RemoteTypes' /\ RemoteInv' /\ RemoteChange(GitActions \ {a})
      /\ DOMAIN writers' = DOMAIN writers /\ DOMAIN repo' = DOMAIN repo
      /\ repo'[b].spec = act[a].desired /\ a \in writers'[b]
  BY <1>1, CommitMade, Zenon
<1>3. at \in {"ok", "wait", "open"}
  BY Zenon DEF Git!AfterPush
<1>4. /\ r \in Handlers /\ r.at = at /\ r.branch = b /\ r.pr = act[a].pr
      /\ r.backup = act[a].backup /\ r.attempt = act[a].attempt
  BY <1>0, <1>3, Zenon DEF Handlers
<1>5. /\ act' \in [GitActions -> Handlers] /\ ActInv(a)'
      /\ \A c \in GitActions \ {a} : act'[c] = act[c]
      /\ Trying(a)' => NextName(a)' = act[a].attempt + 1
  <2>1. CASE at \in {"ok", "wait"}
    <3>1. /\ r.backup \in history /\ r.branch \in DOMAIN writers'
          /\ r.branch = Git!Base \/ r.branch[1] = a \/ r.branch \in DOMAIN prs'
      BY <1>0, <1>2, <1>4, Zenon DEF PlaceInv
    <3>2. at = "wait" => r.branch \in DOMAIN prs'
      BY <1>0, <1>4, Zenon DEF PlaceInv, Git!AfterPush
    <3>3. at = "ok" => Landed(a, r.branch)'
      <4>1. at = "ok" => b = Git!Base
        BY <1>0, Zenon DEF PlaceInv, Git!AfterPush
      <4>2. repo'[Git!Base].spec \in history'
        BY <1>2, Zenon DEF RemoteInv
      <4> QED
        BY <1>1, <1>2, <4>1, <4>2, Zenon DEF Landed, Git!Has
    <3> QED
      BY <1>2, <1>4, <2>1, <3>1, <3>2, <3>3, SettledInv, Zenon
  <2>2. CASE at = "open"
    <3>1. Git!Request(a) /\ ~act[a].pr /\ host = "github"
      BY <1>0, <2>2, Zenon DEF Git!AfterPush
    <3>2. /\ act' \in [GitActions -> Handlers] /\ act'[a] = r
          /\ \A c \in GitActions \ {a} : act'[c] = act[c]
      BY <1>4, <2>2, Proceeds, Zenon
    <3>3. /\ b = Git!NewBranch(a) /\ b \in DOMAIN repo \ DOMAIN prs
          /\ \A d \in Git!OpenPrs : d[1] # a
      BY <1>0, <3>1, Zenon DEF OwnInv, Mine
    <3>4. PlaceInv(a)'
      BY <1>0, <1>2, <1>4, <2>2, <3>1, <3>2, Zenon DEF PlaceInv, RemoteChange
    <3>5. OwnInv(a)'
      <4>1. Git!NewBranch(a)' = Git!NewBranch(a) /\ Git!OpenPrs' = Git!OpenPrs
        BY <1>4, <3>2, Zenon DEF Git!NewBranch, Git!OpenPrs
      <4>2. Git!Has(repo'[b].spec, a) /\ b \in DOMAIN repo' \ DOMAIN prs'
        BY <1>1, <1>2, <3>3, Zenon
      <4>3. act'[a].at = "open" /\ act'[a].branch = b
        BY <1>4, <2>2, <3>2, Zenon
      <4> QED
        BY <1>2, <3>3, <4>1, <4>2, <4>3, Zenon DEF OwnInv, Git!Has
    <3>6. HeadInv(a)' /\ NextName(a)' = act[a].attempt + 1
      BY <1>4, <2>2, <3>2, Zenon DEF HeadInv, NextName
    <3> QED
      BY <3>2, <3>4, <3>5, <3>6, Zenon DEF ActInv
  <2> QED
    BY <1>3, <2>1, <2>2, Zenon
<1>6. FutureInv'
  BY <1>0, <1>2, <1>5, SameNames, Zenon DEF Trying
<1> QED
  BY <1>2, <1>5, <1>6, Assemble, Zenon

LEMMA CommitThenFails ==
  ASSUME GitInv, NEW a \in GitActions, NEW b, b = act[a].branch, b \in DOMAIN repo, act[a].at = "push",
         Git!SetRepo([repo EXCEPT ![b] = Git!Commit(b, a)], b, {a}),
         UNCHANGED <<host, mode, live, edits, prs>>, host = "github" => act[a].rest = repo[b].rest,
         Git!AttemptFails(a)
  PROVE  GitInv'
<1>0. Git!Has(act[a].desired, a) /\ Trying(a)
  BY Zenon DEF GitInv, ActInv, PlaceInv, Trying
<1>1. /\ RemoteTypes' /\ RemoteInv' /\ RemoteChange(GitActions \ {a})
      /\ DOMAIN writers' = DOMAIN writers
  BY <1>0, CommitMade, Zenon
<1>2. /\ act' \in [GitActions -> Handlers] /\ ActInv(a)'
      /\ \A c \in GitActions \ {a} : act'[c] = act[c]
      /\ Trying(a)' => NextName(a)' = act[a].attempt + 1
  BY <1>0, <1>1, AttemptFailsInv, Zenon
<1>3. FutureInv'
  BY <1>0, <1>1, <1>2, SameNames, Zenon
<1> QED
  BY <1>1, <1>2, <1>3, Assemble, Zenon

\* On GitHub a commit goes through only if the branch has not moved.
LEMMA PushCommitStep ==
  ASSUME GitInv, NEW a \in GitActions, Git!PushCommit(a)
  PROVE  GitInv'
<1> PICK b : b = act[a].branch
  BY Zenon
<1>0. /\ act[a].at = "push" /\ host = "github" /\ HeadInv(a) /\ Trying(a)
      /\ UNCHANGED <<host, mode, live, edits, prs>>
  BY Zenon DEF GitInv, ActInv, Git!PushCommit, Git!At, Trying
<1> DEFINE Effect == Git!SetRepo([repo EXCEPT ![b] = Git!Commit(b, a)], b, {a})
<1>1. ASSUME b \in DOMAIN repo, repo[b].head = act[a].ref PROVE act[a].rest = repo[b].rest
  BY <1>0, <1>1, Zenon DEF HeadInv
<1>2. CASE /\ b \in DOMAIN repo /\ repo[b].head = act[a].ref
           /\ Effect /\ Git!Step(a, [act[a] EXCEPT !.at = Git!AfterPush(a)])
  BY <1>0, <1>1, <1>2, CommitThenOn, Zenon
<1>3. CASE b \in DOMAIN repo /\ repo[b].head = act[a].ref /\ Effect /\ Git!AttemptFails(a)
  BY <1>0, <1>1, <1>3, CommitThenFails, Zenon
<1>4. CASE Git!KeepRepo /\ Git!AttemptFails(a)
  <2>1. Quiet
    BY <1>0, <1>4, NothingNew, Zenon DEF Git!KeepRemote
  <2> QED
    BY <1>0, <1>4, <2>1, QuietFails, Zenon
<1> QED
  BY <1>2, <1>3, <1>4, Zenon DEF Git!PushCommit, Git!Call

\* On GitLab a commit replaces the file, or makes a branch with it.
LEMMA CreateCommitStep ==
  ASSUME GitInv, NEW a \in GitActions, Git!CreateCommit(a)
  PROVE  GitInv'
<1> PICK b : b = act[a].branch
  BY Zenon
<1> PICK nb : nb = Git!NewBranch(a)
  BY Zenon
<1> PICK file : file = Git!ForkOfBase(act[a].desired, act[a].rest)
  BY Zenon
<1>0. /\ act[a] \in Handlers /\ PlaceInv(a) /\ OwnInv(a) /\ act[a].at = "push" /\ host = "gitlab"
      /\ UNCHANGED <<host, mode, live, edits, prs>>
  BY Zenon DEF GitInv, ActInv, Git!CreateCommit, Git!At
<1>1. /\ Trying(a) /\ NextName(a) = act[a].attempt /\ Git!Has(act[a].desired, a)
      /\ Git!Request(a)' <=> Git!Request(a)
  BY <1>0, Zenon DEF Trying, NextName, PlaceInv, Git!Request
<1> DEFINE Effect == Git!SetRepo([repo EXCEPT ![b] = Git!Commit(b, a)], b, {a})
           New == Git!SetRepo(Git!With(repo, nb, file), nb, {a})
<1>2. /\ file \in Files /\ file.spec = act[a].desired
      /\ file.fork[1] = repo[Git!Base].spec /\ repo[Git!Base].spec \in history
  <2>1. /\ repo[Git!Base].spec \in Specs /\ repo[Git!Base].rest \in SUBSET Edits /\ 0 \in Nat
        /\ repo[Git!Base].spec \in history
    BY Zenon DEF GitInv, RemoteTypes, RemoteInv, Files
  <2>2. act[a].desired \in Specs /\ act[a].rest \in SUBSET Edits
    BY <1>0, Zenon DEF Handlers
  <2> QED
    BY <2>1, <2>2, Zenon DEF Git!ForkOfBase, Files
<1>3. CASE /\ Git!Request(a) /\ ~act[a].pr /\ New
           /\ Git!Step(a, [act[a] EXCEPT !.branch = nb, !.at = "open"])
  <2> PICK r : r = [act[a] EXCEPT !.branch = nb, !.at = "open"]
    BY Zenon
  <2>1. /\ RemoteTypes' /\ RemoteInv' /\ RemoteChange(GitActions)
        /\ DOMAIN writers' = DOMAIN writers \cup {nb} /\ writers'[nb] = {a}
        /\ nb \in DOMAIN repo' \ DOMAIN prs' /\ repo'[nb] = file
    BY <1>0, <1>1, <1>2, <1>3, BranchMade
  <2>2. nb \in Names /\ nb[1] = a
    BY <1>0, Zenon DEF Git!NewBranch, Names, Handlers
  <2>3. /\ r \in Handlers /\ r.at = "open" /\ r.branch = nb /\ r.pr = act[a].pr
        /\ r.backup = act[a].backup /\ r.attempt = act[a].attempt
    BY <1>0, <2>2, Zenon DEF Handlers
  <2>4. /\ act' \in [GitActions -> Handlers] /\ act'[a] = r
        /\ \A c \in GitActions \ {a} : act'[c] = act[c]
    BY <1>3, <2>3, Proceeds, Zenon
  <2>5. PlaceInv(a)'
    BY <1>0, <1>1, <1>3, <2>1, <2>2, <2>3, <2>4, Zenon DEF PlaceInv, RemoteChange
  <2>6. OwnInv(a)'
    <3>1. Git!NewBranch(a)' = nb /\ Git!OpenPrs' = Git!OpenPrs
      BY <1>0, <2>3, <2>4, Zenon DEF Git!NewBranch, Git!OpenPrs
    <3>2. \A d \in Git!OpenPrs : d[1] # a
      BY <1>0, <1>3, Zenon DEF OwnInv, Mine
    <3>3. Git!Has(repo'[nb].spec, a) /\ act'[a].at = "open" /\ act'[a].branch = nb
      BY <1>1, <1>2, <2>1, <2>3, <2>4, Zenon
    <3> QED
      BY <2>1, <3>1, <3>2, <3>3, Zenon DEF OwnInv, Git!Has
  <2>7. HeadInv(a)' /\ NextName(a)' = act[a].attempt + 1
    BY <2>3, <2>4, Zenon DEF HeadInv, NextName
  <2>8. FutureInv'
    BY <1>0, <1>1, <2>1, <2>4, <2>7, NameUsed, Zenon
  <2> QED
    BY <2>1, <2>4, <2>5, <2>6, <2>7, <2>8, FewerSee, Assemble, Zenon DEF ActInv
<1>4. CASE New /\ Git!AttemptFails(a)
  BY <1>0, <1>1, <1>2, <1>4, BranchThenFails, Zenon
<1>5. CASE /\ ~Git!Request(a) \/ act[a].pr
           /\ b \in DOMAIN repo /\ Effect /\ Git!Step(a, [act[a] EXCEPT !.at = Git!AfterPush(a)])
  BY <1>0, <1>5, CommitThenOn, Zenon
<1>6. CASE b \in DOMAIN repo /\ Effect /\ Git!AttemptFails(a)
  BY <1>0, <1>6, CommitThenFails, Zenon
<1>7. CASE Git!KeepRepo /\ Git!AttemptFails(a)
  <2>1. Quiet
    BY <1>0, <1>7, NothingNew, Zenon DEF Git!KeepRemote
  <2> QED
    BY <1>1, <1>7, <2>1, QuietFails, Zenon
<1> QED
  BY <1>3, <1>4, <1>5, <1>6, <1>7, Zenon DEF Git!CreateCommit, Git!Call

LEMMA NewPRStep ==
  ASSUME GitInv, NEW a \in GitActions, Git!NewPR(a)
  PROVE  GitInv'
<1> PICK b : b = act[a].branch
  BY Zenon
<1>0. /\ act[a] \in Handlers /\ PlaceInv(a) /\ act[a].at = "open" /\ Trying(a)
      /\ UNCHANGED <<host, mode, live, edits, repo, history, writers>>
  BY Zenon DEF GitInv, ActInv, Git!NewPR, Git!At, Git!KeepRepo, Trying
<1> DEFINE Effect == prs' = Git!With(prs, b, "open")
<1>1. ASSUME Effect
      PROVE  RemoteTypes' /\ RemoteInv' /\ RemoteChange(GitActions \ {a}) /\ b \in DOMAIN prs'
  BY <1>0, <1>1, RequestMade, Zenon
<1>2. CASE Effect /\ Git!Step(a, [act[a] EXCEPT !.at = "wait"])
  <2> PICK r : r = [act[a] EXCEPT !.at = "wait"]
    BY Zenon
  <2>1. r \in Handlers /\ r.at = "wait" /\ r.branch = b /\ r.backup = act[a].backup
    BY <1>0, Zenon DEF Handlers
  <2>2. r.backup \in history /\ r.branch \in DOMAIN writers'
    BY <1>0, <2>1, Zenon DEF PlaceInv
  <2>3. /\ act' \in [GitActions -> Handlers] /\ ActInv(a)' /\ ~Trying(a)'
        /\ \A c \in GitActions \ {a} : act'[c] = act[c]
    BY <1>1, <1>2, <2>1, <2>2, SettledInv, Zenon
  <2>4. FutureInv'
    BY <1>0, <2>3, SameNames, Zenon
  <2> QED
    BY <1>1, <1>2, <2>3, <2>4, Assemble, Zenon
<1>3. CASE Effect /\ Git!AttemptFails(a)
  <2>1. /\ act' \in [GitActions -> Handlers] /\ ActInv(a)'
        /\ \A c \in GitActions \ {a} : act'[c] = act[c]
        /\ Trying(a)' => NextName(a)' = act[a].attempt + 1
    BY <1>0, <1>1, <1>3, AttemptFailsInv, Zenon
  <2>2. FutureInv'
    BY <1>0, <2>1, SameNames, Zenon
  <2> QED
    BY <1>1, <1>3, <2>1, <2>2, Assemble, Zenon
<1>4. CASE UNCHANGED prs /\ Git!AttemptFails(a)
  <2>1. Quiet
    BY <1>0, <1>4, NothingNew, Zenon DEF Git!KeepRemote, Git!KeepRepo
  <2> QED
    BY <1>0, <1>4, <2>1, QuietFails, Zenon
<1> QED
  BY <1>2, <1>3, <1>4, Zenon DEF Git!NewPR, Git!Call

-----------------------------------------------------------------------------
(* Users, the host of the repository and Argo CD                           *)

\* What happens to the remote without the handlers.
LEMMA WorldStep ==
  ASSUME GitInv, RemoteTypes', RemoteInv', RemoteChange(GitActions), UNCHANGED act,
         DOMAIN writers' = DOMAIN writers
  PROVE  GitInv'
<1>1. ASSUME NEW c \in GitActions PROVE ActInv(c)'
  BY Bystander, Zenon
<1>2. FutureInv'
  BY Zenon DEF GitInv, FutureInv, IsFuture, Trying, NextName, RemoteChange
<1> QED
  BY <1>1, <1>2, Zenon DEF GitInv

\* A commit of a user leaves the pod template alone.
LEMMA UserCommitsStep ==
  ASSUME GitInv, Git!UserCommits
  PROVE  GitInv' /\ Git!KeepsEdits
<1> PICK e \in edits, b \in DOMAIN repo :
         /\ Git!SetRepo([repo EXCEPT ![b].head = @ + 1, ![b].rest = @ \cup {e}], b, {})
         /\ edits' = edits \ {e}
  BY Zenon DEF Git!UserCommits
<1>0. UNCHANGED <<host, mode, live, prs, act>>
  BY Zenon DEF Git!UserCommits
<1>1. repo[b] \in Files /\ e \in Edits /\ b \in DOMAIN writers
  BY Zenon DEF GitInv, RemoteTypes
<1>2. /\ DOMAIN repo' = DOMAIN repo
      /\ repo'[b] = [repo[b] EXCEPT !.head = @ + 1, !.rest = @ \cup {e}]
      /\ \A d \in DOMAIN repo \ {b} : repo'[d] = repo[d]
  BY <1>1, Zenon DEF Git!SetRepo, Files
<1>3. /\ repo'[b] \in Files /\ repo'[b].head = repo[b].head + 1 /\ repo'[b].spec = repo[b].spec
      /\ repo'[b].rest = repo[b].rest \cup {e} /\ repo'[b].fork = repo[b].fork
  <2>1. repo[b].head + 1 \in Nat /\ repo[b].rest \cup {e} \in SUBSET Edits
    BY <1>1 DEF Files
  <2> QED
    BY <1>1, <1>2, <2>1, Zenon DEF Files
<1>4. \A d \in DOMAIN repo :
         /\ repo'[d].spec = repo[d].spec /\ repo'[d].fork = repo[d].fork
         /\ repo[d].rest \subseteq repo'[d].rest
         /\ repo[d].head <= repo'[d].head
         /\ repo[d].head = repo'[d].head => repo'[d].rest = repo[d].rest
  <2> TAKE d \in DOMAIN repo
  <2>1. repo[d].head \in Nat
    BY Zenon DEF GitInv, RemoteTypes, Files
  <2>2. CASE d = b
    BY <1>3, <2>1, <2>2
  <2>3. CASE d # b
    BY <1>2, <2>1, <2>3
  <2> QED
    BY <2>2, <2>3, Zenon
<1>5. DOMAIN writers' = DOMAIN writers /\ \A d \in DOMAIN writers : writers'[d] = writers[d]
  BY <1>1, Zenon DEF Git!SetRepo
<1>6. history' = history
  <2>1. history' = history \cup {repo'[Git!Base].spec}
    BY Zenon DEF Git!SetRepo
  <2>2. repo'[Git!Base].spec = repo[Git!Base].spec /\ repo[Git!Base].spec \in history
    BY <1>4, Zenon DEF GitInv, RemoteTypes, RemoteInv
  <2> QED
    BY <2>1, <2>2, Zenon
<1>7. Git!OpenPrs' = Git!OpenPrs
  BY <1>0, Zenon DEF Git!OpenPrs
<1>8. RemoteTypes'
  BY <1>0, <1>2, <1>3, <1>5, Zenon DEF GitInv, RemoteTypes
<1>9. RemoteInv'
  <2>1. \A d \in DOMAIN prs : writers'[d] = writers[d] /\ (Landed(d[1], d)' <=> Landed(d[1], d))
    BY <1>5, <1>6, Zenon DEF GitInv, RemoteTypes, Landed, Git!Has
  <2>2. ASSUME NEW d \in DOMAIN repo
        PROVE  /\ repo'[d].fork[1] \in history
               /\ host = "github" => repo'[d].fork[2] \subseteq repo'[d].rest
    BY <1>4, Zenon DEF GitInv, RemoteInv
  <2> QED
    BY <1>0, <1>2, <1>4, <1>6, <1>7, <2>1, <2>2 DEF GitInv, RemoteTypes, RemoteInv, Git!Has, Git!OldSpec
<1>10. RemoteChange(GitActions)
  BY <1>0, <1>2, <1>4, <1>5, <1>6, <1>7, Zenon DEF GitInv, RemoteTypes, RemoteChange
<1>11. Git!KeepsEdits
  BY <1>4, Zenon DEF Git!KeepsEdits
<1> QED
  BY <1>0, <1>5, <1>8, <1>9, <1>10, <1>11, WorldStep, Zenon

\* What a merge makes of the base branch: it has the size of the request, or
\* the branch forked from a base that had it.
LEMMA MergedFile ==
  ASSUME GitInv, NEW b \in Git!OpenPrs, NEW file, file = Git!Merged(b)
  PROVE  /\ b \in DOMAIN repo /\ b \in Names /\ b # Git!Base /\ file \in Files
         /\ file.head = repo[Git!Base].head + 1 /\ file.fork = repo[Git!Base].fork
         /\ host = "github" => repo[Git!Base].rest \subseteq file.rest
         /\ Git!Has(repo[b].spec, b[1]) => Git!Has(file.spec, b[1]) \/ Git!Has(repo[b].fork[1], b[1])
<1> DEFINE ours == repo[Git!Base]
           theirs == repo[b]
           spec == [c \in GitContainers |-> IF theirs.spec[c] = theirs.fork[1][c] THEN ours.spec[c]
                                            ELSE theirs.spec[c]]
           rest == (ours.rest \ (theirs.fork[2] \ theirs.rest)) \cup theirs.rest
<1>1. b \in DOMAIN repo /\ b \in Names /\ b # Git!Base
  BY Zenon DEF GitInv, RemoteTypes, RemoteInv, Git!OpenPrs
<1>2. ours \in Files /\ theirs \in Files
  BY <1>1, Zenon DEF GitInv, RemoteTypes
<1>3. spec \in Specs /\ rest \in SUBSET Edits /\ ours.head + 1 \in Nat
  BY <1>2 DEF Files, Specs
<1>4. file = [ours EXCEPT !.head = ours.head + 1, !.spec = spec, !.rest = rest]
  BY <1>2, Zenon DEF Git!Merged, Files
<1>5. /\ file \in Files /\ file.head = ours.head + 1 /\ file.spec = spec /\ file.rest = rest
      /\ file.fork = ours.fork
  <2> HIDE DEF ours, spec, rest
  <2> QED
    BY <1>2, <1>3, <1>4, Zenon DEF Files
<1>6. host = "github" => ours.rest \subseteq file.rest
  BY <1>1, <1>5, Zenon DEF GitInv, RemoteInv
<1>7. ASSUME Git!Has(theirs.spec, b[1]) PROVE Git!Has(file.spec, b[1]) \/ Git!Has(theirs.fork[1], b[1])
  <2>1. GitWants[b[1]].container \in GitContainers
    BY <1>1, GitAssumption, Zenon DEF Names
  <2> QED
    BY <1>5, <1>7, <2>1, Zenon DEF Git!Has
<1> QED
  BY <1>1, <1>5, <1>6, <1>7, Zenon

\* A merge lands the request on the base branch and may delete its branch.
LEMMA MergePRStep ==
  ASSUME GitInv, Git!MergePR
  PROVE  GitInv' /\ Git!KeepsEdits
<1> PICK b \in Git!OpenPrs, keep \in BOOLEAN :
         /\ LET r == [repo EXCEPT ![Git!Base] = Git!Merged(b)]
            IN  Git!SetRepo(IF keep THEN r ELSE [x \in DOMAIN r \ {b} |-> r[x]], Git!Base, {})
         /\ prs' = [prs EXCEPT ![b] = "merged"]
  BY Zenon DEF Git!MergePR
<1> PICK file : file = Git!Merged(b)
  BY Zenon
<1>0. UNCHANGED <<host, mode, live, edits, act>>
  BY Zenon DEF Git!MergePR
<1>1. /\ b \in DOMAIN repo /\ b \in Names /\ b # Git!Base /\ file \in Files
      /\ file.head = repo[Git!Base].head + 1 /\ file.fork = repo[Git!Base].fork
      /\ host = "github" => repo[Git!Base].rest \subseteq file.rest
      /\ Git!Has(repo[b].spec, b[1]) => Git!Has(file.spec, b[1]) \/ Git!Has(repo[b].fork[1], b[1])
  BY MergedFile, Zenon
<1>2. Git!Base \in DOMAIN repo /\ Git!Base \in DOMAIN writers /\ b \in DOMAIN prs /\ Git!Base \notin DOMAIN prs
  BY Zenon DEF GitInv, RemoteTypes, Git!OpenPrs
<1>3. /\ DOMAIN repo' \in {DOMAIN repo, DOMAIN repo \ {b}} /\ repo'[Git!Base] = file
      /\ \A d \in DOMAIN repo' \ {Git!Base} : repo'[d] = repo[d]
  BY <1>1, <1>2, Zenon DEF Git!SetRepo
<1>4. Git!Base \in DOMAIN repo' /\ DOMAIN repo' \subseteq DOMAIN repo
  BY <1>1, <1>2, <1>3, Zenon
<1>5. DOMAIN writers' = DOMAIN writers /\ \A d \in DOMAIN writers : writers'[d] = writers[d]
  BY <1>2, Zenon DEF Git!SetRepo
<1>6. history' = history \cup {file.spec}
  BY <1>3, Zenon DEF Git!SetRepo
<1>7. /\ DOMAIN prs' = DOMAIN prs /\ prs'[b] = "merged" /\ \A d \in DOMAIN prs \ {b} : prs'[d] = prs[d]
      /\ Git!OpenPrs' = Git!OpenPrs \ {b}
  BY <1>2, Zenon DEF Git!OpenPrs
<1>8. RemoteTypes'
  BY <1>0, <1>1, <1>2, <1>3, <1>4, <1>5, <1>7, Zenon DEF GitInv, RemoteTypes
<1>9. RemoteInv'
  <2>1. ASSUME NEW d \in DOMAIN prs
        PROVE  /\ d[1] \in writers'[d]
               /\ d \in DOMAIN repo' /\ writers'[d] \subseteq {d[1]} => Git!Has(repo'[d].spec, d[1])
               /\ prs'[d] = "merged" => Landed(d[1], d)'
    <3>1. /\ d \in DOMAIN writers /\ d # Git!Base /\ d[1] \in writers[d]
          /\ d \in DOMAIN repo /\ writers[d] \subseteq {d[1]} => Git!Has(repo[d].spec, d[1])
          /\ prs[d] = "merged" => Landed(d[1], d)
      BY Zenon DEF GitInv, RemoteTypes, RemoteInv
    <3>2. Landed(d[1], d) => Landed(d[1], d)'
      BY <1>5, <1>6, <3>1, Zenon DEF Landed, Git!Has
    <3>3. CASE d # b
      BY <1>3, <1>4, <1>5, <1>7, <3>1, <3>2, <3>3, Zenon
    <3>4. CASE d = b
      <4>1. Landed(b[1], b)'
        <5>1. CASE writers[b] \subseteq {b[1]}
          <6>1. Git!Has(file.spec, b[1]) \/ Git!Has(repo[b].fork[1], b[1])
            BY <1>1, <3>1, <3>4, <5>1, Zenon
          <6>2. file.spec \in history' /\ repo[b].fork[1] \in history'
            BY <1>1, <1>6, Zenon DEF GitInv, RemoteInv
          <6> QED
            BY <6>1, <6>2, Zenon DEF Landed, Git!Has
        <5>2. CASE ~(writers[b] \subseteq {b[1]})
          BY <1>5, <3>1, <3>4, <5>2, Zenon DEF Landed
        <5> QED
          BY <5>1, <5>2, Zenon
      <4> QED
        BY <1>3, <1>4, <1>5, <3>1, <3>4, <4>1, Zenon
    <3> QED
      BY <3>3, <3>4, Zenon
  <2>2. ASSUME NEW d \in DOMAIN repo'
        PROVE  /\ repo'[d].fork[1] \in history'
               /\ host = "github" => repo'[d].fork[2] \subseteq repo'[d].rest
    <3>1. d \in DOMAIN repo
      BY <1>4, Zenon
    <3>2. repo[d].fork[1] \in history /\ (host = "github" => repo[d].fork[2] \subseteq repo[d].rest)
      BY <3>1, Zenon DEF GitInv, RemoteInv
    <3>3. CASE d = Git!Base
      BY <1>1, <1>3, <1>6, <3>2, <3>3, Zenon
    <3>4. CASE d # Git!Base
      BY <1>3, <1>6, <3>2, <3>4, Zenon
    <3> QED
      BY <3>3, <3>4, Zenon
  <2>3. Git!OpenPrs' \subseteq DOMAIN repo'
    BY <1>3, <1>7, Zenon DEF GitInv, RemoteInv
  <2>4. Git!OldSpec \in history' /\ repo'[Git!Base].spec \in history' /\ live' \in history'
    BY <1>0, <1>3, <1>6, Zenon DEF GitInv, RemoteInv
  <2>5. \A c, d \in Git!OpenPrs' : c[1] = d[1] => c = d
    BY <1>7, Zenon DEF GitInv, RemoteInv
  <2> QED
    BY <1>0, <1>7, <2>1, <2>2, <2>3, <2>4, <2>5, Zenon DEF RemoteInv, Git!Has, Git!OldSpec
<1>10. ASSUME NEW d \in DOMAIN repo'
       PROVE  /\ d \in DOMAIN repo /\ repo[d].head <= repo'[d].head
              /\ repo[d].head = repo'[d].head => repo'[d].rest = repo[d].rest
              /\ host = "github" => repo[d].rest \subseteq repo'[d].rest
  <2>1. d \in DOMAIN repo /\ repo[d].head \in Nat
    BY <1>4, Zenon DEF GitInv, RemoteTypes, Files
  <2>2. CASE d = Git!Base
    BY <1>1, <1>3, <2>1, <2>2
  <2>3. CASE d # Git!Base
    BY <1>3, <2>1, <2>3
  <2> QED
    BY <2>1, <2>2, <2>3, Zenon
<1>11. RemoteChange(GitActions)
  <2>1. ASSUME NEW d \in DOMAIN repo \ DOMAIN prs, d # Git!Base
        PROVE  d \in DOMAIN repo' \ DOMAIN prs' /\ repo'[d].spec = repo[d].spec /\ writers'[d] = writers[d]
    <3>1. d # b /\ d \in DOMAIN repo' /\ d \in DOMAIN writers
      BY <1>2, <1>3, <2>1, Zenon DEF GitInv, RemoteTypes
    <3> QED
      BY <1>3, <1>5, <1>7, <2>1, <3>1, Zenon
  <2> QED
    BY <1>0, <1>5, <1>6, <1>7, <1>10, <2>1, Zenon DEF RemoteChange
<1>12. Git!KeepsEdits
  BY <1>10, Zenon DEF Git!KeepsEdits
<1> QED
  BY <1>0, <1>5, <1>8, <1>9, <1>11, <1>12, WorldStep, Zenon

LEMMA ClosePRStep ==
  ASSUME GitInv, Git!ClosePR
  PROVE  GitInv'
<1> PICK b \in Git!OpenPrs : prs' = [prs EXCEPT ![b] = "closed"]
  BY Zenon DEF Git!ClosePR
<1>0. UNCHANGED <<host, mode, live, edits, act, repo, history, writers>>
  BY Zenon DEF Git!ClosePR, Git!KeepRepo
<1>1. /\ DOMAIN prs' = DOMAIN prs /\ prs'[b] = "closed" /\ \A d \in DOMAIN prs \ {b} : prs'[d] = prs[d]
      /\ Git!OpenPrs' = Git!OpenPrs \ {b}
  BY Zenon DEF Git!OpenPrs
<1>2. RemoteTypes'
  BY <1>0, <1>1, Zenon DEF GitInv, RemoteTypes
<1>3. RemoteInv'
  <2>1. \A d : Landed(d[1], d)' <=> Landed(d[1], d)
    BY <1>0, Zenon DEF Landed, Git!Has
  <2>2. \A d \in DOMAIN prs : prs'[d] = "merged" => prs[d] = "merged"
    BY <1>1, Zenon
  <2> QED
    BY <1>0, <1>1, <2>1, <2>2, Zenon DEF GitInv, RemoteInv, Git!Has, Git!OldSpec
<1>4. RemoteChange(GitActions)
  <2>1. \A d \in DOMAIN repo : repo[d].head <= repo[d].head
    BY DEF GitInv, RemoteTypes, Files
  <2> QED
    BY <1>0, <1>1, <2>1, Zenon DEF RemoteChange
<1> QED
  BY <1>0, <1>2, <1>3, <1>4, WorldStep, Zenon

LEMMA SyncStep ==
  ASSUME GitInv, Git!Sync
  PROVE  GitInv'
<1>1. repo[Git!Base].spec \in Specs \cap history
  BY Zenon DEF GitInv, RemoteTypes, RemoteInv, Files
<1>2. Quiet /\ UNCHANGED <<act, writers>>
  BY <1>1, Zenon DEF Git!Sync, Git!KeepRemote, Git!KeepRepo, Quiet
<1>3. RemoteTypes' /\ RemoteInv' /\ RemoteChange(GitActions)
  BY <1>2, QuietRemote, Zenon
<1> QED
  BY <1>2, <1>3, WorldStep, Zenon

-----------------------------------------------------------------------------
(* The theorems                                                            *)

LEMMA GitInit == Git!Init => GitInv
<1> SUFFICES ASSUME Git!Init PROVE GitInv
  BY Zenon
<1> PICK s \in GitSettings : host = s.host /\ edits = s.edits
  BY Zenon DEF Git!Init
<1>1. /\ DOMAIN repo = {Git!Base} /\ DOMAIN writers = {Git!Base} /\ DOMAIN prs = {}
      /\ repo[Git!Base] = [head |-> 0, spec |-> Git!OldSpec, rest |-> {}, fork |-> <<Git!OldSpec, {}>>]
      /\ live = Git!OldSpec /\ history = {Git!OldSpec} /\ act = [a \in GitActions |-> Git!Fresh(1)]
  BY Zenon DEF Git!Init
<1>2. Git!OpenPrs = {}
  BY <1>1, Zenon DEF Git!OpenPrs
<1>3. RemoteTypes
  <2>1. host \in {"github", "gitlab"} /\ edits \subseteq Edits
    BY GitAssumption, Zenon DEF Edits
  <2>2. repo[Git!Base] \in Files
    <3>1. 0 \in Nat /\ {} \in SUBSET Edits
      BY Zenon
    <3> QED
      BY <1>1, <3>1, OldSpecType DEF Files
  <2> QED
    BY <1>1, <2>1, <2>2, OldSpecType, Zenon DEF RemoteTypes
<1>4. RemoteInv
  BY <1>1, <1>2 DEF RemoteInv
<1>5. act \in [GitActions -> Handlers]
  <2>1. FALSE \in BOOLEAN /\ 1 \in Nat \ {0} /\ 0 \in Nat /\ {} \in SUBSET Edits
    OBVIOUS
  <2>2. Git!Fresh(1) \in Handlers
    BY <2>1, OldSpecType, Zenon DEF Git!Fresh, Handlers
  <2> QED
    BY <1>1, <2>2, Zenon
<1>6. FutureInv
  BY <1>1, Zenon DEF FutureInv
<1>7. ASSUME NEW a \in GitActions PROVE ActInv(a)
  <2>1. /\ act[a].at = "get" /\ act[a].branch = Git!Base /\ ~act[a].pr
        /\ act[a].backup = Git!OldSpec
    BY <1>1, Zenon DEF Git!Fresh
  <2> QED
    BY <1>1, <2>1, Zenon DEF ActInv, PlaceInv, OwnInv, HeadInv, Mine
<1> QED
  BY <1>3, <1>4, <1>5, <1>6, <1>7, Zenon DEF GitInv

LEMMA GitStep ==
  ASSUME GitInv, [Git!Next]_(Git!vars)
  PROVE  GitInv'
<1>1. ASSUME NEW a \in GitActions, Git!UpdateRemote(a) PROVE GitInv'
  <2>1. CASE Git!Get(a)
    BY <2>1, GetStep, Zenon
  <2>2. CASE Git!CheckPrExists(a)
    BY <2>2, CheckPrExistsStep, Zenon
  <2>3. CASE Git!GetBranchRef(a)
    BY <2>3, GetBranchRefStep, Zenon
  <2>4. CASE Git!CreateNewBranch(a)
    BY <2>4, CreateNewBranchStep, Zenon
  <2>5. CASE Git!GetRemoteFileContent(a)
    BY <2>5, GetRemoteFileContentStep, Zenon
  <2>6. CASE Git!PushCommit(a)
    BY <2>6, PushCommitStep, Zenon
  <2>7. CASE Git!CreateCommit(a)
    BY <2>7, CreateCommitStep, Zenon
  <2>8. CASE Git!NewPR(a)
    BY <2>8, NewPRStep, Zenon
  <2> QED
    BY <1>1, <2>1, <2>2, <2>3, <2>4, <2>5, <2>6, <2>7, <2>8, Zenon DEF Git!UpdateRemote
<1>2. ASSUME NEW a \in GitActions, Git!ReadFails(a) PROVE GitInv'
  BY <1>2, ReadFailsStep, Zenon
<1>3. ASSUME NEW a \in GitActions, Git!Poll(a) \/ Git!WaitExpires(a) PROVE GitInv'
  BY <1>3, PollStep, Zenon
<1>4. ASSUME NEW a \in GitActions, Git!RevertChange(a) PROVE GitInv'
  BY <1>4, RevertChangeStep, Zenon
<1>5. CASE Git!UserCommits
  BY <1>5, UserCommitsStep, Zenon
<1>6. CASE Git!MergePR
  BY <1>6, MergePRStep, Zenon
<1>7. CASE Git!ClosePR
  BY <1>7, ClosePRStep, Zenon
<1>8. CASE Git!Sync
  BY <1>8, SyncStep, Zenon
<1>9. CASE UNCHANGED Git!vars
  <2>1. Quiet /\ UNCHANGED <<act, writers>>
    BY <1>9, NothingNew, Zenon DEF Git!vars, Git!KeepRemote, Git!KeepRepo
  <2>2. RemoteTypes' /\ RemoteInv' /\ RemoteChange(GitActions)
    BY <2>1, QuietRemote, Zenon
  <2> QED
    BY <2>1, <2>2, WorldStep, Zenon
<1> QED
  BY <1>1, <1>2, <1>3, <1>4, <1>5, <1>6, <1>7, <1>8, <1>9, Zenon DEF Git!Next, Git!Execute, Git!Rest

\* The invariant behind the theorems below: it holds whatever calls fail,
\* before or after they took effect, and however users and the other actions
\* commit, merge and close requests in between (UpdateRemote and its callers).
THEOREM GitInvariant == Git!Spec => []GitInv
<1>1. GitInv /\ [Git!Next]_(Git!vars) => GitInv'
  BY GitStep, Zenon
<1> QED
  BY <1>1, GitInit, PTL DEF Git!Spec

\* No action has two requests open (checkPrExists and newPR): an attempt looks
\* for a request before it makes a branch, and one whose answer was lost is
\* found again.
THEOREM OneOpenRequest == Git!Spec => []OneRequestPerAction
<1>1. GitInv => OneRequestPerAction
  BY Zenon DEF GitInv, RemoteInv, OneRequestPerAction, Git!OneRequestPerAction, Git!OpenPrs
<1> QED
  BY <1>1, GitInvariant, PTL

\* An action that ends in success has had its size in the base branch, unless
\* somebody else committed to its request (getRemoteFileContent, the wait for
\* the request and the reconciliation that finds nothing to do).
THEOREM SuccessHasLanded == Git!Spec => []SuccessMeansLanded
<1>1. GitInv => SuccessMeansLanded
  BY Zenon DEF GitInv, ActInv, PlaceInv, Landed, SuccessMeansLanded, Git!SuccessMeansLanded, Git!At
<1> QED
  BY <1>1, GitInvariant, PTL

\* The steps of an action take no edit off a branch on GitHub.
LEMMA ActionKeepsEdits ==
  ASSUME GitInv, NEW a \in GitActions, Git!Execute(a)
  PROVE  Git!KeepsEdits
<1>1. CASE Git!KeepRepo
  BY <1>1, Zenon DEF Git!KeepRepo, Git!KeepsEdits
<1>2. CASE Git!CreateNewBranch(a)
  <2> PICK nb : nb = Git!NewBranch(a)
    BY Zenon
  <2> PICK file : file = Git!ForkOfBase(repo[Git!Base].spec, repo[Git!Base].rest)
    BY Zenon
  <2>1. CASE repo' = Git!With(repo, nb, file)
    <3>1. nb # Git!Base /\ nb[1] = a /\ nb[2] = act[a].attempt /\ act[a].attempt \in Nat
      BY Zenon DEF GitInv, Git!NewBranch, Git!Base, Names, Handlers
    <3>2. IsFuture(nb)
      BY <1>2, <3>1 DEF IsFuture, Trying, NextName, Git!CreateNewBranch, Git!At
    <3>3. nb \notin DOMAIN repo
      BY <3>1, <3>2, Zenon DEF GitInv, RemoteTypes, FutureInv
    <3> QED
      BY <2>1, <3>3, Zenon DEF Git!With, Git!KeepsEdits
  <2> QED
    BY <1>1, <1>2, <2>1, Zenon DEF Git!CreateNewBranch, Git!Call, Git!SetRepo
<1>3. CASE Git!PushCommit(a)
  <2> PICK b : b = act[a].branch
    BY Zenon
  <2>1. CASE b \in DOMAIN repo /\ repo[b].head = act[a].ref /\ repo' = [repo EXCEPT ![b] = Git!Commit(b, a)]
    <3>1. act[a].rest = repo[b].rest
      BY <1>3, <2>1, Zenon DEF GitInv, ActInv, HeadInv, Git!PushCommit, Git!At
    <3>2. Git!Commit(b, a).rest = act[a].rest
      BY <2>1, Zenon DEF Git!Commit, GitInv, RemoteTypes, Files
    <3> QED
      BY <2>1, <3>1, <3>2, Zenon DEF Git!KeepsEdits
  <2> QED
    BY <1>1, <1>3, <2>1, Zenon DEF Git!PushCommit, Git!Call, Git!SetRepo
<1>4. CASE Git!CreateCommit(a)
  BY <1>4, Zenon DEF Git!CreateCommit, Git!KeepsEdits
<1> QED
  BY <1>1, <1>2, <1>3, <1>4, Zenon
     DEF Git!Execute, Git!UpdateRemote, Git!Get, Git!CheckPrExists, Git!GetBranchRef, Git!GetRemoteFileContent,
         Git!NewPR, Git!ReadFails, Git!Poll, Git!WaitExpires, Git!RevertChange, Git!KeepRemote

\* On GitHub no step takes an edit off a branch (pushCommit): the parent of an
\* action's commit is the head it read before it read the file, so a branch
\* that has moved since refuses the commit.
THEOREM EditsAreKept == Git!Spec => CommitKeepsEdits
<1>1. GitInv /\ [Git!Next]_(Git!vars) => [part = "gitops" => Git!KeepsEdits]_gitVars
  <2> SUFFICES ASSUME GitInv, [Git!Next]_(Git!vars), ~(UNCHANGED gitVars) PROVE Git!KeepsEdits
    BY Zenon
  <2>1. CASE \E a \in GitActions : Git!Execute(a)
    BY <2>1, ActionKeepsEdits, Zenon
  <2>2. CASE Git!UserCommits
    BY <2>2, UserCommitsStep, Zenon
  <2>3. CASE Git!MergePR
    BY <2>3, MergePRStep, Zenon
  <2>4. CASE Git!ClosePR \/ Git!Sync
    BY <2>4, Zenon DEF Git!ClosePR, Git!Sync, Git!KeepRemote, Git!KeepRepo, Git!KeepsEdits
  <2>5. CASE UNCHANGED Git!vars
    BY <2>5, Zenon DEF Git!vars, gitVars
  <2> QED
    BY <2>1, <2>2, <2>3, <2>4, <2>5, Zenon DEF Git!Next, Git!Rest
<1> QED
  BY <1>1, GitInvariant, PTL DEF Git!Spec, CommitKeepsEdits
=============================================================================
