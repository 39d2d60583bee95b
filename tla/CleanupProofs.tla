--------------------------- MODULE CleanupProofs ----------------------------
(***************************************************************************)
(* Proofs about what kubeturbo changes in the cluster and takes back: the  *)
(* quotas that an action stretches and the resources of SCCs.  Each theorem*)
(* is about the specification of the part itself, for any values of its    *)
(* constants.                                                              *)
(***************************************************************************)
EXTENDS QuotaAccess, SccPart, TLAPS

-----------------------------------------------------------------------------
(* Quotas: for every set of quotas and actions, every limit, usage and pod *)
(* size, and any number of crashes.  Mark and restore hold until an API    *)
(* call fails (MCQuotaLost shows what one failure does); the last two      *)
(* theorems are about what is left when calls fail.                        *)

\* A quota as its owner made it, and one that an action has stretched.
Untouched(q) == spec[q] = Orig[q] /\ ~label[q] /\ ann[q] = <<>>
Stretched(q) == label[q] /\ ann[q] = <<Orig[q]>>

\* Action a may have stretched q and not yet reverted it.
Holds(a, q) ==
    /\ q \in raise[a]
    /\ \/ pc[a] = "update" /\ q \notin todo[a]
       \/ pc[a] \in {"create", "run"}
       \/ pc[a] = "revert" /\ q \in todo[a]

\* Only the action under the lock has an accessor at work.
LockShape ==
    /\ \A a \in Actions :
         /\ pc[a] \in {"locked", "update", "create", "run", "revert", "release"} =>
              lock = a /\ up = "up"
         /\ pc[a] \notin {"update", "create", "run", "revert", "release"} => raise[a] = {}
         /\ pc[a] \notin {"update", "revert"} => todo[a] = {}
         /\ todo[a] \subseteq raise[a]
    /\ lock # NoAction => up = "up"

\* What an action saved is the owner's quota.
SavedIsOriginal ==
    \A a \in Actions : \A q \in raise[a] : saved[a][q] = [spec |-> Orig[q], ann |-> <<>>]

\* A stretched quota is on somebody's list: of the action under the lock, or of
\* the cleanup, which will list it if it has not done so.
Accounted ==
    \A q \in Quotas :
      \/ Untouched(q)
      \/ /\ Stretched(q)
         /\ \/ up = "down"
            \/ up = "gc" /\ q \in gcTodo
            \/ \E a \in Actions : lock = a /\ Holds(a, q)

\* What every step keeps that is not a failing call.
QuotaInv == TypeOK /\ LockShape /\ SavedIsOriginal /\ Accounted

\* The inductive invariant.
FailureInv == TypeOK /\ LockShape /\ (failures = 0 => SavedIsOriginal /\ Accounted)
------------------------------------------------------------------------------
\* The initial state is well typed.
LEMMA TypeInit == Init => TypeOK
  BY QuotaAssumption DEF Init, TypeOK, Nothing, PCs

\* Every step keeps the state well typed.
LEMMA TypeStep == TypeOK /\ [Next]_vars => TypeOK'
<1> SUFFICES ASSUME TypeOK, [Next]_vars PROVE TypeOK'
  BY Zenon
<1>e. \A s \in Seq(Nat), n \in Nat : <<n>> \o s \in Seq(Nat) /\ (s # <<>> => Head(s) \in Nat)
  OBVIOUS
<1>f. \A m, n \in Nat : m + n \in Nat
  OBVIOUS
<1>g. ASSUME NEW a \in Actions, NEW q \in Quotas
      PROVE  saved[a][q].spec \in Nat /\ saved[a][q].ann \in Seq(Nat) /\ Need[a][q] \in Nat
  <2>1. saved[a][q] \in [spec : Nat, ann : Seq(Nat)]
    <3>1. saved \in [Actions -> [Quotas -> [spec : Nat, ann : Seq(Nat)]]]
      BY Zenon DEF TypeOK
    <3> QED
      BY <3>1, Zenon
  <2>2. Need[a][q] \in Nat
    BY QuotaAssumption, Zenon
  <2> QED
    BY <2>1, <2>2, Zenon
<1> USE QuotaAssumption DEF TypeOK, quotaVars, envVars, actionVars, procVars
<1>a. ASSUME NEW a \in Actions, NEW from, NEW to \in PCs, Goto(a, from, to)
      PROVE  pc' \in [Actions -> PCs]
  BY <1>a, Zenon DEF Goto
<1>b. Fail => failures' \in 0..MaxFailures
  BY DEF Fail
<1>c. {"waiting", "failed", "locked", "update", "release", "create", "run", "revert", "done"} \subseteq PCs
  BY Zenon DEF PCs
<1>d. ASSUME NEW a \in Actions, NEW q \in Quotas, Stretch(a, q)
      PROVE  spec' \in [Quotas -> Nat] /\ label' \in [Quotas -> BOOLEAN] /\ ann' \in [Quotas -> Seq(Nat)]
  <2>1. saved[a][q].spec + Need[a][q] \in Nat /\ <<saved[a][q].spec>> \o saved[a][q].ann \in Seq(Nat)
    BY <1>e, <1>f, <1>g, Zenon
  <2> QED
    BY <1>d, <2>1, Zenon DEF Stretch
<1>1. ASSUME NEW a \in Actions, HasQuotas(a) PROVE TypeOK'
  BY <1>1, <1>a, <1>b, <1>c, Zenon DEF HasQuotas
<1>2. ASSUME NEW a \in Actions, LockForQuota(a) PROVE TypeOK'
  BY <1>2, <1>a, <1>c, Zenon DEF LockForQuota
<1>3. ASSUME NEW a \in Actions, CheckQuotas(a) PROVE TypeOK'
  <2>1. [q \in Quotas |-> [spec |-> spec[q], ann |-> ann[q]]] \in [Quotas -> [spec : Nat, ann : Seq(Nat)]]
    BY Zenon
  <2>2. saved' \in [Actions -> [Quotas -> [spec : Nat, ann : Seq(Nat)]]]
    BY <1>3, <2>1, Zenon DEF CheckQuotas
  <2>3. raise' \in [Actions -> SUBSET Quotas] /\ todo' \in [Actions -> SUBSET Quotas]
    <3>1. Exceeded(a) \in SUBSET Quotas
      BY Zenon DEF Exceeded
    <3>2. \/ UNCHANGED <<raise, todo>>
          \/ /\ raise' = [raise EXCEPT ![a] = Exceeded(a)]
             /\ todo' = [todo EXCEPT ![a] = Exceeded(a)]
      BY <1>3, Zenon DEF CheckQuotas
    <3>3. raise \in [Actions -> SUBSET Quotas] /\ todo \in [Actions -> SUBSET Quotas]
      BY Zenon
    <3> HIDE DEF TypeOK
    <3>4. CASE UNCHANGED <<raise, todo>>
      BY <3>3, <3>4, Zenon
    <3>5. ASSUME NEW f \in [Actions -> SUBSET Quotas]
          PROVE  [f EXCEPT ![a] = Exceeded(a)] \in [Actions -> SUBSET Quotas]
      BY <3>1, Zenon
    <3>6. CASE /\ raise' = [raise EXCEPT ![a] = Exceeded(a)]
               /\ todo' = [todo EXCEPT ![a] = Exceeded(a)]
      <4>1. raise' \in [Actions -> SUBSET Quotas]
        BY <3>3, <3>5, <3>6, Zenon
      <4>2. todo' \in [Actions -> SUBSET Quotas]
        BY <3>3, <3>5, <3>6, Zenon
      <4> QED
        BY <4>1, <4>2, Zenon
    <3> QED
      BY <3>2, <3>4, <3>6, Zenon
  <2> QED
    BY <1>3, <1>a, <1>b, <1>c, <2>2, <2>3, Zenon DEF CheckQuotas
<1>5. ASSUME NEW a \in Actions, NEW q \in Quotas, Update(a, q) PROVE TypeOK'
  BY <1>5, <1>a, <1>c, <1>d, Zenon DEF Update
<1>6. ASSUME NEW a \in Actions, UpdateFails(a) PROVE TypeOK'
  <2>1. spec' \in [Quotas -> Nat] /\ label' \in [Quotas -> BOOLEAN] /\ ann' \in [Quotas -> Seq(Nat)]
    BY <1>6, <1>d, Zenon DEF UpdateFails
  <2> QED
    BY <1>6, <1>a, <1>b, <1>c, <2>1, Zenon DEF UpdateFails
<1>7. ASSUME NEW a \in Actions, UpdateDone(a) \/ ActionEnds(a) PROVE TypeOK'
  BY <1>7, <1>a, <1>c, Zenon DEF UpdateDone, ActionEnds
<1>8. ASSUME NEW a \in Actions, CreateClonePod(a) PROVE TypeOK'
  BY <1>8, <1>a, <1>c DEF CreateClonePod
<1>18. ASSUME NEW a \in Actions, CreateFails(a) PROVE TypeOK'
  BY <1>18, <1>a, <1>b, <1>c, Zenon DEF CreateFails
<1>9. ASSUME NEW a \in Actions, NEW q \in Quotas, Revert(a, q) PROVE TypeOK'
  BY <1>9, <1>a, <1>c, <1>g, Zenon DEF Revert
<1>19. ASSUME NEW a \in Actions, NEW q \in Quotas, RevertFails(a, q) PROVE TypeOK'
  BY <1>19, <1>a, <1>b, <1>c, Zenon DEF RevertFails
<1>10. ASSUME NEW a \in Actions, ReleaseLock(a) PROVE TypeOK'
  <2>1. Nothing \in [Quotas -> [spec : Nat, ann : Seq(Nat)]]
    BY DEF Nothing
  <2> QED
    BY <1>10, <1>a, <1>c, <2>1, Zenon DEF ReleaseLock
<1>11. CASE Crash
  BY <1>11 DEF Crash, Nothing, PCs
<1>12. CASE CleanupQuotas
  BY <1>12, <1>b, Zenon DEF CleanupQuotas
<1>13. ASSUME NEW q \in Quotas, RevertQuota(q) PROVE TypeOK'
  <2>1. spec' \in [Quotas -> Nat] /\ ann' \in [Quotas -> Seq(Nat)] /\ label' \in [Quotas -> BOOLEAN]
    <3>1. ann[q] # <<>> => Head(ann[q]) \in Nat
      BY <1>e, Zenon
    <3>2. CASE UNCHANGED quotaVars
      BY <3>2, Zenon
    <3>3. CASE /\ spec' = [spec EXCEPT ![q] = IF ann[q] = <<>> THEN @ ELSE Head(ann[q])]
               /\ ann' = [ann EXCEPT ![q] = <<>>]
               /\ label' = [label EXCEPT ![q] = FALSE]
      <4>1. (IF ann[q] = <<>> THEN spec[q] ELSE Head(ann[q])) \in Nat
        BY <3>1, Zenon
      <4>2. <<>> \in Seq(Nat)
        OBVIOUS
      <4> QED
        BY <3>3, <4>1, <4>2, Zenon
    <3> QED
      BY <1>13, <3>2, <3>3, Zenon DEF RevertQuota
  <2> QED
    BY <1>13, <1>b, <2>1, Zenon DEF RevertQuota
<1>14. CASE ConnectToTurbo
  BY <1>14, Zenon DEF ConnectToTurbo
<1>15. ASSUME NEW q \in Quotas, SyncStatus(q) PROVE TypeOK'
  BY <1>15, Zenon DEF SyncStatus
<1>16. ASSUME NEW a \in Actions, PodGone(a) PROVE TypeOK'
  BY <1>16 DEF PodGone
<1>17. CASE UNCHANGED vars
  BY <1>17, Zenon DEF vars
<1> QED
  BY <1>1, <1>2, <1>3, <1>5, <1>6, <1>7, <1>8, <1>9, <1>10, <1>11, <1>12, <1>13, <1>14, <1>15,
     <1>16, <1>17, <1>18, <1>19, Zenon
  DEF Next, ActionStep, Process, Cluster

\* The state of quotas, actions and process stays within its types, whatever
\* fails.
THEOREM TypeCorrect == Spec => []TypeOK
  BY TypeInit, TypeStep, PTL DEF Spec
------------------------------------------------------------------------------
\* The lock keeps the accessors apart.
LEMMA LockStep ==
  ASSUME TypeOK, LockShape, [Next]_vars
  PROVE  LockShape'
<1>a. /\ pc \in [Actions -> PCs]
      /\ raise \in [Actions -> SUBSET Quotas]
      /\ todo \in [Actions -> SUBSET Quotas]
  BY Zenon DEF TypeOK
<1> USE QuotaAssumption, <1>a DEF LockShape, quotaVars, envVars, actionVars, procVars, Goto
<1>1. ASSUME NEW a \in Actions, HasQuotas(a) PROVE LockShape'
  BY <1>1, Zenon DEF HasQuotas
<1>2. ASSUME NEW a \in Actions, LockForQuota(a) PROVE LockShape'
  BY <1>2, Zenon DEF LockForQuota
<1>3. ASSUME NEW a \in Actions, CheckQuotas(a) PROVE LockShape'
  <2>1. Exceeded(a) \in SUBSET Quotas
    BY Zenon DEF Exceeded
  <2>4. lock' = lock /\ up' = up
    BY <1>3, Zenon DEF CheckQuotas
  <2>2. CASE /\ Goto(a, "locked", "update")
             /\ raise' = [raise EXCEPT ![a] = Exceeded(a)]
             /\ todo' = [todo EXCEPT ![a] = Exceeded(a)]
    BY <2>1, <2>2, <2>4, Zenon
  <2>3. CASE Goto(a, "locked", "release") /\ UNCHANGED <<raise, todo>>
    BY <2>3, <2>4, Zenon
  <2> HIDE DEF Goto, LockShape
  <2> QED
    BY <1>3, <2>2, <2>3, Zenon DEF CheckQuotas
<1>4. ASSUME NEW a \in Actions, NEW q \in Quotas, Update(a, q) PROVE LockShape'
  BY <1>4, Zenon DEF Update
<1>5. ASSUME NEW a \in Actions, UpdateFails(a) PROVE LockShape'
  <2>1. Goto(a, "update", "release") /\ todo' = [todo EXCEPT ![a] = {}] /\ UNCHANGED <<lock, up, raise>>
    BY <1>5, Zenon DEF UpdateFails
  <2> QED
    BY <2>1, Zenon
<1>6. ASSUME NEW a \in Actions, UpdateDone(a) \/ CreateClonePod(a) PROVE LockShape'
  BY <1>6, Zenon DEF UpdateDone, CreateClonePod
<1>7. ASSUME NEW a \in Actions, CreateFails(a) \/ ActionEnds(a) PROVE LockShape'
  <2>1. pc[a] \in {"create", "run"} /\ pc' = [pc EXCEPT ![a] = "revert"]
    BY <1>7, Zenon DEF CreateFails, ActionEnds
  <2>2. todo' = [todo EXCEPT ![a] = raise[a]] /\ UNCHANGED <<lock, up, raise>>
    BY <1>7, Zenon DEF CreateFails, ActionEnds
  <2> QED
    BY <2>1, <2>2, Zenon
<1>8. ASSUME NEW a \in Actions, NEW q \in Quotas, Revert(a, q) \/ RevertFails(a, q) PROVE LockShape'
  <2>1. Goto(a, "revert", "revert") /\ todo' = [todo EXCEPT ![a] = @ \ {q}] /\ UNCHANGED <<lock, up, raise>>
    BY <1>8, Zenon DEF Revert, RevertFails
  <2> QED
    BY <2>1, Zenon
<1>9. ASSUME NEW a \in Actions, ReleaseLock(a) PROVE LockShape'
  <2>1. /\ pc[a] \in {"revert", "release"} /\ todo[a] = {}
        /\ \/ pc' = [pc EXCEPT ![a] = "done"]
           \/ pc' = [pc EXCEPT ![a] = "failed"]
        /\ raise' = [raise EXCEPT ![a] = {}]
        /\ lock' = NoAction /\ UNCHANGED <<todo, up>>
    BY <1>9, Zenon DEF ReleaseLock
  <2>2. \A b \in Actions : b # a =>
          pc[b] \notin {"locked", "update", "create", "run", "revert", "release"}
    BY <2>1, Zenon
  <2> QED
    BY <2>1, <2>2, Zenon
<1>10. CASE Crash
  BY <1>10, Zenon DEF Crash, InFlight, PCs
<1>11. CASE CleanupQuotas \/ ConnectToTurbo
  BY <1>11, Zenon DEF CleanupQuotas, ConnectToTurbo
<1>12. CASE UNCHANGED <<lock, up, pc, raise, todo>>
  BY <1>12, Zenon
<1> QED
  BY <1>1, <1>2, <1>3, <1>4, <1>5, <1>6, <1>7, <1>8, <1>9, <1>10, <1>11, <1>12, Zenon
  DEF Next, ActionStep, Process, Cluster, RevertQuota, SyncStatus, PodGone, vars

\* What an accessor saved stays the owner's quota: it is taken when all quotas
\* are untouched, because the lock is held.
LEMMA SavedStep ==
  ASSUME QuotaInv, failures' = 0, [Next]_vars
  PROVE  SavedIsOriginal'
<1>a. /\ pc \in [Actions -> PCs]
      /\ raise \in [Actions -> SUBSET Quotas]
      /\ saved \in [Actions -> [Quotas -> [spec : Nat, ann : Seq(Nat)]]]
  BY Zenon DEF QuotaInv, TypeOK
<1> USE <1>a DEF quotaVars, envVars, actionVars, procVars
<1>1. ASSUME NEW a \in Actions, CheckQuotas(a) PROVE SavedIsOriginal'
  <2>0. ~Fail
    BY QuotaAssumption DEF Fail, QuotaInv, TypeOK
  <2>1. /\ pc[a] = "locked"
        /\ raise' = [raise EXCEPT ![a] = Exceeded(a)]
        /\ saved' = [saved EXCEPT ![a] = [q \in Quotas |-> [spec |-> spec[q], ann |-> ann[q]]]]
    BY <1>1, <2>0, Zenon DEF CheckQuotas, Goto
  <2>2. \A q \in Quotas : Untouched(q)
    BY <2>1, QuotaAssumption, Zenon DEF QuotaInv, Accounted, LockShape, Holds
  <2>3. \A q \in Quotas : saved'[a][q] = [spec |-> Orig[q], ann |-> <<>>]
    BY <2>1, <2>2, Zenon DEF Untouched
  <2>4. \A b \in Actions : b # a => raise'[b] = raise[b] /\ saved'[b] = saved[b]
    BY <2>1, Zenon
  <2>5. raise'[a] \subseteq Quotas
    BY <2>1, Zenon DEF Exceeded
  <2>6. SavedIsOriginal
    BY Zenon DEF QuotaInv
  <2>7. ASSUME NEW b \in Actions, NEW q \in raise'[b]
        PROVE  saved'[b][q] = [spec |-> Orig[q], ann |-> <<>>]
    <3>1. CASE b = a
      BY <3>1, <2>3, <2>5, Zenon
    <3>2. CASE b # a
      <4>1. raise'[b] = raise[b] /\ saved'[b] = saved[b]
        BY <2>4, <3>2, Zenon
      <4>2. q \in raise[b]
        BY <2>7, <4>1, Zenon
      <4> QED
        BY <2>6, <4>1, <4>2, Zenon DEF SavedIsOriginal
    <3> QED
      BY <3>1, <3>2, Zenon
  <2> QED
    BY <2>7, Zenon DEF SavedIsOriginal
<1>2. ASSUME NEW a \in Actions, ReleaseLock(a) PROVE SavedIsOriginal'
  <2>1. saved' = [saved EXCEPT ![a] = Nothing] /\ raise' = [raise EXCEPT ![a] = {}]
    BY <1>2, Zenon DEF ReleaseLock
  <2> QED
    BY <2>1, Zenon DEF QuotaInv, SavedIsOriginal
<1>3. CASE Crash
  BY <1>3, Zenon DEF Crash, SavedIsOriginal
<1>4. CASE UNCHANGED <<raise, saved>>
  BY <1>4, Zenon DEF QuotaInv, SavedIsOriginal
<1>5. ASSUME NEW a \in Actions, NEW q \in Quotas,
             Update(a, q) \/ Revert(a, q) \/ RevertFails(a, q)
      PROVE  UNCHANGED <<raise, saved>>
  BY <1>5, Zenon DEF Update, Revert, RevertFails
<1>6. ASSUME NEW a \in Actions,
             \/ HasQuotas(a) \/ LockForQuota(a) \/ UpdateFails(a) \/ UpdateDone(a) \/ CreateClonePod(a)
             \/ CreateFails(a) \/ ActionEnds(a)
      PROVE  UNCHANGED <<raise, saved>>
  BY <1>6, Zenon DEF HasQuotas, LockForQuota, UpdateFails, UpdateDone, CreateClonePod, CreateFails, ActionEnds
<1> QED
  BY <1>1, <1>2, <1>3, <1>4, <1>5, <1>6, Zenon
  DEF Next, ActionStep, Process, Cluster, CleanupQuotas, ConnectToTurbo, RevertQuota, SyncStatus,
      PodGone, vars

\* A stretched quota stays accounted for until it is reverted.
LEMMA AccountedStep ==
  ASSUME QuotaInv, failures' = 0, [Next]_vars
  PROVE  Accounted'
<1>a. /\ pc \in [Actions -> PCs]
      /\ raise \in [Actions -> SUBSET Quotas]
      /\ todo \in [Actions -> SUBSET Quotas]
      /\ spec \in [Quotas -> Nat] /\ label \in [Quotas -> BOOLEAN] /\ ann \in [Quotas -> Seq(Nat)]
      /\ gcTodo \in SUBSET Quotas
  BY Zenon DEF QuotaInv, TypeOK
<1>b. ~Fail
  BY QuotaAssumption DEF Fail, QuotaInv, TypeOK
<1>c. LockShape /\ Accounted
  BY Zenon DEF QuotaInv
<1> USE QuotaAssumption, <1>a, <1>b DEF quotaVars, envVars, actionVars, procVars, Goto
\* Steps that touch no quota: nothing an action holds is let go of.
<1>1. ASSUME NEW a \in Actions, HasQuotas(a) \/ LockForQuota(a) PROVE Accounted'
  <2>1. /\ pc[a] \in {"new", "waiting"}
        /\ pc' = [pc EXCEPT ![a] = "waiting"] \/ pc' = [pc EXCEPT ![a] = "locked"]
             \/ pc' = [pc EXCEPT ![a] = "failed"]
        /\ lock # NoAction => lock' = lock
        /\ UNCHANGED <<spec, label, ann, raise, todo, up, gcTodo>>
    BY <1>1, Zenon DEF HasQuotas, LockForQuota
  <2>2. ASSUME NEW b \in Actions, NEW q \in Quotas, lock = b, Holds(b, q)
        PROVE  lock' = b /\ Holds(b, q)'
    BY <2>1, <2>2, Zenon DEF Holds
  <2>3. \A q \in Quotas : (Untouched(q) => Untouched(q)') /\ (Stretched(q) => Stretched(q)')
    BY <2>1, Zenon DEF Untouched, Stretched
  <2> HIDE DEF quotaVars, envVars, actionVars, procVars, Goto
  <2> QED
    BY <2>1, <2>2, <2>3, <1>c, Zenon DEF Accounted
<1>2. ASSUME NEW a \in Actions, CheckQuotas(a) PROVE Accounted'
  <2>1. pc[a] = "locked" /\ UNCHANGED quotaVars
    BY <1>2, Zenon DEF CheckQuotas
  <2>2. \A q \in Quotas : Untouched(q)
    BY <2>1, <1>c, Zenon DEF Accounted, LockShape, Holds
  <2> QED
    BY <2>1, <2>2, Zenon DEF Accounted, Untouched
<1>3. ASSUME NEW a \in Actions, NEW q \in Quotas, Update(a, q) PROVE Accounted'
  <2>1. saved[a][q] = [spec |-> Orig[q], ann |-> <<>>]
    BY <1>3, <1>c, Zenon DEF QuotaInv, SavedIsOriginal, Update, LockShape
  <2>2. ann'[q] = <<Orig[q]>> /\ label'[q]
    BY <1>3, <2>1 DEF Update, Stretch
  <2>3. \A p \in Quotas : p # q => spec'[p] = spec[p] /\ ann'[p] = ann[p] /\ label'[p] = label[p]
    BY <1>3, Zenon DEF Update, Stretch
  <2>4. /\ pc[a] = "update" /\ pc' = pc /\ todo' = [todo EXCEPT ![a] = @ \ {q}] /\ q \in todo[a]
        /\ UNCHANGED <<lock, up, raise, gcTodo>>
    BY <1>3, Zenon DEF Update
  <2>5. lock = a /\ up = "up" /\ q \in raise[a]
    BY <2>4, <1>c, Zenon DEF LockShape
  <2>6. Stretched(q)' /\ lock' = a /\ Holds(a, q)'
    BY <2>2, <2>4, <2>5, Zenon DEF Stretched, Holds
  <2>7. ASSUME NEW p \in Quotas, p # q, NEW b \in Actions, Holds(b, p) PROVE Holds(b, p)'
    BY <2>4, <2>7, Zenon DEF Holds
  <2>8. ASSUME NEW p \in Quotas, p # q
        PROVE  (Untouched(p) => Untouched(p)') /\ (Stretched(p) => Stretched(p)')
    BY <2>3, <2>8, Zenon DEF Untouched, Stretched
  <2> HIDE DEF quotaVars, envVars, actionVars, procVars, Goto
  <2> QED
    BY <2>4, <2>6, <2>7, <2>8, <1>c, Zenon DEF Accounted
<1>4. ASSUME NEW a \in Actions, UpdateFails(a) PROVE FALSE
  BY <1>4, Zenon DEF UpdateFails
<1>5. ASSUME NEW a \in Actions, UpdateDone(a) \/ CreateClonePod(a) PROVE Accounted'
  BY <1>5, <1>c DEF UpdateDone, CreateClonePod, LockShape, Accounted, Untouched, Stretched, Holds
<1>6. ASSUME NEW a \in Actions, CreateFails(a) \/ ActionEnds(a) PROVE Accounted'
  <2>1. /\ pc[a] \in {"create", "run"} /\ pc' = [pc EXCEPT ![a] = "revert"]
        /\ todo' = [todo EXCEPT ![a] = raise[a]]
        /\ UNCHANGED <<spec, label, ann, lock, up, raise, gcTodo>>
    BY <1>6, Zenon DEF CreateFails, ActionEnds
  <2> QED
    BY <2>1, <1>c DEF LockShape, Accounted, Untouched, Stretched, Holds
<1>7. ASSUME NEW a \in Actions, NEW q \in Quotas, Revert(a, q) PROVE Accounted'
  <2>1. saved[a][q] = [spec |-> Orig[q], ann |-> <<>>]
    BY <1>7, <1>c, Zenon DEF QuotaInv, SavedIsOriginal, Revert, LockShape
  <2>2. spec'[q] = Orig[q] /\ ann'[q] = <<>> /\ ~label'[q]
    BY <1>7, <2>1 DEF Revert
  <2>3. \A p \in Quotas : p # q => spec'[p] = spec[p] /\ ann'[p] = ann[p] /\ label'[p] = label[p]
    BY <1>7, Zenon DEF Revert
  <2>4. /\ pc[a] = "revert" /\ pc' = pc /\ todo' = [todo EXCEPT ![a] = @ \ {q}]
        /\ UNCHANGED <<lock, up, raise, gcTodo>>
    BY <1>7, Zenon DEF Revert
  <2>5. Untouched(q)'
    BY <2>2, Zenon DEF Untouched
  <2>6. ASSUME NEW p \in Quotas, p # q, NEW b \in Actions, Holds(b, p) PROVE Holds(b, p)'
    BY <2>4, <2>6, Zenon DEF Holds
  <2>7. ASSUME NEW p \in Quotas, p # q
        PROVE  (Untouched(p) => Untouched(p)') /\ (Stretched(p) => Stretched(p)')
    BY <2>3, <2>7, Zenon DEF Untouched, Stretched
  <2> HIDE DEF quotaVars, envVars, actionVars, procVars, Goto
  <2> QED
    BY <2>4, <2>5, <2>6, <2>7, <1>c, Zenon DEF Accounted
<1>8. ASSUME NEW a \in Actions, NEW q \in Quotas, RevertFails(a, q) PROVE FALSE
  BY <1>8, Zenon DEF RevertFails
<1>9. ASSUME NEW a \in Actions, ReleaseLock(a) PROVE Accounted'
  <2>1. /\ pc[a] \in {"revert", "release"} /\ todo[a] = {}
        /\ UNCHANGED <<spec, label, ann>>
    BY <1>9, <1>c, Zenon DEF ReleaseLock, LockShape
  <2>2. \A q \in Quotas : Untouched(q)
    BY <2>1, <1>c, Zenon DEF LockShape, Accounted, Holds
  <2> QED
    BY <2>1, <2>2, Zenon DEF Accounted, Untouched
<1>10. CASE Crash
  BY <1>10, <1>c, Zenon DEF Crash, Accounted, Untouched, Stretched
<1>11. CASE CleanupQuotas
  <2>1. up' = "gc" /\ gcTodo' = {q \in Quotas : label[q]} /\ UNCHANGED <<spec, label, ann>>
    BY <1>11, Zenon DEF CleanupQuotas
  <2> QED
    BY <2>1, <1>c, Zenon DEF Accounted, Untouched, Stretched
<1>12. ASSUME NEW q \in Quotas, RevertQuota(q) PROVE Accounted'
  <2>1. /\ up = "gc" /\ q \in gcTodo /\ gcTodo' = gcTodo \ {q}
        /\ spec' = [spec EXCEPT ![q] = IF ann[q] = <<>> THEN @ ELSE Head(ann[q])]
        /\ ann' = [ann EXCEPT ![q] = <<>>]
        /\ label' = [label EXCEPT ![q] = FALSE]
        /\ UNCHANGED <<lock, up, pc, raise, todo>>
    BY <1>12, Zenon DEF RevertQuota
  <2>2. ann[q] # <<>> => Head(ann[q]) = Orig[q]
    BY <1>c DEF Accounted, Untouched, Stretched
  <2>6. <<Orig[q]>> # <<>>
    BY Zenon
  <2>3. ann[q] = <<>> => spec[q] = Orig[q]
    BY <1>c, <2>6, Zenon DEF Accounted, Untouched, Stretched
  <2>4. spec'[q] = Orig[q] /\ ann'[q] = <<>> /\ ~label'[q]
    BY <2>1, <2>2, <2>3, Zenon
  <2>5. \A p \in Quotas : p # q => spec'[p] = spec[p] /\ ann'[p] = ann[p] /\ label'[p] = label[p]
    BY <2>1, Zenon
  <2> QED
    BY <2>1, <2>4, <2>5, <1>c DEF Accounted, Untouched, Stretched, Holds
<1>13. CASE ConnectToTurbo
  BY <1>13, <1>c, Zenon DEF ConnectToTurbo, LockShape, Accounted, Untouched, Stretched, Holds
<1>14. CASE UNCHANGED <<spec, label, ann, lock, up, pc, raise, todo, gcTodo>>
  BY <1>14, <1>c, Zenon DEF Accounted, Untouched, Stretched, Holds
<1> QED
  BY <1>1, <1>2, <1>3, <1>4, <1>5, <1>6, <1>7, <1>8, <1>9, <1>10, <1>11, <1>12, <1>13, <1>14, Zenon
  DEF Next, ActionStep, Process, Cluster, SyncStatus, PodGone, vars

\* A call that has failed is not forgotten.
LEMMA FailureStep ==
  ASSUME TypeOK, [Next]_vars, failures' = 0
  PROVE  failures = 0
<1>1. Fail => failures' # 0
  BY QuotaAssumption DEF Fail, TypeOK
<1>2. Fail \/ UNCHANGED failures
  BY Zenon
  DEF Next, ActionStep, Process, Cluster, HasQuotas, LockForQuota, CheckQuotas, UpdateFails, UpdateDone,
      CreateClonePod, CreateFails, ActionEnds, ReleaseLock, Update, Revert, RevertFails, Crash,
      CleanupQuotas, RevertQuota, ConnectToTurbo, SyncStatus, PodGone, vars
<1> QED
  BY <1>1, <1>2, Zenon

\* The inductive invariant holds throughout.
LEMMA QuotaInvariant == Spec => []FailureInv
<1>1. Init => FailureInv
  BY TypeInit, QuotaAssumption, Zenon
  DEF Init, FailureInv, LockShape, SavedIsOriginal, Accounted, Untouched
<1>2. FailureInv /\ [Next]_vars => FailureInv'
  BY TypeStep, LockStep, SavedStep, AccountedStep, FailureStep, Zenon DEF FailureInv, QuotaInv
<1> QED
  BY <1>1, <1>2, PTL DEF Spec

\* A quota whose limit kubeturbo has changed carries the label of the garbage
\* collector, at every moment and after every crash, until an API call fails.
THEOREM StretchedQuotaIsMarked == Spec => []RaisedIsMarked
<1>1. FailureInv => RaisedIsMarked
  BY Zenon DEF FailureInv, Accounted, Untouched, Stretched, RaisedIsMarked, StretchedIsMarked
<1> QED
  BY <1>1, QuotaInvariant, PTL

\* An idle kubeturbo has given every quota back as it found it, label and
\* annotation included, until an API call fails; crashes do not matter.
THEOREM IdleMeansRestored == Spec => []RestoredWhenIdle
<1>1. FailureInv => RestoredWhenIdle
  <2> SUFFICES ASSUME FailureInv, failures = 0, up = "up", lock = NoAction
               PROVE  spec = Orig /\ \A q \in Quotas : ~label[q] /\ ann[q] = <<>>
    BY Zenon DEF RestoredWhenIdle
  <2>1. \A q \in Quotas : Untouched(q)
    BY QuotaAssumption, Zenon DEF FailureInv, Accounted
  <2> QED
    BY <2>1, QuotaAssumption DEF FailureInv, TypeOK, Untouched
<1> QED
  BY <1>1, QuotaInvariant, PTL
------------------------------------------------------------------------------
(***************************************************************************)
(* What is left of the owner's limit when API calls fail.                  *)
(***************************************************************************)
\* The limit at the bottom of an annotation, or the limit itself if there is none.
Bottom(limit, stack) == IF stack = <<>> THEN limit ELSE stack[Len(stack)]

\* Before the first crash the owner's limit is at the bottom of every quota and of
\* all that the accessors have saved.
BottomInv ==
    crashes = 0 =>
      /\ up = "up"
      /\ \A q \in Quotas :
           /\ Bottom(spec[q], ann[q]) = Orig[q]
           /\ \A a \in Actions : Bottom(saved[a][q].spec, saved[a][q].ann) = Orig[q]

\* A limit that is the owner's or exceeds it by at most the stretches of f actions.
Within(q, limit, f) == Orig[q] <= limit /\ limit <= Orig[q] + f * MostNeed(q)

\* Somebody will still put q back: the action under the lock, or the cleanup, which
\* will list it if it has not done so.
Awaited(q) ==
    \/ up = "down"
    \/ up = "gc" /\ q \in gcTodo
    \/ \E a \in Actions : lock = a /\ Holds(a, q)

\* A limit leaks one stretch at a time, and each time a call has failed.
LeakInv ==
    \A q \in Quotas :
      /\ \/ Within(q, spec[q], failures)
         \/ Awaited(q) /\ label[q] /\ ann[q] # <<>> /\ Within(q, spec[q], failures + 1)
      /\ ann[q] # <<>> => Within(q, Head(ann[q]), failures)
      /\ \A a \in Actions :
           /\ Within(q, saved[a][q].spec, failures)
           /\ saved[a][q].ann # <<>> => Within(q, Head(saved[a][q].ann), failures)

\* What a step may do to a quota, ...
Reverted(q) ==
    /\ up = "gc" /\ q \in gcTodo
    /\ spec'[q] = (IF ann[q] = <<>> THEN spec[q] ELSE Head(ann[q])) /\ ann'[q] = <<>>
QuotaFate(q) ==
    \/ spec'[q] = spec[q] /\ ann'[q] = ann[q] /\ label'[q] = label[q]
    \/ \E a \in Actions :
         /\ Update(a, q) \/ (UpdateFails(a) /\ q \in todo[a])
         /\ spec'[q] = saved[a][q].spec + Need[a][q] /\ label'[q]
         /\ ann'[q] = <<saved[a][q].spec>> \o saved[a][q].ann
    \/ \E a \in Actions : spec'[q] = saved[a][q].spec /\ ann'[q] = saved[a][q].ann
    \/ Reverted(q)

\* ... and to what an accessor has saved.
SavedFate(a, q) ==
    \/ saved'[a][q] = saved[a][q]
    \/ saved'[a][q] = [spec |-> Orig[q], ann |-> <<>>]
    \/ pc[a] = "locked" /\ saved'[a][q] = [spec |-> spec[q], ann |-> ann[q]]

\* Quotas change by Update, Revert and revertQuota only.
LEMMA QuotaSteps == ASSUME TypeOK, [Next]_vars, NEW q \in Quotas PROVE QuotaFate(q)
<1>a. spec \in [Quotas -> Nat] /\ label \in [Quotas -> BOOLEAN] /\ ann \in [Quotas -> Seq(Nat)]
      /\ todo \in [Actions -> SUBSET Quotas]
  BY Zenon DEF TypeOK
<1>1. CASE UNCHANGED quotaVars
  BY <1>1, Zenon DEF quotaVars, QuotaFate
<1>2. ASSUME NEW a \in Actions, NEW p \in Quotas, Stretch(a, p),
             Update(a, p) \/ (UpdateFails(a) /\ p \in todo[a])
      PROVE  QuotaFate(q)
  <2>1. CASE p = q
    <3>1. spec'[q] = saved[a][q].spec + Need[a][q] /\ ann'[q] = <<saved[a][q].spec>> \o saved[a][q].ann
      BY <1>a, <1>2, <2>1, Zenon DEF Stretch
    <3>2. label'[q]
      BY <1>a, <1>2, <2>1, Zenon DEF Stretch
    <3> QED
      BY <1>2, <2>1, <3>1, <3>2, Zenon DEF QuotaFate
  <2>2. CASE p # q
    BY <1>a, <1>2, <2>2, Zenon DEF Stretch, QuotaFate
  <2> QED
    BY <2>1, <2>2, Zenon
<1>3. ASSUME NEW a \in Actions, NEW p \in Quotas, Revert(a, p) PROVE QuotaFate(q)
  <2>1. \/ spec'[q] = spec[q] /\ ann'[q] = ann[q] /\ label'[q] = label[q]
        \/ spec'[q] = saved[a][q].spec /\ ann'[q] = saved[a][q].ann
    BY <1>a, <1>3, Zenon DEF Revert
  <2> QED
    BY <2>1, Zenon DEF QuotaFate
<1>4. ASSUME NEW p \in Quotas, RevertQuota(p) PROVE QuotaFate(q)
  <2>1. CASE UNCHANGED quotaVars
    BY <2>1, <1>1, Zenon
  <2>2. CASE /\ up = "gc" /\ p \in gcTodo
             /\ spec' = [spec EXCEPT ![p] = IF ann[p] = <<>> THEN @ ELSE Head(ann[p])]
             /\ ann' = [ann EXCEPT ![p] = <<>>]
             /\ label' = [label EXCEPT ![p] = FALSE]
    BY <1>a, <2>2, Zenon DEF QuotaFate, Reverted
  <2> QED
    BY <1>4, <2>1, <2>2, Zenon DEF RevertQuota
<1>5. ASSUME NEW a \in Actions, UpdateFails(a) PROVE QuotaFate(q)
  <2>1. UNCHANGED quotaVars \/ \E p \in todo[a] : Stretch(a, p)
    BY <1>5, Zenon DEF UpdateFails
  <2> QED
    BY <1>a, <1>1, <1>2, <1>5, <2>1, Zenon
<1>6. ASSUME NEW a \in Actions, NEW p \in Quotas, Update(a, p) PROVE QuotaFate(q)
  BY <1>2, <1>6, Zenon DEF Update
<1>7. ASSUME NEW a \in Actions,
             \/ HasQuotas(a) \/ LockForQuota(a) \/ CheckQuotas(a) \/ UpdateDone(a) \/ CreateClonePod(a)
             \/ CreateFails(a) \/ ActionEnds(a) \/ ReleaseLock(a) \/ \E p \in Quotas : RevertFails(a, p)
      PROVE  UNCHANGED quotaVars
  BY <1>7, Zenon DEF HasQuotas, LockForQuota, CheckQuotas, UpdateDone, CreateClonePod, CreateFails, ActionEnds,
     ReleaseLock, RevertFails
<1>8. CASE Crash \/ CleanupQuotas \/ ConnectToTurbo \/ Cluster \/ UNCHANGED vars
  BY <1>1, <1>8, Zenon DEF Crash, CleanupQuotas, ConnectToTurbo, Cluster, SyncStatus, PodGone, vars
<1> QED
  BY <1>1, <1>3, <1>4, <1>5, <1>6, <1>7, <1>8, Zenon DEF Next, ActionStep, Process

\* An accessor reads the quotas under the lock.
LEMMA SavedSteps == ASSUME TypeOK, [Next]_vars, NEW a \in Actions, NEW q \in Quotas PROVE SavedFate(a, q)
<1>a. saved \in [Actions -> [Quotas -> [spec : Nat, ann : Seq(Nat)]]] /\ pc \in [Actions -> PCs]
  BY Zenon DEF TypeOK
<1>b. Nothing[q] = [spec |-> Orig[q], ann |-> <<>>]
  BY Zenon DEF Nothing
<1>1. CASE saved' = saved
  BY <1>1, Zenon DEF SavedFate
<1>2. ASSUME NEW b \in Actions, CheckQuotas(b) PROVE SavedFate(a, q)
  <2>1. CASE /\ pc[b] = "locked"
             /\ saved' = [saved EXCEPT ![b] = [p \in Quotas |-> [spec |-> spec[p], ann |-> ann[p]]]]
    <3>1. b # a => saved'[a] = saved[a]
      BY <1>a, <2>1, Zenon
    <3>2. b = a => saved'[a][q] = [spec |-> spec[q], ann |-> ann[q]]
      BY <1>a, <2>1, Zenon
    <3> QED
      BY <2>1, <3>1, <3>2, Zenon DEF SavedFate
  <2> QED
    BY <1>1, <1>2, <2>1, Zenon DEF CheckQuotas, Goto
<1>3. ASSUME NEW b \in Actions, ReleaseLock(b) PROVE SavedFate(a, q)
  <2>1. saved' = [saved EXCEPT ![b] = Nothing]
    BY <1>3, Zenon DEF ReleaseLock
  <2>2. saved'[a] = saved[a] \/ saved'[a] = Nothing
    BY <1>a, <2>1, Zenon
  <2> QED
    BY <1>b, <2>2, Zenon DEF SavedFate
<1>4. CASE Crash
  BY <1>b, <1>4, Zenon DEF Crash, SavedFate
<1>5. ASSUME NEW b \in Actions,
             \/ HasQuotas(b) \/ LockForQuota(b) \/ UpdateFails(b) \/ UpdateDone(b) \/ CreateClonePod(b)
             \/ CreateFails(b) \/ ActionEnds(b)
             \/ \E p \in Quotas : Update(b, p) \/ Revert(b, p) \/ RevertFails(b, p)
      PROVE  saved' = saved
  BY <1>5, Zenon DEF HasQuotas, LockForQuota, UpdateFails, UpdateDone, CreateClonePod, CreateFails, ActionEnds,
     Update, Revert, RevertFails
<1>6. CASE CleanupQuotas \/ ConnectToTurbo \/ (\E p \in Quotas : RevertQuota(p)) \/ Cluster \/ UNCHANGED vars
  BY <1>1, <1>6, Zenon DEF CleanupQuotas, ConnectToTurbo, RevertQuota, Cluster, SyncStatus, PodGone, vars, actionVars
<1> QED
  BY <1>1, <1>2, <1>3, <1>4, <1>5, <1>6, Zenon DEF Next, ActionStep, Process

\* EncodeQuota keeps the annotation of what it encodes, so the bottom stays.
LEMMA BottomStretched ==
  ASSUME NEW limit \in Nat, NEW stack \in Seq(Nat), NEW higher
  PROVE  Bottom(higher, <<limit>> \o stack) = Bottom(limit, stack)
<1>1. /\ <<limit>> \o stack # <<>> /\ Len(<<limit>> \o stack) = 1 + Len(stack)
      /\ stack = <<>> => (<<limit>> \o stack)[1] = limit
      /\ stack # <<>> => Len(stack) >= 1 /\ (<<limit>> \o stack)[1 + Len(stack)] = stack[Len(stack)]
  OBVIOUS
<1> QED
  BY <1>1 DEF Bottom

\* Every step keeps the owner's limit at the bottom.
LEMMA BottomStep == ASSUME TypeOK, BottomInv, [Next]_vars PROVE BottomInv'
<1> SUFFICES ASSUME crashes' = 0
             PROVE  /\ up' = "up"
                    /\ \A q \in Quotas :
                         /\ Bottom(spec'[q], ann'[q]) = Orig[q]
                         /\ \A a \in Actions : Bottom(saved'[a][q].spec, saved'[a][q].ann) = Orig[q]
  BY Zenon DEF BottomInv
<1>a. crashes \in Nat /\ saved \in [Actions -> [Quotas -> [spec : Nat, ann : Seq(Nat)]]]
  BY DEF TypeOK
<1>1. crashes = 0 /\ up' = up
  <2>1. ~Crash
    BY <1>a DEF Crash
  <2>2. crashes' = crashes
    BY <2>1, ZenonT(30)
    DEF Next, ActionStep, Process, Cluster, HasQuotas, LockForQuota, CheckQuotas, UpdateFails, UpdateDone,
        CreateClonePod, CreateFails, ActionEnds, ReleaseLock, Update, Revert, RevertFails,
        CleanupQuotas, RevertQuota, ConnectToTurbo, SyncStatus, PodGone, vars, procVars
  <2>3. up = "up"
    BY <2>2, Zenon DEF BottomInv
  <2> QED
    BY <2>1, <2>2, <2>3, ZenonT(30)
    DEF Next, ActionStep, Process, Cluster, HasQuotas, LockForQuota, CheckQuotas, UpdateFails, UpdateDone,
        CreateClonePod, CreateFails, ActionEnds, ReleaseLock, Update, Revert, RevertFails,
        CleanupQuotas, RevertQuota, ConnectToTurbo, SyncStatus, PodGone, vars, procVars
<1>2. /\ up = "up"
      /\ \A q \in Quotas :
           /\ Bottom(spec[q], ann[q]) = Orig[q]
           /\ \A a \in Actions : Bottom(saved[a][q].spec, saved[a][q].ann) = Orig[q]
  BY <1>1, Zenon DEF BottomInv
<1>3. ASSUME NEW q \in Quotas PROVE Bottom(spec'[q], ann'[q]) = Orig[q]
  <2>1. QuotaFate(q) /\ ~Reverted(q)
    BY <1>2, QuotaSteps, Zenon DEF Reverted
  <2>2. ASSUME NEW a \in Actions, ann'[q] = <<saved[a][q].spec>> \o saved[a][q].ann
        PROVE  Bottom(spec'[q], ann'[q]) = Orig[q]
    <3>1. saved[a][q].spec \in Nat /\ saved[a][q].ann \in Seq(Nat)
      BY <1>a, Zenon
    <3> QED
      BY <1>2, <2>2, <3>1, BottomStretched
  <2> QED
    BY <1>2, <2>1, <2>2, Zenon DEF QuotaFate
<1>4. ASSUME NEW a \in Actions, NEW q \in Quotas
      PROVE  Bottom(saved'[a][q].spec, saved'[a][q].ann) = Orig[q]
  <2>1. SavedFate(a, q)
    BY SavedSteps, Zenon
  <2>2. CASE saved'[a][q] = [spec |-> Orig[q], ann |-> <<>>]
    BY <2>2 DEF Bottom
  <2>3. CASE saved'[a][q] = [spec |-> spec[q], ann |-> ann[q]]
    <3>1. saved'[a][q].spec = spec[q] /\ saved'[a][q].ann = ann[q]
      BY <2>3
    <3> QED
      BY <1>2, <3>1, Zenon
  <2> QED
    BY <1>2, <2>1, <2>2, <2>3, Zenon DEF SavedFate
<1> QED
  BY <1>1, <1>2, <1>3, <1>4, Zenon

\* As long as kubeturbo has not crashed the owner's limit can be read from every
\* quota, whatever API calls fail: Update piles its annotation on the one it finds,
\* and Revert puts back what lay under its own.
THEOREM OwnersLimitIsKept == Spec => []OriginalKept
<1>1. Init => BottomInv
  <2> SUFFICES ASSUME Init PROVE BottomInv
    BY Zenon
  <2>1. /\ up = "up"
        /\ \A q \in Quotas : spec[q] = Orig[q] /\ ann[q] = <<>>
        /\ \A a \in Actions, q \in Quotas : saved[a][q].spec = Orig[q] /\ saved[a][q].ann = <<>>
    BY Zenon DEF Init, Nothing
  <2> QED
    BY <2>1, Zenon DEF BottomInv, Bottom
<1>2. TypeOK /\ BottomInv /\ [Next]_vars => BottomInv'
  BY BottomStep, Zenon
<1>3. BottomInv => OriginalKept
  BY Zenon DEF BottomInv, Bottom, OriginalKept
<1> QED
  BY <1>1, <1>2, <1>3, TypeCorrect, PTL DEF Spec

\* MostNeed is what it says.
LEMMA MostNeedBounds ==
  ASSUME NEW q \in Quotas
  PROVE  MostNeed(q) \in Nat /\ \A a \in Actions : Need[a][q] \in Nat /\ Need[a][q] <= MostNeed(q)
<1>1. \A a \in Actions : Need[a][q] \in Nat
  BY QuotaAssumption, Zenon
<1>2. \E n \in {Need[a][q] : a \in Actions} : \A a \in Actions : Need[a][q] <= n
  BY MostAssumption, Zenon
<1>3. MostNeed(q) \in {Need[a][q] : a \in Actions} /\ \A a \in Actions : Need[a][q] <= MostNeed(q)
  BY <1>2, Zenon DEF MostNeed
<1> QED
  BY <1>1, <1>3, Zenon

\* More failures allow for more; one more allows for one more stretch.
LEMMA WithinGrows ==
  ASSUME NEW q \in Quotas, NEW limit \in Nat, NEW f \in Nat
  PROVE  /\ Within(q, limit, f) => Within(q, limit, f + 1)
         /\ Within(q, Orig[q], f)
         /\ \A a \in Actions : Within(q, limit, f) => Within(q, limit + Need[a][q], f + 1)
<1> DEFINE M == MostNeed(q)
<1>1. Orig[q] \in Nat /\ M \in Nat /\ \A a \in Actions : Need[a][q] \in Nat /\ Need[a][q] <= M
  BY QuotaAssumption, MostNeedBounds, Zenon
<1> HIDE DEF M
<1>2. f * M \in Nat /\ (f + 1) * M = f * M + M
  BY <1>1
<1> QED
  BY <1>1, <1>2 DEF Within, M

\* A step is one failed call or none.
LEMMA FailOrNot == ASSUME [Next]_vars PROVE Fail \/ failures' = failures
  BY Zenon
  DEF Next, ActionStep, Process, Cluster, HasQuotas, LockForQuota, CheckQuotas, UpdateFails, UpdateDone,
      CreateClonePod, CreateFails, ActionEnds, ReleaseLock, Update, Revert, RevertFails, Crash,
      CleanupQuotas, RevertQuota, ConnectToTurbo, SyncStatus, PodGone, vars

\* A stretched quota is awaited until it is put back or a call fails.
LEMMA AwaitedStep ==
  ASSUME TypeOK, LockShape, [Next]_vars, NEW q \in Quotas, Awaited(q), label[q], ~Fail
  PROVE  \/ Awaited(q)' \/ Reverted(q)
         \/ \E a \in Actions : spec'[q] = saved[a][q].spec /\ ann'[q] = saved[a][q].ann
<1>a. /\ pc \in [Actions -> PCs] /\ lock \in Actions \cup {NoAction} /\ gcTodo \in SUBSET Quotas
      /\ raise \in [Actions -> SUBSET Quotas] /\ todo \in [Actions -> SUBSET Quotas]
      /\ spec \in [Quotas -> Nat] /\ ann \in [Quotas -> Seq(Nat)]
  BY Zenon DEF TypeOK
<1> USE QuotaAssumption, <1>a DEF quotaVars, envVars, actionVars, procVars, Goto
<1>1. CASE UNCHANGED <<lock, pc, raise, todo, up, gcTodo>>
  BY <1>1, Zenon DEF Awaited, Holds
<1>2. ASSUME NEW a \in Actions, HasQuotas(a) \/ LockForQuota(a) PROVE Awaited(q)'
  <2>1. /\ pc[a] \in {"new", "waiting"}
        /\ \A b \in Actions : b # a => pc'[b] = pc[b]
        /\ lock # NoAction => lock' = lock
        /\ UNCHANGED <<raise, todo, up, gcTodo>>
    BY <1>2, Zenon DEF HasQuotas, LockForQuota
  <2> QED
    BY <2>1, Zenon DEF Awaited, Holds
<1>3. ASSUME NEW a \in Actions, CheckQuotas(a) \/ ReleaseLock(a) PROVE Awaited(q)'
  <2>1. pc[a] \in {"locked", "revert", "release"} /\ (pc[a] = "revert" => todo[a] = {})
    BY <1>3, Zenon DEF CheckQuotas, ReleaseLock
  <2>2. up = "up" /\ lock = a /\ ~Holds(a, q)
    BY <2>1, Zenon DEF LockShape, Holds
  <2> QED
    BY <2>2, Zenon DEF Awaited
<1>4. ASSUME NEW a \in Actions, NEW p \in Quotas, Update(a, p) PROVE Awaited(q)'
  BY <1>4, Zenon DEF Update, LockShape, Awaited, Holds
<1>5. ASSUME NEW a \in Actions, UpdateDone(a) \/ CreateClonePod(a) PROVE Awaited(q)'
  <2>1. /\ pc[a] \in {"update", "create"} /\ todo[a] = {}
        /\ pc' = [pc EXCEPT ![a] = "create"] \/ pc' = [pc EXCEPT ![a] = "run"]
        /\ UNCHANGED <<lock, raise, todo, up, gcTodo>>
    BY <1>5, Zenon DEF UpdateDone, CreateClonePod, LockShape
  <2> QED
    BY <2>1, Zenon DEF Awaited, Holds
<1>6. ASSUME NEW a \in Actions, CreateFails(a) \/ ActionEnds(a) PROVE Awaited(q)'
  <2>1. /\ pc[a] \in {"create", "run"} /\ pc' = [pc EXCEPT ![a] = "revert"]
        /\ todo' = [todo EXCEPT ![a] = raise[a]]
        /\ UNCHANGED <<lock, up, raise, gcTodo>>
    BY <1>6, Zenon DEF CreateFails, ActionEnds
  <2> QED
    BY <2>1, Zenon DEF Awaited, Holds
<1>7. ASSUME NEW a \in Actions, NEW p \in Quotas, Revert(a, p), p # q PROVE Awaited(q)'
  <2>1. pc' = pc /\ todo' = [todo EXCEPT ![a] = @ \ {p}] /\ UNCHANGED <<lock, up, raise, gcTodo>>
    BY <1>7, Zenon DEF Revert
  <2> QED
    BY <1>7, <2>1, Zenon DEF Awaited, Holds
<1>8. ASSUME NEW a \in Actions, Revert(a, q) PROVE spec'[q] = saved[a][q].spec /\ ann'[q] = saved[a][q].ann
  BY <1>8, Zenon DEF Revert
<1>9. ASSUME NEW a \in Actions, UpdateFails(a) \/ (\E p \in Quotas : RevertFails(a, p)) PROVE FALSE
  BY <1>9, Zenon DEF UpdateFails, RevertFails
<1>10. CASE Crash
  BY <1>10, Zenon DEF Crash, Awaited
<1>11. CASE CleanupQuotas
  <2>1. up' = "gc" /\ gcTodo' = {p \in Quotas : label[p]}
    BY <1>11, Zenon DEF CleanupQuotas
  <2> QED
    BY <2>1, Zenon DEF Awaited
<1>12. ASSUME NEW p \in Quotas, RevertQuota(p) PROVE Awaited(q)' \/ Reverted(q)
  <2>1. /\ up = "gc" /\ p \in gcTodo /\ gcTodo' = gcTodo \ {p} /\ up' = up /\ UNCHANGED actionVars
        /\ spec' = [spec EXCEPT ![p] = IF ann[p] = <<>> THEN @ ELSE Head(ann[p])]
        /\ ann' = [ann EXCEPT ![p] = <<>>]
    BY <1>12, Zenon DEF RevertQuota
  <2>2. CASE p = q
    BY <2>1, <2>2, Zenon DEF Reverted
  <2>3. CASE p # q
    BY <2>1, <2>3, Zenon DEF Awaited, Holds
  <2> QED
    BY <2>2, <2>3, Zenon
<1>13. CASE ConnectToTurbo
  BY <1>13, Zenon DEF ConnectToTurbo, LockShape, Awaited
<1> QED
  BY <1>1, <1>2, <1>3, <1>4, <1>5, <1>6, <1>7, <1>8, <1>9, <1>10, <1>11, <1>12, <1>13, Zenon
  DEF Next, ActionStep, Process, Cluster, SyncStatus, PodGone, vars

\* Every step keeps the limits within what the failed calls allow.
LEMMA LeakStep == ASSUME TypeOK, LockShape, LeakInv, [Next]_vars PROVE LeakInv'
<1>a. /\ failures \in Nat /\ failures' \in Nat
      /\ failures' = failures \/ failures' = failures + 1
      /\ spec \in [Quotas -> Nat] /\ ann \in [Quotas -> Seq(Nat)]
      /\ saved \in [Actions -> [Quotas -> [spec : Nat, ann : Seq(Nat)]]]
      /\ todo \in [Actions -> SUBSET Quotas]
  BY FailOrNot, TypeStep DEF TypeOK, Fail
<1>b. ASSUME NEW q \in Quotas, NEW limit \in Nat, Within(q, limit, failures) PROVE Within(q, limit, failures')
  BY <1>a, <1>b, WithinGrows, Zenon
<1>c. ASSUME NEW stack \in Seq(Nat), stack # <<>> PROVE Head(stack) \in Nat
  BY <1>c
<1> SUFFICES ASSUME NEW q \in Quotas
             PROVE  /\ \/ Within(q, spec'[q], failures')
                       \/ Awaited(q)' /\ label'[q] /\ ann'[q] # <<>> /\ Within(q, spec'[q], failures' + 1)
                    /\ ann'[q] # <<>> => Within(q, Head(ann'[q]), failures')
                    /\ \A a \in Actions :
                         /\ Within(q, saved'[a][q].spec, failures')
                         /\ saved'[a][q].ann # <<>> => Within(q, Head(saved'[a][q].ann), failures')
  BY Zenon DEF LeakInv
<1>1. /\ \/ Within(q, spec[q], failures)
         \/ Awaited(q) /\ label[q] /\ ann[q] # <<>> /\ Within(q, spec[q], failures + 1)
      /\ ann[q] # <<>> => Within(q, Head(ann[q]), failures)
      /\ spec[q] \in Nat /\ ann[q] \in Seq(Nat)
  BY <1>a, Zenon DEF LeakInv
<1>2. ASSUME NEW a \in Actions
      PROVE  /\ saved[a][q].spec \in Nat /\ Within(q, saved[a][q].spec, failures)
             /\ saved[a][q].ann \in Seq(Nat)
             /\ saved[a][q].ann # <<>> => Within(q, Head(saved[a][q].ann), failures)
  BY <1>a, Zenon DEF LeakInv
<1>3. ASSUME NEW a \in Actions
      PROVE  /\ Within(q, saved'[a][q].spec, failures')
             /\ saved'[a][q].ann # <<>> => Within(q, Head(saved'[a][q].ann), failures')
  <2>1. SavedFate(a, q)
    BY SavedSteps, Zenon
  <2>2. CASE saved'[a][q] = saved[a][q]
    BY <1>b, <1>c, <1>2, <2>2, Zenon
  <2>3. CASE saved'[a][q] = [spec |-> Orig[q], ann |-> <<>>]
    <3>1. saved'[a][q].spec = Orig[q] /\ saved'[a][q].ann = <<>>
      BY <2>3
    <3> QED
      BY <1>a, <3>1, WithinGrows, Zenon
  <2>4. CASE pc[a] = "locked" /\ saved'[a][q] = [spec |-> spec[q], ann |-> ann[q]]
    <3>1. saved'[a][q].spec = spec[q] /\ saved'[a][q].ann = ann[q]
      BY <2>4
    <3>2. up = "up" /\ lock = a /\ ~Holds(a, q)
      BY <2>4, Zenon DEF LockShape, Holds
    <3>3. Within(q, spec[q], failures)
      BY <1>1, <3>2, Zenon DEF Awaited
    <3> QED
      BY <1>b, <1>c, <1>1, <3>1, <3>3, Zenon
  <2> QED
    BY <2>1, <2>2, <2>3, <2>4, Zenon DEF SavedFate
<1> SUFFICES /\ \/ Within(q, spec'[q], failures')
                \/ Awaited(q)' /\ label'[q] /\ ann'[q] # <<>> /\ Within(q, spec'[q], failures' + 1)
             /\ ann'[q] # <<>> => Within(q, Head(ann'[q]), failures')
  BY <1>3, Zenon
<1>4. QuotaFate(q)
  BY QuotaSteps, Zenon
<1>5. CASE spec'[q] = spec[q] /\ ann'[q] = ann[q] /\ label'[q] = label[q]
  <2>1. ann'[q] # <<>> => Within(q, Head(ann'[q]), failures')
    BY <1>b, <1>c, <1>1, <1>5, Zenon
  <2>2. CASE Within(q, spec[q], failures)
    BY <1>b, <1>1, <1>5, <2>2
  <2>3. CASE ~Within(q, spec[q], failures) /\ Fail
    <3>1. failures' = failures + 1
      BY <2>3, Zenon DEF Fail
    <3>2. Within(q, spec[q], failures')
      BY <1>1, <2>3, <3>1, Zenon
    <3> QED
      BY <1>5, <2>1, <3>2, Zenon
  <2>4. CASE ~Within(q, spec[q], failures) /\ ~Fail
    <3>1. failures' = failures
      BY <2>4, FailOrNot, Zenon
    <3>2. ~Reverted(q) /\ \A a \in Actions : spec'[q] # saved[a][q].spec
      BY <1>1, <1>2, <1>5, <2>4, Zenon DEF Reverted
    <3>3. Awaited(q)'
      BY <1>1, <2>4, <3>2, AwaitedStep, Zenon
    <3> QED
      BY <1>1, <1>5, <2>4, <3>1, <3>3, Zenon
  <2> QED
    BY <2>1, <2>2, <2>3, <2>4, Zenon
<1>6. ASSUME NEW a \in Actions,
             Update(a, q) \/ (UpdateFails(a) /\ q \in todo[a]),
             spec'[q] = saved[a][q].spec + Need[a][q], label'[q],
             ann'[q] = <<saved[a][q].spec>> \o saved[a][q].ann
      PROVE  /\ \/ Within(q, spec'[q], failures')
                \/ Awaited(q)' /\ label'[q] /\ ann'[q] # <<>> /\ Within(q, spec'[q], failures' + 1)
             /\ ann'[q] # <<>> => Within(q, Head(ann'[q]), failures')
  <2>1. ann'[q] # <<>> /\ Head(ann'[q]) = saved[a][q].spec
    BY <1>2, <1>6
  <2>2. Within(q, Head(ann'[q]), failures')
    BY <1>b, <1>2, <2>1, Zenon
  <2>3. Within(q, spec'[q], failures + 1)
    BY <1>a, <1>2, <1>6, WithinGrows, Zenon
  <2>4. CASE UpdateFails(a)
    <3>1. failures' = failures + 1
      BY <2>4, Zenon DEF UpdateFails, Fail
    <3> QED
      BY <2>2, <2>3, <3>1, Zenon
  <2>5. CASE Update(a, q)
    <3>1. failures' = failures
      BY <2>5, Zenon DEF Update
    <3>2. Awaited(q)'
      <4>1. /\ q \in todo[a] /\ pc[a] = "update" /\ pc'[a] = "update" /\ raise' = raise /\ lock' = lock
            /\ todo' = [todo EXCEPT ![a] = @ \ {q}]
        BY <2>5, Zenon DEF Update, Goto, TypeOK
      <4>2. lock = a /\ q \in raise[a]
        BY <4>1, Zenon DEF LockShape
      <4> QED
        BY <1>a, <4>1, <4>2, Zenon DEF Awaited, Holds
    <3> QED
      BY <1>6, <2>1, <2>2, <2>3, <3>1, <3>2, Zenon
  <2> QED
    BY <1>6, <2>4, <2>5, Zenon
<1>7. ASSUME NEW a \in Actions, spec'[q] = saved[a][q].spec, ann'[q] = saved[a][q].ann
      PROVE  Within(q, spec'[q], failures') /\ (ann'[q] # <<>> => Within(q, Head(ann'[q]), failures'))
  BY <1>b, <1>c, <1>2, <1>7, Zenon
<1>8. CASE Reverted(q)
  <2>1. Within(q, spec'[q], failures) /\ spec'[q] \in Nat
    BY <1>c, <1>1, <1>8, Zenon DEF Reverted
  <2>2. Within(q, spec'[q], failures') /\ ann'[q] = <<>>
    BY <1>b, <1>8, <2>1, Zenon DEF Reverted
  <2> QED
    BY <2>2, Zenon
<1> QED
  BY <1>4, <1>5, <1>6, <1>7, <1>8, Zenon DEF QuotaFate

\* Whatever fails and whenever kubeturbo crashes, an idle kubeturbo has left no
\* quota below its owner's limit, nor above it by more than one action's stretch for
\* every API call that failed: what an action or the cleanup still has to put back
\* is the only stretch without a failed call.
THEOREM LeaksAreBounded == Spec => []LeakBounded
<1>1. Init => LeakInv
  <2> SUFFICES ASSUME Init PROVE LeakInv
    BY Zenon
  <2>1. /\ failures = 0
        /\ \A q \in Quotas : spec[q] = Orig[q] /\ ann[q] = <<>>
        /\ \A a \in Actions, q \in Quotas : saved[a][q].spec = Orig[q] /\ saved[a][q].ann = <<>>
    BY Zenon DEF Init, Nothing
  <2>2. \A q \in Quotas : Orig[q] \in Nat
    BY QuotaAssumption, Zenon
  <2>3. \A q \in Quotas : Within(q, Orig[q], failures)
    BY <2>1, <2>2, WithinGrows, Zenon
  <2> QED
    BY <2>1, <2>3, Zenon DEF LeakInv
<1>2. FailureInv /\ LeakInv /\ [Next]_vars => LeakInv'
  BY LeakStep, Zenon DEF FailureInv
<1>3. FailureInv /\ LeakInv => LeakBounded
  <2> SUFFICES ASSUME FailureInv, LeakInv, up = "up", lock = NoAction, NEW q \in Quotas
               PROVE  spec[q] >= Orig[q] /\ spec[q] <= Orig[q] + failures * MostNeed(q)
    BY Zenon DEF LeakBounded
  <2>1. ~Awaited(q)
    BY QuotaAssumption, Zenon DEF Awaited
  <2>2. Within(q, spec[q], failures)
    BY <2>1, Zenon DEF LeakInv
  <2>3. spec[q] \in Nat /\ Orig[q] \in Nat
    BY QuotaAssumption, Zenon DEF FailureInv, TypeOK
  <2> QED
    BY <2>2, <2>3, Zenon DEF Within
<1> QED
  BY <1>1, <1>2, <1>3, QuotaInvariant, PTL DEF Spec

-----------------------------------------------------------------------------
(* The resources of SCCs                                                   *)

Cleaners == {"manager", "exit"}
SccObjects == {"account", "role", "binding"} \X Scc!Names
Universe == SccObjects \cup Scc!ClusterObjects
Elems(q) == {q[i] : i \in 1..Len(q)}

CleanerState ==
  [at : {"idle", "loop", "last", "done"}, left : SUBSET Scc!Names, seen : SUBSET Scc!Names,
   queue : Seq(Universe)]

SccTypes ==
  /\ objects \subseteq Universe /\ sccMapping \subseteq Scc!Names
  /\ manager \in [at : {"review", "account", "role", "binding", "clusterRole", "clusterBinding",
                        "managed", "unmanaged", "failed"}, next : 1..Len(SccList)]
  /\ cleaner \in [Cleaners -> CleanerState]
  /\ exiting \in {"no", "early", "late"} /\ turbo \in {"connected", "closed"}
  /\ process \in {"up", "exited", "killed"}
  /\ waitCount \in Int /\ lost \in BOOLEAN

\* A cleanup that has not begun or is over deletes nothing, and the one of a
\* failed ManageSCCs follows a call that was given up.
CleanersInv ==
  /\ \A c \in Cleaners : cleaner[c].at \in {"idle", "done"} => cleaner[c].queue = <<>>
  /\ cleaner["manager"].at # "idle" => lost

\* The objects ManageSCCs has created, as long as nobody deletes any.
CreatedInv ==
  /\ \A s \in sccMapping : Scc!ObjectsOf(s) \subseteq objects
  /\ manager.at \in {"role", "binding"} => <<"account", Scc!Scc>> \in objects
  /\ manager.at = "binding" => <<"role", Scc!Scc>> \in objects
  /\ manager.at = "clusterBinding" => <<"role", Scc!ClusterWide>> \in objects
  /\ manager.at = "managed" => subjects = Scc!Names /\ Scc!ClusterObjects \subseteq objects

\* The SCCs before the one ManageSCCs is at are in the map.
MappingInv ==
  /\ manager.at = "review" => manager.next = 1
  /\ \A i \in 1..Len(SccList) :
       manager.at \in {"account", "role", "binding"} /\ i < manager.next => SccList[i] \in sccMapping
  /\ manager.at \in {"clusterRole", "clusterBinding", "managed"} => sccMapping = Scc!Names

\* The wait group counts the goroutines of the exit functions that still run.
WaitInv ==
  /\ exiting = "no" => waitCount = 1 /\ turbo = "connected" /\ cleaner["exit"].at = "idle"
  /\ exiting # "no" =>
       /\ cleaner["exit"].at # "idle"
       /\ waitCount = (IF turbo = "connected" THEN 1 ELSE 0) + (IF cleaner["exit"].at = "done" THEN 0 ELSE 1)
  /\ process = "exited" => exiting # "no" /\ turbo = "closed" /\ waitCount = 0

\* What the exit function has yet to delete.
Remaining ==
  Elems(cleaner["exit"].queue) \cup
  (IF cleaner["exit"].at = "loop"
   THEN (UNION {Scc!ObjectsOf(s) : s \in cleaner["exit"].left}) \cup Scc!ClusterObjects ELSE {})

ExitInv ==
  /\ exiting = "late" => manager.at \in {"managed", "unmanaged"}
  /\ exiting = "late" /\ manager.at = "managed" /\ ~lost => objects \subseteq Remaining

SccInv ==
  /\ SccTypes /\ CleanersInv /\ MappingInv /\ WaitInv /\ ExitInv
  /\ ~Scc!CleanupBegun => CreatedInv

LEMMA SccFacts ==
  /\ Len(SccList) \in Nat /\ Len(SccList) >= 1 /\ DOMAIN SccList = 1..Len(SccList)
  /\ Scc!Names = {SccList[i] : i \in 1..Len(SccList)}
  /\ Scc!Names # {}
<1>1. Len(SccList) \in Nat /\ Len(SccList) >= 1 /\ DOMAIN SccList = 1..Len(SccList)
  BY SccAssumption
<1>2. Scc!Names = {SccList[i] : i \in 1..Len(SccList)}
  BY <1>1, Zenon DEF Scc!Names
<1>3. SccList[1] \in Scc!Names
  BY <1>1, <1>2
<1> QED
  BY <1>1, <1>2, <1>3, Zenon

\* A process that has just started, whatever objects it finds.
Fresh ==
  /\ objects \subseteq Universe /\ sccMapping = {} /\ manager = Scc!Start
  /\ cleaner = [c \in Cleaners |-> Scc!Idle] /\ exiting = "no" /\ waitCount = 1
  /\ turbo = "connected" /\ process = "up" /\ lost = FALSE

LEMMA FreshProcess == Fresh => SccInv
<1> SUFFICES ASSUME Fresh PROVE SccInv
  BY Zenon
<1> USE DEF Fresh
<1>1. Scc!Idle \in CleanerState
  BY DEF Scc!Idle, CleanerState
<1>2. SccTypes
  <2>1. 1 \in 1..Len(SccList)
    BY SccFacts
  <2>2. manager \in [at : {"review", "account", "role", "binding", "clusterRole", "clusterBinding",
                          "managed", "unmanaged", "failed"}, next : 1..Len(SccList)]
    BY <2>1, Zenon DEF Scc!Start
  <2>3. cleaner \in [Cleaners -> CleanerState]
    BY <1>1, Zenon
  <2>4. /\ exiting \in {"no", "early", "late"} /\ turbo \in {"connected", "closed"}
        /\ process \in {"up", "exited", "killed"} /\ lost \in BOOLEAN
    BY Zenon
  <2>5. waitCount \in Int /\ objects \subseteq Universe /\ sccMapping \subseteq Scc!Names
    OBVIOUS
  <2> QED
    BY <2>2, <2>3, <2>4, <2>5, Zenon DEF SccTypes
<1>3. CleanersInv /\ MappingInv /\ WaitInv /\ ExitInv
  BY Zenon DEF Scc!Start, Scc!Idle, Cleaners, CleanersInv, MappingInv, WaitInv, ExitInv
<1>4. CreatedInv
  BY Zenon DEF Scc!Start, CreatedInv
<1> QED
  BY <1>2, <1>3, <1>4, Zenon DEF SccInv

LEMMA SccInit == Scc!Init => SccInv
  BY FreshProcess, Zenon DEF Fresh, Scc!Init, Cleaners

\* The SCC that ManageSCCs is at and the objects it creates.
LEMMA SccOfManager ==
  ASSUME SccTypes
  PROVE  /\ Scc!Scc \in Scc!Names
         /\ \A k \in {"account", "role", "binding"} : <<k, Scc!Scc>> \in Universe
         /\ \A k \in {"role", "binding"} : <<k, Scc!ClusterWide>> \in Universe
<1>1. Scc!Scc \in Scc!Names
  BY SccFacts, Zenon DEF SccTypes, Scc!Scc
<1> QED
  BY <1>1, Zenon DEF Universe, SccObjects, Scc!ClusterObjects

\* A cleanup begins with the SCCs of the map.
LEMMA CleanUpBegins ==
  ASSUME SccTypes, NEW c \in Cleaners, Scc!CleanUp(c)
  PROVE  /\ cleaner' \in [Cleaners -> CleanerState]
         /\ \A d \in Cleaners \ {c} : cleaner'[d] = cleaner[d]
         /\ cleaner'[c].queue = <<>> /\ cleaner'[c].at \in {"loop", "done"}
         /\ cleaner'[c].at = "done" <=> sccMapping = {}
         /\ cleaner'[c].at = "loop" => cleaner'[c].left = sccMapping
<1> DEFINE new == IF sccMapping = {} THEN [Scc!Idle EXCEPT !.at = "done"]
                  ELSE [at |-> "loop", left |-> sccMapping, seen |-> sccMapping, queue |-> <<>>]
<1>1. new \in CleanerState
  <2>1. <<>> \in Seq(Universe) /\ sccMapping \in SUBSET Scc!Names
    BY DEF SccTypes
  <2>2. [Scc!Idle EXCEPT !.at = "done"] \in CleanerState
    BY <2>1, Zenon DEF CleanerState, Scc!Idle
  <2>3. [at |-> "loop", left |-> sccMapping, seen |-> sccMapping, queue |-> <<>>] \in CleanerState
    BY <2>1, Zenon DEF CleanerState
  <2> QED
    BY <2>2, <2>3, Zenon
<1>2. new.queue = <<>> /\ new.at \in {"loop", "done"} /\ (new.at = "done" <=> sccMapping = {})
      /\ (new.at = "loop" => new.left = sccMapping)
  BY Zenon DEF Scc!Idle
<1>3. cleaner' = [cleaner EXCEPT ![c] = new]
  BY Zenon DEF Scc!CleanUp
<1> HIDE DEF new
<1> QED
  BY <1>1, <1>2, <1>3, Zenon DEF SccTypes

\* ManageSCCs gives up: its cleanup begins, and the process counts a loss.
LEMMA AbortStep ==
  ASSUME SccInv, NEW o \in Universe, objects' \in {objects, objects \cup {o}}, Scc!Abort,
         manager.at \notin {"managed", "unmanaged"},
         UNCHANGED <<exiting, waitCount, turbo, process>>
  PROVE  SccInv'
<1>1. /\ manager' = [manager EXCEPT !.at = "failed"] /\ Scc!CleanUp("manager")
      /\ lost' = TRUE /\ UNCHANGED sccMapping
  BY Zenon DEF Scc!Abort, Scc!GiveUp
<1>2. /\ cleaner' \in [Cleaners -> CleanerState] /\ cleaner'["exit"] = cleaner["exit"]
      /\ cleaner'["manager"].queue = <<>> /\ cleaner'["manager"].at \in {"loop", "done"}
  BY <1>1, CleanUpBegins, Zenon DEF SccInv, Cleaners
<1>3. SccTypes'
  BY <1>1, <1>2, Zenon DEF SccInv, SccTypes
<1>4. CleanersInv'
  BY <1>1, <1>2, Zenon DEF SccInv, CleanersInv, Cleaners
<1>5. MappingInv' /\ ExitInv'
  BY <1>1, Zenon DEF SccInv, SccTypes, MappingInv, ExitInv
<1>6. WaitInv'
  BY <1>2, Zenon DEF SccInv, WaitInv
<1>7. Scc!CleanupBegun'
  BY <1>2, Zenon DEF Scc!CleanupBegun, Cleaners
<1> QED
  BY <1>3, <1>4, <1>5, <1>6, <1>7, Zenon DEF SccInv

\* A creation that succeeds, of the objects of an SCC or of the cluster.
LEMMA CreateStep ==
  ASSUME SccInv, NEW o \in Universe, objects' = objects \cup {o},
         manager.at \notin {"managed", "unmanaged"}, SccTypes', MappingInv',
         ~Scc!CleanupBegun => CreatedInv',
         UNCHANGED <<cleaner, exiting, waitCount, turbo, process, lost>>
  PROVE  SccInv'
<1>1. CleanersInv' /\ WaitInv'
  BY Zenon DEF SccInv, CleanersInv, WaitInv
<1>2. ExitInv'
  BY Zenon DEF SccInv, ExitInv
<1>3. Scc!CleanupBegun' = Scc!CleanupBegun
  BY Zenon DEF Scc!CleanupBegun
<1> QED
  BY <1>1, <1>2, <1>3, Zenon DEF SccInv

\* ManageSCCs: every creation succeeds or gives up.
LEMMA ManageStep ==
  ASSUME SccInv, Scc!ManageSCCs
  PROVE  SccInv'
<1> USE DEF SccInv
<1>0. UNCHANGED <<exiting, waitCount, turbo, process>>
  BY Zenon DEF Scc!ManageSCCs
<1>1. CASE Scc!ReviewSCCAccess
  <2>1. /\ manager.at = "review" /\ UNCHANGED <<objects, sccMapping, cleaner, lost>>
        /\ manager' = [manager EXCEPT !.at = "account"] \/ manager' = [manager EXCEPT !.at = "unmanaged"]
    BY <1>1, Zenon DEF Scc!ReviewSCCAccess
  <2>2. manager' = [at |-> manager'.at, next |-> manager.next] /\ manager'.at \in {"account", "unmanaged"}
    BY <2>1, Zenon DEF SccTypes
  <2>3. SccTypes' /\ CleanersInv' /\ WaitInv' /\ ExitInv'
    BY <1>0, <2>1, <2>2, Zenon DEF SccTypes, CleanersInv, WaitInv, ExitInv
  <2>4. MappingInv'
    BY <2>1, <2>2 DEF MappingInv, SccTypes
  <2>5. (~Scc!CleanupBegun => CreatedInv)'
    BY <2>1, <2>2, Zenon DEF Scc!CleanupBegun, CreatedInv
  <2> QED
    BY <2>3, <2>4, <2>5, Zenon
<1>2. CASE Scc!CreateSCCServiceAccount
  <2> DEFINE o == <<"account", Scc!Scc>>
  <2>1. o \in Universe /\ manager.at = "account"
    BY <1>2, SccOfManager, Zenon DEF Scc!CreateSCCServiceAccount, Scc!Create
  <2>2. CASE objects' = objects \cup {o} /\ Scc!Goto("role") /\ UNCHANGED lost
    <3>1. manager' = [manager EXCEPT !.at = "role"] /\ UNCHANGED <<sccMapping, cleaner>>
      BY <2>2, Zenon DEF Scc!Goto
    <3>2. manager'.at = "role" /\ manager'.next = manager.next /\ Scc!Scc' = Scc!Scc
      BY <3>1, Zenon DEF SccTypes, Scc!Scc
    <3>3. SccTypes' /\ MappingInv'
      BY <1>0, <2>1, <2>2, <3>1, <3>2, Zenon DEF SccTypes, MappingInv
    <3>4. ~Scc!CleanupBegun => CreatedInv'
      BY <2>2, <3>1, <3>2, Zenon DEF CreatedInv
    <3> QED
      BY <1>0, <2>1, <2>2, <3>1, <3>2, <3>3, <3>4, CreateStep, Zenon
  <2>3. CASE objects' \in {objects, objects \cup {o}} /\ Scc!Abort
    BY <1>0, <2>1, <2>3, AbortStep, Zenon
  <2> QED
    BY <1>2, <2>2, <2>3, Zenon DEF Scc!CreateSCCServiceAccount, Scc!Create
<1>3. CASE Scc!CreateSCCRole
  <2> DEFINE o == <<"role", Scc!Scc>>
  <2>1. o \in Universe /\ manager.at = "role"
    BY <1>3, SccOfManager, Zenon DEF Scc!CreateSCCRole, Scc!Create
  <2>2. CASE objects' = objects \cup {o} /\ Scc!Goto("binding") /\ UNCHANGED lost
    <3>1. manager' = [manager EXCEPT !.at = "binding"] /\ UNCHANGED <<sccMapping, cleaner>>
      BY <2>2, Zenon DEF Scc!Goto
    <3>2. manager'.at = "binding" /\ manager'.next = manager.next /\ Scc!Scc' = Scc!Scc
      BY <3>1, Zenon DEF SccTypes, Scc!Scc
    <3>3. SccTypes' /\ MappingInv'
      BY <1>0, <2>1, <2>2, <3>1, <3>2, Zenon DEF SccTypes, MappingInv
    <3>4. ~Scc!CleanupBegun => CreatedInv'
      BY <2>1, <2>2, <3>1, <3>2, Zenon DEF CreatedInv
    <3> QED
      BY <1>0, <2>1, <2>2, <3>1, <3>2, <3>3, <3>4, CreateStep, Zenon
  <2>3. CASE objects' \in {objects, objects \cup {o}} /\ Scc!Abort
    BY <1>0, <2>1, <2>3, AbortStep, Zenon
  <2> QED
    BY <1>3, <2>2, <2>3, Zenon DEF Scc!CreateSCCRole, Scc!Create
<1>4. CASE Scc!CreateSCCRoleBinding
  <2> DEFINE o == <<"binding", Scc!Scc>>
  <2>1. o \in Universe /\ manager.at = "binding"
    BY <1>4, SccOfManager, Zenon DEF Scc!CreateSCCRoleBinding, Scc!Create
  <2>2. CASE objects' = objects \cup {o} /\ Scc!MapTheScc /\ UNCHANGED lost
    <3>1. sccMapping' = sccMapping \cup {Scc!Scc} /\ UNCHANGED cleaner
      BY <2>2, Zenon DEF Scc!MapTheScc
    <3>2. /\ Scc!Scc = SccList[manager.next] /\ Scc!Scc \in Scc!Names
          /\ manager.next \in 1..Len(SccList) /\ Len(SccList) \in Nat
      BY SccOfManager, SccFacts, Zenon DEF SccTypes, Scc!Scc
    <3>3. ~Scc!CleanupBegun => \A s \in sccMapping' : Scc!ObjectsOf(s) \subseteq objects'
      BY <2>1, <2>2, <3>1, Zenon DEF CreatedInv, Scc!ObjectsOf
    <3>4. CASE manager.next < Len(SccList)
      <4>1. manager' = [at |-> "account", next |-> manager.next + 1] /\ manager.next + 1 \in 1..Len(SccList)
        BY <2>2, <3>2, <3>4 DEF Scc!MapTheScc
      <4>2. SccTypes'
        BY <1>0, <2>1, <2>2, <3>1, <3>2, <4>1, Zenon DEF SccTypes
      <4>3. MappingInv'
        BY <2>1, <3>1, <3>2, <4>1 DEF MappingInv
      <4>4. ~Scc!CleanupBegun => CreatedInv'
        BY <3>3, <4>1, Zenon DEF CreatedInv
      <4> QED
        BY <1>0, <2>1, <2>2, <3>1, <4>2, <4>3, <4>4, CreateStep, Zenon
    <3>5. CASE ~(manager.next < Len(SccList))
      <4>1. manager' = [manager EXCEPT !.at = "clusterRole"] /\ manager.next = Len(SccList)
        BY <2>2, <3>2, <3>5 DEF Scc!MapTheScc
      <4>2. manager'.at = "clusterRole" /\ manager'.next = manager.next
        BY <4>1, Zenon DEF SccTypes
      <4>3. SccTypes'
        BY <1>0, <2>1, <2>2, <3>1, <3>2, <4>1, <4>2, Zenon DEF SccTypes
      <4>4. \A i \in 1..Len(SccList) : SccList[i] \in sccMapping'
        BY <2>1, <3>1, <3>2, <4>1 DEF MappingInv
      <4>5. MappingInv'
        BY <4>2, <4>3, <4>4, SccFacts DEF MappingInv, SccTypes
      <4>6. ~Scc!CleanupBegun => CreatedInv'
        BY <3>3, <4>2, Zenon DEF CreatedInv
      <4> QED
        BY <1>0, <2>1, <2>2, <3>1, <4>3, <4>5, <4>6, CreateStep, Zenon
    <3> QED
      BY <3>4, <3>5, Zenon
  <2>3. CASE objects' \in {objects, objects \cup {o}} /\ Scc!Abort
    BY <1>0, <2>1, <2>3, AbortStep, Zenon
  <2> QED
    BY <1>4, <2>2, <2>3, Zenon DEF Scc!CreateSCCRoleBinding, Scc!Create
<1>5. CASE Scc!CreateSCCClusterRole
  <2> DEFINE o == <<"role", Scc!ClusterWide>>
  <2>1. o \in Universe /\ manager.at = "clusterRole"
    BY <1>5, SccOfManager, Zenon DEF Scc!CreateSCCClusterRole, Scc!Create
  <2>2. CASE objects' = objects \cup {o} /\ Scc!Goto("clusterBinding") /\ UNCHANGED lost
    <3>1. manager' = [manager EXCEPT !.at = "clusterBinding"] /\ UNCHANGED <<sccMapping, cleaner>>
      BY <2>2, Zenon DEF Scc!Goto
    <3>2. manager'.at = "clusterBinding" /\ manager'.next = manager.next /\ Scc!Scc' = Scc!Scc
      BY <3>1, Zenon DEF SccTypes, Scc!Scc
    <3>3. SccTypes' /\ MappingInv'
      BY <1>0, <2>1, <2>2, <3>1, <3>2, Zenon DEF SccTypes, MappingInv
    <3>4. ~Scc!CleanupBegun => CreatedInv'
      BY <2>1, <2>2, <3>1, <3>2, Zenon DEF CreatedInv
    <3> QED
      BY <1>0, <2>1, <2>2, <3>1, <3>2, <3>3, <3>4, CreateStep, Zenon
  <2>3. CASE objects' \in {objects, objects \cup {o}} /\ Scc!Abort
    BY <1>0, <2>1, <2>3, AbortStep, Zenon
  <2> QED
    BY <1>5, <2>2, <2>3, Zenon DEF Scc!CreateSCCClusterRole, Scc!Create
<1>6. CASE Scc!CreateSCCClusterRoleBinding
  <2> DEFINE o == <<"binding", Scc!ClusterWide>>
  <2>1. o \in Universe /\ manager.at = "clusterBinding"
    BY <1>6, SccOfManager, Zenon DEF Scc!CreateSCCClusterRoleBinding, Scc!Create
  <2>2. CASE objects' = objects \cup {o} /\ Scc!BindAll /\ UNCHANGED lost
    <3>1. /\ manager' = [manager EXCEPT !.at = "managed"] /\ UNCHANGED <<sccMapping, cleaner>>
          /\ subjects' = Scc!Names
      BY <2>2, Zenon DEF Scc!BindAll
    <3>2. manager'.at = "managed" /\ manager'.next = manager.next
      BY <3>1, Zenon DEF SccTypes
    <3>3. SccTypes' /\ MappingInv'
      BY <1>0, <2>1, <2>2, <3>1, <3>2, Zenon DEF SccTypes, MappingInv
    <3>4. ~Scc!CleanupBegun => CreatedInv'
      BY <2>1, <2>2, <3>1, <3>2, Zenon DEF CreatedInv, Scc!ClusterObjects
    <3> QED
      BY <1>0, <2>1, <2>2, <3>1, <3>3, <3>4, CreateStep, Zenon
  <2>3. CASE objects' \in {objects, objects \cup {o}} /\ Scc!Abort
    BY <1>0, <2>1, <2>3, AbortStep, Zenon
  <2> QED
    BY <1>6, <2>2, <2>3, Zenon DEF Scc!CreateSCCClusterRoleBinding, Scc!Create
<1> QED
  BY <1>1, <1>2, <1>3, <1>4, <1>5, <1>6, Zenon DEF Scc!ManageSCCs

\* A step of a cleanup that has begun: only the exit function's own deletions
\* matter to what it has yet to delete.
LEMMA CleanupStep ==
  ASSUME SccInv, NEW c \in Cleaners, NEW new \in CleanerState, cleaner[c].at # "idle",
         cleaner' = [cleaner EXCEPT ![c] = new], new.at # "idle", new.at = "done" => new.queue = <<>>,
         objects' \subseteq objects, lost' \in {lost, TRUE},
         waitCount' = IF c = "exit" /\ new.at = "done" /\ cleaner[c].at # "done" THEN waitCount - 1 ELSE waitCount,
         cleaner[c].at = "done" => new.at = "done",
         c = "exit" /\ objects \subseteq Remaining /\ ~lost' => objects' \subseteq Remaining',
         UNCHANGED <<sccMapping, manager, exiting, turbo, process>>
  PROVE  SccInv'
<1> USE DEF SccInv
<1>1. cleaner'[c] = new /\ \A d \in Cleaners \ {c} : cleaner'[d] = cleaner[d]
  BY Zenon DEF SccTypes
<1>2. SccTypes'
  <2>1. cleaner' \in [Cleaners -> CleanerState]
    BY Zenon DEF SccTypes
  <2>2. objects' \subseteq Universe /\ waitCount' \in Int
    BY DEF SccTypes
  <2>3. lost' \in BOOLEAN
    BY Zenon DEF SccTypes
  <2> QED
    BY <2>1, <2>2, <2>3, Zenon DEF SccTypes
<1>3. CleanersInv'
  <2>1. \A d \in Cleaners : cleaner'[d].at \in {"idle", "done"} => cleaner'[d].queue = <<>>
    BY <1>1, Zenon DEF CleanersInv
  <2>2. cleaner'["manager"].at # "idle" => cleaner["manager"].at # "idle"
    BY <1>1, Zenon DEF Cleaners
  <2>3. lost => lost'
    BY Zenon DEF SccTypes
  <2> QED
    BY <2>1, <2>2, <2>3, Zenon DEF CleanersInv
<1>4. MappingInv'
  BY Zenon DEF MappingInv
<1>5. WaitInv'
  <2>1. CASE c = "exit"
    BY <1>1, <2>1 DEF WaitInv, SccTypes, Cleaners, CleanerState
  <2>2. CASE c = "manager"
    BY <1>1, <2>2, Zenon DEF WaitInv, Cleaners
  <2> QED
    BY <2>1, <2>2, Zenon DEF Cleaners
<1>6. ExitInv'
  <2>1. CASE c = "exit"
    BY <2>1, Zenon DEF ExitInv
  <2>2. CASE c = "manager"
    BY <2>2, Zenon DEF ExitInv, CleanersInv, SccTypes
  <2> QED
    BY <2>1, <2>2, Zenon DEF Cleaners
<1>7. Scc!CleanupBegun'
  BY <1>1, Zenon DEF Scc!CleanupBegun, SccTypes
<1> QED
  BY <1>2, <1>3, <1>4, <1>5, <1>6, <1>7, Zenon

\* The members of a queue, its head apart.
LEMMA QueueHead ==
  ASSUME NEW S, NEW q \in Seq(S), q # <<>>
  PROVE  /\ Head(q) \in S /\ Tail(q) \in Seq(S)
         /\ Elems(q) \subseteq {Head(q)} \cup Elems(Tail(q))
<1>1. Head(q) \in S /\ Tail(q) \in Seq(S)
  OBVIOUS
<1>2. ASSUME NEW i \in 1..Len(q), i # 1 PROVE q[i] \in Elems(Tail(q))
  <2>1. Len(Tail(q)) = Len(q) - 1 /\ i - 1 \in 1..Len(Tail(q)) /\ Tail(q)[i - 1] = q[i]
    BY <1>2
  <2> QED
    BY <2>1, Zenon DEF Elems
<1>3. q[1] = Head(q)
  OBVIOUS
<1> QED
  BY <1>1, <1>2, <1>3, Zenon DEF Elems

\* CleanUpSCCMgmtResources, by either of the two that run it.
LEMMA CleanUpSCCStep ==
  ASSUME SccInv, NEW c \in Cleaners, Scc!CleanUpSCCMgmtResources(c)
  PROVE  SccInv'
<1> USE DEF SccInv
<1>0. UNCHANGED <<sccMapping, manager, exiting, turbo, process>>
  BY Zenon DEF Scc!CleanUpSCCMgmtResources
<1>1. cleaner[c] \in CleanerState
  BY Zenon DEF SccTypes
<1>2. CASE Scc!NextScc(c)
  <2>1. PICK s \in cleaner[c].left : cleaner' = [cleaner EXCEPT
               ![c].left = @ \ {s}, ![c].queue = << <<"role", s>>, <<"binding", s>>, <<"account", s>> >>]
    BY <1>2, Zenon DEF Scc!NextScc
  <2> DEFINE q == << <<"role", s>>, <<"binding", s>>, <<"account", s>> >>
             new == [cleaner[c] EXCEPT !.left = @ \ {s}, !.queue = q]
  <2>2. cleaner[c].at = "loop" /\ UNCHANGED <<objects, waitCount, lost>>
    BY <1>2, Zenon DEF Scc!NextScc
  <2>3. s \in Scc!Names /\ cleaner[c].left \ {s} \in SUBSET Scc!Names
    BY <1>1, <2>1, Zenon DEF CleanerState
  <2>4. q \in Seq(Universe)
    BY <2>3 DEF Universe, SccObjects
  <2>5. new \in CleanerState /\ new.at = "loop" /\ new.left = cleaner[c].left \ {s} /\ new.queue = q
    BY <1>1, <2>2, <2>3, <2>4, Zenon DEF CleanerState
  <2>6. cleaner' = [cleaner EXCEPT ![c] = new]
    BY <2>1, Zenon DEF SccTypes
  <2>7. Scc!ObjectsOf(s) \subseteq Elems(q)
    BY DEF Scc!ObjectsOf, Elems
  <2>8. ASSUME c = "exit", objects \subseteq Remaining PROVE objects \subseteq Remaining'
    <3>1. cleaner'["exit"] = new
      BY <2>6, <2>8, Zenon DEF SccTypes
    <3>2. cleaner["exit"].queue = <<>>
      BY <1>2, <2>8, Zenon DEF Scc!NextScc
    <3> HIDE DEF new, q
    <3> QED
      BY <2>2, <2>5, <2>7, <2>8, <3>1, <3>2 DEF Remaining, Elems
  <2> QED
    BY <1>0, <2>2, <2>5, <2>6, <2>8, CleanupStep, Zenon
<1>3. CASE Scc!LateScc(c)
  <2>1. PICK s \in sccMapping : cleaner' = [cleaner EXCEPT ![c].left = @ \cup {s}, ![c].seen = @ \cup {s}]
    BY <1>3, Zenon DEF Scc!LateScc
  <2> DEFINE new == [cleaner[c] EXCEPT !.left = @ \cup {s}, !.seen = @ \cup {s}]
  <2>2. cleaner[c].at = "loop" /\ UNCHANGED <<objects, waitCount, lost>>
    BY <1>3, Zenon DEF Scc!LateScc
  <2>3. cleaner[c].left \cup {s} \in SUBSET Scc!Names /\ cleaner[c].seen \cup {s} \in SUBSET Scc!Names
    BY <1>1, <2>1, Zenon DEF CleanerState, SccTypes
  <2>4. /\ new \in CleanerState /\ new.at = "loop" /\ new.left = cleaner[c].left \cup {s}
        /\ new.queue = cleaner[c].queue
    BY <1>1, <2>2, <2>3, Zenon DEF CleanerState
  <2>5. cleaner' = [cleaner EXCEPT ![c] = new]
    BY <2>1, Zenon DEF SccTypes
  <2>6. ASSUME c = "exit", objects \subseteq Remaining PROVE objects \subseteq Remaining'
    <3>1. cleaner'["exit"] = new
      BY <2>5, <2>6, Zenon DEF SccTypes
    <3> HIDE DEF new
    <3> QED
      BY <2>2, <2>4, <2>6, <3>1, Zenon DEF Remaining, Elems
  <2> QED
    BY <1>0, <2>2, <2>4, <2>5, <2>6, CleanupStep, Zenon
<1>4. CASE Scc!LastObjects(c)
  <2> DEFINE q == << <<"binding", Scc!ClusterWide>>, <<"role", Scc!ClusterWide>> >>
             new == [cleaner[c] EXCEPT !.at = "last", !.queue = q]
  <2>1. /\ cleaner[c].at = "loop" /\ cleaner[c].queue = <<>> /\ cleaner[c].left = {}
        /\ cleaner' = [cleaner EXCEPT ![c].at = "last", ![c].queue = q]
        /\ UNCHANGED <<objects, waitCount, lost>>
    BY <1>4, Zenon DEF Scc!LastObjects
  <2>2. q \in Seq(Universe)
    BY DEF Universe, Scc!ClusterObjects
  <2>3. new \in CleanerState /\ new.at = "last" /\ new.queue = q
    BY <1>1, <2>2, Zenon DEF CleanerState
  <2>4. cleaner' = [cleaner EXCEPT ![c] = new]
    BY <2>1, Zenon DEF SccTypes
  <2>5. Scc!ClusterObjects \subseteq Elems(q)
    BY DEF Scc!ClusterObjects, Elems
  <2>6. ASSUME c = "exit", objects \subseteq Remaining PROVE objects \subseteq Remaining'
    <3>1. cleaner'["exit"] = new
      BY <2>4, <2>6, Zenon DEF SccTypes
    <3>2. Remaining = Scc!ClusterObjects
      BY <2>1, <2>6 DEF Remaining, Elems
    <3>3. Elems(q) \subseteq Remaining'
      BY <2>3, <3>1, Zenon DEF Remaining
    <3> HIDE DEF q
    <3> QED
      BY <2>5, <2>6, <3>2, <3>3, Zenon
  <2> QED
    BY <1>0, <2>1, <2>3, <2>4, <2>6, CleanupStep, Zenon
<1>5. CASE Scc!Delete(c)
  <2> DEFINE q == cleaner[c].queue
             new == [cleaner[c] EXCEPT !.queue = Tail(q)]
  <2>1. /\ q # <<>> /\ cleaner' = [cleaner EXCEPT ![c].queue = Tail(@)] /\ UNCHANGED waitCount
        /\ objects' \subseteq objects /\ lost' \in {lost, TRUE}
        /\ ~lost' => objects' = objects \ {Head(q)}
    BY <1>5, Zenon DEF Scc!Delete, Scc!GiveUp
  <2>2. q \in Seq(Universe)
    BY <1>1, Zenon DEF CleanerState
  <2>3. Tail(q) \in Seq(Universe) /\ Elems(q) \subseteq {Head(q)} \cup Elems(Tail(q))
    BY <2>1, <2>2, QueueHead, Zenon
  <2>4. /\ new \in CleanerState /\ new.at = cleaner[c].at /\ new.left = cleaner[c].left
        /\ new.queue = Tail(q)
    BY <1>1, <2>3, Zenon DEF CleanerState
  <2>5. cleaner' = [cleaner EXCEPT ![c] = new]
    BY <2>1, Zenon DEF SccTypes
  <2>6. cleaner[c].at \in {"loop", "last"}
    BY <1>1, <2>1, Zenon DEF CleanerState, CleanersInv
  <2>7. ASSUME c = "exit", objects \subseteq Remaining, ~lost' PROVE objects' \subseteq Remaining'
    <3>1. cleaner'["exit"] = new
      BY <2>5, <2>7, Zenon DEF SccTypes
    <3>2. Remaining \subseteq Remaining' \cup {Head(q)}
      <4> HIDE DEF new
      <4> QED
        BY <2>3, <2>4, <2>7, <3>1, Zenon DEF Remaining
    <3> QED
      BY <2>1, <2>7, <3>2, Zenon
  <2> HIDE DEF new
  <2> QED
    BY <1>0, <2>1, <2>4, <2>5, <2>6, <2>7, CleanupStep, Zenon
<1>6. CASE Scc!Finish(c)
  <2> DEFINE new == [cleaner[c] EXCEPT !.at = "done"]
  <2>1. /\ cleaner[c].at = "last" /\ cleaner[c].queue = <<>> /\ cleaner' = [cleaner EXCEPT ![c].at = "done"]
        /\ waitCount' = IF c = "exit" THEN waitCount - 1 ELSE waitCount
        /\ UNCHANGED <<objects, lost>>
    BY <1>6, Zenon DEF Scc!Finish
  <2>2. new \in CleanerState /\ new.at = "done" /\ new.queue = <<>>
    BY <1>1, <2>1, Zenon DEF CleanerState
  <2>3. cleaner' = [cleaner EXCEPT ![c] = new]
    BY <2>1, Zenon DEF SccTypes
  <2>4. ASSUME c = "exit", objects \subseteq Remaining PROVE objects \subseteq Remaining'
    BY <2>1, <2>4 DEF Remaining, Elems
  <2> HIDE DEF new
  <2> QED
    BY <1>0, <2>1, <2>2, <2>3, <2>4, CleanupStep, Zenon
<1> QED
  BY <1>2, <1>3, <1>4, <1>5, <1>6, Zenon DEF Scc!CleanUpSCCMgmtResources

\* The signal: the exit function has everything to delete that ManageSCCs has
\* created, since the map then holds every SCC.
LEMMA HandleExitStep ==
  ASSUME SccInv, Scc!HandleExit
  PROVE  SccInv'
<1> USE DEF SccInv
<1>1. /\ process = "up" /\ exiting = "no" /\ Scc!CleanUp("exit")
      /\ exiting' = (IF manager.at \in {"managed", "unmanaged"} THEN "late" ELSE "early")
      /\ waitCount' = waitCount + (IF sccMapping = {} THEN 1 ELSE 2) - 1
      /\ UNCHANGED <<objects, sccMapping, manager, turbo, process, lost>>
  BY Zenon DEF Scc!HandleExit, Scc!Counted
<1>2. /\ cleaner' \in [Cleaners -> CleanerState] /\ cleaner'["manager"] = cleaner["manager"]
      /\ cleaner'["exit"].queue = <<>> /\ cleaner'["exit"].at \in {"loop", "done"}
      /\ cleaner'["exit"].at = "done" <=> sccMapping = {}
      /\ cleaner'["exit"].at = "loop" => cleaner'["exit"].left = sccMapping
  BY <1>1, CleanUpBegins, Zenon DEF Cleaners
<1>3. waitCount' = 1 + (IF cleaner'["exit"].at = "done" THEN 0 ELSE 1)
  BY <1>1, <1>2 DEF WaitInv
<1>4. SccTypes'
  BY <1>1, <1>2, <1>3 DEF SccTypes
<1>5. CleanersInv' /\ MappingInv'
  BY <1>1, <1>2, Zenon DEF CleanersInv, MappingInv, Cleaners
<1>6. WaitInv'
  BY <1>1, <1>2, <1>3, Zenon DEF WaitInv
<1>7. ASSUME manager.at = "managed" PROVE objects \subseteq Remaining'
  <2>1. sccMapping = Scc!Names /\ cleaner'["exit"].at = "loop" /\ cleaner'["exit"].left = Scc!Names
    BY <1>2, <1>7, SccFacts, Zenon DEF MappingInv
  <2>2. SccObjects \subseteq UNION {Scc!ObjectsOf(s) : s \in Scc!Names}
    BY DEF SccObjects, Scc!ObjectsOf
  <2>3. (UNION {Scc!ObjectsOf(s) : s \in Scc!Names}) \cup Scc!ClusterObjects \subseteq Remaining'
    BY <2>1, Zenon DEF Remaining
  <2> QED
    BY <2>2, <2>3, Zenon DEF SccTypes, Universe
<1>8. ExitInv'
  BY <1>1, <1>7, Zenon DEF ExitInv
<1>9. Scc!CleanupBegun'
  BY <1>2, Zenon DEF Scc!CleanupBegun, Cleaners
<1> QED
  BY <1>4, <1>5, <1>6, <1>8, <1>9, Zenon

LEMMA SccStep ==
  ASSUME SccInv, [Scc!Next]_sccVars
  PROVE  SccInv'
<1>1. CASE Scc!ManageSCCs
  BY <1>1, ManageStep, Zenon
<1>2. CASE Scc!HandleExit
  BY <1>2, HandleExitStep, Zenon
<1>3. ASSUME NEW c \in Cleaners, Scc!CleanUpSCCMgmtResources(c) PROVE SccInv'
  BY <1>3, CleanUpSCCStep, Zenon
<1>4. CASE Scc!DisconnectFromTurbo
  <2>1. /\ process = "up" /\ exiting # "no" /\ turbo = "connected" /\ turbo' = "closed"
        /\ waitCount' = waitCount - 1
        /\ UNCHANGED <<objects, subjects, sccMapping, manager, cleaner, exiting, process, lost>>
    BY <1>4, Zenon DEF Scc!DisconnectFromTurbo
  <2>2. SccTypes' /\ CleanersInv' /\ MappingInv' /\ ExitInv'
    BY <2>1 DEF SccInv, SccTypes, CleanersInv, MappingInv, ExitInv, Remaining
  <2>3. WaitInv'
    BY <2>1 DEF SccInv, SccTypes, WaitInv
  <2>4. (~Scc!CleanupBegun => CreatedInv)'
    BY <2>1, Zenon DEF SccInv, Scc!CleanupBegun, CreatedInv, Scc!Scc
  <2> QED
    BY <2>2, <2>3, <2>4, Zenon DEF SccInv
<1>5. CASE Scc!Exit \/ Scc!Kill
  <2>1. /\ process = "up" /\ process' \in {"exited", "killed"}
        /\ process' = "exited" => turbo = "closed" /\ waitCount = 0
        /\ UNCHANGED <<objects, subjects, sccMapping, manager, cleaner, exiting, turbo, waitCount, lost>>
    BY <1>5, Zenon DEF Scc!Exit, Scc!Kill
  <2>2. SccTypes' /\ CleanersInv' /\ MappingInv' /\ ExitInv'
    BY <2>1 DEF SccInv, SccTypes, CleanersInv, MappingInv, ExitInv, Remaining
  <2>3. WaitInv'
    BY <2>1, Zenon DEF SccInv, SccTypes, WaitInv
  <2>4. (~Scc!CleanupBegun => CreatedInv)'
    BY <2>1, Zenon DEF SccInv, Scc!CleanupBegun, CreatedInv, Scc!Scc
  <2> QED
    BY <2>2, <2>3, <2>4, Zenon DEF SccInv
<1>6. CASE Scc!Restart
  <2>1. /\ sccMapping' = {} /\ manager' = Scc!Start /\ cleaner' = [c \in Cleaners |-> Scc!Idle]
        /\ exiting' = "no" /\ waitCount' = 1 /\ turbo' = "connected" /\ process' = "up" /\ lost' = FALSE
        /\ objects' = objects
    BY <1>6, Zenon DEF Scc!Restart, Cleaners
  <2>2. Fresh'
    BY <2>1, Zenon DEF SccInv, SccTypes, Fresh, Scc!Start, Scc!Idle
  <2> QED
    BY <2>2, FreshProcess, PTL
<1>7. CASE UNCHANGED sccVars
  <2>1. SccTypes' /\ CleanersInv' /\ WaitInv'
    BY <1>7, Zenon DEF sccVars, SccInv, SccTypes, CleanersInv, WaitInv
  <2>2. MappingInv'
    BY <1>7, Zenon DEF sccVars, SccInv, MappingInv
  <2>3. ExitInv'
    BY <1>7, Zenon DEF sccVars, SccInv, ExitInv, Remaining, Elems
  <2>4. (Scc!CleanupBegun' <=> Scc!CleanupBegun) /\ (CreatedInv => CreatedInv')
    BY <1>7, Zenon DEF sccVars, CreatedInv, Scc!CleanupBegun, Scc!Scc
  <2> QED
    BY <2>1, <2>2, <2>3, <2>4, Zenon DEF SccInv
<1> QED
  BY <1>1, <1>2, <1>3, <1>4, <1>5, <1>6, <1>7, Zenon
  DEF Scc!Next, Scc!ExitStep, Scc!Rest, Scc!vars, sccVars, Cleaners

(* The inductive invariant of the SCC resources.                           *)
THEOREM SccInvariant == Scc!Spec => []SccInv
<1>1. SccInv /\ [Scc!Next]_(Scc!vars) => SccInv'
  BY SccStep, Zenon DEF Scc!vars, sccVars
<1> QED
  BY SccInit, <1>1, PTL DEF Scc!Spec

(* While no cleanup has begun, the account of a mapped SCC can be          *)
(* impersonated, whatever an earlier process left behind (ManageSCCs       *)
(* fills util.SCCMapping).                                                 *)
THEOREM MappedSccsAreUsable == Scc!Spec => []MappedIsUsable
<1>1. SccInv => MappedIsUsable
  BY Zenon DEF SccInv, CreatedInv, MappedIsUsable, Scc!MappedIsUsable
<1> QED
  BY SccInvariant, <1>1, PTL

(* Run returns only after the exit function and the disconnect are through; *)
(* and a process that was set up and signalled leaves no object of its own  *)
(* or of an earlier process (CleanUpSCCMgmtResources and the wait group).   *)
THEOREM GracefulExitsClean == Scc!Spec => []GracefulExitCleans
<1>1. SccInv => GracefulExitCleans
  <2> SUFFICES ASSUME SccInv, process = "exited" PROVE Scc!GracefulExitCleans
    BY Zenon DEF GracefulExitCleans, Scc!GracefulExitCleans
  <2>1. turbo = "closed" /\ cleaner["exit"].at = "done" /\ cleaner["exit"].queue = <<>>
    <3>1. turbo = "closed" /\ exiting # "no" /\ waitCount = 0
      BY Zenon DEF SccInv, WaitInv
    <3>2. waitCount = (IF turbo = "connected" THEN 1 ELSE 0) + (IF cleaner["exit"].at = "done" THEN 0 ELSE 1)
      BY <3>1, Zenon DEF SccInv, WaitInv
    <3>3. cleaner["exit"].at = "done"
      BY <3>1, <3>2
    <3> QED
      BY <3>1, <3>3, Zenon DEF SccInv, CleanersInv, Cleaners
  <2>2. Remaining = {}
    <3>1. Elems(<<>>) = {}
      BY DEF Elems
    <3> QED
      BY <2>1, <3>1, Zenon DEF Remaining
  <2> QED
    BY <2>1, <2>2, Zenon DEF SccInv, ExitInv, Scc!GracefulExitCleans
<1> QED
  BY SccInvariant, <1>1, PTL
=============================================================================
