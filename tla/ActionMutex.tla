----------------------------- MODULE ActionMutex -----------------------------
(***************************************************************************)
(* What kubeturbo's action lock promises to the code that runs under it: a *)
(* lock helper takes part at most once, and a key is held by at most one   *)
(* helper at a time.  The lease-based implementation is LeaseLock.         *)
(***************************************************************************)
CONSTANTS Keys,     \* lock keys ("ReplicaSet-ns/name", "quota-lock-ns", ...)
          Helpers,  \* LockHelper instances; every action creates its own
          KeyOf     \* KeyOf[h] is the key helper h was created for

VARIABLES holders,  \* holders[k]: the helpers that run under the lock of k
          entered   \* the helpers that have been given their lock

mutexVars == <<holders, entered>>

MutexInit ==
    /\ holders = [k \in Keys |-> {}]
    /\ entered = {}

Acquire(h) ==
    /\ h \notin entered
    /\ holders[KeyOf[h]] = {}
    /\ holders' = [holders EXCEPT ![KeyOf[h]] = {h}]
    /\ entered' = entered \cup {h}

Release(h) ==
    /\ h \in holders[KeyOf[h]]
    /\ holders' = [holders EXCEPT ![KeyOf[h]] = @ \ {h}]
    /\ UNCHANGED entered

MutexNext == \E h \in Helpers : Acquire(h) \/ Release(h)

MutexSpec == MutexInit /\ [][MutexNext]_mutexVars
==============================================================================
