------------------------------ MODULE LeaseLock ------------------------------
(***************************************************************************)
(* The action lock of kubeturbo: an ExpirationMap (pkg/action/util/        *)
(* expiration_map.go) whose entries are leases, and the LockHelper (pkg/   *)
(* action/util/lock_helper.go) that every action uses once to take, renew  *)
(* and give back the lease of its key.                                     *)
(*                                                                         *)
(* Time is counted in ticks.  left[k] is what remains of the lease of k    *)
(* (-1: it is past its expire time), timer[h] what remains of the sleep of *)
(* h's renewal goroutine.  A goroutine may run up to lag ticks after its   *)
(* sleep is over; the sweeper and the lock attempts are not timed at all.  *)
(***************************************************************************)
EXTENDS Integers

CONSTANTS Keys,         \* lock keys
          Helpers,      \* LockHelper instances, each used once
          KeyOf,        \* KeyOf[h]: the key of helper h
          TTL,          \* ExpirationMap.ttl
          Lags,         \* how late a renewal goroutine may wake up: the cases
          WaitTimeout   \* defaultWaitLockTimeOut

ASSUME KeyAssumption == KeyOf \in [Helpers -> Keys]
ASSUME TimeAssumption == TTL \in Nat /\ Lags \subseteq Nat /\ WaitTimeout \in Nat
\* NewLockHelper refuses a map whose ttl is below two seconds.
ASSUME TTLAssumption == TTL >= 2

VARIABLES
    generation,  \* ExpirationMap.generation
    version,     \* version[k]: version of the entry of k, 0 when there is none
    left,        \* left[k]: ticks until the entry of k expires, -1 when past or no entry
    sweep,       \* keys the sweeper has gathered and not yet looked at again
    pc,          \* pc[h]: how far the action that owns helper h has come
    ver,         \* ver[h]: LockHelper.version
    elapsed,     \* elapsed[h]: time spent in Trylock
    renewer,     \* renewer[h]: the goroutine started by KeepRenewLock
    timer,       \* timer[h]: ticks until that goroutine has to run, 0 if there is none
    stopped,     \* stopped[h]: LockHelper.stop is closed
    lag          \* how late a renewal goroutine may wake up: fixed by the load of the host

mapVars == <<generation, version, left>>
helperVars == <<pc, ver, elapsed, renewer, timer, stopped>>
vars == <<generation, version, left, sweep, pc, ver, elapsed, renewer, timer, stopped, lag>>

\* The renewal goroutine sleeps half a ttl (a tick at least).
Interval == TTL \div 2

\* node.isExpire: time.Now().After(n.expire)
IsExpire(k) == version[k] # 0 /\ left[k] < 0

Init ==
    /\ generation = 0
    /\ version = [k \in Keys |-> 0]
    /\ left = [k \in Keys |-> -1]
    /\ sweep = {}
    /\ pc = [h \in Helpers |-> "new"]
    /\ ver = [h \in Helpers |-> 0]
    /\ elapsed = [h \in Helpers |-> 0]
    /\ renewer = [h \in Helpers |-> "off"]
    /\ timer = [h \in Helpers |-> 0]
    /\ stopped = [h \in Helpers |-> FALSE]
    /\ lag \in Lags

\* getLockHelper / lockForQuota: the helper is made and Trylock starts.
NewLockHelper(h) ==
    /\ pc[h] = "new"
    /\ pc' = [pc EXCEPT ![h] = "trying"]
    /\ UNCHANGED <<mapVars, sweep, ver, elapsed, renewer, timer, stopped, lag>>

\* AcquireLock: ExpirationMap.Add finds no entry, even an expired one is one.
AcquireLock(h) ==
    /\ pc[h] = "trying"
    /\ version[KeyOf[h]] = 0
    /\ generation' = generation + 1
    /\ version' = [version EXCEPT ![KeyOf[h]] = generation + 1]
    /\ left' = [left EXCEPT ![KeyOf[h]] = TTL]
    /\ ver' = [ver EXCEPT ![h] = generation + 1]
    /\ elapsed' = [elapsed EXCEPT ![h] = 0]
    /\ pc' = [pc EXCEPT ![h] = "acquired"]
    /\ UNCHANGED <<sweep, renewer, timer, stopped, lag>>

\* Trylock gives up: an attempt failed and the timeout of RetryDuring is over.
Timeout(h) ==
    /\ pc[h] = "trying"
    /\ version[KeyOf[h]] # 0
    /\ elapsed[h] > WaitTimeout
    /\ elapsed' = [elapsed EXCEPT ![h] = 0]
    /\ pc' = [pc EXCEPT ![h] = "failed"]
    /\ UNCHANGED <<mapVars, sweep, ver, renewer, timer, stopped, lag>>

\* KeepRenewLock starts the renewal goroutine; the action then runs.
KeepRenewLock(h) ==
    /\ pc[h] = "acquired"
    /\ pc' = [pc EXCEPT ![h] = "held"]
    /\ renewer' = [renewer EXCEPT ![h] = "loop"]
    /\ UNCHANGED <<mapVars, sweep, ver, elapsed, timer, stopped, lag>>

\* The goroutine's select: stop closed, or go on to RenewLock.
RenewSelect(h) ==
    /\ renewer[h] = "loop"
    /\ timer[h] <= 0
    /\ renewer' = [renewer EXCEPT ![h] = IF stopped[h] THEN "end" ELSE "touch"]
    /\ timer' = [timer EXCEPT ![h] = IF stopped[h] THEN 0 ELSE @]
    /\ UNCHANGED <<mapVars, sweep, pc, ver, elapsed, stopped, lag>>

\* RenewLock succeeds: ExpirationMap.Touch on an entry of the helper's version
\* that has not expired; the goroutine sleeps again.
RenewLock(h) ==
    /\ renewer[h] = "touch"
    /\ version[KeyOf[h]] = ver[h]
    /\ ~IsExpire(KeyOf[h])
    /\ left' = [left EXCEPT ![KeyOf[h]] = TTL]
    /\ timer' = [timer EXCEPT ![h] = Interval]
    /\ renewer' = [renewer EXCEPT ![h] = "loop"]
    /\ UNCHANGED <<generation, version, sweep, pc, ver, elapsed, stopped, lag>>

\* Mutant: a failed renewal is tried again at once, stop is not looked at.
RenewFailRetries(h) ==
    /\ renewer[h] = "touch"
    /\ version[KeyOf[h]] # ver[h] \/ IsExpire(KeyOf[h])
    /\ UNCHANGED vars

\* RenewLock fails: the goroutine returns, and tells nobody.
RenewFail(h) ==
    /\ renewer[h] = "touch"
    /\ version[KeyOf[h]] # ver[h] \/ IsExpire(KeyOf[h])
    /\ renewer' = [renewer EXCEPT ![h] = "end"]
    /\ timer' = [timer EXCEPT ![h] = 0]
    /\ UNCHANGED <<mapVars, sweep, pc, ver, elapsed, stopped, lag>>

\* Mutant: Del does not compare versions.
ReleaseLockAnyVersion(h) ==
    /\ pc[h] = "held"
    /\ version' = [version EXCEPT ![KeyOf[h]] = 0]
    /\ left' = [left EXCEPT ![KeyOf[h]] = -1]
    /\ pc' = [pc EXCEPT ![h] = "releasing"]
    /\ UNCHANGED <<generation, sweep, ver, elapsed, renewer, timer, stopped, lag>>

\* ReleaseLock, first call: ExpirationMap.Del with the helper's version.
ReleaseLock(h) ==
    /\ pc[h] = "held"
    /\ version' = [version EXCEPT ![KeyOf[h]] = IF @ = ver[h] THEN 0 ELSE @]
    /\ left' = [left EXCEPT ![KeyOf[h]] = IF version[KeyOf[h]] = ver[h] THEN -1 ELSE @]
    /\ pc' = [pc EXCEPT ![h] = "releasing"]
    /\ UNCHANGED <<generation, sweep, ver, elapsed, renewer, timer, stopped, lag>>

\* Mutant: the helper is used for another Trylock.
StopRenewReuses(h) ==
    /\ pc[h] = "releasing"
    /\ stopped' = [stopped EXCEPT ![h] = TRUE]
    /\ pc' = [pc EXCEPT ![h] = "new"]
    /\ UNCHANGED <<mapVars, sweep, ver, elapsed, renewer, timer, lag>>

\* ReleaseLock, second call: StopRenew closes the stop channel.
StopRenew(h) ==
    /\ pc[h] = "releasing"
    /\ stopped' = [stopped EXCEPT ![h] = TRUE]
    /\ pc' = [pc EXCEPT ![h] = "done"]
    /\ UNCHANGED <<mapVars, sweep, ver, elapsed, renewer, timer, lag>>

\* expireItems, first half: getExpiredKeys under the map's mutex.
GetExpiredKeys ==
    /\ sweep = {}
    /\ \E k \in Keys : IsExpire(k)
    /\ sweep' = {k \in Keys : IsExpire(k)}
    /\ UNCHANGED <<mapVars, helperVars, lag>>

\* Mutant: the callback is called and the entry stays.
ExpireItemKeepsEntry(k) ==
    /\ k \in sweep
    /\ sweep' = sweep \ {k}
    /\ UNCHANGED <<mapVars, helperVars, lag>>

\* expireItem: under the mutex again, the entry is looked at once more.
ExpireItem(k) ==
    /\ k \in sweep
    /\ sweep' = sweep \ {k}
    /\ version' = [version EXCEPT ![k] = IF IsExpire(k) THEN 0 ELSE @]
    /\ UNCHANGED <<generation, left, helperVars, lag>>

\* Some renewal of h is due or will be: h has the lease and has not yet started
\* its goroutine, or the goroutine is alive.
Renewing(h) == pc[h] = "acquired" \/ renewer[h] \in {"loop", "touch"}

Tick ==
    /\ \A h \in Helpers : Renewing(h) => timer[h] > -lag
    /\ left' = [k \in Keys |-> IF left[k] >= 0 THEN left[k] - 1 ELSE left[k]]
    /\ timer' = [h \in Helpers |-> IF Renewing(h) THEN timer[h] - 1 ELSE timer[h]]
    /\ elapsed' = [h \in Helpers |->
                     IF pc[h] = "trying" /\ elapsed[h] <= WaitTimeout
                     THEN elapsed[h] + 1 ELSE elapsed[h]]
    /\ UNCHANGED <<generation, version, sweep, pc, ver, renewer, stopped, lag>>

HelperStep(h) ==
    \/ NewLockHelper(h) \/ AcquireLock(h) \/ Timeout(h) \/ KeepRenewLock(h)
    \/ ReleaseLock(h) \/ StopRenew(h)

RenewerStep(h) == RenewSelect(h) \/ RenewLock(h) \/ RenewFail(h)

Sweep == GetExpiredKeys \/ \E k \in Keys : ExpireItem(k)

Next ==
    \/ \E h \in Helpers : HelperStep(h) \/ RenewerStep(h)
    \/ Sweep
    \/ Tick

\* Goroutines that can run do run, and time goes on.  Nothing makes an action
\* arrive (NewLockHelper) or end (ReleaseLock).
Fairness ==
    /\ \A h \in Helpers :
         /\ WF_vars(AcquireLock(h) \/ Timeout(h))
         /\ WF_vars(KeepRenewLock(h))
         /\ WF_vars(StopRenew(h))
         /\ WF_vars(RenewerStep(h))
    /\ WF_vars(Sweep)
    /\ WF_vars(Tick)

Spec == Init /\ [][Next]_vars
FairSpec == Spec /\ Fairness
------------------------------------------------------------------------------
\* The values the program's state can take.
TypeOK ==
    /\ generation \in Nat
    /\ version \in [Keys -> Nat]
    /\ left \in [Keys -> -1..TTL]
    /\ sweep \in SUBSET Keys
    /\ pc \in [Helpers -> {"new", "trying", "acquired", "held", "releasing", "done", "failed"}]
    /\ ver \in [Helpers -> Nat]
    /\ elapsed \in [Helpers -> 0..(WaitTimeout + 1)]
    /\ renewer \in [Helpers -> {"off", "loop", "touch", "end"}]
    /\ timer \in [Helpers -> (-lag)..TTL]
    /\ stopped \in [Helpers -> BOOLEAN]
    /\ lag \in Lags

\* The action of h runs under the lock.
Running(h) == pc[h] \in {"acquired", "held"}

\* A renewal comes before the lease has run out.
Timely == Interval + lag <= TTL

\* Two actions never run under the same key at once (ActionHandler.execute takes
\* the lock to run the actions of one controller one after the other), if the
\* renewals come in time.
MutualExclusion ==
    Timely => \A g, h \in Helpers : Running(g) /\ Running(h) /\ KeyOf[g] = KeyOf[h] => g = h

\* However late its goroutine is, an action that has lost its lease does no harm
\* to the one that has it now: no two helpers ever carry the same version, so
\* Del and Touch of a late helper miss the entry of its successor.
VersionsDistinct ==
    \A g, h \in Helpers : ver[g] = ver[h] /\ ver[g] # 0 => g = h

\* A lease that has not expired leaves the map only by the ReleaseLock of the
\* helper that took it: never by the sweeper, never by a late helper.
LiveLeaseProtected ==
    [][\A k \in Keys :
         version[k] # 0 /\ ~IsExpire(k) /\ version'[k] # version[k] =>
           /\ version'[k] = 0
           /\ \E h \in Helpers : KeyOf[h] = k /\ ver[h] = version[k] /\ ReleaseLock(h)]_vars

\* The renewal goroutine of an action that is over ends (no goroutine leak),
\* although stop is closed only after the entry is deleted.
RenewerEnds ==
    \A h \in Helpers : pc[h] = "done" ~> renewer[h] = "end"

\* A lease that expired is taken out of the map, so that a lock whose holder
\* stopped renewing does not block its key for good.
ExpiredLeaseSwept ==
    \A k \in Keys : IsExpire(k) ~> ~IsExpire(k)

\* The helpers that the abstract lock is told of: all, if renewals come in time.
holdersOf == [k \in Keys |-> {h \in Helpers : Timely /\ KeyOf[h] = k /\ Running(h)}]
enteredBy == {h \in Helpers : Timely /\ pc[h] \in {"acquired", "held", "releasing", "done"}}
Mutex == INSTANCE ActionMutex WITH holders <- holdersOf, entered <- enteredBy

\* Every step of the lease lock is a step of the mutex or leaves it unchanged, if
\* renewals come in time.
ImplementsMutex == Mutex!MutexSpec
==============================================================================
