---------------------------- MODULE ActionProofs ----------------------------
(***************************************************************************)
(* Proofs about actions that meet: the handler of pod actions, and the     *)
(* lease lock they take.  Each theorem is about the specification of the   *)
(* part itself, for any values of its constants.                           *)
(***************************************************************************)
EXTENDS LeaseLock, HandlerPart, WellFoundedInduction, TLAPS

-----------------------------------------------------------------------------
(* Counting up.                                                            *)

LEMMA Earliest ==
  ASSUME NEW T, T \subseteq Nat, T # {}
  PROVE  \E x \in T : \A y \in T : x <= y
<1> DEFINE R == OpToRel(<, Nat)
<1>1. R = {ss \in Nat \X Nat : ss[1] < ss[2]}
  BY DEF OpToRel
<1>2. IsWellFoundedOn(R, Nat)
  BY NatLessThanWellFounded
<1> HIDE DEF R
<1>3. PICK x \in T : \A y \in T : ~(<<y, x>> \in R)
  BY <1>2, WFMin, Zenon
<1>4. ASSUME NEW y \in T
      PROVE  x <= y
  <2>1. <<y, x>> \in Nat \X Nat /\ ~(<<y, x>> \in R)
    BY <1>3, Zenon
  <2>2. <<y, x>>[1] = y /\ <<y, x>>[2] = x
    BY Zenon
  <2>3. ~(y < x)
    BY <1>1, <2>1, <2>2, Zenon
  <2>4. x \in Nat /\ y \in Nat
    BY Zenon
  <2> QED
    BY <2>3, <2>4
<1> QED
  BY <1>4, Zenon

\* A set of numbers that holds 0 and the successor of each of its members below
\* n holds all numbers up to n.
LEMMA UpTo ==
  ASSUME NEW n \in Nat, NEW S, 0 \in S, \A i \in 0 .. n : i # 0 /\ i - 1 \in S => i \in S
  PROVE  0 .. n \subseteq S
<1> SUFFICES ASSUME (0 .. n) \ S # {} PROVE FALSE
  BY Zenon
<1> DEFINE T == (0 .. n) \ S
<1>1. T \subseteq Nat /\ T # {}
  OBVIOUS
<1>2. PICK x \in T : \A y \in T : x <= y
  BY <1>1, Earliest, Zenon
<1>3. x \in 0 .. n /\ x \notin S /\ x # 0
  BY <1>2, Zenon
<1>4. x - 1 \in 0 .. n /\ ~(x <= x - 1)
  BY <1>3
<1>5. x - 1 \in S
  BY <1>2, <1>4, Zenon
<1> QED
  BY <1>3, <1>5, Zenon

-----------------------------------------------------------------------------
(* The chain of replacements.                                              *)

\* One more replacement, if there is one.
Follow(cache, key) == IF key \in DOMAIN cache THEN cache[key] ELSE key

\* The first n steps of the walk.
IsWalk(f, n, cache, key) ==
  f = [i \in 0 .. n |-> IF i = 0 THEN cache[key] ELSE Follow(cache, f[i - 1])]

LEMMA WalkExists ==
  ASSUME NEW cache, NEW key, NEW n \in Nat
  PROVE  \E f : IsWalk(f, n, cache, key)
<1> DEFINE S == {m \in Nat : \E f : IsWalk(f, m, cache, key)}
<1>1. 0 \in S
  <2> DEFINE g == [i \in 0 .. 0 |-> cache[key]]
  <2>1. g = [i \in 0 .. 0 |-> IF i = 0 THEN cache[key] ELSE Follow(cache, g[i - 1])]
    <3>1. \A i \in 0 .. 0 : i = 0
      OBVIOUS
    <3> QED
      BY <3>1, Zenon
  <2> QED
    BY <2>1, Zenon DEF IsWalk
<1>2. ASSUME NEW m \in 0 .. n, m # 0, m - 1 \in S
      PROVE  m \in S
  <2>1. PICK g : IsWalk(g, m - 1, cache, key)
    BY <1>2, Zenon
  <2> DEFINE f == [i \in 0 .. m |-> IF i <= m - 1 THEN g[i] ELSE Follow(cache, g[m - 1])]
             h == [i \in 0 .. m |-> IF i = 0 THEN cache[key] ELSE Follow(cache, f[i - 1])]
  <2>2. m \in Nat /\ m - 1 \in Nat /\ m >= 1
    BY <1>2
  <2>3. ASSUME NEW i \in 0 .. m
        PROVE  f[i] = h[i]
    <3>1. CASE i = 0
      <4>1. f[i] = g[0] /\ 0 \in 0 .. (m - 1)
        BY <2>2, <3>1
      <4>2. g[0] = cache[key]
        BY <2>1, <4>1, Zenon DEF IsWalk
      <4> QED
        BY <3>1, <4>1, <4>2
    <3>2. CASE i # 0 /\ i <= m - 1
      <4>1. /\ f[i] = g[i] /\ i \in 0 .. (m - 1)
            /\ f[i - 1] = g[i - 1]
            /\ h[i] = Follow(cache, f[i - 1])
        BY <2>2, <3>2
      <4>2. g[i] = Follow(cache, g[i - 1])
        BY <2>1, <3>2, <4>1, Zenon DEF IsWalk
      <4> QED
        BY <4>1, <4>2
    <3>3. CASE i = m
      <4>1. /\ f[i] = Follow(cache, g[m - 1])
            /\ f[i - 1] = g[m - 1]
            /\ h[i] = Follow(cache, f[i - 1])
        BY <2>2, <3>3
      <4> QED
        BY <4>1
    <3>4. i = 0 \/ (i # 0 /\ i <= m - 1) \/ i = m
      BY <2>2, <2>3
    <3> QED
      BY <3>1, <3>2, <3>3, <3>4, Zenon
  <2>4. f = h
    <3>1. f = [i \in 0 .. m |-> f[i]] /\ h = [i \in 0 .. m |-> h[i]]
      OBVIOUS
    <3> HIDE DEF f, h
    <3> QED
      BY <2>3, <3>1
  <2>5. IsWalk(f, m, cache, key)
    BY <2>4, Zenon DEF IsWalk
  <2> QED
    BY <2>2, <2>5, Zenon
<1>3. 0 .. n \subseteq S
  BY <1>1, <1>2, UpTo, Zenon
<1>4. n \in 0 .. n
  OBVIOUS
<1> QED
  BY <1>3, <1>4, Zenon

\* What GetLatestValue returns is the end of a walk of ChainLength steps.
LEMMA LatestIsWalked ==
  ASSUME NEW cache, NEW key
  PROVE  \E f : IsWalk(f, ChainLength, cache, key) /\ PodHandler!GetLatestValue(cache, key) = f[ChainLength]
<1> DEFINE w[i \in 0 .. ChainLength] ==
             IF i = 0 THEN cache[key] ELSE IF w[i - 1] \in DOMAIN cache THEN cache[w[i - 1]] ELSE w[i - 1]
<1>1. \E f : IsWalk(f, ChainLength, cache, key)
  BY WalkExists, HandlerAssumption, Zenon
<1>2. \E f : f = [i \in 0 .. ChainLength |->
                    IF i = 0 THEN cache[key] ELSE IF f[i - 1] \in DOMAIN cache THEN cache[f[i - 1]] ELSE f[i - 1]]
  BY <1>1, Zenon DEF IsWalk, Follow
<1>3. w = [i \in 0 .. ChainLength |->
             IF i = 0 THEN cache[key] ELSE IF w[i - 1] \in DOMAIN cache THEN cache[w[i - 1]] ELSE w[i - 1]]
  BY <1>2, Zenon
<1>4. PodHandler!GetLatestValue(cache, key) = w[ChainLength]
  BY Zenon DEF PodHandler!GetLatestValue
<1>5. IsWalk(w, ChainLength, cache, key)
  BY <1>3, Zenon DEF IsWalk, Follow
<1> QED
  BY <1>4, <1>5, Zenon

\* Each replacement of a series but the last leads to the next one.
Linked(cache, s, last) ==
  \A g \in Nat : g >= 1 /\ g < last => <<s, g>> \in DOMAIN cache /\ cache[<<s, g>>] = <<s, g + 1>>

\* The walk along a complete chain ends at the last replacement.
LEMMA ChainIsFollowed ==
  ASSUME NEW cache, NEW key, NEW s, NEW last \in Nat, last >= 1, last <= ChainLength + 1,
         cache[key] = <<s, 1>>, Linked(cache, s, last),
         <<s, last>> \notin DOMAIN cache
  PROVE  PodHandler!GetLatestValue(cache, key) = <<s, last>>
<1>1. PICK f : IsWalk(f, ChainLength, cache, key) /\ PodHandler!GetLatestValue(cache, key) = f[ChainLength]
  BY LatestIsWalked, Zenon
<1>2. ChainLength \in Nat /\ 0 \in 0 .. ChainLength /\ ChainLength \in 0 .. ChainLength
  BY HandlerAssumption
<1> DEFINE place(i) == IF i + 1 < last THEN i + 1 ELSE last
           S == {i \in 0 .. ChainLength : f[i] = <<s, place(i)>>}
<1>3. 0 \in S
  <2>1. f[0] = <<s, 1>>
    BY <1>1, <1>2, Zenon DEF IsWalk
  <2>2. place(0) = 1
    OBVIOUS
  <2> HIDE DEF place
  <2> QED
    BY <1>2, <2>1, <2>2, Zenon
<1>4. ASSUME NEW i \in 0 .. ChainLength, i # 0, i - 1 \in S
      PROVE  i \in S
  <2>1. f[i] = Follow(cache, f[i - 1])
    BY <1>1, <1>4, Zenon DEF IsWalk
  <2>2. f[i - 1] = <<s, place(i - 1)>>
    BY <1>4, Zenon
  <2>3. CASE place(i - 1) = last
    <3>1. place(i) = last
      BY <1>2, <2>3
    <3>2. f[i] = <<s, last>>
      BY <2>1, <2>2, <2>3, Zenon DEF Follow
    <3> HIDE DEF place
    <3> QED
      BY <3>1, <3>2, Zenon
  <2>4. CASE place(i - 1) # last
    <3>1. i \in Nat /\ i >= 1 /\ i < last /\ place(i - 1) = i /\ place(i) = i + 1
      BY <1>2, <1>4, <2>4
    <3> HIDE DEF place
    <3>2. f[i] = <<s, i + 1>>
      BY <2>1, <2>2, <3>1, Zenon DEF Follow, Linked
    <3> QED
      BY <3>1, <3>2, Zenon
  <2> QED
    BY <2>3, <2>4, Zenon
<1>5. 0 .. ChainLength \subseteq S
  BY <1>2, <1>3, <1>4, UpTo, Zenon
<1>6. f[ChainLength] = <<s, place(ChainLength)>>
  BY <1>2, <1>5, Zenon
<1>7. place(ChainLength) = last
  BY <1>2
<1> HIDE DEF place
<1> QED
  BY <1>1, <1>6, <1>7, Zenon

\* A walk stays in a set that its links do not leave.
LEMMA WalkStays ==
  ASSUME NEW cache, NEW key, NEW V, cache[key] \in V, \A v \in V : v \in DOMAIN cache => cache[v] \in V
  PROVE  PodHandler!GetLatestValue(cache, key) \in V
<1>1. PICK f : IsWalk(f, ChainLength, cache, key) /\ PodHandler!GetLatestValue(cache, key) = f[ChainLength]
  BY LatestIsWalked, Zenon
<1>2. ChainLength \in Nat /\ 0 \in 0 .. ChainLength /\ ChainLength \in 0 .. ChainLength
  BY HandlerAssumption
<1> DEFINE S == {i \in 0 .. ChainLength : f[i] \in V}
<1>3. 0 \in S
  BY <1>1, <1>2, Zenon DEF IsWalk
<1>4. ASSUME NEW i \in 0 .. ChainLength, i # 0, i - 1 \in S
      PROVE  i \in S
  <2>1. f[i] = Follow(cache, f[i - 1])
    BY <1>1, <1>4, Zenon DEF IsWalk
  <2> QED
    BY <1>4, <2>1, Zenon DEF Follow
<1>5. 0 .. ChainLength \subseteq S
  BY <1>2, <1>3, <1>4, UpTo, Zenon
<1> QED
  BY <1>1, <1>2, <1>5, Zenon

-----------------------------------------------------------------------------
(* The handler of pod actions                                              *)

\* What the lock of the action's target is called.
TargetKey(a) == <<IF scene.bare THEN "image" ELSE scene.target[a].series, 0>>

\* An action that waits for a lock or holds one has the key of its target, and
\* no two hold locks of one key.
HandlerInv ==
  /\ DOMAIN action = PodActionIds
  /\ \A a \in PodActionIds : DOMAIN action[a] = {"at", "key", "pod", "new"}
  /\ \A a \in PodActionIds :
       action[a].at = "lock" \/ PodHandler!Holds(a) => action[a].key = TargetKey(a)
  /\ \A a, b \in PodActionIds :
       a # b /\ PodHandler!Holds(a) /\ PodHandler!Holds(b) => action[a].key # action[b].key

LEMMA RelatedPodOfSeries ==
  ASSUME NEW a, NEW p \in PodHandler!GetRelatedPod(a)
  PROVE  PodHandler!GetPodLockKey(p) = TargetKey(a)
<1>1. p.series = scene.target[a].series
  BY Zenon DEF PodHandler!GetRelatedPod, PodHandler!GetRunningPod, PodHandler!ByName, PodHandler!ByUid,
         PodHandler!First
<1> QED
  BY <1>1, Zenon DEF PodHandler!GetPodLockKey, TargetKey

\* A step of one action that takes no lock: where it goes, it has the key it
\* needs, and it holds no lock that it did not hold.
LEMMA ActionStep ==
  ASSUME HandlerInv, NEW a \in PodActionIds, UNCHANGED scene, NEW r, action' = [action EXCEPT ![a] = r],
         DOMAIN r = {"at", "key", "pod", "new"},
         r.at \in {"lock", "pod", "work", "output", "release"} => r.key = TargetKey(a),
         r.at \in {"pod", "work", "output", "release"} =>
           \A b \in PodActionIds \ {a} : PodHandler!Holds(b) => action[b].key # r.key
  PROVE  HandlerInv'
<1>1. action'[a] = r /\ DOMAIN action' = PodActionIds /\ \A b \in PodActionIds \ {a} : action'[b] = action[b]
  BY Zenon DEF HandlerInv
<1>2. \A b : TargetKey(b)' = TargetKey(b)
  BY Zenon DEF TargetKey
<1> QED
  BY <1>1, <1>2, Zenon DEF HandlerInv, PodHandler!Holds

\* An action ends without a lock.
LEMMA EndStep ==
  ASSUME HandlerInv, NEW a \in PodActionIds, UNCHANGED scene,
         NEW at \in {"rejected", "failed", "notFound", "done"}, PodHandler!End(a, at)
  PROVE  HandlerInv'
<1> DEFINE r == [at |-> at, key |-> <<"image", 0>>, pod |-> PodHandler!NoPod, new |-> PodHandler!NoPod]
<1>1. DOMAIN r = {"at", "key", "pod", "new"} /\ r.at = at
  BY Zenon
<1>2. action' = [action EXCEPT ![a] = r]
  BY Zenon DEF PodHandler!End
<1> HIDE DEF r
<1> QED
  BY <1>1, <1>2, ActionStep, Zenon

\* An action that holds its lock goes on.
LEMMA HolderStep ==
  ASSUME HandlerInv, NEW a \in PodActionIds, UNCHANGED scene, PodHandler!Holds(a),
         NEW r, action' = [action EXCEPT ![a] = r], DOMAIN r = {"at", "key", "pod", "new"},
         r.key = action[a].key
  PROVE  HandlerInv'
<1>1. action[a].key = TargetKey(a)
  BY Zenon DEF HandlerInv
<1>2. \A b \in PodActionIds \ {a} : PodHandler!Holds(b) => action[b].key # r.key
  BY Zenon DEF HandlerInv
<1> QED
  BY <1>1, <1>2, ActionStep, Zenon

LEMMA HandlerStep ==
  ASSUME HandlerInv, NEW a \in PodActionIds, PodHandler!Handler(a)
  PROVE  HandlerInv'
<1>0. UNCHANGED scene /\ DOMAIN action[a] = {"at", "key", "pod", "new"} /\ a \in DOMAIN action
  BY Zenon DEF HandlerInv, PodHandler!Handler, PodHandler!CheckActionExecutionDTO, PodHandler!ExecuteAction,
         PodHandler!GetLockKey, PodHandler!GetLockHelper, PodHandler!Dispatch, PodHandler!Work,
         PodHandler!ProcessOutput, PodHandler!Return
<1>1. CASE PodHandler!CheckActionExecutionDTO(a)
  BY <1>0, <1>1, EndStep, Zenon DEF PodHandler!CheckActionExecutionDTO
<1>2. CASE PodHandler!ExecuteAction(a)
  <2> DEFINE r == [action[a] EXCEPT !.at = "key"]
  <2>1. action' = [action EXCEPT ![a] = r] /\ DOMAIN r = {"at", "key", "pod", "new"} /\ r.at = "key"
    BY <1>0, <1>2, Zenon DEF PodHandler!ExecuteAction
  <2> HIDE DEF r
  <2> QED
    BY <1>0, <2>1, ActionStep, Zenon
<1>3. CASE PodHandler!GetLockKey(a)
  <2>1. CASE PodHandler!End(a, "failed")
    BY <1>0, <2>1, EndStep, Zenon
  <2>2. ASSUME NEW p \in PodHandler!GetRelatedPod(a),
               action' = [action EXCEPT ![a].at = "lock", ![a].key = PodHandler!GetPodLockKey(p)]
        PROVE  HandlerInv'
    <3> DEFINE r == [action[a] EXCEPT !.at = "lock", !.key = TargetKey(a)]
    <3>1. action' = [action EXCEPT ![a] = r]
      BY <1>0, <2>2, RelatedPodOfSeries, Zenon
    <3>2. DOMAIN r = {"at", "key", "pod", "new"} /\ r.at = "lock" /\ r.key = TargetKey(a)
      BY <1>0, Zenon
    <3> HIDE DEF r
    <3> QED
      BY <1>0, <3>1, <3>2, ActionStep, Zenon
  <2> QED
    BY <1>3, <2>1, <2>2, Zenon DEF PodHandler!GetLockKey
<1>4. CASE PodHandler!GetLockHelper(a)
  <2>1. CASE PodHandler!End(a, "failed")
    BY <1>0, <2>1, EndStep, Zenon
  <2>2. CASE /\ ~\E b \in PodActionIds : PodHandler!Holds(b) /\ action[b].key = action[a].key
             /\ action' = [action EXCEPT ![a].at = "pod"]
    <3> DEFINE r == [action[a] EXCEPT !.at = "pod"]
    <3>1. action' = [action EXCEPT ![a] = r]
      BY <1>0, <2>2, Zenon
    <3>2. DOMAIN r = {"at", "key", "pod", "new"} /\ r.at = "pod" /\ r.key = action[a].key
      BY <1>0, Zenon
    <3>3. action[a].key = TargetKey(a)
      BY <1>4, Zenon DEF PodHandler!GetLockHelper, PodHandler!At, HandlerInv
    <3> HIDE DEF r
    <3> QED
      BY <1>0, <2>2, <3>1, <3>2, <3>3, ActionStep, ZenonT(30)
  <2> QED
    BY <1>4, <2>1, <2>2, Zenon DEF PodHandler!GetLockHelper
<1>5. CASE PodHandler!Dispatch(a)
  <2>1. CASE PodHandler!End(a, "failed") \/ PodHandler!End(a, "notFound")
    BY <1>0, <2>1, EndStep, Zenon
  <2>2. ASSUME NEW p, action' = [action EXCEPT ![a].at = "work", ![a].pod = p] PROVE HandlerInv'
    <3> DEFINE r == [action[a] EXCEPT !.at = "work", !.pod = p]
    <3>1. action' = [action EXCEPT ![a] = r]
      BY <1>0, <2>2, Zenon
    <3>2. DOMAIN r = {"at", "key", "pod", "new"} /\ r.key = action[a].key
      BY <1>0, Zenon
    <3>3. PodHandler!Holds(a)
      BY <1>5, Zenon DEF PodHandler!Dispatch, PodHandler!At, PodHandler!Holds
    <3> HIDE DEF r
    <3> QED
      BY <1>0, <3>1, <3>2, <3>3, HolderStep, Zenon
  <2> QED
    BY <1>5, <2>1, <2>2, Zenon DEF PodHandler!Dispatch
<1>6. CASE PodHandler!Work(a)
  <2>0. PodHandler!Holds(a)
    BY <1>6, Zenon DEF PodHandler!Work, PodHandler!At, PodHandler!Holds
  <2>1. CASE PodHandler!End(a, "failed")
    BY <1>0, <2>1, EndStep, Zenon
  <2>2. CASE action' = [action EXCEPT ![a].at = "release"]
    <3> DEFINE r == [action[a] EXCEPT !.at = "release"]
    <3>1. action' = [action EXCEPT ![a] = r]
      BY <1>0, <2>2, Zenon
    <3>2. DOMAIN r = {"at", "key", "pod", "new"} /\ r.key = action[a].key
      BY <1>0, Zenon
    <3> HIDE DEF r
    <3> QED
      BY <1>0, <2>0, <3>1, <3>2, HolderStep, Zenon
  <2>3. ASSUME NEW new, action' = [action EXCEPT ![a].at = "output", ![a].new = new] PROVE HandlerInv'
    <3> DEFINE r == [action[a] EXCEPT !.at = "output", !.new = new]
    <3>1. action' = [action EXCEPT ![a] = r]
      BY <1>0, <2>3, Zenon
    <3>2. DOMAIN r = {"at", "key", "pod", "new"} /\ r.key = action[a].key
      BY <1>0, Zenon
    <3> HIDE DEF r
    <3> QED
      BY <1>0, <2>0, <3>1, <3>2, HolderStep, Zenon
  <2> QED
    BY <1>6, <2>1, <2>2, <2>3, Zenon DEF PodHandler!Work
<1>7. CASE PodHandler!ProcessOutput(a)
  <2> DEFINE r == [action[a] EXCEPT !.at = "release"]
  <2>1. action' = [action EXCEPT ![a] = r]
    BY <1>0, <1>7, Zenon DEF PodHandler!ProcessOutput
  <2>2. DOMAIN r = {"at", "key", "pod", "new"} /\ r.key = action[a].key
    BY <1>0, Zenon
  <2>3. PodHandler!Holds(a)
    BY <1>7, Zenon DEF PodHandler!ProcessOutput, PodHandler!At, PodHandler!Holds
  <2> HIDE DEF r
  <2> QED
    BY <1>0, <2>1, <2>2, <2>3, HolderStep, Zenon
<1>8. CASE PodHandler!Return(a)
  BY <1>0, <1>8, EndStep, Zenon DEF PodHandler!Return
<1> QED
  BY <1>1, <1>2, <1>3, <1>4, <1>5, <1>6, <1>7, <1>8, Zenon DEF PodHandler!Handler

(* Actions on one pod and its replacements exclude each other, though an   *)
(* action finds its lock by the pod of the moment and that pod may be      *)
(* replaced while it waits (getLockKey, getLockHelper, execute).           *)
THEOREM SeriesHasOneAction == PodHandler!Spec => []OneActionPerSeries
<1>1. PodHandler!Init => HandlerInv
  BY DEF PodHandler!Init, PodHandler!Holds, HandlerInv
<1>2. HandlerInv /\ [PodHandler!Next]_(PodHandler!vars) => HandlerInv'
  <2> SUFFICES ASSUME HandlerInv, [PodHandler!Next]_(PodHandler!vars) PROVE HandlerInv'
    BY Zenon
  <2>1. ASSUME NEW a \in PodActionIds, PodHandler!Handler(a) PROVE HandlerInv'
    BY <2>1, HandlerStep, Zenon
  <2>2. CASE UNCHANGED <<scene, action>>
    BY <2>2 DEF HandlerInv, PodHandler!Holds, TargetKey
  <2> QED
    BY <2>1, <2>2, Zenon DEF PodHandler!Next, PodHandler!Report, PodHandler!AwaitStop, PodHandler!Terminate,
                      PodHandler!Expire, PodHandler!Rest, PodHandler!vars
<1>3. HandlerInv => OneActionPerSeries
  BY DEF HandlerInv, TargetKey, OneActionPerSeries, PodHandler!OneActionPerSeries, PodHandler!Working,
         PodHandler!Holds
<1> QED
  BY <1>1, <1>2, <1>3, PTL DEF PodHandler!Spec

-----------------------------------------------------------------------------
(* The pod of today.                                                       *)

\* The pods of all series start with this name.
Web == <<"web", 0>>

Last(s) == PodHandler!LastGeneration(s)

\* A replacement of a pod of s is there and not in the cache yet.
Pending(s) == \E a \in PodActionIds : action[a].at = "output" /\ scene.target[a].series = s

\* The m-th replacement of s is there, and no later one.
Top(s, m) == [series |-> s, gen |-> m] \in pods /\ \A p \in pods : p.series = s => p.gen <= m

PodTypes ==
  /\ scene \in PodScenarios
  /\ pods \subseteq [series : PodSeries, gen : Nat]
  /\ \A s \in PodSeries : \E m \in Nat : Top(s, m)

\* From the given generation on the cache leads from each pod of s to the next,
\* up to the newest, but for a link that is pending.
Chain(cache, s, from) ==
  \A g \in Nat : g >= from =>
    /\ <<s, g>> \in DOMAIN cache => g < Last(s) /\ cache[<<s, g>>] = <<s, g + 1>>
    /\ g < Last(s) => <<s, g>> \in DOMAIN cache \/ (g + 1 = Last(s) /\ Pending(s))

ChainsInv ==
  \A s \in PodSeries : PodHandler!Reachable(s) =>
    /\ Chain(uidCache, s, 0) /\ Chain(nameCache, s, 1)
    /\ Last(s) > 0 => Web \in DOMAIN nameCache \/ (Last(s) = 1 /\ Pending(s))

\* The first name leads to a replacement in some series; a later one, in its
\* own series.
NamesInv ==
  /\ Web \in DOMAIN nameCache =>
       \E s \in PodSeries, h \in Nat :
         /\ h >= 1 /\ nameCache[Web] = <<s, h>> /\ Last(s) > 0
         /\ PodHandler!Reachable(s) => h = 1
  /\ \A n \in DOMAIN nameCache \ {Web} :
       \E s \in PodSeries, g, h \in Nat : g >= 1 /\ h >= 1 /\ n = <<s, g>> /\ nameCache[n] = <<s, h>>

\* What an action knows of its pod at each point.
KnowsPod(a) ==
  LET s == scene.target[a].series IN
  /\ action[a].at \in {"work", "output"} => action[a].pod \in [series : {s}, gen : Nat]
  /\ action[a].at = "work" /\ PodHandler!Reachable(s) => action[a].pod = PodHandler!Newest(s)
  /\ action[a].at = "output" =>
       /\ action[a].new = PodHandler!Newest(s) /\ Last(s) > 0
       /\ PodHandler!Reachable(s) => action[a].pod.gen + 1 = Last(s)
  /\ action[a].at = "notFound" /\ PodHandler!Reachable(s) =>
       ~scene.target[a].truncated /\ \E t \in PodSeries \ {s} : Last(t) > 0

PodInv == PodTypes /\ ChainsInv /\ NamesInv /\ \A a \in PodActionIds : KnowsPod(a)

\* The largest generation of a series among some pods.
Largest(P, s) ==
  CHOOSE g \in {p.gen : p \in {q \in P : q.series = s}} : \A h \in {p.gen : p \in {q \in P : q.series = s}} : h <= g

LEMMA LargestIs ==
  ASSUME NEW P, NEW s, NEW m \in Nat, \A p \in P : p.series = s => p.gen \in Nat /\ p.gen <= m,
         \E p \in P : p.series = s /\ p.gen = m
  PROVE  Largest(P, s) = m
<1> DEFINE G == {p.gen : p \in {q \in P : q.series = s}}
           best == CHOOSE g \in G : \A h \in G : h <= g
<1>1. m \in G /\ \A h \in G : h \in Nat /\ h <= m
  BY Zenon
<1>2. best \in G /\ \A h \in G : h <= best
  <2> HIDE DEF G
  <2> QED
    BY <1>1, Zenon
<1>3. best \in Nat /\ best <= m /\ m <= best
  BY <1>1, <1>2, Zenon
<1> HIDE DEF G, best
<1>4. best = m
  BY <1>3
<1> QED
  BY <1>4, Zenon DEF best, G, Largest

LEMMA LastIs ==
  ASSUME pods \subseteq [series : PodSeries, gen : Nat], NEW s, NEW m \in Nat, Top(s, m)
  PROVE  Last(s) = m
<1>1. \A p \in pods : p.series = s => p.gen \in Nat /\ p.gen <= m
  BY Zenon DEF Top
<1>2. \E p \in pods : p.series = s /\ p.gen = m
  <2>1. [series |-> s, gen |-> m].series = s /\ [series |-> s, gen |-> m].gen = m
    BY Zenon
  <2> QED
    BY <2>1, Zenon DEF Top
<1>3. Largest(pods, s) = m
  BY <1>1, <1>2, LargestIs, Zenon
<1> QED
  BY <1>3, Zenon DEF Largest, Last, PodHandler!LastGeneration, PodHandler!Generations

LEMMA LastIsNext ==
  ASSUME pods' \subseteq [series : PodSeries, gen : Nat], NEW s, NEW m \in Nat, Top(s, m)'
  PROVE  Last(s)' = m
<1>1. \A p \in pods' : p.series = s => p.gen \in Nat /\ p.gen <= m
  BY Zenon DEF Top
<1>2. \E p \in pods' : p.series = s /\ p.gen = m
  <2>1. [series |-> s, gen |-> m].series = s /\ [series |-> s, gen |-> m].gen = m
    BY Zenon
  <2> QED
    BY <2>1, Zenon DEF Top
<1>3. Largest(pods', s) = m
  BY <1>1, <1>2, LargestIs, Zenon
<1> QED
  BY <1>3, Zenon DEF Largest, Last, PodHandler!LastGeneration, PodHandler!Generations

\* Every series has a newest pod.
LEMMA NewestIs ==
  ASSUME PodTypes, NEW s \in PodSeries
  PROVE  /\ Last(s) \in Nat /\ Top(s, Last(s))
         /\ PodHandler!Newest(s) = [series |-> s, gen |-> Last(s)]
<1>1. PICK m \in Nat : Top(s, m)
  BY Zenon DEF PodTypes
<1>2. Last(s) = m
  BY <1>1, LastIs, Zenon DEF PodTypes
<1> QED
  BY <1>1, <1>2, Zenon DEF PodHandler!Newest, Last

LEMMA NewestIsNext ==
  ASSUME PodTypes', NEW s \in PodSeries
  PROVE  Last(s)' \in Nat /\ PodHandler!Newest(s)' = [series |-> s, gen |-> Last(s)']
<1>1. PICK m \in Nat : Top(s, m)'
  BY Zenon DEF PodTypes
<1>2. Last(s)' = m
  BY <1>1, LastIsNext, Zenon DEF PodTypes
<1> QED
  BY <1>2, Zenon DEF PodHandler!Newest, Last

LEMMA TargetIsSeries ==
  ASSUME PodTypes, NEW a \in PodActionIds
  PROVE  scene.target[a].series \in PodSeries
  BY HandlerAssumption, Zenon DEF PodTypes

\* A series that can be followed could be followed before.
LEMMA StillReachable ==
  ASSUME PodTypes, PodTypes', NEW s \in PodSeries, expired \subseteq expired', Last(s) <= Last(s)',
         PodHandler!Reachable(s)'
  PROVE  PodHandler!Reachable(s)
<1>1. Last(s) \in Nat /\ Last(s)' \in Nat /\ ChainLength \in Nat
  BY NewestIs, NewestIsNext, HandlerAssumption, Zenon
<1>2. s \notin expired /\ Last(s)' <= ChainLength + 1
  BY Zenon DEF PodHandler!Reachable, Last
<1>3. Last(s) <= ChainLength + 1
  BY <1>1, <1>2
<1> QED
  BY <1>2, <1>3, Zenon DEF PodHandler!Reachable, Last

\* Without a pending link a chain is complete.
LEMMA ChainIsLinked ==
  ASSUME PodTypes, NEW s \in PodSeries, NEW cache, NEW from \in {0, 1}, Chain(cache, s, from), ~Pending(s)
  PROVE  /\ Linked(cache, s, Last(s))
         /\ Last(s) >= from => <<s, Last(s)>> \notin DOMAIN cache
         /\ from = 0 /\ Last(s) # 0 => <<s, 0>> \in DOMAIN cache /\ cache[<<s, 0>>] = <<s, 1>>
         /\ from = 0 /\ Last(s) = 0 => <<s, 0>> \notin DOMAIN cache
<1>1. Last(s) \in Nat
  BY NewestIs, Zenon
<1>2. ASSUME NEW g \in Nat, g >= from
      PROVE  /\ <<s, g>> \in DOMAIN cache => g < Last(s) /\ cache[<<s, g>>] = <<s, g + 1>>
             /\ g < Last(s) => <<s, g>> \in DOMAIN cache
  BY <1>2, Zenon DEF Chain
<1>3. Linked(cache, s, Last(s))
  <2> SUFFICES ASSUME NEW g \in Nat, g >= 1, g < Last(s)
               PROVE  <<s, g>> \in DOMAIN cache /\ cache[<<s, g>>] = <<s, g + 1>>
    BY Zenon DEF Linked
  <2>1. g >= from
    OBVIOUS
  <2> QED
    BY <1>2, <2>1, Zenon
<1>4. ASSUME Last(s) >= from PROVE <<s, Last(s)>> \notin DOMAIN cache
  <2>1. ~(Last(s) < Last(s))
    BY <1>1
  <2> QED
    BY <1>1, <1>2, <1>4, <2>1, Zenon
<1>5. ASSUME from = 0
      PROVE  /\ Last(s) # 0 => <<s, 0>> \in DOMAIN cache /\ cache[<<s, 0>>] = <<s, 1>>
             /\ Last(s) = 0 => <<s, 0>> \notin DOMAIN cache
  <2>1. 0 \in Nat /\ 0 >= from /\ 0 + 1 = 1 /\ (0 < Last(s) <=> Last(s) # 0)
    BY <1>1, <1>5
  <2> QED
    BY <1>2, <2>1, Zenon
<1> QED
  BY <1>3, <1>4, <1>5, Zenon

\* The pod of a series with a name, or with a uid.
LEMMA PodsByName ==
  ASSUME PodTypes, NEW s \in PodSeries
  PROVE  /\ \A k \in Nat : k # 0 => \A p \in PodHandler!ByName(s, <<s, k>>) : p = [series |-> s, gen |-> k]
         /\ \A t : \A k \in Nat : t # s /\ k # 0 => PodHandler!ByName(s, <<t, k>>) = {}
         /\ \A p \in PodHandler!ByName(s, Web) : p = [series |-> s, gen |-> 0]
         /\ PodHandler!ByName(s, <<"we", 0>>) = {}
         /\ \A k : \A p \in PodHandler!ByUid(s, <<s, k>>) : p = [series |-> s, gen |-> k]
         /\ Last(s) # 0 => PodHandler!Newest(s) \in PodHandler!ByName(s, <<s, Last(s)>>)
         /\ Last(s) = 0 => PodHandler!Newest(s) \in PodHandler!ByName(s, Web)
         /\ PodHandler!Newest(s) \in PodHandler!ByUid(s, <<s, Last(s)>>)
<1>1. \A p \in pods : p = [series |-> p.series, gen |-> p.gen] /\ p.gen \in Nat
  BY DEF PodTypes
<1>2. /\ PodHandler!Newest(s) = [series |-> s, gen |-> Last(s)] /\ PodHandler!Newest(s) \in pods
      /\ PodHandler!Newest(s).series = s /\ PodHandler!Newest(s).gen = Last(s)
  <2>1. PodHandler!Newest(s) = [series |-> s, gen |-> Last(s)] /\ PodHandler!Newest(s) \in pods
    BY NewestIs, Zenon DEF Top
  <2> QED
    BY <2>1
<1>3. ASSUME NEW n, NEW p \in PodHandler!ByName(s, n)
      PROVE  /\ p = [series |-> s, gen |-> p.gen]
             /\ IF p.gen = 0 THEN n = Web ELSE n = <<s, p.gen>>
  BY <1>1, Zenon DEF PodHandler!ByName, PodHandler!NameOf, Web
<1>4. \A i, j, k, l : <<i, j>> = <<k, l>> => i = k /\ j = l
  OBVIOUS
<1>5. ASSUME NEW k \in Nat, k # 0, NEW p \in PodHandler!ByName(s, <<s, k>>)
      PROVE  p = [series |-> s, gen |-> k]
  <2>1. /\ p = [series |-> s, gen |-> p.gen]
        /\ IF p.gen = 0 THEN <<s, k>> = <<"web", 0>> ELSE <<s, k>> = <<s, p.gen>>
    BY <1>3, <1>5, Zenon DEF Web
  <2>2. k = p.gen
    BY <1>4, <1>5, <2>1, Zenon
  <2> QED
    BY <2>1, <2>2, Zenon
<1>6. ASSUME NEW t, NEW k \in Nat, t # s, k # 0, PodHandler!ByName(s, <<t, k>>) # {}
      PROVE  FALSE
  BY <1>3, <1>4, <1>6, Zenon DEF Web
<1>7. ASSUME NEW p \in PodHandler!ByName(s, Web)
      PROVE  p = [series |-> s, gen |-> 0]
  <2>1. /\ p = [series |-> s, gen |-> p.gen]
        /\ p.gen = 0 \/ <<"web", 0>> = <<s, p.gen>>
    BY <1>3, <1>7, Zenon DEF Web
  <2>2. p.gen = 0
    BY <1>4, <2>1, Zenon
  <2> QED
    BY <2>1, <2>2, Zenon
<1>8. ASSUME PodHandler!ByName(s, <<"we", 0>>) # {}
      PROVE  FALSE
  <2>1. "we" # "web"
    OBVIOUS
  <2> QED
    BY <1>3, <1>4, <1>8, <2>1, Zenon DEF Web
<1>9. ASSUME NEW k, NEW p \in PodHandler!ByUid(s, <<s, k>>)
      PROVE  p = [series |-> s, gen |-> k]
  BY <1>1, <1>4, Zenon DEF PodHandler!ByUid, PodHandler!UidOf
<1>10. PodHandler!Newest(s) \in PodHandler!ByUid(s, <<s, Last(s)>>)
  BY <1>2, Zenon DEF PodHandler!ByUid, PodHandler!UidOf
<1>11. /\ Last(s) # 0 => PodHandler!Newest(s) \in PodHandler!ByName(s, <<s, Last(s)>>)
       /\ Last(s) = 0 => PodHandler!Newest(s) \in PodHandler!ByName(s, Web)
  BY <1>2, Zenon DEF PodHandler!ByName, PodHandler!NameOf, Web
<1> QED
  BY <1>5, <1>6, <1>7, <1>8, <1>9, <1>10, <1>11, Zenon

\* While no link is pending, the lookup by an action finds the newest pod of its
\* series, or none if the first name leads into another series.
LEMMA FindsNewest ==
  ASSUME PodTypes, ChainsInv, NamesInv, NEW a \in PodActionIds,
         PodHandler!Reachable(scene.target[a].series), ~Pending(scene.target[a].series)
  PROVE  \/ PodHandler!GetRelatedPod(a) = {PodHandler!Newest(scene.target[a].series)}
         \/ /\ PodHandler!GetRelatedPod(a) = {} /\ ~scene.target[a].truncated
            /\ \E t \in PodSeries \ {scene.target[a].series} : Last(t) > 0
<1> DEFINE s == scene.target[a].series
           new == PodHandler!Newest(s)
           Found(n) == PodHandler!GetRunningPod(s, n, <<s, 0>>)
<1>1. s \in PodSeries /\ Last(s) \in Nat /\ new = [series |-> s, gen |-> Last(s)]
  BY TargetIsSeries, NewestIs, Zenon
<1>2. Last(s) <= ChainLength + 1
  BY Zenon DEF PodHandler!Reachable, Last
<1>3. Chain(uidCache, s, 0) /\ Chain(nameCache, s, 1) /\ (Last(s) > 0 => Web \in DOMAIN nameCache)
  BY <1>1, Zenon DEF ChainsInv
<1>4. PodHandler!GetRelatedPod(a) = Found(IF scene.target[a].truncated THEN <<"we", 0>> ELSE Web)
  <2>1. /\ PodHandler!First(s).series = s /\ PodHandler!NameOf(PodHandler!First(s)) = Web
        /\ PodHandler!UidOf(PodHandler!First(s)) = <<s, 0>>
    BY Zenon DEF PodHandler!First, PodHandler!NameOf, PodHandler!UidOf, Web
  <2> QED
    BY <2>1, Zenon DEF PodHandler!GetRelatedPod
<1>5. /\ Linked(uidCache, s, Last(s)) /\ <<s, Last(s)>> \notin DOMAIN uidCache
      /\ Last(s) # 0 => <<s, 0>> \in DOMAIN uidCache /\ uidCache[<<s, 0>>] = <<s, 1>>
      /\ Last(s) = 0 => <<s, 0>> \notin DOMAIN uidCache
  <2>1. Last(s) >= 0 /\ 0 \in {0, 1}
    BY <1>1
  <2> HIDE DEF s
  <2>2. ~Pending(s)
    BY Zenon DEF s
  <2> QED
    BY <1>1, <1>3, <2>1, <2>2, ChainIsLinked, Zenon
<1>6. Linked(nameCache, s, Last(s)) /\ (Last(s) # 0 => <<s, Last(s)>> \notin DOMAIN nameCache)
  <2>1. (Last(s) # 0 => Last(s) >= 1) /\ 1 \in {0, 1}
    BY <1>1
  <2> HIDE DEF s
  <2>2. ~Pending(s)
    BY Zenon DEF s
  <2> QED
    BY <1>1, <1>3, <2>1, <2>2, ChainIsLinked, Zenon
<1> HIDE DEF s, new, Found
<1>7. CASE scene.target[a].truncated
  <2>1. <<"we", 0>> \notin DOMAIN nameCache
    <3>1. <<"we", 0>> # Web
      BY DEF Web
    <3>2. \A t, g : g \in Nat /\ g >= 1 => <<"we", 0>> # <<t, g>>
      OBVIOUS
    <3> QED
      BY <3>1, <3>2, Zenon DEF NamesInv
  <2>2. PodHandler!ByName(s, <<"we", 0>>) = {}
    BY <1>1, PodsByName, Zenon
  <2>3. CASE Last(s) = 0
    <3>1. Found(<<"we", 0>>) = PodHandler!ByUid(s, <<s, Last(s)>>)
      BY <1>5, <2>1, <2>2, <2>3, Zenon DEF Found, PodHandler!GetRunningPod
    <3>2. PodHandler!ByUid(s, <<s, Last(s)>>) = {new}
      BY <1>1, PodsByName, Zenon DEF new
    <3> QED
      BY <1>4, <1>7, <3>1, <3>2, Zenon DEF s, new
  <2>4. CASE Last(s) # 0
    <3>1. Last(s) >= 1
      BY <1>1, <2>4
    <3>2. PodHandler!GetLatestValue(uidCache, <<s, 0>>) = <<s, Last(s)>>
      BY <1>1, <1>2, <1>5, <2>4, <3>1, ChainIsFollowed, ZenonT(30)
    <3>3. Found(<<"we", 0>>) = PodHandler!ByUid(s, <<s, Last(s)>>)
      BY <1>5, <2>1, <2>2, <2>4, <3>2, Zenon DEF Found, PodHandler!GetRunningPod
    <3>4. PodHandler!ByUid(s, <<s, Last(s)>>) = {new}
      BY <1>1, PodsByName, Zenon DEF new
    <3> QED
      BY <1>4, <1>7, <3>3, <3>4, Zenon DEF s, new
  <2> QED
    BY <2>3, <2>4, Zenon
<1>8. CASE ~scene.target[a].truncated /\ Web \notin DOMAIN nameCache
  <2>1. Last(s) = 0
    BY <1>1, <1>3, <1>8
  <2>2. PodHandler!ByName(s, Web) = {new}
    BY <1>1, <2>1, PodsByName, Zenon DEF new
  <2>3. Found(Web) = {new}
    BY <1>8, <2>2, Zenon DEF Found, PodHandler!GetRunningPod
  <2> QED
    BY <1>4, <1>8, <2>3, Zenon DEF s, new
<1>9. CASE ~scene.target[a].truncated /\ Web \in DOMAIN nameCache
  <2>1. PICK t \in PodSeries, h \in Nat : /\ h >= 1 /\ nameCache[Web] = <<t, h>> /\ Last(t) > 0
                                          /\ PodHandler!Reachable(t) => h = 1
    BY <1>9, Zenon DEF NamesInv
  <2>2. Found(Web) = PodHandler!ByName(s, PodHandler!GetLatestValue(nameCache, Web))
    BY <1>9, Zenon DEF Found, PodHandler!GetRunningPod
  <2>3. CASE t = s
    <3>1. Last(s) >= 1 /\ Last(s) # 0
      BY <1>1, <2>1, <2>3
    <3>2. nameCache[Web] = <<s, 1>>
      BY <2>1, <2>3, Zenon DEF s
    <3>3. PodHandler!GetLatestValue(nameCache, Web) = <<s, Last(s)>>
      BY <1>1, <1>2, <1>6, <3>1, <3>2, ChainIsFollowed, ZenonT(30)
    <3>4. PodHandler!ByName(s, <<s, Last(s)>>) = {new}
      BY <1>1, <3>1, PodsByName, ZenonT(30) DEF new
    <3> QED
      BY <1>4, <1>9, <2>2, <3>3, <3>4, Zenon DEF s, new
  <2>4. CASE t # s
    <3> DEFINE V == {<<t, k>> : k \in Nat \ {0}}
    <3>1. nameCache[Web] \in V
      <4>1. h # 0
        BY <2>1
      <4> QED
        BY <2>1, <4>1, Zenon
    <3>2. ASSUME NEW v \in V, v \in DOMAIN nameCache
          PROVE  nameCache[v] \in V
      <4>1. PICK k \in Nat \ {0} : v = <<t, k>>
        BY <3>2, Zenon
      <4>2. v # Web
        BY <4>1 DEF Web
      <4>3. PICK u \in PodSeries, g \in Nat, j \in Nat :
               g >= 1 /\ j >= 1 /\ v = <<u, g>> /\ nameCache[v] = <<u, j>>
        <5>1. v \in DOMAIN nameCache \ {Web}
          BY <3>2, <4>2, Zenon
        <5> HIDE DEF V
        <5> QED
          BY <5>1, Zenon DEF NamesInv
      <4>4. u = t /\ j # 0
        BY <4>1, <4>3
      <4> QED
        BY <4>3, <4>4, Zenon
    <3> HIDE DEF V
    <3>3. PodHandler!GetLatestValue(nameCache, Web) \in V
      BY <3>1, <3>2, WalkStays, Zenon
    <3>4. PICK k \in Nat \ {0} : PodHandler!GetLatestValue(nameCache, Web) = <<t, k>>
      BY <3>3, Zenon DEF V
    <3>5. Found(Web) = {}
      <4>1. \A u : \A i \in Nat : u # s /\ i # 0 => PodHandler!ByName(s, <<u, i>>) = {}
        BY <1>1, PodsByName, Zenon
      <4>2. k \in Nat /\ k # 0
        BY Zenon
      <4>3. PodHandler!ByName(s, <<t, k>>) = {}
        BY <2>4, <4>1, <4>2, Zenon
      <4> QED
        BY <2>2, <3>4, <4>3, Zenon
    <3> QED
      BY <1>4, <1>9, <2>1, <2>4, <3>5, Zenon DEF s
  <2> QED
    BY <2>3, <2>4, Zenon
<1> QED
  BY <1>7, <1>8, <1>9, Zenon

-----------------------------------------------------------------------------
(* The steps of the handler and the pods.                                  *)

LEMMA SamePods ==
  ASSUME PodTypes, UNCHANGED <<scene, pods>>
  PROVE  PodTypes' /\ \A s : Last(s)' = Last(s)
<1>1. scene' = scene /\ pods' = pods
  BY Zenon
<1>2. PodTypes'
  BY <1>1, Zenon DEF PodTypes, Top
<1>3. \A s : Last(s)' = Last(s)
  BY <1>1, Zenon DEF Last, PodHandler!LastGeneration, PodHandler!Generations
<1> QED
  BY <1>2, <1>3, Zenon

\* Names lead where they led.
LEMMA NamesStay ==
  ASSUME NamesInv, nameCache' = nameCache,
         \A s \in PodSeries : Last(s) > 0 => Last(s)' > 0,
         \A s \in PodSeries : PodHandler!Reachable(s)' => PodHandler!Reachable(s)
  PROVE  NamesInv'
<1>1. Web \in DOMAIN nameCache =>
        \E s \in PodSeries, h \in Nat :
          h >= 1 /\ nameCache[Web] = <<s, h>> /\ Last(s)' > 0 /\ (PodHandler!Reachable(s)' => h = 1)
  BY Zenon DEF NamesInv
<1>2. \A n \in DOMAIN nameCache \ {Web} :
        \E s \in PodSeries, g, h \in Nat : g >= 1 /\ h >= 1 /\ n = <<s, g>> /\ nameCache[n] = <<s, h>>
  BY Zenon DEF NamesInv
<1>3. /\ Web \in DOMAIN nameCache' =>
           \E s \in PodSeries, h \in Nat :
             h >= 1 /\ nameCache'[Web] = <<s, h>> /\ Last(s)' > 0 /\ (PodHandler!Reachable(s)' => h = 1)
      /\ \A n \in DOMAIN nameCache' \ {Web} :
           \E s \in PodSeries, g, h \in Nat : g >= 1 /\ h >= 1 /\ n = <<s, g>> /\ nameCache'[n] = <<s, h>>
  BY <1>1, <1>2
<1> QED
  BY <1>3, Zenon DEF NamesInv, Web

\* The caches as they are stay right while no pod is new.
LEMMA ChainsStay ==
  ASSUME PodTypes, PodTypes', ChainsInv, NamesInv, UNCHANGED <<nameCache, uidCache>>, expired \subseteq expired',
         \A s \in PodSeries : Last(s)' = Last(s) /\ (Pending(s)' <=> Pending(s))
  PROVE  ChainsInv' /\ NamesInv'
<1>1. ASSUME NEW s \in PodSeries, PodHandler!Reachable(s)'
      PROVE  PodHandler!Reachable(s)
  <2>1. Last(s) <= Last(s)'
    <3>1. Last(s) \in Nat /\ Last(s)' = Last(s)
      BY NewestIs, Zenon
    <3> QED
      BY <3>1
  <2> QED
    BY <1>1, <2>1, StillReachable, Zenon
<1>2. nameCache' = nameCache /\ uidCache' = uidCache /\ Web' = Web
  BY Zenon DEF Web
<1>3. ASSUME NEW s \in PodSeries, NEW from
      PROVE  /\ Chain(uidCache, s, from) => Chain(uidCache, s, from)'
             /\ Chain(nameCache, s, from) => Chain(nameCache, s, from)'
  BY <1>2, Zenon DEF Chain
<1>4. ChainsInv'
  BY <1>1, <1>2, <1>3, Zenon DEF ChainsInv
<1>5. NamesInv'
  BY <1>1, <1>2, NamesStay, Zenon
<1> QED
  BY <1>4, <1>5, Zenon

\* What an action knows stays true while the others move.
LEMMA KnowledgeStays ==
  ASSUME PodTypes, PodTypes', NEW a \in PodActionIds, KnowsPod(a), UNCHANGED scene, action'[a] = action[a],
         expired \subseteq expired', \A s \in PodSeries : Last(s) <= Last(s)',
         action[a].at \in {"work", "output"} => Last(scene.target[a].series)' = Last(scene.target[a].series)
  PROVE  KnowsPod(a)'
<1> DEFINE s == scene.target[a].series
<1>1. s \in PodSeries /\ scene'.target[a].series = s /\ scene'.target[a].truncated = scene.target[a].truncated
  BY TargetIsSeries, Zenon
<1>2. PodHandler!Reachable(s)' => PodHandler!Reachable(s)
  BY <1>1, StillReachable, Zenon
<1>3. action[a].at \in {"work", "output"} => Last(s)' = Last(s) /\ PodHandler!Newest(s)' = PodHandler!Newest(s)
  BY <1>1, NewestIs, NewestIsNext, Zenon
<1>4. \A t \in PodSeries : Last(t) > 0 => Last(t)' > 0
  <2>1. \A t \in PodSeries : Last(t) \in Nat /\ Last(t)' \in Nat /\ Last(t) <= Last(t)'
    BY NewestIs, NewestIsNext, Zenon
  <2> QED
    BY <2>1
<1> QED
  BY <1>1, <1>2, <1>3, <1>4, Zenon DEF KnowsPod

LEMMA PendingStays ==
  ASSUME HandlerInv, NEW a \in PodActionIds, UNCHANGED scene, NEW r, action' = [action EXCEPT ![a] = r],
         action[a].at # "output", r.at # "output"
  PROVE  \A s : Pending(s)' <=> Pending(s)
<1>1. action'[a] = r /\ \A b \in PodActionIds \ {a} : action'[b] = action[b]
  BY Zenon DEF HandlerInv
<1> QED
  BY <1>1, Zenon DEF Pending

\* A step of an action that neither changes pods nor gets to know one.
LEMMA QuietStep ==
  ASSUME PodInv, HandlerInv, NEW a \in PodActionIds, UNCHANGED <<scene, pods, nameCache, uidCache, expired>>,
         NEW r, action' = [action EXCEPT ![a] = r], action[a].at # "output", r.at # "output", KnowsPod(a)'
  PROVE  PodInv'
<1>1. PodTypes /\ PodTypes' /\ \A s : Last(s)' = Last(s)
  BY SamePods, Zenon DEF PodInv
<1>2. ChainsInv' /\ NamesInv'
  BY <1>1, PendingStays, ChainsStay, Zenon DEF PodInv
<1>3. \A s \in PodSeries : Last(s) <= Last(s)'
  <2>1. \A s \in PodSeries : Last(s) \in Nat /\ Last(s)' = Last(s)
    BY <1>1, NewestIs, Zenon
  <2> QED
    BY <2>1
<1>4. \A b \in PodActionIds : KnowsPod(b)'
  <2>1. \A b \in PodActionIds \ {a} : action'[b] = action[b]
    BY Zenon DEF HandlerInv
  <2>2. expired \subseteq expired'
    BY Zenon
  <2> QED
    BY <1>1, <1>3, <2>1, <2>2, KnowledgeStays, Zenon DEF PodInv
<1> QED
  BY <1>1, <1>2, <1>4, Zenon DEF PodInv

\* An action that ends, or goes on without a pod, knows nothing.
LEMMA KnowsNothing ==
  ASSUME NEW a, action'[a].at \notin {"work", "output", "notFound"}
  PROVE  KnowsPod(a)'
  BY Zenon DEF KnowsPod

\* Only the action that holds the lock of a series can have a link pending.
LEMMA NothingPending ==
  ASSUME HandlerInv, NEW a \in PodActionIds, PodHandler!Holds(a), action[a].at # "output"
  PROVE  ~Pending(scene.target[a].series)
<1> SUFFICES ASSUME NEW b \in PodActionIds, action[b].at = "output",
                    scene.target[b].series = scene.target[a].series
             PROVE  FALSE
  BY Zenon DEF Pending
<1>1. a # b /\ PodHandler!Holds(b)
  BY Zenon DEF PodHandler!Holds
<1>2. action[a].key = TargetKey(a) /\ action[b].key = TargetKey(b)
  BY <1>1, Zenon DEF HandlerInv
<1>3. TargetKey(a) = TargetKey(b)
  BY Zenon DEF TargetKey
<1> QED
  BY <1>1, <1>2, <1>3, Zenon DEF HandlerInv

LEMMA DispatchStep ==
  ASSUME PodInv, HandlerInv, NEW a \in PodActionIds, PodHandler!Dispatch(a)
  PROVE  PodInv'
<1> DEFINE s == scene.target[a].series
<1>0. /\ UNCHANGED <<scene, pods, nameCache, uidCache, expired>> /\ action[a].at = "pod" /\ a \in DOMAIN action
      /\ DOMAIN action[a] = {"at", "key", "pod", "new"}
  BY Zenon DEF PodHandler!Dispatch, PodHandler!podState, PodHandler!At, HandlerInv
<1>1. PodHandler!Reachable(s) =>
        \/ PodHandler!GetRelatedPod(a) = {PodHandler!Newest(s)}
        \/ PodHandler!GetRelatedPod(a) = {} /\ ~scene.target[a].truncated /\ \E t \in PodSeries \ {s} : Last(t) > 0
  <2>1. ~Pending(s)
    BY <1>0, NothingPending, Zenon DEF PodHandler!Holds
  <2> QED
    BY <2>1, FindsNewest, Zenon DEF PodInv
<1>2. /\ \A t : Last(t)' = Last(t)
      /\ PodHandler!Newest(s)' = PodHandler!Newest(s)
      /\ PodHandler!Reachable(s)' <=> PodHandler!Reachable(s)
  <2>1. \A t : Last(t)' = Last(t)
    BY <1>0, SamePods, Zenon DEF PodInv
  <2> QED
    BY <1>0, <2>1, Zenon DEF PodHandler!Newest, PodHandler!Reachable, Last
<1>3. CASE PodHandler!GetRelatedPod(a) = {} /\ PodHandler!End(a, "notFound")
  <2> DEFINE r == [at |-> "notFound", key |-> <<"image", 0>>, pod |-> PodHandler!NoPod, new |-> PodHandler!NoPod]
  <2>1. action' = [action EXCEPT ![a] = r] /\ r.at = "notFound"
    BY <1>3, Zenon DEF PodHandler!End
  <2> HIDE DEF r
  <2>2. action'[a].at = "notFound"
    BY <1>0, <2>1, Zenon
  <2>3. KnowsPod(a)'
    BY <1>0, <1>1, <1>2, <1>3, <2>2, Zenon DEF KnowsPod
  <2> QED
    BY <1>0, <2>1, <2>3, QuietStep, Zenon
<1>4. CASE PodHandler!End(a, "failed")
  <2> DEFINE r == [at |-> "failed", key |-> <<"image", 0>>, pod |-> PodHandler!NoPod, new |-> PodHandler!NoPod]
  <2>1. action' = [action EXCEPT ![a] = r] /\ r.at = "failed"
    BY <1>4, Zenon DEF PodHandler!End
  <2> HIDE DEF r
  <2>2. action'[a].at = "failed"
    BY <1>0, <2>1, Zenon
  <2>3. KnowsPod(a)'
    BY <2>2, KnowsNothing, Zenon
  <2> QED
    BY <1>0, <2>1, <2>3, QuietStep, Zenon
<1>5. ASSUME NEW p \in PodHandler!GetRelatedPod(a), action' = [action EXCEPT ![a].at = "work", ![a].pod = p]
      PROVE  PodInv'
  <2> DEFINE r == [action[a] EXCEPT !.at = "work", !.pod = p]
  <2>1. action' = [action EXCEPT ![a] = r]
    BY <1>0, <1>5, Zenon
  <2>2. r.at = "work" /\ r.pod = p
    BY <1>0, Zenon
  <2> HIDE DEF r
  <2>3. action'[a] = r
    BY <1>0, <2>1, Zenon
  <2>4. p \in [series : {s}, gen : Nat]
    <3>1. p \in pods /\ p.series = s
      BY <1>5, Zenon DEF PodHandler!GetRelatedPod, PodHandler!GetRunningPod, PodHandler!ByName, PodHandler!ByUid,
             PodHandler!First
    <3> QED
      BY <3>1 DEF PodInv, PodTypes
  <2>5. PodHandler!Reachable(s) => p = PodHandler!Newest(s)
    BY <1>1, <1>5, Zenon
  <2>6. KnowsPod(a)'
    BY <1>0, <1>2, <2>2, <2>3, <2>4, <2>5, Zenon DEF KnowsPod
  <2> QED
    BY <1>0, <2>1, <2>2, <2>6, QuietStep, Zenon
<1> QED
  BY <1>3, <1>4, <1>5, Zenon DEF PodHandler!Dispatch

\* A series gets one more pod: it is the newest, and its link is pending.
LEMMA ReplaceStep ==
  ASSUME PodInv, HandlerInv, NEW a \in PodActionIds, action[a].at = "work",
         UNCHANGED <<scene, nameCache, uidCache, expired>>,
         NEW new, new = [PodHandler!Newest(scene.target[a].series) EXCEPT !.gen = @ + 1],
         pods' = pods \cup {new}, action' = [action EXCEPT ![a].at = "output", ![a].new = new]
  PROVE  PodInv'
<1>1. PICK s \in PodSeries : s = scene.target[a].series
  BY TargetIsSeries, Zenon DEF PodInv
<1>2. PodTypes /\ Last(s) \in Nat /\ Top(s, Last(s)) /\ PodHandler!Newest(s) = [series |-> s, gen |-> Last(s)]
  BY NewestIs, Zenon DEF PodInv
<1>3. PICK m \in Nat : m = Last(s)
  BY <1>2, Zenon
<1>4. new = [series |-> s, gen |-> m + 1] /\ m + 1 \in Nat /\ new.series = s /\ new.gen = m + 1
  BY <1>1, <1>2, <1>3, SMTT(30)
<1>5. pods' \subseteq [series : PodSeries, gen : Nat]
  BY <1>2, <1>4 DEF PodTypes
<1>6. Top(s, m + 1)'
  <2>1. \A p \in pods : p.series = s => p.gen \in Nat /\ p.gen <= m
    BY <1>2, <1>3, Zenon DEF Top, PodTypes
  <2>2. \A p \in pods : p.series = s => p.gen <= m + 1
    BY <2>1
  <2>3. new.gen <= m + 1
    BY <1>4
  <2>4. \A p \in pods' : p.series = s => p.gen <= m + 1
    BY <2>2, <2>3, Zenon
  <2> QED
    BY <1>4, <2>4, Zenon DEF Top
<1>7. ASSUME NEW t \in PodSeries, t # s, NEW k \in Nat, Top(t, k)
      PROVE  Top(t, k)'
  BY <1>4, <1>7, Zenon DEF Top
<1>8. PodTypes'
  <2>1. \A t \in PodSeries : \E k \in Nat : Top(t, k)'
    BY <1>2, <1>4, <1>6, <1>7, Zenon DEF PodTypes
  <2> QED
    BY <1>2, <1>5, <2>1, Zenon DEF PodTypes
<1>9. Last(s)' = m + 1
  BY <1>4, <1>5, <1>6, LastIsNext, Zenon
<1>10. ASSUME NEW t \in PodSeries, t # s
       PROVE  Last(t)' = Last(t)
  <2>1. PICK k \in Nat : Top(t, k)
    BY <1>2, Zenon DEF PodTypes
  <2>2. Top(t, k)'
    BY <1>7, <1>10, <2>1, Zenon
  <2>3. Last(t) = k
    BY <1>2, <2>1, LastIs, Zenon DEF PodTypes
  <2>4. Last(t)' = k
    BY <1>5, <2>2, LastIsNext, Zenon
  <2> QED
    BY <2>3, <2>4
<1>11. \A t \in PodSeries : Last(t) <= Last(t)' /\ Last(t) \in Nat
  <2>1. \A t \in PodSeries : Last(t) \in Nat /\ (t # s => Last(t)' = Last(t))
    BY <1>2, <1>10, NewestIs, Zenon
  <2> QED
    BY <1>3, <1>9, <2>1
<1>12. expired' = expired /\ scene' = scene /\ nameCache' = nameCache /\ uidCache' = uidCache
  BY Zenon
<1>13. \A t \in PodSeries : PodHandler!Reachable(t)' => PodHandler!Reachable(t)
  BY <1>2, <1>8, <1>11, <1>12, StillReachable, Zenon
<1>14. /\ action'[a].at = "output" /\ action'[a].new = new /\ action'[a].pod = action[a].pod
       /\ \A b \in PodActionIds \ {a} : action'[b] = action[b]
  BY Zenon DEF HandlerInv
<1>15. /\ ~Pending(s) /\ Pending(s)'
       /\ \A t : t # s => (Pending(t)' <=> Pending(t))
  <2>1. ~Pending(s)
    BY <1>1, NothingPending, Zenon DEF PodHandler!Holds
  <2>2. Pending(s)'
    BY <1>1, <1>12, <1>14, Zenon DEF Pending
  <2>3. \A t : t # s => (Pending(t)' <=> Pending(t))
    BY <1>1, <1>12, <1>14, ZenonT(30) DEF Pending
  <2> QED
    BY <2>1, <2>2, <2>3, Zenon
<1>16. ASSUME NEW cache, NEW from \in Nat, NEW g \in Nat, g >= from,
              /\ <<s, g>> \in DOMAIN cache => g < m /\ cache[<<s, g>>] = <<s, g + 1>>
              /\ g < m => <<s, g>> \in DOMAIN cache
       PROVE  /\ <<s, g>> \in DOMAIN cache => g < m + 1 /\ cache[<<s, g>>] = <<s, g + 1>>
              /\ g < m + 1 => <<s, g>> \in DOMAIN cache \/ g + 1 = m + 1
  BY <1>16
<1>17. ASSUME NEW from \in Nat
       PROVE  /\ Chain(uidCache, s, from) => Chain(uidCache, s, from)'
              /\ Chain(nameCache, s, from) => Chain(nameCache, s, from)'
  BY <1>3, <1>9, <1>12, <1>15, <1>16, Zenon DEF Chain
<1>18. ASSUME NEW t \in PodSeries, t # s, NEW from
       PROVE  /\ Chain(uidCache, t, from) => Chain(uidCache, t, from)'
              /\ Chain(nameCache, t, from) => Chain(nameCache, t, from)'
  BY <1>10, <1>12, <1>15, <1>18, Zenon DEF Chain
<1>19. ChainsInv'
  <2> SUFFICES ASSUME NEW t \in PodSeries, PodHandler!Reachable(t)'
               PROVE  /\ Chain(uidCache, t, 0)' /\ Chain(nameCache, t, 1)'
                      /\ Last(t)' > 0 => Web \in DOMAIN nameCache' \/ (Last(t)' = 1 /\ Pending(t)')
    BY Zenon DEF ChainsInv, Web
  <2>1. /\ Chain(uidCache, t, 0) /\ Chain(nameCache, t, 1)
        /\ Last(t) > 0 => Web \in DOMAIN nameCache \/ (Last(t) = 1 /\ Pending(t))
    BY <1>13, Zenon DEF ChainsInv, PodInv
  <2>2. Chain(uidCache, t, 0)' /\ Chain(nameCache, t, 1)'
    <3>1. 0 \in Nat /\ 1 \in Nat
      OBVIOUS
    <3> QED
      BY <1>17, <1>18, <2>1, <3>1, Zenon
  <2>3. CASE t = s
    <3>1. m > 0 => Web \in DOMAIN nameCache
      BY <1>3, <1>15, <2>1, <2>3, Zenon
    <3>2. m > 0 \/ m + 1 = 1
      OBVIOUS
    <3> QED
      BY <1>9, <1>12, <1>15, <2>2, <2>3, <3>1, <3>2, Zenon
  <2>4. CASE t # s
    BY <1>10, <1>12, <1>15, <2>1, <2>2, <2>4, Zenon
  <2> QED
    BY <2>3, <2>4, Zenon
<1>20. NamesInv'
  <2>1. \A t \in PodSeries : Last(t) > 0 => Last(t)' > 0
    BY <1>3, <1>9, <1>10, <1>11
  <2> QED
    BY <1>12, <1>13, <2>1, NamesStay, Zenon DEF PodInv
<1>21. KnowsPod(a)'
  <2>1. action[a].pod \in [series : {s}, gen : Nat] /\ (PodHandler!Reachable(s) => action[a].pod = PodHandler!Newest(s))
    BY <1>1, Zenon DEF PodInv, KnowsPod
  <2>2. PodHandler!Newest(s)' = new /\ Last(s)' > 0
    BY <1>4, <1>8, <1>9, NewestIsNext, SMTT(30)
  <2>3. PodHandler!Reachable(s)' => action[a].pod.gen + 1 = Last(s)'
    BY <1>2, <1>3, <1>9, <1>13, <2>1
  <2> QED
    BY <1>1, <1>12, <1>14, <2>1, <2>2, <2>3, Zenon DEF KnowsPod
<1>22. ASSUME NEW b \in PodActionIds \ {a}
       PROVE  KnowsPod(b)'
  <2>1. action[b].at \in {"work", "output"} => scene.target[b].series # s
    <3> SUFFICES ASSUME action[b].at \in {"work", "output"}, scene.target[b].series = scene.target[a].series
                 PROVE  FALSE
      BY <1>1, Zenon
    <3>1. PodHandler!Holds(a) /\ PodHandler!Holds(b)
      BY Zenon DEF PodHandler!Holds
    <3>2. action[a].key = TargetKey(a) /\ action[b].key = TargetKey(b)
      BY <3>1, Zenon DEF HandlerInv
    <3>3. TargetKey(a) = TargetKey(b)
      BY Zenon DEF TargetKey
    <3> QED
      BY <3>1, <3>2, <3>3, Zenon DEF HandlerInv
  <2>2. scene.target[b].series \in PodSeries
    BY <1>2, TargetIsSeries, Zenon
  <2>3. action[b].at \in {"work", "output"} => Last(scene.target[b].series)' = Last(scene.target[b].series)
    BY <1>10, <1>12, <2>1, <2>2, Zenon
  <2>4. KnowsPod(b) /\ action'[b] = action[b] /\ expired \subseteq expired'
    BY <1>12, <1>14, Zenon DEF PodInv
  <2> QED
    BY <1>2, <1>8, <1>11, <1>12, <2>3, <2>4, KnowledgeStays, Zenon
<1> QED
  BY <1>8, <1>19, <1>20, <1>21, <1>22, Zenon DEF PodInv

\* The entry for a key is all that is new in a cache.
Entered(next, cache, key, value) ==
  /\ DOMAIN next = DOMAIN cache \cup {key} /\ next[key] = value
  /\ \A n \in DOMAIN cache : n # key => next[n] = cache[n]

LEMMA SetEnters ==
  ASSUME NEW cache, NEW key, NEW value
  PROVE  Entered(PodHandler!Set(cache, key, value), cache, key, value)
  BY Zenon DEF PodHandler!Set, Entered

\* The chain to m is there but perhaps for its last link.
Links(cache, s, from, m) ==
  \A g \in Nat : g >= from =>
    /\ <<s, g>> \in DOMAIN cache => g < m /\ cache[<<s, g>>] = <<s, g + 1>>
    /\ g < m => <<s, g>> \in DOMAIN cache \/ g + 1 = m

Complete(cache, s, from, m) ==
  \A g \in Nat : g >= from =>
    /\ <<s, g>> \in DOMAIN cache => g < m /\ cache[<<s, g>>] = <<s, g + 1>>
    /\ g < m => <<s, g>> \in DOMAIN cache

\* The key of the g-th pod of s in a chain that may begin after the first name.
LinkKey(key, s, from, g) == key = <<s, g>> \/ (from > g /\ key = Web)

\* The last link makes a chain of m replacements complete.
LEMMA LinkCloses ==
  ASSUME NEW cache, NEW s, NEW from \in {0, 1}, NEW m \in Nat, NEW g0 \in Nat, g0 + 1 = m,
         NEW key, LinkKey(key, s, from, g0),
         Links(cache, s, from, m), NEW next, Entered(next, cache, key, <<s, m>>)
  PROVE  Complete(next, s, from, m)
<1> SUFFICES ASSUME NEW g \in Nat, g >= from
             PROVE  /\ <<s, g>> \in DOMAIN next => g < m /\ next[<<s, g>>] = <<s, g + 1>>
                    /\ g < m => <<s, g>> \in DOMAIN next
  BY Zenon DEF Complete
<1>1. CASE <<s, g>> = key
  <2>1. g = g0
    <3>1. CASE key = <<s, g0>>
      BY <1>1, <3>1
    <3>2. CASE from > g0 /\ key = Web
      <4>1. g = 0
        BY <1>1, <3>2 DEF Web
      <4> QED
        BY <3>2, <4>1
    <3> QED
      BY <3>1, <3>2, Zenon DEF LinkKey
  <2>2. g < m
    BY <2>1
  <2> QED
    BY <1>1, <2>1, <2>2, Zenon DEF Entered
<1>2. CASE <<s, g>> # key
  <2>1. <<s, g>> \in DOMAIN next <=> <<s, g>> \in DOMAIN cache
    BY <1>2, Zenon DEF Entered
  <2>2. <<s, g>> \in DOMAIN cache => next[<<s, g>>] = cache[<<s, g>>]
    BY <1>2, Zenon DEF Entered
  <2>3. g # g0
    BY <1>2 DEF LinkKey
  <2>4. g + 1 # m
    BY <2>3
  <2> QED
    BY <2>1, <2>2, <2>4, Zenon DEF Links
<1> QED
  BY <1>1, <1>2, Zenon

\* The entries of a chain are those they were.
Kept(next, cache, s, from) ==
  \A g \in Nat : g >= from =>
    /\ <<s, g>> \in DOMAIN next <=> <<s, g>> \in DOMAIN cache
    /\ <<s, g>> \in DOMAIN cache => next[<<s, g>>] = cache[<<s, g>>]

\* An entry of another series, and the first name, do not touch a chain.
LEMMA LinkElsewhere ==
  ASSUME NEW cache, NEW s, NEW t, t # s, NEW from \in {0, 1}, NEW g0 \in Nat,
         NEW key, LinkKey(key, s, from, g0), NEW value, NEW next, Entered(next, cache, key, value)
  PROVE  Kept(next, cache, t, from)
<1> SUFFICES ASSUME NEW g \in Nat, g >= from
             PROVE  /\ <<t, g>> \in DOMAIN next <=> <<t, g>> \in DOMAIN cache
                    /\ <<t, g>> \in DOMAIN cache => next[<<t, g>>] = cache[<<t, g>>]
  BY Zenon DEF Kept
<1>1. <<t, g>> # key
  BY DEF LinkKey, Web
<1> QED
  BY <1>1, Zenon DEF Entered

\* The new pod is cached under the name and the uid of the pod it replaces.
LEMMA OutputStep ==
  ASSUME PodInv, HandlerInv, NEW a \in PodActionIds, PodHandler!ProcessOutput(a)
  PROVE  PodInv'
<1>0. /\ scene' = scene /\ pods' = pods /\ expired' = expired /\ action[a].at = "output"
      /\ action' = [action EXCEPT ![a].at = "release"]
      /\ nameCache' = PodHandler!Set(nameCache, PodHandler!NameOf(action[a].pod), PodHandler!NameOf(action[a].new))
      /\ uidCache' = PodHandler!Set(uidCache, PodHandler!UidOf(action[a].pod), PodHandler!UidOf(action[a].new))
  BY Zenon DEF PodHandler!ProcessOutput, PodHandler!At, PodHandler!CachePod
<1>1. PICK s \in PodSeries : s = scene.target[a].series
  BY TargetIsSeries, Zenon DEF PodInv
<1>2. PodTypes /\ PodTypes' /\ \A t : Last(t)' = Last(t)
  BY <1>0, SamePods, Zenon DEF PodInv
<1>3. /\ action[a].pod \in [series : {s}, gen : Nat] /\ action[a].new = PodHandler!Newest(s) /\ Last(s) > 0
      /\ PodHandler!Reachable(s) => action[a].pod.gen + 1 = Last(s)
  BY <1>0, <1>1, Zenon DEF PodInv, KnowsPod
<1>4. PICK m \in Nat : m = Last(s) /\ m > 0 /\ m # 0 /\ m >= 1 /\ action[a].new = [series |-> s, gen |-> m]
  <2>1. Last(s) \in Nat /\ PodHandler!Newest(s) = [series |-> s, gen |-> Last(s)]
    BY <1>2, NewestIs, Zenon
  <2>2. Last(s) # 0 /\ Last(s) >= 1
    BY <1>3, <2>1
  <2> QED
    BY <1>3, <2>1, <2>2, Zenon
<1>5. PICK g0 \in Nat : g0 = action[a].pod.gen /\ action[a].pod.series = s
  BY <1>3
<1>6. PICK key : key = IF g0 = 0 THEN Web ELSE <<s, g0>>
  BY Zenon
<1>7. Entered(nameCache', nameCache, key, <<s, m>>) /\ Entered(uidCache', uidCache, <<s, g0>>, <<s, m>>)
  <2>1. PodHandler!NameOf(action[a].new) = <<s, m>> /\ PodHandler!UidOf(action[a].new) = <<s, m>>
    <3>1. action[a].new.series = s /\ action[a].new.gen = m
      BY <1>4
    <3> QED
      BY <1>4, <3>1, Zenon DEF PodHandler!NameOf, PodHandler!UidOf
  <2>2. PodHandler!NameOf(action[a].pod) = key /\ PodHandler!UidOf(action[a].pod) = <<s, g0>>
    BY <1>5, <1>6, Zenon DEF PodHandler!NameOf, PodHandler!UidOf, Web
  <2> QED
    BY <1>0, <2>1, <2>2, SetEnters
<1>8. action'[a].at = "release" /\ \A b \in PodActionIds \ {a} : action'[b] = action[b]
  BY <1>0, Zenon DEF HandlerInv
<1>9. ~Pending(s)' /\ \A t : t # s => (Pending(t)' <=> Pending(t))
  <2>1. ASSUME NEW b \in PodActionIds \ {a}, action[b].at = "output", scene.target[b].series = s
        PROVE  FALSE
    <3>1. PodHandler!Holds(a) /\ PodHandler!Holds(b)
      BY <1>0, <2>1, Zenon DEF PodHandler!Holds
    <3>2. action[a].key = TargetKey(a) /\ action[b].key = TargetKey(b)
      BY <3>1, Zenon DEF HandlerInv
    <3>3. TargetKey(a) = TargetKey(b)
      BY <1>1, <2>1, Zenon DEF TargetKey
    <3> QED
      BY <3>1, <3>2, <3>3, Zenon DEF HandlerInv
  <2>2. "release" # "output"
    OBVIOUS
  <2>3. ~Pending(s)'
    BY <1>0, <1>8, <2>1, <2>2, Zenon DEF Pending
  <2>4. \A t : t # s => (Pending(t)' <=> Pending(t))
    BY <1>0, <1>1, <1>8, Zenon DEF Pending
  <2> QED
    BY <2>3, <2>4, Zenon
<1>10. \A t : PodHandler!Reachable(t)' <=> PodHandler!Reachable(t)
  BY <1>0, <1>2, Zenon DEF PodHandler!Reachable, Last
<1>11. ASSUME NEW t \in PodSeries, t # s
       PROVE  /\ Chain(uidCache, t, 0) => Chain(uidCache, t, 0)'
              /\ Chain(nameCache, t, 1) => Chain(nameCache, t, 1)'
  <2>1. Kept(uidCache', uidCache, t, 0)
    <3>1. 0 \in {0, 1} /\ LinkKey(<<s, g0>>, s, 0, g0)
      BY Zenon DEF LinkKey
    <3> QED
      BY <1>7, <1>11, <3>1, LinkElsewhere, Zenon
  <2>2. Kept(nameCache', nameCache, t, 1)
    <3>1. 1 \in {0, 1} /\ LinkKey(key, s, 1, g0)
      BY <1>6 DEF LinkKey
    <3> QED
      BY <1>7, <1>11, <3>1, LinkElsewhere, Zenon
  <2>3. Last(t)' = Last(t) /\ (Pending(t)' <=> Pending(t))
    BY <1>2, <1>9, <1>11, Zenon
  <2>4. Chain(uidCache, t, 0) => Chain(uidCache, t, 0)'
    BY <2>1, <2>3, Zenon DEF Chain, Kept
  <2>5. Chain(nameCache, t, 1) => Chain(nameCache, t, 1)'
    BY <2>2, <2>3, Zenon DEF Chain, Kept
  <2> QED
    BY <2>4, <2>5, Zenon
<1>12. ASSUME PodHandler!Reachable(s)
       PROVE  Chain(uidCache, s, 0)' /\ Chain(nameCache, s, 1)'
  <2>0. g0 + 1 = m /\ Chain(uidCache, s, 0) /\ Chain(nameCache, s, 1)
    BY <1>3, <1>4, <1>5, <1>12, Zenon DEF PodInv, ChainsInv
  <2>1. Links(uidCache, s, 0, m)
    BY <1>4, <2>0, Zenon DEF Chain, Links
  <2>2. Links(nameCache, s, 1, m)
    BY <1>4, <2>0, Zenon DEF Chain, Links
  <2>3. Complete(uidCache', s, 0, m)
    <3>1. 0 \in {0, 1} /\ LinkKey(<<s, g0>>, s, 0, g0)
      BY Zenon DEF LinkKey
    <3> QED
      BY <1>7, <2>0, <2>1, <3>1, LinkCloses, Zenon
  <2>4. Complete(nameCache', s, 1, m)
    <3>1. 1 \in {0, 1} /\ LinkKey(key, s, 1, g0)
      BY <1>6 DEF LinkKey
    <3> QED
      BY <1>7, <2>0, <2>2, <3>1, LinkCloses, Zenon
  <2>5. Last(s)' = m
    BY <1>2, <1>4, Zenon
  <2> QED
    BY <2>3, <2>4, <2>5, Zenon DEF Chain, Complete
<1>13. ChainsInv'
  <2> SUFFICES ASSUME NEW t \in PodSeries, PodHandler!Reachable(t)'
               PROVE  /\ Chain(uidCache, t, 0)' /\ Chain(nameCache, t, 1)'
                      /\ Last(t)' > 0 => Web \in DOMAIN nameCache' \/ (Last(t)' = 1 /\ Pending(t)')
    BY Zenon DEF ChainsInv, Web
  <2>1. /\ Chain(uidCache, t, 0) /\ Chain(nameCache, t, 1) /\ PodHandler!Reachable(t)
        /\ Last(t) > 0 => Web \in DOMAIN nameCache \/ (Last(t) = 1 /\ Pending(t))
    BY <1>10, Zenon DEF ChainsInv, PodInv
  <2>2. DOMAIN nameCache' = DOMAIN nameCache \cup {key}
    BY <1>7, Zenon DEF Entered
  <2>3. CASE t = s
    <3>1. Web \in DOMAIN nameCache'
      <4>1. CASE g0 = 0
        BY <1>6, <2>2, <4>1, Zenon
      <4>2. CASE g0 # 0
        <5>1. Last(s) # 1
          BY <1>3, <1>4, <1>5, <2>1, <2>3, <4>2
        <5> QED
          BY <1>3, <2>1, <2>2, <2>3, <5>1, Zenon
      <4> QED
        BY <4>1, <4>2, Zenon
    <3> QED
      BY <1>12, <2>1, <2>3, <3>1, Zenon
  <2>4. CASE t # s
    BY <1>2, <1>9, <1>11, <2>1, <2>2, <2>4, Zenon
  <2> QED
    BY <2>3, <2>4, Zenon
<1>14. NamesInv'
  <2>1. ASSUME Web \in DOMAIN nameCache'
        PROVE  \E t \in PodSeries, h \in Nat :
                 /\ h >= 1 /\ nameCache'[Web] = <<t, h>> /\ Last(t)' > 0
                 /\ PodHandler!Reachable(t)' => h = 1
    <3>1. CASE key = Web
      <4>1. g0 = 0
        BY <1>6, <3>1 DEF Web
      <4>2. PodHandler!Reachable(s) => m = 1
        BY <1>3, <1>4, <1>5, <4>1
      <4>3. nameCache'[Web] = <<s, m>>
        BY <1>7, <3>1, Zenon DEF Entered
      <4> QED
        BY <1>2, <1>3, <1>4, <1>10, <4>2, <4>3, Zenon
    <3>2. CASE key # Web
      <4>1. Web \in DOMAIN nameCache /\ nameCache'[Web] = nameCache[Web]
        BY <1>7, <2>1, <3>2, Zenon DEF Entered
      <4>2. PICK t \in PodSeries, h \in Nat :
              /\ h >= 1 /\ nameCache[Web] = <<t, h>> /\ Last(t) > 0
              /\ PodHandler!Reachable(t) => h = 1
        BY <4>1, Zenon DEF PodInv, NamesInv
      <4> QED
        BY <1>2, <1>10, <4>1, <4>2, Zenon
    <3> QED
      BY <3>1, <3>2, Zenon
  <2>2. ASSUME NEW n \in DOMAIN nameCache' \ {Web}
        PROVE  \E t \in PodSeries, g, h \in Nat : g >= 1 /\ h >= 1 /\ n = <<t, g>> /\ nameCache'[n] = <<t, h>>
    <3>1. CASE n = key
      <4>1. n = <<s, g0>> /\ g0 >= 1
        BY <1>6, <2>2, <3>1
      <4>2. nameCache'[n] = <<s, m>>
        BY <1>7, <3>1, Zenon DEF Entered
      <4> QED
        BY <1>4, <4>1, <4>2, Zenon
    <3>2. CASE n # key
      <4>1. n \in DOMAIN nameCache /\ nameCache'[n] = nameCache[n]
        BY <1>7, <2>2, <3>2, Zenon DEF Entered
      <4>2. PICK t \in PodSeries, g, h \in Nat : g >= 1 /\ h >= 1 /\ n = <<t, g>> /\ nameCache[n] = <<t, h>>
        BY <2>2, <4>1, Zenon DEF PodInv, NamesInv
      <4> QED
        BY <4>1, <4>2, Zenon
    <3> QED
      BY <3>1, <3>2, Zenon
  <2> QED
    BY <2>1, <2>2, Zenon DEF NamesInv, Web
<1>15. ASSUME NEW b \in PodActionIds
       PROVE  KnowsPod(b)'
  <2>1. \A t \in PodSeries : Last(t) <= Last(t)'
    <3>1. \A t \in PodSeries : Last(t) \in Nat /\ Last(t)' = Last(t)
      BY <1>2, NewestIs, Zenon
    <3> QED
      BY <3>1
  <2>2. CASE b = a
    <3>1. "release" \notin {"work", "output", "notFound"}
      OBVIOUS
    <3> QED
      BY <1>8, <2>2, <3>1, KnowsNothing, Zenon
  <2>3. CASE b # a
    <3>1. KnowsPod(b) /\ action'[b] = action[b] /\ expired \subseteq expired'
      BY <1>0, <1>8, <2>3, Zenon DEF PodInv
    <3> QED
      BY <1>0, <1>2, <2>1, <3>1, KnowledgeStays, Zenon
  <2> QED
    BY <2>2, <2>3, Zenon
<1> QED
  BY <1>2, <1>13, <1>14, <1>15, Zenon DEF PodInv

\* A pod that is not the newest of its series goes.
LEMMA TerminateStep ==
  ASSUME PodInv, HandlerInv, NEW p, PodHandler!Terminate(p)
  PROVE  PodInv'
<1>0. /\ scene' = scene /\ action' = action /\ expired' = expired /\ nameCache' = nameCache /\ uidCache' = uidCache
      /\ p \in pods /\ p # PodHandler!Newest(p.series) /\ pods' = pods \ {p}
  BY Zenon DEF PodHandler!Terminate
<1>1. PodTypes /\ pods' \subseteq [series : PodSeries, gen : Nat]
  BY <1>0, Zenon DEF PodInv, PodTypes
<1>2. ASSUME NEW t \in PodSeries, NEW k \in Nat, Top(t, k)
      PROVE  Top(t, k)'
  <2>1. PodHandler!Newest(t) = [series |-> t, gen |-> k]
    BY <1>1, <1>2, LastIs, Zenon DEF PodHandler!Newest, Last, PodTypes
  <2>2. [series |-> t, gen |-> k].series = t
    BY Zenon
  <2>3. p # [series |-> t, gen |-> k]
    BY <1>0, <2>1, <2>2, Zenon
  <2> QED
    BY <1>0, <1>2, <2>3, Zenon DEF Top
<1>3. PodTypes'
  <2>1. \A t \in PodSeries : \E k \in Nat : Top(t, k)'
    BY <1>1, <1>2, Zenon DEF PodTypes
  <2> QED
    BY <1>0, <1>1, <2>1, Zenon DEF PodTypes
<1>4. ASSUME NEW t \in PodSeries
      PROVE  Last(t)' = Last(t) /\ Last(t) <= Last(t)'
  <2>1. PICK k \in Nat : Top(t, k)
    BY <1>1, Zenon DEF PodTypes
  <2>2. Last(t) = k
    BY <1>1, <2>1, LastIs, Zenon DEF PodTypes
  <2>3. Last(t)' = k
    BY <1>1, <1>2, <2>1, LastIsNext, Zenon
  <2> QED
    BY <2>2, <2>3
<1>5. ChainsInv' /\ NamesInv'
  <2>1. \A t : Pending(t)' <=> Pending(t)
    BY <1>0, Zenon DEF Pending
  <2>2. expired \subseteq expired'
    BY <1>0, Zenon
  <2> QED
    BY <1>0, <1>1, <1>3, <1>4, <2>1, <2>2, ChainsStay, Zenon DEF PodInv
<1>6. ASSUME NEW b \in PodActionIds
      PROVE  KnowsPod(b)'
  <2>1. scene.target[b].series \in PodSeries
    BY <1>1, TargetIsSeries, Zenon
  <2>2. Last(scene.target[b].series)' = Last(scene.target[b].series)
    BY <1>0, <1>4, <2>1, Zenon
  <2>3. KnowsPod(b) /\ action'[b] = action[b] /\ expired \subseteq expired'
    BY <1>0, Zenon DEF PodInv
  <2> QED
    BY <1>0, <1>1, <1>3, <1>4, <2>2, <2>3, KnowledgeStays, Zenon
<1> QED
  BY <1>3, <1>5, <1>6, Zenon DEF PodInv

\* A series that is still reachable has its entries.
LEMMA KeptStep ==
  ASSUME PodInv, UNCHANGED <<scene, pods, action>>, expired \subseteq expired',
         \A s \in PodSeries : s \notin expired' =>
           /\ Kept(uidCache', uidCache, s, 0) /\ Kept(nameCache', nameCache, s, 1)
           /\ Web \in DOMAIN nameCache => Web \in DOMAIN nameCache',
         \A n \in DOMAIN nameCache' : n \in DOMAIN nameCache /\ nameCache'[n] = nameCache[n]
  PROVE  PodInv'
<1>0. scene' = scene /\ pods' = pods /\ action' = action
  BY Zenon
<1>1. PodTypes /\ PodTypes' /\ \A t : Last(t)' = Last(t)
  BY <1>0, SamePods, Zenon DEF PodInv
<1>2. \A t \in PodSeries : Last(t) <= Last(t)'
  <2>1. \A t \in PodSeries : Last(t) \in Nat /\ Last(t)' = Last(t)
    BY <1>1, NewestIs, Zenon
  <2> QED
    BY <2>1
<1>3. ASSUME NEW t \in PodSeries, PodHandler!Reachable(t)'
      PROVE  PodHandler!Reachable(t) /\ t \notin expired'
  <2>1. PodHandler!Reachable(t)
    BY <1>1, <1>2, <1>3, StillReachable, Zenon
  <2> QED
    BY <1>3, <2>1, Zenon DEF PodHandler!Reachable
<1>4. \A t : Pending(t)' <=> Pending(t)
  BY <1>0, Zenon DEF Pending
<1>5. ASSUME NEW t, NEW from
      PROVE  /\ Kept(uidCache', uidCache, t, from) /\ Chain(uidCache, t, from) => Chain(uidCache, t, from)'
             /\ Kept(nameCache', nameCache, t, from) /\ Chain(nameCache, t, from) => Chain(nameCache, t, from)'
  <2>1. Last(t)' = Last(t) /\ (Pending(t)' <=> Pending(t))
    BY <1>1, <1>4, Zenon
  <2>2. Kept(uidCache', uidCache, t, from) /\ Chain(uidCache, t, from) => Chain(uidCache, t, from)'
    BY <2>1, Zenon DEF Chain, Kept
  <2>3. Kept(nameCache', nameCache, t, from) /\ Chain(nameCache, t, from) => Chain(nameCache, t, from)'
    BY <2>1, Zenon DEF Chain, Kept
  <2> QED
    BY <2>2, <2>3, Zenon
<1>6. ChainsInv'
  <2> SUFFICES ASSUME NEW t \in PodSeries, PodHandler!Reachable(t)'
               PROVE  /\ Chain(uidCache, t, 0)' /\ Chain(nameCache, t, 1)'
                      /\ Last(t)' > 0 => Web \in DOMAIN nameCache' \/ (Last(t)' = 1 /\ Pending(t)')
    BY Zenon DEF ChainsInv, Web
  <2>1. /\ Chain(uidCache, t, 0) /\ Chain(nameCache, t, 1) /\ t \notin expired'
        /\ Last(t) > 0 => Web \in DOMAIN nameCache \/ (Last(t) = 1 /\ Pending(t))
    BY <1>3, Zenon DEF PodInv, ChainsInv
  <2>2. /\ Kept(uidCache', uidCache, t, 0) /\ Kept(nameCache', nameCache, t, 1)
        /\ Web \in DOMAIN nameCache => Web \in DOMAIN nameCache'
    BY <2>1, Zenon
  <2> QED
    BY <1>1, <1>4, <1>5, <2>1, <2>2, Zenon
<1>7. NamesInv'
  <2>1. ASSUME Web \in DOMAIN nameCache'
        PROVE  \E t \in PodSeries, h \in Nat :
                 /\ h >= 1 /\ nameCache'[Web] = <<t, h>> /\ Last(t)' > 0
                 /\ PodHandler!Reachable(t)' => h = 1
    <3>1. Web \in DOMAIN nameCache /\ nameCache'[Web] = nameCache[Web]
      BY <2>1, Zenon
    <3>2. PICK t \in PodSeries, h \in Nat :
            /\ h >= 1 /\ nameCache[Web] = <<t, h>> /\ Last(t) > 0
            /\ PodHandler!Reachable(t) => h = 1
      BY <3>1, Zenon DEF PodInv, NamesInv
    <3> QED
      BY <1>1, <1>3, <3>1, <3>2, Zenon
  <2>2. ASSUME NEW n \in DOMAIN nameCache' \ {Web}
        PROVE  \E t \in PodSeries, g, h \in Nat : g >= 1 /\ h >= 1 /\ n = <<t, g>> /\ nameCache'[n] = <<t, h>>
    <3>1. n \in DOMAIN nameCache /\ nameCache'[n] = nameCache[n] /\ n # Web
      BY <2>2, Zenon
    <3>2. PICK t \in PodSeries, g, h \in Nat : g >= 1 /\ h >= 1 /\ n = <<t, g>> /\ nameCache[n] = <<t, h>>
      BY <3>1, Zenon DEF PodInv, NamesInv
    <3> QED
      BY <3>1, <3>2, Zenon
  <2> QED
    BY <2>1, <2>2, Zenon DEF NamesInv, Web
<1>8. ASSUME NEW b \in PodActionIds
      PROVE  KnowsPod(b)'
  <2>1. KnowsPod(b) /\ action'[b] = action[b]
    BY <1>0, Zenon DEF PodInv
  <2> QED
    BY <1>0, <1>1, <1>2, <2>1, KnowledgeStays, Zenon
<1> QED
  BY <1>1, <1>6, <1>7, <1>8, Zenon DEF PodInv

\* All entries but one.
Dropped(next, cache, key) ==
  DOMAIN next = DOMAIN cache \ {key} /\ \A n \in DOMAIN cache : n # key => next[n] = cache[n]

LEMMA WithoutDrops ==
  ASSUME NEW cache, NEW key
  PROVE  Dropped(PodHandler!Without(cache, key), cache, key)
  BY Zenon DEF PodHandler!Without, Dropped

LEMMA DroppedElsewhere ==
  ASSUME NEW cache, NEW next, NEW key, Dropped(next, cache, key), NEW s, \A g \in Nat : <<s, g>> # key, NEW from
  PROVE  Kept(next, cache, s, from)
  BY Zenon DEF Dropped, Kept

\* With an entry a series is no longer reachable, or no series is.
LEMMA ExpireStep ==
  ASSUME PodInv, PodHandler!Expire
  PROVE  PodInv'
<1>0. scene' = scene /\ pods' = pods /\ action' = action
  BY Zenon DEF PodHandler!Expire
<1>1. \A c, s, from : Kept(c, c, s, from)
  BY Zenon DEF Kept
<1>2. ASSUME NEW n \in DOMAIN nameCache, nameCache' = PodHandler!Without(nameCache, n), uidCache' = uidCache,
             expired' = expired \cup (IF n[1] = "web" THEN PodSeries ELSE {n[1]})
      PROVE  PodInv'
  <2>1. Dropped(nameCache', nameCache, n) /\ expired \subseteq expired'
    BY <1>2, WithoutDrops, Zenon
  <2>2. \A k \in DOMAIN nameCache' : k \in DOMAIN nameCache /\ nameCache'[k] = nameCache[k]
    BY <2>1, Zenon DEF Dropped
  <2>3. CASE n = Web
    <3>1. n[1] = "web"
      BY <2>3 DEF Web
    <3>2. \A s \in PodSeries : s \in expired'
      BY <1>2, <3>1, Zenon
    <3> QED
      BY <1>0, <2>1, <2>2, <3>2, KeptStep, Zenon
  <2>4. CASE n # Web
    <3>1. PICK t \in PodSeries, g, h \in Nat : g >= 1 /\ h >= 1 /\ n = <<t, g>> /\ nameCache[n] = <<t, h>>
      BY <1>2, <2>4, Zenon DEF PodInv, NamesInv
    <3>2. n[1] = t
      BY <3>1
    <3>3. t \in expired'
      BY <1>2, <3>2, Zenon
    <3>4. ASSUME NEW s \in PodSeries, s \notin expired'
          PROVE  /\ Kept(uidCache', uidCache, s, 0) /\ Kept(nameCache', nameCache, s, 1)
                 /\ Web \in DOMAIN nameCache => Web \in DOMAIN nameCache'
      <4>1. \A i \in Nat : <<s, i>> # n
        BY <3>1, <3>3, <3>4
      <4>2. Kept(nameCache', nameCache, s, 1)
        BY <2>1, <4>1, DroppedElsewhere, Zenon
      <4> QED
        BY <1>1, <1>2, <2>1, <2>4, <4>2, Zenon DEF Dropped
    <3> QED
      BY <1>0, <2>1, <2>2, <3>4, KeptStep, Zenon
  <2> QED
    BY <2>3, <2>4, Zenon
<1>3. ASSUME NEW u \in DOMAIN uidCache, uidCache' = PodHandler!Without(uidCache, u), nameCache' = nameCache,
             expired' = expired \cup {u[1]}
      PROVE  PodInv'
  <2>1. Dropped(uidCache', uidCache, u) /\ expired \subseteq expired' /\ u[1] \in expired'
    BY <1>3, WithoutDrops, Zenon
  <2>2. ASSUME NEW s \in PodSeries, s \notin expired'
        PROVE  /\ Kept(uidCache', uidCache, s, 0) /\ Kept(nameCache', nameCache, s, 1)
               /\ Web \in DOMAIN nameCache => Web \in DOMAIN nameCache'
    <3>1. \A h : <<s, h>>[1] = s
      OBVIOUS
    <3>2. \A h \in Nat : <<s, h>> # u
      BY <2>1, <2>2, <3>1, Zenon
    <3>3. Kept(uidCache', uidCache, s, 0)
      BY <2>1, <3>2, DroppedElsewhere, Zenon
    <3> QED
      BY <1>1, <1>3, <3>3, Zenon
  <2> QED
    BY <1>0, <1>3, <2>1, <2>2, KeptStep, Zenon
<1> QED
  BY <1>2, <1>3, Zenon DEF PodHandler!Expire

\* A step of an action that has no pod, or gives it up.
LEMMA PlainStep ==
  ASSUME PodInv, HandlerInv, NEW a \in PodActionIds, UNCHANGED <<scene, pods, nameCache, uidCache, expired>>,
         NEW r, action' = [action EXCEPT ![a] = r], action[a].at # "output",
         r.at \in {"rejected", "key", "lock", "pod", "release", "failed", "done"}
  PROVE  PodInv'
<1>1. r.at \notin {"work", "output", "notFound"}
  OBVIOUS
<1>2. action'[a] = r
  BY Zenon DEF HandlerInv
<1>3. KnowsPod(a)'
  BY <1>1, <1>2, KnowsNothing, Zenon
<1> QED
  BY <1>1, <1>3, QuietStep, Zenon

LEMMA PlainEnd ==
  ASSUME PodInv, HandlerInv, NEW a \in PodActionIds, UNCHANGED <<scene, pods, nameCache, uidCache, expired>>,
         NEW at \in {"rejected", "failed", "done"}, PodHandler!End(a, at), action[a].at # "output"
  PROVE  PodInv'
<1> DEFINE r == [at |-> at, key |-> <<"image", 0>>, pod |-> PodHandler!NoPod, new |-> PodHandler!NoPod]
<1>1. action' = [action EXCEPT ![a] = r] /\ r.at = at
  BY Zenon DEF PodHandler!End
<1> HIDE DEF r
<1> QED
  BY <1>1, PlainStep, Zenon

LEMMA PodStep ==
  ASSUME PodInv, HandlerInv, NEW a \in PodActionIds, PodHandler!Handler(a)
  PROVE  PodInv'
<1>0. a \in DOMAIN action /\ DOMAIN action[a] = {"at", "key", "pod", "new"}
  BY Zenon DEF HandlerInv
<1>1. CASE PodHandler!CheckActionExecutionDTO(a) \/ PodHandler!Return(a)
  <2>1. UNCHANGED <<scene, pods, nameCache, uidCache, expired>> /\ action[a].at # "output"
    BY <1>1 DEF PodHandler!CheckActionExecutionDTO, PodHandler!Return, PodHandler!podState, PodHandler!At
  <2> QED
    BY <1>1, <2>1, PlainEnd, Zenon DEF PodHandler!CheckActionExecutionDTO, PodHandler!Return
<1>2. CASE PodHandler!ExecuteAction(a)
  <2>1. UNCHANGED <<scene, pods, nameCache, uidCache, expired>> /\ action[a].at # "output"
    BY <1>2 DEF PodHandler!ExecuteAction, PodHandler!podState, PodHandler!At
  <2> DEFINE r == [action[a] EXCEPT !.at = "key"]
  <2>2. action' = [action EXCEPT ![a] = r] /\ r.at = "key"
    BY <1>0, <1>2, Zenon DEF PodHandler!ExecuteAction
  <2> HIDE DEF r
  <2> QED
    BY <2>1, <2>2, PlainStep, Zenon
<1>3. CASE PodHandler!GetLockKey(a)
  <2>1. UNCHANGED <<scene, pods, nameCache, uidCache, expired>> /\ action[a].at # "output"
    BY <1>3 DEF PodHandler!GetLockKey, PodHandler!podState, PodHandler!At
  <2>2. ASSUME NEW k, action' = [action EXCEPT ![a].at = "lock", ![a].key = k]
        PROVE  PodInv'
    <3> DEFINE r == [action[a] EXCEPT !.at = "lock", !.key = k]
    <3>1. action' = [action EXCEPT ![a] = r] /\ r.at = "lock"
      BY <1>0, <2>2, Zenon
    <3> HIDE DEF r
    <3> QED
      BY <2>1, <3>1, PlainStep, Zenon
  <2> QED
    BY <1>3, <2>1, <2>2, PlainEnd, Zenon DEF PodHandler!GetLockKey
<1>4. CASE PodHandler!GetLockHelper(a)
  <2>1. UNCHANGED <<scene, pods, nameCache, uidCache, expired>> /\ action[a].at # "output"
    BY <1>4 DEF PodHandler!GetLockHelper, PodHandler!podState, PodHandler!At
  <2>2. ASSUME action' = [action EXCEPT ![a].at = "pod"]
        PROVE  PodInv'
    <3> DEFINE r == [action[a] EXCEPT !.at = "pod"]
    <3>1. action' = [action EXCEPT ![a] = r] /\ r.at = "pod"
      BY <1>0, <2>2, Zenon
    <3> HIDE DEF r
    <3> QED
      BY <2>1, <3>1, PlainStep, Zenon
  <2> QED
    BY <1>4, <2>1, <2>2, PlainEnd, Zenon DEF PodHandler!GetLockHelper
<1>5. CASE PodHandler!Work(a)
  <2>1. UNCHANGED <<scene, nameCache, uidCache, expired>> /\ action[a].at = "work"
    BY <1>5, Zenon DEF PodHandler!Work, PodHandler!At
  <2>2. action[a].at # "output"
    BY <2>1
  <2>3. CASE PodHandler!End(a, "failed") /\ UNCHANGED pods
    BY <2>1, <2>2, <2>3, PlainEnd, Zenon
  <2>4. CASE action' = [action EXCEPT ![a].at = "release"] /\ UNCHANGED <<pods>>
    <3> DEFINE r == [action[a] EXCEPT !.at = "release"]
    <3>1. action' = [action EXCEPT ![a] = r] /\ r.at = "release"
      BY <1>0, <2>4, Zenon
    <3> HIDE DEF r
    <3> QED
      BY <2>1, <2>2, <2>4, <3>1, PlainStep, Zenon
  <2>5. ASSUME NEW new, new = [PodHandler!Newest(scene.target[a].series) EXCEPT !.gen = @ + 1],
               pods' = pods \cup {new}, action' = [action EXCEPT ![a].at = "output", ![a].new = new]
        PROVE  PodInv'
    BY <2>1, <2>5, ReplaceStep, Zenon
  <2> QED
    BY <1>5, <2>3, <2>4, <2>5, Zenon DEF PodHandler!Work
<1> QED
  BY <1>1, <1>2, <1>3, <1>4, <1>5, DispatchStep, OutputStep, Zenon DEF PodHandler!Handler

(* An action that has its lock works on the newest pod of its series, and  *)
(* finds it, while the cached chain of replacements is complete and not    *)
(* longer than the handler follows it; otherwise it finds none only if the *)
(* first name leads to another namespace (getRelatedPod, getLatestValue,   *)
(* GetRunningPod, CachePod).                                               *)
THEOREM NewestIsUsed == PodHandler!Spec => []NewestPodUsed
<1> DEFINE Inv == HandlerInv /\ PodInv
<1>1. PodHandler!Init => Inv
  <2> SUFFICES ASSUME PodHandler!Init PROVE Inv
    BY Zenon
  <2>1. HandlerInv
    BY DEF PodHandler!Init, PodHandler!Holds, HandlerInv
  <2>2. ASSUME NEW s \in PodSeries
        PROVE  Top(s, 0)
    <3>1. pods = {[series |-> t, gen |-> 0] : t \in PodSeries}
      BY Zenon DEF PodHandler!Init, PodHandler!First
    <3>2. \A t : [series |-> t, gen |-> 0].gen = 0
      OBVIOUS
    <3>3. [series |-> s, gen |-> 0] \in pods /\ \A p \in pods : p.gen = 0
      BY <3>1, <3>2, Zenon
    <3>4. 0 <= 0
      OBVIOUS
    <3> QED
      BY <3>3, <3>4, Zenon DEF Top
  <2>3. PodTypes
    <3>1. pods \subseteq [series : PodSeries, gen : Nat] /\ scene \in PodScenarios
      BY DEF PodHandler!Init, PodHandler!First
    <3>2. 0 \in Nat
      OBVIOUS
    <3> QED
      BY <2>2, <3>1, <3>2, Zenon DEF PodTypes
  <2>4. \A s \in PodSeries : Last(s) = 0
    BY <2>2, <2>3, LastIs DEF PodTypes
  <2>5. DOMAIN nameCache = {} /\ DOMAIN uidCache = {}
    BY Zenon DEF PodHandler!Init
  <2>6. ChainsInv
    <3>1. ~(0 > 0) /\ \A g \in Nat : ~(g < 0)
      OBVIOUS
    <3> QED
      BY <2>4, <2>5, <3>1, Zenon DEF ChainsInv, Chain
  <2>7. NamesInv
    BY <2>5, Zenon DEF NamesInv
  <2>8. \A a \in PodActionIds : KnowsPod(a)
    <3>1. \A a \in PodActionIds : action[a].at = "new"
      BY Zenon DEF PodHandler!Init
    <3>2. "new" \notin {"work", "output"} /\ "new" # "work" /\ "new" # "output" /\ "new" # "notFound"
      OBVIOUS
    <3> QED
      BY <3>1, <3>2, Zenon DEF KnowsPod
  <2> QED
    BY <2>1, <2>3, <2>6, <2>7, <2>8, Zenon DEF PodInv
<1>2. Inv /\ [PodHandler!Next]_(PodHandler!vars) => Inv'
  <2> SUFFICES ASSUME HandlerInv, PodInv, [PodHandler!Next]_(PodHandler!vars) PROVE Inv'
    BY Zenon
  <2>1. ASSUME NEW a \in PodActionIds, PodHandler!Handler(a) PROVE Inv'
    BY <2>1, HandlerStep, PodStep, Zenon
  <2>2. ASSUME scene' = scene, action' = action PROVE HandlerInv'
    BY <2>2 DEF HandlerInv, PodHandler!Holds, TargetKey
  <2>3. CASE UNCHANGED <<scene, pods, nameCache, uidCache, action, expired>>
    <3>1. /\ scene' = scene /\ pods' = pods /\ nameCache' = nameCache /\ uidCache' = uidCache /\ action' = action
          /\ expired \subseteq expired'
      BY <2>3, Zenon
    <3>2. \A c, s, from : Kept(c, c, s, from)
      BY Zenon DEF Kept
    <3>3. PodInv'
      BY <3>1, <3>2, KeptStep, Zenon
    <3> QED
      BY <2>2, <3>1, <3>3, Zenon
  <2>4. ASSUME NEW p, PodHandler!Terminate(p) PROVE Inv'
    <3>1. scene' = scene /\ action' = action
      BY <2>4, Zenon DEF PodHandler!Terminate
    <3> QED
      BY <2>2, <2>4, <3>1, TerminateStep, Zenon
  <2>5. CASE PodHandler!Expire
    <3>1. scene' = scene /\ action' = action
      BY <2>5, Zenon DEF PodHandler!Expire
    <3> QED
      BY <2>2, <2>5, <3>1, ExpireStep, Zenon
  <2>6. ASSUME NEW a, PodHandler!Report(a) \/ PodHandler!AwaitStop(a) PROVE Inv'
    BY <2>3, <2>6, Zenon DEF PodHandler!Report, PodHandler!AwaitStop, PodHandler!podState
  <2>7. CASE PodHandler!Rest \/ UNCHANGED PodHandler!vars
    BY <2>3, <2>7, Zenon DEF PodHandler!Rest, PodHandler!vars
  <2> QED
    BY <2>1, <2>4, <2>5, <2>6, <2>7, Zenon DEF PodHandler!Next
<1>3. Inv => NewestPodUsed
  BY Zenon DEF PodInv, KnowsPod, Last, NewestPodUsed, PodHandler!NewestPodUsed, PodHandler!At
<1> HIDE DEF Inv
<1> QED
  BY <1>1, <1>2, <1>3, PTL DEF PodHandler!Spec

-----------------------------------------------------------------------------
(* The lease lock.  What holds however late a renewal is (VersionsDistinct *)
(* and LiveLeaseProtected) rests on FreshVersions.  Mutual exclusion needs *)
(* renewals that come in time (Timely) and rests on LeaseCovers: the lease *)
(* of a running action is in the map under the action's version and        *)
(* outlives the latest moment of its next renewal.                         *)

\* Versions come from the generation counter and no two helpers share one.
FreshVersions ==
    /\ \A k \in Keys : version[k] <= generation
    /\ \A h \in Helpers : ver[h] <= generation
    /\ VersionsDistinct

\* What the helper's own fields say at each point of its life.
HelperShape ==
    \A h \in Helpers :
      /\ pc[h] \in {"new", "trying", "failed"} => renewer[h] = "off" /\ timer[h] = 0
      /\ pc[h] = "acquired" => renewer[h] = "off"
      /\ stopped[h] => pc[h] = "done"

\* The lease of a running action outlives the next renewal, if renewals are timely.
LeaseCovers ==
    Timely => \A h \in Helpers : Running(h) =>
      /\ ver[h] # 0
      /\ version[KeyOf[h]] = ver[h]
      /\ pc[h] = "held" => renewer[h] \in {"loop", "touch"}
      /\ left[KeyOf[h]] >= timer[h] + (TTL - Interval)

\* The inductive invariant behind MutualExclusion.
LeaseInv == TypeOK /\ FreshVersions /\ HelperShape /\ LeaseCovers
------------------------------------------------------------------------------
\* Half a ttl is a natural number below the ttl.
LEMMA IntervalFact == Interval \in Nat /\ Interval <= TTL
  BY TimeAssumption, SMT DEF Interval

\* The initial state is well typed.
LEMMA TypeCorrectInit == Init => TypeOK
  BY TimeAssumption DEF Init, TypeOK

\* Every step keeps the state well typed.
LEMMA TypeCorrectStep == TypeOK /\ [Next]_vars => TypeOK'
<1> SUFFICES ASSUME TypeOK, [Next]_vars PROVE TypeOK'
  BY Zenon
<1> USE TimeAssumption, KeyAssumption
<1>1. ASSUME NEW h \in Helpers, NewLockHelper(h) PROVE TypeOK'
  BY <1>1, Zenon DEF NewLockHelper, TypeOK, mapVars
<1>2. ASSUME NEW h \in Helpers, AcquireLock(h) PROVE TypeOK'
  BY <1>2 DEF AcquireLock, TypeOK
<1>3. ASSUME NEW h \in Helpers, Timeout(h) PROVE TypeOK'
  BY <1>3 DEF Timeout, TypeOK, mapVars
<1>4. ASSUME NEW h \in Helpers, KeepRenewLock(h) PROVE TypeOK'
  BY <1>4, Zenon DEF KeepRenewLock, TypeOK, mapVars
<1>5. ASSUME NEW h \in Helpers, RenewSelect(h) PROVE TypeOK'
  BY <1>5 DEF RenewSelect, TypeOK, mapVars
<1>6. ASSUME NEW h \in Helpers, RenewLock(h) PROVE TypeOK'
  BY <1>6, IntervalFact DEF RenewLock, TypeOK
<1>7. ASSUME NEW h \in Helpers, RenewFail(h) PROVE TypeOK'
  BY <1>7 DEF RenewFail, TypeOK, mapVars
<1>8. ASSUME NEW h \in Helpers, ReleaseLock(h) PROVE TypeOK'
  BY <1>8 DEF ReleaseLock, TypeOK
<1>9. ASSUME NEW h \in Helpers, StopRenew(h) PROVE TypeOK'
  BY <1>9, Zenon DEF StopRenew, TypeOK, mapVars
<1>10. CASE GetExpiredKeys
  BY <1>10, Zenon DEF GetExpiredKeys, TypeOK, mapVars, helperVars
<1>11. ASSUME NEW k \in Keys, ExpireItem(k) PROVE TypeOK'
  BY <1>11, Zenon DEF ExpireItem, TypeOK, helperVars
<1>12. CASE Tick
  BY <1>12 DEF Tick, TypeOK, Renewing
<1>13. CASE UNCHANGED vars
  BY <1>13, Zenon DEF TypeOK, vars
<1> QED
  BY <1>1, <1>2, <1>3, <1>4, <1>5, <1>6, <1>7, <1>8, <1>9, <1>10, <1>11, <1>12, <1>13, Zenon
  DEF Next, HelperStep, RenewerStep, Sweep

\* The state the ExpirationMap and the helpers keep stays within its types.
THEOREM TypeCorrect == Spec => []TypeOK
  BY TypeCorrectInit, TypeCorrectStep, PTL DEF Spec
------------------------------------------------------------------------------
\* Add hands out a version no entry and no helper has.
LEMMA FreshStep == TypeOK /\ FreshVersions /\ [Next]_vars => FreshVersions'
<1> SUFFICES ASSUME TypeOK, FreshVersions, [Next]_vars PROVE FreshVersions'
  BY Zenon
<1> USE KeyAssumption DEF TypeOK, FreshVersions, VersionsDistinct
<1>1. ASSUME NEW h \in Helpers, AcquireLock(h) PROVE FreshVersions'
  BY <1>1 DEF AcquireLock
<1>2. ASSUME NEW h \in Helpers, ReleaseLock(h) PROVE FreshVersions'
  BY <1>2 DEF ReleaseLock
<1>3. ASSUME NEW k \in Keys, ExpireItem(k) PROVE FreshVersions'
  BY <1>3 DEF ExpireItem, helperVars
<1>4. CASE UNCHANGED <<generation, version, ver>>
  BY <1>4, Zenon
<1> QED
  BY <1>1, <1>2, <1>3, <1>4, Zenon
  DEF Next, HelperStep, RenewerStep, Sweep, NewLockHelper, Timeout, KeepRenewLock, RenewSelect,
      RenewLock, RenewFail, StopRenew, GetExpiredKeys, Tick, vars, mapVars, helperVars

\* No two helpers ever carry the same version, however late the renewals are:
\* the version check of ExpirationMap.Del and Touch tells every helper apart.
THEOREM LateHelperIsHarmless == Spec => []VersionsDistinct
<1>1. Init => FreshVersions
  BY DEF Init, FreshVersions, VersionsDistinct
<1>2. FreshVersions => VersionsDistinct
  BY Zenon DEF FreshVersions
<1> QED
  BY <1>1, <1>2, FreshStep, TypeCorrect, PTL DEF Spec

\* A lease that has not expired leaves the map only by the ReleaseLock of the
\* helper that took it, however late the renewals are.
THEOREM LiveLeaseIsProtected == Spec => LiveLeaseProtected
<1> DEFINE Protected ==
      \A k \in Keys :
         version[k] # 0 /\ ~IsExpire(k) /\ version'[k] # version[k] =>
           /\ version'[k] = 0
           /\ \E h \in Helpers : KeyOf[h] = k /\ ver[h] = version[k] /\ ReleaseLock(h)
<1>1. TypeOK /\ [Next]_vars => [Protected]_vars
  <2> SUFFICES ASSUME TypeOK, Next PROVE Protected
    BY Zenon
  <2> SUFFICES ASSUME NEW k \in Keys, version[k] # 0, ~IsExpire(k), version'[k] # version[k]
               PROVE  /\ version'[k] = 0
                      /\ \E h \in Helpers : KeyOf[h] = k /\ ver[h] = version[k] /\ ReleaseLock(h)
    BY Zenon
  <2>1. ASSUME NEW h \in Helpers, ReleaseLock(h)
        PROVE  version'[k] = 0 /\ KeyOf[h] = k /\ ver[h] = version[k]
    BY <2>1, Zenon DEF ReleaseLock, TypeOK
  <2>2. ASSUME NEW h \in Helpers, AcquireLock(h) PROVE FALSE
    BY <2>2, Zenon DEF AcquireLock, TypeOK
  <2>3. ASSUME NEW j \in Keys, ExpireItem(j) PROVE FALSE
    BY <2>3, Zenon DEF ExpireItem, TypeOK
  <2>4. version' # version
    BY Zenon
  <2> QED
    BY <2>1, <2>2, <2>3, <2>4, Zenon
    DEF Next, HelperStep, RenewerStep, Sweep, NewLockHelper, Timeout, KeepRenewLock, RenewSelect,
        RenewLock, RenewFail, StopRenew, GetExpiredKeys, Tick, mapVars, helperVars
<1> QED
  BY <1>1, TypeCorrect, PTL DEF Spec, LiveLeaseProtected
------------------------------------------------------------------------------
\* The fields of a helper keep their shape.
LEMMA ShapeStep == TypeOK /\ HelperShape /\ [Next]_vars => HelperShape'
<1> SUFFICES ASSUME TypeOK, HelperShape, [Next]_vars PROVE HelperShape'
  BY Zenon
<1> USE DEF TypeOK, HelperShape
<1>1. ASSUME NEW h \in Helpers, HelperStep(h) PROVE HelperShape'
  BY <1>1 DEF HelperStep, NewLockHelper, AcquireLock, Timeout, KeepRenewLock, ReleaseLock, StopRenew
<1>2. ASSUME NEW h \in Helpers, RenewerStep(h) PROVE HelperShape'
  <2>1. CASE RenewSelect(h)
    BY <2>1 DEF RenewSelect
  <2>2. CASE RenewLock(h)
    BY <2>2 DEF RenewLock
  <2>3. CASE RenewFail(h)
    BY <2>3 DEF RenewFail
  <2> QED
    BY <1>2, <2>1, <2>2, <2>3, Zenon DEF RenewerStep
<1>3. CASE Sweep
  BY <1>3, Zenon DEF Sweep, GetExpiredKeys, ExpireItem, helperVars
<1>4. CASE Tick
  BY <1>4, Zenon DEF Tick, Renewing
<1>5. CASE UNCHANGED vars
  BY <1>5, Zenon DEF vars
<1> QED
  BY <1>1, <1>2, <1>3, <1>4, <1>5, ZenonT(30) DEF Next

\* How late renewals may be is fixed from the start.
LEMMA LagStep == [Next]_vars => lag' = lag
  BY Zenon DEF Next, HelperStep, RenewerStep, Sweep, NewLockHelper, AcquireLock, Timeout, KeepRenewLock,
      ReleaseLock, StopRenew, RenewSelect, RenewLock, RenewFail, GetExpiredKeys, ExpireItem, Tick, vars

\* With renewals that come in time the lease of a running action stays in the
\* map: it has not expired when Touch looks at it or the sweeper does.
LEMMA CoverStep == LeaseInv /\ [Next]_vars => LeaseCovers'
<1> SUFFICES ASSUME LeaseInv, [Next]_vars, Timely PROVE LeaseCovers'
  BY LagStep, Zenon DEF LeaseCovers, Timely
<1> SUFFICES ASSUME NEW g \in Helpers, Running(g)'
             PROVE  /\ ver'[g] # 0
                    /\ version'[KeyOf[g]] = ver'[g]
                    /\ pc'[g] = "held" => renewer'[g] \in {"loop", "touch"}
                    /\ left'[KeyOf[g]] >= timer'[g] + (TTL - Interval)
  BY Zenon DEF LeaseCovers, Running
<1> USE TimeAssumption, KeyAssumption, IntervalFact
    DEF LeaseInv, TypeOK, FreshVersions, VersionsDistinct, HelperShape, LeaseCovers, Timely, Running, IsExpire
<1>a. Timely'
  BY LagStep, Zenon
<1>0. Running(g) => left[KeyOf[g]] >= 0
  BY SMTT(30)
<1>1. ASSUME NEW h \in Helpers, NewLockHelper(h) \/ Timeout(h) \/ StopRenew(h) PROVE LeaseCovers'
  BY <1>1, SMTT(30) DEF NewLockHelper, Timeout, StopRenew, mapVars
<1>2. ASSUME NEW h \in Helpers, AcquireLock(h) PROVE LeaseCovers'
  BY <1>2, SMTT(30) DEF AcquireLock
<1>3. ASSUME NEW h \in Helpers, KeepRenewLock(h) PROVE LeaseCovers'
  BY <1>3, SMTT(30) DEF KeepRenewLock, mapVars
<1>4. ASSUME NEW h \in Helpers, RenewSelect(h) PROVE LeaseCovers'
  BY <1>4, SMTT(30) DEF RenewSelect, mapVars
<1>5. ASSUME NEW h \in Helpers, RenewLock(h) PROVE LeaseCovers'
  BY <1>5, SMTT(30) DEF RenewLock
<1>6. ASSUME NEW h \in Helpers, RenewFail(h) PROVE LeaseCovers'
  BY <1>6, SMTT(30) DEF RenewFail, mapVars
<1>7. ASSUME NEW h \in Helpers, ReleaseLock(h) PROVE LeaseCovers'
  BY <1>7 DEF ReleaseLock
<1>8. CASE GetExpiredKeys
  BY <1>8, Zenon DEF GetExpiredKeys, mapVars, helperVars
<1>9. ASSUME NEW k \in Keys, ExpireItem(k) PROVE LeaseCovers'
  BY <1>9, <1>0, SMTT(30) DEF ExpireItem, helperVars
<1>10. CASE Tick
  BY <1>10, <1>0 DEF Tick, Renewing
<1>11. CASE UNCHANGED vars
  BY <1>11, Zenon DEF vars
<1> QED
  BY <1>a, <1>1, <1>2, <1>3, <1>4, <1>5, <1>6, <1>7, <1>8, <1>9, <1>10, <1>11, ZenonT(30)
  DEF Next, HelperStep, RenewerStep, Sweep

\* The inductive invariant holds throughout.
LEMMA LeaseInvariant == Spec => []LeaseInv
<1>1. Init => LeaseInv
  BY TypeCorrectInit DEF Init, LeaseInv, FreshVersions, VersionsDistinct, HelperShape, LeaseCovers, Running
<1>2. LeaseInv /\ [Next]_vars => LeaseInv'
  BY TypeCorrectStep, FreshStep, ShapeStep, CoverStep, Zenon DEF LeaseInv
<1> QED
  BY <1>1, <1>2, PTL DEF Spec

\* Two actions of the same key never run under the lock at once, provided a
\* renewal goroutine is never later than the half ttl it leaves itself.
THEOREM LockIsExclusive == Spec => []MutualExclusion
<1>1. LeaseInv => MutualExclusion
  BY DEF LeaseInv, LeaseCovers, FreshVersions, VersionsDistinct, MutualExclusion, Timely
<1> QED
  BY <1>1, LeaseInvariant, PTL

\* Under the same proviso (without it no helper enters the abstract lock) the
\* lease map implements the abstract lock: taking the
\* entry is its Acquire, deleting it its Release, every other step is a stutter.
THEOREM LeaseLockImplementsMutex == Spec => ImplementsMutex
<1> USE KeyAssumption DEF holdersOf, enteredBy, Running
<1>1. Init => Mutex!MutexInit
  BY Zenon DEF Init, Mutex!MutexInit
<1>2. LeaseInv /\ [Next]_vars => [Mutex!MutexNext]_(Mutex!mutexVars)
  <2> SUFFICES ASSUME LeaseInv, [Next]_vars
               PROVE  [Mutex!MutexNext]_(Mutex!mutexVars)
    BY Zenon
  <2>0. Timely' = Timely
    BY LagStep, Zenon DEF Timely
  <2>a. CASE ~Timely
    BY <2>0, <2>a, Zenon DEF Mutex!mutexVars
  <2> SUFFICES ASSUME Timely, Timely' PROVE [Mutex!MutexNext]_(Mutex!mutexVars)
    BY <2>0, <2>a, Zenon
  <2> USE DEF LeaseInv, TypeOK
  <2>1. ASSUME NEW h \in Helpers, AcquireLock(h) PROVE Mutex!Acquire(h)
    <3>1. \A g \in Helpers : KeyOf[g] = KeyOf[h] => ~Running(g)
      BY <2>1, Zenon DEF AcquireLock, LeaseCovers
    <3>2. pc[h] = "trying" /\ pc' = [pc EXCEPT ![h] = "acquired"]
      BY <2>1, Zenon DEF AcquireLock
    <3>3. h \notin enteredBy /\ enteredBy' = enteredBy \cup {h}
      BY <3>2, Zenon
    <3>4. holdersOf[KeyOf[h]] = {}
      BY <3>1, Zenon
    <3>5. holdersOf' = [holdersOf EXCEPT ![KeyOf[h]] = {h}]
      <4>1. holdersOf'[KeyOf[h]] = {h}
        BY <3>1, <3>2, Zenon
      <4>2. \A k \in Keys : k # KeyOf[h] => holdersOf'[k] = holdersOf[k]
        BY <3>2, Zenon
      <4> QED
        BY <4>1, <4>2, Zenon
    <3> QED
      BY <3>3, <3>4, <3>5, Zenon DEF Mutex!Acquire
  <2>2. ASSUME NEW h \in Helpers, ReleaseLock(h) PROVE Mutex!Release(h)
    BY <2>2, Zenon DEF ReleaseLock, Mutex!Release
  <2>3. ASSUME NEW h \in Helpers,
               NewLockHelper(h) \/ Timeout(h) \/ KeepRenewLock(h) \/ StopRenew(h)
        PROVE  UNCHANGED <<holdersOf, enteredBy>>
    BY <2>3 DEF NewLockHelper, Timeout, KeepRenewLock, StopRenew
  <2>4. CASE UNCHANGED pc
    BY <2>4, Zenon DEF Mutex!mutexVars
  <2> QED
    BY <2>1, <2>2, <2>3, <2>4, Zenon
    DEF Next, HelperStep, RenewerStep, Sweep, RenewSelect, RenewLock, RenewFail, GetExpiredKeys,
        ExpireItem, Tick, vars, helperVars, Mutex!MutexNext, Mutex!mutexVars
<1> QED
  BY <1>1, <1>2, LeaseInvariant, PTL DEF Spec, ImplementsMutex, Mutex!MutexSpec
=============================================================================
