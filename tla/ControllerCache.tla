--------------------------- MODULE ControllerCache ---------------------------
(***************************************************************************)
(* The cache of the pods' controllers kept by the cluster scraper          *)
(* (pkg/cluster/cluster_info_scraper.go).  A full discovery lists the      *)
(* pods, then the controllers, kind by kind, and then fills the cache from *)
(* these lists; the monitors, the entity builders and the executors of     *)
(* actions look a pod up in between, and one of them (the executor of a    *)
(* move) never trusts the cache but still writes to it.  Meanwhile a       *)
(* replica set can be orphaned and adopted by another deployment.  Entries *)
(* expire TTL ticks after they were written.                               *)
(***************************************************************************)
EXTENDS Integers

CONSTANTS
  Pods, Sets, Deployments,
  None,
  ParentOf,      \* pod -> the replica set in its owner references, or None
  TTL,           \* lifetime of a cache entry
  MaxDiscovery,  \* bound on the ticks between listing and filling the cache
  MaxTime        \* bound on the clock

VARIABLES
  now,
  ownerOf,       \* replica set -> the deployment that owns it, or None
  changedAt,     \* replica set -> when its owner last changed
  cache,         \* pod -> [owner, expires], an entry of the scraper's cache
  listed,        \* replica set -> the owner the discovery's list shows
  listedAt,      \* when it was listed, None outside a discovery
  podToController  \* what the last discovery reported

ccVars == <<now, ownerOf, changedAt, cache, listed, listedAt, podToController>>

Owned == {p \in Pods : ParentOf[p] # None}

\* The grandparent of a pod of a replica set, or the set if nobody owns it.
Grandparent(s, owners) == IF owners[s] = None THEN s ELSE owners[s]
TrueOwner(p) == Grandparent(ParentOf[p], ownerOf)

NoEntry == [owner |-> None, expires |-> 0]
Cached(p) == cache[p].owner # None /\ now < cache[p].expires
Entry(owner) == [owner |-> owner, expires |-> now + TTL]

Tick ==
  /\ now < MaxTime
  /\ listedAt # None => now - listedAt < MaxDiscovery
  /\ now' = now + 1
  /\ UNCHANGED <<ownerOf, changedAt, cache, listed, listedAt, podToController>>

\* The cluster: a replica set is orphaned, or adopted.
ChangeOwner(s, d) ==
  /\ ownerOf[s] # d
  /\ ownerOf' = [ownerOf EXCEPT ![s] = d]
  /\ changedAt' = [changedAt EXCEPT ![s] = now]
  /\ UNCHANGED <<now, cache, listed, listedAt, podToController>>

\* cacheAllControllers: a kind that cannot be listed is skipped, so the map
\* of the controllers holds all replica sets or none.
CacheAllControllers ==
  /\ listedAt = None
  /\ listed' \in {ownerOf, [s \in {} |-> None]}
  /\ listedAt' = now
  /\ UNCHANGED <<now, ownerOf, changedAt, cache, podToController>>

\* The controller UpdatePodControllerCache finds for a pod: the cached one,
\* or the one in the lists; a controller that is not in the lists is taken
\* for a custom one, which stands for itself and is not cached.
FoundController(p) ==
  IF Cached(p) THEN cache[p].owner
  ELSE IF ParentOf[p] \in DOMAIN listed THEN Grandparent(ParentOf[p], listed)
  ELSE ParentOf[p]

\* Mutant: finding an entry renews it.
RenewOnHit ==
  /\ listedAt # None
  /\ podToController' = [p \in Owned |-> FoundController(p)]
  /\ cache' = [p \in Pods |->
                 IF p \in Owned /\ (Cached(p) \/ ParentOf[p] \in DOMAIN listed)
                 THEN Entry(FoundController(p)) ELSE cache[p]]
  /\ listedAt' = None
  /\ listed' = [s \in {} |-> None]
  /\ UNCHANGED <<now, ownerOf, changedAt>>

UpdatePodControllerCache ==
  /\ listedAt # None
  /\ podToController' = [p \in Owned |-> FoundController(p)]
  /\ cache' = [p \in Pods |->
                 IF p \in Owned /\ ~Cached(p) /\ ParentOf[p] \in DOMAIN listed
                 THEN Entry(FoundController(p)) ELSE cache[p]]
  /\ listedAt' = None
  /\ listed' = [s \in {} |-> None]
  /\ UNCHANGED <<now, ownerOf, changedAt>>

\* A look-up that misses the cache, or does not use it, asks the API server;
\* when the request fails the cache stays as it is.
GetPodControllerInfo(p, useCache) ==
  /\ p \in Owned
  /\ ~(useCache /\ Cached(p))
  /\ cache' = [cache EXCEPT ![p] = Entry(TrueOwner(p))]
  /\ UNCHANGED <<now, ownerOf, changedAt, listed, listedAt, podToController>>

Init ==
  /\ now = 0
  /\ ownerOf = [s \in Sets |-> CHOOSE d \in Deployments : TRUE]
  /\ changedAt = [s \in Sets |-> 0]
  /\ cache = [p \in Pods |-> NoEntry]
  /\ listed = [s \in {} |-> None]
  /\ listedAt = None
  /\ podToController = [p \in Owned |-> TrueOwner(p)]

Next ==
  \/ Tick
  \/ \E s \in Sets, d \in Deployments \cup {None} : ChangeOwner(s, d)
  \/ CacheAllControllers
  \/ UpdatePodControllerCache
  \/ \E p \in Pods, useCache \in BOOLEAN : GetPodControllerInfo(p, useCache)

Spec == Init /\ [][Next]_ccVars
-----------------------------------------------------------------------------
\* A cached owner is wrong for a bounded time only, although a discovery
\* writes what it listed some time ago, look-ups overwrite its entries and
\* its entries overwrite nothing that is still valid: it was the pod's owner
\* less than the entry's lifetime plus the length of a discovery ago.
StaleOwnerBounded ==
  \A p \in Owned : (Cached(p) /\ cache[p].owner # TrueOwner(p)) =>
    now - changedAt[ParentOf[p]] < TTL + MaxDiscovery
=============================================================================
