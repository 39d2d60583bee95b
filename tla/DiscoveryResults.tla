-------------------------- MODULE DiscoveryResults --------------------------
(***************************************************************************)
(* What the dispatch-and-collect half of DiscoverWithNewFramework promises *)
(* its caller, with no workers, channels or timeouts in it: a discovery of *)
(* a set of nodes gathers the tasks' results in some order, at most one    *)
(* result for each node and none for another node, and returns when it has *)
(* a result for every node.                                                *)
(***************************************************************************)
CONSTANTS Nodes

VARIABLES open, want, got

vars == <<open, want, got>>

Result == [node : Nodes, ok : BOOLEAN]

Init == open = FALSE /\ want = {} /\ got = {}

Begin(ns) ==
  /\ ~open
  /\ open' = TRUE /\ want' = ns /\ got' = {}

Gather(r) ==
  /\ open
  /\ r.node \in want \ {g.node : g \in got}
  /\ got' = got \cup {r}
  /\ UNCHANGED <<open, want>>

End ==
  /\ open
  /\ {g.node : g \in got} = want
  /\ open' = FALSE /\ want' = {} /\ got' = {}

Next ==
  \/ \E ns \in SUBSET Nodes : Begin(ns)
  \/ \E r \in Result : Gather(r)
  \/ End

Spec == Init /\ [][Next]_vars
=============================================================================
