------------------------- MODULE ClusterValidation --------------------------
(***************************************************************************)
(* Validate of the discovery client: ConnectCluster and connectToNodes     *)
(* (pkg/discovery/processor/cluster_processor.go).  Workers take nodes     *)
(* from a closed channel until one of them gets an answer; the caller      *)
(* waits for the first answer or for the timeout, and drains the channel.  *)
(***************************************************************************)
EXTENDS Naturals, FiniteSets

CONSTANTS
  Nodes,     \* nodes of the cluster
  Checkers   \* the goroutines of checkNodesWorker: ValidationWorkers

VARIABLES
  listed,     \* the nodes GetAllNodes returned
  reachable,  \* nodes whose kubelet answers
  cached,     \* nodes the kubelet client has a summary of
  work,       \* nodes in the work channel
  done,       \* values in the done channel
  checker,    \* each checker: idle, the node it checks, or "gone"
  outcome     \* what ConnectCluster returned

vars == <<listed, reachable, cached, work, done, checker, outcome>>

\* connectToNodes has listed the nodes, started the checkers, filled the work
\* channel and closed it; or the cluster could not be asked for them.
Init ==
  /\ reachable \in SUBSET Nodes /\ cached \in SUBSET Nodes
  /\ done = 0
  /\ listed \in SUBSET Nodes
  /\ \/ work = listed /\ outcome = "none"
        /\ checker = [c \in Checkers |-> "idle"]
     \/ work = {} /\ outcome = "error"
        /\ checker = [c \in Checkers |-> "gone"]

\* Mutant: the end of the closed channel is not noticed.
TakeNodeUnclosed(c) ==
  /\ checker[c] = "idle"
  /\ \/ \E n \in work :
          /\ work' = work \ {n}
          /\ checker' = [checker EXCEPT ![c] = n]
     \/ /\ work = {}
        /\ UNCHANGED <<work, checker>>
  /\ UNCHANGED <<listed, reachable, cached, done, outcome>>

\* checkNodesWorker: the next node, or the end of the closed channel.
TakeNode(c) ==
  /\ checker[c] = "idle"
  /\ \/ \E n \in work :
          /\ work' = work \ {n}
          /\ checker' = [checker EXCEPT ![c] = n]
     \/ /\ work = {}
        /\ checker' = [checker EXCEPT ![c] = "gone"]
        /\ UNCHANGED work
  /\ UNCHANGED <<listed, reachable, cached, done, outcome>>

\* checkNode asks for the summary, which the kubelet client also finds in its
\* cache when the kubelet does not answer; one success ends the checker.
CheckNode(c) ==
  /\ checker[c] \in Nodes
  /\ IF checker[c] \in reachable \cup cached
       THEN /\ done < Cardinality(listed)
            /\ done' = done + 1
            /\ checker' = [checker EXCEPT ![c] = "gone"]
       ELSE /\ checker' = [checker EXCEPT ![c] = "idle"]
            /\ UNCHANGED done
  /\ UNCHANGED <<listed, reachable, cached, work, outcome>>

\* waitForCompletion returns; connectToNodes then drains the work channel.
Connected ==
  /\ outcome = "none" /\ done > 0
  /\ done' = done - 1 /\ outcome' = "connected"
  /\ UNCHANGED <<listed, reachable, cached, work, checker>>

TimesOut ==
  /\ outcome = "none"
  /\ outcome' = "timeout"
  /\ UNCHANGED <<listed, reachable, cached, work, done, checker>>

\* drainWorkQueue, one receive at a time beside the checkers.
DrainWorkQueue ==
  /\ outcome \in {"connected", "timeout"}
  /\ \E n \in work : work' = work \ {n}
  /\ UNCHANGED <<listed, reachable, cached, done, checker, outcome>>

\* A kubelet goes away or comes back while the nodes are checked.
KubeletChanges ==
  /\ outcome = "none"
  /\ \E n \in Nodes :
       reachable' = IF n \in reachable THEN reachable \ {n} ELSE reachable \cup {n}
  /\ UNCHANGED <<listed, cached, work, done, checker, outcome>>

AllGone == \A c \in Checkers : checker[c] = "gone"

Rest == outcome # "none" /\ work = {} /\ AllGone /\ UNCHANGED vars

Next ==
  \/ \E c \in Checkers : TakeNode(c) \/ CheckNode(c)
  \/ Connected \/ TimesOut \/ DrainWorkQueue \/ KubeletChanges \/ Rest

Spec == Init /\ [][Next]_vars

\* Validation goes on as long as one of its goroutines can: requests to kubelets
\* have timeouts, and so does waitForCompletion.
Fairness ==
  WF_vars(\/ \E c \in Checkers : TakeNode(c) \/ CheckNode(c)
          \/ Connected \/ TimesOut \/ DrainWorkQueue)

FairSpec == Spec /\ Fairness

-----------------------------------------------------------------------------
(* Properties.                                                             *)

\* Validation comes to an end: it returns, and every checker goroutine goes
\* away, also those in the middle of a check when it returned.
ValidationEnds == <>(outcome # "none" /\ AllGone)
=============================================================================
