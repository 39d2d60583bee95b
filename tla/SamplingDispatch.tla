-------------------------- MODULE SamplingDispatch --------------------------
(***************************************************************************)
(* The SamplingDispatcher (pkg/discovery/worker/dispatcher.go): between two *)
(* full discoveries a scheduler goroutine starts a round of sampling tasks *)
(* at every tick; each round has a child goroutine that hands one task per *)
(* node to the sampling workers, and that the scheduler aborts when the    *)
(* round outlives the sampling interval.                                   *)
(*                                                                         *)
(* Sampling workers have no state of their own: sfree of them wait in the  *)
(* pool, young and old are scraping, and the rest are blocked on           *)
(* registering with a pool that has room for half of them.  A task is old  *)
(* once a tick has passed since it was assigned.  The interval is the      *)
(* period of the ticker, the timeout of a round and the timeout of a task, *)
(* so time is the ticks: no task is still running at the second tick after *)
(* it was assigned, and by then goroutines that could move have moved.     *)
(***************************************************************************)
EXTENDS Integers

CONSTANTS
  WorkerCount,     \* DiscoveryWorkers; there are twice as many samplers
  NodeCounts,      \* bound: numbers of nodes a discovery may have
  MaxDiscoveries,  \* bound: full discoveries
  MaxTicks         \* bound: ticks of the sampling tickers

VARIABLES
  client,     \* the client's place in DiscoverWithNewFramework
  era,        \* number of the current discovery
  sched,      \* the goroutine each ScheduleDispatch started
  timestamp,  \* has SamplingDispatcher.timestamp been set?
  collectedSamples,
  rounds,     \* child goroutines of dispatchSamplingDiscoveries
  ticks,      \* ticks so far
  sfree, young, old

samplers == <<sfree, young, old>>
vars == <<client, era, sched, timestamp, collectedSamples, rounds, ticks, samplers>>

Discoveries == 1..MaxDiscoveries
SamplerCount == 2 * WorkerCount
Registering == SamplerCount - sfree - young - old

Init ==
  /\ client = "idle" /\ era = 0
  /\ sched = [d \in Discoveries |-> [st |-> "off", count |-> 0]]
  /\ timestamp = FALSE /\ collectedSamples = 0 /\ rounds = {} /\ ticks = 0
  /\ sfree = WorkerCount /\ young = 0 /\ old = 0

-----------------------------------------------------------------------------
(* The client.                                                             *)

\* DiscoverCluster has succeeded; a discovery whose DiscoverCluster fails
\* never comes here and leaves the scheduler running.
BeginDiscovery ==
  /\ client = "idle" /\ era < MaxDiscoveries
  /\ client' = "finish" /\ era' = era + 1
  /\ UNCHANGED <<sched, timestamp, collectedSamples, rounds, ticks, samplers>>

\* Mutant: the client polls until there is a sample.
FinishSamplingPolls ==
  /\ client = "finish"
  /\ \/ timestamp /\ collectedSamples = 0 /\ UNCHANGED vars
     \/ /\ ~timestamp /\ client' = "full"
        /\ UNCHANGED <<era, sched, timestamp, collectedSamples, rounds, ticks, samplers>>
     \/ /\ timestamp /\ collectedSamples > 0 /\ client' = "full"
        /\ \E d \in Discoveries :
             sched[d].st = "wait" /\ sched' = [sched EXCEPT ![d].st = "off"]
        /\ collectedSamples' = 0
        /\ UNCHANGED <<era, timestamp, rounds, ticks, samplers>>

\* FinishSampling: the send on the unbuffered channel meets a scheduler that is
\* in its select, which then returns.
FinishSampling ==
  /\ client = "finish"
  /\ client' = "full"
  /\ \/ /\ ~timestamp
        /\ UNCHANGED <<sched, collectedSamples>>
     \/ /\ timestamp
        /\ \E d \in Discoveries :
             /\ sched[d].st = "wait"
             /\ sched' = [sched EXCEPT ![d].st = "off"]
        /\ collectedSamples' = 0
  /\ UNCHANGED <<era, timestamp, rounds, ticks, samplers>>

\* ScheduleDispatch, once the full discovery of n nodes is collected.
ScheduleDispatch(n) ==
  /\ client = "full"
  /\ client' = "idle" /\ timestamp' = TRUE
  /\ sched' = [sched EXCEPT ![era] = [st |-> "wait", count |-> n]]
  /\ UNCHANGED <<era, collectedSamples, rounds, ticks, samplers>>

-----------------------------------------------------------------------------
(* The scheduler and the child of each of its rounds.                      *)

CanMove(c) == c.at = "check" \/ (c.at = "assign" /\ sfree > 0) \/ c.at = "done"

\* An interval has passed: tasks from before the last tick have ended, and
\* children of aborted rounds and blocked samplers have moved if they could.
IntervalPassed ==
  /\ old = 0
  /\ ~(sfree < WorkerCount /\ Registering > 0)
  /\ \A c \in rounds : c.abort => ~CanMove(c)

\* The scheduler takes a tick and starts a round.
StartRound(d) ==
  /\ sched[d].st = "wait" /\ ticks < MaxTicks
  /\ IntervalPassed
  /\ ticks' = ticks + 1
  /\ old' = young /\ young' = 0
  /\ sched' = [sched EXCEPT ![d].st = "round"]
  /\ rounds' = rounds \cup {[by |-> d, id |-> ticks + 1, left |-> sched[d].count,
                             at |-> "check", abort |-> FALSE]}
  /\ UNCHANGED <<client, era, timestamp, collectedSamples, sfree>>

\* Mutant: the abort channel is not looked at.
CheckAbortNever(c) ==
  /\ c.at = "check"
  /\ rounds' = (rounds \ {c}) \cup
       {[c EXCEPT !.at = IF c.left = 0 THEN "done" ELSE "assign"]}
  /\ UNCHANGED <<client, era, sched, timestamp, collectedSamples, ticks, samplers>>

\* The head of the child's loop: done after the last node, gone when aborted.
CheckAbort(c) ==
  /\ c.at = "check"
  /\ rounds' = (rounds \ {c}) \cup
       (IF c.left = 0 THEN {[c EXCEPT !.at = "done"]}
        ELSE IF c.abort THEN {} ELSE {[c EXCEPT !.at = "assign"]})
  /\ UNCHANGED <<client, era, sched, timestamp, collectedSamples, ticks, samplers>>

\* assignTask on the sampling pool: it waits for a free worker, and nothing
\* but a free worker ends the wait.  A channel serves its receivers in the
\* order they came: an aborted child that still waits came before the child
\* of a later round.
AssignSample(c) ==
  /\ c.at = "assign" /\ sfree > 0
  /\ \A e \in rounds : e.at = "assign" => c.id <= e.id
  /\ rounds' = (rounds \ {c}) \cup {[c EXCEPT !.at = "check", !.left = @ - 1]}
  /\ sfree' = sfree - 1 /\ young' = young + 1
  /\ UNCHANGED <<client, era, sched, timestamp, collectedSamples, ticks, old>>

\* The scheduler of the round receives from done.
RoundDone(c) ==
  /\ c.at = "done" /\ ~c.abort
  /\ rounds' = rounds \ {c}
  /\ sched' = [sched EXCEPT ![c.by].st = "wait"]
  /\ collectedSamples' = collectedSamples + 1
  /\ UNCHANGED <<client, era, timestamp, ticks, samplers>>

\* The scheduler's timer fires first: it closes abort and goes back to its
\* select.
RoundTimesOut(c) ==
  /\ ~c.abort
  /\ rounds' = (rounds \ {c}) \cup {[c EXCEPT !.abort = TRUE]}
  /\ sched' = [sched EXCEPT ![c.by].st = "wait"]
  /\ UNCHANGED <<client, era, timestamp, collectedSamples, ticks, samplers>>

\* The child closed done too late: nobody listens and it returns.
LateDone(c) ==
  /\ c.at = "done" /\ c.abort
  /\ rounds' = rounds \ {c}
  /\ UNCHANGED <<client, era, sched, timestamp, collectedSamples, ticks, samplers>>

-----------------------------------------------------------------------------
(* The sampling workers.                                                   *)

\* A sampling task ends, by itself or by its timeout; its result is dropped
\* and its worker goes to register again.
SampleEnds ==
  /\ \/ old > 0 /\ old' = old - 1 /\ UNCHANGED young
     \/ young > 0 /\ young' = young - 1 /\ UNCHANGED old
  /\ UNCHANGED <<client, era, sched, timestamp, collectedSamples, rounds, ticks, sfree>>

\* RegisterWorker: the pool has room for WorkerCount of the samplers.
RegisterWorker ==
  /\ sfree < WorkerCount /\ Registering > 0
  /\ sfree' = sfree + 1
  /\ UNCHANGED <<client, era, sched, timestamp, collectedSamples, rounds, ticks, young, old>>

-----------------------------------------------------------------------------

RoundStep(c) ==
  \/ CheckAbort(c) \/ AssignSample(c) \/ RoundDone(c)
  \/ RoundTimesOut(c) \/ LateDone(c)

\* Every discovery is over, the scheduler waits for a tick, and neither a
\* child goroutine nor a sampling task is left.
Quiet ==
  /\ client = "idle" /\ era = MaxDiscoveries /\ ticks = MaxTicks
  /\ rounds = {} /\ young = 0 /\ old = 0 /\ sfree = WorkerCount

Rest == Quiet /\ UNCHANGED vars

Next ==
  \/ BeginDiscovery \/ FinishSampling
  \/ \E n \in NodeCounts : ScheduleDispatch(n)
  \/ \E d \in Discoveries : StartRound(d)
  \/ \E c \in rounds : RoundStep(c)
  \/ SampleEnds \/ RegisterWorker
  \/ Rest

Spec == Init /\ [][Next]_vars

\* Sampling goes on as long as one of its goroutines can move, and the timers of
\* rounds and of sampling tasks fire; nothing is assumed of the server or of the
\* ticker.
Fairness ==
  WF_vars(\/ FinishSampling \/ \E n \in NodeCounts : ScheduleDispatch(n)
          \/ \E c \in rounds : RoundStep(c)
          \/ SampleEnds \/ RegisterWorker)

FairSpec == Spec /\ Fairness

-----------------------------------------------------------------------------
(* Properties.                                                             *)

\* "to avoid goroutine pile up": at most one scheduler is alive and none while a
\* full discovery runs, since FinishSampling has ended it even in the middle of
\* a round; and however slow the kubelets are, at most one child of an aborted
\* round still waits for a worker beside the child of the current round.
NoPileUp ==
  /\ \A d, e \in Discoveries : sched[d].st # "off" /\ sched[e].st # "off" => d = e
  /\ client = "full" => \A d \in Discoveries : sched[d].st = "off"
  /\ \A a, b, c \in rounds : a = b \/ a = c \/ b = c

\* Sampling comes to a stop: FinishSampling returns, although the scheduler does
\* not listen while a round is dispatched, and once no more rounds are started
\* every child goes away, also one that waits for a free worker when its round
\* is aborted and its scheduler gone.
SamplingStops ==
  /\ client = "finish" ~> client = "full"
  /\ ticks = MaxTicks ~> rounds = {}
=============================================================================
