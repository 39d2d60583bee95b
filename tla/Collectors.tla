----------------------------- MODULE Collectors -----------------------------
(***************************************************************************)
(* What runs beside the discovery pipeline, for any values of its          *)
(* constants: the sampling rounds, the metric sink and the kubelet client. *)
(* Apart from the calls their modules state they share no state.           *)
(***************************************************************************)
EXTENDS Integers, Sequences

CONSTANTS
  SamplingWorkers,  \* the samplers are twice as many
  SampledDiscoveries, NodeCounts, MaxTicks,                    \* of SamplingDispatch
  MaxPoints, MaxSamples, MaxCycles, Absent,                    \* of MetricSink
  Hosts, FullScrapers, Samplers, MaxScrapes, MaxFailures       \* of KubeletClient

\* There is a sampling worker.
ASSUME SamplingAssumption ==
  SamplingWorkers \in Nat \ {0} /\ NodeCounts \subseteq Nat

\* A point is kept, and no entry is not an entry.
ASSUME SinkAssumption == MaxPoints \in Nat \ {0} /\ Absent \notin Seq(Nat)

\* There is a kubelet to ask.
ASSUME KubeletAssumption == Hosts # {}

VARIABLES
  client, era, sched, timestamp, collectedSamples, rounds, ticks, sfree, young, old,
  now, cycle, cleared, phase, global, inflight, entry, current, step, read,
  cache, failures, at, host, had, got, disturbed, recorded, panicked, scrapes

Sampling == INSTANCE SamplingDispatch WITH
  WorkerCount <- SamplingWorkers, MaxDiscoveries <- SampledDiscoveries
Sink == INSTANCE MetricSink
Kubelet == INSTANCE KubeletClient

samplingVars == <<client, era, sched, timestamp, collectedSamples, rounds, ticks, sfree, young, old>>
sinkVars == <<now, cycle, cleared, phase, global, inflight, entry, current, step, read>>
kubeletVars == <<cache, failures, at, host, had, got, disturbed, recorded, panicked, scrapes>>

-----------------------------------------------------------------------------
(* The parts' properties, stated where their modules explain them.         *)

\* Schedulers and children of aborted rounds do not pile up.
NoPileUp == Sampling!NoPileUp

\* The usage points that are averaged are neither missing, too many nor old.
PointsUsable == Sink!PointsUsable

\* Old summaries taken for new ones, and the nil entry, need overlapping calls.
HarmNeedsOverlap == Kubelet!HarmNeedsOverlap
=============================================================================
