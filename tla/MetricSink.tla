----------------------------- MODULE MetricSink -----------------------------
(***************************************************************************)
(* The usage points of one node, pod or container on their way into the    *)
(* sink of a full worker (pkg/discovery/metrics/metric.go, metric_sink.go, *)
(* the merging goroutines of executeTask in k8s_discovery_worker.go).      *)
(* Sampling tasks add their points to the global sink; in the full         *)
(* discovery that follows, the kubelet monitor's goroutine merges its      *)
(* current point and then the global sink into the worker's entry, the      *)
(* cluster monitor's goroutine merges the global sink once more, and       *)
(* UpdateMetricEntry reads and writes an entry in two separate steps.      *)
(*                                                                         *)
(* A point is the moment it was scraped at.  Absent is the entry a sink    *)
(* does not have.                                                          *)
(***************************************************************************)
EXTENDS Integers, Sequences

CONSTANTS
  MaxPoints,   \* maxMetricPointsSize: DiscoverySamples
  MaxSamples,  \* bound: samples in all
  MaxCycles,   \* bound: full discoveries
  Absent

VARIABLES
  now,        \* the clock of scrapes
  cycle,      \* full discoveries begun
  cleared,    \* the times of the last two ClearCache calls
  phase,      \* "sampling", or "full" while a full task runs
  global,     \* globalMetricSink's entry
  inflight,   \* a point scraped by a sampling task and not yet merged
  entry,      \* the worker's main entry's entry
  current,    \* the point in the kubelet monitor's own sink
  step,       \* where each monitor's goroutine is
  read        \* what UpdateMetricEntry has read for it

vars == <<now, cycle, cleared, phase, global, inflight, entry, current, step, read>>

Mergers == {"kubelet", "cluster"}

Init ==
  /\ now = 0 /\ cycle = 0 /\ cleared = <<0, 0>> /\ phase = "sampling"
  /\ global = Absent /\ inflight = {} /\ entry = Absent /\ current = 0
  /\ step = [m \in Mergers |-> "done"] /\ read = [m \in Mergers |-> Absent]

\* UpdateValue on points: the new ones go to the end, and the end is kept.
UpdateValue(new, existing) ==
  LET points == existing \o new IN
  IF Len(points) > MaxPoints
    THEN SubSeq(points, Len(points) - MaxPoints + 1, Len(points)) ELSE points

\* What UpdateMetricEntry writes for a metric, given what it has read.
UpdateMetricEntry(new, existing) ==
  IF existing = Absent THEN new ELSE UpdateValue(new, existing)

-----------------------------------------------------------------------------

\* A sampling task scrapes a point...
Scrape ==
  /\ inflight = {} /\ now - cycle < MaxSamples
  /\ now' = now + 1 /\ inflight' = {now + 1}
  /\ UNCHANGED <<cycle, cleared, phase, global, entry, current, step, read>>

\* ...and merges it into the global entry, possibly later than ClearCache, and
\* also while a full discovery runs: a round's child that was waiting for a
\* worker still assigns a task when its scheduler is gone.
MergeSample(p) ==
  /\ inflight' = inflight \ {p}
  /\ global' = UpdateMetricEntry(<<p>>, global)
  /\ UNCHANGED <<now, cycle, cleared, phase, entry, current, step, read>>

\* A full task starts: the main sink is reset.  A sampling task that was
\* scraping at the last ClearCache has ended by now, its timeout being a small
\* part of the time between two discoveries.
StartTask ==
  /\ phase = "sampling" /\ cycle < MaxCycles
  /\ \A p \in inflight : p > cleared[2]
  /\ phase' = "full" /\ cycle' = cycle + 1
  /\ entry' = Absent
  /\ step' = [m \in Mergers |-> "do"]
  /\ UNCHANGED <<now, cleared, global, inflight, current, read>>

\* Do returns: the kubelet monitor has one new point, the cluster monitor has
\* capacities and none.  A monitor that fails merges nothing.
DoReturns(m) ==
  /\ step[m] = "do"
  /\ \/ /\ m = "kubelet"
        /\ now' = now + 1 /\ current' = now + 1
        /\ step' = [step EXCEPT ![m] = "own"]
     \/ /\ m = "cluster"
        /\ step' = [step EXCEPT ![m] = "global"]
        /\ UNCHANGED <<now, current>>
     \/ /\ step' = [step EXCEPT ![m] = "failed"]
        /\ UNCHANGED <<now, current>>
  /\ UNCHANGED <<cycle, cleared, phase, global, inflight, entry, read>>

\* MergeSink: the entry is read under the lock of the cache...
ReadEntry(m) ==
  /\ step[m] \in {"own", "global"}
  /\ read' = [read EXCEPT ![m] = entry]
  /\ step' = [step EXCEPT ![m] = IF @ = "own" THEN "ownPut"
                                 ELSE IF global = Absent THEN "done" ELSE "globalPut"]
  /\ UNCHANGED <<now, cycle, cleared, phase, global, inflight, entry, current>>

\* ...and written under the lock again, whatever it has become meanwhile.
WriteEntry(m) ==
  /\ \/ /\ step[m] = "ownPut"
        /\ entry' = UpdateMetricEntry(<<current>>, read[m])
        /\ step' = [step EXCEPT ![m] = "global"]
     \/ /\ step[m] = "globalPut"
        /\ entry' = UpdateMetricEntry(global, read[m])
        /\ step' = [step EXCEPT ![m] = "done"]
  /\ UNCHANGED <<now, cycle, cleared, phase, global, inflight, current, read>>

\* Mutant: the global sink is not cleared.
ClearCacheNever ==
  /\ phase = "full" /\ \A m \in Mergers : step[m] \in {"done", "failed"}
  /\ phase' = "sampling"
  /\ cleared' = <<cleared[2], now>>
  /\ UNCHANGED <<now, cycle, global, inflight, entry, current, step, read>>

\* The task is over and its result collected; ClearCache replaces the global
\* entry's cache.
ClearCache ==
  /\ phase = "full" /\ \A m \in Mergers : step[m] \in {"done", "failed"}
  /\ phase' = "sampling"
  /\ global' = Absent /\ cleared' = <<cleared[2], now>>
  /\ UNCHANGED <<now, cycle, inflight, entry, current, step, read>>

\* Every discovery is over and nothing is being scraped.
Rest ==
  /\ phase = "sampling" /\ cycle = MaxCycles /\ inflight = {}
  /\ UNCHANGED vars

Next ==
  \/ Scrape \/ StartTask \/ ClearCache \/ Rest
  \/ \E p \in inflight : MergeSample(p)
  \/ \E m \in Mergers : DoReturns(m) \/ ReadEntry(m) \/ WriteEntry(m)

Spec == Init /\ [][Next]_vars

-----------------------------------------------------------------------------
(* Properties.                                                             *)

Merged == phase = "full" /\ step = [m \in Mergers |-> "done"]

\* When both monitors have merged, what a DTO averages is usable: at least one
\* point, or metricValue would divide by zero, no more than the configured number,
\* and none that survives into a third discovery: a point is used by the full
\* discovery that follows it or, when its task was late, by the next one; also
\* when the goroutines overwrite each other.
PointsUsable ==
  Merged =>
    /\ entry # Absent /\ Len(entry) \in 1..MaxPoints
    /\ \A i \in DOMAIN entry : entry[i] > cleared[1]

\* "If points length is larger than maxMetricPointsSize, use latest
\* maxMetricPointsSize of points": the newest point that was merged is kept.
KeepsLatest ==
  Merged /\ inflight = {} => \E i \in DOMAIN entry : entry[i] >= current
=============================================================================
