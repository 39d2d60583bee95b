CONSTANTS
  Nodes = {"n1", "n2"}
  Workers = {"w1", "w2"}
  Monitors = {"kubelet", "cluster"}
  MaxDiscoveries = 2
  MaxSlow = 1
  \* One worker, so two samplers and room for one of them; five nodes are more
  \* than they can start in two intervals.
  SamplingWorkers = 1
  SampledDiscoveries = 2
  NodeCounts = {1, 5}
  MaxTicks = 3
  MaxPoints = 2
  MaxSamples = 1
  MaxCycles = 3
  Absent = Absent
  \* Two full scrapers: the second is a call that outlived its task.
  Hosts = {"h1"}
  FullScrapers = {"f1", "f2"}
  Samplers = {"s1"}
  MaxScrapes = 3
  MaxFailures = 1
  \* As many checkers as nodes, and more when fewer nodes are listed.
  Checkers = {"c1", "c2"}
SPECIFICATION MCSpec
INVARIANTS
  OwnReadings
  NoPileUp
  PointsUsable
  HarmNeedsOverlap
PROPERTIES
  DiscoveryReturns
  ImplementsResults
  SamplingStops
  ValidationEnds
