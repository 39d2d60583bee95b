CONSTANTS
  None = None
  Unused = Unused
  ChainNodes = {"n1", "n2"}
  ChainPods = {"p1", "p2", "p3"}
  ChainNamespaces = {"ns1", "ns2"}
  ChainVolumes = {"v"}
  ChainServices = {"s"}
  NoController = "none"
  ChainNodeOf <- ThreePodsOnTwoNodes
  ChainNamespaceOf <- TwoNamespaces
  ChainControllerOf <- TwoReplicas
  ChainContainersOf <- OneSidecar
  ChainMountsOf <- SharedVolume
  ChainSelectedBy <- OneService
  ChainPhases <- PhasesOfReplica
  ChainLosses = 2
  HardStatements <- Thresholds
  SoftStatements <- SoftThresholds
  NoStatement = None
  FsSizes = {0, 100}
  FsUsed = {70, 90}
  NoLimit = 9
  QuotaLists <- AtMostTwoQuotas
  PodPrefixes = {"a", "b"}
  MirrorPodLists <- SomeStaticPods
  SummaryNodes = {"n1", "n2"}
  PoolSets = {{}, {{"n1"}}}
  SccList <- TwoSccs
  SccRuns = 2
  SccFailures = 1
  \* Time for an entry to expire after a discovery has renewed it.
  OwnedPods = {"p1", "p2"}
  OwnerSets = {"s"}
  Owning = {"d1", "d2"}
  SetOf <- SetOfFirst
  CacheTTL = 2
  DiscoveryTime = 1
  OwnerTime = 6
  TaintNodes = {"n1", "n2", "n3"}
  TaintPods = {"p1", "p2", "p3"}
  TaintHost <- OnePodPerNode
  NodeTaints <- AllTaints
  TaintClusters <- TwoTolerations
  AffinityNodes = {"n1", "n2", "n3"}
  AffinityPods = {"a1", "a2", "b"}
  WorkloadOf <- TwoOfOneWorkload
  PodLabelOf <- TwoLabels
  TopologyOf <- TwoZones
  HonorPvAffinity = TRUE
  AffinityClusters <- SomeAffinities
  ScaleRequests = {"a", "b"}
  FirstMachines = {"m1", "m2", "m3"}
  LaterMachines = {"n1"}
  ScaleChoices <- UpAndDown
  MinNodes = 1
  MaxNodes = 3
  ScaleWaits = 1
  PodActionIds = {"a", "b", "c"}
  PodSeries = {"n1", "n2"}
  PodScenarios <- OneOrTwoPods
  ChainLength = 1
  LateReports = 2
  GitActions = {"r1", "r2"}
  GitContainers = {"c1", "c2"}
  GitWants <- TwoSizes
  GitSettings <- HostsAndModes
  GitAttempts = 2
SPECIFICATION MCSpec
INVARIANTS
  ReportIsClosed
  UsageIgnoresOrder
  StaleOwnerBounded
  SummaryIgnoresOrder
  
  TaintsSteerPlacement
  
  GracefulExitCleans
  NoScaleLost
  OnlyMarkedDeleted
  
  
  
  
  
  OneRequestPerAction

  
