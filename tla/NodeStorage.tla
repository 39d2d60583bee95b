---------------------------- MODULE NodeStorage ----------------------------
(***************************************************************************)
(* A node's eviction thresholds on their way from the kubelet's            *)
(* configuration to the storage commodities the node sells                 *)
(* (pkg/kubeclient/eviction_utils.go, the kubelet monitor and the node     *)
(* builder).  Percentages are whole numbers and bytes small ones; a        *)
(* quantity of bytes becomes a percentage of the capacity.                 *)
(***************************************************************************)
EXTENDS Integers, Sequences

CONSTANTS
    Statements,     \* hard threshold statements: [unit, n], or NoStatement
    SoftStatements,
    NoStatement,
    Capacities,     \* sizes of a file system, 0: not reported
    Used            \* percentages in use

VARIABLES
    evictionHard, evictionSoft,   \* file system -> statement
    graceless,                    \* a soft threshold has no grace period
    size, available,              \* file system -> bytes
    threshold,                    \* file system -> percentage in the sink
    storageSold,                  \* file system -> utilization threshold sold
    placeable,                    \* isAvailableForPlacement
    stage                         \* "scrape", "build", "built"

vars == <<evictionHard, evictionSoft, graceless, size, available, threshold, storageSold, placeable, stage>>

Rootfs == "rootfs"
Imagefs == "imagefs"
FileSystems == {Rootfs, Imagefs}
Unset == -1

\* parseThresholdStatement: 0% and 100% are ignored, anything else outside the
\* range is an error.
Ignored(v) == v = NoStatement \/ (v.unit = "%" /\ v.n \in {0, 100})
Invalid(v) == v # NoStatement /\ ((v.unit = "%" /\ v.n > 100) \/ (v.unit = "bytes" /\ v.n <= 0))

\* One bad statement, or a soft threshold without grace period, discards all.
BadConfig ==
    \E fs \in FileSystems : \/ Invalid(evictionHard[fs])
                            \/ Invalid(evictionSoft[fs])
                            \/ graceless /\ ~Ignored(evictionSoft[fs])

ParseThresholdStatement(v) == IF Ignored(v) THEN <<>> ELSE <<v>>

ParseThresholdConfig(fs) ==
    IF BadConfig THEN <<>>
    ELSE ParseThresholdStatement(evictionHard[fs]) \o ParseThresholdStatement(evictionSoft[fs])

GetThresholdPercentile(v, capacity) ==
    IF v.unit = "%" THEN v.n
    ELSE IF capacity = 0 THEN 1000      \* infinite
    ELSE (v.n * 100) \div capacity

InRange(t) == 0 < t /\ t < 100

\* The last threshold of a signal counts: the soft one.
LastThreshold(fs) ==
    LET vs == ParseThresholdConfig(fs)
    IN  IF vs = <<>> THEN 0 ELSE GetThresholdPercentile(vs[Len(vs)], size[fs])

\* A missing threshold of the image file system sets the default of the root
\* file system and leaves its own as it is.
ParseThresholdValues ==
    [fs \in FileSystems |->
        IF fs = Imagefs THEN LastThreshold(Imagefs)
        ELSE IF ~InRange(LastThreshold(Imagefs)) THEN 15
        ELSE IF ~InRange(LastThreshold(Rootfs)) THEN 10
        ELSE LastThreshold(Rootfs)]

Scrape ==
    /\ stage = "scrape"
    /\ stage' = "build"
    /\ threshold' = ParseThresholdValues
    /\ UNCHANGED <<evictionHard, evictionSoft, graceless, size, available, storageSold, placeable>>

\* Mutant: the root file system has the last word.
ReversedPartitions == <<Imagefs, Rootfs>>
Partitions == <<Rootfs, Imagefs>>

AboveThreshold(fs) == available[fs] * 100 > threshold[fs] * size[fs]
Settable(fs) == threshold[fs] > 0 /\ threshold[fs] <= 100

Stricter(t, previous) == t > previous

Sell(sold, fs, utilization) ==
    [x \in DOMAIN sold \cup {fs} |-> IF x = fs THEN utilization ELSE sold[x]]

\* The verdict on a file system replaces the one before it.  An image file
\* system that reports the bytes of the root file system is the same partition.
SellStorage(s, fs) ==
    LET judged == IF Settable(fs) THEN AboveThreshold(fs) ELSE s.placeable
        previous == IF Rootfs \in DOMAIN s.sold /\ Settable(Rootfs) THEN threshold[Rootfs] ELSE 0
        same == /\ fs = Imagefs /\ Rootfs \in DOMAIN s.sold
                /\ size[Rootfs] = size[fs] /\ available[Rootfs] = available[fs]
    IN  IF size[fs] = 0 THEN s
        ELSE [placeable |-> judged,
              sold |-> IF ~same THEN Sell(s.sold, fs, IF Settable(fs) THEN 100 - threshold[fs] ELSE Unset)
                       ELSE IF Stricter(threshold[fs], previous) THEN Sell(s.sold, Rootfs, 100 - threshold[fs])
                       ELSE s.sold]

NothingSold == [sold |-> [fs \in {} |-> Unset], placeable |-> TRUE]

FirstSold == SellStorage(NothingSold, Partitions[1])

GetNodeStorageCommoditiesSold == SellStorage(FirstSold, Partitions[2])

Build ==
    /\ stage = "build"
    /\ stage' = "built"
    /\ storageSold' = GetNodeStorageCommoditiesSold.sold
    /\ placeable' = GetNodeStorageCommoditiesSold.placeable
    /\ UNCHANGED <<evictionHard, evictionSoft, graceless, size, available, threshold>>

Rest == stage = "built" /\ UNCHANGED vars

Init ==
    /\ evictionHard \in [FileSystems -> Statements]
    /\ evictionSoft \in [FileSystems -> SoftStatements]
    /\ graceless \in BOOLEAN
    /\ size \in [FileSystems -> Capacities]
    /\ \E used \in [FileSystems -> Used] :
          available = [fs \in FileSystems |-> size[fs] - ((size[fs] * used[fs]) \div 100)]
    /\ threshold = [fs \in FileSystems |-> 0]
    /\ storageSold = [fs \in {} |-> Unset]
    /\ placeable = TRUE
    /\ stage = "scrape"

Next == Scrape \/ Build \/ Rest

Spec == Init /\ [][Next]_vars

-----------------------------------------------------------------------------
\* The configured threshold is crossed.
Pressure(fs) ==
    size[fs] > 0 /\ InRange(LastThreshold(fs)) /\ available[fs] * 100 <= LastThreshold(fs) * size[fs]

\* The thresholds count, through the conversions from bytes and percentages of
\* free space to a percentage in use.  A node is not offered for placement while
\* its image file system is below its threshold.  Nor is it while its root file
\* system is, with two exceptions that the code makes: the image file system was
\* judged after it and found above its own threshold, or it has no threshold,
\* and then the root file system is held to 15% whatever is configured.  Two
\* thresholds on one partition are sold as one commodity with the stricter.
ThresholdsCount ==
    stage = "built" =>
        /\ Pressure(Imagefs) => ~placeable
        /\ Pressure(Rootfs) /\ placeable =>
              IF InRange(LastThreshold(Imagefs))
              THEN size[Imagefs] > 0 /\ AboveThreshold(Imagefs)
              ELSE available[Rootfs] * 100 > 15 * size[Rootfs]
        /\ /\ size[Rootfs] > 0 /\ size[Rootfs] = size[Imagefs] /\ available[Rootfs] = available[Imagefs]
           /\ \A fs \in FileSystems : InRange(LastThreshold(fs))
           => /\ DOMAIN storageSold = {Rootfs}
              /\ \E fs \in FileSystems : /\ storageSold[Rootfs] = 100 - LastThreshold(fs)
                                         /\ \A other \in FileSystems : LastThreshold(other) <= LastThreshold(fs)
=============================================================================
