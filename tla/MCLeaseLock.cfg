SPECIFICATION FairSpec
CONSTANTS
    k1 = k1
    h1 = h1
    h2 = h2
    Keys <- OneKey
    Helpers <- TwoHelpers
    KeyOf <- Shared
    TTL = 4
    Lags <- TimelyAndLate
    WaitTimeout = 2
PROPERTIES
    LiveLeaseProtected
    ImplementsMutex
    RenewerEnds
    ExpiredLeaseSwept
