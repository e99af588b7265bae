CONSTANTS
    t1 = t1
    t2 = t2
    k1 = k1
    k2 = k2
    NoThread = NoThread
    Thread <- MCThread
    Key <- MCKey
    MaxVersion = 2
    Hash <- MCHash
    TTL = 2
    MaxEntries = 1
    MaxFails = 1
SPECIFICATION FairSpec
INVARIANTS Fresh SettledCache
PROPERTIES EventuallyFresh
