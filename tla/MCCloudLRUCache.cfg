\* Two threads that also change the capacity, and a clock that can be set
\* back.  A crash really stops the program.
CONSTANTS
    t1 = t1
    t2 = t2
    k1 = k1
    k2 = k2
    k3 = k3
    NoEntry = NoEntry
    Users <- TwoThreads
    Keys <- ThreeKeys
    Capacities <- OneTwo
    Bursts <- One
    TTL = 1
    MaxTime = 2
    ClockSteps <- BackAndForth
SPECIFICATION CacheSpec
SYMMETRY Symmetry
CHECK_DEADLOCK FALSE
INVARIANTS
    QuiescentWithinBurst
    EvictionIsSound
    OnlyInterferenceRaises
