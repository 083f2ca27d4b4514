\* Two launches of an app with two threads; calls, and the disk, may fail.
CONSTANTS
    t1 = t1
    t2 = t2
    Threads <- TwoThreads
    Enablers <- FirstThread
    Sizes <- ShortAndLong
    BufferSize = 2
    Limit = 7
    DiskFails = TRUE
    CallsFail = TRUE
    MaxLaunches = 2
SPECIFICATION FairSpec
CHECK_DEADLOCK FALSE
INVARIANTS
    FileIsSound
    SuspensionIsSound
    UndisturbedSuccessIsWhole
PROPERTIES
    ImplementsReportBox
    HandlerEnds
