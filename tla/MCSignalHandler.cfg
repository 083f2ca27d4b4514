\* Two threads register callbacks and are hit by signals meanwhile; system
\* calls may fail.
CONSTANTS
    t1 = t1
    t2 = t2
    s1 = s1
    s2 = s2
    NULL = NULL
    Threads <- TwoThreads
    Monitored <- TwoSignals
    Program <- ReporterAndForwarder
    CrashOn <- EitherThread
    InitialAction <- HandlerBefore
    CallsFail = TRUE
SPECIFICATION FairSpec
CHECK_DEADLOCK FALSE
INVARIANTS
    RegistrationIsSound
    NeverForwardsToItself
    PreviousRunsOnce
    LoneCrashIsReported
PROPERTIES
    SignalsEnd
