\* Three threads that fault, a server that may be released or fail to start, and
\* reports that may fail to be written.
CONSTANTS
    c1 = c1
    c2 = c2
    c3 = c3
    Nobody = Nobody
    Clients <- ThreeClients
    MachCallsFail = TRUE
    WritesFail = TRUE
    PreviousAnswers <- EitherAnswer
    Guarded <- OneGuarded
SPECIFICATION FairServerSpec
CHECK_DEADLOCK FALSE
INVARIANTS
    ContextOutlivesServer
    MappedCrashIsReported
PROPERTIES
    ExceptionsAnswered
    DeallocReturns
