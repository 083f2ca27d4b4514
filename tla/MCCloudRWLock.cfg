\* Three threads and WRITE = 2, so that the reader count reaches WRITE - 1
\* with a writer coming, and WRITE itself with readers alone.  Liveness is
\* checked too, so there is no symmetry.
CONSTANTS
    t1 = t1
    t2 = t2
    t3 = t3
    Threads <- MCThreads
    WRITE = 2
    Tries = 2
SPECIFICATION FairSpec
INVARIANTS
    LockIsSound
PROPERTIES
    ClaimBarsReaders
    ImplementsRWLock
    WriterGetsIn
