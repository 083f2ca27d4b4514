\* The file handles: every answer of the library, every failure of a read.
SPECIFICATION FairSpec

CONSTANTS
    t1 = t1
    t2 = t2
    Threads <- MCThreads
    BlockSize <- MCBlockSize
    Sizes <- MCSizes
    UserSets <- MCUserSets
    MaxOps <- MCMaxOps

\* Every user may stop calling, and a second reader may be left asleep.
CHECK_DEADLOCK FALSE
INVARIANTS
    DigestIsOfTheWholeFile
    DigestIsRefusedOnlyAtABoundary
    ReadersSeeTheAnswer
PROPERTIES
    SleeperGoesOnOrWasOvertaken
