\* Two clients that allocate and deallocate in any order, a first pool of five
\* units and one more to grow by; vm_allocate may fail.
CONSTANTS
    t1 = t1
    t2 = t2
    Threads <- TwoThreads
    Sizes = {1, 2}
    InitialSize = 4
    PageSize = 6
    PageHeader = 1
    FirstBlock = 1
    PoolBases = {7}
    Top = 12
SPECIFICATION Spec
SYMMETRY ThreadSymmetry
CHECK_DEADLOCK FALSE
INVARIANTS
    PoolIsSound
    StackOrderIsSafe
PROPERTIES
    OnlyKnownFaults
