\* A reader beside two writers that make every kind of change.
CONSTANTS
    r1 = r1
    w1 = w1
    w2 = w2
    n1 = n1
    n2 = n2
    v1 = v1
    v2 = v2
    NULL = NULL
    Readers <- OneReader
    Writers <- TwoWriters
    WriterOps <- AllOps
    Nodes <- TwoNodes
    Values <- TwoValues
SPECIFICATION Spec
SYMMETRY NodeSymmetry
INVARIANTS
    NoUseAfterFree
    ListIsSound
    UndisturbedViewIsComplete
