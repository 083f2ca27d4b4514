\* Two registers on a clean stack; six opcodes define and remove both, and one of them again.
CONSTANTS
    offset = offset
    NULL = NULL
    Registers = {0, 2}
    Mapped = {0, 2}
    ReturnAddress = 2
    Rules = {offset}
    Stale = {9}
    MaxRegisters = 3
    MaxStates = 1
    Buckets = 2
    MaxOpcodes = 6
SPECIFICATION FairSpec
PROPERTY EvaluationEnds
CHECK_DEADLOCK FALSE
