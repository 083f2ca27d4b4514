\* Three registers of which two collide, a pool of three entries, two levels, four opcodes.
CONSTANTS
    offset = offset
    same = same
    NULL = NULL
    Registers <- ThreeRegisters
    Mapped <- TwoMapped
    ReturnAddress = 2
    Rules = {offset, same}
    Stale <- StaleEntries
    MaxRegisters = 3
    MaxStates = 2
    Buckets = 2
    MaxOpcodes = 4
SPECIFICATION Spec
CHECK_DEADLOCK FALSE
INVARIANTS
    TableIsSound
PROPERTIES
    WalksAreComplete
    ImplementsRows
