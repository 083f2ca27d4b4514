\* Up to three calls of every kind, and any order of saved registers; in framed ones a word may be overwritten.
CONSTANTS
    Word = 8
    Chains <- AllChains
    Damaged <- DamagedChains
    FrameLimit = 5
    PageSize = 10
    Overwrites <- Damage
SPECIFICATION WalkSpec
CHECK_DEADLOCK FALSE
INVARIANTS
    WalkIsSound
    WalkIsComplete
    SearchFindsFunction
