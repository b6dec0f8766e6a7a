CONSTANTS
    root = root
    kid1 = kid1
    det = det
    join = join
    NoCall = NoCall
    Calls <- MixedCalls
    Parent <- MixedParent
    Ancestors <- MixedAncestors
    Kind <- MixedKind
    Target <- MixedTarget
    MaxConcurrency = 1
    MaxQueue = 1
    MaxPrompts = 1
SPECIFICATION FairSpec
CHECK_DEADLOCK FALSE
INVARIANTS
    SlotAccounting
    NoIdleSlot
PROPERTIES
    ImplementsBudget
    EveryCallReturns
