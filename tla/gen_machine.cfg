SPECIFICATION FairSpec
CONSTANTS
    l1 = l1
    l2 = l2
    n1 = n1
    n2 = n2
    m1 = m1
    m2 = m2
    FinalName = FinalName
    None = None
    Loop <- Loops
    PhaseName <- OneName
    Input <- TwoInputs
    MAX_PHASES = 2
    Recharge = 3
    ReviewCycles = 2
    Faults <- FailingModel
INVARIANTS TypeOK OnlyLastPhaseOpen PhaseBudget PhasesBounded
PROPERTIES LoopsEnd
CHECK_DEADLOCK FALSE
