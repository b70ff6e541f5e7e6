SPECIFICATION Spec
CONSTANTS
    l1 = l1
    l2 = l2
    n1 = n1
    n2 = n2
    m1 = m1
    m2 = m2
    FinalName = FinalName
    None = None
    Loop <- Loops
    PhaseName <- TwoNames
    Input <- OneInput
    MAX_PHASES = 1
    Recharge = 3
    ReviewCycles = 1
    Faults <- StoppingUser
SYMMETRY Symmetry
INVARIANT FinalizedOnce
PROPERTY HistoryStable
CHECK_DEADLOCK FALSE
