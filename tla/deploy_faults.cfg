SPECIFICATION Spec
CONSTANTS
    c1 = c1
    c2 = c2
    c3 = c3
    c4 = c4
    f1 = f1
    f2 = f2
    None = None
    Call <- Calls3
    File <- Files1
    MaxInstances = 3
    MaxTicks = 2
    Faults <- ServiceFaults
SYMMETRY CallSymmetry3
INVARIANTS TypeOK TrackedIsRacing WaitersBehindExecution HealthRedeploysBounded
CHECK_DEADLOCK FALSE
