SPECIFICATION Spec
CONSTANTS
    Lines <- MCLinesOf
    Starts <- MCStarts
    Plans <- MCPlansOf
    Objective = "footprint"
    Candidates = 3
    SmartCapacity = 2
    DenseCapacity = 3
    AdhocDevices = 2
INVARIANTS
    StagesAgreeWithGate
    NothingIsSpare
    FailedNetsAreUnmoved
    DeliversThePlan
    FeedsAreCarried
CHECK_DEADLOCK FALSE
