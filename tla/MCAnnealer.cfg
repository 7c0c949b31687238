SPECIFICATION Spec
CONSTANTS
    Lines <- MCLinesOf
    Seeds <- MCSeeds
    Weights <- MCWeights
    Iterations = 2
INVARIANTS
    LayoutsLegal
    OccupiedExact
    ColumnsStayRigid
    GateNamesAreProofs
    EarlyOutChangesNothing
PROPERTIES
    ChosenIsTheOnlineChoice
CHECK_DEADLOCK FALSE
