SPECIFICATION Spec
CONSTANTS
    Processes = {p1, p2, p3}
INVARIANTS
    IInv
    ObjectsHaveAgents
PROPERTIES
    ExitZeroMeansDone
    RefusalsHaveCause
SYMMETRY Symmetry
CHECK_DEADLOCK FALSE
