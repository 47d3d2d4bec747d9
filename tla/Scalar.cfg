SPECIFICATION FairSpec
CONSTANTS
    MaxNodes = 3
    Leaves <- MCLeaves
    Sigmoid <- MCSigmoid
INVARIANTS
    GraphOK
    GradientsAreDerivatives
PROPERTIES
    OthersKeepGradients
    CallsReturn
CHECK_DEADLOCK FALSE
