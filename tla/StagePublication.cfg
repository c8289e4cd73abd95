SPECIFICATION Spec
CONSTANTS
    Publishers = {p, q}
    MaxVersion = 2
    MaxInvocations = 5
    MaxCrashes = 1
SYMMETRY Symmetry
PROPERTIES CopiesSurvive LineageHolds
CHECK_DEADLOCK FALSE
