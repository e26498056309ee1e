SPECIFICATION Spec
CONSTANTS
    Keys = {k1, k2}
    MaxChanges = 3
    MayFail = FALSE
SYMMETRY KeySymmetry
INVARIANT
    MissingDeviceIgnored
CHECK_DEADLOCK FALSE
