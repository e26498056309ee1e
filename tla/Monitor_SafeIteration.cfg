SPECIFICATION Spec
CONSTANTS
    Devs = {d1, d2}
    Keys = {k1}
    Ifaces = {0, 1}
    Results <- OnlyContinue
    MaxCallbacks = 2
    MaxRefs = 1
    CarefulApp = FALSE
    Nil = Nil
INVARIANT
    SafeIteration
