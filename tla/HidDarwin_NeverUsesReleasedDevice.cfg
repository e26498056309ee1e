SPECIFICATION Spec
CONSTANTS
    MaxReports = 2
    MaxArrivals = 3
    Timeouts <- AllTimeouts
INVARIANT
    NeverUsesReleasedDevice
