CONSTANTS
    EraSecs = 8
    FracUnits = 16
    NanosPerSec = 5
    NTPEpochOffset = 5
    Paddings = {0, 2034}
    Timeouts = {0, 7}
    OtherSizes = {14}
    Skews = {0, 3}
    StartTime = 12
    MaxTime = 12
    None = None
SPECIFICATION Spec
INVARIANT BuffersSuffice
