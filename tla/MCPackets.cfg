CONSTANTS
    EraSecs = 8
    FracUnits = 16
    NanosPerSec = 5
    NTPEpochOffset = 5
    Paddings = {0, 63, 64, 2000, 2008, 2034, 2035, 2049}
    Timeouts = {0, 7}
    OtherSizes = {13, 14, 48, 2021, 2022, 3000}
    Skews = {0, 3}
    StartTime = 12
    MaxTime = 18
    None = None
SPECIFICATION Spec
INVARIANTS PacketsServed ReplyShape MeasuredTimes TimeoutCarried StampArithmetic
