CONSTANTS
    ReadTimeout = 2
    REFWAIT = 5
    ResetWindow = 3
    DefaultFailures = 3
    Configs = {0, 1, 2}
SPECIFICATION Spec
INVARIANTS TypeOK QuietSessionEnds HMACPolicy
