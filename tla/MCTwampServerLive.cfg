\* One session that may be started again, under fairness; no symmetry.
SPECIFICATION FairSpec
CONSTANTS
    Conns = {c1}
    Sessions = {s1}
    SIDs = {x1}
    Ports = {p1}
    MaxStarts = 2
    None = None
INVARIANTS StopChanClosedOnce
PROPERTIES StoppedSessionReleased CleanupEnds StopWaitsOnlyForSetup
