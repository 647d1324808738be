SPECIFICATION Spec
CONSTANTS
    Conns = {c1}
    Sessions = {s1}
    SIDs = {x1}
    Ports = {p1}
    MaxStarts = 1
    None = None
INVARIANT PortsReclaimed
