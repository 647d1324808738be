SPECIFICATION Spec
CONSTANTS
    Conns = {c1, c2}
    Sessions = {s1, s2}
    SIDs = {x1}
    Ports = {p1, p2}
    MaxStarts = 1
    None = None
PROPERTY SIDCheckHolds
