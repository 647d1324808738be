\* Two connections and two sessions that compete for SIDs and ports.
SPECIFICATION Spec
CONSTANTS
    Conns = {c1, c2}
    Sessions = {s1, s2}
    SIDs = {x1, x2}
    Ports = {p1, p2}
    MaxStarts = 1
    None = None
SYMMETRY Symmetry
INVARIANTS TypeOK PortsAccounted SocketsReserved ActiveRegistered ActiveHasStopper ActiveIsServed GraceKept StoppedIsQuiet
PROPERTIES ImplementsSessionLife
