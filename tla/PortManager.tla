----------------------------- MODULE PortManager -----------------------------
(***************************************************************************)
(* portManager (src/server/server.go): the UDP ports of the test sessions. *)
(* allocatePort scans the configured range with the mutex held; a step of  *)
(* the scan looks at one port, because other processes may bind and free   *)
(* ports between two probes.  Ports are uint16: Width is 2^16 in the code. *)
(*                                                                         *)
(* An operator whose name ends in _Faulty is the definition after it with  *)
(* one plausible mistake, to see that a property notices it.               *)
(***************************************************************************)
EXTENDS Naturals

CONSTANTS
    Width,       \* number of values of a port
    DefaultMin,  \* 20000: the minimum that replaces a configured 0
    DefaultMax   \* 30000: the maximum that replaces a configured 0

ASSUME PortAssumption ==
    /\ Width \in Nat /\ DefaultMin \in Nat /\ DefaultMax \in Nat
    /\ 0 < DefaultMin /\ DefaultMin <= DefaultMax /\ DefaultMax < Width

Port == 0 .. (Width - 1)

(* What allocatePort returns with ErrNoAvailablePorts: above every port.   *)
NoPort == Width

VARIABLES
    minPort, maxPort,  \* the range, fixed by newPortManager
    usedPorts,         \* portManager.usedPorts
    bound,             \* UDP ports some socket of the host is bound to
    locked,            \* portManager.mu is held by a scan
    scan,              \* the loop variable of the scan
    result,            \* what the last allocatePort returned
    steady             \* history: ports of the range free since the scan began

vars == <<minPort, maxPort, usedPorts, bound, locked, scan, result, steady>>

InRange == minPort .. maxPort

(* Not in use, and ListenUDP on it succeeds.  No socket is bound to port 0 *)
(* itself: to listen there asks the system for any port, which it has.     *)
Free(p) == p \notin usedPorts /\ p \notin bound

(* The variables have their types, and newPortManager leaves no 0 in the   *)
(* range: it would stand for a port that the system chooses.               *)
TypeOK ==
    /\ minPort \in Port \ {0} /\ maxPort \in Port \ {0}
    /\ usedPorts \subseteq Port /\ bound \subseteq Port /\ steady \subseteq Port
    /\ locked \in BOOLEAN /\ scan \in Port /\ result \in Port \cup {NoPort}

(* The faulty one takes what was configured.                               *)
WithDefault_Faulty(configured, default) == configured
WithDefault(configured, default) == IF configured = 0 THEN default ELSE configured

(* newPortManager: a 0 stands for the default, and a range that is empty   *)
(* after that is refused.                                                  *)
Init ==
    \E lo, hi \in Port :
        /\ minPort = WithDefault(lo, DefaultMin)
        /\ maxPort = WithDefault(hi, DefaultMax)
        /\ minPort <= maxPort
        /\ usedPorts = {} /\ steady = {} /\ bound \in SUBSET (Port \ {0})
        /\ locked = FALSE /\ scan = minPort /\ result = NoPort

-----------------------------------------------------------------------------
(* allocatePort: for port := minPort; port <= maxPort; port++ { ... }      *)

AllocateBegins ==
    /\ ~locked
    /\ locked' = TRUE
    /\ scan' = minPort
    /\ steady' = {p \in InRange : Free(p)}
    /\ UNCHANGED <<minPort, maxPort, usedPorts, bound, result>>

(* port <= maxPort; the faulty one also admits the port after the last.    *)
LoopGoesOn_Faulty(p) == p <= maxPort + 1
LoopGoesOn(p) == p <= maxPort

(* port++ on a uint16; the faulty ones skip a port, and do not move.       *)
NextPort_Skip_Faulty(p)  == IF p >= Width - 2 THEN 0 ELSE p + 2
NextPort_Stuck_Faulty(p) == p
NextPort(p) == IF p = Width - 1 THEN 0 ELSE p + 1

TakePort ==
    /\ locked /\ LoopGoesOn(scan) /\ Free(scan)
    /\ usedPorts' = usedPorts \cup {scan}
    /\ result' = scan
    /\ locked' = FALSE
    /\ UNCHANGED <<minPort, maxPort, bound, scan, steady>>

SkipPort ==
    /\ locked /\ LoopGoesOn(scan) /\ ~Free(scan)
    /\ scan' = NextPort(scan)
    /\ UNCHANGED <<minPort, maxPort, usedPorts, bound, locked, result, steady>>

GiveUp ==
    /\ locked /\ ~LoopGoesOn(scan)
    /\ result' = NoPort
    /\ locked' = FALSE
    /\ UNCHANGED <<minPort, maxPort, usedPorts, bound, scan, steady>>

ScanStep == TakePort \/ SkipPort \/ GiveUp

(* releasePort waits for the mutex; it removes whatever port it is given.  *)
ReleasePort(p) ==
    /\ ~locked
    /\ usedPorts' = usedPorts \ {p}
    /\ UNCHANGED <<minPort, maxPort, bound, locked, scan, result, steady>>

(* Other processes, and the server's own sessions, bind and free ports.    *)
Bind(p) ==
    /\ p \notin bound
    /\ bound' = bound \cup {p}
    /\ steady' = steady \ {p}
    /\ UNCHANGED <<minPort, maxPort, usedPorts, locked, scan, result>>

Unbind(p) ==
    /\ p \in bound
    /\ bound' = bound \ {p}
    /\ UNCHANGED <<minPort, maxPort, usedPorts, locked, scan, result, steady>>

Next ==
    \/ AllocateBegins \/ ScanStep
    \/ \E p \in Port : ReleasePort(p)
    \/ \E p \in Port \ {0} : Bind(p) \/ Unbind(p)

Spec == Init /\ [][Next]_vars

(* The goroutine in allocatePort goes on; nothing is assumed of the others. *)
FairSpec == Spec /\ WF_vars(ScanStep)

-----------------------------------------------------------------------------
(* The loop condition port <= maxPort is true of every uint16 when maxPort *)
(* is the largest one: the loop variable wraps to 0 instead of leaving.    *)
TopOfRange == maxPort = Width - 1

(* Below the top of the port space, only ports of the configured range are *)
(* given out.                                                              *)
RangeKept == ~TopOfRange => usedPorts \subseteq InRange

(* First fit, although ports come and go during the scan: allocatePort     *)
(* returns no port above one that was free throughout the scan, and fails  *)
(* only if no port of the range was.                                       *)
FirstFit == [][locked /\ ~locked' => \A p \in steady : result' <= p]_vars

(* allocatePort returns, and with it the mutex that releasePort needs,     *)
(* however often ports change while it looks.  At the top of the range the *)
(* scan goes round instead of giving up, but still finds a port, in the    *)
(* range or not, if only one stays free.                                   *)
AllocateEnds ==
    locked ~> (~locked \/ (TopOfRange /\ \A p \in Port : []<>~Free(p)))

(* Only ports of the configured range are given out, for every range that  *)
(* newPortManager accepts.                                                 *)
AllPortsInRange == usedPorts \subseteq InRange
====
