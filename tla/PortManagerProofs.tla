-------------------------- MODULE PortManagerProofs --------------------------
(***************************************************************************)
(* Theorems about PortManager for every width of a port number and every   *)
(* configuration.                                                          *)
(***************************************************************************)
EXTENDS PortManager, TLAPS

(* The scan stays within one port of the range, unless the range ends with *)
(* the last port number.                                                   *)
ScanNear ==
    /\ 0 < minPort /\ minPort <= maxPort
    /\ ~TopOfRange => minPort <= scan /\ scan <= maxPort + 1

(* What was free throughout the scan is still free and still ahead of it.  *)
SteadyAhead == locked => \A p \in steady : p \in InRange /\ Free(p) /\ scan <= p

PInv == TypeOK /\ ScanNear /\ RangeKept /\ SteadyAhead

(* newPortManager establishes the invariant.                               *)
LEMMA InitPInv == Init => PInv
<1> SUFFICES ASSUME Init PROVE PInv
  OBVIOUS
<1>1. PICK lo \in Port, hi \in Port :
        /\ minPort = WithDefault(lo, DefaultMin)
        /\ maxPort = WithDefault(hi, DefaultMax)
        /\ minPort <= maxPort
        /\ usedPorts = {} /\ steady = {} /\ bound \in SUBSET (Port \ {0})
        /\ locked = FALSE /\ scan = minPort /\ result = NoPort
  BY DEF Init
<1>2. minPort \in Port \ {0} /\ maxPort \in Port \ {0} /\ 0 < minPort
  BY <1>1, PortAssumption DEF WithDefault, Port
<1>3. TypeOK
  BY <1>1, <1>2 DEF TypeOK
<1>4. ScanNear
  BY <1>1, <1>2, PortAssumption DEF ScanNear, Port
<1>5. RangeKept /\ SteadyAhead
  BY <1>1 DEF RangeKept, SteadyAhead
<1> QED BY <1>3, <1>4, <1>5 DEF PInv

(* Every step keeps it.                                                    *)
LEMMA NextPInv == PInv /\ [Next]_vars => PInv'
<1> SUFFICES ASSUME PInv, [Next]_vars PROVE PInv'
  OBVIOUS
<1> USE PortAssumption DEF PInv, TypeOK, ScanNear, RangeKept, SteadyAhead, TopOfRange, InRange,
        Free, Port, NoPort
<1>1. CASE AllocateBegins
  <2>1. /\ UNCHANGED <<minPort, maxPort, usedPorts, bound, result>>
        /\ locked' = TRUE /\ scan' = minPort
        /\ steady' \subseteq InRange /\ \A p \in steady' : Free(p)
    BY <1>1 DEF AllocateBegins
  <2>2. \A p \in steady' : p \in Port /\ minPort <= p
    BY <2>1
  <2> QED BY <2>1, <2>2
<1>2. CASE TakePort
  <2>1. /\ UNCHANGED <<minPort, maxPort, bound, scan, steady>>
        /\ locked' = FALSE /\ result' = scan
        /\ usedPorts' = usedPorts \cup {scan} /\ scan <= maxPort
    BY <1>2 DEF TakePort, LoopGoesOn
  <2>2. RangeKept'
    BY <2>1
  <2>3. TypeOK' /\ ScanNear'
    BY <2>1
  <2> QED BY <2>1, <2>2, <2>3
<1>3. CASE SkipPort
  <2>1. /\ locked /\ scan <= maxPort /\ ~Free(scan)
        /\ UNCHANGED <<minPort, maxPort, usedPorts, bound, locked, result, steady>>
    BY <1>3 DEF SkipPort, LoopGoesOn
  <2>2. CASE scan = Width - 1
    <3>1. steady = {}
      BY <2>1, <2>2
    <3>2. scan' = 0 /\ maxPort = Width - 1
      BY <1>3, <2>1, <2>2 DEF SkipPort, NextPort
    <3> QED BY <2>1, <3>1, <3>2
  <2>3. CASE scan # Width - 1
    <3>1. scan' = scan + 1
      BY <1>3, <2>3 DEF SkipPort, NextPort
    <3> QED BY <2>1, <2>3, <3>1
  <2> QED BY <2>2, <2>3
<1>4. CASE GiveUp
  BY <1>4 DEF GiveUp
<1>5. ASSUME NEW p \in Port, ReleasePort(p) PROVE PInv'
  BY <1>5 DEF ReleasePort
<1>6. ASSUME NEW p \in Port \ {0}, Bind(p) PROVE PInv'
  BY <1>6 DEF Bind
<1>7. ASSUME NEW p \in Port \ {0}, Unbind(p) PROVE PInv'
  BY <1>7 DEF Unbind
<1>8. CASE UNCHANGED vars
  BY <1>8 DEF vars
<1> QED BY <1>1, <1>2, <1>3, <1>4, <1>5, <1>6, <1>7, <1>8 DEF Next, ScanStep

(* Every variable keeps its type, and 0 is never an end of the range, for  *)
(* any port space, defaults and configuration (TypeOK).                    *)
THEOREM PortTypes == Spec => []TypeOK
<1>1. PInv => TypeOK
  BY DEF PInv
<1> QED BY <1>1, InitPInv, NextPInv, PTL DEF Spec

(* allocatePort gives out ports of the configured range only, for every    *)
(* range that does not end with the last port number.                      *)
THEOREM PortsWithinRange == Spec => []RangeKept
<1>1. PInv => RangeKept
  BY DEF PInv
<1> QED BY <1>1, InitPInv, NextPInv, PTL DEF Spec

(* allocatePort is first fit: neither its answer nor its failure passes    *)
(* over a port that was free while it looked.                              *)
THEOREM AllocateFirstFit == Spec => FirstFit
<1>1. PInv /\ [Next]_vars => [locked /\ ~locked' => \A p \in steady : result' <= p]_vars
  <2> SUFFICES ASSUME PInv, Next, locked, ~locked', NEW p \in steady PROVE result' <= p
    BY DEF vars
  <2> USE PortAssumption DEF PInv, TypeOK, SteadyAhead, InRange, Port, NoPort
  <2>1. CASE TakePort
    BY <2>1 DEF TakePort
  <2>2. CASE GiveUp
    BY <2>2 DEF GiveUp, LoopGoesOn
  <2>3. CASE AllocateBegins \/ SkipPort \/ \E q \in Port : ReleasePort(q) \/ Bind(q) \/ Unbind(q)
    BY <2>3 DEF AllocateBegins, SkipPort, ReleasePort, Bind, Unbind
  <2> QED BY <2>1, <2>2, <2>3 DEF Next, ScanStep
<1> QED BY <1>1, InitPInv, NextPInv, PTL DEF Spec, FirstFit
====
