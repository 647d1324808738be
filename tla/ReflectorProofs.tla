--------------------------- MODULE ReflectorProofs ---------------------------
(***************************************************************************)
(* The timing of Reflector for every timeout, window and threshold.        *)
(***************************************************************************)
EXTENDS Reflector, Integers, TLAPS

(* Either the current read began with the last packet, or an earlier read  *)
(* timed out since and found the session within REFWAIT.                   *)
WaitOK ==
    phase = "running" => /\ silent <= idle
                         /\ silent = waited \/ idle <= REFWAIT + waited

(* As long as the window has not closed, the counted failures lie within a *)
(* window of each other.                                                   *)
SpanOK ==
    failures > 0 /\ failAge <= ResetWindow =>
        span <= (failures - 1) * ResetWindow + failAge

RInv == TypeOK /\ WaitOK /\ SpanOK /\ HMACPolicy

(* Products with the window, the only ones in the model.                   *)
LEMMA WindowProduct ==
    /\ 0 * ResetWindow = 0
    /\ \A n \in Nat : n * ResetWindow \in Nat
    /\ \A n \in Nat : n > 0 => (n - 1) * ResetWindow + ResetWindow = n * ResetWindow
BY ReflectorAssumption

(* startSession establishes the invariant.                                 *)
LEMMA InitRInv == Init => RInv
<1> SUFFICES ASSUME Init PROVE RInv
  OBVIOUS
<1>1. maxFailures \in Nat \ {0}
  BY ReflectorAssumption DEF Init, effectiveMaxHMACFailures
<1>2. IdleCap \in Nat /\ FailCap \in Nat /\ SpanCap \in Nat
  BY <1>1, ReflectorAssumption, WindowProduct DEF IdleCap, FailCap, SpanCap
<1>3. TypeOK
  BY <1>1, <1>2, ReflectorAssumption DEF Init, TypeOK
<1> QED BY <1>1, <1>3, ReflectorAssumption DEF Init, RInv, WaitOK, SpanOK, HMACPolicy

(* Every step keeps it.                                                    *)
LEMMA NextRInv == RInv /\ [Next]_vars => RInv'
<1> SUFFICES ASSUME RInv, [Next]_vars PROVE RInv'
  OBVIOUS
<1> USE ReflectorAssumption DEF RInv, TypeOK, WaitOK, SpanOK, HMACPolicy
<1>1. /\ maxFailures' = maxFailures /\ SpanCap' = SpanCap
      /\ IdleCap \in Nat /\ FailCap \in Nat /\ SpanCap \in Nat
  BY WindowProduct DEF Next, Tick, ReadTimesOut, ValidPacket, HMACFailure, ProcessingError,
     PacketArrives, Stopped, Returned, vars, IdleCap, FailCap, SpanCap
<1>2. CASE Tick
  <2>1. TypeOK'
    BY <1>1, <1>2 DEF Tick, Older
  <2>2. WaitOK'
    BY <1>1, <1>2 DEF Tick, Older, IdleCap
  <2>3. SpanOK'
    <3> DEFINE P == (failures - 1) * ResetWindow
    <3>1. P \in Int
      OBVIOUS
    <3>2. failures' = failures /\ span' <= span + 1 /\ (failAge' <= ResetWindow => failAge' = failAge + 1)
      BY <1>1, <1>2 DEF Tick, Older, FailCap
    <3>3. failures > 0 /\ failAge <= ResetWindow => span <= P + failAge
      OBVIOUS
    <3>4. SpanOK' <=> (failures' > 0 /\ failAge' <= ResetWindow => span' <= P + failAge')
      BY <3>2
    <3> HIDE DEF P
    <3>5. failAge' <= ResetWindow => failAge <= ResetWindow
      BY <3>2
    <3>6. span' \in Nat /\ failAge' \in Nat
      BY <2>1, <1>1
    <3> QED BY <3>1, <3>2, <3>3, <3>4, <3>5, <3>6
  <2>4. HMACPolicy'
    BY <1>2 DEF Tick
  <2> QED BY <2>1, <2>2, <2>3, <2>4
<1>3. CASE ReadTimesOut
  <2>1. /\ waited' = 0 /\ waited = ReadTimeout /\ phase = "running"
        /\ UNCHANGED <<maxFailures, idle, failures, failAge, silent, span>>
        /\ phase' = "running" => idle <= REFWAIT
        /\ phase' \in {"running", "idle"}
    BY <1>3 DEF ReadTimesOut, Expired, IdleCap
  <2> QED BY <2>1, <1>1
<1>4. CASE ValidPacket
  BY <1>1, <1>4 DEF ValidPacket, PacketArrives
<1>5. CASE HMACFailure
  <2> DEFINE n == Remembered + 1
  <2>1. /\ failures' = n /\ failAge' = 0 /\ phase = "running"
        /\ span' = (IF n = 1 THEN 0 ELSE span)
        /\ phase' = (IF n >= maxFailures THEN "banned" ELSE "running")
        /\ waited' = 0 /\ silent' = 0 /\ idle' = idle
    BY <1>5 DEF HMACFailure, PacketArrives
  <2>2. /\ n \in 1 .. maxFailures
        /\ n # 1 => failures = n - 1 /\ failures > 0 /\ failAge <= ResetWindow
    BY <2>1 DEF Remembered
  <2> HIDE DEF n
  <2>3. span' <= (n - 1) * ResetWindow
    <3>1. CASE n = 1
      BY <3>1, <2>1, WindowProduct
    <3>2. CASE n # 1
      <4>1. span <= (failures - 1) * ResetWindow + ResetWindow
        BY <3>2, <2>2
      <4>2. (failures - 1) * ResetWindow + ResetWindow = failures * ResetWindow
        BY <3>2, <2>2, WindowProduct
      <4> QED BY <3>2, <4>1, <4>2, <2>1, <2>2
    <3> QED BY <3>1, <3>2
  <2>4. TypeOK'
    BY <1>1, <2>1, <2>2
  <2>5. WaitOK'
    BY <2>1
  <2>6. SpanOK'
    BY <2>1, <2>2, <2>3, <2>4, WindowProduct
  <2>7. HMACPolicy'
    <3>1. phase' = "banned" => n = maxFailures
      BY <2>1, <2>2
    <3> QED BY <3>1, <2>1, <2>2, <2>3, <1>1
  <2> QED BY <2>4, <2>5, <2>6, <2>7
<1>6. CASE ProcessingError
  BY <1>1, <1>6 DEF ProcessingError, PacketArrives
<1>7. CASE Stopped
  BY <1>1, <1>7 DEF Stopped
<1>8. CASE UNCHANGED vars
  BY <1>1, <1>8 DEF vars
<1> QED BY <1>2, <1>3, <1>4, <1>5, <1>6, <1>7, <1>8 DEF Next, Returned

(* The ages and counters of the reflector keep their ranges; the threshold *)
(* is never 0 and the HMAC failure count never passes it (TypeOK).         *)
THEOREM ReflectorTypes == Spec => []TypeOK
<1>1. RInv => TypeOK
  BY DEF RInv
<1> QED BY <1>1, InitRInv, NextRInv, PTL DEF Spec

(* reflectPackets stops a session without valid packets no later than one  *)
(* read deadline after REFWAIT, unless some packet comes within each read  *)
(* deadline (QuietSessionEnds), whatever REFWAIT and the traffic before.   *)
THEOREM SilenceIsNoticed == Spec => []QuietSessionEnds
<1>1. RInv => QuietSessionEnds
  BY ReflectorAssumption DEF RInv, TypeOK, WaitOK, QuietSessionEnds, IdleCap
<1> QED BY <1>1, InitRInv, NextRInv, PTL DEF Spec

(* The HMAC failure policy ends a session only for a burst, and always for *)
(* one that reaches the threshold, for every threshold and window.         *)
THEOREM HMACPolicyHolds == Spec => []HMACPolicy
<1>1. RInv => HMACPolicy
  BY DEF RInv
<1> QED BY <1>1, InitRInv, NextRInv, PTL DEF Spec
====
