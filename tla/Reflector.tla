------------------------------ MODULE Reflector ------------------------------
(***************************************************************************)
(* When the loop of reflectPackets (src/server/server.go) ends a session   *)
(* by itself: the idle timeout REFWAIT, which is looked at only when a     *)
(* read times out, and the limit on consecutive HMAC failures.             *)
(*                                                                         *)
(* Time is counted in ticks.  The clock values of the code appear as ages  *)
(* (how long ago startTime or lastHMACFailureTime was taken), which stop   *)
(* counting above every value they are compared with.  The reflector is    *)
(* taken to act without delay once a packet or a deadline is there.        *)
(* Several packets may arrive within a tick.                               *)
(*                                                                         *)
(* An operator whose name ends in _Faulty is the definition after it with  *)
(* one plausible mistake, to see that a property notices it.               *)
(***************************************************************************)
EXTENDS Naturals

CONSTANTS
    ReadTimeout,      \* 500 ms, the deadline of a read
    REFWAIT,          \* config.REFWAIT
    ResetWindow,      \* HMACFailureResetWindow, 30 s
    DefaultFailures,  \* DefaultMaxConsecutiveHMACFailures, 100
    Configs           \* values config.MaxHMACFailures may have

ASSUME ReflectorAssumption ==
    /\ ReadTimeout \in Nat \ {0} /\ REFWAIT \in Nat /\ ResetWindow \in Nat
    /\ DefaultFailures \in Nat \ {0} /\ Configs \subseteq Nat

VARIABLES
    phase,        \* "running", or why the reflector returned
    maxFailures,  \* session.maxHMACFailures
    waited,       \* how long the current read has lasted
    idle,         \* age of session.startTime
    failures,     \* session.hmacFailures
    failAge,      \* age of session.lastHMACFailureTime
    silent,       \* history: time since any packet arrived
    span          \* history: age of the first of the counted failures

vars == <<phase, maxFailures, waited, idle, failures, failAge, silent, span>>

IdleCap == REFWAIT + ReadTimeout + 1
FailCap == ResetWindow + 1
SpanCap == maxFailures * ResetWindow + 1

(* An age one tick later.                                                  *)
Older(age, cap) == IF age < cap THEN age + 1 ELSE cap

(* The variables have their types, and the threshold of a session is never *)
(* 0, which is how reflectPackets knows a session without the policy.      *)
TypeOK ==
    /\ phase \in {"running", "idle", "banned", "stopped"}
    /\ maxFailures \in Nat \ {0} /\ failures \in 0 .. maxFailures
    /\ waited \in 0 .. ReadTimeout
    /\ idle \in 0 .. IdleCap /\ silent \in 0 .. IdleCap
    /\ failAge \in 0 .. FailCap /\ span \in 0 .. SpanCap

effectiveMaxHMACFailures_Faulty(configured) == configured
effectiveMaxHMACFailures(configured) ==
    IF configured = 0 THEN DefaultFailures ELSE configured

(* startSession has just set startTime; a zero lastHMACFailureTime counts  *)
(* as long ago, with no failure to forget.                                 *)
Init ==
    /\ phase = "running"
    /\ \E configured \in Configs : maxFailures = effectiveMaxHMACFailures(configured)
    /\ waited = 0 /\ idle = 0 /\ failures = 0 /\ failAge = FailCap
    /\ silent = 0 /\ span = 0

-----------------------------------------------------------------------------

Tick ==
    /\ phase = "running" /\ waited < ReadTimeout
    /\ waited' = waited + 1
    /\ idle' = Older(idle, IdleCap)
    /\ silent' = Older(silent, IdleCap)
    /\ failAge' = Older(failAge, FailCap)
    /\ span' = Older(span, SpanCap)
    /\ UNCHANGED <<phase, maxFailures, failures>>

(* time.Since(session.startTime) > REFWAIT; the faulty one rounds the wait *)
(* up to another read.                                                     *)
Expired_Faulty == idle > REFWAIT + ReadTimeout
Expired == idle > REFWAIT

(* The read times out: the only place where REFWAIT is looked at.          *)
ReadTimesOut ==
    /\ phase = "running" /\ waited = ReadTimeout
    /\ phase' = IF Expired THEN "idle" ELSE "running"
    /\ waited' = 0
    /\ UNCHANGED <<maxFailures, idle, failures, failAge, silent, span>>

(* A packet arrived, and the next iteration waits anew.                    *)
PacketArrives ==
    /\ phase = "running"
    /\ waited' = 0 /\ silent' = 0
    /\ UNCHANGED maxFailures

(* processAndReflect succeeded.                                            *)
ValidPacket ==
    /\ PacketArrives
    /\ idle' = 0 /\ failures' = 0 /\ span' = 0
    /\ UNCHANGED <<phase, failAge>>

(* Outside the window the failures so far are forgotten.                   *)
Remembered_Faulty == failures
Remembered == IF failAge > ResetWindow THEN 0 ELSE failures

(* processAndReflect returned ErrHMACVerificationFailed.                   *)
HMACFailure ==
    LET n == Remembered + 1 IN
    /\ PacketArrives
    /\ failures' = n
    /\ failAge' = 0
    /\ span' = IF n = 1 THEN 0 ELSE span
    /\ phase' = IF n >= maxFailures THEN "banned" ELSE "running"
    /\ UNCHANGED idle

(* Any other error: the packet cannot be decrypted or parsed, or the reply *)
(* cannot be built or sent.                                                *)
ProcessingError ==
    /\ PacketArrives
    /\ UNCHANGED <<phase, idle, failures, failAge, span>>

(* stopSession was called by another goroutine: the read fails on the      *)
(* closed socket and the loop ends.                                        *)
Stopped ==
    /\ phase = "running"
    /\ phase' = "stopped"
    /\ UNCHANGED <<maxFailures, waited, idle, failures, failAge, silent, span>>

Returned == phase # "running" /\ UNCHANGED vars

Next ==
    \/ Tick \/ ReadTimesOut \/ ValidPacket \/ HMACFailure \/ ProcessingError
    \/ Stopped \/ Returned

Spec == Init /\ [][Next]_vars

-----------------------------------------------------------------------------
(* A session without a valid packet is stopped at the first read that      *)
(* times out after REFWAIT.  What keeps it alive beyond that is only a     *)
(* packet, though an invalid one, within every read timeout.               *)
QuietSessionEnds ==
    phase = "running" => idle <= REFWAIT + ReadTimeout \/ silent <= ReadTimeout

(* The HMAC policy: a session goes on only below the threshold, and it is  *)
(* ended only for failures that came closer together than the window, not  *)
(* for failures that a long-lived session accumulated.                     *)
HMACPolicy ==
    /\ phase = "running" => failures < maxFailures
    /\ phase = "banned" => span <= (maxFailures - 1) * ResetWindow
====
