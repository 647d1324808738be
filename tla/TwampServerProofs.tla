-------------------------- MODULE TwampServerProofs --------------------------
(***************************************************************************)
(* Theorems about TwampServer, for every set of connections, sessions,     *)
(* SIDs and ports and every bound on restarts.                             *)
(***************************************************************************)
EXTENDS TwampServer, TLAPS

-----------------------------------------------------------------------------
(* Type correctness.  TypeOK is not inductive by itself: a handler that is *)
(* creating or starting a session must have one, and a stopSession frame   *)
(* that is not idle must be about one.                                     *)

CurShape ==
    \A c \in Conns : pc[c] \in {"check", "store", "bound"} => cur[c] \in Sessions

FrameShape ==
    \A f \in Callers :
        /\ frame[f].phase = "idle" => frame[f] = NoFrame
        /\ frame[f].phase # "idle" => frame[f].sess \in Sessions

Shape == TypeOK /\ CurShape /\ FrameShape

(* A frame is typed, and stays well shaped when stopSession's              *)
(* compare-and-swap opens one.                                             *)
LEMMA BeginStopShape ==
    ASSUME Shape, NEW f \in Callers, NEW s \in Sessions, BeginStop(f, s)
    PROVE  /\ active' \in [Sessions -> BOOLEAN]
           /\ frame' \in [Callers -> Frames]
           /\ FrameShape'
<1> DEFINE new == [sess |-> s, phase |-> "cas"]
<1>1. new \in Frames
  BY DEF Frames, Phases
<1>2. frame \in [Callers -> Frames] /\ active \in [Sessions -> BOOLEAN]
  BY DEF Shape, TypeOK
<1>3. CASE ~active[s]
  BY <1>2, <1>3 DEF BeginStop, Shape, FrameShape
<1>4. CASE active[s]
  <2>1. active' = [active EXCEPT ![s] = FALSE] /\ frame' = [frame EXCEPT ![f] = new]
    BY <1>4 DEF BeginStop
  <2>2. \A g \in Callers : frame'[g] = IF g = f THEN new ELSE frame[g]
    BY <2>1, <1>2
  <2>3. new.phase # "idle" /\ new.sess \in Sessions
    OBVIOUS
  <2> HIDE DEF new
  <2> QED BY <2>1, <2>2, <2>3, <1>1, <1>2 DEF Shape, FrameShape
<1> QED BY <1>3, <1>4

(* The later steps of stopSession only advance the phase of their frame.   *)
LEMMA FrameAdvanceShape ==
    ASSUME Shape, NEW f \in Callers, frame[f].phase # "idle",
           NEW w \in Phases, w # "idle",
           frame' = [frame EXCEPT ![f].phase = w]
    PROVE  frame' \in [Callers -> Frames] /\ FrameShape'
<1> DEFINE new == [frame[f] EXCEPT !.phase = w]
<1>1. frame \in [Callers -> Frames] /\ frame[f] \in Frames
  BY DEF Shape, TypeOK
<1>2. frame[f].sess \in Sessions
  BY DEF Shape, FrameShape
<1>3. new \in Frames /\ new.phase = w /\ new.sess \in Sessions
  BY <1>1, <1>2 DEF Frames
<1>4. frame' = [frame EXCEPT ![f] = new]
  BY <1>1
<1> HIDE DEF new
<1>5. \A g \in Callers : frame'[g] = IF g = f THEN new ELSE frame[g]
  BY <1>1, <1>4
<1> QED BY <1>1, <1>3, <1>4, <1>5 DEF Shape, FrameShape

(* Every kind of goroutine that runs stopSession is a caller.              *)
LEMMA CallerTypes ==
    /\ \A c \in Conns : Handler(c) \in Callers
    /\ \A s \in Sessions : Timer(s) \in Callers
    /\ \A s \in Sessions, k \in Runs : Reflector(s, k) \in Callers
    /\ Stopper \in Callers
BY DEF Callers

(* Init establishes the typing invariant.                                  *)
LEMMA InitShape == Init => Shape
<1> SUFFICES ASSUME Init PROVE Shape
  OBVIOUS
<1> USE DEF Init
<1>1. refl \in [Sessions \X Runs -> ReflPc]
  BY DEF ReflPc
<1>2. view \in [Sessions \X Runs -> (0 .. MaxStarts) \X (0 .. MaxStarts)]
  BY ServerAssumption
<1>3. NoFrame \in Frames
  BY DEF NoFrame, Frames, Phases
<1>4. frame \in [Callers -> Frames]
  BY <1>3
<1>5. active \in [Sessions -> BOOLEAN]
  OBVIOUS
<1>6. /\ starts \in [Sessions -> 0 .. MaxStarts]
      /\ conn \in [Sessions -> 0 .. MaxStarts]
      /\ chan \in [Sessions -> 0 .. MaxStarts]
  BY ServerAssumption
<1>7. /\ pc \in [Conns -> ConnPc]
      /\ ccSessions \in [Conns -> SUBSET Sessions]
      /\ todo \in [Conns -> SUBSET Sessions]
      /\ cur \in [Conns -> Sessions \cup {None}]
      /\ registry \in [SIDs -> Sessions \cup {None}]
      /\ sid \in [Sessions -> SIDs \cup {None}]
      /\ port \in [Sessions -> Ports \cup {None}]
  BY DEF ConnPc
<1>8. TypeOK
  BY <1>1, <1>2, <1>4, <1>5, <1>6, <1>7 DEF TypeOK, StopPc
<1>9. CurShape
  BY DEF CurShape
<1>10. FrameShape
  BY DEF FrameShape, NoFrame
<1> QED BY <1>8, <1>9, <1>10 DEF Shape

(* Every step keeps the typing invariant.                                  *)
LEMMA NextShape == Shape /\ Next => Shape'
<1> SUFFICES ASSUME Shape, Next PROVE Shape'
  OBVIOUS
<1> USE ServerAssumption DEF Shape, TypeOK, CurShape, FrameShape, ConnPc, ReflPc, StopPc,
        Phases, Runs
<1>1. CASE AcceptFails
  BY <1>1 DEF AcceptFails, AcceptorGoes, stopVars, connVars, ownVars, chanVars, reflVars,
     history
<1>2. ASSUME NEW c \in Conns, Accept(c) PROVE Shape'
  BY <1>2 DEF Accept, AcceptorGoes, stopVars, ownVars, chanVars, reflVars, history
<1>3. ASSUME NEW c \in Conns, Register(c) PROVE Shape'
  BY <1>3 DEF Register, HandlerMoves, Goto, stopVars, ownVars, chanVars, reflVars, history
<1>4. ASSUME NEW c \in Conns, PeerSetup(c) PROVE Shape'
  BY <1>4 DEF PeerSetup, HandlerMoves, Answered, Goto, LoopHead, stopVars, ownVars,
     chanVars, reflVars, history
<1>5. ASSUME NEW c \in Conns, SetupCut(c) PROVE Shape'
  BY <1>5 DEF SetupCut, HandlerMoves, Goto, stopVars, ownVars, chanVars, reflVars, history
<1>6. ASSUME NEW c \in Conns, ReadFails(c) PROVE Shape'
  BY <1>6 DEF ReadFails, HandlerMoves, Goto, stopVars, ownVars, chanVars, reflVars,
     history
<1>7. ASSUME NEW c \in Conns, ReadCommand(c) PROVE Shape'
  BY <1>7 DEF ReadCommand, HandlerMoves, Goto, stopVars, ownVars, chanVars, reflVars,
     history
<1>8. ASSUME NEW c \in Conns, RejectCommand(c) PROVE Shape'
  BY <1>8 DEF RejectCommand, HandlerMoves, Answered, Goto, LoopHead, stopVars, ownVars,
     chanVars, reflVars, history
<1>9. ASSUME NEW c \in Conns, NEW s \in Sessions, NEW x \in SIDs, NEW p \in Ports, NEW i \in BOOLEAN,
              RequestPort(c, s, x, p, i)
       PROVE  Shape'
  BY <1>9 DEF RequestPort, Goto, stopVars, chanVars, reflVars, history
<1>10. ASSUME NEW c \in Conns, CheckSID(c) PROVE Shape'
  <2>1. CASE DropRequest(c) /\ Answered(c)
    <3>1. cur[c] \in Sessions
      BY <1>10 DEF CheckSID
    <3>2. /\ usedPorts' \subseteq Ports /\ port' \in [Sessions -> Ports \cup {None}]
          /\ sid' \in [Sessions -> SIDs \cup {None}]
      BY <2>1, <3>1 DEF DropRequest, FreePort
    <3> QED BY <2>1, <3>2 DEF DropRequest, Answered, Goto, LoopHead, stopVars, chanVars,
            reflVars, history
  <2>2. CASE Goto(c, "store") /\ UNCHANGED <<connections, ccSessions, todo, cur>> /\ HandlerMoves
    BY <1>10, <2>2 DEF CheckSID, Goto, HandlerMoves, stopVars, ownVars, chanVars,
       reflVars, history
  <2> QED BY <1>10, <2>1, <2>2 DEF CheckSID
<1>11. ASSUME NEW c \in Conns, RequestError(c) PROVE Shape'
  BY <1>11 DEF RequestError, DropRequest, FreePort, Goto, stopVars, chanVars, reflVars,
     history
<1>12. ASSUME NEW c \in Conns, StoreSession(c) PROVE Shape'
  <2> USE <1>12 DEF StoreSession, RegisterSession, Answered, Goto, LoopHead, stopVars,
     ownVars, reflVars
  <2>1. overwritten' \in BOOLEAN
    OBVIOUS
  <2>2. registry' \in [SIDs -> Sessions \cup {None}]
    OBVIOUS
  <2>3. ccSessions' \in [Conns -> SUBSET Sessions]
    OBVIOUS
  <2>4. chan' \in [Sessions -> 0 .. MaxStarts]
    OBVIOUS
  <2>5. pc' \in [Conns -> ConnPc] /\ cur' \in [Conns -> Sessions \cup {None}]
    OBVIOUS
  <2>6. CurShape' /\ FrameShape'
    OBVIOUS
  <2> QED BY <2>1, <2>2, <2>3, <2>4, <2>5, <2>6
<1>13. ASSUME NEW c \in Conns, StartSessions(c) PROVE Shape'
  BY <1>13 DEF StartSessions, HandlerMoves, Goto, stopVars, ownVars, chanVars, reflVars,
     history
<1>14. ASSUME NEW c \in Conns, NEW s \in Sessions, StartSkip(c, s) PROVE Shape'
  BY <1>14 DEF StartSkip, HandlerMoves, stopVars, ownVars, chanVars, reflVars, history
<1>15. ASSUME NEW c \in Conns, NEW s \in Sessions, StartFails(c, s) PROVE Shape'
  BY <1>15 DEF StartFails, HandlerMoves, Answered, Goto, LoopHead, stopVars, ownVars,
     chanVars, reflVars, history
<1>16. ASSUME NEW c \in Conns, NEW s \in Sessions, StartBind(c, s) PROVE Shape'
  BY <1>16 DEF StartBind, Goto, stopVars, ownVars, reflVars, history
<1>17. ASSUME NEW c \in Conns, StartActivate(c) PROVE Shape'
  BY <1>17 DEF StartActivate, Goto, stopVars, ownVars, chanVars, history
<1>18. ASSUME NEW c \in Conns, StartAck(c) PROVE Shape'
  BY <1>18 DEF StartAck, HandlerMoves, Answered, Goto, LoopHead, stopVars, ownVars,
     chanVars, reflVars, history
<1>19. ASSUME NEW c \in Conns, StopSessions(c) PROVE Shape'
  BY <1>19 DEF StopSessions, ScheduleStop, ForgetSessions, StartTimers, Goto, LoopHead,
     stopVars, ownVars, chanVars,
     reflVars, history
<1>20. ASSUME NEW c \in Conns, StopNSessions(c) PROVE Shape'
  BY <1>20 DEF StopNSessions, ScheduleStop, ForgetSessions, StartTimers, Goto,
     LoopHead, stopVars, ownVars, chanVars,
     reflVars, history
<1>21. ASSUME NEW c \in Conns, NEW s \in Sessions, CleanupStop(c, s) PROVE Shape'
  <2>1. BeginStop(Handler(c), s)
    BY <1>21 DEF CleanupStop
  <2>2. active' \in [Sessions -> BOOLEAN] /\ frame' \in [Callers -> Frames] /\ FrameShape'
    BY <2>1, CallerTypes, BeginStopShape
  <2> QED BY <1>21, <2>2 DEF CleanupStop, stopVars, ownVars, chanVars, reflVars, history
<1>22. ASSUME NEW c \in Conns, Disconnect(c) PROVE Shape'
  BY <1>22 DEF Disconnect, HandlerMoves, Goto, stopVars, ownVars, chanVars, reflVars,
     history
<1>23. ASSUME NEW s \in Sessions, TimerFires(s) PROVE Shape'
  <2>1. BeginStop(Timer(s), s)
    BY <1>23 DEF TimerFires
  <2>2. active' \in [Sessions -> BOOLEAN] /\ frame' \in [Callers -> Frames] /\ FrameShape'
    BY <2>1, CallerTypes, BeginStopShape
  <2> QED BY <1>23, <2>2 DEF TimerFires, stopVars, connVars, ownVars, chanVars, reflVars,
       history
<1>24. ASSUME NEW f \in Callers, CloseSession(f) PROVE Shape'
  <2>1. frame[f].phase = "cas" /\ frame' = [frame EXCEPT ![f].phase = "closed"]
    BY <1>24 DEF CloseSession, TakeStopChan, CloseSocket
  <2>2. frame' \in [Callers -> Frames] /\ FrameShape'
    BY <2>1, FrameAdvanceShape
  <2>3. crashed' \in BOOLEAN
    BY <1>24 DEF CloseSession, TakeStopChan, CloseSocket
  <2>4. chan' \in [Sessions -> 0 .. MaxStarts]
    BY <1>24 DEF CloseSession, TakeStopChan, CloseSocket
  <2> QED BY <1>24, <2>2, <2>3, <2>4 DEF CloseSession, TakeStopChan, CloseSocket,
     stopVars, connVars, ownVars, reflVars, history
<1>25. ASSUME NEW f \in Callers, Unregister(f) PROVE Shape'
  <2>1. frame[f].phase = "closed" /\ frame' = [frame EXCEPT ![f].phase = "unregistered"]
    BY <1>25 DEF Unregister
  <2>2. frame' \in [Callers -> Frames] /\ FrameShape'
    BY <2>1, FrameAdvanceShape
  <2> QED BY <1>25, <2>2 DEF Unregister, stopVars, connVars, ownVars, chanVars,
     reflVars, history
<1>26. ASSUME NEW f \in Callers, ReleasePort(f) PROVE Shape'
  <2>1. NoFrame \in Frames /\ NoFrame.phase = "idle"
    BY DEF NoFrame, Frames
  <2>2. frame' = [frame EXCEPT ![f] = NoFrame] /\ frame[f].sess \in Sessions
    BY <1>26 DEF ReleasePort, FreePort
  <2>3. frame' \in [Callers -> Frames] /\ FrameShape'
    BY <2>1, <2>2
  <2> QED BY <1>26, <2>2, <2>3 DEF ReleasePort, FreePort, stopVars, connVars, ownVars,
     chanVars, reflVars, history
<1>27. ASSUME NEW s \in Sessions, NEW k \in Runs, ReflectorRefresh(s, k) PROVE Shape'
  BY <1>27 DEF ReflectorRefresh, stopVars, connVars, ownVars, chanVars, history
<1>28. ASSUME NEW s \in Sessions, NEW k \in Runs, ReflectorLeaves(s, k) PROVE Shape'
  BY <1>28 DEF ReflectorLeaves, stopVars, connVars, ownVars, chanVars, history
<1>29. ASSUME NEW s \in Sessions, NEW k \in Runs, ReflectorStopsSelf(s, k) PROVE Shape'
  <2>1. BeginStop(Reflector(s, k), s)
    BY <1>29 DEF ReflectorStopsSelf
  <2>2. active' \in [Sessions -> BOOLEAN] /\ frame' \in [Callers -> Frames] /\ FrameShape'
    BY <2>1, CallerTypes, BeginStopShape
  <2> QED BY <1>29, <2>2 DEF ReflectorStopsSelf, stopVars, connVars, ownVars, chanVars,
       history
<1>30. ASSUME NEW s \in Sessions, NEW k \in Runs, ReflectorExits(s, k) PROVE Shape'
  BY <1>30 DEF ReflectorExits, CloseSocket, stopVars, connVars, ownVars, chanVars, history
<1>31. CASE CancelContext
  BY <1>31 DEF CancelContext, ShutdownStep, stopVars, connVars, ownVars, chanVars,
     reflVars,
     history
<1>32. CASE StopCalled
  BY <1>32 DEF StopCalled, ShutdownStep, connVars, ownVars, chanVars, reflVars, history
<1>33. CASE StopCopies
  BY <1>33 DEF StopCopies, SessionList, ShutdownStep, connVars, ownVars, chanVars,
     reflVars, history
<1>34. ASSUME NEW s \in Sessions, StopNext(s) PROVE Shape'
  <2>1. BeginStop(Stopper, s)
    BY <1>34 DEF StopNext
  <2>2. active' \in [Sessions -> BOOLEAN] /\ frame' \in [Callers -> Frames] /\ FrameShape'
    BY <2>1, CallerTypes, BeginStopShape
  <2> QED BY <1>34, <2>2 DEF StopNext, ShutdownStep, connVars, ownVars, chanVars,
     reflVars,
       history
<1>35. CASE StopClosesConnections
  BY <1>35 DEF StopClosesConnections, ShutdownStep, ownVars, chanVars, reflVars, history
<1>36. CASE StopReturns
  BY <1>36 DEF StopReturns, ShutdownStep, connVars, ownVars, chanVars, reflVars, history
<1>37. CASE Terminated
  BY <1>37 DEF Terminated, vars, stopVars, connVars, ownVars, chanVars, reflVars, history
<1> HIDE DEF Shape
<1> QED
  BY <1>1, <1>2, <1>3, <1>4, <1>5, <1>6, <1>7, <1>8, <1>9, <1>10, <1>11, <1>12, <1>13,
     <1>14, <1>15, <1>16, <1>17, <1>18, <1>19, <1>20, <1>21, <1>22, <1>23, <1>24, <1>25,
     <1>26, <1>27, <1>28, <1>29, <1>30, <1>31, <1>32, <1>33, <1>34, <1>35, <1>36, <1>37
     DEF Next, HandlerStep, ServeCommand, PeerStep, ReflectorStep, StopSessionStep,
        StopStep

(* Every variable of the server keeps the type of its Go declaration, and  *)
(* no handler or stopSession call works on a session it does not have.     *)
THEOREM TypeCorrect == Spec => []TypeOK
<1>1. Init => Shape
  BY InitShape
<1>2. Shape /\ [Next]_vars => Shape'
  <2>1. Shape /\ UNCHANGED vars => Shape'
    BY DEF Shape, TypeOK, CurShape, FrameShape, vars, stopVars, connVars, ownVars,
       chanVars,
           reflVars, history
  <2> QED BY <2>1, NextShape
<1>3. Shape => TypeOK
  BY DEF Shape
<1> QED BY <1>1, <1>2, <1>3, PTL DEF Spec
====
