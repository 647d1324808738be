------------------------ MODULE TwampServerPortProofs ------------------------
(***************************************************************************)
(* The port accounting of TwampServer and the order in which stopSession   *)
(* closes a socket and gives its port back, for every instance.            *)
(***************************************************************************)
EXTENDS TwampServerProofs

(* Ports and sockets.  PortsAccounted is not inductive.  What it rests on: *)
(* a session in the making belongs to one handler and to nothing else      *)
(* (RequestOK, UnusedOK); nothing happens to a session before its socket   *)
(* is bound (FreshOK); and as long as no session is started twice, each    *)
(* session is in exactly one of the stages starting, active, stopping,     *)
(* released (ActiveOK, BoundOK, FramesOK) and its socket is open only in   *)
(* the first three (SocketOK).                                             *)

Requesting(c) == pc[c] \in {"check", "store"}

(* No connection or timer knows s.                                         *)
Unowned(s) ==
    s \notin timers /\ \A d \in Conns : s \notin ccSessions[d] /\ s \notin todo[d]

RequestOK ==
    \A c \in Conns : Requesting(c) =>
        /\ port[cur[c]] # None /\ starts[cur[c]] = 0 /\ Unowned(cur[c])
        /\ \A d \in Conns : Requesting(d) /\ cur[d] = cur[c] => d = c

UnusedOK == \A s \in Sessions : port[s] = None => starts[s] = 0 /\ Unowned(s)

FreshOK ==
    /\ \A s \in Sessions : starts[s] = 0 => ~active[s] /\ s \notin released
    /\ \A r \in open : starts[r[1]] # 0
    /\ \A f \in Callers : frame[f].phase # "idle" => starts[frame[f].sess] # 0
    /\ \A c \in Conns : pc[c] = "bound" => starts[cur[c]] # 0

ActiveOK == \A s \in Sessions : active[s] => s \notin released

FramesOK ==
    \A f \in Callers : frame[f].phase # "idle" =>
        /\ ~active[frame[f].sess] /\ frame[f].sess \notin released
        /\ frame[f].phase # "cas" => <<frame[f].sess, 1>> \notin open
        /\ \A g \in Callers :
             frame[g].phase # "idle" /\ frame[g].sess = frame[f].sess => g = f

BoundOK ==
    \A c \in Conns : pc[c] = "bound" =>
        /\ ~active[cur[c]] /\ cur[c] \notin released
        /\ \A f \in Callers : frame[f].phase # "idle" => frame[f].sess # cur[c]
        /\ \A d \in Conns : pc[d] = "bound" /\ cur[d] = cur[c] => d = c

SocketOK == \A r \in open : r[2] = 1 /\ conn[r[1]] = 1 /\ r[1] \notin released

PortsOK ==
    /\ usedPorts = {port[s] : s \in {t \in Sessions : Holding(t)}}
    /\ \A s, t \in Sessions : Holding(s) /\ Holding(t) /\ port[s] = port[t] => s = t

Stages == ActiveOK /\ FramesOK /\ BoundOK /\ SocketOK /\ PortsOK

IInv == Shape /\ RequestOK /\ UnusedOK /\ FreshOK /\ (NoRestart => Stages)

(* What the theorems need beside the typing invariant.                     *)
Rest == RequestOK /\ UnusedOK /\ FreshOK /\ (NoRestart => Stages)

-----------------------------------------------------------------------------
(* Steps that create, start and stop no session: at most they move a       *)
(* handler or hand a session that a connection owns to a timer.            *)
LEMMA QuietStep ==
    ASSUME IInv,
           UNCHANGED <<usedPorts, port, active, starts, conn, open, frame, released>>,
           \A d \in Conns : pc'[d] \in {"check", "store", "bound"} =>
                                pc'[d] = pc[d] /\ cur'[d] = cur[d],
           \A s \in Sessions : Unowned(s) => Unowned(s)'
    PROVE  Rest'
<1> USE DEF IInv, Shape, CurShape, Requesting
<1>1. RequestOK'
  BY DEF RequestOK
<1>2. UnusedOK'
  BY DEF UnusedOK
<1>3. FreshOK'
  BY DEF FreshOK
<1>4. NoRestart' => Stages'
  BY DEF NoRestart, Stages, ActiveOK, FramesOK, BoundOK, SocketOK, PortsOK, Holding
<1> QED BY <1>1, <1>2, <1>3, <1>4 DEF Rest

(* The compare-and-swap of stopSession moves a session from active to      *)
(* stopping.                                                               *)
LEMMA StopBegins ==
    ASSUME IInv, NEW f \in Callers, NEW s \in Sessions, BeginStop(f, s),
           UNCHANGED <<usedPorts, port, starts, conn, open, released, pc, cur>>,
           \A t \in Sessions : Unowned(t) => Unowned(t)'
    PROVE  Rest'
<1> USE DEF IInv, Shape, CurShape, Requesting
<1>1. CASE ~active[s]
  <2>1. UNCHANGED <<active, frame>>
    BY <1>1 DEF BeginStop
  <2> QED BY <2>1, QuietStep
<1>2. CASE active[s]
  <2> DEFINE new == [sess |-> s, phase |-> "cas"]
  <2>1. active' = [active EXCEPT ![s] = FALSE] /\ frame' = [frame EXCEPT ![f] = new]
    BY <1>2 DEF BeginStop
  <2>2. \A g \in Callers : frame'[g] = IF g = f THEN new ELSE frame[g]
    BY <2>1 DEF TypeOK
  <2>3. new.phase = "cas" /\ new.sess = s
    OBVIOUS
  <2>4. \A t \in Sessions : active'[t] <=> active[t] /\ t # s
    BY <2>1 DEF TypeOK
  <2>5. starts[s] # 0
    BY <1>2 DEF FreshOK
  <2> HIDE DEF new
  <2>6. RequestOK' /\ UnusedOK'
    BY DEF RequestOK, UnusedOK
  <2>7. FreshOK'
    BY <2>2, <2>3, <2>4, <2>5 DEF FreshOK
  <2>8. ASSUME NoRestart' PROVE Stages'
    <3>1. Stages
      BY <2>8 DEF NoRestart
    <3>2. ActiveOK' /\ SocketOK' /\ PortsOK'
      BY <3>1, <2>4 DEF Stages, ActiveOK, SocketOK, PortsOK, Holding
    <3>3. BoundOK'
      BY <3>1, <2>2, <2>3, <2>4, <1>2 DEF Stages, BoundOK
    <3>4. \A g \in Callers : frame[g].phase # "idle" => frame[g].sess # s
      BY <3>1, <1>2 DEF Stages, FramesOK
    <3>5. s \notin released
      BY <3>1, <1>2 DEF Stages, ActiveOK
    <3>6. FramesOK'
      BY <3>1, <3>4, <3>5, <2>2, <2>3, <2>4 DEF Stages, FramesOK, FrameShape
    <3> QED BY <3>2, <3>3, <3>6 DEF Stages
  <2> QED BY <2>6, <2>7, <2>8 DEF Rest
<1> QED BY <1>1, <1>2

(* A request that comes to nothing gives back the port of a session that   *)
(* only its handler knows.                                                 *)
LEMMA RequestDropped ==
    ASSUME IInv, NEW c \in Conns, Requesting(c), DropRequest(c),
           NEW w \in {"read", "cleanup"}, Goto(c, w)
    PROVE  Rest'
<1> USE DEF IInv, Shape, CurShape, Requesting, DropRequest, FreePort, Goto
<1> DEFINE s == cur[c]
<1>1. s \in Sessions /\ port[s] # None /\ starts[s] = 0 /\ Unowned(s)
  BY DEF RequestOK
<1>2. \A d \in Conns : pc'[d] \in {"check", "store", "bound"} =>
          d # c /\ pc'[d] = pc[d] /\ cur'[d] = cur[d]
  BY DEF TypeOK
<1>3. \A t \in Sessions : port'[t] = IF t = s THEN None ELSE port[t]
  BY DEF TypeOK
<1>4. \A t \in Sessions : Unowned(t)' <=> Unowned(t)
  BY DEF Unowned
<1>5. UNCHANGED <<active, starts, conn, open, frame, released>>
  BY DEF history
<1>6. s \notin released
  BY <1>1 DEF FreshOK
<1> HIDE DEF s
<1>7. RequestOK'
  BY <1>1, <1>2, <1>3, <1>4, <1>5 DEF RequestOK, s
<1>8. UnusedOK'
  BY <1>1, <1>3, <1>4, <1>5 DEF UnusedOK
<1>9. FreshOK'
  BY <1>2, <1>5 DEF FreshOK
<1>10. ASSUME NoRestart' PROVE Stages'
  <2>1. Stages
    BY <1>10, <1>5 DEF NoRestart
  <2>2. ActiveOK' /\ FramesOK' /\ BoundOK' /\ SocketOK'
    BY <2>1, <1>2, <1>5 DEF Stages, ActiveOK, FramesOK, BoundOK, SocketOK
  <2>3. \A t \in Sessions : Holding(t)' <=> Holding(t) /\ t # s
    BY <1>3, <1>5 DEF Holding
  <2>4. Holding(s) /\ usedPorts' = usedPorts \ {port[s]}
    BY <1>1, <1>6 DEF Holding, s
  <2>5. PortsOK'
    BY <2>1, <2>3, <2>4, <1>1, <1>3 DEF Stages, PortsOK
  <2> QED BY <2>2, <2>5 DEF Stages
<1> QED BY <1>7, <1>8, <1>9, <1>10 DEF Rest

(* allocatePort marks a port that no session holds and no socket uses.     *)
LEMMA PortRequested ==
    ASSUME IInv, NEW c \in Conns, NEW s \in Sessions, NEW x \in SIDs, NEW p \in Ports,
           NEW individual \in BOOLEAN, RequestPort(c, s, x, p, individual)
    PROVE  Rest'
<1> USE ServerAssumption DEF IInv, Shape, CurShape, Requesting
<1>1. /\ port[s] = None /\ p \notin usedPorts /\ p # None /\ pc[c] = "dispatch"
      /\ usedPorts' = usedPorts \cup {p}
  BY DEF RequestPort
<1>2. \A t \in Sessions : port'[t] = IF t = s THEN p ELSE port[t]
  BY DEF RequestPort, TypeOK
<1>3. \A d \in Conns : pc'[d] \in {"check", "store", "bound"} =>
          IF d = c THEN pc'[d] # "bound" /\ cur'[d] = s ELSE pc'[d] = pc[d] /\ cur'[d] = cur[d]
  BY DEF RequestPort, Goto, TypeOK
<1>4. UNCHANGED <<active, starts, conn, open, frame, released, timers, ccSessions, todo>>
  BY DEF RequestPort, history
<1>5. starts[s] = 0 /\ Unowned(s) /\ s \notin released
  BY <1>1 DEF UnusedOK, FreshOK
<1>6. \A t \in Sessions : Unowned(t)' <=> Unowned(t)
  BY <1>4 DEF Unowned
<1>7. RequestOK'
  BY <1>1, <1>2, <1>3, <1>4, <1>5, <1>6 DEF RequestOK
<1>8. UnusedOK'
  BY <1>1, <1>2, <1>4, <1>6 DEF UnusedOK
<1>9. FreshOK'
  BY <1>3, <1>4 DEF FreshOK
<1>10. ASSUME NoRestart' PROVE Stages'
  <2>1. Stages
    BY <1>10, <1>4 DEF NoRestart
  <2>2. ActiveOK' /\ FramesOK' /\ BoundOK' /\ SocketOK'
    BY <2>1, <1>3, <1>4 DEF Stages, ActiveOK, FramesOK, BoundOK, SocketOK
  <2>3. \A t \in Sessions : Holding(t)' <=> Holding(t) \/ t = s
    BY <1>1, <1>2, <1>4, <1>5 DEF Holding
  <2>4. ~Holding(s)
    BY <1>1 DEF Holding
  <2>5. PortsOK'
    BY <2>1, <2>3, <2>4, <1>1, <1>2 DEF Stages, PortsOK
  <2> QED BY <2>2, <2>5 DEF Stages
<1> QED BY <1>7, <1>8, <1>9, <1>10 DEF Rest

(* The new session becomes the connection's.                               *)
LEMMA SessionStored ==
    ASSUME IInv, NEW c \in Conns, StoreSession(c)
    PROVE  Rest'
<1> USE DEF IInv, Shape, CurShape, Requesting
<1> DEFINE s == cur[c]
<1>1. pc[c] = "store" /\ s \in Sessions /\ port[s] # None
  BY DEF StoreSession, RegisterSession, RequestOK
<1>2. \A d \in Conns : pc'[d] \in {"check", "store", "bound"} =>
          d # c /\ pc'[d] = pc[d] /\ cur'[d] = cur[d]
  BY DEF StoreSession, RegisterSession, Answered, Goto, LoopHead, TypeOK
<1>3. UNCHANGED <<usedPorts, port, active, starts, conn, open, frame, released>>
  BY DEF StoreSession, RegisterSession, ownVars
<1>4. \A t \in Sessions : t # s /\ Unowned(t) => Unowned(t)'
  BY DEF StoreSession, RegisterSession, Unowned, TypeOK
<1>5. \A d \in Conns : Requesting(d)' => cur'[d] # s
  BY <1>1, <1>2 DEF RequestOK
<1> HIDE DEF s
<1>6. RequestOK'
  BY <1>2, <1>3, <1>4, <1>5 DEF RequestOK
<1>7. UnusedOK'
  BY <1>1, <1>3, <1>4 DEF UnusedOK
<1>8. FreshOK'
  BY <1>2, <1>3 DEF FreshOK
<1>9. NoRestart' => Stages'
  BY <1>2, <1>3 DEF NoRestart, Stages, ActiveOK, FramesOK, BoundOK, SocketOK, PortsOK, Holding
<1> QED BY <1>6, <1>7, <1>8, <1>9 DEF Rest

(* startSession binds the port of a session its connection owns.  Unless   *)
(* this is a restart nothing has happened to the session before.           *)
LEMMA SocketBound ==
    ASSUME IInv, NEW c \in Conns, NEW s \in Sessions, StartBind(c, s)
    PROVE  Rest'
<1> USE DEF IInv, Shape, CurShape, Requesting
<1>1. pc[c] = "starting" /\ s \in todo[c] /\ ~active[s] /\ ~Unowned(s)
  BY DEF StartBind, Unowned
<1>2. \A d \in Conns : pc'[d] \in {"check", "store", "bound"} =>
          IF d = c THEN pc'[d] = "bound" /\ cur'[d] = s ELSE pc'[d] = pc[d] /\ cur'[d] = cur[d]
  BY DEF StartBind, Goto, TypeOK
<1>3. UNCHANGED <<usedPorts, port, active, frame, released, timers, ccSessions>>
  BY DEF StartBind, ownVars, history
<1>4. \A t \in Sessions : Unowned(t) => Unowned(t)'
  BY DEF StartBind, Unowned, TypeOK
<1>5. /\ \A t \in Sessions : starts'[t] = IF t = s THEN starts[s] + 1 ELSE starts[t]
      /\ \A t \in Sessions : conn'[t] = IF t = s THEN starts[s] + 1 ELSE conn[t]
      /\ open' = open \cup {<<s, starts[s] + 1>>}
      /\ starts[s] \in Nat
  BY ServerAssumption DEF StartBind, TypeOK
<1>6. port[s] # None
  BY <1>1 DEF UnusedOK
<1>7. RequestOK'
  BY <1>1, <1>2, <1>3, <1>4, <1>5 DEF RequestOK
<1>8. UnusedOK'
  BY <1>3, <1>4, <1>5, <1>6 DEF UnusedOK
<1>9. FreshOK'
  <2>1. \A t \in Sessions : starts'[t] # 0 <=> starts[t] # 0 \/ t = s
    BY <1>5
  <2>2. \A r \in open' : starts'[r[1]] # 0
    <3>1. \A r \in open : r[1] \in Sessions
      BY DEF TypeOK
    <3> QED BY <3>1, <2>1, <1>5 DEF FreshOK
  <2>3. \A f \in Callers : frame'[f].phase # "idle" => starts'[frame'[f].sess] # 0
    BY <2>1, <1>3 DEF FreshOK, FrameShape
  <2>4. \A d \in Conns : pc'[d] = "bound" => starts'[cur'[d]] # 0
    BY <2>1, <1>2 DEF FreshOK
  <2> QED BY <2>1, <2>2, <2>3, <2>4, <1>1, <1>3 DEF FreshOK
<1>10. ASSUME NoRestart' PROVE Stages'
  <2>1. NoRestart /\ starts[s] = 0
    <3>1. starts'[s] <= 1 /\ \A t \in Sessions : t # s => starts[t] <= 1
      BY <1>10, <1>5 DEF NoRestart
    <3>2. starts[s] = 0
      BY <3>1, <1>5
    <3> QED BY <3>1, <3>2 DEF NoRestart
  <2>2. Stages
    BY <2>1
  <2>3. /\ s \notin released /\ \A r \in open : r[1] # s
        /\ \A f \in Callers : frame[f].phase # "idle" => frame[f].sess # s
        /\ \A d \in Conns : pc[d] = "bound" => cur[d] # s
    BY <2>1 DEF FreshOK
  <2>4. ActiveOK' /\ PortsOK'
    BY <2>2, <1>3 DEF Stages, ActiveOK, PortsOK, Holding
  <2>5. FramesOK'
    BY <2>1, <2>2, <2>3, <1>3, <1>5 DEF Stages, FramesOK
  <2>6. BoundOK'
    BY <2>2, <2>3, <1>1, <1>2, <1>3 DEF Stages, BoundOK
  <2>7. SocketOK'
    <3>1. \A r \in open : r[1] \in Sessions
      BY DEF TypeOK
    <3> QED BY <3>1, <2>1, <2>2, <2>3, <1>3, <1>5 DEF Stages, SocketOK
  <2> QED BY <2>4, <2>5, <2>6, <2>7 DEF Stages
<1> QED BY <1>7, <1>8, <1>9, <1>10 DEF Rest

(* A bound session becomes active.                                         *)
LEMMA SessionActivated ==
    ASSUME IInv, NEW c \in Conns, StartActivate(c)
    PROVE  Rest'
<1> USE DEF IInv, Shape, CurShape, Requesting
<1> DEFINE s == cur[c]
<1>1. pc[c] = "bound" /\ s \in Sessions /\ starts[s] # 0
  BY DEF StartActivate, FreshOK
<1>2. \A d \in Conns : pc'[d] \in {"check", "store", "bound"} =>
          d # c /\ pc'[d] = pc[d] /\ cur'[d] = cur[d]
  BY DEF StartActivate, Goto, TypeOK
<1>3. UNCHANGED <<usedPorts, port, starts, conn, open, frame, released, timers, ccSessions,
                  todo>>
  BY DEF StartActivate, ownVars, history
<1>4. \A t \in Sessions : active'[t] <=> active[t] \/ t = s
  BY DEF StartActivate, TypeOK
<1>5. \A t \in Sessions : Unowned(t)' <=> Unowned(t)
  BY <1>3 DEF Unowned
<1> HIDE DEF s
<1>6. RequestOK' /\ UnusedOK'
  BY <1>2, <1>3, <1>5 DEF RequestOK, UnusedOK
<1>7. FreshOK'
  BY <1>1, <1>2, <1>3, <1>4 DEF FreshOK
<1>8. ASSUME NoRestart' PROVE Stages'
  <2>1. Stages
    BY <1>8, <1>3 DEF NoRestart
  <2>2. /\ s \notin released
        /\ \A f \in Callers : frame[f].phase # "idle" => frame[f].sess # s
        /\ \A d \in Conns : pc'[d] = "bound" => cur'[d] # s
    BY <2>1, <1>1, <1>2 DEF Stages, BoundOK, s
  <2>3. ActiveOK' /\ SocketOK' /\ PortsOK'
    BY <2>1, <2>2, <1>3, <1>4 DEF Stages, ActiveOK, SocketOK, PortsOK, Holding
  <2>4. FramesOK'
    BY <2>1, <2>2, <1>3, <1>4 DEF Stages, FramesOK, FrameShape
  <2>5. BoundOK'
    BY <2>1, <2>2, <1>2, <1>3, <1>4 DEF Stages, BoundOK
  <2> QED BY <2>3, <2>4, <2>5 DEF Stages
<1> QED BY <1>6, <1>7, <1>8 DEF Rest

(* stopSession closes the socket ...                                       *)
LEMMA SocketClosed ==
    ASSUME IInv, NEW f \in Callers, CloseSession(f)
    PROVE  Rest'
<1> USE DEF IInv, Shape, CurShape, Requesting
<1> DEFINE s == frame[f].sess
<1>1. /\ frame[f].phase = "cas" /\ s \in Sessions
      /\ open' = open \ {<<s, conn[s]>>}
      /\ frame' = [frame EXCEPT ![f].phase = "closed"]
  BY DEF CloseSession, TakeStopChan, CloseSocket, FrameShape
<1>2. UNCHANGED <<usedPorts, port, active, starts, conn, released, timers, ccSessions, todo,
                  pc, cur>>
  BY DEF CloseSession, TakeStopChan, CloseSocket, connVars, ownVars, history
<1>3. \A g \in Callers : /\ frame'[g].sess = frame[g].sess
                         /\ frame'[g].phase = IF g = f THEN "closed" ELSE frame[g].phase
  BY <1>1 DEF TypeOK, Frames
<1>4. \A t \in Sessions : Unowned(t)' <=> Unowned(t)
  BY <1>2 DEF Unowned
<1> HIDE DEF s
<1>5. RequestOK' /\ UnusedOK'
  BY <1>2, <1>4 DEF RequestOK, UnusedOK
<1>6. FreshOK'
  BY <1>1, <1>2, <1>3 DEF FreshOK
<1>7. ASSUME NoRestart' PROVE Stages'
  <2>1. Stages
    BY <1>7, <1>2 DEF NoRestart
  <2>2. ActiveOK' /\ SocketOK' /\ PortsOK'
    BY <2>1, <1>1, <1>2 DEF Stages, ActiveOK, SocketOK, PortsOK, Holding
  <2>3. <<s, 1>> \notin open'
    BY <2>1, <1>1 DEF Stages, SocketOK
  <2>4. \A g \in Callers : frame'[g].phase # "idle" <=> frame[g].phase # "idle"
    BY <1>1, <1>3
  <2>5. FramesOK'
    BY <2>1, <2>3, <2>4, <1>1, <1>2, <1>3 DEF Stages, FramesOK, s
  <2>6. BoundOK'
    BY <2>1, <2>4, <1>2, <1>3 DEF Stages, BoundOK
  <2> QED BY <2>2, <2>5, <2>6 DEF Stages
<1> QED BY <1>5, <1>6, <1>7 DEF Rest

(* ... removes the session from Server.sessions ...                        *)
LEMMA SessionUnregistered ==
    ASSUME IInv, NEW f \in Callers, Unregister(f)
    PROVE  Rest'
<1> USE DEF IInv, Shape, CurShape, Requesting
<1>1. frame[f].phase = "closed" /\ frame' = [frame EXCEPT ![f].phase = "unregistered"]
  BY DEF Unregister
<1>2. UNCHANGED <<usedPorts, port, active, starts, conn, open, released, timers, ccSessions,
                  todo, pc, cur>>
  BY DEF Unregister, connVars, ownVars, history
<1>3. \A g \in Callers : /\ frame'[g].sess = frame[g].sess
                         /\ frame'[g].phase # "idle" <=> frame[g].phase # "idle"
                         /\ frame'[g].phase = "cas" <=> frame[g].phase = "cas"
  BY <1>1 DEF TypeOK, Frames
<1>4. \A t \in Sessions : Unowned(t)' <=> Unowned(t)
  BY <1>2 DEF Unowned
<1>5. RequestOK' /\ UnusedOK'
  BY <1>2, <1>4 DEF RequestOK, UnusedOK
<1>6. FreshOK'
  BY <1>2, <1>3 DEF FreshOK
<1>7. NoRestart' => Stages'
  BY <1>2, <1>3 DEF NoRestart, Stages, ActiveOK, FramesOK, BoundOK, SocketOK, PortsOK, Holding
<1> QED BY <1>5, <1>6, <1>7 DEF Rest

(* ... and only then gives the port back.                                  *)
LEMMA PortReleased ==
    ASSUME IInv, NEW f \in Callers, ReleasePort(f)
    PROVE  Rest'
<1> USE DEF IInv, Shape, CurShape, Requesting
<1> DEFINE s == frame[f].sess
<1>1. /\ frame[f].phase = "unregistered" /\ s \in Sessions /\ starts[s] # 0
      /\ frame' = [frame EXCEPT ![f] = NoFrame]
      /\ usedPorts' = usedPorts \ {port[s]}
      /\ released' = released \cup {s}
  BY DEF ReleasePort, FreePort, FrameShape, FreshOK
<1>2. UNCHANGED <<port, active, starts, conn, open, timers, ccSessions, todo, pc, cur>>
  BY DEF ReleasePort, FreePort, connVars, ownVars
<1>3. \A g \in Callers : frame'[g].phase # "idle" => g # f /\ frame'[g] = frame[g]
  <2>1. NoFrame.phase = "idle"
    BY DEF NoFrame
  <2> QED BY <2>1, <1>1 DEF TypeOK
<1>4. \A t \in Sessions : Unowned(t)' <=> Unowned(t)
  BY <1>2 DEF Unowned
<1>5. port[s] # None
  BY <1>1 DEF UnusedOK
<1> HIDE DEF s
<1>6. RequestOK' /\ UnusedOK'
  BY <1>2, <1>4 DEF RequestOK, UnusedOK
<1>7. FreshOK'
  BY <1>1, <1>2, <1>3 DEF FreshOK
<1>8. ASSUME NoRestart' PROVE Stages'
  <2>1. Stages
    BY <1>8, <1>2 DEF NoRestart
  <2>2. /\ ~active[s] /\ s \notin released /\ <<s, 1>> \notin open
        /\ \A g \in Callers : frame'[g].phase # "idle" => frame'[g].sess # s
        /\ \A d \in Conns : pc[d] = "bound" => cur[d] # s
    BY <2>1, <1>1, <1>3 DEF Stages, FramesOK, BoundOK, s
  <2>3. ActiveOK'
    BY <2>1, <2>2, <1>1, <1>2 DEF Stages, ActiveOK
  <2>4. FramesOK'
    BY <2>1, <2>2, <1>1, <1>2, <1>3 DEF Stages, FramesOK
  <2>5. BoundOK'
    BY <2>1, <2>2, <1>1, <1>2, <1>3 DEF Stages, BoundOK
  <2>6. SocketOK'
    <3>1. ASSUME NEW r \in open PROVE r[1] # s
      <4>1. r = <<r[1], r[2]>> /\ r[2] = 1
        BY <2>1 DEF Stages, SocketOK, TypeOK
      <4> QED BY <4>1, <2>2
    <3> QED BY <3>1, <2>1, <1>1, <1>2 DEF Stages, SocketOK
  <2>7. PortsOK'
    <3>1. \A t \in Sessions : Holding(t)' <=> Holding(t) /\ t # s
      BY <1>1, <1>2 DEF Holding
    <3>2. Holding(s)
      BY <2>2, <1>5 DEF Holding
    <3> QED BY <3>1, <3>2, <2>1, <1>1, <1>2 DEF Stages, PortsOK
  <2> QED BY <2>3, <2>4, <2>5, <2>6, <2>7 DEF Stages
<1> QED BY <1>6, <1>7, <1>8 DEF Rest

(* A reflector that returns closes the socket too.                         *)
LEMMA ReflectorGone ==
    ASSUME IInv, NEW s \in Sessions, NEW k \in Runs, ReflectorExits(s, k)
    PROVE  Rest'
<1> USE DEF IInv, Shape, CurShape, Requesting
<1>1. /\ open' = open \ {<<s, conn[s]>>}
      /\ \A t \in Sessions : conn'[t] = IF t = s THEN 0 ELSE conn[t]
  BY DEF ReflectorExits, CloseSocket, TypeOK
<1>2. UNCHANGED <<usedPorts, port, active, starts, released, frame, timers, ccSessions,
                  todo, pc, cur>>
  BY DEF ReflectorExits, CloseSocket, connVars, ownVars, history
<1>3. \A t \in Sessions : Unowned(t)' <=> Unowned(t)
  BY <1>2 DEF Unowned
<1>4. RequestOK' /\ UnusedOK'
  BY <1>2, <1>3 DEF RequestOK, UnusedOK
<1>5. FreshOK'
  BY <1>1, <1>2 DEF FreshOK
<1>6. ASSUME NoRestart' PROVE Stages'
  <2>1. Stages
    BY <1>6, <1>2 DEF NoRestart
  <2>2. ActiveOK' /\ FramesOK' /\ BoundOK' /\ PortsOK'
    BY <2>1, <1>1, <1>2 DEF Stages, ActiveOK, FramesOK, BoundOK, PortsOK, Holding
  <2>3. ASSUME NEW r \in open' PROVE r[1] # s
    <3>1. r \in open /\ r = <<r[1], r[2]>> /\ r # <<s, conn[s]>>
      BY <2>3, <1>1 DEF TypeOK
    <3>2. r[2] = 1 /\ conn[r[1]] = 1
      BY <3>1, <2>1 DEF Stages, SocketOK
    <3> QED BY <3>1, <3>2
  <2>4. SocketOK'
    BY <2>1, <2>3, <1>1, <1>2 DEF Stages, SocketOK, TypeOK
  <2> QED BY <2>2, <2>4 DEF Stages
<1> QED BY <1>4, <1>5, <1>6 DEF Rest

-----------------------------------------------------------------------------
(* Init establishes the invariant.                                         *)
LEMMA InitIInv == Init => IInv
<1> SUFFICES ASSUME Init PROVE IInv
  OBVIOUS
<1> USE DEF Init
<1>1. Shape
  BY InitShape
<1>2. \A f \in Callers : frame[f].phase = "idle"
  BY DEF NoFrame
<1>3. RequestOK /\ UnusedOK
  BY DEF RequestOK, UnusedOK, Requesting, Unowned
<1>4. FreshOK
  BY <1>2 DEF FreshOK
<1>5. Stages
  BY <1>2 DEF Stages, ActiveOK, FramesOK, BoundOK, SocketOK, PortsOK, Holding
<1> QED BY <1>1, <1>3, <1>4, <1>5 DEF IInv

(* Steps of a handler that only move it.                                   *)
LEMMA HandlerMoved ==
    ASSUME IInv, NEW c \in Conns,
           \/ Register(c) \/ PeerSetup(c) \/ SetupCut(c) \/ ReadFails(c) \/ ReadCommand(c)
           \/ RejectCommand(c) \/ StartSessions(c) \/ StartAck(c) \/ Disconnect(c)
           \/ \E s \in Sessions : StartSkip(c, s) \/ StartFails(c, s)
    PROVE  Rest'
<1> USE DEF IInv, Shape, Register, PeerSetup, SetupCut, ReadFails, ReadCommand, RejectCommand,
        StartSessions, StartAck, Disconnect, StartSkip, StartFails
<1>1. HandlerMoves /\ UNCHANGED <<ccSessions, cur>>
  OBVIOUS
<1>2. /\ UNCHANGED <<usedPorts, port, active, starts, conn, open, frame, released>>
      /\ UNCHANGED timers
  BY <1>1 DEF HandlerMoves, ownVars, history
<1>3. \A d \in Conns : pc'[d] \in {"check", "store", "bound"} => pc'[d] = pc[d]
  BY DEF Answered, Goto, LoopHead, TypeOK
<1>4. \A d \in Conns : todo'[d] \subseteq todo[d] \cup ccSessions[d]
  BY DEF TypeOK
<1>5. \A t \in Sessions : Unowned(t) => Unowned(t)'
  BY <1>1, <1>2, <1>4 DEF Unowned
<1> QED BY <1>1, <1>2, <1>3, <1>5, QuietStep

(* Stop-Sessions and Stop-N-Sessions: from the connection to the timers.   *)
LEMMA StopScheduled ==
    ASSUME IInv, NEW c \in Conns, NEW S \in SUBSET ccSessions[c], ScheduleStop(c, S)
    PROVE  Rest'
<1> USE DEF IInv, Shape, ScheduleStop, ForgetSessions, StartTimers
<1>1. UNCHANGED <<usedPorts, port, active, starts, conn, open, frame, released, cur, todo>>
  BY DEF ownVars, history
<1>2. \A d \in Conns : pc'[d] \in {"check", "store", "bound"} => pc'[d] = pc[d]
  BY DEF Goto, LoopHead, TypeOK
<1>3. \A d \in Conns : ccSessions'[d] \subseteq ccSessions[d]
  BY DEF TypeOK
<1>4. \A t \in Sessions : Unowned(t) => Unowned(t)'
  BY <1>1, <1>3 DEF Unowned
<1> QED BY <1>1, <1>2, <1>4, QuietStep

(* Steps of the other goroutines that touch no session.                    *)
LEMMA OthersMoved ==
    ASSUME IInv,
           \/ AcceptFails \/ CancelContext \/ StopCalled \/ StopCopies \/ StopReturns
           \/ StopClosesConnections \/ Terminated
           \/ \E s \in Sessions, k \in Runs : ReflectorRefresh(s, k) \/ ReflectorLeaves(s, k)
           \/ \E c \in Conns : Accept(c)
    PROVE  Rest'
<1> USE DEF IInv, Shape
<1>1. UNCHANGED <<usedPorts, port, active, starts, conn, open, frame, released, timers,
                  ccSessions, todo, cur>>
  BY DEF AcceptFails, CancelContext, StopCalled, StopCopies, SessionList, StopReturns,
     StopClosesConnections, Terminated, ReflectorRefresh, ReflectorLeaves, Accept,
     ShutdownStep, connVars, ownVars, history, vars
<1>2. \A d \in Conns : pc'[d] \in {"check", "store", "bound"} => pc'[d] = pc[d]
  BY DEF AcceptFails, CancelContext, StopCalled, StopCopies, SessionList, StopReturns,
     StopClosesConnections, Terminated, ReflectorRefresh, ReflectorLeaves, Accept,
     connVars, vars, TypeOK
<1>3. \A t \in Sessions : Unowned(t) => Unowned(t)'
  BY <1>1 DEF Unowned
<1> QED BY <1>1, <1>2, <1>3, QuietStep

(* Every step keeps the invariant.                                         *)
LEMMA NextIInv == IInv /\ Next => IInv'
<1> SUFFICES ASSUME IInv, Next PROVE Rest'
  BY NextShape DEF IInv, Rest
<1>1. ASSUME NEW c \in Conns, CheckSID(c) PROVE Rest'
  <2>1. CASE Goto(c, "store") /\ UNCHANGED <<connections, ccSessions, todo, cur>> /\ HandlerMoves
    <3> USE DEF IInv, Shape, CurShape
    <3>1. UNCHANGED <<usedPorts, port, active, starts, conn, open, frame, released, timers>>
      BY <2>1 DEF HandlerMoves, ownVars, history
    <3>2. \A d \in Conns : /\ pc'[d] \in {"check", "store"} <=> pc[d] \in {"check", "store"}
                           /\ pc'[d] = "bound" => pc[d] = "bound"
      <4>1. pc[c] = "check"
        BY <1>1 DEF CheckSID
      <4> QED BY <4>1, <2>1 DEF Goto, TypeOK
    <3>3. \A t \in Sessions : Unowned(t)' <=> Unowned(t)
      BY <2>1, <3>1 DEF Unowned
    <3>4. RequestOK' /\ UnusedOK'
      BY <2>1, <3>1, <3>2, <3>3 DEF RequestOK, UnusedOK, Requesting
    <3>5. FreshOK'
      BY <2>1, <3>1, <3>2 DEF FreshOK
    <3>6. NoRestart' => Stages'
      BY <2>1, <3>1, <3>2 DEF NoRestart, Stages, ActiveOK, FramesOK, BoundOK, SocketOK,
         PortsOK, Holding
    <3> QED BY <3>4, <3>5, <3>6 DEF Rest
  <2>2. CASE DropRequest(c) /\ Answered(c)
    <3>1. PICK w \in {"read", "cleanup"} : Goto(c, w)
      BY <2>2 DEF Answered, LoopHead
    <3> QED BY <2>2, <3>1, <1>1, RequestDropped DEF CheckSID, Requesting
  <2> QED BY <1>1, <2>1, <2>2 DEF CheckSID
<1>2. ASSUME NEW c \in Conns, RequestError(c) PROVE Rest'
  BY <1>2, RequestDropped DEF RequestError, Requesting
<1>3. ASSUME NEW c \in Conns, StopSessions(c) \/ StopNSessions(c) PROVE Rest'
  BY <1>3, StopScheduled DEF StopSessions, StopNSessions
<1>4. ASSUME NEW c \in Conns, NEW s \in Sessions, CleanupStop(c, s) PROVE Rest'
  <2>1. BeginStop(Handler(c), s)
    BY <1>4 DEF CleanupStop
  <2>2. UNCHANGED <<usedPorts, port, starts, conn, open, released, pc, cur>>
    BY <1>4 DEF CleanupStop, ownVars, history
  <2>3. \A t \in Sessions : Unowned(t) => Unowned(t)'
    BY <1>4 DEF CleanupStop, Unowned, IInv, Shape, TypeOK
  <2> QED BY <2>1, <2>2, <2>3, CallerTypes, StopBegins
<1>5. ASSUME NEW s \in Sessions, TimerFires(s) PROVE Rest'
  <2>1. BeginStop(Timer(s), s)
    BY <1>5 DEF TimerFires
  <2>2. UNCHANGED <<usedPorts, port, starts, conn, open, released, pc, cur>>
    BY <1>5 DEF TimerFires, connVars, ownVars, history
  <2>3. \A t \in Sessions : Unowned(t) => Unowned(t)'
    BY <1>5 DEF TimerFires, Unowned, connVars
  <2> QED BY <2>1, <2>2, <2>3, CallerTypes, StopBegins
<1>6. ASSUME NEW s \in Sessions, NEW k \in Runs, ReflectorStopsSelf(s, k) PROVE Rest'
  <2>1. BeginStop(Reflector(s, k), s)
    BY <1>6 DEF ReflectorStopsSelf
  <2>2. UNCHANGED <<usedPorts, port, starts, conn, open, released, pc, cur>>
    BY <1>6 DEF ReflectorStopsSelf, connVars, ownVars, history
  <2>3. \A t \in Sessions : Unowned(t) => Unowned(t)'
    BY <1>6 DEF ReflectorStopsSelf, Unowned, connVars
  <2> QED BY <2>1, <2>2, <2>3, CallerTypes, StopBegins
<1>7. ASSUME NEW s \in Sessions, StopNext(s) PROVE Rest'
  <2>1. BeginStop(Stopper, s)
    BY <1>7 DEF StopNext
  <2>2. UNCHANGED <<usedPorts, port, starts, conn, open, released, pc, cur>>
    BY <1>7 DEF StopNext, ShutdownStep, connVars, ownVars, history
  <2>3. \A t \in Sessions : Unowned(t) => Unowned(t)'
    BY <1>7 DEF StopNext, ShutdownStep, Unowned, connVars
  <2> QED BY <2>1, <2>2, <2>3, CallerTypes, StopBegins
<1> HIDE DEF IInv, Rest
<1> QED
  BY <1>1, <1>2, <1>3, <1>4, <1>5, <1>6, <1>7, HandlerMoved, OthersMoved, PortRequested,
     SessionStored, SocketBound, SessionActivated, SocketClosed, SessionUnregistered,
     PortReleased, ReflectorGone
     DEF Next, HandlerStep, ServeCommand, PeerStep, ReflectorStep, StopSessionStep, StopStep

(* The port invariant holds in every state of every execution.             *)
LEMMA PortInvariant == Spec => []IInv
<1>1. IInv /\ UNCHANGED vars => IInv'
  <2> SUFFICES ASSUME IInv, UNCHANGED vars PROVE IInv'
    OBVIOUS
  <2>1. Shape'
    BY DEF IInv, Shape, TypeOK, CurShape, FrameShape, vars, stopVars, connVars, ownVars,
           chanVars, reflVars, history
  <2>2. UNCHANGED <<usedPorts, port, active, starts, conn, open, frame, released, pc, cur,
                    timers, ccSessions, todo>>
    BY DEF vars, connVars, ownVars, history
  <2>3. Rest'
    BY <2>2, QuietStep DEF Unowned
  <2> QED BY <2>1, <2>3 DEF IInv, Rest
<1> QED BY <1>1, InitIInv, NextIInv, PTL DEF Spec

(* allocatePort, the refusals and the four ways to stop a session neither  *)
(* lose nor double a port: usedPorts is exactly what the sessions hold, as *)
(* long as no session object is started twice.                             *)
THEOREM PortAccounting == Spec => []PortsAccounted
<1>1. IInv => PortsAccounted
  BY DEF IInv, Stages, PortsOK, PortsAccounted
<1> QED BY <1>1, PortInvariant, PTL

(* stopSession closes the socket before the port can be given away: every  *)
(* open UDP socket is on a port its own session still holds, as long as no *)
(* session object is started twice.                                        *)
THEOREM SocketsOnHeldPorts == Spec => []SocketsReserved
<1>1. IInv => SocketsReserved
  <2> SUFFICES ASSUME IInv, NoRestart, NEW r \in open
               PROVE  port[r[1]] \in usedPorts /\ Holding(r[1])
    BY DEF SocketsReserved
  <2>1. r[1] \in Sessions /\ starts[r[1]] # 0
    BY DEF IInv, Shape, TypeOK, FreshOK
  <2>2. Holding(r[1])
    BY <2>1 DEF IInv, UnusedOK, Stages, SocketOK, Holding
  <2> QED BY <2>1, <2>2 DEF IInv, Stages, PortsOK
<1> QED BY <1>1, PortInvariant, PTL
====
