------------------------ MODULE TwampServerLifeProofs ------------------------
(***************************************************************************)
(* Proofs about the life of a session in TwampServer: who owns it, who     *)
(* serves it, where it is registered, who will stop it, what is left of it *)
(* when Server.Stop has returned, and that the server as a whole           *)
(* implements SessionLife.                                                 *)
(*                                                                         *)
(* The invariant LInv adds to the invariant of the port accounting (IInv)  *)
(* what each of these needs.  Its parts are proved one after the other,    *)
(* each with the parts before it, and one step per action of Next that     *)
(* can disturb it; the lemmas on what a group of steps leaves alone        *)
(* dispose of the others.                                                  *)
(***************************************************************************)
EXTENDS TwampServerPortProofs

(* The handler of c has bound a socket for s and not yet activated it.     *)
BoundTo(c, s) == pc[c] = "bound" /\ cur[c] = s

(* A session is in the hands of one connection, or of its timer.           *)
OwnOK ==
    /\ \A c \in Conns : todo[c] # {} => pc[c] \in {"starting", "bound"}
    /\ \A c \in Conns : todo[c] \subseteq ccSessions[c]
    /\ \A c \in Conns : pc[c] = "bound" => cur[c] \in ccSessions[c]
    /\ \A c, d \in Conns : \A s \in ccSessions[c] : s \in ccSessions[d] => c = d
    /\ \A s \in timers : \A c \in Conns : s \notin ccSessions[c]

(* A channel that has been closed belongs to a run that has begun and is   *)
(* no longer the session's channel.                                        *)
ChanOK ==
    /\ \A s \in Sessions : chan[s] <= starts[s] \/ chan[s] = 1
    /\ \A s \in Sessions, k \in Runs :
         <<s, k>> \in closedChans => k <= starts[s] /\ k # chan[s]

(* There is a reflector for every run that has begun, except that the last *)
(* one may still be in the hands of the handler that bound its socket; two *)
(* reflectors of a session cannot both return, since the second would      *)
(* close reflectorDone again.                                              *)
RunsOK ==
    /\ \A s \in Sessions, k \in Runs : refl[<<s, k>>] # "none" => k <= starts[s]
    /\ \A s \in Sessions, k \in Runs :
         k <= starts[s] /\ refl[<<s, k>>] = "none" =>
            k = starts[s] /\ \E c \in Conns : BoundTo(c, s)
    /\ \A c \in Conns : pc[c] = "bound" => refl[<<cur[c], starts[cur[c]]>>] = "none"
    /\ ~crashed =>
         \A s \in Sessions : \A j, k \in Runs :
            refl[<<s, j>>] = "done" /\ refl[<<s, k>>] = "done" => j = k

(* A connection that Server.Stop can find has a handler.                   *)
ConnOK == \A c \in connections : pc[c] \notin {"none", "accepted", "closed"}

(* The frames of a timer and of a reflector are about their own session.   *)
FrameOwnOK ==
    \A s \in Sessions :
        /\ frame[Timer(s)].sess \in {s, None}
        /\ \A k \in Runs : frame[Reflector(s, k)].sess \in {s, None}

(* A session with a port has a SID.                                        *)
SidOK == \A s \in Sessions : port[s] # None => sid[s] \in SIDs

(* Once Server.Stop has returned nothing can start anything again.         *)
QuietOK ==
    srv = "stopped" =>
        /\ \A c \in Conns : pc[c] \in {"none", "closed"}
        /\ \A s \in Sessions : ~active[s]
        /\ \A r \in Sessions \X Runs : refl[r] \in {"none", "done"}
        /\ open = {}

(* The first run of s has its socket and its stop channel.                 *)
Ready(s) == conn[s] = 1 /\ <<s, 1>> \in open /\ chan[s] # 0

(* An active session has a reflector that runs on its socket, and whoever  *)
(* has an open socket is active, about to be, or about to have it closed.  *)
ServedOK ==
    /\ \A s \in Sessions : active[s] => refl[<<s, 1>>] = "loop" /\ Ready(s)
    /\ \A c \in Conns, s \in Sessions : BoundTo(c, s) => Ready(s)
    /\ \A s \in Sessions : refl[<<s, 1>>] = "done" => conn[s] = 0
    /\ \A r \in open : \/ active[r[1]]
                       \/ \E c \in Conns : BoundTo(c, r[1])
                       \/ \E f \in Callers : frame[f].sess = r[1] /\ frame[f].phase = "cas"

(* s has been stored in Server.sessions and not been removed.              *)
Listed(s) ==
    /\ port[s] # None /\ s \notin released
    /\ \A c \in Conns : Requesting(c) => cur[c] # s
    /\ \A f \in Callers : frame[f].sess = s => frame[f].phase # "unregistered"

(* Server.sessions has what was stored and not removed.                    *)
ListedOK ==
    /\ \A s \in Sessions : Listed(s) => registry[sid[s]] = s
    /\ \A s \in Sessions : active[s] => HasStopper(s)

LInv ==
    /\ IInv /\ OwnOK /\ ChanOK /\ RunsOK /\ ConnOK /\ SidOK /\ FrameOwnOK /\ QuietOK
    /\ NoRestart => ServedOK
    /\ NoRestart /\ ~overwritten => ListedOK

-----------------------------------------------------------------------------
(* The steps of every goroutine but a connection's handler, and what they  *)
(* leave alone.                                                            *)
OutsideStep ==
    \/ \E s \in Sessions, k \in Runs : ReflectorStep(s, k) \/ ReflectorStopsSelf(s, k)
    \/ \E s \in Sessions : TimerFires(s)
    \/ \E f \in Callers : StopSessionStep(f)
    \/ AcceptFails \/ CancelContext \/ StopCalled \/ StopStep \/ Terminated

(* Reflectors, timers, stopSession and Server.Stop change nothing that a   *)
(* connection's handler keeps; only a timer that fires drops a timer, and  *)
(* only stopSession removes from Server.sessions.                          *)
LEMMA OutsideKeeps ==
    ASSUME OutsideStep
    PROVE  /\ UNCHANGED <<connections, pc, ccSessions, todo, cur, sid, port, overwritten>>
           /\ (\A s \in Sessions : ~TimerFires(s)) => UNCHANGED timers
           /\ (\A f \in Callers : ~Unregister(f)) => UNCHANGED registry
<1> USE DEF connVars, ownVars, history
<1>1. ASSUME NEW s \in Sessions, NEW k \in Runs, ReflectorStep(s, k) \/ ReflectorStopsSelf(s, k)
      PROVE  UNCHANGED <<connections, pc, ccSessions, todo, cur, sid, port, overwritten, timers,
                         registry>>
  BY <1>1 DEF ReflectorStep, ReflectorRefresh, ReflectorLeaves, ReflectorExits,
     ReflectorStopsSelf
<1>2. ASSUME NEW f \in Callers, CloseSession(f) \/ ReleasePort(f)
      PROVE  UNCHANGED <<connections, pc, ccSessions, todo, cur, sid, port, overwritten, timers,
                         registry>>
  BY <1>2 DEF CloseSession, ReleasePort
<1>3. ASSUME AcceptFails \/ CancelContext \/ StopCalled \/ StopStep \/ Terminated
      PROVE  UNCHANGED <<connections, pc, ccSessions, todo, cur, sid, port, overwritten, timers,
                         registry>>
  BY <1>3 DEF AcceptFails, CancelContext, StopCalled, StopStep, Terminated, StopCopies, StopNext,
     StopClosesConnections, StopReturns, ShutdownStep, vars
<1>4. ASSUME NEW s \in Sessions, TimerFires(s)
      PROVE  UNCHANGED <<connections, pc, ccSessions, todo, cur, sid, port, overwritten, registry>>
  BY <1>4 DEF TimerFires
<1>5. ASSUME NEW f \in Callers, Unregister(f)
      PROVE  UNCHANGED <<connections, pc, ccSessions, todo, cur, sid, port, overwritten, timers>>
  BY <1>5 DEF Unregister
<1> QED BY <1>1, <1>2, <1>3, <1>4, <1>5 DEF OutsideStep, StopSessionStep

-----------------------------------------------------------------------------
(* Who owns a session.                                                     *)

(* The steps that neither give a connection or a timer a session nor take  *)
(* one away.                                                               *)
LEMMA OwnersKept ==
    ASSUME Shape, OwnOK, UNCHANGED <<ccSessions, todo, timers>>,
           \A d \in Conns : pc[d] \in {"starting", "bound"} /\ todo[d] # {} =>
                                pc'[d] \in {"starting", "bound"},
           \A d \in Conns : pc'[d] = "bound" => pc[d] = "bound" /\ cur'[d] = cur[d]
    PROVE  OwnOK'
BY DEF OwnOK

(* A session belongs to one connection or to its timer: it is created      *)
(* owned by nobody else, and Stop-Sessions hands it from one to the other. *)
LEMMA NextOwn == IInv /\ OwnOK /\ Next => OwnOK'
<1> SUFFICES ASSUME IInv, OwnOK, Next PROVE OwnOK'
  OBVIOUS
<1> USE DEF IInv, Shape
<1>1. ASSUME NEW c \in Conns, StoreSession(c) PROVE OwnOK'
  <2>1. pc[c] = "store" /\ cur[c] \in Sessions /\ Unowned(cur[c])
    BY <1>1 DEF StoreSession, RegisterSession, RequestOK, Requesting, CurShape
  <2>2. /\ \A d \in Conns : ccSessions'[d] \subseteq ccSessions[d] \cup {cur[c]}
        /\ \A d \in Conns : d # c => ccSessions'[d] = ccSessions[d]
        /\ UNCHANGED <<todo, timers>>
    BY <1>1 DEF StoreSession, RegisterSession, TypeOK
  <2>3. /\ \A d \in Conns : d # c => pc'[d] = pc[d] /\ cur'[d] = cur[d]
        /\ pc'[c] # "bound"
    BY <1>1 DEF StoreSession, RegisterSession, Answered, Goto, LoopHead, TypeOK
  <2> QED BY <2>1, <2>2, <2>3 DEF OwnOK, Unowned
<1>2. ASSUME NEW c \in Conns, StartSessions(c) PROVE OwnOK'
  <2>1. /\ UNCHANGED <<ccSessions, timers, cur>>
        /\ \A d \in Conns : todo'[d] = IF d = c THEN ccSessions[c] ELSE todo[d]
        /\ \A d \in Conns : pc'[d] = IF d = c THEN "starting" ELSE pc[d]
    BY <1>2 DEF StartSessions, HandlerMoves, Goto, TypeOK
  <2> QED BY <2>1 DEF OwnOK
<1>3. ASSUME NEW c \in Conns, NEW s \in Sessions, StartSkip(c, s) PROVE OwnOK'
  <2>1. /\ UNCHANGED <<ccSessions, timers, cur, pc>>
        /\ \A d \in Conns : todo'[d] \subseteq todo[d]
    BY <1>3 DEF StartSkip, HandlerMoves, TypeOK
  <2> QED BY <2>1 DEF OwnOK
<1>4. ASSUME NEW c \in Conns, NEW s \in Sessions, StartFails(c, s) PROVE OwnOK'
  <2>1. /\ UNCHANGED <<ccSessions, timers, cur>>
        /\ \A d \in Conns : todo'[d] = IF d = c THEN {} ELSE todo[d]
        /\ \A d \in Conns : IF d = c THEN pc'[d] # "bound" ELSE pc'[d] = pc[d]
    BY <1>4 DEF StartFails, HandlerMoves, Answered, Goto, LoopHead, TypeOK
  <2> QED BY <2>1 DEF OwnOK
<1>5. ASSUME NEW c \in Conns, NEW s \in Sessions, StartBind(c, s) PROVE OwnOK'
  <2>1. /\ UNCHANGED <<ccSessions, timers>> /\ s \in todo[c]
        /\ \A d \in Conns : todo'[d] \subseteq todo[d]
        /\ \A d \in Conns : pc'[d] = IF d = c THEN "bound" ELSE pc[d]
        /\ \A d \in Conns : cur'[d] = IF d = c THEN s ELSE cur[d]
    BY <1>5 DEF StartBind, Goto, TypeOK
  <2> QED BY <2>1 DEF OwnOK
<1>6. ASSUME NEW c \in Conns, StartActivate(c) \/ StartAck(c) PROVE OwnOK'
  BY <1>6, OwnersKept DEF StartActivate, StartAck, HandlerMoves, Answered, Goto, LoopHead, TypeOK
<1>7. ASSUME NEW c \in Conns, NEW S, S \subseteq ccSessions[c], pc[c] = "dispatch",
             ScheduleStop(c, S)
      PROVE  OwnOK'
  <2>1. /\ UNCHANGED <<todo, cur>> /\ timers' = timers \cup S
        /\ \A d \in Conns : ccSessions'[d] \subseteq ccSessions[d]
        /\ \A s \in ccSessions'[c] : s \notin S
        /\ \A d \in Conns : d # c => ccSessions'[d] = ccSessions[d]
        /\ \A d \in Conns : IF d = c THEN pc'[d] # "bound" ELSE pc'[d] = pc[d]
    BY <1>7 DEF ScheduleStop, ForgetSessions, StartTimers, Goto, LoopHead, TypeOK
  <2>2. todo[c] = {}
    BY <1>7 DEF OwnOK
  <2>3. S \subseteq ccSessions[c]
    BY <1>7
  <2>4. \A s \in timers' : \A d \in Conns : s \notin ccSessions'[d]
    BY <2>1, <2>3 DEF OwnOK
  <2>5. \A d \in Conns : todo'[d] # {} => d # c
    BY <2>1, <2>2
  <2> QED BY <2>1, <2>2, <2>4, <2>5 DEF OwnOK
<1>8. ASSUME NEW c \in Conns, NEW s \in Sessions, CleanupStop(c, s) PROVE OwnOK'
  <2>1. /\ UNCHANGED <<todo, cur, pc, timers>> /\ pc[c] = "cleanup"
        /\ \A d \in Conns : IF d = c THEN ccSessions'[d] \subseteq ccSessions[d]
                                     ELSE ccSessions'[d] = ccSessions[d]
    BY <1>8 DEF CleanupStop, TypeOK
  <2> QED BY <2>1 DEF OwnOK
<1>9. ASSUME NEW s \in Sessions, TimerFires(s) PROVE OwnOK'
  BY <1>9 DEF TimerFires, connVars, OwnOK
<1>10. ASSUME NEW c \in Conns,
              \/ Register(c) \/ PeerSetup(c) \/ SetupCut(c) \/ ReadFails(c) \/ ReadCommand(c)
              \/ RejectCommand(c) \/ Disconnect(c) \/ Accept(c) \/ CheckSID(c) \/ RequestError(c)
              \/ \E s \in Sessions, x \in SIDs, p \in Ports, i \in BOOLEAN :
                   RequestPort(c, s, x, p, i)
       PROVE  OwnOK'
  <2>1. UNCHANGED <<ccSessions, todo, timers>>
    BY <1>10 DEF Register, PeerSetup, SetupCut, ReadFails, ReadCommand, RejectCommand, Disconnect,
       Accept, CheckSID, RequestError, RequestPort, DropRequest, HandlerMoves
  <2>2. /\ pc[c] \notin {"starting", "bound"}
        /\ \A d \in Conns : d # c => pc'[d] = pc[d] /\ cur'[d] = cur[d]
        /\ pc'[c] # "bound"
    BY <1>10 DEF Register, PeerSetup, SetupCut, ReadFails, ReadCommand, RejectCommand, Disconnect,
       Accept, CheckSID, RequestError, RequestPort, DropRequest, HandlerMoves, Answered, Goto,
       LoopHead, TypeOK
  <2> QED BY <2>1, <2>2, OwnersKept
<1>11. CASE OutsideStep /\ UNCHANGED timers
  BY <1>11, OutsideKeeps, OwnersKept
<1>12. CASE OutsideStep
  BY <1>9, <1>11, <1>12, OutsideKeeps
<1>13. ASSUME NEW c \in Conns, StopSessions(c) \/ StopNSessions(c) PROVE OwnOK'
  BY <1>7, <1>13 DEF StopSessions, StopNSessions
<1> HIDE DEF IInv, Shape
<1> QED
  BY <1>1, <1>2, <1>3, <1>4, <1>5, <1>6, <1>8, <1>10, <1>12, <1>13
     DEF Next, HandlerStep, ServeCommand, PeerStep, OutsideStep
-----------------------------------------------------------------------------
(* What stopSession does to the frames.                                    *)
LEMMA StopEffect ==
    ASSUME Shape, NEW f \in Callers, NEW s \in Sessions, BeginStop(f, s)
    PROVE  /\ \A t \in Sessions : active'[t] <=> active[t] /\ t # s
           /\ \A g \in Callers : g # f \/ ~active[s] => frame'[g] = frame[g]
           /\ active[s] => frame'[f].sess = s /\ frame'[f].phase = "cas"
<1> USE DEF Shape, TypeOK
<1>1. CASE ~active[s]
  BY <1>1 DEF BeginStop
<1>2. CASE active[s]
  <2> DEFINE new == [sess |-> s, phase |-> "cas"]
  <2>1. active' = [active EXCEPT ![s] = FALSE] /\ frame' = [frame EXCEPT ![f] = new]
    BY <1>2 DEF BeginStop
  <2>2. new.sess = s /\ new.phase = "cas"
    OBVIOUS
  <2> HIDE DEF new
  <2> QED BY <1>2, <2>1, <2>2
<1> QED BY <1>1, <1>2

(* A stopSession that goes on is still about the same session.             *)
LEMMA AdvanceEffect ==
    ASSUME Shape, NEW f \in Callers, NEW w, frame' = [frame EXCEPT ![f].phase = w]
    PROVE  \A g \in Callers : /\ frame'[g].sess = frame[g].sess
                              /\ frame'[g].phase = IF g = f THEN w ELSE frame[g].phase
BY DEF Shape, TypeOK, Frames

(* A stopSession that returns leaves its goroutine without one.            *)
LEMMA ReleaseEffect ==
    ASSUME Shape, NEW f \in Callers, frame' = [frame EXCEPT ![f] = NoFrame]
    PROVE  /\ frame'[f].sess = None /\ frame'[f].phase = "idle"
           /\ \A g \in Callers : g # f => frame'[g] = frame[g]
<1>1. NoFrame.sess = None /\ NoFrame.phase = "idle"
  BY DEF NoFrame
<1> QED BY <1>1 DEF Shape, TypeOK

(* The variables that describe the run of a session.                       *)
runVars == <<active, starts, conn, chan, closedChans, open, refl, frame, released, crashed>>

(* Every step that is not one of these leaves them alone, and the sessions *)
(* that are being started.                                                 *)
RunStep ==
    \/ \E c \in Conns : StoreSession(c) \/ StartActivate(c)
    \/ \E c \in Conns, s \in Sessions : StartBind(c, s) \/ CleanupStop(c, s)
    \/ \E s \in Sessions, k \in Runs :
         ReflectorLeaves(s, k) \/ ReflectorStopsSelf(s, k) \/ ReflectorExits(s, k)
    \/ \E s \in Sessions : TimerFires(s) \/ StopNext(s)
    \/ \E f \in Callers : StopSessionStep(f)

(* What the other steps leave alone.                                       *)
LEMMA OtherSteps ==
    ASSUME Shape, Next, ~RunStep
    PROVE  UNCHANGED runVars /\ \A c \in Conns, s \in Sessions : BoundTo(c, s)' <=> BoundTo(c, s)
<1> USE DEF runVars, HandlerMoves, ShutdownStep, connVars, chanVars, reflVars, history
<1>1. ASSUME NEW c \in Conns,
             \/ Register(c) \/ PeerSetup(c) \/ SetupCut(c) \/ ReadFails(c) \/ ReadCommand(c)
             \/ RejectCommand(c) \/ Disconnect(c) \/ Accept(c) \/ CheckSID(c) \/ RequestError(c)
             \/ \E s \in Sessions, x \in SIDs, p \in Ports, i \in BOOLEAN :
                  RequestPort(c, s, x, p, i)
             \/ StartSessions(c) \/ StartAck(c) \/ StopSessions(c) \/ StopNSessions(c)
             \/ \E s \in Sessions : StartSkip(c, s) \/ StartFails(c, s)
      PROVE  /\ UNCHANGED runVars
             /\ \A d \in Conns, s \in Sessions : BoundTo(d, s)' <=> BoundTo(d, s)
  <2>1. UNCHANGED runVars
    BY <1>1 DEF Register, PeerSetup, SetupCut, ReadFails, ReadCommand, RejectCommand, Disconnect,
       Accept, CheckSID, RequestError, RequestPort, DropRequest, StartSessions, StartAck,
       StopSessions, StopNSessions, ScheduleStop, StartSkip, StartFails
  <2>2. /\ \A d \in Conns : d # c => pc'[d] = pc[d] /\ cur'[d] = cur[d]
        /\ pc[c] # "bound" /\ pc'[c] # "bound"
    BY <1>1 DEF Register, PeerSetup, SetupCut, ReadFails, ReadCommand, RejectCommand, Disconnect,
       Accept, CheckSID, RequestError, RequestPort, DropRequest, StartSessions, StartAck,
       StopSessions, StopNSessions, ScheduleStop, StartSkip, StartFails, Answered, Goto,
       LoopHead, Shape, TypeOK
  <2> QED BY <2>1, <2>2 DEF BoundTo
<1>2. ASSUME \/ AcceptFails \/ CancelContext \/ StopCalled \/ StopCopies \/ StopClosesConnections
             \/ StopReturns \/ Terminated
             \/ \E s \in Sessions, k \in Runs : ReflectorRefresh(s, k)
      PROVE  UNCHANGED runVars /\ UNCHANGED <<pc, cur>>
  BY <1>2 DEF AcceptFails, CancelContext, StopCalled, StopCopies, StopClosesConnections,
     StopReturns, Terminated, ReflectorRefresh, vars
<1> HIDE DEF runVars
<1> QED BY <1>1, <1>2 DEF Next, HandlerStep, ServeCommand, PeerStep, ReflectorStep, StopStep,
           RunStep, BoundTo
-----------------------------------------------------------------------------
(* The stop channels.                                                      *)

(* CloseSession closes a channel of a run that has begun and forgets it; a *)
(* restart makes the channel of a run that has not.                        *)
LEMMA NextChan == IInv /\ ChanOK /\ Next => ChanOK'
<1> SUFFICES ASSUME IInv, ChanOK, Next PROVE ChanOK'
  OBVIOUS
<1> USE DEF IInv, Shape
<1>1. CASE UNCHANGED <<chan, closedChans, starts>>
  BY <1>1 DEF ChanOK
<1>2. ASSUME NEW c \in Conns, StoreSession(c) PROVE ChanOK'
  <2>1. pc[c] = "store" /\ cur[c] \in Sessions /\ starts[cur[c]] = 0
    BY <1>2 DEF StoreSession, RegisterSession, RequestOK, Requesting, CurShape
  <2>2. /\ \A t \in Sessions : chan'[t] = IF t = cur[c] THEN 1 ELSE chan[t]
        /\ UNCHANGED <<starts, closedChans>>
    BY <1>2 DEF StoreSession, RegisterSession, TypeOK
  <2> QED BY <2>1, <2>2 DEF ChanOK, Runs
<1>3. ASSUME NEW c \in Conns, NEW s \in Sessions, StartBind(c, s) PROVE ChanOK'
  <2>1. /\ \A t \in Sessions : starts'[t] = IF t = s THEN starts[s] + 1 ELSE starts[t]
        /\ \A t \in Sessions :
             chan'[t] = IF t = s /\ chan[t] = 0 THEN starts[s] + 1 ELSE chan[t]
        /\ UNCHANGED closedChans
    BY <1>3 DEF StartBind, TypeOK
  <2>2. \A t \in Sessions : starts[t] \in Nat /\ chan[t] \in Nat
    BY ServerAssumption DEF TypeOK
  <2> QED BY <2>1, <2>2 DEF ChanOK, Runs
<1>4. ASSUME NEW f \in Callers, CloseSession(f) PROVE ChanOK'
  <2> DEFINE s == frame[f].sess
  <2>1. s \in Sessions /\ starts[s] # 0
    BY <1>4 DEF CloseSession, FrameShape, FreshOK
  <2>2. /\ \A t \in Sessions : chan'[t] = IF t = s THEN 0 ELSE chan[t]
        /\ closedChans' \subseteq closedChans \cup {<<s, chan[s]>>}
        /\ UNCHANGED starts
    BY <1>4, <2>1 DEF CloseSession, TakeStopChan, TypeOK
  <2>3. \A t \in Sessions : starts[t] \in Nat /\ chan[t] \in Nat
    BY ServerAssumption DEF TypeOK
  <2> HIDE DEF s
  <2>4. \A t \in Sessions, k \in Runs : <<t, k>> \in closedChans' =>
            <<t, k>> \in closedChans \/ (t = s /\ k = chan[s])
    BY <2>2
  <2> QED BY <2>1, <2>2, <2>3, <2>4 DEF ChanOK, Runs
<1>5. CASE ~RunStep
  BY <1>5, <1>1, OtherSteps DEF runVars
<1>6. ASSUME \/ \E c \in Conns : StartActivate(c) \/ \E s \in Sessions : CleanupStop(c, s)
             \/ \E s \in Sessions, k \in Runs :
                  ReflectorLeaves(s, k) \/ ReflectorStopsSelf(s, k) \/ ReflectorExits(s, k)
             \/ \E s \in Sessions : TimerFires(s) \/ StopNext(s)
             \/ \E f \in Callers : Unregister(f) \/ ReleasePort(f)
      PROVE  UNCHANGED <<chan, closedChans, starts>>
  BY <1>6 DEF StartActivate, CleanupStop, ReflectorLeaves, ReflectorStopsSelf, ReflectorExits,
     TimerFires, StopNext, ShutdownStep, Unregister, ReleasePort, chanVars
<1> HIDE DEF IInv, Shape
<1> QED BY <1>1, <1>2, <1>3, <1>4, <1>5, <1>6 DEF RunStep, StopSessionStep

-----------------------------------------------------------------------------
(* The frames of timers and reflectors.                                    *)
LEMMA NextFrameOwn == Shape /\ FrameOwnOK /\ Next => FrameOwnOK'
<1> SUFFICES ASSUME Shape, FrameOwnOK, Next PROVE FrameOwnOK'
  OBVIOUS
<1>1. ASSUME NEW f \in Callers, NEW s \in Sessions, BeginStop(f, s),
             \A t \in Sessions : f = Timer(t) => t = s,
             \A t \in Sessions, k \in Runs : f = Reflector(t, k) => t = s
      PROVE  FrameOwnOK'
  BY <1>1, StopEffect, CallerTypes DEF FrameOwnOK
<1>2. ASSUME NEW c \in Conns, NEW s \in Sessions, CleanupStop(c, s) PROVE FrameOwnOK'
  BY <1>1, <1>2, CallerTypes DEF CleanupStop, Handler, Timer, Reflector
<1>3. ASSUME NEW s \in Sessions, NEW k \in Runs, ReflectorStopsSelf(s, k) PROVE FrameOwnOK'
  BY <1>1, <1>3, CallerTypes DEF ReflectorStopsSelf, Timer, Reflector
<1>4. ASSUME NEW s \in Sessions, TimerFires(s) PROVE FrameOwnOK'
  BY <1>1, <1>4, CallerTypes DEF TimerFires, Timer, Reflector
<1>5. ASSUME NEW s \in Sessions, StopNext(s) PROVE FrameOwnOK'
  BY <1>1, <1>5, CallerTypes DEF StopNext, Stopper, Timer, Reflector
<1>6. ASSUME NEW f \in Callers, CloseSession(f) \/ Unregister(f) PROVE FrameOwnOK'
  BY <1>6, AdvanceEffect, CallerTypes DEF CloseSession, Unregister, FrameOwnOK
<1>7. ASSUME NEW f \in Callers, ReleasePort(f) PROVE FrameOwnOK'
  <2>1. \A g \in Callers : frame'[g].sess \in {frame[g].sess, None}
    BY <1>7, ReleaseEffect DEF ReleasePort
  <2> QED BY <2>1, CallerTypes DEF FrameOwnOK
<1>8. CASE UNCHANGED frame
  BY <1>8 DEF FrameOwnOK
<1>9. ASSUME \/ \E c \in Conns : StoreSession(c) \/ StartActivate(c)
             \/ \E c \in Conns, s \in Sessions : StartBind(c, s)
             \/ \E s \in Sessions, k \in Runs : ReflectorLeaves(s, k) \/ ReflectorExits(s, k)
      PROVE  UNCHANGED frame
  BY <1>9 DEF StoreSession, StartActivate, StartBind, ReflectorLeaves, ReflectorExits
<1>10. CASE ~RunStep
  BY <1>10, <1>8, OtherSteps DEF runVars
<1> QED BY <1>2, <1>3, <1>4, <1>5, <1>6, <1>7, <1>8, <1>9, <1>10 DEF RunStep, StopSessionStep
-----------------------------------------------------------------------------
(* The reflectors.                                                         *)

(* One reflector per run that has begun, and at most one of a session has  *)
(* returned while the process lives.                                       *)
LEMMA NextRuns == IInv /\ OwnOK /\ RunsOK /\ Next => RunsOK'
<1> SUFFICES ASSUME IInv, OwnOK, RunsOK, Next PROVE RunsOK'
  OBVIOUS
<1> USE DEF IInv, Shape
<1>1. ASSUME UNCHANGED <<refl, starts>>, \A c \in Conns, s \in Sessions : BoundTo(c, s)' <=> BoundTo(c, s),
             crashed => crashed'
      PROVE  RunsOK'
  <2>1. \A c \in Conns : pc'[c] = "bound" => pc[c] = "bound" /\ cur'[c] = cur[c]
    <3> SUFFICES ASSUME NEW c \in Conns, pc'[c] = "bound" PROVE pc[c] = "bound" /\ cur'[c] = cur[c]
      OBVIOUS
    <3>1. cur'[c] \in Sessions
      BY NextShape DEF CurShape
    <3> QED BY <3>1, <1>1 DEF BoundTo
  <2> QED BY <1>1, <2>1 DEF RunsOK
<1>2. ASSUME NEW c \in Conns, NEW s \in Sessions, StartBind(c, s) PROVE RunsOK'
  <2>1. /\ \A t \in Sessions : starts'[t] = IF t = s THEN starts[s] + 1 ELSE starts[t]
        /\ \A d \in Conns : pc'[d] = IF d = c THEN "bound" ELSE pc[d]
        /\ \A d \in Conns : cur'[d] = IF d = c THEN s ELSE cur[d]
        /\ UNCHANGED <<refl, crashed>>
        /\ pc[c] = "starting" /\ s \in ccSessions[c] /\ starts[s] < MaxStarts
    BY <1>2 DEF StartBind, Goto, OwnOK, TypeOK, reflVars
  <2>2. \A t \in Sessions : starts[t] \in Nat
    BY ServerAssumption DEF TypeOK
  <2>3. \A d \in Conns : ~BoundTo(d, s)
    BY <2>1 DEF OwnOK, BoundTo
  <2>4. starts[s] + 1 \in Runs
    BY <2>1, <2>2, ServerAssumption DEF Runs
  <2>5. \A k \in Runs : k \in Nat
    BY DEF Runs
  <2>6. \A t \in Sessions, k \in Runs : refl'[<<t, k>>] # "none" => k <= starts'[t]
    BY <2>1, <2>2, <2>5 DEF RunsOK
  <2>7. \A d \in Conns, t \in Sessions : BoundTo(d, t)' <=> BoundTo(d, t) \/ (d = c /\ t = s)
    BY <2>1 DEF BoundTo
  <2>8. \A t \in Sessions, k \in Runs :
          k <= starts'[t] /\ refl'[<<t, k>>] = "none" =>
            k = starts'[t] /\ \E d \in Conns : BoundTo(d, t)'
    <3> SUFFICES ASSUME NEW t \in Sessions, NEW k \in Runs, k <= starts'[t], refl[<<t, k>>] = "none"
                 PROVE  k = starts'[t] /\ \E d \in Conns : BoundTo(d, t)'
      BY <2>1
    <3>1. CASE t = s
      <4>1. ~ (k <= starts[s])
        BY <3>1, <2>3 DEF RunsOK
      <4> QED BY <3>1, <4>1, <2>1, <2>2, <2>5, <2>7
    <3>2. CASE t # s
      BY <3>2, <2>1, <2>7 DEF RunsOK
    <3> QED BY <3>1, <3>2
  <2>9. \A d \in Conns : pc'[d] = "bound" => refl'[<<cur'[d], starts'[cur'[d]]>>] = "none"
    <3>1. refl[<<s, starts[s] + 1>>] = "none"
      BY <2>2, <2>4 DEF RunsOK
    <3>2. \A d \in Conns : d # c /\ pc[d] = "bound" => cur[d] \in Sessions /\ cur[d] # s
      BY <2>3 DEF BoundTo, CurShape
    <3> QED BY <3>1, <3>2, <2>1 DEF RunsOK
  <2> QED BY <2>1, <2>6, <2>8, <2>9 DEF RunsOK
<1>3. ASSUME NEW c \in Conns, StartActivate(c) PROVE RunsOK'
  <2> DEFINE s == cur[c]
  <2>1. pc[c] = "bound" /\ s \in Sessions /\ s \in ccSessions[c]
    BY <1>3 DEF StartActivate, CurShape, OwnOK
  <2>2. starts[s] \in Runs
    BY <1>3, <2>1, ServerAssumption DEF FreshOK, TypeOK, Runs
  <2>3. /\ \A r \in Sessions \X Runs : refl'[r] = IF r = <<s, starts[s]>> THEN "loop" ELSE refl[r]
        /\ UNCHANGED <<starts, crashed>>
        /\ \A d \in Conns : d # c => pc'[d] = pc[d] /\ cur'[d] = cur[d]
        /\ pc'[c] # "bound"
    BY <1>3 DEF StartActivate, Goto, TypeOK
  <2>4. \A d \in Conns : BoundTo(d, s) => d = c
    BY <2>1 DEF OwnOK, BoundTo
  <2> HIDE DEF s
  <2>5. \A t \in Sessions, k \in Runs :
          refl'[<<t, k>>] = IF t = s /\ k = starts[s] THEN "loop" ELSE refl[<<t, k>>]
    BY <2>3
  <2>6. \A t \in Sessions, k \in Runs : refl'[<<t, k>>] # "none" => k <= starts'[t]
    BY <2>2, <2>3, <2>5 DEF RunsOK, Runs
  <2>7. \A t \in Sessions, d \in Conns : t # s => (BoundTo(d, t)' <=> BoundTo(d, t))
    BY <2>1, <2>3 DEF BoundTo, s
  <2>8. \A t \in Sessions, k \in Runs :
          k <= starts'[t] /\ refl'[<<t, k>>] = "none" =>
            k = starts'[t] /\ \E d \in Conns : BoundTo(d, t)'
    BY <2>2, <2>3, <2>5, <2>7 DEF RunsOK
  <2>9. \A d \in Conns : pc'[d] = "bound" => refl'[<<cur'[d], starts'[cur'[d]]>>] = "none"
    <3> SUFFICES ASSUME NEW d \in Conns, pc'[d] = "bound"
                 PROVE  refl'[<<cur[d], starts[cur[d]]>>] = "none"
      BY <2>3
    <3>1. pc[d] = "bound" /\ cur[d] \in Sessions /\ cur[d] # s
      BY <2>3, <2>4 DEF CurShape, BoundTo
    <3>2. starts[cur[d]] \in Runs
      BY <3>1, ServerAssumption DEF FreshOK, TypeOK, Runs
    <3> QED BY <3>1, <3>2, <2>5 DEF RunsOK
  <2>10. ~crashed' => \A t \in Sessions : \A j, k \in Runs :
            refl'[<<t, j>>] = "done" /\ refl'[<<t, k>>] = "done" => j = k
    BY <2>3, <2>5 DEF RunsOK
  <2> QED BY <2>6, <2>8, <2>9, <2>10 DEF RunsOK
<1>4. ASSUME NEW s \in Sessions, NEW k \in Runs, NEW w \in {"exit", "done"},
             refl[<<s, k>>] \in {"loop", "exit"}, refl' = [refl EXCEPT ![<<s, k>>] = w],
             UNCHANGED <<starts, pc, cur>>,
             w = "done" /\ ~crashed' => \A j \in Runs : refl[<<s, j>>] # "done",
             crashed => crashed'
      PROVE  RunsOK'
  <2>1. \A t \in Sessions, j \in Runs :
          refl'[<<t, j>>] = IF t = s /\ j = k THEN w ELSE refl[<<t, j>>]
    BY <1>4 DEF TypeOK
  <2>2. \A t \in Sessions, j \in Runs : refl'[<<t, j>>] = "none" <=> refl[<<t, j>>] = "none"
    BY <2>1, <1>4
  <2>3. \A d \in Conns : pc[d] = "bound" => cur[d] \in Sessions /\ starts[cur[d]] \in Runs
    BY ServerAssumption DEF FreshOK, CurShape, TypeOK, Runs
  <2>4. ~crashed' => \A t \in Sessions : \A i, j \in Runs :
            refl'[<<t, i>>] = "done" /\ refl'[<<t, j>>] = "done" => i = j
    BY <2>1, <1>4 DEF RunsOK
  <2> QED BY <2>2, <2>3, <2>4, <1>4 DEF RunsOK, BoundTo
<1>5. ASSUME NEW s \in Sessions, NEW k \in Runs, ReflectorLeaves(s, k) \/ ReflectorStopsSelf(s, k)
      PROVE  RunsOK'
  <2>1. /\ refl[<<s, k>>] = "loop" /\ refl' = [refl EXCEPT ![<<s, k>>] = "exit"]
        /\ UNCHANGED <<starts, pc, cur, crashed>>
    BY <1>5 DEF ReflectorLeaves, ReflectorStopsSelf, connVars
  <2> QED BY <2>1, <1>4
<1>6. ASSUME NEW s \in Sessions, NEW k \in Runs, ReflectorExits(s, k) PROVE RunsOK'
  <2>1. /\ refl[<<s, k>>] = "exit" /\ refl' = [refl EXCEPT ![<<s, k>>] = "done"]
        /\ UNCHANGED <<starts, pc, cur>> /\ ~crashed
        /\ crashed' = (\E j \in Runs : refl[<<s, j>>] = "done")
    BY <1>6 DEF ReflectorExits, connVars
  <2> QED BY <2>1, <1>4
<1>7. ASSUME \/ \E c \in Conns : StoreSession(c) \/ \E s \in Sessions : CleanupStop(c, s)
             \/ \E s \in Sessions : TimerFires(s) \/ StopNext(s)
             \/ \E f \in Callers : StopSessionStep(f)
      PROVE  /\ UNCHANGED <<refl, starts>> /\ (crashed => crashed')
             /\ \A c \in Conns, s \in Sessions : BoundTo(c, s)' <=> BoundTo(c, s)
  <2>1. UNCHANGED <<refl, starts>> /\ (crashed => crashed')
    BY <1>7 DEF StoreSession, CleanupStop, TimerFires, StopNext, ShutdownStep, StopSessionStep,
       CloseSession, Unregister, ReleasePort, connVars, reflVars
  <2>2. \A c \in Conns : pc[c] = "bound" \/ pc'[c] = "bound" => pc'[c] = pc[c] /\ cur'[c] = cur[c]
    BY <1>7 DEF StoreSession, Answered, Goto, LoopHead, CleanupStop, TimerFires, StopNext,
       ShutdownStep, StopSessionStep, CloseSession, Unregister, ReleasePort, connVars, TypeOK
  <2> QED BY <2>1, <2>2 DEF BoundTo
<1>8. CASE ~RunStep
  BY <1>8, <1>1, OtherSteps DEF runVars
<1> HIDE DEF IInv, Shape
<1> QED BY <1>1, <1>2, <1>3, <1>5, <1>6, <1>7, <1>8 DEF RunStep
-----------------------------------------------------------------------------
(* Connections, SIDs and the end of Server.Stop.                           *)

(* A connection is in Server.connections only while its handler runs.      *)
LEMMA NextConn == Shape /\ ConnOK /\ Next => ConnOK'
<1> SUFFICES ASSUME Shape, ConnOK, Next PROVE ConnOK'
  OBVIOUS
<1> USE DEF Shape
<1>1. ASSUME NEW c \in Conns, HandlerStep(c) \/ PeerStep(c) PROVE ConnOK'
  <2>1. CASE Register(c)
    BY <2>1 DEF Register, Goto, ConnOK, TypeOK
  <2>2. CASE Disconnect(c)
    BY <2>2 DEF Disconnect, Goto, ConnOK, TypeOK
  <2>3. CASE Accept(c)
    BY <2>3 DEF Accept, ConnOK, TypeOK
  <2>4. CASE ~Register(c) /\ ~Disconnect(c) /\ ~Accept(c)
    <3>1. UNCHANGED connections
      BY <1>1, <2>4 DEF HandlerStep, PeerStep, ServeCommand, SetupCut, ReadFails, CleanupStop,
         PeerSetup, ReadCommand, RejectCommand, CheckSID, DropRequest, RequestError, RequestPort,
         StoreSession, StartSessions, StartActivate, StartAck, StartSkip, StartFails, StartBind,
         StopSessions, StopNSessions, ScheduleStop
    <3>2. /\ pc'[c] \notin {"none", "accepted", "closed"}
          /\ \A d \in Conns : d # c => pc'[d] = pc[d]
      BY <1>1, <2>4 DEF HandlerStep, PeerStep, ServeCommand, SetupCut, ReadFails, CleanupStop,
         PeerSetup, ReadCommand, RejectCommand, CheckSID, DropRequest, RequestError, RequestPort,
         StoreSession, StartSessions, StartActivate, StartAck, StartSkip, StartFails, StartBind,
         StopSessions, StopNSessions, ScheduleStop, Answered, Goto, LoopHead, TypeOK
    <3> QED BY <3>1, <3>2 DEF ConnOK, TypeOK
  <2> QED BY <2>1, <2>2, <2>3, <2>4
<1>2. CASE OutsideStep
  BY <1>2, OutsideKeeps DEF ConnOK
<1> QED BY <1>1, <1>2 DEF Next, OutsideStep

(* A session that was given a port was given a SID.                        *)
LEMMA NextSid == Shape /\ SidOK /\ Next => SidOK'
<1> SUFFICES ASSUME Shape, SidOK, Next PROVE SidOK'
  OBVIOUS
<1> USE DEF Shape, TypeOK
<1>1. ASSUME NEW c \in Conns, NEW s \in Sessions, NEW x \in SIDs, NEW p \in Ports,
             NEW i \in BOOLEAN, RequestPort(c, s, x, p, i)
      PROVE  SidOK'
  BY <1>1 DEF RequestPort, SidOK
<1>2. ASSUME NEW c \in Conns, DropRequest(c) PROVE SidOK'
  BY <1>2 DEF DropRequest, SidOK
<1>3. CASE UNCHANGED <<sid, port>>
  BY <1>3 DEF SidOK
<1>4. ASSUME NEW c \in Conns, HandlerStep(c) \/ PeerStep(c),
             ~DropRequest(c),
             \A s \in Sessions, x \in SIDs, p \in Ports, i \in BOOLEAN :
                ~RequestPort(c, s, x, p, i)
      PROVE  UNCHANGED <<sid, port>>
  BY <1>4 DEF HandlerStep, PeerStep, ServeCommand, Register, SetupCut, ReadFails, CleanupStop,
     Disconnect, Accept, PeerSetup, ReadCommand, RejectCommand, CheckSID, RequestError,
     StoreSession, StartSessions, StartActivate, StartAck, StartSkip, StartFails, StartBind,
     StopSessions, StopNSessions, ScheduleStop, HandlerMoves, ownVars
<1>5. CASE OutsideStep
  BY <1>3, <1>5, OutsideKeeps
<1> HIDE DEF Shape, TypeOK
<1> QED BY <1>1, <1>2, <1>3, <1>4, <1>5 DEF Next, OutsideStep
-----------------------------------------------------------------------------
(* Active sessions are served.                                             *)

(* A session is never un-started.                                          *)
LEMMA RestartStays == Shape /\ Next /\ NoRestart' => NoRestart
<1> SUFFICES ASSUME Shape, Next, NoRestart' PROVE NoRestart
  OBVIOUS
<1>1. CASE UNCHANGED starts
  BY <1>1 DEF NoRestart
<1>2. ASSUME NEW c \in Conns, NEW s \in Sessions, StartBind(c, s) PROVE NoRestart
  <2>1. /\ \A t \in Sessions : starts'[t] = IF t = s THEN starts[s] + 1 ELSE starts[t]
        /\ \A t \in Sessions : starts[t] \in Nat
    BY <1>2, ServerAssumption DEF StartBind, Shape, TypeOK
  <2> QED BY <2>1 DEF NoRestart
<1>3. ASSUME \/ \E c \in Conns : StoreSession(c) \/ StartActivate(c)
                    \/ \E s \in Sessions : CleanupStop(c, s)
             \/ \E s \in Sessions, k \in Runs :
                  ReflectorLeaves(s, k) \/ ReflectorStopsSelf(s, k) \/ ReflectorExits(s, k)
             \/ \E s \in Sessions : TimerFires(s) \/ StopNext(s)
             \/ \E f \in Callers : StopSessionStep(f)
      PROVE  UNCHANGED starts
  BY <1>3 DEF StoreSession, StartActivate, CleanupStop, ReflectorLeaves, ReflectorStopsSelf,
     ReflectorExits, TimerFires, StopNext, ShutdownStep, StopSessionStep, CloseSession, Unregister,
     ReleasePort
<1>4. CASE ~RunStep
  BY <1>1, <1>4, OtherSteps DEF runVars
<1> QED BY <1>1, <1>2, <1>3, <1>4 DEF RunStep

(* What the invariant says of a session that has not been started twice.   *)
LEMMA FirstRun ==
    ASSUME IInv, ChanOK, RunsOK, NoRestart, ServedOK, NEW s \in Sessions
    PROVE  /\ starts[s] \in {0, 1} /\ 1 \in Runs
           /\ \A k \in Runs : refl[<<s, k>>] # "none" => k = 1 /\ starts[s] = 1
           /\ \A k \in Runs : <<s, k>> \in closedChans => chan[s] = 0
           /\ \A c \in Conns : BoundTo(c, s) =>
                starts[s] = 1 /\ refl[<<s, 1>>] = "none" /\ ~active[s]
<1> USE DEF IInv, Shape
<1>1. starts[s] \in {0, 1} /\ 1 \in Runs
  <2>1. starts[s] \in Nat /\ starts[s] <= 1
    BY ServerAssumption DEF NoRestart, TypeOK
  <2>2. 1 \in Runs
    BY ServerAssumption DEF Runs
  <2> QED BY <2>1, <2>2
<1>2. \A k \in Runs : refl[<<s, k>>] # "none" => k = 1 /\ starts[s] = 1
  BY <1>1 DEF RunsOK, Runs
<1>3. \A k \in Runs : <<s, k>> \in closedChans => chan[s] = 0
  <2>1. chan[s] \in Nat
    BY ServerAssumption DEF TypeOK
  <2> QED BY <1>1, <2>1 DEF ChanOK, Runs
<1>4. \A c \in Conns : BoundTo(c, s) => starts[s] = 1 /\ refl[<<s, 1>>] = "none" /\ ~active[s]
  BY <1>1 DEF BoundTo, FreshOK, RunsOK, Stages, BoundOK
<1> QED BY <1>1, <1>2, <1>3, <1>4

(* stopSession's compare-and-swap: the session is no longer active, and    *)
(* whoever elected itself has the socket to close.                         *)
LEMMA ServedStop ==
    ASSUME IInv, ChanOK, RunsOK, FrameOwnOK, NoRestart, ServedOK,
           NEW f \in Callers, NEW s \in Sessions, BeginStop(f, s),
           active[s] => frame[f].phase = "idle",
           UNCHANGED <<conn, chan, open, pc, cur>>,
           \A t \in Sessions : refl'[<<t, 1>>] = refl[<<t, 1>>]
                                \/ (t = s /\ refl'[<<t, 1>>] = "exit")
    PROVE  ServedOK'
<1> USE DEF IInv, Shape
<1>1. /\ \A t \in Sessions : active'[t] <=> active[t] /\ t # s
      /\ \A g \in Callers : g # f \/ ~active[s] => frame'[g] = frame[g]
      /\ active[s] => frame'[f].sess = s /\ frame'[f].phase = "cas"
  BY StopEffect
<1>2. \A c \in Conns, t \in Sessions : BoundTo(c, t)' <=> BoundTo(c, t)
  BY DEF BoundTo
<1>3. \A t \in Sessions : active'[t] => refl'[<<t, 1>>] = "loop" /\ Ready(t)'
  BY <1>1 DEF ServedOK, Ready
<1>4. \A c \in Conns, t \in Sessions : BoundTo(c, t)' => Ready(t)'
  BY <1>2 DEF ServedOK, Ready
<1>5. \A t \in Sessions : refl'[<<t, 1>>] = "done" => conn'[t] = 0
  BY DEF ServedOK
<1>6. ASSUME NEW r \in open'
      PROVE  \/ active'[r[1]]
             \/ \E c \in Conns : BoundTo(c, r[1])'
             \/ \E g \in Callers : frame'[g].sess = r[1] /\ frame'[g].phase = "cas"
  <2>1. r \in open /\ r[1] \in Sessions
    BY DEF TypeOK
  <2>2. CASE active[r[1]]
    BY <2>1, <2>2, <1>1
  <2>3. CASE \E c \in Conns : BoundTo(c, r[1])
    BY <2>1, <2>3, <1>2
  <2>4. ASSUME NEW g \in Callers, frame[g].sess = r[1], frame[g].phase = "cas"
        PROVE  frame'[g].sess = r[1] /\ frame'[g].phase = "cas"
    BY <2>4, <1>1
  <2> QED BY <2>1, <2>2, <2>3, <2>4 DEF ServedOK
<1> QED BY <1>3, <1>4, <1>5, <1>6 DEF ServedOK

(* As long as no session is started twice, every active session keeps its  *)
(* reflector and its socket, and an open socket has someone to close it.   *)
LEMMA NextServed ==
    ASSUME IInv, OwnOK, ChanOK, RunsOK, FrameOwnOK, Next, NoRestart', NoRestart => ServedOK
    PROVE  ServedOK'
<1> USE DEF IInv, Shape
<1>1. NoRestart /\ ServedOK /\ Stages
  BY RestartStays
<1>2. CASE ~RunStep
  <2>1. UNCHANGED runVars /\ \A c \in Conns, s \in Sessions : BoundTo(c, s)' <=> BoundTo(c, s)
    BY <1>2, OtherSteps
  <2>2. \A r \in open : r[1] \in Sessions
    BY DEF TypeOK
  <2> QED BY <1>1, <2>1, <2>2 DEF ServedOK, Ready, runVars
<1>3. ASSUME NEW c \in Conns, StoreSession(c) PROVE ServedOK'
  <2>1. /\ UNCHANGED <<active, refl, conn, open, frame>>
        /\ \A t \in Sessions : chan'[t] # chan[t] => chan'[t] = 1
    BY <1>3 DEF StoreSession, TypeOK, reflVars
  <2>2. \A d \in Conns, t \in Sessions : BoundTo(d, t)' <=> BoundTo(d, t)
    BY <1>3 DEF StoreSession, Answered, Goto, LoopHead, TypeOK, BoundTo
  <2>3. \A r \in open : r[1] \in Sessions
    BY DEF TypeOK
  <2> QED BY <1>1, <2>1, <2>2, <2>3 DEF ServedOK, Ready
<1>4. ASSUME NEW c \in Conns, NEW s \in Sessions, StartBind(c, s) PROVE ServedOK'
  <2>1. /\ \A t \in Sessions : starts'[t] = IF t = s THEN starts[s] + 1 ELSE starts[t]
        /\ \A t \in Sessions : conn'[t] = IF t = s THEN starts[s] + 1 ELSE conn[t]
        /\ \A t \in Sessions : t # s => chan'[t] = chan[t]
        /\ chan'[s] = IF chan[s] = 0 THEN starts[s] + 1 ELSE chan[s]
        /\ open' = open \cup {<<s, starts[s] + 1>>}
        /\ UNCHANGED <<active, refl, frame>> /\ ~active[s]
    BY <1>4 DEF StartBind, TypeOK, reflVars
  <2>2. starts[s] = 0
    <3>1. starts'[s] <= 1 /\ starts[s] \in Nat
      BY ServerAssumption DEF NoRestart, TypeOK
    <3> QED BY <2>1, <3>1
  <2>3. \A d \in Conns, t \in Sessions : BoundTo(d, t)' => BoundTo(d, t) \/ t = s
    BY <1>4 DEF StartBind, Goto, BoundTo, TypeOK
  <2>4. \A d \in Conns, t \in Sessions : BoundTo(d, t) => BoundTo(d, t)'
    BY <1>4 DEF StartBind, Goto, BoundTo, TypeOK
  <2>5. BoundTo(c, s)'
    BY <1>4 DEF StartBind, Goto, BoundTo, TypeOK
  <2>6. Ready(s)' /\ refl'[<<s, 1>>] # "done"
    BY <1>1, <2>1, <2>2, FirstRun DEF Ready
  <2>7. \A t \in Sessions : t # s /\ Ready(t) => Ready(t)'
    BY <2>1 DEF Ready
  <2>8. ASSUME NEW r \in open'
        PROVE  \/ active'[r[1]]
               \/ \E d \in Conns : BoundTo(d, r[1])'
               \/ \E g \in Callers : frame'[g].sess = r[1] /\ frame'[g].phase = "cas"
    <3>1. CASE r \in open
      <4>1. r[1] \in Sessions
        BY <3>1 DEF TypeOK
      <4> QED BY <1>1, <2>1, <2>4, <3>1, <4>1 DEF ServedOK
    <3>2. CASE r = <<s, starts[s] + 1>>
      BY <3>2, <2>5
    <3> QED BY <3>1, <3>2, <2>1
  <2> QED BY <1>1, <2>1, <2>3, <2>6, <2>7, <2>8 DEF ServedOK
<1>5. ASSUME NEW c \in Conns, StartActivate(c) PROVE ServedOK'
  <2> DEFINE s == cur[c]
  <2>1. s \in Sessions /\ BoundTo(c, s)
    BY <1>5 DEF StartActivate, CurShape, BoundTo
  <2>2. starts[s] = 1 /\ 1 \in Runs
    BY <1>1, <2>1, FirstRun
  <2>3. /\ \A t \in Sessions : active'[t] <=> active[t] \/ t = s
        /\ \A t \in Sessions : refl'[<<t, 1>>] = IF t = s THEN "loop" ELSE refl[<<t, 1>>]
        /\ UNCHANGED <<conn, chan, open, frame>>
    BY <1>5, <2>2 DEF StartActivate, TypeOK, chanVars
  <2>4. \A d \in Conns, t \in Sessions :
          /\ BoundTo(d, t)' => BoundTo(d, t)
          /\ BoundTo(d, t) => BoundTo(d, t)' \/ t = s
    BY <1>5 DEF StartActivate, Goto, BoundTo, TypeOK
  <2> HIDE DEF s
  <2>5. \A r \in open : r[1] \in Sessions
    BY DEF TypeOK
  <2> QED BY <1>1, <2>1, <2>3, <2>4, <2>5 DEF ServedOK, Ready
<1>6. ASSUME NEW s \in Sessions, NEW k \in Runs, ReflectorLeaves(s, k) PROVE ServedOK'
  <2>1. /\ refl[<<s, k>>] = "loop" /\ MustLeave(s, k)
        /\ refl' = [refl EXCEPT ![<<s, k>>] = "exit"]
        /\ UNCHANGED <<active, conn, chan, open, frame, pc, cur>>
    BY <1>6 DEF ReflectorLeaves, connVars, chanVars
  <2>2. k = 1
    BY <1>1, <2>1, FirstRun
  <2>3. \A t \in Sessions : refl'[<<t, 1>>] = IF t = s THEN "exit" ELSE refl[<<t, 1>>]
    BY <2>1, <2>2 DEF TypeOK
  <2>4. ~active[s]
    <3> SUFFICES ASSUME active[s] PROVE FALSE
      OBVIOUS
    <3>1. Ready(s)
      BY <1>1 DEF ServedOK
    <3>2. <<s, view[<<s, k>>][2]>> \in closedChans
      BY <2>1, <3>1 DEF MustLeave, Ready
    <3>3. view[<<s, k>>][2] \in Runs
      BY <3>2 DEF TypeOK
    <3> QED BY <1>1, <3>1, <3>2, <3>3, FirstRun DEF Ready
  <2> QED BY <1>1, <2>1, <2>3, <2>4 DEF ServedOK, Ready, BoundTo
<1>7. ASSUME NEW s \in Sessions, NEW k \in Runs, ReflectorExits(s, k) PROVE ServedOK'
  <2>1. /\ refl[<<s, k>>] = "exit"
        /\ refl' = [refl EXCEPT ![<<s, k>>] = "done"]
        /\ \A t \in Sessions : conn'[t] = IF t = s THEN 0 ELSE conn[t]
        /\ open' = open \ {<<s, conn[s]>>}
        /\ UNCHANGED <<active, chan, frame, pc, cur>>
    BY <1>7 DEF ReflectorExits, CloseSocket, connVars, chanVars, TypeOK
  <2>2. k = 1
    BY <1>1, <2>1, FirstRun
  <2>3. ~active[s] /\ \A c \in Conns : ~BoundTo(c, s)
    BY <1>1, <2>1, <2>2, FirstRun DEF ServedOK
  <2>4. \A t \in Sessions : refl'[<<t, 1>>] = IF t = s THEN "done" ELSE refl[<<t, 1>>]
    BY <2>1, <2>2 DEF TypeOK
  <2>5. \A t \in Sessions : t # s /\ Ready(t) => Ready(t)'
    BY <2>1 DEF Ready
  <2>6. \A r \in open : r[1] \in Sessions
    BY DEF TypeOK
  <2> QED BY <1>1, <2>1, <2>3, <2>4, <2>5, <2>6 DEF ServedOK, BoundTo
<1>8. ASSUME NEW f \in Callers, CloseSession(f) PROVE ServedOK'
  <2> DEFINE s == frame[f].sess
  <2>1. /\ s \in Sessions /\ frame[f].phase = "cas"
        /\ ~active[s] /\ \A c \in Conns : ~BoundTo(c, s)
    BY <1>1, <1>8 DEF CloseSession, FrameShape, Stages, FramesOK, BoundOK, BoundTo
  <2>2. /\ \A t \in Sessions : chan'[t] = IF t = s THEN 0 ELSE chan[t]
        /\ open' = open \ {<<s, conn[s]>>}
        /\ UNCHANGED <<active, refl, conn, pc, cur>>
    BY <1>8, <2>1 DEF CloseSession, TakeStopChan, CloseSocket, TypeOK, reflVars, connVars
  <2>3. \A g \in Callers : /\ frame'[g].sess = frame[g].sess
                           /\ frame'[g].phase = IF g = f THEN "closed" ELSE frame[g].phase
    <3>1. frame' = [frame EXCEPT ![f].phase = "closed"]
      BY <1>8 DEF CloseSession
    <3> QED BY <3>1 DEF TypeOK, Frames
  <2> HIDE DEF s
  <2>4. \A r \in open' : r \in open /\ r[1] \in Sessions /\ r[1] # s
    <3> SUFFICES ASSUME NEW r \in open' PROVE r[1] # s
      BY <2>2 DEF TypeOK
    <3>1. r \in open /\ r = <<r[1], r[2]>> /\ r # <<s, conn[s]>>
      BY <2>2 DEF TypeOK
    <3>2. conn[r[1]] = r[2]
      BY <1>1, <3>1 DEF Stages, SocketOK
    <3> QED BY <3>1, <3>2
  <2>5. \A t \in Sessions : t # s /\ Ready(t) => Ready(t)'
    BY <2>2 DEF Ready
  <2>6. \A r \in open' : \A g \in Callers :
          frame[g].sess = r[1] /\ frame[g].phase = "cas" =>
            frame'[g].sess = r[1] /\ frame'[g].phase = "cas"
    BY <2>3, <2>4 DEF s
  <2>7. \A r \in open' : \/ active'[r[1]]
                         \/ \E c \in Conns : BoundTo(c, r[1])'
                         \/ \E g \in Callers : frame'[g].sess = r[1] /\ frame'[g].phase = "cas"
    BY <1>1, <2>2, <2>4, <2>6 DEF ServedOK, BoundTo
  <2> QED BY <1>1, <2>1, <2>2, <2>5, <2>7 DEF ServedOK, BoundTo
<1>9. ASSUME NEW f \in Callers, Unregister(f) \/ ReleasePort(f) PROVE ServedOK'
  <2>1. /\ UNCHANGED <<active, refl, conn, chan, open, pc, cur>>
        /\ frame[f].phase # "cas"
    BY <1>9 DEF Unregister, ReleasePort, reflVars, connVars, chanVars
  <2>2. \A g \in Callers : g # f => frame'[g].sess = frame[g].sess /\ frame'[g].phase = frame[g].phase
    BY <1>9, AdvanceEffect, ReleaseEffect DEF Unregister, ReleasePort
  <2> QED BY <1>1, <2>1, <2>2 DEF ServedOK, Ready, BoundTo
<1>10. ASSUME NEW s \in Sessions, NEW f \in Callers, active[s], frame[f].sess \in {s, None}
       PROVE  frame[f].phase = "idle"
  BY <1>1, <1>10, ServerAssumption DEF Stages, FramesOK, FrameShape
<1> HIDE DEF IInv, Shape
<1>11. ASSUME NEW c \in Conns, NEW s \in Sessions, CleanupStop(c, s) PROVE ServedOK'
  <2>1. /\ BeginStop(Handler(c), s) /\ frame[Handler(c)].phase = "idle"
        /\ UNCHANGED <<conn, chan, open, pc, cur, refl>>
    BY <1>11 DEF CleanupStop, Idle, NoFrame, chanVars, reflVars
  <2>2. \A t \in Sessions : refl'[<<t, 1>>] = refl[<<t, 1>>]
                              \/ (t = s /\ refl'[<<t, 1>>] = "exit")
    BY <2>1
  <2> QED BY <1>1, <2>1, <2>2, ServedStop, CallerTypes
<1>12. ASSUME NEW s \in Sessions, TimerFires(s) PROVE ServedOK'
  <2>1. /\ BeginStop(Timer(s), s) /\ (active[s] => frame[Timer(s)].phase = "idle")
        /\ UNCHANGED <<conn, chan, open, pc, cur, refl>>
    BY <1>10, <1>12, CallerTypes DEF TimerFires, FrameOwnOK, connVars, chanVars, reflVars
  <2>2. \A t \in Sessions : refl'[<<t, 1>>] = refl[<<t, 1>>]
                              \/ (t = s /\ refl'[<<t, 1>>] = "exit")
    BY <2>1
  <2> QED BY <1>1, <2>1, <2>2, ServedStop, CallerTypes
<1>13. ASSUME NEW s \in Sessions, StopNext(s) PROVE ServedOK'
  <2>1. /\ BeginStop(Stopper, s) /\ frame[Stopper].phase = "idle"
        /\ UNCHANGED <<conn, chan, open, pc, cur, refl>>
    BY <1>13 DEF StopNext, ShutdownStep, Idle, NoFrame, connVars, chanVars, reflVars
  <2>2. \A t \in Sessions : refl'[<<t, 1>>] = refl[<<t, 1>>]
                              \/ (t = s /\ refl'[<<t, 1>>] = "exit")
    BY <2>1
  <2> QED BY <1>1, <2>1, <2>2, ServedStop, CallerTypes
<1>14. ASSUME NEW s \in Sessions, NEW k \in Runs, ReflectorStopsSelf(s, k) PROVE ServedOK'
  <2>1. /\ BeginStop(Reflector(s, k), s) /\ (active[s] => frame[Reflector(s, k)].phase = "idle")
        /\ UNCHANGED <<conn, chan, open, pc, cur>>
    BY <1>10, <1>14, CallerTypes DEF ReflectorStopsSelf, FrameOwnOK, connVars, chanVars
  <2>2. \A t \in Sessions : refl'[<<t, 1>>] = refl[<<t, 1>>]
                              \/ (t = s /\ refl'[<<t, 1>>] = "exit")
    <3>1. refl[<<s, k>>] = "loop" /\ refl' = [refl EXCEPT ![<<s, k>>] = "exit"]
      BY <1>14 DEF ReflectorStopsSelf
    <3>2. k = 1
      BY <1>1, <3>1, FirstRun
    <3>3. refl \in [Sessions \X Runs -> ReflPc]
      BY DEF IInv, Shape, TypeOK
    <3>4. \A t \in Sessions : <<t, 1>> \in Sessions \X Runs
      BY <3>2
    <3> QED BY <3>1, <3>2, <3>3, <3>4
  <2> QED BY <1>1, <2>1, <2>2, ServedStop, CallerTypes
<1> QED BY <1>2, <1>3, <1>4, <1>5, <1>6, <1>7, <1>8, <1>9, <1>11, <1>12, <1>13, <1>14
        DEF RunStep, StopSessionStep

(* When Stop is about to return, no session can have been started twice: a *)
(* second reflector that returned would have closed reflectorDone again    *)
(* and ended the process.  Every reflector has taken its socket with it.   *)
LEMMA StopReturnsQuiet ==
    ASSUME IInv, RunsOK, NoRestart => ServedOK, StopReturns
    PROVE  QuietOK'
<1> USE DEF IInv, Shape
<1>1. /\ ~crashed /\ \A c \in Conns : pc[c] \in {"none", "closed"}
      /\ \A s \in Sessions, k \in Runs : refl[<<s, k>>] \in {"none", "done"}
      /\ UNCHANGED <<pc, active, open, refl>>
  BY DEF StopReturns, GoroutinesDone, ShutdownStep, connVars, reflVars
<1>2. \A s \in Sessions, k \in Runs : k <= starts[s] => refl[<<s, k>>] = "done"
  BY <1>1 DEF RunsOK, BoundTo
<1>3. NoRestart
  <2> SUFFICES ASSUME NEW s \in Sessions, ~(starts[s] <= 1) PROVE FALSE
    BY DEF NoRestart
  <2>1. starts[s] \in Nat /\ starts[s] <= MaxStarts /\ MaxStarts \in Nat
    BY ServerAssumption DEF TypeOK
  <2>2. 1 \in Runs /\ 2 \in Runs /\ 1 <= starts[s] /\ 2 <= starts[s]
    BY <2>1 DEF Runs
  <2>3. refl[<<s, 1>>] = "done" /\ refl[<<s, 2>>] = "done"
    BY <1>2, <2>2
  <2> QED BY <1>1, <2>2, <2>3 DEF RunsOK
<1>4. 1 \in Runs
  BY ServerAssumption DEF Runs
<1>5. \A s \in Sessions : ~active[s]
  BY <1>1, <1>3, <1>4 DEF ServedOK
<1>6. ASSUME NEW r \in open PROVE FALSE
  <2>1. r[1] \in Sessions /\ starts[r[1]] # 0 /\ starts[r[1]] \in Nat
    BY ServerAssumption DEF FreshOK, TypeOK
  <2>2. refl[<<r[1], 1>>] = "done"
    BY <1>2, <1>4, <2>1
  <2> QED BY <1>3, <2>1, <2>2 DEF ServedOK, Stages, SocketOK
<1> QED BY <1>1, <1>5, <1>6 DEF QuietOK

(* After that no handler and no reflector runs, and a late timer finds its *)
(* session inactive.                                                       *)
LEMMA NextQuiet ==
    ASSUME IInv, RunsOK, QuietOK, NoRestart => ServedOK, Next
    PROVE  QuietOK'
<1> USE DEF IInv, Shape
<1>1. CASE UNCHANGED <<srv, pc, active, refl, open>>
  BY <1>1 DEF QuietOK
<1>2. ASSUME NEW c \in Conns, HandlerStep(c) \/ PeerStep(c) PROVE QuietOK'
  <2>1. pc[c] \notin {"none", "closed"} \/ srv = "running"
    BY <1>2 DEF HandlerStep, PeerStep, ServeCommand, Register, SetupCut, ReadFails, CleanupStop,
       Disconnect, Accept, PeerSetup, ReadCommand, RejectCommand, CheckSID, RequestError,
       RequestPort, StoreSession, StartSessions, StartActivate, StartAck, StartSkip, StartFails,
       StartBind, StopSessions, StopNSessions
  <2>2. UNCHANGED srv
    BY <1>2 DEF HandlerStep, PeerStep, ServeCommand, Register, SetupCut, ReadFails, CleanupStop,
       Disconnect, Accept, PeerSetup, ReadCommand, RejectCommand, CheckSID, DropRequest,
       RequestError, RequestPort, StoreSession, StartSessions, StartActivate, StartAck, StartSkip,
       StartFails, StartBind, StopSessions, StopNSessions, ScheduleStop, HandlerMoves, stopVars
  <2> QED BY <2>1, <2>2 DEF QuietOK
<1>3. ASSUME NEW s \in Sessions, NEW k \in Runs, ReflectorStep(s, k) \/ ReflectorStopsSelf(s, k)
      PROVE  QuietOK'
  <2>1. refl[<<s, k>>] \in {"loop", "exit"} /\ UNCHANGED srv
    BY <1>3 DEF ReflectorStep, ReflectorRefresh, ReflectorLeaves, ReflectorExits,
       ReflectorStopsSelf, stopVars
  <2> QED BY <2>1 DEF QuietOK
<1>4. ASSUME NEW s \in Sessions, TimerFires(s) PROVE QuietOK'
  <2>1. UNCHANGED <<srv, pc, refl, open>> /\ BeginStop(Timer(s), s)
    BY <1>4 DEF TimerFires, stopVars, connVars, reflVars
  <2> QED BY <2>1 DEF QuietOK, BeginStop
<1>5. ASSUME NEW f \in Callers, StopSessionStep(f) PROVE QuietOK'
  <2>1. UNCHANGED <<srv, pc, active, refl>> /\ open' \subseteq open
    BY <1>5 DEF StopSessionStep, CloseSession, CloseSocket, Unregister, ReleasePort, stopVars,
       connVars, reflVars
  <2> QED BY <2>1 DEF QuietOK
<1>6. ASSUME StopCalled \/ StopCopies \/ StopClosesConnections \/ \E s \in Sessions : StopNext(s)
      PROVE  QuietOK'
  <2>1. srv' # "stopped"
    BY <1>6 DEF StopCalled, StopCopies, StopClosesConnections, StopNext
  <2> QED BY <2>1 DEF QuietOK
<1>7. ASSUME AcceptFails \/ CancelContext \/ Terminated PROVE QuietOK'
  <2>1. UNCHANGED <<srv, pc, active, refl, open>>
    BY <1>7 DEF AcceptFails, CancelContext, Terminated, ShutdownStep, stopVars, connVars,
       reflVars, vars
  <2> QED BY <2>1, <1>1
<1> HIDE DEF IInv, Shape
<1> QED BY <1>2, <1>3, <1>4, <1>5, <1>6, <1>7, StopReturnsQuiet DEF Next, StopStep
-----------------------------------------------------------------------------
(* Server.sessions finds every session that can be active.                 *)

(* Steps that store and remove nothing.                                    *)
LEMMA ListKept ==
    ASSUME ListedOK, UNCHANGED <<registry, sid, port, released>>,
           \A d \in Conns : Requesting(d) => Requesting(d)' /\ cur'[d] = cur[d],
           \A f \in Callers : frame[f].phase = "unregistered" => frame'[f] = frame[f],
           \A s \in Sessions : active'[s] => HasStopper(s)'
    PROVE  ListedOK'
<1>1. \A s \in Sessions : Listed(s)' => Listed(s)
  BY DEF Listed
<1> QED BY <1>1 DEF ListedOK

(* A session that is active has been stored and not been removed.          *)
LEMMA ActiveListed ==
    ASSUME IInv, Stages, NEW s \in Sessions, active[s]
    PROVE  Listed(s)
<1> USE DEF IInv, Shape
<1>1. port[s] # None /\ s \notin released /\ starts[s] # 0
  BY DEF FreshOK, UnusedOK, Stages, ActiveOK
<1>2. \A c \in Conns : Requesting(c) => cur[c] # s
  BY <1>1 DEF RequestOK
<1>3. \A f \in Callers : frame[f].sess = s => frame[f].phase # "unregistered"
  BY DEF Stages, FramesOK
<1> QED BY <1>1, <1>2, <1>3 DEF Listed

(* The compare-and-swap: who gives a session up is now stopping it.        *)
LEMMA ListedStop ==
    ASSUME IInv, Stages, ListedOK, NEW f \in Callers, NEW s \in Sessions, BeginStop(f, s),
           active[s] => frame[f].phase = "idle",
           UNCHANGED <<registry, sid, port, released, pc, cur>>,
           \A t \in Sessions : t # s =>
              /\ t \in timers => t \in timers'
              /\ \A c \in Conns : t \in ccSessions[c] => t \in ccSessions'[c]
    PROVE  ListedOK'
<1> USE DEF IInv, Shape
<1>1. /\ \A t \in Sessions : active'[t] <=> active[t] /\ t # s
      /\ \A g \in Callers : g # f \/ ~active[s] => frame'[g] = frame[g]
      /\ active[s] => frame'[f].sess = s /\ frame'[f].phase = "cas"
  BY StopEffect
<1>2. ASSUME NEW t \in Sessions, active'[t] PROVE HasStopper(t)'
  <2>1. active[t] /\ t # s /\ HasStopper(t)
    BY <1>1, <1>2 DEF ListedOK
  <2>2. ~InStop(t)
    <3>1. NoFrame.sess = None
      BY DEF NoFrame
    <3> QED BY <2>1, <3>1, ServerAssumption DEF InStop, Stages, FramesOK, FrameShape
  <2> QED BY <2>1, <2>2 DEF HasStopper
<1>3. \A g \in Callers : frame[g].phase = "unregistered" => frame'[g] = frame[g]
  BY <1>1
<1>4. \A d \in Conns : Requesting(d) => Requesting(d)' /\ cur'[d] = cur[d]
  BY DEF Requesting
<1> HIDE DEF IInv, Shape
<1> QED BY <1>2, <1>3, <1>4, ListKept

(* As long as no session is started twice and no stored SID is replaced,   *)
(* every session between its storing and its removal is found under its    *)
(* SID, and every active one has someone to stop it.                       *)
LEMMA NextListed ==
    ASSUME IInv, OwnOK, SidOK, FrameOwnOK, Next, NoRestart', ~overwritten',
           NoRestart /\ ~overwritten => ListedOK
    PROVE  ListedOK'
<1> USE DEF IInv, Shape
<1>1. NoRestart /\ Stages
  BY RestartStays
<1>2. ASSUME ~overwritten, UNCHANGED <<registry, sid, port, released, active, frame, timers, ccSessions>>,
             \A d \in Conns : Requesting(d) => Requesting(d)' /\ cur'[d] = cur[d]
      PROVE  ListedOK'
  <2>1. ListedOK
    BY <1>1, <1>2
  <2>2. \A s \in Sessions : active'[s] => HasStopper(s)'
    BY <1>2, <2>1 DEF ListedOK, HasStopper, InStop
  <2> QED BY <1>2, <2>1, <2>2, ListKept
<1>3. ASSUME NEW c \in Conns,
             \/ Register(c) \/ PeerSetup(c) \/ SetupCut(c) \/ ReadFails(c) \/ ReadCommand(c)
             \/ RejectCommand(c) \/ Disconnect(c) \/ Accept(c)
             \/ (CheckSID(c) /\ ~DropRequest(c))
             \/ StartSessions(c) \/ StartAck(c)
             \/ \E s \in Sessions : StartSkip(c, s) \/ StartFails(c, s) \/ StartBind(c, s)
      PROVE  ListedOK'
  <2>1. UNCHANGED <<overwritten, registry, sid, port, released, active, frame, timers, ccSessions>>
    BY <1>3 DEF Register, PeerSetup, SetupCut, ReadFails, ReadCommand, RejectCommand, Disconnect,
       Accept, CheckSID, StartSessions, StartAck, StartSkip, StartFails, StartBind, HandlerMoves,
       ownVars, history
  <2>2. \A d \in Conns : Requesting(d) => Requesting(d)' /\ cur'[d] = cur[d]
    BY <1>3 DEF Register, PeerSetup, SetupCut, ReadFails, ReadCommand, RejectCommand, Disconnect,
       Accept, CheckSID, StartSessions, StartAck, StartSkip, StartFails, StartBind, Answered, Goto,
       Requesting, TypeOK
  <2> QED BY <1>2, <2>1, <2>2
<1>4. ASSUME NEW c \in Conns, NEW s \in Sessions, NEW x \in SIDs, NEW p \in Ports,
             NEW i \in BOOLEAN, RequestPort(c, s, x, p, i)
      PROVE  ListedOK'
  <2>1. /\ UNCHANGED <<overwritten, registry, released, active, frame, timers, ccSessions>>
        /\ \A t \in Sessions : t # s => sid'[t] = sid[t] /\ port'[t] = port[t]
        /\ \A d \in Conns : d # c => pc'[d] = pc[d] /\ cur'[d] = cur[d]
        /\ pc[c] = "dispatch" /\ pc'[c] \in {"check", "store"} /\ cur'[c] = s
    BY <1>4 DEF RequestPort, Goto, history, TypeOK
  <2>2. ListedOK
    BY <1>1, <2>1
  <2>3. \A t \in Sessions : Listed(t)' => Listed(t) /\ t # s
    BY <2>1 DEF Listed, Requesting
  <2>4. \A t \in Sessions : active'[t] => HasStopper(t)'
    BY <2>1, <2>2 DEF ListedOK, HasStopper, InStop
  <2> QED BY <2>1, <2>2, <2>3, <2>4 DEF ListedOK
<1>5. ASSUME NEW c \in Conns, Requesting(c), DropRequest(c), NEW w, Goto(c, w)
      PROVE  ListedOK'
  <2> DEFINE s == cur[c]
  <2>1. /\ UNCHANGED <<overwritten, registry, released, active, frame, timers, ccSessions>>
        /\ \A t \in Sessions : t # s => sid'[t] = sid[t] /\ port'[t] = port[t]
        /\ port'[s] = None
        /\ \A d \in Conns : d # c => pc'[d] = pc[d] /\ cur'[d] = cur[d]
    BY <1>5 DEF DropRequest, Goto, Requesting, CurShape, history, TypeOK
  <2>2. ListedOK
    BY <1>1, <2>1
  <2>3. \A t \in Sessions : Listed(t)' => Listed(t) /\ t # s
    BY <2>1, <1>5 DEF Listed, Requesting
  <2>4. \A t \in Sessions : active'[t] => HasStopper(t)'
    BY <2>1, <2>2 DEF ListedOK, HasStopper, InStop
  <2> HIDE DEF s
  <2> QED BY <2>1, <2>2, <2>3, <2>4 DEF ListedOK
<1>6. ASSUME NEW c \in Conns, RequestError(c) \/ (CheckSID(c) /\ DropRequest(c)) PROVE ListedOK'
  <2>1. PICK w : Goto(c, w)
    BY <1>6 DEF RequestError, CheckSID, Answered
  <2> QED BY <1>5, <1>6, <2>1 DEF RequestError, CheckSID, Requesting
<1>7. ASSUME NEW c \in Conns, StoreSession(c) PROVE ListedOK'
  <2> DEFINE s == cur[c]
  <2>1. pc[c] = "store" /\ s \in Sessions /\ sid[s] \in SIDs
    BY <1>7 DEF StoreSession, CurShape, RequestOK, Requesting, SidOK
  <2>2. /\ ~overwritten /\ registry[sid[s]] = None
        /\ registry' = [registry EXCEPT ![sid[s]] = s]
        /\ UNCHANGED <<sid, port, released, active, frame, timers>>
        /\ \A d \in Conns : d # c => pc'[d] = pc[d] /\ cur'[d] = cur[d]
        /\ \A d \in Conns : \A t \in ccSessions[d] : sid[t] # sid[s] => t \in ccSessions'[d]
    BY <1>7 DEF StoreSession, RegisterSession, Answered, Goto, ownVars, TypeOK
  <2>3. ListedOK
    BY <1>1, <2>2
  <2>4. \A t \in Sessions : t # s /\ Listed(t)' => Listed(t)
    BY <2>2 DEF Listed, Requesting
  <2>5. \A t \in Sessions : Listed(t) => sid[t] # sid[s]
    BY <2>2, <2>3, ServerAssumption DEF ListedOK
  <2>6. \A t \in Sessions : t # s /\ Listed(t)' => registry'[sid[t]] = t
    BY <2>1, <2>2, <2>3, <2>4, <2>5 DEF ListedOK, TypeOK, SidOK, Listed
  <2>7. registry'[sid[s]] = s
    BY <2>1, <2>2 DEF TypeOK
  <2>8. ASSUME NEW t \in Sessions, active'[t] PROVE HasStopper(t)'
    <3>1. active[t] /\ HasStopper(t) /\ Listed(t)
      BY <1>1, <2>2, <2>3, <2>8, ActiveListed DEF ListedOK
    <3>2. \A d \in Conns : t \in ccSessions[d] => t \in ccSessions'[d]
      BY <2>2, <2>5, <3>1
    <3> QED BY <2>2, <3>1, <3>2 DEF HasStopper, InStop
  <2> HIDE DEF s
  <2> QED BY <2>2, <2>6, <2>7, <2>8 DEF ListedOK
<1>8. ASSUME NEW c \in Conns, StartActivate(c) PROVE ListedOK'
  <2>1. /\ UNCHANGED <<overwritten, registry, sid, port, released, frame, timers, ccSessions>>
        /\ \A t \in Sessions : active'[t] => active[t] \/ t = cur[c]
        /\ \A d \in Conns : Requesting(d) => Requesting(d)' /\ cur'[d] = cur[d]
    BY <1>8 DEF StartActivate, Goto, Requesting, ownVars, history, TypeOK
  <2>2. ListedOK
    BY <1>1, <2>1
  <2>3. cur[c] \in ccSessions[c]
    BY <1>8 DEF StartActivate, OwnOK
  <2>4. \A s \in Sessions : active'[s] => HasStopper(s)'
    BY <2>1, <2>2, <2>3 DEF ListedOK, HasStopper, InStop
  <2> QED BY <2>1, <2>2, <2>4, ListKept
<1>9. ASSUME NEW c \in Conns, StopSessions(c) \/ StopNSessions(c) PROVE ListedOK'
  <2>1. PICK S \in SUBSET ccSessions[c] : ScheduleStop(c, S) /\ pc[c] = "dispatch"
    BY <1>9 DEF StopSessions, StopNSessions
  <2>2. /\ UNCHANGED <<overwritten, registry, sid, port, released, active, frame>>
        /\ timers' = timers \cup S
        /\ \A d \in Conns : \A t \in ccSessions[d] : t \in ccSessions'[d] \/ t \in S
        /\ \A d \in Conns : Requesting(d) => Requesting(d)' /\ cur'[d] = cur[d]
    BY <2>1 DEF ScheduleStop, ForgetSessions, StartTimers, Goto, Requesting, ownVars, history,
       TypeOK
  <2>3. ListedOK
    BY <1>1, <2>2
  <2>4. \A s \in Sessions : active'[s] => HasStopper(s)'
    BY <2>2, <2>3 DEF ListedOK, HasStopper, InStop
  <2> QED BY <2>2, <2>3, <2>4, ListKept
<1>10. ASSUME NEW s \in Sessions, NEW f \in Callers, active[s], frame[f].sess \in {s, None}
       PROVE  frame[f].phase = "idle"
  BY <1>1, <1>10, ServerAssumption DEF Stages, FramesOK, FrameShape
<1>11. ASSUME NEW c \in Conns, NEW s \in Sessions, CleanupStop(c, s) PROVE ListedOK'
  <2>1. /\ BeginStop(Handler(c), s) /\ frame[Handler(c)].phase = "idle"
        /\ UNCHANGED <<overwritten, registry, sid, port, released, pc, cur, timers>>
        /\ \A d \in Conns : \A t \in ccSessions[d] : t # s => t \in ccSessions'[d]
    BY <1>11 DEF CleanupStop, Idle, NoFrame, ownVars, history, TypeOK
  <2>2. ListedOK
    BY <1>1, <2>1
  <2> HIDE DEF IInv, Shape
  <2> QED BY <1>1, <2>1, <2>2, ListedStop, CallerTypes
<1>12. ASSUME NEW s \in Sessions, TimerFires(s) PROVE ListedOK'
  <2>1. /\ BeginStop(Timer(s), s) /\ (active[s] => frame[Timer(s)].phase = "idle")
        /\ UNCHANGED <<overwritten, registry, sid, port, released, pc, cur, ccSessions>>
        /\ timers' = timers \ {s}
    BY <1>10, <1>12, CallerTypes DEF TimerFires, FrameOwnOK, connVars, ownVars, history
  <2>2. ListedOK
    BY <1>1, <2>1
  <2> HIDE DEF IInv, Shape
  <2> QED BY <1>1, <2>1, <2>2, ListedStop, CallerTypes
<1>13. ASSUME NEW s \in Sessions, StopNext(s) PROVE ListedOK'
  <2>1. /\ BeginStop(Stopper, s) /\ frame[Stopper].phase = "idle"
        /\ UNCHANGED <<overwritten, registry, sid, port, released, pc, cur, ccSessions, timers>>
    BY <1>13 DEF StopNext, ShutdownStep, Idle, NoFrame, connVars, ownVars, history
  <2>2. ListedOK
    BY <1>1, <2>1
  <2> HIDE DEF IInv, Shape
  <2> QED BY <1>1, <2>1, <2>2, ListedStop, CallerTypes
<1>14. ASSUME NEW s \in Sessions, NEW k \in Runs, ReflectorStopsSelf(s, k) PROVE ListedOK'
  <2>1. /\ BeginStop(Reflector(s, k), s) /\ (active[s] => frame[Reflector(s, k)].phase = "idle")
        /\ UNCHANGED <<overwritten, registry, sid, port, released, pc, cur, ccSessions, timers>>
    BY <1>10, <1>14, CallerTypes DEF ReflectorStopsSelf, FrameOwnOK, connVars, ownVars, history
  <2>2. ListedOK
    BY <1>1, <2>1
  <2> HIDE DEF IInv, Shape
  <2> QED BY <1>1, <2>1, <2>2, ListedStop, CallerTypes
<1>15. ASSUME NEW f \in Callers, CloseSession(f) PROVE ListedOK'
  <2>1. /\ UNCHANGED <<overwritten, registry, sid, port, released, active, pc, cur, ccSessions,
                       timers>>
        /\ frame[f].phase = "cas" /\ frame' = [frame EXCEPT ![f].phase = "closed"]
    BY <1>15 DEF CloseSession, connVars, ownVars, history
  <2>2. \A g \in Callers : /\ frame'[g].sess = frame[g].sess
                           /\ frame'[g].phase = IF g = f THEN "closed" ELSE frame[g].phase
    BY <2>1 DEF TypeOK, Frames
  <2>3. ListedOK
    BY <1>1, <2>1
  <2>4. \A s \in Sessions : Listed(s)' => Listed(s)
    BY <2>1, <2>2 DEF Listed, Requesting
  <2>5. \A s \in Sessions : active'[s] => HasStopper(s)'
    BY <2>1, <2>2, <2>3 DEF ListedOK, HasStopper, InStop
  <2> QED BY <2>1, <2>3, <2>4, <2>5 DEF ListedOK
<1>16. ASSUME NEW f \in Callers, Unregister(f) PROVE ListedOK'
  <2> DEFINE s == frame[f].sess
  <2>1. /\ UNCHANGED <<overwritten, sid, port, released, active, pc, cur, ccSessions, timers>>
        /\ frame[f].phase = "closed" /\ frame' = [frame EXCEPT ![f].phase = "unregistered"]
        /\ registry' = [registry EXCEPT ![sid[s]] = None]
    BY <1>16 DEF Unregister, connVars, ownVars, history
  <2>2. \A g \in Callers : /\ frame'[g].sess = frame[g].sess
                           /\ frame'[g].phase = IF g = f THEN "unregistered" ELSE frame[g].phase
    BY <2>1 DEF TypeOK, Frames
  <2>3. ListedOK
    BY <1>1, <2>1
  <2>4. s \in Sessions /\ Listed(s)
    <3>1. s \in Sessions /\ starts[s] # 0 /\ s \notin released
      BY <1>1, <2>1 DEF FrameShape, FreshOK, Stages, FramesOK
    <3>2. \A g \in Callers : frame[g].sess = s => frame[g].phase # "unregistered"
      BY <1>1, <2>1 DEF Stages, FramesOK
    <3> QED BY <3>1, <3>2 DEF Listed, UnusedOK, RequestOK
  <2>5. \A t \in Sessions : Listed(t)' => Listed(t) /\ t # s
    BY <2>1, <2>2 DEF Listed, Requesting
  <2>6. \A t \in Sessions : Listed(t) /\ t # s => sid[t] # sid[s]
    BY <2>3, <2>4 DEF ListedOK
  <2>7. \A t \in Sessions : active'[t] => HasStopper(t)'
    BY <2>1, <2>2, <2>3 DEF ListedOK, HasStopper, InStop
  <2> HIDE DEF s
  <2>8. \A t \in Sessions : Listed(t)' => registry'[sid'[t]] = t
    BY <2>1, <2>3, <2>5, <2>6 DEF ListedOK, TypeOK, SidOK, Listed
  <2> QED BY <2>7, <2>8 DEF ListedOK
<1>17. ASSUME NEW f \in Callers, ReleasePort(f) PROVE ListedOK'
  <2> DEFINE s == frame[f].sess
  <2>1. /\ UNCHANGED <<overwritten, registry, sid, port, active, pc, cur, ccSessions, timers>>
        /\ frame[f].phase = "unregistered" /\ frame' = [frame EXCEPT ![f] = NoFrame]
        /\ released' = released \cup {s}
    BY <1>17 DEF ReleasePort, connVars, ownVars, history
  <2>2. \A g \in Callers : g # f => frame'[g] = frame[g]
    BY <2>1, ReleaseEffect
  <2>3. ListedOK
    BY <1>1, <2>1
  <2>4. \A t \in Sessions : Listed(t)' => Listed(t)
    BY <2>1, <2>2 DEF Listed, Requesting
  <2>5. ASSUME NEW t \in Sessions, active'[t] PROVE HasStopper(t)'
    <3>1. active[t] /\ HasStopper(t) /\ t # s
      BY <1>1, <2>1, <2>3, <2>5 DEF ListedOK, Stages, FramesOK
    <3> QED BY <2>1, <2>2, <3>1 DEF HasStopper, InStop
  <2> QED BY <2>1, <2>3, <2>4, <2>5 DEF ListedOK
<1>18. ASSUME \/ \E s \in Sessions, k \in Runs : ReflectorStep(s, k)
              \/ AcceptFails \/ CancelContext \/ StopCalled \/ StopCopies \/ StopReturns
              \/ StopClosesConnections \/ Terminated
       PROVE  ListedOK'
  <2>1. UNCHANGED <<overwritten, registry, sid, port, released, active, frame, timers, ccSessions,
                    pc, cur>>
    BY <1>18 DEF AcceptFails, CancelContext, StopCalled, StopCopies, StopReturns,
       StopClosesConnections, Terminated, ReflectorStep, ReflectorRefresh, ReflectorLeaves,
       ReflectorExits, ShutdownStep, connVars, ownVars, history, vars
  <2> QED BY <1>2, <2>1 DEF Requesting
<1> HIDE DEF IInv, Shape
<1> QED BY <1>3, <1>4, <1>6, <1>7, <1>8, <1>9, <1>11, <1>12, <1>13, <1>14, <1>15, <1>16, <1>17,
           <1>18 DEF Next, HandlerStep, ServeCommand, PeerStep, StopSessionStep, StopStep
-----------------------------------------------------------------------------
(* The whole invariant.                                                    *)

(* The server before it has accepted anything.                             *)
LEMMA InitLInv == Init => LInv
<1> SUFFICES ASSUME Init PROVE LInv
  OBVIOUS
<1>1. IInv
  BY InitIInv
<1> USE DEF Init
<1>2. OwnOK /\ ConnOK /\ SidOK /\ QuietOK
  BY DEF OwnOK, ConnOK, SidOK, QuietOK
<1>3. ChanOK
  BY DEF ChanOK
<1>4. RunsOK
  BY DEF RunsOK, Runs
<1>5. \A f \in Callers : frame[f].sess = None
  BY DEF NoFrame
<1>6. FrameOwnOK
  BY <1>5, CallerTypes DEF FrameOwnOK
<1>7. ServedOK /\ ListedOK
  <2>1. 1 \in Runs
    BY ServerAssumption DEF Runs
  <2> QED BY <2>1 DEF ServedOK, ListedOK, Listed, BoundTo
<1> QED BY <1>1, <1>2, <1>3, <1>4, <1>6, <1>7 DEF LInv

(* LInv is inductive.                                                      *)
LEMMA LifeInvariant == Spec => []LInv
<1>1. LInv /\ Next => LInv'
  <2> SUFFICES ASSUME LInv, Next PROVE LInv'
    OBVIOUS
  <2>1. IInv' /\ Shape
    BY NextIInv DEF LInv, IInv
  <2>2. OwnOK' /\ ChanOK' /\ RunsOK' /\ ConnOK' /\ SidOK' /\ FrameOwnOK'
    BY <2>1, NextOwn, NextChan, NextRuns, NextConn, NextSid, NextFrameOwn DEF LInv
  <2>3. QuietOK'
    BY NextQuiet DEF LInv
  <2>4. NoRestart' => ServedOK'
    BY NextServed DEF LInv
  <2>5. NoRestart' /\ ~overwritten' => ListedOK'
    BY NextListed DEF LInv
  <2> QED BY <2>1, <2>2, <2>3, <2>4, <2>5 DEF LInv
<1>2. LInv /\ UNCHANGED vars => LInv'
  <2> SUFFICES ASSUME LInv, UNCHANGED vars PROVE LInv'
    OBVIOUS
  <2> USE DEF vars, stopVars, connVars, ownVars, chanVars, reflVars, history
  <2>1. IInv'
    BY DEF LInv, IInv, Shape, TypeOK, CurShape, FrameShape, RequestOK, UnusedOK, FreshOK,
       Requesting, Unowned, NoRestart, Stages, ActiveOK, FramesOK, BoundOK, SocketOK, PortsOK,
       Holding
  <2>2. OwnOK' /\ ChanOK' /\ RunsOK' /\ ConnOK' /\ SidOK' /\ FrameOwnOK' /\ QuietOK'
    BY DEF LInv, OwnOK, ChanOK, RunsOK, ConnOK, SidOK, FrameOwnOK, QuietOK, BoundTo
  <2>3. (NoRestart' => ServedOK') /\ (NoRestart' /\ ~overwritten' => ListedOK')
    BY DEF LInv, NoRestart, ServedOK, Ready, BoundTo, ListedOK, Listed, Requesting, HasStopper,
       InStop
  <2> QED BY <2>1, <2>2, <2>3 DEF LInv
<1> QED BY <1>1, <1>2, InitLInv, PTL DEF Spec

-----------------------------------------------------------------------------
(* The theorems.                                                           *)

(* Server.Stop finds every active session in Server.sessions, whatever     *)
(* requests, restarts of other connections and stops went before, unless a *)
(* session was started twice or an Individual request replaced a SID.      *)
THEOREM ActiveSessionsRegistered == Spec => []ActiveRegistered
<1>1. LInv => ActiveRegistered
  <2> SUFFICES ASSUME LInv, NoRestart, ~overwritten, NEW s \in Sessions, active[s]
               PROVE  registry[sid[s]] = s
    BY DEF ActiveRegistered
  <2>1. Listed(s)
    BY ActiveListed DEF LInv, IInv
  <2> QED BY <2>1 DEF LInv, ListedOK
<1> QED BY <1>1, LifeInvariant, PTL

(* No active session is forgotten: a connection that still lists it, a     *)
(* timer or a stopSession in progress will end it.                         *)
THEOREM ActiveSessionsStoppable == Spec => []ActiveHasStopper
<1>1. LInv => ActiveHasStopper
  BY DEF LInv, ActiveHasStopper, ListedOK
<1> QED BY <1>1, LifeInvariant, PTL

(* The reflector of an active session runs on the socket and the stop      *)
(* channel that stopSession would close.                                   *)
THEOREM ActiveSessionsServed == Spec => []ActiveIsServed
<1>1. LInv => ActiveIsServed
  BY DEF LInv, ActiveIsServed, ServedOK, Ready
<1> QED BY <1>1, LifeInvariant, PTL

(* Whatever the order of stops and restarts, the channel that stopSession  *)
(* is about to close has not been closed.                                  *)
THEOREM StopChannelsClosedOnce == Spec => []StopChanClosedOnce
<1>1. LInv => StopChanClosedOnce
  <2> SUFFICES ASSUME LInv, NEW s \in Sessions PROVE <<s, chan[s]>> \notin closedChans
    BY DEF StopChanClosedOnce
  <2>1. <<s, chan[s]>> \in closedChans => chan[s] \in Runs
    BY DEF LInv, IInv, Shape, TypeOK
  <2> QED BY <2>1 DEF LInv, ChanOK
<1> QED BY <1>1, LifeInvariant, PTL

(* A session that waits for its timer is in no connection's hands.         *)
THEOREM GracePeriodKept == Spec => []GraceKept
<1>1. LInv => GraceKept
  BY DEF LInv, OwnOK, GraceKept
<1> QED BY <1>1, LifeInvariant, PTL

(* Server.Stop returns only when nothing is left running, even when        *)
(* sessions were started twice.                                            *)
THEOREM NothingRunsAfterStop == Spec => []StoppedIsQuiet
<1>1. LInv => StoppedIsQuiet
  <2> SUFFICES ASSUME LInv, srv = "stopped"
               PROVE  (\A s \in Sessions : ~active[s]) /\ open = {} /\ connections = {}
    BY DEF StoppedIsQuiet
  <2>1. ASSUME NEW c \in connections PROVE FALSE
    BY DEF LInv, IInv, Shape, TypeOK, ConnOK, QuietOK
  <2> QED BY <2>1 DEF LInv, QuietOK
<1> QED BY <1>1, LifeInvariant, PTL
-----------------------------------------------------------------------------
(* The server implements SessionLife.                                      *)

(* The initial states are initial states of the abstract specification.    *)
LEMMA LifeInit == Init => Life!Init
BY DEF Init, Life!Init, Stage, NoRestart

(* Whether a stopSession is under way for a session: a frame that is not   *)
(* idle is about one.                                                      *)
LEMMA InStopFrames ==
    ASSUME Shape, NEW s \in Sessions
    PROVE  InStop(s) <=> \E f \in Callers : frame[f].phase # "idle" /\ frame[f].sess = s
<1>1. NoFrame.sess = None
  BY DEF NoFrame
<1> QED BY <1>1, ServerAssumption DEF Shape, FrameShape, InStop

(* A step that changes neither ports nor sockets nor the stage of any      *)
(* session is a stuttering step.                                           *)
LEMMA LifeStutter ==
    ASSUME NoRestart, NoRestart', UNCHANGED <<port, usedPorts, open>>,
           \A s \in Sessions : Stage(s)' = Stage(s)
    PROVE  UNCHANGED Life!vars
BY DEF Life!vars

(* The compare-and-swap of stopSession ends the session, for everyone.     *)
LEMMA LifeEnds ==
    ASSUME LInv, NoRestart, NoRestart', NEW f \in Callers, NEW s \in Sessions, BeginStop(f, s),
           active[s] => frame[f].phase = "idle",
           UNCHANGED <<port, usedPorts, open, starts, released>>
    PROVE  Life!Next \/ UNCHANGED Life!vars
<1> USE DEF LInv, IInv
<1>1. CASE ~active[s]
  <2>1. UNCHANGED frame
    BY <1>1 DEF BeginStop
  <2>2. \A t \in Sessions : Stage(t)' = Stage(t)
    BY <2>1 DEF Stage, InStop
  <2> QED BY <2>2, LifeStutter
<1>2. CASE active[s]
  <2>1. /\ \A g \in Callers : g # f => frame'[g] = frame[g]
        /\ frame'[f].sess = s
    BY <1>2, StopEffect
  <2>2. ~InStop(s) /\ frame[f].sess = None
    <3>1. NoFrame.sess = None
      BY DEF NoFrame
    <3>2. frame[f].sess = None
      BY <1>2, <3>1 DEF Shape, FrameShape
    <3>3. ~InStop(s)
      <4>1. Shape /\ FramesOK
        BY DEF Stages
      <4>2. \A g \in Callers : ~(frame[g].phase # "idle" /\ frame[g].sess = s)
        BY <1>2, <4>1 DEF FramesOK
      <4> HIDE DEF LInv, IInv
      <4> QED BY <4>1, <4>2, InStopFrames
    <3> QED BY <3>2, <3>3
  <2>3. \A t \in Sessions : InStop(t)' <=> InStop(t) \/ t = s
    BY <2>1, <2>2, ServerAssumption DEF InStop
  <2>4. Stage(s) = "live"
    BY <1>2, <2>2 DEF Stage, UnusedOK, FreshOK, Stages, ActiveOK
  <2>5. \A t \in Sessions : Stage(t)' = IF t = s THEN "ending" ELSE Stage(t)
    BY <2>3, <2>4 DEF Stage
  <2>6. Life!End(s)
    BY <2>4, <2>5 DEF Life!End, Life!Moves
  <2> QED BY <2>6 DEF Life!Next
<1> QED BY <1>1, <1>2

(* A socket that stopSession or a reflector closes belongs to a session    *)
(* that is being stopped.                                                  *)
LEMMA LifeClosesSocket ==
    ASSUME LInv, NoRestart, NoRestart', NEW s \in Sessions,
           <<s, conn[s]>> \in open => InStop(s),
           open' = open \ {<<s, conn[s]>>},
           UNCHANGED <<port, usedPorts, starts, released>>,
           \A t \in Sessions : InStop(t)' <=> InStop(t)
    PROVE  Life!Next \/ UNCHANGED Life!vars
<1> USE DEF LInv, IInv
<1>1. \A t \in Sessions : Stage(t)' = Stage(t)
  BY DEF Stage
<1>2. CASE <<s, conn[s]>> \notin open
  BY <1>1, <1>2, LifeStutter
<1>3. CASE <<s, conn[s]>> \in open
  <2>1. \A r \in open : r = <<r[1], conn[r[1]]>>
    BY DEF Stages, SocketOK, Shape, TypeOK
  <2>2. {r[1] : r \in open'} = {r[1] : r \in open} \ {s}
    BY <2>1
  <2>3. Stage(s) = "ending"
    <3>1. starts[s] # 0 /\ s \notin released
      BY <1>3 DEF FreshOK, Stages, SocketOK
    <3> QED BY <1>3, <3>1 DEF Stage, UnusedOK
  <2>4. s \in {r[1] : r \in open}
    BY <1>3
  <2>5. Life!CloseSocket(s)
    BY <1>1, <2>2, <2>3, <2>4 DEF Life!CloseSocket
  <2> QED BY <2>5 DEF Life!Next
<1> QED BY <1>2, <1>3

(* A refused request withdraws its reservation.                            *)
LEMMA LifeWithdraws ==
    ASSUME LInv, NoRestart, NoRestart', NEW c \in Conns, Requesting(c), DropRequest(c)
    PROVE  Life!Next
<1> USE DEF LInv, IInv
<1> DEFINE s == cur[c]
<1>1. s \in Sessions /\ port[s] # None /\ starts[s] = 0 /\ s \notin released
  BY DEF Requesting, Shape, CurShape, RequestOK, FreshOK
<1>2. /\ usedPorts' = usedPorts \ {port[s]} /\ port' = [port EXCEPT ![s] = None]
      /\ UNCHANGED <<open, starts, released, frame>>
  BY DEF DropRequest, FreePort, history
<1> HIDE DEF s
<1>3. \A t \in Sessions : port'[t] = IF t = s THEN None ELSE port[t]
  BY <1>2 DEF Shape, TypeOK
<1>4. Stage(s) = "reserved"
  BY <1>1 DEF Stage
<1>5. \A t \in Sessions : Stage(t)' = IF t = s THEN "free" ELSE Stage(t)
  BY <1>1, <1>2, <1>3 DEF Stage, InStop
<1>6. port[s] \in usedPorts
  BY <1>1 DEF Stages, PortsOK, Holding
<1>7. Life!Withdraw(s)
  BY <1>1, <1>2, <1>4, <1>5, <1>6 DEF Life!Withdraw, Life!Moves
<1> QED BY <1>1, <1>7 DEF Life!Next

(* Every step is a step of SessionLife or changes nothing it can see.      *)
LEMMA LifeStep == LInv /\ Next => Life!Next \/ UNCHANGED Life!vars
<1> SUFFICES ASSUME LInv, Next PROVE Life!Next \/ UNCHANGED Life!vars
  OBVIOUS
<1>1. CASE ~NoRestart'
  BY <1>1 DEF Life!Next, Life!StartAgain
<1>2. SUFFICES ASSUME NoRestart' PROVE Life!Next \/ UNCHANGED Life!vars
  BY <1>1
<1>3. NoRestart /\ Stages /\ ServedOK /\ Shape
  <2>1. Shape
    BY DEF LInv, IInv
  <2>2. NoRestart
    BY <1>2, <2>1, RestartStays
  <2> QED BY <2>1, <2>2 DEF LInv, IInv
<1>4. ASSUME UNCHANGED <<port, usedPorts, open, starts, released, frame>>
      PROVE  UNCHANGED Life!vars
  <2>1. \A s \in Sessions : Stage(s)' = Stage(s)
    BY <1>4 DEF Stage, InStop
  <2> QED BY <1>2, <1>3, <1>4, <2>1, LifeStutter
<1>5. ASSUME NEW c \in Conns, NEW s \in Sessions, NEW x \in SIDs, NEW p \in Ports,
             NEW i \in BOOLEAN, RequestPort(c, s, x, p, i)
      PROVE  Life!Next
  <2>1. /\ port[s] = None /\ p \notin usedPorts /\ p # None
        /\ usedPorts' = usedPorts \cup {p} /\ port' = [port EXCEPT ![s] = p]
        /\ UNCHANGED <<open, starts, released, frame>>
    BY <1>5, ServerAssumption DEF RequestPort, history
  <2>2. \A t \in Sessions : port'[t] = IF t = s THEN p ELSE port[t]
    BY <1>3, <2>1 DEF Shape, TypeOK
  <2>3. starts[s] = 0 /\ s \notin released
    BY <2>1 DEF LInv, IInv, UnusedOK, FreshOK
  <2>4. Stage(s) = "free"
    BY <2>1 DEF Stage
  <2>5. \A t \in Sessions : Stage(t)' = IF t = s THEN "reserved" ELSE Stage(t)
    BY <2>1, <2>2, <2>3 DEF Stage, InStop
  <2>6. Life!Reserve(s, p)
    BY <1>2, <1>3, <2>1, <2>4, <2>5 DEF Life!Reserve, Life!Moves
  <2> QED BY <2>6 DEF Life!Next
<1>6. ASSUME NEW c \in Conns, RequestError(c) \/ (CheckSID(c) /\ DropRequest(c)) PROVE Life!Next
  BY <1>2, <1>3, <1>6, LifeWithdraws DEF RequestError, CheckSID, Requesting
<1>7. ASSUME NEW c \in Conns, NEW s \in Sessions, StartBind(c, s) PROVE Life!Next
  <2>1. /\ \A t \in Sessions : starts'[t] = IF t = s THEN starts[s] + 1 ELSE starts[t]
        /\ open' = open \cup {<<s, starts[s] + 1>>}
        /\ UNCHANGED <<port, usedPorts, released, frame>>
        /\ s \in todo[c]
    BY <1>3, <1>7 DEF StartBind, Shape, TypeOK, ownVars, history
  <2>2. starts[s] = 0
    <3>1. starts'[s] <= 1 /\ starts[s] \in Nat
      BY <1>2, <1>3, ServerAssumption DEF NoRestart, Shape, TypeOK
    <3> QED BY <2>1, <3>1
  <2>3. port[s] # None /\ s \notin released /\ (\A r \in open : r[1] # s) /\ ~InStop(s)
    BY <1>3, <2>1, <2>2, InStopFrames DEF LInv, IInv, UnusedOK, Unowned, FreshOK
  <2>4. Stage(s) = "reserved"
    BY <2>2, <2>3 DEF Stage
  <2>5. \A t \in Sessions : Stage(t)' = IF t = s THEN "live" ELSE Stage(t)
    BY <2>1, <2>2, <2>3 DEF Stage, InStop
  <2>6. {r[1] : r \in open'} = {r[1] : r \in open} \cup {s}
    <3> DEFINE n == <<s, starts[s] + 1>>
    <3>1. open' = open \cup {n} /\ n[1] = s
      BY <2>1
    <3> HIDE DEF n
    <3> QED BY <3>1
  <2>7. s \notin {r[1] : r \in open}
    BY <2>3
  <2>8. Life!Begin(s)
    BY <1>2, <1>3, <2>1, <2>4, <2>5, <2>6, <2>7 DEF Life!Begin, Life!Moves
  <2> QED BY <2>8 DEF Life!Next
<1>8. ASSUME NEW s \in Sessions, NEW f \in Callers, active[s], frame[f].sess \in {s, None}
      PROVE  frame[f].phase = "idle"
  BY <1>3, <1>8, ServerAssumption DEF Stages, FramesOK, Shape, FrameShape
<1>9. ASSUME NEW c \in Conns, NEW s \in Sessions, CleanupStop(c, s)
      PROVE  Life!Next \/ UNCHANGED Life!vars
  <2>1. /\ BeginStop(Handler(c), s) /\ frame[Handler(c)].phase = "idle"
        /\ UNCHANGED <<port, usedPorts, open, starts, released>>
    BY <1>9 DEF CleanupStop, Idle, NoFrame, ownVars, history
  <2> QED BY <1>2, <1>3, <2>1, LifeEnds, CallerTypes
<1>10. ASSUME NEW s \in Sessions, TimerFires(s) PROVE Life!Next \/ UNCHANGED Life!vars
  <2>1. /\ BeginStop(Timer(s), s) /\ (active[s] => frame[Timer(s)].phase = "idle")
        /\ UNCHANGED <<port, usedPorts, open, starts, released>>
    BY <1>8, <1>10, CallerTypes DEF TimerFires, LInv, FrameOwnOK, ownVars, history
  <2> QED BY <1>2, <1>3, <2>1, LifeEnds, CallerTypes
<1>11. ASSUME NEW s \in Sessions, StopNext(s) PROVE Life!Next \/ UNCHANGED Life!vars
  <2>1. /\ BeginStop(Stopper, s) /\ frame[Stopper].phase = "idle"
        /\ UNCHANGED <<port, usedPorts, open, starts, released>>
    BY <1>11 DEF StopNext, ShutdownStep, Idle, NoFrame, ownVars, history
  <2> QED BY <1>2, <1>3, <2>1, LifeEnds, CallerTypes
<1>12. ASSUME NEW s \in Sessions, NEW k \in Runs, ReflectorStopsSelf(s, k)
       PROVE  Life!Next \/ UNCHANGED Life!vars
  <2>1. /\ BeginStop(Reflector(s, k), s) /\ (active[s] => frame[Reflector(s, k)].phase = "idle")
        /\ UNCHANGED <<port, usedPorts, open, starts, released>>
    BY <1>8, <1>12, CallerTypes DEF ReflectorStopsSelf, LInv, FrameOwnOK, ownVars, history
  <2> QED BY <1>2, <1>3, <2>1, LifeEnds, CallerTypes
<1>13. ASSUME NEW f \in Callers, CloseSession(f) PROVE Life!Next \/ UNCHANGED Life!vars
  <2> DEFINE s == frame[f].sess
  <2>1. /\ s \in Sessions /\ InStop(s)
        /\ open' = open \ {<<s, conn[s]>>}
        /\ UNCHANGED <<port, usedPorts, starts, released>>
    BY <1>3, <1>13 DEF CloseSession, CloseSocket, Shape, FrameShape, InStop, ownVars, history
  <2>2. \A t \in Sessions : InStop(t)' <=> InStop(t)
    <3>1. frame' = [frame EXCEPT ![f].phase = "closed"]
      BY <1>13 DEF CloseSession
    <3>2. \A g \in Callers : frame'[g].sess = frame[g].sess
      BY <1>3, <3>1 DEF Shape, TypeOK, Frames
    <3> QED BY <3>2 DEF InStop
  <2> HIDE DEF s
  <2> QED BY <1>2, <1>3, <2>1, <2>2, LifeClosesSocket
<1>14. ASSUME NEW f \in Callers, Unregister(f) PROVE UNCHANGED Life!vars
  <2>1. /\ UNCHANGED <<port, usedPorts, open, starts, released>>
        /\ frame' = [frame EXCEPT ![f].phase = "unregistered"]
    BY <1>14 DEF Unregister, ownVars, history
  <2>2. \A g \in Callers : frame'[g].sess = frame[g].sess
    BY <1>3, <2>1 DEF Shape, TypeOK, Frames
  <2>3. \A s \in Sessions : Stage(s)' = Stage(s)
    BY <2>1, <2>2 DEF Stage, InStop
  <2> QED BY <1>2, <1>3, <2>1, <2>3, LifeStutter
<1>15. ASSUME NEW f \in Callers, ReleasePort(f) PROVE Life!Next
  <2> DEFINE s == frame[f].sess
  <2>1. /\ frame[f].phase = "unregistered" /\ frame' = [frame EXCEPT ![f] = NoFrame]
        /\ usedPorts' = usedPorts \ {port[s]} /\ released' = released \cup {s}
        /\ UNCHANGED <<port, open, starts>>
    BY <1>15 DEF ReleasePort, FreePort, ownVars
  <2>2. /\ s \in Sessions /\ starts[s] # 0 /\ s \notin released /\ <<s, 1>> \notin open
        /\ \A g \in Callers : frame[g].phase # "idle" /\ frame[g].sess = s => g = f
        /\ InStop(s)
    BY <1>3, <2>1 DEF Shape, FrameShape, LInv, IInv, FreshOK, Stages, FramesOK, InStop
  <2>3. port[s] # None /\ port[s] \in usedPorts
    BY <1>3, <2>2 DEF LInv, IInv, UnusedOK, Stages, PortsOK, Holding
  <2>4. s \notin {r[1] : r \in open}
    <3>1. \A r \in open : r = <<r[1], 1>>
      BY <1>3 DEF Stages, SocketOK, Shape, TypeOK
    <3> QED BY <2>2, <3>1
  <2>5. Stage(s) = "ending"
    BY <2>2, <2>3 DEF Stage
  <2>6. \A g \in Callers : IF g = f THEN frame'[g].sess = None ELSE frame'[g] = frame[g]
    BY <1>3, <2>1, ReleaseEffect
  <2>7. \A t \in Sessions : t # s => (InStop(t)' <=> InStop(t))
    BY <2>6, ServerAssumption DEF InStop
  <2> HIDE DEF s
  <2>8. \A t \in Sessions : Stage(t)' = IF t = s THEN "released" ELSE Stage(t)
    BY <2>1, <2>3, <2>7 DEF Stage
  <2>9. Life!Release(s)
    BY <1>2, <1>3, <2>1, <2>2, <2>3, <2>4, <2>5, <2>8 DEF Life!Release, Life!Moves
  <2> QED BY <2>2, <2>9 DEF Life!Next
<1>16. ASSUME NEW s \in Sessions, NEW k \in Runs, ReflectorExits(s, k)
       PROVE  Life!Next \/ UNCHANGED Life!vars
  <2>1. /\ open' = open \ {<<s, conn[s]>>} /\ refl[<<s, k>>] = "exit"
        /\ UNCHANGED <<port, usedPorts, starts, released, frame>>
    BY <1>16 DEF ReflectorExits, CloseSocket, ownVars, history
  <2>2. k = 1 /\ refl[<<s, 1>>] # "none"
    BY <1>3, <2>1, FirstRun DEF LInv
  <2>3. ~active[s] /\ \A c \in Conns : ~BoundTo(c, s)
    BY <1>3, <2>1, <2>2, FirstRun DEF LInv, ServedOK
  <2>4. <<s, conn[s]>> \in open => InStop(s)
    BY <1>3, <2>3 DEF ServedOK, InStop
  <2>5. \A t \in Sessions : InStop(t)' <=> InStop(t)
    BY <2>1 DEF InStop
  <2> QED BY <1>2, <1>3, <2>1, <2>4, <2>5, LifeClosesSocket
<1>17. ASSUME NEW c \in Conns,
              \/ Register(c) \/ PeerSetup(c) \/ SetupCut(c) \/ ReadFails(c) \/ ReadCommand(c)
              \/ RejectCommand(c) \/ Disconnect(c) \/ Accept(c)
              \/ (CheckSID(c) /\ ~DropRequest(c)) \/ StoreSession(c) \/ StartActivate(c)
              \/ StartSessions(c) \/ StartAck(c) \/ StopSessions(c) \/ StopNSessions(c)
              \/ \E s \in Sessions : StartSkip(c, s) \/ StartFails(c, s)
       PROVE  UNCHANGED <<port, usedPorts, open, starts, released, frame>>
  BY <1>17 DEF Register, PeerSetup, SetupCut, ReadFails, ReadCommand, RejectCommand, Disconnect,
     Accept, CheckSID, StoreSession, StartActivate, StartSessions, StartAck, StopSessions,
     StopNSessions, ScheduleStop, StartSkip, StartFails, HandlerMoves, ownVars, history
<1>18. ASSUME \/ \E s \in Sessions, k \in Runs : ReflectorRefresh(s, k) \/ ReflectorLeaves(s, k)
              \/ AcceptFails \/ CancelContext \/ StopCalled \/ StopCopies \/ StopReturns
              \/ StopClosesConnections \/ Terminated
       PROVE  UNCHANGED <<port, usedPorts, open, starts, released, frame>>
  BY <1>18 DEF AcceptFails, CancelContext, StopCalled, StopCopies, StopReturns,
     StopClosesConnections, Terminated, ReflectorRefresh, ReflectorLeaves, ShutdownStep, ownVars,
     history, vars
<1> QED BY <1>4, <1>5, <1>6, <1>7, <1>9, <1>10, <1>11, <1>12, <1>13, <1>14, <1>15, <1>16, <1>17,
           <1>18 DEF Next, HandlerStep, ServeCommand, PeerStep, ReflectorStep, StopSessionStep,
           StopStep

(* The handlers, reflectors, timers and Server.Stop implement SessionLife. *)
THEOREM ServerImplementsSessionLife == Spec => ImplementsSessionLife
<1>1. UNCHANGED vars => UNCHANGED Life!vars
  BY DEF vars, ownVars, history, Life!vars, Stage, InStop, NoRestart
<1>2. LInv /\ [Next]_vars => [Life!Next]_(Life!vars)
  BY <1>1, LifeStep
<1> QED BY <1>2, LifeInit, LifeInvariant, PTL DEF Spec, ImplementsSessionLife, Life!Spec
====
