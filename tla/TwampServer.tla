----------------------------- MODULE TwampServer -----------------------------
(***************************************************************************)
(* The TWAMP server (src/server/server.go): the accept loop, one handler   *)
(* goroutine per control connection, one reflector goroutine per started   *)
(* session, the post-Stop timers, Server.Stop, and the state they share.   *)
(*                                                                         *)
(* A step is what one goroutine does between two points where another can  *)
(* see or change what it uses: a mutex section, an atomic operation, a     *)
(* socket or channel operation.  stopSession, which any of four kinds of   *)
(* goroutine may run, is a frame of its caller that advances in four       *)
(* steps.  Left out: message contents and security (a request is valid or  *)
(* refused), packets, the order in which ports are tried, metrics, and     *)
(* time (a deadline may expire whenever it is running).                    *)
(*                                                                         *)
(* An operator whose name ends in _Faulty is the definition after it with  *)
(* one plausible mistake.  No specification uses it: it is there to see    *)
(* that a property notices the mistake (PROJECT.json, "mutants").          *)
(***************************************************************************)
EXTENDS Naturals, FiniteSets

CONSTANTS
    Conns,      \* control connections that clients may open
    Sessions,   \* session objects the server may create (bounds requests)
    SIDs,       \* session identifiers
    Ports,      \* the configured UDP port range
    MaxStarts,  \* bound: activations of one session object
    None        \* nil

ASSUME ServerAssumption ==
    /\ MaxStarts \in Nat \ {0}
    /\ None \notin Conns \cup Sessions \cup SIDs \cup Ports

Runs == 1 .. MaxStarts

(* The goroutines that may be inside stopSession. *)
Handler(c)      == <<"handler", c>>
Reflector(s, k) == <<"reflector", s, k>>
Timer(s)        == <<"timer", s>>
Stopper         == <<"stop">>

Callers ==
    {Handler(c) : c \in Conns} \cup {Timer(s) : s \in Sessions}
        \cup {Reflector(s, k) : s \in Sessions, k \in Runs} \cup {Stopper}

VARIABLES
    quit,         \* ctx is done or Server.stopChan is closed
    acceptor,     \* where acceptConnections is
    srv,          \* where Server.Stop is
    stopList,     \* Stop's copy of Server.sessions, what is left of it
    connections,  \* Server.connections
    registry,     \* Server.sessions: SID -> session
    usedPorts,    \* portManager.usedPorts
    pc,           \* where the handler of a connection is
    cut,          \* TCP connections that Stop closed under their handler
    ccSessions,   \* controlConnection.sessions; during cleanup, what is left to stop
    todo,         \* handleStartSessions: sessions still to start
    cur,          \* the session a handler is creating or starting
    sid, port,    \* TestSession.sid, reflectorPort (None: object not in use)
    active,       \* TestSession.isActive
    starts,       \* how often startSession got a socket for a session
    conn,         \* TestSession.conn: the run whose socket it is, 0 for nil
    chan,         \* TestSession.stopChan: the run that made it, 0 for nil
    closedChans,  \* closed stop channels
    open,         \* open UDP sockets, <<session, run>>
    refl,         \* where the reflector of a run is
    view,         \* the conn and stopChan a reflector copied under session.mu
    timers,       \* sessions with a pending time.AfterFunc
    frame,        \* the stopSession call of each caller
    crashed,      \* the process died of a panic
    released,     \* history: sessions whose port stopSession has given back
    overwritten   \* history: an entry of registry was overwritten

stopVars == <<srv, stopList>>
history  == <<released, overwritten>>
connVars == <<connections, pc, cut, ccSessions, todo, cur>>
ownVars  == <<sid, port>>
chanVars == <<chan, closedChans>>
reflVars == <<refl, view>>
vars == <<quit, acceptor, stopVars, connVars, registry, usedPorts, ownVars,
          active, starts, conn, chanVars, open, reflVars, timers, frame,
          crashed, history>>

NoFrame == [sess |-> None, phase |-> "idle"]
Idle(f) == frame[f] = NoFrame

ConnPc  == {"none", "accepted", "setup", "read", "dispatch", "check",
            "store", "starting", "bound", "cleanup", "closed"}
ReflPc  == {"none", "loop", "exit", "done"}
StopPc  == {"running", "copy", "stopping", "waiting", "stopped"}
Phases  == {"idle", "cas", "closed", "unregistered"}
Frames  == [sess : Sessions \cup {None}, phase : Phases]

(* Every variable has the type its Go declaration gives it. *)
TypeOK ==
    /\ quit \in BOOLEAN /\ crashed \in BOOLEAN /\ overwritten \in BOOLEAN
    /\ acceptor \in {"accept", "done"}
    /\ srv \in StopPc /\ stopList \subseteq Sessions
    /\ connections \subseteq Conns /\ cut \subseteq Conns
    /\ registry \in [SIDs -> Sessions \cup {None}]
    /\ usedPorts \subseteq Ports
    /\ pc \in [Conns -> ConnPc]
    /\ ccSessions \in [Conns -> SUBSET Sessions]
    /\ todo \in [Conns -> SUBSET Sessions]
    /\ cur \in [Conns -> Sessions \cup {None}]
    /\ sid \in [Sessions -> SIDs \cup {None}]
    /\ port \in [Sessions -> Ports \cup {None}]
    /\ active \in [Sessions -> BOOLEAN]
    /\ starts \in [Sessions -> 0 .. MaxStarts]
    /\ conn \in [Sessions -> 0 .. MaxStarts]
    /\ chan \in [Sessions -> 0 .. MaxStarts]
    /\ closedChans \subseteq Sessions \X Runs
    /\ open \subseteq Sessions \X Runs
    /\ refl \in [Sessions \X Runs -> ReflPc]
    /\ view \in [Sessions \X Runs -> (0 .. MaxStarts) \X (0 .. MaxStarts)]
    /\ timers \subseteq Sessions /\ released \subseteq Sessions
    /\ frame \in [Callers -> Frames]

Init ==
    /\ quit = FALSE /\ crashed = FALSE /\ overwritten = FALSE
    /\ acceptor = "accept" /\ srv = "running" /\ stopList = {}
    /\ connections = {} /\ cut = {} /\ usedPorts = {} /\ timers = {} /\ released = {}
    /\ registry = [x \in SIDs |-> None]
    /\ pc = [c \in Conns |-> "none"]
    /\ ccSessions = [c \in Conns |-> {}]
    /\ todo = [c \in Conns |-> {}]
    /\ cur = [c \in Conns |-> None]
    /\ sid = [s \in Sessions |-> None]
    /\ port = [s \in Sessions |-> None]
    /\ active = [s \in Sessions |-> FALSE]
    /\ starts = [s \in Sessions |-> 0]
    /\ conn = [s \in Sessions |-> 0]
    /\ chan = [s \in Sessions |-> 0]
    /\ closedChans = {} /\ open = {}
    /\ refl = [r \in Sessions \X Runs |-> "none"]
    /\ view = [r \in Sessions \X Runs |-> <<0, 0>>]
    /\ frame = [f \in Callers |-> NoFrame]

(* The OS refuses a second socket on a port (SO_REUSEADDR is not set). *)
Unbound(p) == \A r \in open : port[r[1]] # p

-----------------------------------------------------------------------------
(* stopSession, run by any caller.  The compare-and-swap elects one caller *)
(* per activation; the others return at once.                              *)

BeginStop(f, s) ==
    \/ /\ active[s]
       /\ active' = [active EXCEPT ![s] = FALSE]
       /\ frame' = [frame EXCEPT ![f] = [sess |-> s, phase |-> "cas"]]
    \/ /\ ~active[s]
       /\ UNCHANGED <<active, frame>>

TakeStopChan_Faulty(s) == UNCHANGED chan
TakeStopChan(s) == chan' = [chan EXCEPT ![s] = 0]

CloseSocket_Faulty(s) == UNCHANGED open
CloseSocket(s) == open' = open \ {<<s, conn[s]>>}

(* portManager.releasePort.                                                *)
FreePort_Faulty(p) == UNCHANGED usedPorts
FreePort(p) == usedPorts' = usedPorts \ {p}

(* Take stopChan (leaving nil) and conn under session.mu; close both.      *)
CloseSession(f) ==
    LET s == frame[f].sess IN
    /\ ~crashed /\ frame[f].phase = "cas"
    /\ frame' = [frame EXCEPT ![f].phase = "closed"]
    /\ TakeStopChan(s)
    /\ crashed' = (<<s, chan[s]>> \in closedChans)
    /\ closedChans' = closedChans \cup ({<<s, chan[s]>>} \cap (Sessions \X Runs))
    /\ CloseSocket(s)
    /\ UNCHANGED <<quit, acceptor, stopVars, connVars, registry, usedPorts, ownVars,
                   active, starts, conn, reflVars, timers, history>>

(* delete(s.sessions, session.sid): by SID, whoever is stored under it.    *)
Unregister(f) ==
    LET s == frame[f].sess IN
    /\ ~crashed /\ frame[f].phase = "closed"
    /\ frame' = [frame EXCEPT ![f].phase = "unregistered"]
    /\ registry' = [registry EXCEPT ![sid[s]] = None]
    /\ UNCHANGED <<quit, acceptor, stopVars, connVars, usedPorts, ownVars, active,
                   starts, conn, chanVars, open, reflVars, timers, crashed, history>>

ReleasePort(f) ==
    LET s == frame[f].sess IN
    /\ ~crashed /\ frame[f].phase = "unregistered"
    /\ frame' = [frame EXCEPT ![f] = NoFrame]
    /\ FreePort(port[s])
    /\ released' = released \cup {s}
    /\ UNCHANGED <<quit, acceptor, stopVars, connVars, registry, ownVars, active, starts,
                   conn, chanVars, open, reflVars, timers, crashed, overwritten>>

StopSessionStep(f) == CloseSession(f) \/ Unregister(f) \/ ReleasePort(f)

-----------------------------------------------------------------------------
(* acceptConnections and the life of a connection up to its command loop.  *)

(* The select at the head of the loop, once more after each Accept.        *)
AcceptorGoes_Faulty == acceptor' = "accept"
AcceptorGoes == acceptor' = IF quit THEN "done" ELSE "accept"

(* Accept ends with its deadline or an error; as long as there is no       *)
(* shutdown to see, the loop just goes round.                              *)
AcceptFails ==
    /\ ~crashed /\ acceptor = "accept" /\ quit
    /\ AcceptorGoes
    /\ UNCHANGED <<quit, stopVars, connVars, registry, usedPorts, ownVars, active, starts,
                   conn, chanVars, open, reflVars, timers, frame, crashed, history>>

(* Accept returns while the listener is open: until Stop closes it, right  *)
(* after stopChan.                                                         *)
Accept(c) ==
    /\ ~crashed /\ acceptor = "accept" /\ srv = "running"
    /\ pc[c] = "none"
    /\ AcceptorGoes
    /\ pc' = [pc EXCEPT ![c] = "accepted"]
    /\ UNCHANGED <<quit, stopVars, connections, cut, ccSessions, todo, cur, registry,
                   usedPorts, ownVars, active, starts, conn, chanVars, open, reflVars,
                   timers, frame, crashed, history>>

(* What every step of a handler that only moves its pc leaves alone.       *)
HandlerMoves ==
    UNCHANGED <<quit, acceptor, stopVars, cut, registry, usedPorts, ownVars, active, starts,
                conn, chanVars, open, reflVars, timers, frame, crashed, history>>

Goto(c, where) == pc' = [pc EXCEPT ![c] = where]

(* The head of the command loop: shutdown, or the next read.               *)
LoopHead == IF quit THEN "cleanup" ELSE "read"

(* The command was served; if its answer cannot be sent the connection is  *)
(* closed.                                                                 *)
Answered(c) == Goto(c, LoopHead) \/ Goto(c, "cleanup")

(* handleConnection enters itself in Server.connections and greets.        *)
Register(c) ==
    /\ ~crashed /\ pc[c] = "accepted"
    /\ connections' = connections \cup {c}
    /\ Goto(c, "setup")
    /\ UNCHANGED <<ccSessions, todo, cur>> /\ HandlerMoves

(* handleClientSetup reads the Set-Up-Response without a deadline: it ends *)
(* when the peer answers, when the peer hangs up, ...                      *)
PeerSetup(c) ==
    /\ ~crashed /\ pc[c] = "setup" /\ c \notin cut
    /\ Answered(c)
    /\ UNCHANGED <<connections, ccSessions, todo, cur>> /\ HandlerMoves

(* ... or when Stop has closed the connection.                             *)
SetupCut(c) ==
    /\ ~crashed /\ pc[c] = "setup" /\ c \in cut
    /\ Goto(c, "cleanup")
    /\ UNCHANGED <<connections, ccSessions, todo, cur>> /\ HandlerMoves

(* readCommand gave up: SERVWAIT expired, the peer hung up or sent what    *)
(* does not verify, or Stop closed the connection.                         *)
ReadFails(c) ==
    /\ ~crashed /\ pc[c] = "read"
    /\ Goto(c, "cleanup")
    /\ UNCHANGED <<connections, ccSessions, todo, cur>> /\ HandlerMoves

(* A command arrived; shutdown is checked once more before it is served.   *)
ReadCommand(c) ==
    /\ ~crashed /\ pc[c] = "read" /\ c \notin cut
    /\ Goto(c, IF quit THEN "cleanup" ELSE "dispatch")
    /\ UNCHANGED <<connections, ccSessions, todo, cur>> /\ HandlerMoves

(* An unknown or malformed command ends the connection; a refused request  *)
(* and a request for which no port is free are answered.                   *)
RejectCommand(c) ==
    /\ ~crashed /\ pc[c] = "dispatch"
    /\ Answered(c)
    /\ UNCHANGED <<connections, ccSessions, todo, cur>> /\ HandlerMoves

-----------------------------------------------------------------------------
(* handleRequestTWSession and handleRequestTWSessionIndividual.            *)

(* allocatePort picks a port that is unused and can be bound, and marks it *)
(* used.  The SID is the server's random choice (taken to be new) or, for  *)
(* Request-TW-Session-Individual, the client's.                            *)
RequestPort(c, s, x, p, individual) ==
    /\ ~crashed /\ pc[c] = "dispatch"
    /\ port[s] = None
    /\ individual \/ \A t \in Sessions : sid[t] # x
    /\ p \notin usedPorts /\ Unbound(p)
    /\ usedPorts' = usedPorts \cup {p}
    /\ port' = [port EXCEPT ![s] = p]
    /\ sid' = [sid EXCEPT ![s] = x]
    /\ cur' = [cur EXCEPT ![c] = s]
    /\ Goto(c, IF individual THEN "check" ELSE "store")
    /\ UNCHANGED <<quit, acceptor, stopVars, connections, cut, ccSessions, todo, registry,
                   active, starts, conn, chanVars, open, reflVars, timers, frame, crashed,
                   history>>

(* Give the port back and forget the session object.                       *)
DropRequest(c) ==
    LET s == cur[c] IN
    /\ FreePort(port[s])
    /\ port' = [port EXCEPT ![s] = None]
    /\ sid' = [sid EXCEPT ![s] = None]
    /\ cur' = [cur EXCEPT ![c] = None]
    /\ UNCHANGED <<quit, acceptor, stopVars, connections, cut, ccSessions, todo, registry,
                   active, starts, conn, chanVars, open, reflVars, timers, frame, crashed,
                   history>>

(* The client's SID is looked up under the read lock, which is given up    *)
(* before the session is stored.                                           *)
CheckSID(c) ==
    /\ ~crashed /\ pc[c] = "check"
    /\ \/ /\ registry[sid[cur[c]]] # None
          /\ DropRequest(c)
          /\ Answered(c)
       \/ /\ registry[sid[cur[c]]] = None
          /\ Goto(c, "store")
          /\ UNCHANGED <<connections, ccSessions, todo, cur>> /\ HandlerMoves

(* The SID or the session keys cannot be made: the connection is closed.   *)
RequestError(c) ==
    /\ ~crashed /\ pc[c] = "store"
    /\ DropRequest(c)
    /\ Goto(c, "cleanup")

RegisterSession_Faulty(s) == UNCHANGED registry
RegisterSession(s) == registry' = [registry EXCEPT ![sid[s]] = s]

(* The session enters both maps, replacing what its SID held in either,    *)
(* and is accepted.                                                        *)
StoreSession(c) ==
    LET s == cur[c] IN
    /\ ~crashed /\ pc[c] = "store"
    /\ RegisterSession(s)
    /\ overwritten' = (overwritten \/ registry[sid[s]] # None)
    /\ ccSessions' = [ccSessions EXCEPT
                        ![c] = {t \in @ : sid[t] # sid[s]} \cup {s}]
    /\ chan' = [chan EXCEPT ![s] = 1]
    /\ cur' = [cur EXCEPT ![c] = None]
    /\ Answered(c)
    /\ UNCHANGED <<quit, acceptor, stopVars, connections, cut, todo, usedPorts, ownVars,
                   active, starts, conn, closedChans, open, reflVars, timers, frame, crashed,
                   released>>

-----------------------------------------------------------------------------
(* handleStartSessions and startSession.                                   *)

StartSessions(c) ==
    /\ ~crashed /\ pc[c] = "dispatch"
    /\ todo' = [todo EXCEPT ![c] = ccSessions[c]]
    /\ Goto(c, "starting")
    /\ UNCHANGED <<connections, ccSessions, cur>> /\ HandlerMoves

(* isActive.Load: an active session is left alone.                         *)
StartSkip(c, s) ==
    /\ ~crashed /\ pc[c] = "starting" /\ s \in todo[c]
    /\ active[s]
    /\ todo' = [todo EXCEPT ![c] = @ \ {s}]
    /\ UNCHANGED <<connections, pc, ccSessions, cur>> /\ HandlerMoves

(* ListenUDP failed: Start-Ack with a failure, the rest is not started.    *)
StartFails(c, s) ==
    /\ ~crashed /\ pc[c] = "starting" /\ s \in todo[c]
    /\ ~active[s]
    /\ todo' = [todo EXCEPT ![c] = {}]
    /\ Answered(c)
    /\ UNCHANGED <<connections, ccSessions, cur>> /\ HandlerMoves

(* ListenUDP succeeded; conn, and stopChan if it is nil, are set under     *)
(* session.mu.                                                             *)
StartBind(c, s) ==
    /\ ~crashed /\ pc[c] = "starting" /\ s \in todo[c]
    /\ ~active[s] /\ starts[s] < MaxStarts /\ Unbound(port[s])
    /\ todo' = [todo EXCEPT ![c] = @ \ {s}]
    /\ cur' = [cur EXCEPT ![c] = s]
    /\ Goto(c, "bound")
    /\ open' = open \cup {<<s, starts[s] + 1>>}
    /\ conn' = [conn EXCEPT ![s] = starts[s] + 1]
    /\ chan' = [chan EXCEPT ![s] = IF @ = 0 THEN starts[s] + 1 ELSE @]
    /\ starts' = [starts EXCEPT ![s] = @ + 1]
    /\ UNCHANGED <<quit, acceptor, stopVars, connections, cut, ccSessions, registry,
                   usedPorts, ownVars, active, closedChans, reflVars, timers, frame,
                   crashed, history>>

(* isActive.Store(true) and the reflector goroutine.                       *)
StartActivate(c) ==
    LET s == cur[c]
        r == <<s, starts[s]>>
    IN
    /\ ~crashed /\ pc[c] = "bound"
    /\ active' = [active EXCEPT ![s] = TRUE]
    /\ refl' = [refl EXCEPT ![r] = "loop"]
    /\ view' = [view EXCEPT ![r] = <<conn[s], chan[s]>>]
    /\ cur' = [cur EXCEPT ![c] = None]
    /\ Goto(c, "starting")
    /\ UNCHANGED <<quit, acceptor, stopVars, connections, cut, ccSessions, todo, registry,
                   usedPorts, ownVars, starts, conn, chanVars, open, timers, frame, crashed,
                   history>>

StartAck(c) ==
    /\ ~crashed /\ pc[c] = "starting" /\ todo[c] = {}
    /\ Answered(c)
    /\ UNCHANGED <<connections, ccSessions, todo, cur>> /\ HandlerMoves

-----------------------------------------------------------------------------
(* handleStopSessions and handleStopNSessions: the sessions leave the      *)
(* connection at once and are stopped by a timer after their timeout.      *)

ForgetSessions_Faulty(c, S) == UNCHANGED ccSessions
ForgetSessions(c, S) == ccSessions' = [ccSessions EXCEPT ![c] = @ \ S]

StartTimers_Faulty(S) == UNCHANGED timers
StartTimers(S) == timers' = timers \cup S

ScheduleStop(c, S) ==
    /\ ForgetSessions(c, S)
    /\ StartTimers(S)
    /\ Goto(c, LoopHead)
    /\ UNCHANGED <<quit, acceptor, stopVars, connections, cut, todo, cur, registry,
                   usedPorts, ownVars, active, starts, conn, chanVars, open, reflVars, frame,
                   crashed, history>>

(* NumSessions equals len(cc.sessions); otherwise the connection is closed *)
(* (RejectCommand).                                                        *)
StopSessions(c) ==
    /\ ~crashed /\ pc[c] = "dispatch"
    /\ ScheduleStop(c, ccSessions[c])

(* Any subset of the listed SIDs may be unknown here; those are skipped.   *)
StopNSessions(c) ==
    /\ ~crashed /\ pc[c] = "dispatch"
    /\ \E S \in SUBSET ccSessions[c] : ScheduleStop(c, S)

TimerFires(s) ==
    /\ ~crashed /\ s \in timers
    /\ timers' = timers \ {s}
    /\ BeginStop(Timer(s), s)
    /\ UNCHANGED <<quit, acceptor, stopVars, connVars, registry, usedPorts, ownVars, starts,
                   conn, chanVars, open, reflVars, crashed, history>>

-----------------------------------------------------------------------------
(* handleConnection's deferred cleanup: stop each session left, wait for   *)
(* the reflectors (at most a second each, so the wait always ends), leave  *)
(* Server.connections and close.                                           *)

CleanupStop(c, s) ==
    /\ ~crashed /\ pc[c] = "cleanup" /\ Idle(Handler(c))
    /\ s \in ccSessions[c]
    /\ ccSessions' = [ccSessions EXCEPT ![c] = @ \ {s}]
    /\ BeginStop(Handler(c), s)
    /\ UNCHANGED <<quit, acceptor, stopVars, connections, pc, cut, todo, cur, registry,
                   usedPorts, ownVars, starts, conn, chanVars, open, reflVars, timers,
                   crashed, history>>

(* The wait for reflectorDone without its one-second timeout.              *)
Disconnect_Faulty(c) ==
    /\ ~crashed /\ pc[c] = "cleanup" /\ Idle(Handler(c))
    /\ ccSessions[c] = {}
    /\ \A s \in Sessions : port[s] # None => \E k \in Runs : refl[<<s, k>>] = "done"
    /\ connections' = connections \ {c}
    /\ Goto(c, "closed")
    /\ UNCHANGED <<ccSessions, todo, cur>> /\ HandlerMoves

Disconnect(c) ==
    /\ ~crashed /\ pc[c] = "cleanup" /\ Idle(Handler(c))
    /\ ccSessions[c] = {}
    /\ connections' = connections \ {c}
    /\ Goto(c, "closed")
    /\ UNCHANGED <<ccSessions, todo, cur>> /\ HandlerMoves

-----------------------------------------------------------------------------
(* reflectPackets.  In "loop" the reflector holds the conn and stopChan it *)
(* copied at the head of an iteration; an iteration that finds nothing     *)
(* changed is a stuttering step.                                           *)

(* A new iteration finds the session active (again) with another conn or   *)
(* stopChan.                                                               *)
ReflectorRefresh(s, k) ==
    /\ ~crashed /\ refl[<<s, k>>] = "loop"
    /\ active[s] /\ conn[s] # 0 /\ view[<<s, k>>] # <<conn[s], chan[s]>>
    /\ view' = [view EXCEPT ![<<s, k>>] = <<conn[s], chan[s]>>]
    /\ UNCHANGED <<quit, acceptor, stopVars, connVars, registry, usedPorts, ownVars, active,
                   starts, conn, chanVars, open, refl, timers, frame, crashed, history>>

(* isActive is false, conn is nil, or the copied stopChan is closed.  The  *)
(* fault: a read that times out ends the loop as well.                     *)
MustLeave_Faulty(s, k) == TRUE
MustLeave(s, k) == ~active[s] \/ conn[s] = 0 \/ <<s, view[<<s, k>>][2]>> \in closedChans

ReflectorLeaves(s, k) ==
    /\ ~crashed /\ refl[<<s, k>>] = "loop"
    /\ MustLeave(s, k)
    /\ refl' = [refl EXCEPT ![<<s, k>>] = "exit"]
    /\ UNCHANGED <<quit, acceptor, stopVars, connVars, registry, usedPorts, ownVars, active,
                   starts, conn, chanVars, open, view, timers, frame, crashed, history>>

(* A read on the open socket ends with REFWAIT expired, or with one HMAC   *)
(* failure too many: the reflector stops its own session and returns.      *)
ReflectorStopsSelf(s, k) ==
    /\ ~crashed /\ refl[<<s, k>>] = "loop"
    /\ <<s, view[<<s, k>>][1]>> \in open
    /\ refl' = [refl EXCEPT ![<<s, k>>] = "exit"]
    /\ BeginStop(Reflector(s, k), s)
    /\ UNCHANGED <<quit, acceptor, stopVars, connVars, registry, usedPorts, ownVars, starts,
                   conn, chanVars, open, view, timers, crashed, history>>

(* The deferred calls: take session.conn (leaving nil) and close it, then  *)
(* close reflectorDone.  Closing reflectorDone twice panics.               *)
ReflectorExits(s, k) ==
    /\ ~crashed /\ refl[<<s, k>>] = "exit" /\ Idle(Reflector(s, k))
    /\ conn' = [conn EXCEPT ![s] = 0]
    /\ CloseSocket(s)
    /\ refl' = [refl EXCEPT ![<<s, k>>] = "done"]
    /\ crashed' = (\E j \in Runs : refl[<<s, j>>] = "done")
    /\ UNCHANGED <<quit, acceptor, stopVars, connVars, registry, usedPorts, ownVars, active,
                   starts, chanVars, view, timers, frame, history>>

-----------------------------------------------------------------------------
(* Shutdown: the context, and Server.Stop.                                 *)

ShutdownStep ==
    UNCHANGED <<acceptor, registry, usedPorts, ownVars, starts, conn, chanVars, open,
                reflVars, timers, crashed, history>>

CancelContext ==
    /\ ~crashed /\ ~quit
    /\ quit' = TRUE
    /\ UNCHANGED <<stopVars, connVars, active, frame>> /\ ShutdownStep

(* close(s.stopChan), listener.Close().                                    *)
StopCalled ==
    /\ ~crashed /\ srv = "running"
    /\ srv' = "copy"
    /\ quit' = TRUE
    /\ UNCHANGED <<stopList, connVars, active, frame>> /\ ShutdownStep

SessionList_Faulty == {registry[x] : x \in SIDs}
SessionList == {registry[x] : x \in SIDs} \ {None}

StopCopies ==
    /\ ~crashed /\ srv = "copy"
    /\ srv' = "stopping"
    /\ stopList' = SessionList
    /\ UNCHANGED <<quit, connVars, active, frame>> /\ ShutdownStep

StopNext(s) ==
    /\ ~crashed /\ srv = "stopping" /\ Idle(Stopper)
    /\ s \in stopList
    /\ stopList' = stopList \ {s}
    /\ BeginStop(Stopper, s)
    /\ UNCHANGED <<quit, srv, connVars>> /\ ShutdownStep

StopClosesConnections ==
    /\ ~crashed /\ srv = "stopping" /\ Idle(Stopper) /\ stopList = {}
    /\ srv' = "waiting"
    /\ cut' = connections
    /\ UNCHANGED <<quit, stopList, connections, pc, ccSessions, todo, cur, active, frame>>
    /\ ShutdownStep

(* The goroutines counted by Server.wg have all returned; the faulty one   *)
(* does not count reflectors.                                              *)
GoroutinesDone_Faulty ==
    /\ acceptor = "done"
    /\ \A c \in Conns : pc[c] \in {"none", "closed"}

GoroutinesDone ==
    /\ acceptor = "done"
    /\ \A c \in Conns : pc[c] \in {"none", "closed"}
    /\ \A r \in Sessions \X Runs : refl[r] \in {"none", "done"}

StopReturns ==
    /\ ~crashed /\ srv = "waiting" /\ GoroutinesDone
    /\ srv' = "stopped"
    /\ UNCHANGED <<quit, stopList, connVars, active, frame>> /\ ShutdownStep

-----------------------------------------------------------------------------

ServeCommand(c) ==
    \/ RejectCommand(c) \/ CheckSID(c) \/ RequestError(c) \/ StoreSession(c)
    \/ \E s \in Sessions, x \in SIDs, p \in Ports, individual \in BOOLEAN :
            RequestPort(c, s, x, p, individual)
    \/ StartSessions(c) \/ StartActivate(c) \/ StartAck(c)
    \/ \E s \in Sessions : StartSkip(c, s) \/ StartFails(c, s) \/ StartBind(c, s)
    \/ StopSessions(c) \/ StopNSessions(c)

HandlerStep(c) ==
    \/ Register(c) \/ SetupCut(c) \/ ReadFails(c) \/ ServeCommand(c)
    \/ \E s \in Sessions : CleanupStop(c, s)
    \/ Disconnect(c)

ReflectorStep(s, k) ==
    ReflectorRefresh(s, k) \/ ReflectorLeaves(s, k) \/ ReflectorExits(s, k)

StopStep ==
    StopCopies \/ (\E s \in Sessions : StopNext(s)) \/ StopClosesConnections \/ StopReturns

(* What clients may do.                                                    *)
PeerStep(c) == Accept(c) \/ PeerSetup(c) \/ ReadCommand(c)

(* The process is gone, or Stop has returned and no timer is left.         *)
Terminated ==
    /\ crashed \/ (srv = "stopped" /\ timers = {} /\ \A f \in Callers : Idle(f))
    /\ UNCHANGED vars

Next ==
    \/ AcceptFails
    \/ \E c \in Conns : HandlerStep(c) \/ PeerStep(c)
    \/ \E s \in Sessions, k \in Runs : ReflectorStep(s, k) \/ ReflectorStopsSelf(s, k)
    \/ \E s \in Sessions : TimerFires(s)
    \/ \E f \in Callers : StopSessionStep(f)
    \/ CancelContext \/ StopCalled \/ StopStep \/ Terminated

Spec == Init /\ [][Next]_vars

(* The scheduler runs every goroutine that can run, and deadlines and      *)
(* timers expire.  Nothing is assumed of clients, of test traffic (which   *)
(* decides about ReflectorStopsSelf) or of the caller of Stop.             *)
Fairness ==
    /\ WF_vars(AcceptFails)
    /\ \A c \in Conns : WF_vars(HandlerStep(c))
    /\ \A s \in Sessions, k \in Runs : WF_vars(ReflectorStep(s, k))
    /\ \A s \in Sessions : WF_vars(TimerFires(s))
    /\ \A f \in Callers : WF_vars(StopSessionStep(f))
    /\ WF_vars(StopStep)

FairSpec == Spec /\ Fairness

-----------------------------------------------------------------------------
(* Properties.  A session that stopped by itself stays in cc.sessions, and *)
(* a later Start-Sessions activates it again on a port it no longer holds. *)
(* What follows that is not protected by anything; the properties below    *)
(* that speak of ports and registration say what holds until then.         *)

NoRestart == \A s \in Sessions : starts[s] <= 1

(* s has been given a port and not yet returned it.                        *)
Holding(s) == port[s] # None /\ s \notin released

InStop(s) == \E f \in Callers : frame[f].sess = s

(* A goroutine is going to stop s, or may be told to: its connection's     *)
(* handler, a pending timer, or a stopSession in progress.                 *)
HasStopper(s) == s \in timers \/ (\E c \in Conns : s \in ccSessions[c]) \/ InStop(s)

(* portManager.usedPorts holds exactly the ports of the sessions that were *)
(* given one and did not return it, and no port was given out twice: no    *)
(* path of a request, a refusal or the four concurrent ways to stop a      *)
(* session loses, doubles or frees a port of another.                      *)
PortsAccounted ==
    NoRestart =>
        /\ usedPorts = {port[s] : s \in {t \in Sessions : Holding(t)}}
        /\ \A s, t \in Sessions :
             Holding(s) /\ Holding(t) /\ port[s] = port[t] => s = t

(* stopSession closes the socket before it gives the port back, so a UDP   *)
(* socket of the server is never open on a port that another session can   *)
(* be given.                                                               *)
SocketsReserved ==
    NoRestart => \A r \in open : port[r[1]] \in usedPorts /\ Holding(r[1])

(* Server.Stop finds every active session in Server.sessions, unless two   *)
(* concurrent Individual requests stored the same SID.                     *)
ActiveRegistered ==
    NoRestart /\ ~overwritten =>
        \A s \in Sessions : active[s] => registry[sid[s]] = s

(* No active session is forgotten: when its connection has gone or has     *)
(* dropped it, a timer is pending that stops it.                           *)
ActiveHasStopper ==
    NoRestart /\ ~overwritten => \A s \in Sessions : active[s] => HasStopper(s)

(* An active session is being served: its reflector has not returned and   *)
(* has the socket stopSession would close.                                 *)
ActiveIsServed ==
    NoRestart =>
        \A s \in Sessions : active[s] =>
            /\ refl[<<s, 1>>] \in {"loop", "exit"}
            /\ <<s, conn[s]>> \in open /\ chan[s] # 0

(* stopSession never closes a stop channel twice, even when a session is   *)
(* started again while an earlier stopSession is still running.            *)
StopChanClosedOnce == \A s \in Sessions : <<s, chan[s]>> \notin closedChans

(* After Stop-Sessions or Stop-N-Sessions only the session's own timer,    *)
(* its reflector or Server.Stop ends it: the connection that asked may     *)
(* close without cutting the grace period short.                           *)
GraceKept ==
    \A s \in timers : \A c \in Conns : s \notin ccSessions[c] /\ s \notin todo[c]

(* When Server.Stop has returned nothing is left running: no session is    *)
(* active, no UDP socket is open, no connection is registered.             *)
StoppedIsQuiet ==
    srv = "stopped" =>
        /\ \A s \in Sessions : ~active[s]
        /\ open = {} /\ connections = {}

(* How far a session is, as SessionLife has it.                            *)
Stage(s) ==
    IF port[s] = None THEN "free"
    ELSE IF s \in released THEN "released"
    ELSE IF starts[s] = 0 THEN "reserved"
    ELSE IF InStop(s) THEN "ending" ELSE "live"

Life == INSTANCE SessionLife WITH
            stage   <- [s \in Sessions |-> Stage(s)],
            used    <- usedPorts,
            sockets <- {r[1] : r \in open},
            again   <- ~NoRestart

(* The handlers, reflectors, timers and Server.Stop together implement     *)
(* SessionLife: whichever of them ends a session, and in whatever order    *)
(* their steps come, the session goes through its stages one after the     *)
(* other, its socket is closed before its port is free, and each port is   *)
(* reserved and freed exactly when the session that has it says so.        *)
ImplementsSessionLife == Life!Spec

(* A SID that is stored in Server.sessions is not given to a second        *)
(* session: what the check before an Individual request is stored is for.  *)
SIDCheckHolds ==
    [][\A x \in SIDs : registry[x] # None => registry'[x] \in {registry[x], None}]_vars

(* The cleanup of a connection leaves no port reserved that nobody will    *)
(* release: whoever holds a port can still be stopped by someone.          *)
PortsReclaimed ==
    \A s \in Sessions :
        Holding(s) => HasStopper(s) \/ \E c \in Conns : cur[c] = s

(* No reachable command sequence makes the server panic.                   *)
NoPanic == ~crashed

(* A session that Stop-Sessions found active gives its port back once its  *)
(* timeout has passed.                                                     *)
StoppedSessionReleased ==
    \A s \in Sessions :
        (s \in timers /\ active[s]) ~> (port[s] \notin usedPorts \/ crashed)

(* The cleanup of a connection comes to its end: it is closed and removed. *)
CleanupEnds == \A c \in Conns : (pc[c] = "cleanup") ~> (pc[c] = "closed" \/ crashed)

(* A handler is in the read of the Set-Up-Response, which has no deadline, *)
(* on a connection that Stop did not close: it was entered in connections  *)
(* only after that.                                                        *)
LateSetup == srv = "waiting" /\ \E c \in Conns : pc[c] = "setup" /\ c \notin cut

(* Server.Stop returns, because every goroutine it waits for ends, with    *)
(* one exception: it waits as long as a client that connected while Stop   *)
(* was called does not answer the greeting.                                *)
StopWaitsOnlyForSetup == (srv = "copy") ~> (srv = "stopped" \/ crashed \/ []LateSetup)
====
