------------------------------- MODULE Control -------------------------------
(***************************************************************************)
(* One TWAMP-Control connection: the client (src/client/client.go) and the *)
(* server's handler of it (src/server/server.go), over TCP.  They agree on *)
(* a mode, and from then on each keeps its own list of sessions: the       *)
(* server closes the connection if a Stop-Sessions does not have exactly   *)
(* the number of sessions on its list.                                     *)
(*                                                                         *)
(* A mode is the set of its bits.  A message of a secure connection is     *)
(* accepted if both sides have the same keys; the first reply of the       *)
(* server also covers Server-Start with its HMAC.  The methods of the      *)
(* client hold its mutex, so one of them runs at a time.  Left out: what a *)
(* request asks for (it may be refused), ports and addresses; and two      *)
(* errors that cannot happen: NewTestSession fails only on keys of a wrong *)
(* length, and Stop of a test session only on closing its socket twice,    *)
(* which Stop has taken out of the session.                                *)
(*                                                                         *)
(* An operator whose name ends in _Faulty is the definition after it with  *)
(* one plausible mistake, to see that a property notices it.               *)
(***************************************************************************)
EXTENDS Naturals, Sequences, FiniteSets

CONSTANTS
    SIDs,        \* session identifiers
    Extensions,  \* mode bits other than security and mixed security
    MaxQueue,    \* bound: commands on their way to the server
    None         \* no SID: the server is to choose one

ASSUME ControlAssumption == None \notin SIDs /\ IsFiniteSet(SIDs) /\ MaxQueue \in Nat

Security == {"unauthenticated", "authenticated", "encrypted"}
Bits     == Security \cup {"mixed"} \cup Extensions

VARIABLES
    preferred,   \* ClientConfig.PreferredMode
    supported,   \* ServerConfig.SupportedModes
    secret,      \* the client's shared secret: none, the server's, or another
    keyKnown,    \* SecretMap has the client's KeyID
    cl,          \* where the client is
    clMode,      \* Client.mode, controlMode and testMode
    clPending,   \* Client.serverStartHMACPending
    current,     \* SIDs in Client.currentSessions
    running,     \* SIDs of test sessions of the client that are active
    sv,          \* where the handler is
    svMode,      \* controlConnection.mode, controlMode and testMode
    svPending,   \* controlConnection.serverStartHMACPending
    ccSessions,  \* SIDs in controlConnection.sessions
    sessions,    \* SIDs in Server.sessions
    toServer, toClient,
    strayed      \* history: StopSession has dropped a session on the client only

config == <<preferred, supported, secret, keyKnown>>
clVars == <<cl, clMode, clPending, current, running, strayed>>
svVars == <<sv, svMode, svPending, ccSessions, sessions>>
net    == <<toServer, toClient>>
vars   == <<config, clVars, svVars, net>>

NoMode == [mode |-> {}, control |-> {}, test |-> {}]
Modes  == [mode : SUBSET Bits, control : SUBSET Bits, test : SUBSET Bits]

(* The messages.                                                           *)
Greeting(M)    == [type |-> "greeting", mode |-> M]
SetupResponse(M) == [type |-> "setup", mode |-> M]
ServerStart    == [type |-> "serverStart"]
RequestTW(x)   == [type |-> "request", sid |-> x]
StartCmd       == [type |-> "start"]
StopCmd(n)     == [type |-> "stop", n |-> n]
StopNCmd(S)    == [type |-> "stopN", sids |-> S]
AcceptSession(ok, x, p) == [type |-> "accept", ok |-> ok, sid |-> x, prefixed |-> p]
StartAck(ok, p) == [type |-> "ack", ok |-> ok, prefixed |-> p]

ToServer ==
    {SetupResponse(M) : M \in SUBSET Bits} \cup {StartCmd}
        \cup {RequestTW(x) : x \in SIDs \cup {None}}
        \cup {StopCmd(n) : n \in 0 .. Cardinality(SIDs)} \cup {StopNCmd(S) : S \in SUBSET SIDs}
ToClient ==
    {Greeting(M) : M \in SUBSET Bits} \cup {ServerStart}
        \cup {AcceptSession(ok, x, p) : ok \in BOOLEAN, x \in SIDs \cup {None}, p \in BOOLEAN}
        \cup {StartAck(ok, p) : ok \in BOOLEAN, p \in BOOLEAN}

TypeOK ==
    /\ preferred \subseteq Bits /\ supported \subseteq Bits
    /\ secret \in {"none", "same", "other"} /\ keyKnown \in BOOLEAN
    /\ cl \in {"connect", "setup", "idle", "request", "start", "closed"}
    /\ sv \in {"greet", "setup", "loop", "closed"}
    /\ clMode \in Modes /\ svMode \in Modes
    /\ clPending \in BOOLEAN /\ svPending \in BOOLEAN /\ strayed \in BOOLEAN
    /\ current \subseteq SIDs /\ running \subseteq SIDs
    /\ ccSessions \subseteq SIDs /\ sessions \subseteq SIDs
    /\ Len(toServer) <= MaxQueue + 1 /\ \A i \in DOMAIN toServer : toServer[i] \in ToServer
    /\ Len(toClient) <= 1 /\ \A i \in DOMAIN toClient : toClient[i] \in ToClient

(* Any configuration; the client has dialled.                              *)
Init ==
    /\ preferred \in SUBSET Bits /\ supported \in SUBSET Bits
    /\ secret \in {"none", "same", "other"} /\ keyKnown \in BOOLEAN
    /\ cl = "connect" /\ sv = "greet"
    /\ clMode = NoMode /\ svMode = NoMode /\ clPending = FALSE /\ svPending = FALSE
    /\ current = {} /\ running = {} /\ strayed = FALSE
    /\ ccSessions = {} /\ sessions = {}
    /\ toServer = <<>> /\ toClient = <<>>

-----------------------------------------------------------------------------
(* Modes (src/common/types.go).                                            *)

ValidateModeMask(M)      == M \cap Security # {}
ValidateRequestedMode(M) == Cardinality(M \cap Security) = 1

(* ResolveMixedModes fails for mixed security over an unauthenticated      *)
(* control connection.                                                     *)
Resolvable(M) ==
    ValidateRequestedMode(M) /\ ~({"mixed", "unauthenticated"} \subseteq M)

Resolved(M) ==
    IF "mixed" \in M
    THEN [mode |-> M, control |-> M \ {"mixed"},
          test |-> (M \ (Security \cup {"mixed"})) \cup {"unauthenticated"}]
    ELSE [mode |-> M, control |-> M, test |-> M]

(* controlRequiresAuthentication, on a mode that was validated.            *)
Secure(modes) == modes.control \cap {"authenticated", "encrypted"} # {}

(* The bases both sides have, strongest first in negotiateMode.  The       *)
(* faulty one starts from the weakest.                                     *)
BaseSecurity_Faulty(common) ==
    CASE "unauthenticated" \in common -> "unauthenticated"
      [] "authenticated" \in common -> "authenticated"
      [] OTHER -> "encrypted"

BaseSecurity(common) ==
    CASE "encrypted" \in common -> "encrypted"
      [] "encrypted" \notin common /\ "authenticated" \in common -> "authenticated"
      [] OTHER -> "unauthenticated"

-----------------------------------------------------------------------------
(* The set-up of the connection.                                           *)

Send(m)  == toServer' = IF sv = "closed" THEN toServer ELSE Append(toServer, m)

(* A message to the client; the faulty one is written twice.               *)
Reply_Faulty(m) == toClient' = toClient \o <<m, m>>
Reply(m) == toClient' = Append(toClient, m)

(* The handler's deferred cleanup: the sessions left are stopped, which    *)
(* does nothing to one that is not active, and what it has not read is     *)
(* lost.                                                                   *)
Hangup ==
    /\ sv' = "closed"
    /\ \E S \in SUBSET ccSessions : sessions' = sessions \ S
    /\ ccSessions' = {}
    /\ toServer' = <<>>
    /\ UNCHANGED <<svMode, svPending, toClient>>

SendServerGreeting ==
    /\ sv = "greet"
    /\ sv' = "setup"
    /\ Reply(Greeting(supported))
    /\ UNCHANGED <<config, clVars, svMode, svPending, ccSessions, sessions, toServer>>

(* Connect closes the connection and returns an error.                     *)
ConnectFails ==
    /\ cl' = "closed"
    /\ UNCHANGED <<clMode, clPending, current, running, strayed, toServer>>

(* receiveServerGreeting and the first half of negotiateMode.              *)
NegotiateMode ==
    LET offered == Head(toClient).mode
        common  == preferred \cap offered \cap Security
        base    == BaseSecurity(common)
    IN
    /\ cl = "connect" /\ toClient # <<>>
    /\ toClient' = Tail(toClient)
    /\ \/ /\ offered = {} \/ ~ValidateModeMask(preferred) \/ common = {}
             \/ (base # "unauthenticated" /\ secret = "none")
          /\ ConnectFails
       \/ /\ offered # {} /\ ValidateModeMask(preferred) /\ common # {}
          /\ base = "unauthenticated" \/ secret # "none"
          /\ cl' = "setup"
          /\ Send(SetupResponse({base} \cup ((preferred \ Security) \cap offered)))
          /\ UNCHANGED <<clMode, clPending, current, running, strayed>>
    /\ UNCHANGED <<config, svVars>>

(* handleClientSetup.  The token only shows that the client has read the   *)
(* greeting: a wrong secret is noticed when a command arrives.             *)
HandleClientSetup ==
    LET M == Head(toServer).mode IN
    /\ sv = "setup" /\ toServer # <<>>
    /\ \/ /\ Resolvable(M) /\ M \cap supported # {}
          /\ Secure(Resolved(M)) => keyKnown
          /\ sv' = "loop"
          /\ svMode' = Resolved(M)
          /\ svPending' = Secure(Resolved(M))
          /\ toServer' = Tail(toServer)
          /\ Reply(ServerStart)
          /\ UNCHANGED <<ccSessions, sessions>>
       \/ /\ ~Resolvable(M) \/ M \cap supported = {} \/ (Secure(Resolved(M)) /\ ~keyKnown)
          /\ Hangup
    /\ UNCHANGED <<config, clVars>>

(* The second half of negotiateMode, with the mode selected in the first   *)
(* half (supported is what the greeting offered).  It can be resolved, as  *)
(* the server has done so.                                                 *)
ReceiveServerStart ==
    LET common == preferred \cap supported \cap Security
        M == {BaseSecurity(common)} \cup ((preferred \ Security) \cap supported)
    IN
    /\ cl = "setup" /\ toClient # <<>>
    /\ toClient' = Tail(toClient)
    /\ cl' = "idle"
    /\ clMode' = Resolved(M)
    /\ clPending' = Secure(Resolved(M))
    /\ UNCHANGED <<config, current, running, strayed, svVars, toServer>>

(* The server has hung up: Connect fails, and so does a method that waits  *)
(* for a reply.                                                            *)
ReadFails ==
    /\ sv = "closed" /\ toClient = <<>>
    /\ \/ cl \in {"connect", "setup"} /\ cl' = "closed"
       \/ cl \in {"request", "start"} /\ cl' = "idle"
    /\ UNCHANGED <<config, clMode, clPending, current, running, strayed, svVars, net>>

-----------------------------------------------------------------------------
(* The client's methods.  A write on a connection that the server has      *)
(* closed may succeed as well as fail; where failing changes nothing it is *)
(* not a step.                                                             *)

CanSend == cl = "idle" /\ Len(toServer) < MaxQueue

(* RequestSession (x = None) and RequestSessionIndividual, which refuses a *)
(* SID the client has.                                                     *)
RequestSession(x) ==
    /\ CanSend /\ x \notin current
    /\ cl' = "request"
    /\ Send(RequestTW(x))
    /\ UNCHANGED <<config, clMode, clPending, current, running, strayed, svVars, toClient>>

(* receiveAndVerify: the HMAC of the first reply has Server-Start in it.   *)
Readable(m) == Secure(clMode) => secret = "same" /\ m.prefixed = clPending

SessionAccepted ==
    LET m == Head(toClient) IN
    /\ cl = "request" /\ toClient # <<>>
    /\ toClient' = Tail(toClient)
    /\ cl' = "idle"
    /\ clPending' = (clPending /\ ~Readable(m))
    /\ current' = IF Readable(m) /\ m.ok THEN current \cup {m.sid} ELSE current
    /\ UNCHANGED <<config, clMode, running, strayed, svVars, toServer>>

StartSessions ==
    /\ CanSend /\ current # {}
    /\ cl' = "start"
    /\ Send(StartCmd)
    /\ UNCHANGED <<config, clMode, clPending, current, running, strayed, svVars, toClient>>

(* The test sessions are started one by one; the first that cannot be      *)
(* started ends the call.                                                  *)
StartAcknowledged ==
    LET m == Head(toClient) IN
    /\ cl = "start" /\ toClient # <<>>
    /\ toClient' = Tail(toClient)
    /\ cl' = "idle"
    /\ clPending' = (clPending /\ ~Readable(m))
    /\ \/ Readable(m) /\ m.ok /\ \E S \in SUBSET current : running' = running \cup S
       \/ ~(Readable(m) /\ m.ok) /\ UNCHANGED running
    /\ UNCHANGED <<config, clMode, current, strayed, svVars, toServer>>

(* StartSession starts the test session and gives up the mutex; that it    *)
(* then calls StartSessions is a step of its own.                          *)
StartSession(x) ==
    /\ cl = "idle" /\ x \in current
    /\ running' = running \cup {x}
    /\ UNCHANGED <<config, cl, clMode, clPending, current, strayed, svVars, net>>

(* NumSessions; the faulty one counts the test sessions that are active.   *)
NumSessions_Faulty == Cardinality(current \cap running)
NumSessions == Cardinality(current)

(* delete(c.currentSessions, sid) for the sessions that were stopped.      *)
DropSessions_Faulty(S) == UNCHANGED current
DropSessions(S) == current' = current \ S

StopSessions ==
    /\ CanSend /\ current # {}
    /\ Send(StopCmd(NumSessions))
    /\ running' = running \ current
    /\ current' = {}
    /\ UNCHANGED <<config, cl, clMode, clPending, strayed, svVars, toClient>>

(* Which sessions, is decided by the order of their SIDs.                  *)
StopNSessions(S) ==
    /\ CanSend /\ S \subseteq current
    /\ Send(StopNCmd(S))
    /\ running' = running \ S
    /\ DropSessions(S)
    /\ UNCHANGED <<config, cl, clMode, clPending, strayed, svVars, toClient>>

(* StopSession tells the server nothing.                                   *)
StopSession(x) ==
    /\ cl = "idle" /\ x \in current
    /\ running' = running \ {x}
    /\ current' = current \ {x}
    /\ strayed' = TRUE
    /\ UNCHANGED <<config, cl, clMode, clPending, svVars, net>>

(* Close: StopSessions, whose error is ignored, and the connection.        *)
Close ==
    /\ cl = "idle"
    /\ cl' = "closed"
    /\ \/ /\ current # {} /\ Len(toServer) < MaxQueue
          /\ Send(StopCmd(NumSessions))
          /\ running' = running \ current
          /\ current' = {}
       \/ /\ current = {} \/ sv = "closed"
          /\ UNCHANGED <<current, running, toServer>>
    /\ UNCHANGED <<config, clMode, clPending, strayed, svVars, toClient>>

-----------------------------------------------------------------------------
(* The server's command loop.                                              *)

(* readCommand: the HMAC of a command of a secure connection verifies.     *)
Verified_Faulty == TRUE
Verified == Secure(svMode) => secret = "same"

(* A reply was sent: it had Server-Start in its HMAC, if none had before.  *)
PrefixUsed_Faulty == UNCHANGED svPending
PrefixUsed == svPending' = FALSE

NextCommand(type) ==
    /\ sv = "loop" /\ toServer # <<>> /\ Head(toServer).type = type /\ Verified
    /\ toServer' = Tail(toServer)
    /\ UNCHANGED <<config, clVars, sv, svMode>>

(* The answer to a request that is refused; the faulty one is silent.      *)
Refuse_Faulty == UNCHANGED toClient
Refuse == Reply(AcceptSession(FALSE, None, svPending))

(* Not supported, no port, or a SID that is in use.                        *)
RefuseRequest ==
    /\ NextCommand("request")
    /\ Refuse
    /\ PrefixUsed
    /\ UNCHANGED <<ccSessions, sessions>>

(* The SID the server chooses is new; one that the client chose is not in  *)
(* Server.sessions.                                                        *)
AcceptRequest(x) ==
    /\ NextCommand("request")
    /\ Head(toServer).sid \in {x, None} /\ x \notin sessions
    /\ Head(toServer).sid = None => x \notin ccSessions \cup current
    /\ ccSessions' = ccSessions \cup {x}
    /\ sessions' = sessions \cup {x}
    /\ Reply(AcceptSession(TRUE, x, svPending))
    /\ PrefixUsed

(* Start-Ack tells whether all sessions could be started.                  *)
HandleStart(ok) ==
    /\ NextCommand("start")
    /\ Reply(StartAck(ok, svPending))
    /\ PrefixUsed
    /\ UNCHANGED <<ccSessions, sessions>>

(* The sessions leave the connection and go on until their timeout.        *)
HandleStop ==
    /\ NextCommand("stop")
    /\ Head(toServer).n = Cardinality(ccSessions)
    /\ ccSessions' = {}
    /\ UNCHANGED <<sessions, svPending, toClient>>

HandleStopN ==
    /\ NextCommand("stopN")
    /\ ccSessions' = ccSessions \ Head(toServer).sids
    /\ UNCHANGED <<sessions, svPending, toClient>>

(* A command that does not verify (what its first block decrypts to may    *)
(* make the handler wait for more, until SERVWAIT), or the wrong number of *)
(* sessions.                                                               *)
RejectCommand ==
    /\ sv = "loop" /\ toServer # <<>>
    /\ ~Verified \/ (Head(toServer).type = "stop" /\ Head(toServer).n # Cardinality(ccSessions))
    /\ Hangup
    /\ UNCHANGED <<config, clVars>>

(* SERVWAIT, shutdown, an error, or the end of the client's connection.    *)
ServerHangsUp ==
    /\ sv # "closed"
    /\ Hangup
    /\ UNCHANGED <<config, clVars>>

(* stopSession by a timer or by the reflector itself: the latter's session *)
(* stays on the list of the connection.                                    *)
SessionEnds(x) ==
    /\ x \in sessions
    /\ sessions' = sessions \ {x}
    /\ UNCHANGED <<config, clVars, sv, svMode, svPending, ccSessions, net>>

-----------------------------------------------------------------------------

ClientReads == NegotiateMode \/ ReceiveServerStart \/ SessionAccepted \/ StartAcknowledged \/ ReadFails

ServerStep ==
    \/ SendServerGreeting \/ HandleClientSetup \/ RejectCommand \/ RefuseRequest
    \/ \E x \in SIDs : AcceptRequest(x)
    \/ \E ok \in BOOLEAN : HandleStart(ok)
    \/ HandleStop \/ HandleStopN

ClientCalls ==
    \/ \E x \in SIDs \cup {None} : RequestSession(x)
    \/ \E x \in SIDs : StartSession(x) \/ StopSession(x)
    \/ \E S \in SUBSET SIDs : StopNSessions(S)
    \/ StartSessions \/ StopSessions \/ Close

Terminated == cl = "closed" /\ sv = "closed" /\ UNCHANGED vars

Next ==
    \/ ClientReads \/ ClientCalls \/ ServerStep \/ ServerHangsUp
    \/ \E x \in SIDs : SessionEnds(x)
    \/ Terminated

Spec == Init /\ [][Next]_vars

(* Both sides read what has arrived.  Nothing is assumed of who calls the  *)
(* client's methods, nor that the server ever hangs up.                    *)
FairSpec == Spec /\ WF_vars(ClientReads) /\ WF_vars(ServerStep)

-----------------------------------------------------------------------------

Connected == cl \in {"idle", "request", "start"} /\ sv = "loop"

Rank(b) == CASE b = "unauthenticated" -> 1 [] b = "authenticated" -> 2 [] b = "encrypted" -> 3

(* A connection that comes up has the same modes on both sides: the        *)
(* strongest security both are configured for, no bit that either did not  *)
(* ask for, and test sessions that are unauthenticated only if the control *)
(* connection is or mixed security was agreed.                             *)
ModesAgree ==
    Connected =>
        /\ svMode = clMode
        /\ svMode.mode \subseteq preferred \cap supported
        /\ \A b \in preferred \cap supported \cap Security :
              \E a \in svMode.mode \cap Security : Rank(b) <= Rank(a)
        /\ "unauthenticated" \in svMode.test \ svMode.control => "mixed" \in svMode.mode

(* Both sides agree on which reply has Server-Start in its HMAC, whatever  *)
(* commands were sent and whatever was refused: the client can verify      *)
(* every reply that the server makes with the same keys.                   *)
RepliesVerify ==
    cl \in {"request", "start"} /\ secret = "same" =>
        \A i \in DOMAIN toClient : Readable(toClient[i])

(* Command m takes session x off the server's list.                        *)
Stops(m, x) == m.type = "stop" \/ (m.type = "stopN" /\ x \in m.sids)

(* What of the server's list the first n commands on their way will leave. *)
LeftAfter(n) == {x \in ccSessions : \A i \in 1 .. n : ~Stops(toServer[i], x)}

(* Both sides list the same sessions, up to the commands and the answer on *)
(* their way, as long as StopSession is not used.  The client lists every  *)
(* test session that it left running, also when Stop-Sessions could not be *)
(* sent, so that StopSession reaches it; and Close leaves one only if the  *)
(* server has hung up before.                                              *)
SessionsAgree ==
    /\ running \subseteq current
    /\ cl = "closed" /\ sv # "closed" => current = {}
    /\ Connected /\ ~strayed =>
        LeftAfter(Len(toServer)) =
            current \cup {toClient[i].sid : i \in {j \in DOMAIN toClient :
                                toClient[j].type = "accept" /\ toClient[j].ok}}

(* Then the server never closes the connection because of the number in a  *)
(* Stop-Sessions, although it checks it against a list of its own.         *)
StopMatches ==
    sv = "loop" /\ ~strayed /\ toServer # <<>> /\ Head(toServer).type = "stop" =>
        Head(toServer).n = Cardinality(ccSessions)

(* On a secure connection neither side has a session unless the client has *)
(* the server's secret: that the token is not tied to the secret does not  *)
(* matter, because no command of such a client verifies.                   *)
KeysNeeded ==
    /\ ccSessions # {} /\ Secure(svMode) => secret = "same"
    /\ current # {} /\ Secure(clMode) => secret = "same"

(* Connect and the methods of the client return: the two sides never wait  *)
(* for each other, in the set-up or later.                                 *)
MethodsReturn == (cl \notin {"idle", "closed"}) ~> (cl \in {"idle", "closed"})
====
