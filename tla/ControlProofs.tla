---------------------------- MODULE ControlProofs ----------------------------
(***************************************************************************)
(* Proofs about Control for any set of SIDs and mode extensions and any    *)
(* number of commands on their way.  The client waits for one reply at a   *)
(* time, so that a command that is answered is always the last one on its  *)
(* way (QueueOK); what the two sides believe about modes, prefixes and     *)
(* sessions then agrees up to the messages between them.                   *)
(***************************************************************************)
EXTENDS Control, Integers, FiniteSetTheorems, TLAPS

(* The mode the client selects.                                            *)
Common   == preferred \cap supported \cap Security
Selected == {BaseSecurity(Common)} \cup ((preferred \ Security) \cap supported)

(* The client's Connect has returned and Close was not called.             *)
Up == cl \in {"idle", "request", "start"}

(* Messages are in order and of the kind the other side waits for.         *)
QueueOK ==
    /\ toServer \in Seq(ToServer) /\ toClient \in Seq(ToClient)
    /\ sv = "greet" => cl = "connect" /\ toClient = <<>>
    /\ sv = "setup" /\ cl = "setup" => toClient = <<>>
    /\ sv = "loop" => cl # "connect"
    /\ Up => sv \in {"loop", "closed"}
    /\ sv = "closed" => toServer = <<>>
    /\ sv \in {"greet", "setup"} => toServer \in {<<>>, <<SetupResponse(Selected)>>}
    /\ \A i \in DOMAIN toServer :
         \/ /\ toServer[i].type \in {"stop", "stopN"}
            /\ sv = "loop" /\ cl \notin {"connect", "setup"}
         \/ /\ i = Len(toServer) /\ toClient = <<>> /\ toServer[i].type = cl
            /\ \/ cl \in {"request", "start"} /\ sv = "loop"
               \/ cl = "setup" /\ sv = "setup"
    /\ cl \in {"idle", "closed"} => toClient = <<>>
    /\ \A i \in DOMAIN toClient :
         /\ cl = "connect" => toClient[i] = Greeting(supported)
         /\ cl = "request" => toClient[i].type = "accept"
         /\ cl = "start" => toClient[i].type = "ack"
         /\ toClient[i].type = "accept" /\ toClient[i].ok => toClient[i].sid \in SIDs

(* Both sides have resolved the mode that the client selected.             *)
ModesOK ==
    /\ cl = "setup" \/ Up => Common # {}
    /\ sv = "loop" => svMode = Resolved(Selected)
    /\ Up => clMode = Resolved(Selected)

(* The two sides agree on whether the next reply has Server-Start in its   *)
(* HMAC.                                                                   *)
PendingOK ==
    /\ sv = "loop" => (svPending => Secure(svMode))
    /\ Up => (clPending => Secure(clMode))
    /\ sv = "loop" /\ cl = "setup" => svPending = Secure(svMode)
    /\ sv = "loop" /\ Up /\ toClient = <<>> => svPending = clPending
    /\ \A i \in DOMAIN toClient : cl \in {"request", "start"} =>
         /\ toClient[i].prefixed = clPending
         /\ Secure(clMode) => secret = "same"
         /\ ~svPending

(* There are no sessions before there is a connection.                     *)
EmptyOK ==
    /\ sv \in {"greet", "setup"} => ccSessions = {}
    /\ cl \in {"connect", "setup"} => current = {} /\ running = {} /\ ccSessions = {}

(* Each Stop-Sessions on its way has the number of the sessions that the   *)
(* commands before it leave.                                               *)
NumbersOK ==
    ~strayed =>
        \A i \in DOMAIN toServer : toServer[i].type = "stop" =>
            toServer[i].n = Cardinality(LeftAfter(i - 1))

(* All of it.                                                              *)
CInv ==
    /\ TypeOK /\ QueueOK /\ ModesOK /\ PendingOK /\ EmptyOK
    /\ KeysNeeded /\ SessionsAgree /\ NumbersOK

-----------------------------------------------------------------------------
(* Sequences and messages.                                                 *)

(* The operations on queues, elementwise.                                  *)
LEMMA Queue ==
    ASSUME NEW S, NEW q \in Seq(S)
    PROVE  /\ Len(q) \in Nat /\ DOMAIN q = 1 .. Len(q) /\ (q = <<>> <=> Len(q) = 0)
           /\ \A i \in DOMAIN q : q[i] \in S
           /\ q # <<>> => /\ 1 \in DOMAIN q /\ Head(q) = q[1] /\ Tail(q) \in Seq(S)
                          /\ Len(Tail(q)) = Len(q) - 1 /\ DOMAIN Tail(q) = 1 .. (Len(q) - 1)
                          /\ \A i \in 1 .. (Len(q) - 1) : Tail(q)[i] = q[i + 1]
<1>1. Len(q) \in Nat /\ DOMAIN q = 1 .. Len(q) /\ (q = <<>> <=> Len(q) = 0)
      /\ \A i \in DOMAIN q : q[i] \in S
  OBVIOUS
<1>2. ASSUME q # <<>>
      PROVE  /\ 1 \in DOMAIN q /\ Head(q) = q[1] /\ Tail(q) \in Seq(S)
             /\ Len(Tail(q)) = Len(q) - 1 /\ DOMAIN Tail(q) = 1 .. (Len(q) - 1)
             /\ \A i \in 1 .. (Len(q) - 1) : Tail(q)[i] = q[i + 1]
  BY <1>2
<1> QED BY <1>1, <1>2

(* A message at the end of a queue.                                        *)
LEMMA QueueAppend ==
    ASSUME NEW S, NEW q \in Seq(S), NEW m \in S
    PROVE  /\ Append(q, m) \in Seq(S) /\ Len(Append(q, m)) = Len(q) + 1
           /\ DOMAIN Append(q, m) = 1 .. (Len(q) + 1)
           /\ \A i \in 1 .. Len(q) : Append(q, m)[i] = q[i]
           /\ Append(q, m)[Len(q) + 1] = m
OBVIOUS

(* A reply that the client takes was the only one.                         *)
LEMMA LastReply ==
    ASSUME TypeOK, QueueOK, toClient # <<>>
    PROVE  /\ Tail(toClient) = <<>> /\ DOMAIN toClient = {1} /\ Head(toClient) = toClient[1]
           /\ toClient[1] \in ToClient
<1>1. toClient \in Seq(ToClient) /\ Len(toClient) <= 1
  BY DEF TypeOK, QueueOK
<1>2. Len(toClient) = 1 /\ DOMAIN toClient = {1} /\ Head(toClient) = toClient[1]
      /\ toClient[1] \in ToClient
  <2>1. /\ Len(toClient) \in Nat /\ DOMAIN toClient = 1 .. Len(toClient) /\ Len(toClient) # 0
        /\ Head(toClient) = toClient[1]
        /\ \A i \in DOMAIN toClient : toClient[i] \in ToClient
    BY <1>1, Queue
  <2>2. Len(toClient) = 1
    BY <1>1, <2>1
  <2> QED BY <2>1, <2>2
<1>3. Tail(toClient) \in Seq(ToClient) /\ Len(Tail(toClient)) = 0
  BY <1>1, <1>2, Queue
<1>4. Tail(toClient) = <<>>
  BY <1>3, Queue
<1> QED BY <1>2, <1>4

(* A reply that the server sends is the only one.                          *)
LEMMA OnlyReply ==
    ASSUME NEW m \in ToClient, toClient = <<>>, Reply(m)
    PROVE  toClient' \in Seq(ToClient) /\ DOMAIN toClient' = {1} /\ toClient'[1] = m
           /\ Len(toClient') = 1
BY DEF Reply

(* The mode that is selected is one both sides want, with the strongest    *)
(* security of those.                                                      *)
LEMMA SelectedMode ==
    ASSUME TypeOK
    PROVE  /\ Selected \subseteq Bits /\ Resolved(Selected) \in Modes
           /\ Common # {} => /\ Selected \subseteq preferred \cap supported
                             /\ BaseSecurity(Common) \in Security
                             /\ \A b \in Common : Rank(b) <= Rank(BaseSecurity(Common))
<1>1. BaseSecurity(Common) \in Security
  BY DEF BaseSecurity, Security
<1>2. Selected \subseteq Bits
  BY <1>1 DEF Selected, Bits, TypeOK
<1>3. Resolved(Selected) \in Modes
  BY <1>2 DEF Resolved, Modes, Bits, Security
<1>4. ASSUME Common # {} PROVE BaseSecurity(Common) \in Common
  BY <1>4 DEF Common, BaseSecurity, Security
<1>5. ASSUME Common # {} PROVE Selected \subseteq preferred \cap supported
  BY <1>4, <1>5 DEF Selected, Common
<1>6. ASSUME NEW b \in Common PROVE Rank(b) <= Rank(BaseSecurity(Common))
  <2>1. b \in Security
    BY DEF Common
  <2>2. CASE "encrypted" \in Common
    BY <2>1, <2>2 DEF BaseSecurity, Rank, Security
  <2>3. CASE "encrypted" \notin Common /\ "authenticated" \in Common
    BY <2>1, <2>3 DEF BaseSecurity, Rank, Security
  <2>4. CASE "encrypted" \notin Common /\ "authenticated" \notin Common
    BY <2>1, <2>4 DEF BaseSecurity, Rank, Security
  <2> QED BY <2>2, <2>3, <2>4
<1> QED BY <1>1, <1>2, <1>3, <1>5, <1>6

(* What both sides list is finite.                                         *)
LEMMA ListSize ==
    ASSUME TypeOK
    PROVE  Cardinality(current) \in 0 .. Cardinality(SIDs)
<1>1. Cardinality(SIDs) \in Nat
  BY ControlAssumption, FS_CardinalityType
<1>2. Cardinality(current) \in Nat /\ Cardinality(current) <= Cardinality(SIDs)
  BY ControlAssumption, FS_Subset, FS_CardinalityType DEF TypeOK
<1> QED BY <1>1, <1>2

-----------------------------------------------------------------------------
(* The set-up of the connection.                                           *)

(* Whatever makes the handler give up, it leaves the client alone.         *)
LEMMA HangupInv ==
    ASSUME CInv, Hangup, UNCHANGED <<config, clVars>>
    PROVE  CInv'
<1>1. /\ sv' = "closed" /\ toServer' = <<>> /\ ccSessions' = {} /\ sessions' \subseteq SIDs
      /\ UNCHANGED <<preferred, supported, secret, keyKnown, cl, clMode, clPending, current,
                     running, strayed, svMode, svPending, toClient>>
  BY DEF Hangup, config, clVars, CInv, TypeOK
<1>2. TypeOK'
  BY <1>1, ControlAssumption DEF CInv, TypeOK
<1>3. QueueOK'
  BY <1>1 DEF CInv, QueueOK, Up, Selected, Common
<1>4. ModesOK' /\ PendingOK' /\ EmptyOK'
  BY <1>1 DEF CInv, ModesOK, PendingOK, EmptyOK, Up, Selected, Common, Secure
<1>5. KeysNeeded' /\ SessionsAgree' /\ NumbersOK'
  BY <1>1 DEF CInv, KeysNeeded, SessionsAgree, NumbersOK, Connected, Secure
<1> QED BY <1>2, <1>3, <1>4, <1>5 DEF CInv

(* The greeting is the first message to the client.                        *)
LEMMA GreetingInv == ASSUME CInv, SendServerGreeting PROVE CInv'
<1>1. /\ sv = "greet" /\ sv' = "setup" /\ cl = "connect" /\ toClient = <<>>
      /\ Reply(Greeting(supported))
      /\ UNCHANGED <<preferred, supported, secret, keyKnown, cl, clMode, clPending, current,
                     running, strayed, svMode, svPending, ccSessions, sessions, toServer>>
  BY DEF SendServerGreeting, config, clVars, CInv, QueueOK
<1>2. Greeting(supported) \in ToClient /\ Greeting(supported).type = "greeting"
  <2>1. supported \in SUBSET Bits
    BY DEF CInv, TypeOK
  <2> QED BY <2>1 DEF ToClient, Greeting
<1>3. toClient' \in Seq(ToClient) /\ DOMAIN toClient' = {1} /\ toClient'[1] = Greeting(supported)
      /\ Len(toClient') = 1
  BY <1>1, <1>2, OnlyReply
<1>4. TypeOK'
  BY <1>1, <1>2, <1>3 DEF CInv, TypeOK
<1>5. QueueOK'
  BY <1>1, <1>2, <1>3 DEF CInv, QueueOK, Up, Selected, Common
<1>6. ModesOK' /\ PendingOK' /\ EmptyOK'
  BY <1>1 DEF CInv, ModesOK, PendingOK, EmptyOK, Up, Selected, Common, Secure
<1>7. KeysNeeded' /\ SessionsAgree' /\ NumbersOK'
  BY <1>1 DEF CInv, KeysNeeded, SessionsAgree, NumbersOK, LeftAfter, Connected, Secure
<1> QED BY <1>4, <1>5, <1>6, <1>7 DEF CInv

(* The client selects the mode from the greeting, or gives up.             *)
LEMMA NegotiateInv == ASSUME CInv, NegotiateMode PROVE CInv'
<1>1. /\ cl = "connect" /\ toClient # <<>> /\ toClient' = <<>> /\ Head(toClient).mode = supported
      /\ sv # "greet" /\ sv # "loop" /\ current = {} /\ running = {} /\ toServer = <<>>
      /\ UNCHANGED <<preferred, supported, secret, keyKnown, clMode, clPending, current,
                     running, strayed, sv, svMode, svPending, ccSessions, sessions>>
  <2>1. Head(toClient) = Greeting(supported) /\ Tail(toClient) = <<>>
    BY LastReply DEF NegotiateMode, CInv, QueueOK
  <2>2. cl = "connect" => toServer = <<>>
    <3>1. toServer \in Seq(ToServer)
      BY DEF CInv, QueueOK
    <3>2. ASSUME cl = "connect", sv # "loop" PROVE DOMAIN toServer = {}
      BY <3>2 DEF CInv, QueueOK
    <3> QED BY <3>1, <3>2, Queue DEF CInv, QueueOK
  <2> QED BY <2>1, <2>2 DEF NegotiateMode, ConnectFails, config, svVars, Greeting, CInv, QueueOK,
                         EmptyOK
<1>2. CASE cl' = "closed" /\ UNCHANGED toServer
  <2>1. TypeOK'
    BY <1>1, <1>2 DEF CInv, TypeOK
  <2>2. QueueOK'
    BY <1>1, <1>2 DEF CInv, QueueOK, Up, Selected, Common
  <2>3. ModesOK' /\ PendingOK' /\ EmptyOK'
    BY <1>1, <1>2 DEF CInv, ModesOK, PendingOK, EmptyOK, Up, Selected, Common, Secure
  <2>4. KeysNeeded' /\ SessionsAgree' /\ NumbersOK'
    BY <1>1, <1>2 DEF CInv, KeysNeeded, SessionsAgree, NumbersOK, LeftAfter, Connected, Secure
  <2> QED BY <2>1, <2>2, <2>3, <2>4 DEF CInv
<1>3. CASE cl' = "setup" /\ Common # {} /\ Send(SetupResponse(Selected))
  <2>1. SetupResponse(Selected) \in ToServer /\ SetupResponse(Selected).type = "setup"
    BY SelectedMode DEF CInv, ToServer, SetupResponse
  <2>2. /\ sv = "closed" => toServer' = <<>>
        /\ sv # "closed" => toServer' = <<SetupResponse(Selected)>>
    BY <1>1, <1>3 DEF Send
  <2>3. toServer' \in Seq(ToServer) /\ Len(toServer') <= 1
        /\ \A i \in DOMAIN toServer' :
              i = Len(toServer') /\ toServer'[i] = SetupResponse(Selected) /\ sv # "closed"
    <3>1. CASE sv = "closed"
      BY <2>2, <3>1
    <3>2. CASE sv # "closed"
      BY <2>1, <2>2, <3>2
    <3> QED BY <3>1, <3>2
  <2>4. TypeOK'
    BY <1>1, <1>3, <2>1, <2>3, ControlAssumption DEF CInv, TypeOK
  <2>5. Selected' = Selected /\ Common' = Common
    BY <1>1 DEF Selected, Common
  <2>6. sv \in {"setup", "closed"}
    BY <1>1 DEF CInv, TypeOK
  <2>7. QueueOK'
    BY <1>1, <1>3, <2>1, <2>2, <2>3, <2>5, <2>6 DEF CInv, QueueOK, Up
  <2>8. ModesOK' /\ PendingOK' /\ EmptyOK'
    BY <1>1, <1>3, <2>5 DEF CInv, ModesOK, PendingOK, EmptyOK, Up, Secure
  <2>9. KeysNeeded' /\ SessionsAgree' /\ NumbersOK'
    BY <1>1, <1>3, <2>1, <2>3 DEF CInv, KeysNeeded, SessionsAgree, NumbersOK, Connected, Secure
  <2> QED BY <2>4, <2>7, <2>8, <2>9 DEF CInv
<1> QED BY <1>1, <1>2, <1>3 DEF NegotiateMode, ConnectFails, Selected, Common

(* The server resolves the mode that the client selected, or hangs up.     *)
LEMMA ClientSetupInv == ASSUME CInv, HandleClientSetup PROVE CInv'
<1>1. CASE Hangup
  BY <1>1, HangupInv DEF HandleClientSetup
<1>2. CASE ~Hangup
  <2>1. /\ sv = "setup" /\ toServer # <<>> /\ sv' = "loop"
        /\ svMode' = Resolved(Head(toServer).mode)
        /\ svPending' = Secure(Resolved(Head(toServer).mode))
        /\ toServer' = Tail(toServer) /\ Reply(ServerStart)
        /\ UNCHANGED <<preferred, supported, secret, keyKnown, cl, clMode, clPending, current,
                       running, strayed, ccSessions, sessions>>
    BY <1>2 DEF HandleClientSetup, config, clVars
  <2>2. toServer = <<SetupResponse(Selected)>> /\ ccSessions = {}
    BY <2>1 DEF CInv, QueueOK, EmptyOK
  <2>3. Head(toServer).mode = Selected /\ Tail(toServer) = <<>> /\ toServer[1].type = "setup"
        /\ 1 \in DOMAIN toServer
    BY <2>2 DEF SetupResponse
  <2>4. cl = "setup" /\ toClient = <<>>
    BY <2>1, <2>3 DEF CInv, QueueOK
  <2>5. ServerStart \in ToClient /\ ServerStart.type = "serverStart"
    BY DEF ToClient, ServerStart
  <2>6. toClient' \in Seq(ToClient) /\ DOMAIN toClient' = {1} /\ toClient'[1] = ServerStart
        /\ Len(toClient') = 1
    BY <2>1, <2>4, <2>5, OnlyReply
  <2>7. Selected' = Selected /\ Common' = Common
    BY <2>1 DEF Selected, Common
  <2>8. svMode' = Resolved(Selected) /\ svMode' \in Modes /\ svPending' = Secure(svMode')
        /\ svPending' \in BOOLEAN
    BY <2>1, <2>3, SelectedMode DEF CInv, Secure
  <2>9. TypeOK'
    BY <2>1, <2>3, <2>5, <2>6, <2>8, ControlAssumption DEF CInv, TypeOK
  <2>10. QueueOK'
    BY <2>1, <2>3, <2>4, <2>5, <2>6, <2>7 DEF CInv, QueueOK, Up
  <2>11. ModesOK' /\ PendingOK' /\ EmptyOK'
    BY <2>1, <2>4, <2>7, <2>8 DEF CInv, ModesOK, PendingOK, EmptyOK, Up
  <2>12. KeysNeeded' /\ SessionsAgree' /\ NumbersOK'
    BY <2>1, <2>2, <2>3, <2>4 DEF CInv, KeysNeeded, SessionsAgree, NumbersOK, Connected
  <2> QED BY <2>9, <2>10, <2>11, <2>12 DEF CInv
<1> QED BY <1>1, <1>2

(* The client resolves the same mode, and is up.                           *)
LEMMA ServerStartInv == ASSUME CInv, ReceiveServerStart PROVE CInv'
<1>1. /\ cl = "setup" /\ toClient # <<>> /\ toClient' = <<>> /\ cl' = "idle"
      /\ clMode' = Resolved(Selected) /\ clPending' = Secure(Resolved(Selected))
      /\ UNCHANGED <<preferred, supported, secret, keyKnown, current, running, strayed, sv, svMode,
                     svPending, ccSessions, sessions, toServer>>
  BY LastReply DEF ReceiveServerStart, config, svVars, Selected, Common, CInv
<1>2. Selected' = Selected /\ Common' = Common /\ clMode' \in Modes /\ clPending' \in BOOLEAN
  BY <1>1, SelectedMode DEF Selected, Common, CInv, Secure
<1>3. toServer = <<>>
  <2>1. sv # "setup"
    BY <1>1 DEF CInv, QueueOK
  <2>2. DOMAIN toServer = {}
    BY <1>1, <2>1 DEF CInv, QueueOK
  <2> QED BY <2>2, Queue DEF CInv, QueueOK
<1>4. TypeOK'
  BY <1>1, <1>2 DEF CInv, TypeOK
<1>5. QueueOK'
  <2>1. sv \in {"loop", "closed"}
    BY <1>1 DEF CInv, TypeOK, QueueOK
  <2> QED BY <1>1, <1>2, <1>3, <2>1 DEF CInv, QueueOK, Up
<1>6. ModesOK' /\ PendingOK' /\ EmptyOK'
  BY <1>1, <1>2 DEF CInv, ModesOK, PendingOK, EmptyOK, Up, Secure
<1>7. KeysNeeded' /\ SessionsAgree' /\ NumbersOK'
  BY <1>1, <1>3 DEF CInv, EmptyOK, KeysNeeded, SessionsAgree, NumbersOK, LeftAfter, Connected, Secure
<1> QED BY <1>4, <1>5, <1>6, <1>7 DEF CInv

(* The client notices that the server has hung up.                         *)
LEMMA ReadFailsInv == ASSUME CInv, ReadFails PROVE CInv'
<1>1. /\ sv = "closed" /\ toClient = <<>> /\ cl' \in {"idle", "closed"}
      /\ cl' = "idle" => cl \in {"request", "start"}
      /\ UNCHANGED <<preferred, supported, secret, keyKnown, clMode, clPending, current, running,
                     strayed, sv, svMode, svPending, ccSessions, sessions, toServer, toClient>>
  BY DEF ReadFails, config, svVars, net
<1>2. toServer = <<>>
  BY <1>1 DEF CInv, QueueOK
<1>3. TypeOK'
  BY <1>1 DEF CInv, TypeOK
<1>4. QueueOK'
  BY <1>1, <1>2 DEF CInv, QueueOK, Up, Selected, Common
<1>5. ModesOK' /\ PendingOK' /\ EmptyOK'
  BY <1>1 DEF CInv, ModesOK, PendingOK, EmptyOK, Up, Selected, Common, Secure
<1>6. KeysNeeded' /\ SessionsAgree' /\ NumbersOK'
  BY <1>1, <1>2 DEF CInv, KeysNeeded, SessionsAgree, NumbersOK, Connected, Secure
<1> QED BY <1>3, <1>4, <1>5, <1>6 DEF CInv

-----------------------------------------------------------------------------
(* What the commands on their way leave of the server's list.              *)

(* One more command is on its way.                                         *)
LEMMA LeftAppend ==
    ASSUME toServer \in Seq(ToServer), NEW m \in ToServer, toServer' = Append(toServer, m),
           UNCHANGED ccSessions
    PROVE  /\ \A n \in 0 .. Len(toServer) : LeftAfter(n)' = LeftAfter(n)
           /\ LeftAfter(Len(toServer))' = {x \in LeftAfter(Len(toServer)) : ~Stops(m, x)}
<1>1. /\ Len(toServer) \in Nat
      /\ \A i \in 1 .. Len(toServer) : toServer'[i] = toServer[i]
      /\ toServer'[Len(toServer) + 1] = m
  BY Queue, QueueAppend
<1>2. ASSUME NEW n \in 0 .. Len(toServer) PROVE LeftAfter(n)' = LeftAfter(n)
  <2>1. \A i \in 1 .. n : toServer'[i] = toServer[i]
    BY <1>1
  <2> QED BY <2>1 DEF LeftAfter, Stops
<1>3. LeftAfter(Len(toServer))' = {x \in LeftAfter(Len(toServer)) : ~Stops(m, x)}
  <2>1. PICK n \in Nat : n = Len(toServer)
    BY <1>1
  <2>2. Len(toServer)' = n + 1 /\ 1 .. (n + 1) = (1 .. n) \cup {n + 1}
    BY <2>1, QueueAppend
  <2>3. (\A i \in 1 .. n : toServer'[i] = toServer[i]) /\ toServer'[n + 1] = m
    BY <1>1, <2>1
  <2>4. LeftAfter(n + 1)' = {x \in ccSessions : \A i \in 1 .. (n + 1) : ~Stops(toServer'[i], x)}
    BY DEF LeftAfter, Stops
  <2>5. \A x : (\A i \in 1 .. (n + 1) : ~Stops(toServer'[i], x)) <=>
               (\A i \in 1 .. n : ~Stops(toServer[i], x)) /\ ~Stops(m, x)
    BY <2>2, <2>3
  <2>6. LeftAfter(n + 1)' = {x \in LeftAfter(n) : ~Stops(m, x)}
    BY <2>4, <2>5 DEF LeftAfter
  <2> QED BY <2>1, <2>2, <2>6
<1> QED BY <1>2, <1>3

(* The server has handled the first of them.                               *)
LEMMA LeftTail ==
    ASSUME toServer \in Seq(ToServer), toServer # <<>>, toServer' = Tail(toServer),
           ccSessions' = {x \in ccSessions : ~Stops(toServer[1], x)}
    PROVE  \A n \in 0 .. (Len(toServer) - 1) : LeftAfter(n)' = LeftAfter(n + 1)
<1> SUFFICES ASSUME NEW n \in 0 .. (Len(toServer) - 1) PROVE LeftAfter(n)' = LeftAfter(n + 1)
  OBVIOUS
<1>1. Len(toServer) \in Nat /\ \A i \in 1 .. (Len(toServer) - 1) : toServer'[i] = toServer[i + 1]
  BY Queue
<1>2. ASSUME NEW x
      PROVE  (\A i \in 1 .. (n + 1) : ~Stops(toServer[i], x)) <=>
             ~Stops(toServer[1], x) /\ \A i \in 1 .. n : ~Stops(toServer'[i], x)
  <2>1. ASSUME \A i \in 1 .. (n + 1) : ~Stops(toServer[i], x)
        PROVE  ~Stops(toServer[1], x) /\ \A i \in 1 .. n : ~Stops(toServer'[i], x)
    <3>1. 1 \in 1 .. (n + 1) /\ \A i \in 1 .. n : i + 1 \in 1 .. (n + 1) /\ toServer'[i] = toServer[i + 1]
      BY <1>1
    <3> QED BY <2>1, <3>1
  <2>2. ASSUME ~Stops(toServer[1], x), \A i \in 1 .. n : ~Stops(toServer'[i], x),
               NEW j \in 1 .. (n + 1)
        PROVE  ~Stops(toServer[j], x)
    <3>1. CASE j = 1
      BY <2>2, <3>1
    <3>2. CASE j # 1
      <4>1. j - 1 \in 1 .. n /\ toServer'[j - 1] = toServer[(j - 1) + 1] /\ (j - 1) + 1 = j
        BY <1>1, <3>2
      <4> QED BY <2>2, <4>1
    <3> QED BY <3>1, <3>2
  <2> QED BY <2>1, <2>2
<1>3. LeftAfter(n)' = {x \in ccSessions' : \A i \in 1 .. n : ~Stops(toServer'[i], x)}
  BY DEF LeftAfter, Stops
<1> QED BY <1>2, <1>3 DEF LeftAfter

-----------------------------------------------------------------------------
(* The client's methods.                                                   *)

(* A command that waits for its reply.                                     *)
LEMMA AskInv ==
    ASSUME CInv, CanSend, NEW m \in ToServer, m.type \in {"request", "start"}, cl' = m.type,
           Send(m),
           UNCHANGED <<config, clMode, clPending, current, running, strayed, svVars, toClient>>
    PROVE  CInv'
<1>1. /\ cl = "idle" /\ toClient = <<>> /\ sv \in {"loop", "closed"} /\ toServer \in Seq(ToServer)
      /\ Len(toServer) < MaxQueue
      /\ sv = "closed" => UNCHANGED toServer
      /\ sv # "closed" => toServer' = Append(toServer, m)
      /\ UNCHANGED <<preferred, supported, secret, keyKnown, clMode, clPending, current, running,
                     strayed, sv, svMode, svPending, ccSessions, sessions, toClient>>
  BY DEF CanSend, Send, CInv, QueueOK, Up, config, svVars
<1>2. Selected' = Selected /\ Common' = Common
  BY <1>1 DEF Selected, Common
<1>3. ModesOK' /\ PendingOK' /\ EmptyOK' /\ KeysNeeded'
  BY <1>1, <1>2 DEF CInv, ModesOK, PendingOK, EmptyOK, KeysNeeded, Up, Secure
<1>4. CASE sv = "closed"
  <2>1. toServer = <<>>
    BY <1>4 DEF CInv, QueueOK
  <2>2. TypeOK'
    BY <1>1, <1>4 DEF CInv, TypeOK
  <2>3. QueueOK'
    BY <1>1, <1>2, <1>4, <2>1 DEF CInv, QueueOK, Up
  <2>4. SessionsAgree' /\ NumbersOK'
    BY <1>1, <1>4, <2>1 DEF CInv, SessionsAgree, NumbersOK, Connected
  <2> QED BY <1>3, <2>2, <2>3, <2>4 DEF CInv
<1>5. CASE sv = "loop"
  <2> DEFINE L == Len(toServer)
  <2>1. /\ L \in Nat /\ DOMAIN toServer = 1 .. L
        /\ toServer' \in Seq(ToServer) /\ Len(toServer') = L + 1 /\ DOMAIN toServer' = 1 .. (L + 1)
        /\ \A i \in 1 .. L : toServer'[i] = toServer[i]
        /\ toServer'[L + 1] = m
    BY <1>1, <1>5, Queue, QueueAppend
  <2>2. /\ \A n \in 0 .. L : LeftAfter(n)' = LeftAfter(n)
        /\ LeftAfter(Len(toServer))' = {x \in LeftAfter(Len(toServer)) : ~Stops(m, x)}
    BY <1>1, <1>5, LeftAppend
  <2>3. LeftAfter(Len(toServer))' = LeftAfter(Len(toServer))
    BY <2>2 DEF Stops
  <2>4. TypeOK'
    <3>1. /\ Len(toServer') <= MaxQueue + 1
          /\ \A i \in DOMAIN toServer' : toServer'[i] \in ToServer
      BY <1>1, <2>1, ControlAssumption
    <3> QED BY <1>1, <3>1 DEF CInv, TypeOK
  <2>5. QueueOK'
    <3>1. \A i \in DOMAIN toServer' :
            \/ toServer'[i].type \in {"stop", "stopN"}
            \/ i = Len(toServer') /\ toServer'[i].type = cl'
      <4>1. \A i \in 1 .. L : toServer[i].type \in {"stop", "stopN"}
        BY <1>1, <2>1 DEF CInv, QueueOK
      <4> QED BY <2>1, <4>1
    <3> HIDE DEF L
    <3> QED BY <1>1, <1>2, <1>5, <2>1, <3>1 DEF CInv, QueueOK, Up
  <2>6. SessionsAgree'
    BY <1>1, <1>5, <2>3 DEF CInv, SessionsAgree, Connected
  <2>7. NumbersOK'
    <3> SUFFICES ASSUME ~strayed, NEW i \in DOMAIN toServer', toServer'[i].type = "stop"
                 PROVE  toServer'[i].n = Cardinality(LeftAfter(i - 1)')
      BY <1>1 DEF NumbersOK
    <3>1. i \in 1 .. L /\ toServer'[i] = toServer[i]
      BY <2>1
    <3>2. i - 1 \in 0 .. L
      BY <2>1, <3>1
    <3> QED BY <2>1, <2>2, <3>1, <3>2 DEF CInv, NumbersOK
  <2> QED BY <1>3, <2>4, <2>5, <2>6, <2>7 DEF CInv
<1> QED BY <1>1, <1>4, <1>5

(* Stop-Sessions or Stop-N-Sessions, by itself or in Close.                *)
LEMMA TellInv ==
    ASSUME CInv, cl = "idle", cl' \in {"idle", "closed"}, Len(toServer) < MaxQueue,
           NEW m \in ToServer, m.type \in {"stop", "stopN"},
           m.type = "stop" => m.n = Cardinality(current),
           Send(m), current' = {x \in current : ~Stops(m, x)}, running' = running \cap current',
           cl' = "closed" => current' = {},
           UNCHANGED <<config, clMode, clPending, strayed, svVars, toClient>>
    PROVE  CInv'
<1>1. /\ toClient = <<>> /\ sv \in {"loop", "closed"} /\ toServer \in Seq(ToServer)
      /\ sv = "closed" => UNCHANGED toServer
      /\ sv # "closed" => toServer' = Append(toServer, m)
      /\ UNCHANGED <<preferred, supported, secret, keyKnown, clMode, clPending,
                     strayed, sv, svMode, svPending, ccSessions, sessions, toClient>>
  BY DEF Send, CInv, QueueOK, Up, config, svVars
<1>2. Selected' = Selected /\ Common' = Common
  BY <1>1 DEF Selected, Common
<1>3. ModesOK' /\ PendingOK' /\ EmptyOK' /\ KeysNeeded'
  BY <1>1, <1>2 DEF CInv, ModesOK, PendingOK, EmptyOK, KeysNeeded, Up, Secure
<1>4. current' \subseteq current /\ running' \subseteq current' /\ running' \subseteq running
  OBVIOUS
<1>5. CASE sv = "closed"
  <2>1. toServer = <<>>
    BY <1>5 DEF CInv, QueueOK
  <2>2. TypeOK'
    BY <1>1, <1>4, <1>5 DEF CInv, TypeOK
  <2>3. QueueOK'
    BY <1>1, <1>2, <1>5, <2>1 DEF CInv, QueueOK, Up
  <2>4. SessionsAgree' /\ NumbersOK'
    BY <1>1, <1>4, <1>5, <2>1 DEF CInv, SessionsAgree, NumbersOK, Connected
  <2> QED BY <1>3, <2>2, <2>3, <2>4 DEF CInv
<1>6. CASE sv = "loop"
  <2> DEFINE L == Len(toServer)
  <2>1. /\ L \in Nat /\ DOMAIN toServer = 1 .. L
        /\ toServer' \in Seq(ToServer) /\ Len(toServer') = L + 1 /\ DOMAIN toServer' = 1 .. (L + 1)
        /\ \A i \in 1 .. L : toServer'[i] = toServer[i]
        /\ toServer'[L + 1] = m
    BY <1>1, <1>6, Queue, QueueAppend
  <2>2. /\ \A n \in 0 .. L : LeftAfter(n)' = LeftAfter(n)
        /\ LeftAfter(Len(toServer))' = {x \in LeftAfter(Len(toServer)) : ~Stops(m, x)}
    BY <1>1, <1>6, LeftAppend
  <2>3. ~strayed => LeftAfter(Len(toServer)) = current
    <3>1. {toClient[i].sid : i \in {j \in DOMAIN toClient :
                                        toClient[j].type = "accept" /\ toClient[j].ok}} = {}
      BY <1>1
    <3> QED BY <1>6, <3>1 DEF CInv, SessionsAgree, Connected
  <2>4. TypeOK'
    <3>1. /\ Len(toServer') <= MaxQueue + 1
          /\ \A i \in DOMAIN toServer' : toServer'[i] \in ToServer
      BY <1>1, <2>1, ControlAssumption
    <3> QED BY <1>1, <1>4, <3>1 DEF CInv, TypeOK
  <2>5. QueueOK'
    <3>1. \A i \in DOMAIN toServer' : toServer'[i].type \in {"stop", "stopN"}
      <4>1. \A i \in 1 .. L : toServer[i].type \in {"stop", "stopN"}
        BY <1>1, <2>1 DEF CInv, QueueOK
      <4> QED BY <2>1, <4>1
    <3> HIDE DEF L
    <3> QED BY <1>1, <1>2, <1>6, <2>1, <3>1 DEF CInv, QueueOK, Up
  <2>6. SessionsAgree'
    BY <1>1, <1>4, <1>6, <2>2, <2>3 DEF CInv, SessionsAgree, Connected
  <2>7. NumbersOK'
    <3> SUFFICES ASSUME ~strayed, NEW i \in DOMAIN toServer', toServer'[i].type = "stop"
                 PROVE  toServer'[i].n = Cardinality(LeftAfter(i - 1)')
      BY <1>1 DEF NumbersOK
    <3>1. CASE i \in 1 .. L
      <4>1. i - 1 \in 0 .. L
        BY <2>1, <3>1
      <4> QED BY <2>1, <2>2, <3>1, <4>1 DEF CInv, NumbersOK
    <3>2. CASE i = L + 1
      <4>1. i - 1 = L /\ L \in 0 .. L
        BY <2>1, <3>2
      <4>2. LeftAfter(i - 1)' = LeftAfter(L)
        BY <2>2, <4>1
      <4> QED BY <2>1, <2>3, <3>2, <4>2
    <3> QED BY <2>1, <3>1, <3>2
  <2> QED BY <1>3, <2>4, <2>5, <2>6, <2>7 DEF CInv
<1> QED BY <1>1, <1>5, <1>6

(* The reply is always one that the client can verify; it is then as far   *)
(* as the server.                                                          *)
LEMMA ReplyInv ==
    ASSUME CInv, SessionAccepted \/ StartAcknowledged
    PROVE  CInv'
<1> DEFINE m == toClient[1]
<1>1. /\ cl \in {"request", "start"} /\ toClient # <<>> /\ toClient' = <<>> /\ cl' = "idle"
      /\ Head(toClient) = m /\ DOMAIN toClient = {1}
      /\ UNCHANGED <<preferred, supported, secret, keyKnown, clMode, strayed, sv, svMode,
                     svPending, ccSessions, sessions, toServer>>
  BY LastReply DEF SessionAccepted, StartAcknowledged, config, svVars, CInv
<1>2. Readable(m) /\ ~svPending /\ (Secure(clMode) => secret = "same")
  BY <1>1 DEF CInv, PendingOK, Readable
<1>3. /\ ~clPending' /\ clPending' \in BOOLEAN
      /\ current' = IF cl = "request" /\ m.ok THEN current \cup {m.sid} ELSE current
      /\ running' \subseteq current' /\ current \subseteq current'
    <2>1. CASE SessionAccepted
      BY <1>1, <1>2, <2>1 DEF SessionAccepted, CInv, TypeOK, SessionsAgree
    <2>2. CASE StartAcknowledged
      BY <1>1, <1>2, <2>2 DEF StartAcknowledged, CInv, TypeOK, SessionsAgree
    <2> QED BY <2>1, <2>2
<1>4. /\ cl = "request" => m.type = "accept"
      /\ cl = "start" => m.type = "ack"
      /\ m.type = "accept" /\ m.ok => m.sid \in SIDs
  BY <1>1 DEF CInv, QueueOK
<1>5. {toClient[i].sid : i \in {j \in DOMAIN toClient :
                                  toClient[j].type = "accept" /\ toClient[j].ok}}
        = IF cl = "request" /\ m.ok THEN {m.sid} ELSE {}
  BY <1>1, <1>4
<1> HIDE DEF m
<1>6. TypeOK'
  <2>1. current' \subseteq SIDs /\ running' \subseteq SIDs
    BY <1>3, <1>4 DEF CInv, TypeOK
  <2> QED BY <1>1, <1>3, <2>1 DEF CInv, TypeOK
<1>7. QueueOK'
  BY <1>1 DEF CInv, QueueOK, Up, Selected, Common
<1>8. ModesOK' /\ PendingOK' /\ EmptyOK'
  <2>1. ModesOK' /\ EmptyOK'
    BY <1>1 DEF CInv, ModesOK, EmptyOK, Up, Selected, Common
  <2>2. svPending \in BOOLEAN
    BY DEF CInv, TypeOK
  <2>3. svPending' = clPending'
    BY <1>1, <1>2, <1>3, <2>2
  <2>4. PendingOK'
    BY <1>1, <1>2, <1>3, <2>3 DEF PendingOK, Up
  <2> QED BY <2>1, <2>4
<1>9. KeysNeeded'
  BY <1>1, <1>2, <1>3 DEF CInv, KeysNeeded, Secure
<1>10. LeftAfter(Len(toServer))' = LeftAfter(Len(toServer))
  BY <1>1 DEF LeftAfter
<1>11. SessionsAgree'
  BY <1>1, <1>3, <1>5, <1>10 DEF CInv, SessionsAgree, Connected
<1>12. NumbersOK'
  BY <1>1 DEF CInv, NumbersOK, LeftAfter
<1> QED BY <1>6, <1>7, <1>8, <1>9, <1>11, <1>12 DEF CInv

(* Calls that tell the server nothing, and stopSession on the server.      *)
LEMMA LocalInv ==
    ASSUME CInv, UNCHANGED <<config, clMode, clPending, sv, svMode, svPending, ccSessions, net>>,
           cl' \in {cl, IF cl = "idle" THEN "closed" ELSE cl},
           cl' # cl => current' = {} \/ sv = "closed",
           current' \subseteq current, running' \subseteq current', sessions' \subseteq SIDs,
           current' # current => strayed' = TRUE, strayed' \in {strayed, TRUE}
    PROVE  CInv'
<1>1. UNCHANGED <<preferred, supported, secret, keyKnown, clMode, clPending, sv, svMode, svPending,
                  ccSessions, toServer, toClient>>
  BY DEF config, net
<1>2. TypeOK'
  BY <1>1 DEF CInv, TypeOK
<1>3. QueueOK'
  BY <1>1 DEF CInv, QueueOK, Up, Selected, Common
<1>4. ModesOK' /\ PendingOK' /\ EmptyOK'
  BY <1>1 DEF CInv, ModesOK, PendingOK, EmptyOK, Up, Selected, Common, Secure
<1>5. KeysNeeded'
  BY <1>1 DEF CInv, KeysNeeded, Secure
<1>6. SessionsAgree' /\ NumbersOK'
  BY <1>1 DEF CInv, SessionsAgree, NumbersOK, LeftAfter, Connected, TypeOK
<1> QED BY <1>2, <1>3, <1>4, <1>5, <1>6 DEF CInv

-----------------------------------------------------------------------------
(* The server's command loop.                                              *)

(* A command that is answered is the last one on its way, and the client   *)
(* waits for the answer.                                                   *)
LEMMA AnswerInv ==
    ASSUME CInv, NEW k \in {"request", "start"}, NextCommand(k),
           NEW m \in ToClient, Reply(m), PrefixUsed, m.prefixed = svPending,
           m.type = IF k = "request" THEN "accept" ELSE "ack",
           k = "request" /\ m.ok => m.sid \in SIDs,
           ccSessions' = IF k = "request" /\ m.ok THEN ccSessions \cup {m.sid} ELSE ccSessions,
           sessions' \subseteq SIDs
    PROVE  CInv'
<1>1. /\ sv = "loop" /\ toServer # <<>> /\ toServer \in Seq(ToServer) /\ toServer[1].type = k
      /\ toServer' = Tail(toServer) /\ ~svPending' /\ svPending' \in BOOLEAN
      /\ Secure(svMode) => secret = "same"
      /\ UNCHANGED <<preferred, supported, secret, keyKnown, cl, clMode, clPending, current, running,
                     strayed, sv, svMode>>
  BY Queue DEF NextCommand, Verified, PrefixUsed, config, clVars, CInv, QueueOK
<1>2. cl = k /\ toClient = <<>> /\ Len(toServer) = 1
  <2>1. 1 \in DOMAIN toServer
    BY <1>1, Queue
  <2> QED BY <1>1, <2>1 DEF CInv, QueueOK
<1>3. toServer' = <<>>
  <2>1. Tail(toServer) \in Seq(ToServer) /\ Len(Tail(toServer)) = 0
    BY <1>1, <1>2, Queue
  <2> QED BY <1>1, <2>1, Queue
<1>4. toClient' \in Seq(ToClient) /\ DOMAIN toClient' = {1} /\ toClient'[1] = m
      /\ Len(toClient') = 1
  BY <1>2, OnlyReply
<1>5. Selected' = Selected /\ Common' = Common /\ svMode = clMode /\ svPending = clPending
  BY <1>1, <1>2 DEF Selected, Common, CInv, ModesOK, PendingOK, Up
<1>6. TypeOK'
  BY <1>1, <1>3, <1>4, ControlAssumption DEF CInv, TypeOK
<1>7. QueueOK'
  BY <1>1, <1>2, <1>3, <1>4, <1>5 DEF CInv, QueueOK, Up
<1>8. ModesOK' /\ EmptyOK'
  BY <1>1, <1>2, <1>5 DEF CInv, ModesOK, EmptyOK, Up
<1>9. PendingOK'
  BY <1>1, <1>2, <1>4, <1>5 DEF CInv, PendingOK, Up, Secure
<1>10. KeysNeeded'
  BY <1>1, <1>5 DEF CInv, KeysNeeded, Secure
<1>11. SessionsAgree'
  <2> SUFFICES ASSUME ~strayed
               PROVE  LeftAfter(Len(toServer))' =
                        current \cup {toClient'[i].sid : i \in {j \in DOMAIN toClient' :
                                         toClient'[j].type = "accept" /\ toClient'[j].ok}}
    BY <1>1 DEF CInv, SessionsAgree
  <2>1. {toClient[i].sid : i \in {j \in DOMAIN toClient :
                                    toClient[j].type = "accept" /\ toClient[j].ok}} = {}
    BY <1>2
  <2>2. LeftAfter(Len(toServer)) = current
    BY <1>1, <1>2, <2>1 DEF CInv, SessionsAgree, Connected
  <2>3. LeftAfter(Len(toServer)) = ccSessions
    BY <1>1, <1>2 DEF LeftAfter, Stops
  <2>4. LeftAfter(Len(toServer))' = ccSessions'
    BY <1>3 DEF LeftAfter
  <2>5. {toClient'[i].sid : i \in {j \in DOMAIN toClient' :
                                     toClient'[j].type = "accept" /\ toClient'[j].ok}}
          = IF k = "request" /\ m.ok THEN {m.sid} ELSE {}
    BY <1>4
  <2> QED BY <2>2, <2>3, <2>4, <2>5
<1>12. NumbersOK'
  BY <1>3 DEF NumbersOK
<1> QED BY <1>6, <1>7, <1>8, <1>9, <1>10, <1>11, <1>12 DEF CInv

(* A command that takes sessions off the list of the connection.           *)
LEMMA StopInv == ASSUME CInv, HandleStop \/ HandleStopN PROVE CInv'
<1>1. /\ sv = "loop" /\ toServer # <<>> /\ toServer \in Seq(ToServer)
      /\ toServer[1].type \in {"stop", "stopN"}
      /\ toServer' = Tail(toServer)
      /\ ccSessions' = {x \in ccSessions : ~Stops(toServer[1], x)}
      /\ UNCHANGED <<preferred, supported, secret, keyKnown, cl, clMode, clPending, current, running,
                     strayed, sv, svMode, svPending, sessions, toClient>>
  <2>1. toServer \in Seq(ToServer) /\ (toServer # <<>> => Head(toServer) = toServer[1])
    BY Queue DEF CInv, QueueOK
  <2> QED BY <2>1 DEF HandleStop, HandleStopN, NextCommand, Stops, config, clVars
<1>2. /\ Len(toServer) \in Nat /\ Len(toServer) # 0 /\ DOMAIN toServer = 1 .. Len(toServer)
      /\ toServer' \in Seq(ToServer) /\ Len(toServer') = Len(toServer) - 1
      /\ DOMAIN toServer' = 1 .. (Len(toServer) - 1)
      /\ \A i \in 1 .. (Len(toServer) - 1) : toServer'[i] = toServer[i + 1]
      /\ \A i \in DOMAIN toServer : toServer[i] \in ToServer
  BY <1>1, Queue
<1>3. \A n \in 0 .. (Len(toServer) - 1) : LeftAfter(n)' = LeftAfter(n + 1)
  BY <1>1, LeftTail
<1>4. ASSUME NEW i \in DOMAIN toServer'
      PROVE  /\ i + 1 \in DOMAIN toServer /\ toServer'[i] = toServer[i + 1]
             /\ i + 1 = Len(toServer) <=> i = Len(toServer')
             /\ i - 1 \in 0 .. (Len(toServer) - 1) /\ (i - 1) + 1 = i /\ (i + 1) - 1 = i
  BY <1>2
<1>5. Selected' = Selected /\ Common' = Common
  BY <1>1 DEF Selected, Common
<1>6. TypeOK'
  <2>1. Len(toServer') <= MaxQueue + 1 /\ \A i \in DOMAIN toServer' : toServer'[i] \in ToServer
    BY <1>2, <1>4, ControlAssumption DEF CInv, TypeOK
  <2> QED BY <1>1, <2>1 DEF CInv, TypeOK
<1>7. QueueOK'
  <2>1. \A i \in DOMAIN toServer' :
          \/ /\ toServer'[i].type \in {"stop", "stopN"}
             /\ sv = "loop" /\ cl \notin {"connect", "setup"}
          \/ /\ i = Len(toServer') /\ toClient = <<>> /\ toServer'[i].type = cl
             /\ cl \in {"request", "start"} /\ sv = "loop"
    BY <1>1, <1>4 DEF CInv, QueueOK
  <2> QED BY <1>1, <1>2, <1>5, <2>1 DEF CInv, QueueOK, Up
<1>8. ModesOK' /\ PendingOK' /\ EmptyOK' /\ KeysNeeded'
  BY <1>1, <1>5 DEF CInv, ModesOK, PendingOK, EmptyOK, KeysNeeded, Up, Secure
<1>9. LeftAfter(Len(toServer))' = LeftAfter(Len(toServer))
  <2>0. Len(toServer) - 1 \in Nat
    BY <1>2
  <2>1. PICK n \in Nat : n = Len(toServer) - 1
    BY <2>0
  <2>2. Len(toServer') = n /\ n + 1 = Len(toServer) /\ n \in 0 .. (Len(toServer) - 1)
    BY <1>2, <2>1
  <2>3. LeftAfter(n)' = LeftAfter(n + 1)
    BY <1>3, <2>2
  <2> QED BY <2>2, <2>3
<1>10. SessionsAgree'
  BY <1>1, <1>9 DEF CInv, SessionsAgree, Connected
<1>11. NumbersOK'
  <2> SUFFICES ASSUME ~strayed, NEW i \in DOMAIN toServer', toServer'[i].type = "stop"
               PROVE  toServer'[i].n = Cardinality(LeftAfter(i - 1)')
    BY <1>1 DEF NumbersOK
  <2>1. LeftAfter(i - 1)' = LeftAfter(i)
    BY <1>3, <1>4
  <2>2. toServer[i + 1].n = Cardinality(LeftAfter((i + 1) - 1))
    BY <1>4 DEF CInv, NumbersOK
  <2> QED BY <1>4, <2>1, <2>2
<1> QED BY <1>6, <1>7, <1>8, <1>10, <1>11 DEF CInv

-----------------------------------------------------------------------------
(* The whole invariant.                                                    *)

(* The messages are what the two sides expect.                             *)
LEMMA Messages ==
    /\ \A x \in SIDs \cup {None} : RequestTW(x) \in ToServer /\ RequestTW(x).type = "request"
    /\ StartCmd \in ToServer /\ StartCmd.type = "start"
    /\ \A n \in 0 .. Cardinality(SIDs) :
         StopCmd(n) \in ToServer /\ StopCmd(n).type = "stop" /\ StopCmd(n).n = n
    /\ \A S \in SUBSET SIDs :
         StopNCmd(S) \in ToServer /\ StopNCmd(S).type = "stopN" /\ StopNCmd(S).sids = S
    /\ \A ok \in BOOLEAN, p \in BOOLEAN :
         /\ StartAck(ok, p) \in ToClient /\ StartAck(ok, p).type = "ack"
         /\ StartAck(ok, p).ok = ok /\ StartAck(ok, p).prefixed = p
<1>1. \A x \in SIDs \cup {None} : RequestTW(x) \in ToServer /\ RequestTW(x).type = "request"
  BY DEF RequestTW, ToServer
<1>2. StartCmd \in ToServer /\ StartCmd.type = "start"
  BY DEF StartCmd, ToServer
<1>3. \A n \in 0 .. Cardinality(SIDs) :
        StopCmd(n) \in ToServer /\ StopCmd(n).type = "stop" /\ StopCmd(n).n = n
  BY DEF StopCmd, ToServer
<1>4. \A S \in SUBSET SIDs :
        StopNCmd(S) \in ToServer /\ StopNCmd(S).type = "stopN" /\ StopNCmd(S).sids = S
  BY DEF StopNCmd, ToServer
<1>5. \A ok \in BOOLEAN, p \in BOOLEAN :
        /\ StartAck(ok, p) \in ToClient /\ StartAck(ok, p).type = "ack"
        /\ StartAck(ok, p).ok = ok /\ StartAck(ok, p).prefixed = p
  BY DEF StartAck, ToClient
<1> QED BY <1>1, <1>2, <1>3, <1>4, <1>5

(* The answers to a request.                                               *)
LEMMA AcceptMessage ==
    ASSUME NEW ok \in BOOLEAN, NEW x \in SIDs \cup {None}, NEW p \in BOOLEAN
    PROVE  /\ AcceptSession(ok, x, p) \in ToClient /\ AcceptSession(ok, x, p).type = "accept"
           /\ AcceptSession(ok, x, p).ok = ok /\ AcceptSession(ok, x, p).sid = x
           /\ AcceptSession(ok, x, p).prefixed = p
BY DEF AcceptSession, ToClient

(* Both sides before anything was sent.                                    *)
LEMMA InitCInv == Init => CInv
<1> SUFFICES ASSUME Init PROVE CInv
  OBVIOUS
<1>1. Len(toServer) = 0 /\ Len(toClient) = 0 /\ DOMAIN toServer = {} /\ DOMAIN toClient = {}
      /\ toServer \in Seq(ToServer) /\ toClient \in Seq(ToClient)
  BY DEF Init
<1>2. NoMode \in Modes
  BY DEF NoMode, Modes
<1>3. TypeOK
  <2>1. Len(toServer) <= MaxQueue + 1 /\ Len(toClient) <= 1
    BY <1>1, ControlAssumption
  <2>2. clMode \in Modes /\ svMode \in Modes
    BY <1>2 DEF Init
  <2> QED BY <1>1, <2>1, <2>2 DEF Init, TypeOK
<1>4. QueueOK /\ ModesOK /\ PendingOK /\ EmptyOK
  BY <1>1 DEF Init, QueueOK, ModesOK, PendingOK, EmptyOK, Up
<1>5. KeysNeeded /\ SessionsAgree /\ NumbersOK
  BY <1>1 DEF Init, KeysNeeded, SessionsAgree, NumbersOK, Connected
<1> QED BY <1>3, <1>4, <1>5 DEF CInv

(* Every step keeps it.                                                    *)
LEMMA NextCInv == CInv /\ Next => CInv'
<1> SUFFICES ASSUME CInv, Next PROVE CInv'
  OBVIOUS
<1>0. /\ current \subseteq SIDs /\ running \subseteq current /\ sessions \subseteq SIDs
      /\ ccSessions \subseteq SIDs /\ svPending \in BOOLEAN /\ strayed \in BOOLEAN
  BY DEF CInv, TypeOK, SessionsAgree
<1>1. CASE ClientReads
  BY <1>1, NegotiateInv, ServerStartInv, ReplyInv, ReadFailsInv DEF ClientReads
<1>2. CASE \/ \E x \in SIDs \cup {None} : RequestSession(x)
           \/ StartSessions
  <2>1. PICK m \in ToServer :
          /\ m.type \in {"request", "start"} /\ cl' = m.type /\ Send(m) /\ CanSend
          /\ UNCHANGED <<config, clMode, clPending, current, running, strayed, svVars, toClient>>
    BY <1>2, Messages DEF RequestSession, StartSessions
  <2> QED BY <2>1, AskInv
<1>3. CASE \/ StopSessions
           \/ \E S \in SUBSET SIDs : StopNSessions(S)
           \/ Close /\ current # {} /\ Send(StopCmd(NumSessions)) /\ Len(toServer) < MaxQueue
                    /\ running' = running \ current /\ current' = {}
  <2>1. NumSessions \in 0 .. Cardinality(SIDs)
    BY ListSize DEF NumSessions, CInv
  <2>2. \A x : Stops(StopCmd(NumSessions), x)
    BY <2>1, Messages DEF Stops
  <2>3. CASE StopSessions \/ (Close /\ current # {} /\ Send(StopCmd(NumSessions))
                                    /\ Len(toServer) < MaxQueue
                                    /\ running' = running \ current /\ current' = {})
    <3> DEFINE m == StopCmd(NumSessions)
    <3>1. m \in ToServer /\ m.type = "stop" /\ m.n = Cardinality(current)
      BY <2>1, Messages DEF NumSessions
    <3>2. /\ cl = "idle" /\ cl' \in {"idle", "closed"} /\ Len(toServer) < MaxQueue /\ Send(m)
          /\ current' = {} /\ running' = running \ current
          /\ UNCHANGED <<config, clMode, clPending, strayed, svVars, toClient>>
      BY <2>3 DEF StopSessions, Close, CanSend
    <3>3. current' = {x \in current : ~Stops(m, x)} /\ running' = running \cap current'
      BY <1>0, <2>2, <3>2
    <3> HIDE DEF m
    <3> QED BY <3>1, <3>2, <3>3, TellInv
  <2>4. ASSUME NEW S \in SUBSET SIDs, StopNSessions(S) PROVE CInv'
    <3> DEFINE m == StopNCmd(S)
    <3>1. m \in ToServer /\ m.type = "stopN" /\ m.sids = S
      BY Messages
    <3>2. /\ cl = "idle" /\ cl' = "idle" /\ Len(toServer) < MaxQueue /\ Send(m)
          /\ current' = current \ S /\ running' = running \ S
          /\ UNCHANGED <<config, clMode, clPending, strayed, svVars, toClient>>
      BY <2>4 DEF StopNSessions, DropSessions, CanSend
    <3> HIDE DEF m
    <3>3. current' = {x \in current : ~Stops(m, x)} /\ running' = running \cap current'
      BY <1>0, <3>1, <3>2 DEF Stops
    <3> QED BY <3>1, <3>2, <3>3, TellInv
  <2> QED BY <1>3, <2>3, <2>4
<1>4. CASE \/ \E x \in SIDs : StartSession(x) \/ StopSession(x) \/ SessionEnds(x)
           \/ Close /\ UNCHANGED <<current, running, toServer>>
           \/ Terminated
  <2>1. /\ UNCHANGED <<config, clMode, clPending, sv, svMode, svPending, ccSessions, net>>
        /\ cl' \in {cl, IF cl = "idle" THEN "closed" ELSE cl}
        /\ cl' # cl => current' = {} \/ sv = "closed"
        /\ current' \subseteq current /\ running' \subseteq current' /\ sessions' \subseteq SIDs
        /\ current' # current => strayed' = TRUE
        /\ strayed' \in {strayed, TRUE}
    BY <1>0, <1>4 DEF StartSession, StopSession, SessionEnds, Close, Terminated, vars, clVars,
       svVars, net
  <2> QED BY <2>1, LocalInv
<1>5. CASE ServerHangsUp \/ RejectCommand
  BY <1>5, HangupInv DEF ServerHangsUp, RejectCommand
<1>6. CASE RefuseRequest
  <2> DEFINE m == AcceptSession(FALSE, None, svPending)
  <2>1. m \in ToClient /\ m.type = "accept" /\ ~m.ok /\ m.prefixed = svPending
    <3>1. FALSE \in BOOLEAN /\ None \in SIDs \cup {None}
      OBVIOUS
    <3>2. m \in ToClient /\ m.type = "accept" /\ m.ok = FALSE /\ m.prefixed = svPending
      BY <1>0, <3>1, AcceptMessage
    <3> QED BY <3>2
  <2>2. NextCommand("request") /\ Reply(m) /\ PrefixUsed /\ UNCHANGED <<ccSessions, sessions>>
    BY <1>6 DEF RefuseRequest, Refuse
  <2> HIDE DEF m
  <2> QED BY <1>0, <2>1, <2>2, AnswerInv
<1>7. ASSUME NEW x \in SIDs, AcceptRequest(x) PROVE CInv'
  <2> DEFINE m == AcceptSession(TRUE, x, svPending)
  <2>1. m \in ToClient /\ m.type = "accept" /\ m.ok /\ m.sid = x /\ m.prefixed = svPending
    <3>1. TRUE \in BOOLEAN /\ x \in SIDs \cup {None}
      OBVIOUS
    <3>2. /\ m \in ToClient /\ m.type = "accept" /\ m.ok = TRUE /\ m.sid = x
          /\ m.prefixed = svPending
      BY <1>0, <3>1, AcceptMessage
    <3> QED BY <3>2
  <2>2. /\ NextCommand("request") /\ Reply(m) /\ PrefixUsed
        /\ ccSessions' = ccSessions \cup {x} /\ sessions' \subseteq SIDs
    BY <1>0, <1>7 DEF AcceptRequest
  <2> HIDE DEF m
  <2> QED BY <2>1, <2>2, AnswerInv
<1>8. ASSUME NEW ok \in BOOLEAN, HandleStart(ok) PROVE CInv'
  <2> DEFINE m == StartAck(ok, svPending)
  <2>1. m \in ToClient /\ m.type = "ack" /\ m.prefixed = svPending
    BY <1>0, Messages
  <2>2. NextCommand("start") /\ Reply(m) /\ PrefixUsed /\ UNCHANGED <<ccSessions, sessions>>
    BY <1>8 DEF HandleStart
  <2> HIDE DEF m
  <2> QED BY <1>0, <2>1, <2>2, AnswerInv
<1>9. CASE ServerStep
  BY <1>5, <1>6, <1>7, <1>8, <1>9, GreetingInv, ClientSetupInv, StopInv DEF ServerStep
<1>10. CASE ClientCalls
  BY <1>2, <1>3, <1>4, <1>10 DEF ClientCalls, Close
<1> QED BY <1>1, <1>4, <1>5, <1>9, <1>10 DEF Next

(* CInv is inductive.                                                      *)
LEMMA ControlInvariant == Spec => []CInv
<1>1. CInv /\ UNCHANGED vars => CInv'
  <2> SUFFICES ASSUME CInv, UNCHANGED vars PROVE CInv'
    OBVIOUS
  <2>1. /\ UNCHANGED <<config, clMode, clPending, sv, svMode, svPending, ccSessions, net, cl,
                       current, running, sessions, strayed>>
        /\ running \subseteq current /\ sessions \subseteq SIDs
    BY DEF vars, clVars, svVars, CInv, TypeOK, SessionsAgree
  <2> QED BY <2>1, LocalInv
<1> QED BY <1>1, InitCInv, NextCInv, PTL DEF Spec

-----------------------------------------------------------------------------
(* The theorems.                                                           *)

(* Both sides and the messages between them keep their types; no more than *)
(* one reply is ever on its way.                                           *)
THEOREM ControlTypes == Spec => []TypeOK
<1>1. CInv => TypeOK
  BY DEF CInv
<1> QED BY <1>1, ControlInvariant, PTL

(* A connection that comes up has the same modes on both sides, with the   *)
(* strongest security that both are configured for.                        *)
THEOREM ConnectionsAgreeOnModes == Spec => []ModesAgree
<1>1. CInv => ModesAgree
  <2> SUFFICES ASSUME CInv, Connected
               PROVE  /\ svMode = clMode
                      /\ svMode.mode \subseteq preferred \cap supported
                      /\ \A b \in preferred \cap supported \cap Security :
                            \E a \in svMode.mode \cap Security : Rank(b) <= Rank(a)
                      /\ "unauthenticated" \in svMode.test \ svMode.control =>
                            "mixed" \in svMode.mode
    BY DEF ModesAgree
  <2>1. svMode = clMode /\ svMode = Resolved(Selected) /\ Common # {}
    BY DEF CInv, ModesOK, Connected, Up
  <2>2. svMode.mode = Selected
    BY <2>1 DEF Resolved
  <2>3. "unauthenticated" \in svMode.test \ svMode.control => "mixed" \in svMode.mode
    BY <2>1 DEF Resolved
  <2>4. /\ Selected \subseteq preferred \cap supported
        /\ BaseSecurity(Common) \in Security
        /\ \A b \in Common : Rank(b) <= Rank(BaseSecurity(Common))
    BY <2>1, SelectedMode DEF CInv
  <2>5. BaseSecurity(Common) \in svMode.mode \cap Security
    BY <2>2, <2>4 DEF Selected
  <2> QED BY <2>1, <2>2, <2>3, <2>4, <2>5 DEF Common
<1> QED BY <1>1, ControlInvariant, PTL

(* The client can verify every reply that a server with its keys sends:    *)
(* both agree on which one has Server-Start in its HMAC.                   *)
THEOREM RepliesVerifiable == Spec => []RepliesVerify
<1>1. CInv => RepliesVerify
  BY DEF CInv, PendingOK, RepliesVerify, Readable
<1> QED BY <1>1, ControlInvariant, PTL

(* Both sides list the same sessions, up to the messages on their way, and *)
(* the client lists every test session that it left running, which after   *)
(* Close is none unless the server has hung up before (SessionsAgree).     *)
THEOREM SessionListsAgree == Spec => []SessionsAgree
<1>1. CInv => SessionsAgree
  BY DEF CInv
<1> QED BY <1>1, ControlInvariant, PTL

(* A Stop-Sessions has the number that the server checks it against,       *)
(* however many commands were on their way when it was sent.               *)
THEOREM StopNumbersMatch == Spec => []StopMatches
<1>1. CInv => StopMatches
  <2> SUFFICES ASSUME CInv, sv = "loop", ~strayed, toServer # <<>>, Head(toServer).type = "stop"
               PROVE  Head(toServer).n = Cardinality(ccSessions)
    BY DEF StopMatches
  <2>1. 1 \in DOMAIN toServer /\ Head(toServer) = toServer[1]
    BY Queue DEF CInv, QueueOK
  <2>2. LeftAfter(1 - 1) = ccSessions
    BY DEF LeftAfter
  <2> QED BY <2>1, <2>2 DEF CInv, NumbersOK
<1> QED BY <1>1, ControlInvariant, PTL

(* On a secure connection neither side has a session unless the client has *)
(* the server's secret.                                                    *)
THEOREM SessionsNeedKeys == Spec => []KeysNeeded
<1>1. CInv => KeysNeeded
  BY DEF CInv
<1> QED BY <1>1, ControlInvariant, PTL
====
