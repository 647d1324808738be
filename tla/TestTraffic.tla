----------------------------- MODULE TestTraffic -----------------------------
(***************************************************************************)
(* The client's side of a test session (src/client/test_session.go): the   *)
(* goroutines that call SendTestPacket, the receivers of StartReceiving,   *)
(* Start and Stop, and the replies of the server's reflector over a        *)
(* network that loses, delays, reorders and duplicates packets.            *)
(*                                                                         *)
(* Start and Stop are called by one goroutine, one after the other;        *)
(* everything else may be called at any time.  SenderPort is not 0, so the *)
(* session has one local port.  Left out: packet contents (a reply         *)
(* verifies or not), timestamps and round-trip times.                      *)
(*                                                                         *)
(* An operator whose name ends in _Faulty is the definition after it with  *)
(* one plausible mistake, to see that a property notices it.               *)
(***************************************************************************)
EXTENDS Integers, FiniteSets

CONSTANTS
    Senders,    \* goroutines that call SendTestPacket
    Receivers,  \* receiver goroutines (bounds calls of StartReceiving)
    Width,      \* 2^32: the counters are uint32
    MaxSeq,     \* bound: packets sent
    MaxDups,    \* bound: packets the network duplicates
    MaxStarts   \* bound: successful calls of Start

ASSUME TrafficAssumption ==
    /\ MaxSeq \in Nat /\ MaxDups \in Nat /\ MaxStarts \in Nat /\ Width \in Nat
    /\ MaxSeq + MaxDups < Width
    /\ IsFiniteSet(Receivers)

Seq     == 0 .. (MaxSeq - 1)
Replies == Seq \X (0 .. (MaxSeq + MaxDups))

VARIABLES
    ctl,            \* what the caller of Start and Stop is in
    isStopping,
    conn,           \* TestSession.conn: the Start it is from, 0 for nil
    stopChan,       \* TestSession.stopChan is not nil
    taken,          \* the conn Stop has taken out of the session
    open,           \* open sockets
    starts,         \* Starts that got a socket
    cancelled,      \* the receivers' context
    seqNo, totalSent, totalReceived,
    results,        \* results: per sequence number, what is stored
    send, sendSeq,  \* where a sender is, and its sequence number
    recv, reply,    \* where a receiver is, and the reply it has read
    toReflector, toSender,  \* packets and replies in the network
    reflected,      \* TestSession.reflectedPackets of the server
    dups,           \* packets the network duplicated
    crashed,        \* the client died of a nil dereference
    written         \* history: sequence numbers that were sent

lifeVars == <<ctl, isStopping, conn, stopChan, taken, open, starts, cancelled>>
sendVars == <<seqNo, totalSent, send, sendSeq, written>>
recvVars == <<recv, reply, totalReceived>>
netVars  == <<toReflector, toSender, reflected, dups>>
vars == <<lifeVars, sendVars, recvVars, netVars, results, crashed>>

NoReply == <<0, 0>>

TypeOK ==
    /\ ctl \in {"idle", "starting", "stopping"}
    /\ isStopping \in BOOLEAN /\ stopChan \in BOOLEAN
    /\ cancelled \in BOOLEAN /\ crashed \in BOOLEAN
    /\ starts \in 0 .. MaxStarts /\ conn \in 0 .. MaxStarts /\ taken \in 0 .. MaxStarts
    /\ open \subseteq 1 .. MaxStarts
    /\ seqNo \in 0 .. MaxSeq /\ totalSent \in 0 .. MaxSeq
    /\ totalReceived \in 0 .. (MaxSeq + MaxDups)
    /\ results \in [Seq -> {"absent", "sent", "received"}]
    /\ send \in [Senders -> {"idle", "numbered", "stored"}]
    /\ sendSeq \in [Senders -> Nat]
    /\ recv \in [Receivers -> {"none", "head", "reading", "got", "stored", "done"}]
    /\ reply \in [Receivers -> Nat \X Nat]
    /\ toReflector \subseteq Seq /\ toSender \subseteq Replies /\ written \subseteq Seq
    /\ reflected \in 0 .. (MaxSeq + MaxDups) /\ dups \in 0 .. MaxDups

(* NewTestSession makes the first stop channel.                            *)
Init ==
    /\ ctl = "idle" /\ isStopping = FALSE /\ conn = 0 /\ stopChan = TRUE /\ taken = 0
    /\ open = {} /\ starts = 0 /\ cancelled = FALSE /\ crashed = FALSE
    /\ seqNo = 0 /\ totalSent = 0 /\ totalReceived = 0 /\ written = {}
    /\ results = [q \in Seq |-> "absent"]
    /\ send = [w \in Senders |-> "idle"] /\ sendSeq = [w \in Senders |-> 0]
    /\ recv = [r \in Receivers |-> "none"] /\ reply = [r \in Receivers |-> NoReply]
    /\ toReflector = {} /\ toSender = {} /\ reflected = 0 /\ dups = 0

-----------------------------------------------------------------------------
(* Start and Stop.                                                         *)

(* The first section of Start under the mutex ...                          *)
StartBegins ==
    /\ ~crashed /\ ctl = "idle"
    /\ ctl' = "starting"
    /\ isStopping' = FALSE
    /\ stopChan' = TRUE
    /\ UNCHANGED <<conn, taken, open, starts, cancelled, sendVars, recvVars, netVars, results,
                   crashed>>

(* The faulty one starts the numbers and counts anew.                      *)
StartListens_Faulty ==
    /\ ~crashed /\ ctl = "starting" /\ open = {} /\ starts < MaxStarts
    /\ ctl' = "idle"
    /\ starts' = starts + 1
    /\ conn' = starts'
    /\ open' = open \cup {starts'}
    /\ seqNo' = 0 /\ totalSent' = 0 /\ totalReceived' = 0
    /\ UNCHANGED <<isStopping, stopChan, taken, cancelled, send, sendSeq, written, recv, reply,
                   netVars, results, crashed>>

(* ... and the second, once ListenUDP has the sender port, ...             *)
StartListens ==
    /\ ~crashed /\ ctl = "starting" /\ open = {} /\ starts < MaxStarts
    /\ ctl' = "idle"
    /\ starts' = starts + 1
    /\ conn' = starts'
    /\ open' = open \cup {starts'}
    /\ UNCHANGED <<isStopping, stopChan, taken, cancelled, sendVars, recvVars, netVars, results,
                   crashed>>

(* ... or an error: the port is taken, by this session's socket as well.   *)
StartFails ==
    /\ ~crashed /\ ctl = "starting"
    /\ ctl' = "idle"
    /\ UNCHANGED <<isStopping, conn, stopChan, taken, open, starts, cancelled, sendVars,
                   recvVars, netVars, results, crashed>>

(* Take conn and stopChan, leaving nil, and close the channel.  A session  *)
(* that is already stopping is left alone.                                 *)
StopBegins ==
    /\ ~crashed /\ ctl = "idle" /\ ~isStopping
    /\ ctl' = "stopping"
    /\ isStopping' = TRUE
    /\ taken' = conn
    /\ conn' = 0
    /\ stopChan' = FALSE
    /\ UNCHANGED <<open, starts, cancelled, sendVars, recvVars, netVars, results, crashed>>

(* receiverWg.Wait                                                         *)
ReceiversDone_Faulty == TRUE
ReceiversDone == \A r \in Receivers : recv[r] \in {"none", "done"}

(* Once the receivers have returned, close the socket.                     *)
StopReturns ==
    /\ ~crashed /\ ctl = "stopping" /\ ReceiversDone
    /\ ctl' = "idle"
    /\ open' = open \ {taken}
    /\ taken' = 0
    /\ UNCHANGED <<isStopping, conn, stopChan, starts, cancelled, sendVars, recvVars, netVars,
                   results, crashed>>

CancelContext ==
    /\ ~crashed /\ ~cancelled
    /\ cancelled' = TRUE
    /\ UNCHANGED <<ctl, isStopping, conn, stopChan, taken, open, starts, sendVars, recvVars,
                   netVars, results, crashed>>

-----------------------------------------------------------------------------
(* SendTestPacket: take a number, note the time, send.                     *)

(* The mutex section.                                                      *)
SendBegins(w) ==
    /\ ~crashed /\ send[w] = "idle" /\ seqNo < MaxSeq
    /\ sendSeq' = [sendSeq EXCEPT ![w] = seqNo]
    /\ seqNo' = seqNo + 1
    /\ totalSent' = totalSent + 1
    /\ send' = [send EXCEPT ![w] = "numbered"]
    /\ UNCHANGED <<written, lifeVars, recvVars, netVars, results, crashed>>

(* The packet cannot be built; its number stays used and it stays counted, *)
(* which the faulty one takes back.                                        *)
SendFails_Faulty(w) ==
    /\ ~crashed /\ send[w] = "numbered"
    /\ send' = [send EXCEPT ![w] = "idle"]
    /\ totalSent' = totalSent - 1
    /\ UNCHANGED <<seqNo, sendSeq, written, lifeVars, recvVars, netVars, results, crashed>>

SendFails(w) ==
    /\ ~crashed /\ send[w] = "numbered"
    /\ send' = [send EXCEPT ![w] = "idle"]
    /\ UNCHANGED <<seqNo, totalSent, sendSeq, written, lifeVars, recvVars, netVars, results,
                   crashed>>

(* results.Store; the faulty one forgets it.                               *)
StoreSent_Faulty(q) == UNCHANGED results
StoreSent(q) == results' = [results EXCEPT ![q] = "sent"]

SendStores(w) ==
    /\ ~crashed /\ send[w] = "numbered"
    /\ StoreSent(sendSeq[w])
    /\ send' = [send EXCEPT ![w] = "stored"]
    /\ UNCHANGED <<seqNo, totalSent, sendSeq, written, lifeVars, recvVars, netVars, crashed>>

(* WriteTo on whatever socket the session has now, read without the mutex. *)
(* It may fail; when Stop has left nil, its method call panics.            *)
SendWrites(w) ==
    /\ ~crashed /\ send[w] = "stored"
    /\ send' = [send EXCEPT ![w] = "idle"]
    /\ \/ /\ conn \in open
          /\ toReflector' = toReflector \cup {sendSeq[w]}
          /\ written' = written \cup {sendSeq[w]}
       \/ UNCHANGED <<toReflector, written>>
    /\ crashed' = (conn = 0)
    /\ UNCHANGED <<seqNo, totalSent, sendSeq, lifeVars, recvVars, toSender, reflected, dups,
                   results>>

-----------------------------------------------------------------------------
(* The network and the reflector (processAndReflect: a reply repeats the   *)
(* sender's number and carries the reflector's own).                       *)

(* A delivered packet is gone, unless the network had a second copy.       *)
Delivered(S, x, rest) ==
    \/ rest = S \ {x} /\ UNCHANGED dups
    \/ rest = S /\ dups < MaxDups /\ dups' = dups + 1

(* session.reflectedPackets++; the faulty one counts in both functions.    *)
CountReflected_Faulty == reflected' = reflected + 2
CountReflected == reflected' = reflected + 1

Reflect(q) ==
    /\ q \in toReflector
    /\ Delivered(toReflector, q, toReflector')
    /\ toSender' = toSender \cup {<<q, reflected>>}
    /\ CountReflected
    /\ UNCHANGED <<lifeVars, sendVars, recvVars, results, crashed>>

Lose ==
    /\ \/ \E q \in toReflector : toReflector' = toReflector \ {q} /\ UNCHANGED toSender
       \/ \E m \in toSender : toSender' = toSender \ {m} /\ UNCHANGED toReflector
    /\ UNCHANGED <<lifeVars, sendVars, recvVars, reflected, dups, results, crashed>>

-----------------------------------------------------------------------------
(* StartReceiving and its goroutine.                                       *)

StartReceiving(r) ==
    /\ ~crashed /\ recv[r] = "none" /\ ~isStopping /\ conn # 0
    /\ recv' = [recv EXCEPT ![r] = "head"]
    /\ UNCHANGED <<reply, totalReceived, lifeVars, sendVars, netVars, results, crashed>>

(* The head of the loop: copy conn and stopChan, leave if either is nil or *)
(* the context is done, else read.  A stop channel closed after this is    *)
(* noticed as nil at the next head.  The faulty one looks at the context   *)
(* only.                                                                   *)
ReceiveHead_Faulty(r) ==
    /\ ~crashed /\ recv[r] = "head"
    /\ recv' = [recv EXCEPT ![r] = IF cancelled THEN "done" ELSE "reading"]
    /\ UNCHANGED <<reply, totalReceived, lifeVars, sendVars, netVars, results, crashed>>

ReceiveHead(r) ==
    /\ ~crashed /\ recv[r] = "head"
    /\ recv' = [recv EXCEPT ![r] =
                  IF conn = 0 \/ ~stopChan \/ cancelled THEN "done" ELSE "reading"]
    /\ UNCHANGED <<reply, totalReceived, lifeVars, sendVars, netVars, results, crashed>>

(* The deadline of the read expires, or the read fails.                    *)
ReceiveTimeout(r) ==
    /\ ~crashed /\ recv[r] = "reading"
    /\ recv' = [recv EXCEPT ![r] = "head"]
    /\ UNCHANGED <<reply, totalReceived, lifeVars, sendVars, netVars, results, crashed>>

(* The socket it copied is open: Stop closes it only after the receivers.  *)
ReceiveReply(r, m) ==
    /\ ~crashed /\ recv[r] = "reading" /\ m \in toSender /\ open # {}
    /\ Delivered(toSender, m, toSender')
    /\ reply' = [reply EXCEPT ![r] = m]
    /\ recv' = [recv EXCEPT ![r] = "got"]
    /\ UNCHANGED <<totalReceived, lifeVars, sendVars, toReflector, reflected, results, crashed>>

(* processReceivedPacket: a reply that does not verify or parse, or whose  *)
(* number is unknown, is dropped; the result of the packet is replaced.    *)
ReceiveDrops(r) ==
    /\ ~crashed /\ recv[r] = "got"
    /\ recv' = [recv EXCEPT ![r] = "head"]
    /\ reply' = [reply EXCEPT ![r] = NoReply]
    /\ UNCHANGED <<totalReceived, lifeVars, sendVars, netVars, results, crashed>>

ReceiveStores(r) ==
    /\ ~crashed /\ recv[r] = "got" /\ results[reply[r][1]] # "absent"
    /\ results' = [results EXCEPT ![reply[r][1]] = "received"]
    /\ recv' = [recv EXCEPT ![r] = "stored"]
    /\ UNCHANGED <<reply, totalReceived, lifeVars, sendVars, netVars, crashed>>

(* The statistics, under the mutex; the faulty one takes only the first    *)
(* reply into account.                                                     *)
CountReply_Faulty == totalReceived' = IF totalReceived = 0 THEN 1 ELSE totalReceived
CountReply == totalReceived' = totalReceived + 1

ReceiveCounts(r) ==
    /\ ~crashed /\ recv[r] = "stored"
    /\ CountReply
    /\ recv' = [recv EXCEPT ![r] = "head"]
    /\ reply' = [reply EXCEPT ![r] = NoReply]
    /\ UNCHANGED <<lifeVars, sendVars, netVars, results, crashed>>

(* GetResults: PacketsLost, on uint32.                                     *)
PacketsLost == (totalSent - totalReceived) % Width

-----------------------------------------------------------------------------

SendStep(w) == SendBegins(w) \/ SendFails(w) \/ SendStores(w) \/ SendWrites(w)

ReceiveStep(r) ==
    \/ ReceiveHead(r) \/ ReceiveTimeout(r) \/ ReceiveDrops(r)
    \/ ReceiveStores(r) \/ ReceiveCounts(r)

(* The process is gone.                                                    *)
Terminated == crashed /\ UNCHANGED vars

Next ==
    \/ StartBegins \/ StartListens \/ StartFails \/ StopBegins \/ StopReturns
    \/ CancelContext \/ Lose
    \/ \E w \in Senders : SendStep(w)
    \/ \E q \in Seq : Reflect(q)
    \/ \E r \in Receivers : StartReceiving(r) \/ ReceiveStep(r)
    \/ \E r \in Receivers, m \in Replies : ReceiveReply(r, m)
    \/ Terminated

Spec == Init /\ [][Next]_vars

(* Receivers run, their reads time out, and Stop goes on.                  *)
FairSpec ==
    Spec /\ WF_vars(StopReturns) /\ \A r \in Receivers : WF_vars(ReceiveStep(r))

-----------------------------------------------------------------------------

(* However many goroutines send, no two packets carry the same sequence    *)
(* number: neither two being sent, nor one being sent and one sent before. *)
SeqOnce ==
    \A w \in Senders : send[w] # "idle" =>
        /\ sendSeq[w] \notin written
        /\ \A v \in Senders \ {w} : send[v] # "idle" => sendSeq[v] # sendSeq[w]

(* SendTestPacket stores the result before it sends, so no reply, however  *)
(* fast, is dropped with ErrUnknownSequenceNumber.                         *)
RepliesKnown ==
    /\ \A m \in toSender : results[m[1]] # "absent"
    /\ \A r \in Receivers : recv[r] = "got" => results[reply[r][1]] # "absent"

(* Packets whose result says that a reply was received.                    *)
Answered == {q \in Seq : results[q] = "received"}

Uncounted == Cardinality({r \in Receivers : recv[r] = "stored"})

(* GetResults may run between the two updates of a receiver.  Up to the    *)
(* replies that are being counted, totalReceived is the number of answered *)
(* packets, exceeding it by no more than the network duplicated.           *)
CountsAgree ==
    /\ Cardinality(Answered) <= totalReceived + Uncounted
    /\ totalReceived + Uncounted <= Cardinality(Answered) + dups

(* PacketsLost is the number of packets without a reply (and of those      *)
(* whose reply is being counted), whatever was lost, reordered or failed   *)
(* to be sent, as long as the network duplicates nothing.                  *)
LossReported ==
    dups = 0 => PacketsLost = Cardinality((0 .. (seqNo - 1)) \ Answered) + Uncounted

(* When Stop has returned, no receiver is left and the socket is closed.   *)
StopQuiesces ==
    ctl = "idle" /\ isStopping =>
        open = {} /\ \A r \in Receivers : recv[r] \in {"none", "done"}

(* Stop returns, even if replies keep arriving.                            *)
StopEnds == (ctl = "stopping") ~> (ctl = "idle" \/ crashed)
====
