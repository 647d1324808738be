-------------------------- MODULE TestTrafficProofs --------------------------
(***************************************************************************)
(* Proofs about TestTraffic for any number of senders, receivers, packets, *)
(* duplicates and Starts.  The counters agree with the stored results      *)
(* because of a conservation law (CopiesOK): a copy of a packet is in the  *)
(* network, in the hands of a receiver or counted, and only the network    *)
(* makes a second copy of one.                                             *)
(***************************************************************************)
EXTENDS TestTraffic, FiniteSetTheorems, TLAPS

(* A sequence number belongs to one sender from SendBegins on; its result  *)
(* is stored once and before it is written.                                *)
NumbersOK ==
    /\ totalSent = seqNo
    /\ \A q \in Seq : results[q] # "absent" => q < seqNo
    /\ \A q \in written : results[q] # "absent"
    /\ \A q \in Seq : results[q] = "received" => q \in written
    /\ \A w \in Senders : send[w] # "idle" => sendSeq[w] \in Seq /\ sendSeq[w] < seqNo
    /\ \A w \in Senders : send[w] = "numbered" => results[sendSeq[w]] = "absent"
    /\ \A w \in Senders : send[w] = "stored" => results[sendSeq[w]] # "absent"

(* What is in the network or has been read was written.                    *)
OriginOK ==
    /\ toReflector \subseteq written
    /\ \A m \in toSender : m[1] \in written
    /\ \A r \in Receivers : recv[r] = "got" => reply[r][1] \in written

Got    == {r \in Receivers : recv[r] = "got"}
Stored == {r \in Receivers : recv[r] = "stored"}

(* Sequence numbers of which there is a copy or an answer.                 *)
Seen ==
    {q \in Seq : \/ q \in toReflector \/ results[q] = "received"
                 \/ \E m \in toSender : m[1] = q
                 \/ \E r \in Got : reply[r][1] = q}

InNetwork == Cardinality(toReflector) + Cardinality(toSender)
Received  == totalReceived + Cardinality(Stored) + Cardinality(Got)

(* Every copy beyond the first of its number was made by the network.      *)
CopiesOK ==
    /\ InNetwork + Received <= Cardinality(Seen) + dups
    /\ reflected + Cardinality(toReflector) <= Cardinality(written) + dups
    /\ Cardinality(Answered) <= totalReceived + Cardinality(Stored)

(* The socket is the session's or Stop's.                                  *)
SocketOK ==
    /\ open \subseteq {conn, taken}
    /\ ctl # "stopping" => taken = 0
    /\ isStopping => conn = 0
    /\ ctl = "starting" => ~isStopping
    /\ ctl = "stopping" => isStopping

(* All of it.                                                              *)
TInv == TypeOK /\ SeqOnce /\ NumbersOK /\ OriginOK /\ CopiesOK /\ SocketOK /\ StopQuiesces

-----------------------------------------------------------------------------
(* Cardinalities.                                                          *)

(* Adding and removing one element.                                        *)
LEMMA CountOne ==
    ASSUME NEW S, NEW x, IsFiniteSet(S)
    PROVE  /\ Cardinality(S) \in Nat
           /\ Cardinality(S \cup {x}) = IF x \in S THEN Cardinality(S) ELSE Cardinality(S) + 1
           /\ Cardinality(S \ {x}) = IF x \in S THEN Cardinality(S) - 1 ELSE Cardinality(S)
           /\ x \in S => Cardinality(S) > 0
           /\ Cardinality(S \cup {x}) \in Nat /\ Cardinality(S \cup {x}) <= Cardinality(S) + 1
           /\ Cardinality(S \ {x}) \in Nat /\ Cardinality(S \ {x}) >= Cardinality(S) - 1
<1>1. Cardinality(S) \in Nat
  BY FS_CardinalityType
<1>2. x \in S => Cardinality(S) # 0
  BY FS_EmptySet
<1>3. Cardinality(S \cup {x}) = IF x \in S THEN Cardinality(S) ELSE Cardinality(S) + 1
  BY FS_AddElement
<1>4. Cardinality(S \ {x}) = IF x \in S THEN Cardinality(S) - 1 ELSE Cardinality(S)
  BY FS_RemoveElement
<1> QED BY <1>1, <1>2, <1>3, <1>4

(* There are at most MaxSeq sequence numbers.                              *)
LEMMA SeqSize ==
    /\ IsFiniteSet(Seq) /\ Cardinality(Seq) = MaxSeq
    /\ \A S : S \subseteq Seq =>
         IsFiniteSet(S) /\ Cardinality(S) \in Nat /\ Cardinality(S) <= MaxSeq
<1>1. IsFiniteSet(Seq) /\ Cardinality(Seq) = MaxSeq
  BY TrafficAssumption, FS_Interval DEF Seq
<1>2. ASSUME NEW S, S \subseteq Seq
      PROVE  IsFiniteSet(S) /\ Cardinality(S) \in Nat /\ Cardinality(S) <= MaxSeq
  BY <1>1, <1>2, FS_Subset, FS_CardinalityType
<1> QED BY <1>1, <1>2

(* Everything that is counted is finite.                                   *)
LEMMA Finite ==
    ASSUME TypeOK
    PROVE  /\ IsFiniteSet(toReflector) /\ IsFiniteSet(toSender) /\ IsFiniteSet(written)
           /\ IsFiniteSet(Got) /\ IsFiniteSet(Stored)
           /\ IsFiniteSet(Seen) /\ IsFiniteSet(Answered)
           /\ Cardinality(toReflector) \in Nat /\ Cardinality(toSender) \in Nat
           /\ Cardinality(Got) \in Nat /\ Cardinality(Stored) \in Nat
           /\ Cardinality(written) \in 0 .. MaxSeq
           /\ Cardinality(Seen) \in 0 .. MaxSeq /\ Cardinality(Answered) \in 0 .. MaxSeq
<1>1. IsFiniteSet(Replies)
  <2>1. IsFiniteSet(0 .. (MaxSeq + MaxDups))
    BY TrafficAssumption, FS_Interval
  <2> QED BY <2>1, SeqSize, FS_Product DEF Replies
<1>2. IsFiniteSet(toSender)
  BY <1>1, FS_Subset DEF TypeOK
<1>3. IsFiniteSet(Got) /\ IsFiniteSet(Stored)
  BY TrafficAssumption, FS_Subset DEF Got, Stored
<1>4. toReflector \subseteq Seq /\ written \subseteq Seq /\ Seen \subseteq Seq /\ Answered \subseteq Seq
  BY DEF TypeOK, Seen, Answered
<1> QED BY <1>2, <1>3, <1>4, SeqSize, FS_CardinalityType, TrafficAssumption

(* What a receiver's step does to the sets of receivers.                   *)
LEMMA ReceiverMoves ==
    ASSUME TypeOK, NEW r \in Receivers, NEW v, recv' = [recv EXCEPT ![r] = v]
    PROVE  /\ r \in Got <=> recv[r] = "got"
           /\ v = "got" => Got' = Got \cup {r}
           /\ v # "got" => Got' = Got \ {r}
           /\ v # "got" /\ recv[r] # "got" => Got' = Got
           /\ r \in Stored <=> recv[r] = "stored"
           /\ v = "stored" => Stored' = Stored \cup {r}
           /\ v # "stored" => Stored' = Stored \ {r}
           /\ v # "stored" /\ recv[r] # "stored" => Stored' = Stored
<1>1. \A x \in Receivers : recv'[x] = IF x = r THEN v ELSE recv[x]
  BY DEF TypeOK
<1>2. /\ r \in Got <=> recv[r] = "got"
      /\ v = "got" => Got' = Got \cup {r}
      /\ v # "got" => Got' = Got \ {r}
  BY <1>1 DEF Got
<1>3. /\ r \in Stored <=> recv[r] = "stored"
      /\ v = "stored" => Stored' = Stored \cup {r}
      /\ v # "stored" => Stored' = Stored \ {r}
  BY <1>1 DEF Stored
<1> QED BY <1>2, <1>3

(* There is room in the counters for what is on its way.                   *)
LEMMA RoomLeft ==
    ASSUME TypeOK, CopiesOK
    PROVE  /\ \A q \in toReflector : reflected + 1 \in 0 .. (MaxSeq + MaxDups)
           /\ \A r \in Stored : totalReceived + 1 \in 0 .. (MaxSeq + MaxDups)
<1>1. dups \in 0 .. MaxDups /\ reflected \in Nat /\ totalReceived \in Nat
  BY TrafficAssumption DEF TypeOK
<1>2. ASSUME NEW q \in toReflector PROVE reflected + 1 \in 0 .. (MaxSeq + MaxDups)
  <2>1. Cardinality(toReflector) > 0
    BY Finite, CountOne
  <2> QED BY <1>1, <2>1, Finite, TrafficAssumption DEF CopiesOK
<1>3. ASSUME NEW r \in Stored PROVE totalReceived + 1 \in 0 .. (MaxSeq + MaxDups)
  <2>1. Cardinality(Stored) > 0
    BY Finite, CountOne
  <2> QED BY <1>1, <2>1, Finite, TrafficAssumption DEF CopiesOK, InNetwork, Received
<1> QED BY <1>2, <1>3

-----------------------------------------------------------------------------
(* Types.                                                                  *)

(* The steps of Start and Stop, of senders, of the network and of          *)
(* receivers.                                                              *)
LifeStep ==
    \/ StartBegins \/ StartListens \/ StartFails \/ StopBegins \/ StopReturns
    \/ CancelContext \/ Terminated

NetStep == Lose \/ \E q \in Seq : Reflect(q)

RecvStep ==
    \E r \in Receivers :
        StartReceiving(r) \/ ReceiveStep(r) \/ \E m \in Replies : ReceiveReply(r, m)

(* Next by who takes the step.                                             *)
LEMMA NextCases ==
    ASSUME Next
    PROVE  LifeStep \/ (\E w \in Senders : SendStep(w)) \/ NetStep \/ RecvStep
BY DEF Next, LifeStep, NetStep, RecvStep

(* Start, Stop and the context leave packets and counters alone.           *)
LEMMA LifeKeeps ==
    ASSUME LifeStep
    PROVE  UNCHANGED <<sendVars, recvVars, netVars, results, crashed>>
BY DEF LifeStep, StartBegins, StartListens, StartFails, StopBegins, StopReturns, CancelContext,
   Terminated, vars

(* A receiver's step, apart from what it stores, counts and takes from the *)
(* network.                                                                *)
LEMMA RecvKeeps ==
    ASSUME RecvStep
    PROVE  UNCHANGED <<lifeVars, sendVars, toReflector, reflected, crashed>>
BY DEF RecvStep, StartReceiving, ReceiveStep, ReceiveHead, ReceiveTimeout, ReceiveDrops,
   ReceiveStores, ReceiveCounts, ReceiveReply, netVars

(* Types are kept; the counters have room because of CopiesOK.             *)
LEMMA NextType == TypeOK /\ NumbersOK /\ OriginOK /\ CopiesOK /\ Next => TypeOK'
<1> SUFFICES ASSUME TypeOK, NumbersOK, OriginOK, CopiesOK, Next PROVE TypeOK'
  OBVIOUS
<1>1. CASE LifeStep
  <2>1. ctl' \in {"idle", "starting", "stopping"} /\ isStopping' \in BOOLEAN
        /\ stopChan' \in BOOLEAN /\ cancelled' \in BOOLEAN
    BY <1>1 DEF LifeStep, StartBegins, StartListens, StartFails, StopBegins, StopReturns,
       CancelContext, Terminated, vars, lifeVars, TypeOK
  <2>2. starts' \in 0 .. MaxStarts /\ conn' \in 0 .. MaxStarts /\ taken' \in 0 .. MaxStarts
        /\ open' \subseteq 1 .. MaxStarts
    <3>1. CASE StartListens
      <4>1. starts' \in 1 .. MaxStarts /\ conn' = starts' /\ open' = open \cup {starts'}
            /\ UNCHANGED taken
        BY <3>1, TrafficAssumption DEF StartListens, TypeOK
      <4> QED BY <4>1, TrafficAssumption DEF TypeOK
    <3>2. CASE ~StartListens
      <4>1. UNCHANGED starts /\ open' \subseteq open /\ conn' \in {conn, 0}
            /\ taken' \in {taken, conn, 0}
        BY <1>1, <3>2 DEF LifeStep, StartBegins, StartFails, StopBegins, StopReturns,
           CancelContext, Terminated, vars, lifeVars
      <4> QED BY <4>1, TrafficAssumption DEF TypeOK
    <3> QED BY <3>1, <3>2
  <2> QED BY <1>1, <2>1, <2>2, LifeKeeps DEF TypeOK, sendVars, recvVars, netVars
<1>2. ASSUME NEW w \in Senders, SendStep(w) PROVE TypeOK'
  <2>1. UNCHANGED <<lifeVars, recvVars, toSender, reflected, dups>>
    BY <1>2 DEF SendStep, SendBegins, SendFails, SendStores, SendWrites, netVars
  <2>2. /\ crashed' \in BOOLEAN
        /\ send' \in [Senders -> {"idle", "numbered", "stored"}]
        /\ sendSeq' \in [Senders -> Nat]
        /\ seqNo' \in 0 .. MaxSeq /\ totalSent' \in 0 .. MaxSeq
    <3>1. crashed' \in BOOLEAN
      BY <1>2 DEF SendStep, SendBegins, SendFails, SendStores, SendWrites, TypeOK
    <3>2. send' \in [Senders -> {"idle", "numbered", "stored"}]
      BY <1>2 DEF SendStep, SendBegins, SendFails, SendStores, SendWrites, TypeOK
    <3>3. \/ UNCHANGED <<sendSeq, seqNo, totalSent>>
          \/ /\ sendSeq' = [sendSeq EXCEPT ![w] = seqNo]
             /\ seqNo < MaxSeq /\ seqNo' = seqNo + 1 /\ totalSent' = totalSent + 1
      BY <1>2 DEF SendStep, SendBegins, SendFails, SendStores, SendWrites
    <3> QED BY <3>1, <3>2, <3>3, TrafficAssumption DEF TypeOK, NumbersOK
  <2>3. results' \in [Seq -> {"absent", "sent", "received"}]
    BY <1>2 DEF SendStep, SendBegins, SendFails, SendStores, SendWrites, StoreSent, TypeOK
  <2>4. toReflector' \subseteq Seq /\ written' \subseteq Seq
    BY <1>2 DEF SendStep, SendBegins, SendFails, SendStores, SendWrites, TypeOK, NumbersOK, netVars
  <2> QED BY <2>1, <2>2, <2>3, <2>4 DEF TypeOK, lifeVars, recvVars
<1>3. CASE NetStep
  <2>1. UNCHANGED <<lifeVars, sendVars, recvVars, results, crashed>>
    BY <1>3 DEF NetStep, Lose, Reflect
  <2>2. CASE Lose
    BY <2>1, <2>2 DEF Lose, TypeOK, lifeVars, sendVars, recvVars
  <2>3. ASSUME NEW q \in Seq, Reflect(q) PROVE TypeOK'
    <3>1. reflected' \in 0 .. (MaxSeq + MaxDups)
      BY <2>3, RoomLeft DEF Reflect, CountReflected
    <3>2. toSender' \subseteq Replies
      BY <2>3 DEF Reflect, TypeOK, Replies
    <3>3. toReflector' \subseteq Seq /\ dups' \in 0 .. MaxDups
      BY <2>3, TrafficAssumption DEF Reflect, Delivered, TypeOK
    <3> QED BY <2>1, <3>1, <3>2, <3>3 DEF TypeOK, lifeVars, sendVars, recvVars
  <2> QED BY <1>3, <2>2, <2>3 DEF NetStep
<1>4. ASSUME NEW r \in Receivers,
             StartReceiving(r) \/ ReceiveStep(r) \/ \E m \in Replies : ReceiveReply(r, m)
      PROVE  TypeOK'
  <2>1. UNCHANGED <<lifeVars, sendVars, toReflector, reflected, crashed>>
    BY <1>4, RecvKeeps DEF RecvStep
  <2>2. recv' \in [Receivers -> {"none", "head", "reading", "got", "stored", "done"}]
    BY <1>4 DEF StartReceiving, ReceiveStep, ReceiveHead, ReceiveTimeout, ReceiveDrops,
       ReceiveStores, ReceiveCounts, ReceiveReply, TypeOK
  <2>3. reply' \in [Receivers -> Nat \X Nat]
    <3>1. NoReply \in Nat \X Nat /\ Replies \subseteq Nat \X Nat
      BY TrafficAssumption DEF NoReply, Replies, Seq
    <3>2. reply' = reply \/ \E x \in Nat \X Nat : reply' = [reply EXCEPT ![r] = x]
      BY <1>4, <3>1 DEF StartReceiving, ReceiveStep, ReceiveHead, ReceiveTimeout, ReceiveDrops,
         ReceiveStores, ReceiveCounts, ReceiveReply
    <3> QED BY <3>2 DEF TypeOK
  <2>4. toSender' \subseteq Replies /\ dups' \in 0 .. MaxDups
    BY <1>4, TrafficAssumption DEF StartReceiving, ReceiveStep, ReceiveHead, ReceiveTimeout,
       ReceiveDrops, ReceiveStores, ReceiveCounts, ReceiveReply, Delivered, TypeOK, netVars
  <2>5. totalReceived' \in 0 .. (MaxSeq + MaxDups)
    <3>1. CASE ReceiveCounts(r)
      BY <3>1, RoomLeft DEF ReceiveCounts, CountReply, Stored
    <3>2. CASE ~ReceiveCounts(r)
      BY <1>4, <3>2 DEF StartReceiving, ReceiveStep, ReceiveHead, ReceiveTimeout, ReceiveDrops,
         ReceiveStores, ReceiveReply, TypeOK
    <3> QED BY <3>1, <3>2
  <2>6. results' \in [Seq -> {"absent", "sent", "received"}]
    BY <1>4 DEF StartReceiving, ReceiveStep, ReceiveHead, ReceiveTimeout, ReceiveDrops,
       ReceiveStores, ReceiveCounts, ReceiveReply, TypeOK
  <2> QED BY <2>1, <2>2, <2>3, <2>4, <2>5, <2>6 DEF TypeOK, lifeVars, sendVars
<1> QED BY <1>1, <1>2, <1>3, <1>4, NextCases DEF RecvStep

-----------------------------------------------------------------------------
(* Sequence numbers.                                                       *)

(* Every step keeps the bookkeeping of sequence numbers.                   *)
LEMMA NextNumbers ==
    TypeOK /\ SeqOnce /\ NumbersOK /\ OriginOK /\ Next => SeqOnce' /\ NumbersOK' /\ OriginOK'
<1> SUFFICES ASSUME TypeOK, SeqOnce, NumbersOK, OriginOK, Next
             PROVE  SeqOnce' /\ NumbersOK' /\ OriginOK'
  OBVIOUS
<1>0. written \subseteq Seq /\ (\A q \in written : q < seqNo) /\ seqNo \in Nat
  BY TrafficAssumption DEF TypeOK, NumbersOK
<1>1. CASE LifeStep
  BY <1>1, LifeKeeps DEF SeqOnce, NumbersOK, OriginOK, sendVars, recvVars, netVars
<1>2. ASSUME NEW w \in Senders, SendBegins(w) PROVE SeqOnce' /\ NumbersOK' /\ OriginOK'
  <2>1. /\ \A v \in Senders : sendSeq'[v] = IF v = w THEN seqNo ELSE sendSeq[v]
        /\ \A v \in Senders : send'[v] = IF v = w THEN "numbered" ELSE send[v]
        /\ seqNo' = seqNo + 1 /\ totalSent' = totalSent + 1
        /\ UNCHANGED <<written, results, recv, reply, toReflector, toSender>>
        /\ seqNo \in Seq
    BY <1>2, TrafficAssumption DEF SendBegins, TypeOK, Seq, recvVars, netVars
  <2>2. SeqOnce'
    BY <1>0, <2>1 DEF SeqOnce, NumbersOK, Seq
  <2>3. NumbersOK'
    BY <1>0, <2>1 DEF NumbersOK, Seq
  <2> QED BY <2>1, <2>2, <2>3 DEF OriginOK
<1>3. ASSUME NEW w \in Senders, SendFails(w) PROVE SeqOnce' /\ NumbersOK' /\ OriginOK'
  <2>1. /\ \A v \in Senders : send'[v] = IF v = w THEN "idle" ELSE send[v]
        /\ UNCHANGED <<seqNo, totalSent, sendSeq, written, results, recv, reply, toReflector,
                       toSender>>
    BY <1>3 DEF SendFails, TypeOK, recvVars, netVars
  <2> QED BY <2>1 DEF SeqOnce, NumbersOK, OriginOK
<1>4. ASSUME NEW w \in Senders, SendStores(w) PROVE SeqOnce' /\ NumbersOK' /\ OriginOK'
  <2>1. /\ send[w] = "numbered" /\ sendSeq[w] \in Seq
        /\ \A v \in Senders : send'[v] = IF v = w THEN "stored" ELSE send[v]
        /\ \A q \in Seq : results'[q] = IF q = sendSeq[w] THEN "sent" ELSE results[q]
        /\ UNCHANGED <<seqNo, totalSent, sendSeq, written, recv, reply, toReflector, toSender>>
    BY <1>4 DEF SendStores, StoreSent, TypeOK, NumbersOK, recvVars, netVars
  <2>2. SeqOnce'
    BY <2>1 DEF SeqOnce
  <2>3. NumbersOK'
    BY <1>0, <2>1 DEF NumbersOK, SeqOnce
  <2> QED BY <2>1, <2>2, <2>3 DEF OriginOK
<1>5. ASSUME NEW w \in Senders, SendWrites(w) PROVE SeqOnce' /\ NumbersOK' /\ OriginOK'
  <2>1. /\ send[w] = "stored" /\ sendSeq[w] \in Seq
        /\ \A v \in Senders : send'[v] = IF v = w THEN "idle" ELSE send[v]
        /\ UNCHANGED <<seqNo, totalSent, sendSeq, recv, reply, toSender, results>>
        /\ \/ toReflector' = toReflector \cup {sendSeq[w]} /\ written' = written \cup {sendSeq[w]}
           \/ UNCHANGED <<toReflector, written>>
    BY <1>5 DEF SendWrites, TypeOK, NumbersOK, recvVars
  <2>2. SeqOnce'
    BY <2>1 DEF SeqOnce
  <2>3. NumbersOK'
    BY <1>0, <2>1 DEF NumbersOK
  <2> QED BY <2>1, <2>2, <2>3 DEF OriginOK
<1>6. CASE NetStep
  <2>1. UNCHANGED <<lifeVars, sendVars, recvVars, results, crashed>>
    BY <1>6 DEF NetStep, Lose, Reflect
  <2>2. toReflector' \subseteq toReflector
    BY <1>6 DEF NetStep, Lose, Reflect, Delivered
  <2>3. \A m \in toSender' : m \in toSender \/ m[1] \in toReflector
    BY <1>6 DEF NetStep, Lose, Reflect
  <2> QED BY <2>1, <2>2, <2>3 DEF SeqOnce, NumbersOK, OriginOK, sendVars, recvVars
<1>7. ASSUME NEW r \in Receivers, StartReceiving(r) \/ ReceiveHead(r) \/ ReceiveTimeout(r)
                                  \/ ReceiveDrops(r) \/ ReceiveCounts(r)
      PROVE  SeqOnce' /\ NumbersOK' /\ OriginOK'
  <2>1. UNCHANGED <<sendVars, netVars, results>>
    BY <1>7 DEF StartReceiving, ReceiveHead, ReceiveTimeout, ReceiveDrops, ReceiveCounts
  <2>2. \A x \in Receivers : recv'[x] = "got" => recv[x] = "got" /\ reply'[x] = reply[x]
    BY <1>7 DEF StartReceiving, ReceiveHead, ReceiveTimeout, ReceiveDrops, ReceiveCounts, TypeOK
  <2> QED BY <2>1, <2>2 DEF SeqOnce, NumbersOK, OriginOK, sendVars, netVars
<1>8. ASSUME NEW r \in Receivers, NEW m \in Replies, ReceiveReply(r, m)
      PROVE  SeqOnce' /\ NumbersOK' /\ OriginOK'
  <2>1. UNCHANGED <<sendVars, toReflector, results>> /\ toSender' \subseteq toSender
        /\ m \in toSender
    BY <1>8 DEF ReceiveReply, Delivered
  <2>2. \A x \in Receivers : IF x = r THEN reply'[x] = m
                             ELSE recv'[x] = recv[x] /\ reply'[x] = reply[x]
    BY <1>8 DEF ReceiveReply, TypeOK
  <2> QED BY <2>1, <2>2 DEF SeqOnce, NumbersOK, OriginOK, sendVars
<1>9. ASSUME NEW r \in Receivers, ReceiveStores(r) PROVE SeqOnce' /\ NumbersOK' /\ OriginOK'
  <2> DEFINE p == reply[r][1]
  <2>1. /\ p \in written /\ results[p] # "absent"
        /\ \A q \in Seq : results'[q] = IF q = p THEN "received" ELSE results[q]
        /\ \A x \in Receivers : recv'[x] = IF x = r THEN "stored" ELSE recv[x]
        /\ UNCHANGED <<sendVars, netVars, reply>>
    BY <1>9 DEF ReceiveStores, TypeOK, OriginOK
  <2> HIDE DEF p
  <2>2. NumbersOK'
    BY <1>0, <2>1 DEF NumbersOK, SeqOnce, sendVars
  <2> QED BY <2>1, <2>2 DEF SeqOnce, OriginOK, sendVars, netVars
<1> QED BY <1>1, <1>2, <1>3, <1>4, <1>5, <1>6, <1>7, <1>8, <1>9, NextCases
        DEF SendStep, RecvStep, ReceiveStep

-----------------------------------------------------------------------------
(* Sockets and receivers.                                                  *)

(* Start and Stop hand the socket on, and nobody receives once Stop has    *)
(* waited for the receivers.                                               *)
LEMMA NextSocket ==
    TypeOK /\ SocketOK /\ StopQuiesces /\ Next => SocketOK' /\ StopQuiesces'
<1> SUFFICES ASSUME TypeOK, SocketOK, StopQuiesces, Next PROVE SocketOK' /\ StopQuiesces'
  OBVIOUS
<1>1. ASSUME NEW x \in open PROVE x # 0
  BY TrafficAssumption DEF TypeOK
<1>2. CASE LifeStep
  <2>1. SocketOK'
    BY <1>1, <1>2 DEF LifeStep, StartBegins, StartListens, StartFails, StopBegins, StopReturns,
       CancelContext, Terminated, vars, lifeVars, SocketOK
  <2>2. StopQuiesces'
    BY <1>1, <1>2 DEF LifeStep, StartBegins, StartListens, StartFails, StopBegins, StopReturns,
       CancelContext, Terminated, vars, lifeVars, recvVars, SocketOK, StopQuiesces, ReceiversDone
  <2> QED BY <2>1, <2>2
<1>3. CASE NetStep \/ \E w \in Senders : SendStep(w)
  <2>1. UNCHANGED <<lifeVars, recv>>
    BY <1>3 DEF NetStep, Lose, Reflect, SendStep, SendBegins, SendFails, SendStores, SendWrites,
       recvVars
  <2> QED BY <2>1 DEF SocketOK, StopQuiesces, lifeVars
<1>4. CASE RecvStep
  <2>1. UNCHANGED lifeVars
    BY <1>4, RecvKeeps
  <2>2. ASSUME isStopping, \A r \in Receivers : recv[r] \in {"none", "done"}
        PROVE  UNCHANGED recv
    BY <1>4, <2>2 DEF RecvStep, StartReceiving, ReceiveStep, ReceiveHead, ReceiveTimeout,
       ReceiveDrops, ReceiveStores, ReceiveCounts, ReceiveReply
  <2> QED BY <2>1, <2>2 DEF SocketOK, StopQuiesces, lifeVars
<1> QED BY <1>2, <1>3, <1>4, NextCases

-----------------------------------------------------------------------------
(* Copies.                                                                 *)

(* A packet that is written is the first copy of its number.               *)
LEMMA SendCopies ==
    ASSUME TypeOK, SeqOnce, NumbersOK, OriginOK, CopiesOK, NEW w \in Senders, SendStep(w)
    PROVE  CopiesOK'
<1>1. UNCHANGED <<recv, reply, totalReceived, toSender, reflected, dups>>
  BY DEF SendStep, SendBegins, SendFails, SendStores, SendWrites, recvVars, netVars
<1>2. Got' = Got /\ Stored' = Stored
  BY <1>1 DEF Got, Stored
<1>3. CASE UNCHANGED <<results, toReflector, written>>
  <2>1. Seen' = Seen /\ Answered' = Answered
    BY <1>1, <1>2, <1>3 DEF Seen, Answered
  <2> QED BY <1>1, <1>2, <1>3, <2>1 DEF CopiesOK, InNetwork, Received
<1>4. CASE SendStores(w)
  <2>1. UNCHANGED <<toReflector, written>>
        /\ \A q \in Seq : results'[q] = "received" <=> results[q] = "received"
    BY <1>4 DEF SendStores, StoreSent, TypeOK, NumbersOK, netVars
  <2>2. Seen' = Seen /\ Answered' = Answered
    BY <1>1, <1>2, <2>1 DEF Seen, Answered
  <2> QED BY <1>1, <1>2, <2>1, <2>2 DEF CopiesOK, InNetwork, Received
<1>5. CASE /\ SendWrites(w) /\ toReflector' = toReflector \cup {sendSeq[w]}
           /\ written' = written \cup {sendSeq[w]}
  <2> DEFINE q == sendSeq[w]
  <2>1. /\ q \in Seq /\ q \notin written /\ UNCHANGED results
        /\ toReflector' = toReflector \cup {q} /\ written' = written \cup {q}
    BY <1>5 DEF SendWrites, SeqOnce, NumbersOK
  <2> HIDE DEF q
  <2>2. q \notin Seen /\ q \notin toReflector
    BY <2>1 DEF Seen, OriginOK, NumbersOK, Got
  <2>3. Seen' = Seen \cup {q} /\ Answered' = Answered
    BY <1>1, <1>2, <2>1 DEF Seen, Answered
  <2>4. /\ Cardinality(Seen') = Cardinality(Seen) + 1
        /\ Cardinality(toReflector') = Cardinality(toReflector) + 1
        /\ Cardinality(written') = Cardinality(written) + 1
    BY <2>1, <2>2, <2>3, Finite, CountOne
  <2> QED BY <1>1, <1>2, <2>3, <2>4, Finite, TrafficAssumption
          DEF CopiesOK, InNetwork, Received, TypeOK
<1> QED BY <1>3, <1>4, <1>5 DEF SendStep, SendBegins, SendFails, SendWrites, netVars

(* Reflecting moves a copy; losing one may take its number with it.        *)
LEMMA NetCopies ==
    ASSUME TypeOK, CopiesOK, NetStep
    PROVE  CopiesOK'
<1>1. UNCHANGED <<recv, reply, totalReceived, written, results>>
  BY DEF NetStep, Lose, Reflect, recvVars, sendVars
<1>2. Got' = Got /\ Stored' = Stored /\ Answered' = Answered
  BY <1>1 DEF Got, Stored, Answered
<1>3. dups \in Nat /\ reflected \in Nat /\ totalReceived \in Nat
  BY TrafficAssumption DEF TypeOK
<1>4. ASSUME NEW q \in Seq, Reflect(q) PROVE CopiesOK'
  <2> DEFINE m == <<q, reflected>>
  <2>1. /\ q \in toReflector /\ toSender' = toSender \cup {m} /\ reflected' = reflected + 1
        /\ \/ toReflector' = toReflector \ {q} /\ dups' = dups
           \/ toReflector' = toReflector /\ dups' = dups + 1
        /\ m[1] = q
    BY <1>4 DEF Reflect, Delivered, CountReflected
  <2> HIDE DEF m
  <2>2. Seen' = Seen
    BY <1>1, <1>2, <2>1 DEF Seen
  <2>3. Cardinality(toSender') <= Cardinality(toSender) + 1
        /\ Cardinality(toSender') \in Nat
    BY <2>1, Finite, CountOne
  <2>4. \/ Cardinality(toReflector') = Cardinality(toReflector) - 1 /\ dups' = dups
        \/ Cardinality(toReflector') = Cardinality(toReflector) /\ dups' = dups + 1
    <3>1. Cardinality(toReflector \ {q}) = Cardinality(toReflector) - 1
      BY <2>1, Finite, CountOne
    <3> QED BY <2>1, <3>1
  <2> QED BY <1>1, <1>2, <1>3, <2>1, <2>2, <2>3, <2>4, Finite DEF CopiesOK, InNetwork, Received
<1>5. ASSUME UNCHANGED <<reflected, dups>>, NEW q,
             \/ q \in toReflector /\ toReflector' = toReflector \ {q} /\ UNCHANGED toSender
             \/ /\ UNCHANGED toReflector
                /\ \E m \in toSender : m[1] = q /\ toSender' = toSender \ {m}
      PROVE  CopiesOK'
  <2>1. Seen' \subseteq Seen /\ Seen \subseteq Seen' \cup {q}
    BY <1>1, <1>2, <1>5 DEF Seen
  <2>2. Seen' = Seen \/ Seen' = Seen \ {q}
    BY <2>1
  <2>3. Cardinality(Seen') >= Cardinality(Seen) - 1 /\ Cardinality(Seen') \in Nat
    <3>1. Cardinality(Seen \ {q}) >= Cardinality(Seen) - 1 /\ Cardinality(Seen \ {q}) \in Nat
      BY Finite, CountOne
    <3> QED BY <2>2, <3>1, Finite
  <2>4. \/ /\ Cardinality(toReflector') = Cardinality(toReflector) - 1
           /\ UNCHANGED toSender
        \/ /\ Cardinality(toSender') = Cardinality(toSender) - 1
           /\ UNCHANGED toReflector
    BY <1>5, Finite, CountOne
  <2> QED BY <1>1, <1>2, <1>3, <1>5, <2>3, <2>4, Finite DEF CopiesOK, InNetwork, Received
<1> QED BY <1>4, <1>5 DEF NetStep, Lose

(* A receiver takes a copy from the network and drops or counts it.        *)
LEMMA RecvCopies ==
    ASSUME TypeOK, OriginOK, CopiesOK, NEW r \in Receivers,
           StartReceiving(r) \/ ReceiveStep(r) \/ \E m \in Replies : ReceiveReply(r, m)
    PROVE  CopiesOK'
<1>0. UNCHANGED <<written, toReflector, reflected>>
  BY RecvKeeps DEF RecvStep, sendVars
<1>1. dups \in Nat /\ reflected \in Nat /\ totalReceived \in Nat
  BY TrafficAssumption DEF TypeOK
<1>3. CASE StartReceiving(r) \/ ReceiveHead(r) \/ ReceiveTimeout(r)
  <2>1. UNCHANGED <<reply, totalReceived, netVars, results>>
        /\ recv[r] \notin {"got", "stored"}
    BY <1>3 DEF StartReceiving, ReceiveHead, ReceiveTimeout
  <2>2. PICK v \in {"head", "done", "reading"} : recv' = [recv EXCEPT ![r] = v]
    BY <1>3 DEF StartReceiving, ReceiveHead, ReceiveTimeout
  <2>3. Got' = Got /\ Stored' = Stored
    BY <2>1, <2>2, ReceiverMoves
  <2>4. Seen' = Seen /\ Answered' = Answered
    BY <2>1, <2>3 DEF Seen, Answered, netVars
  <2> QED BY <1>0, <2>1, <2>3, <2>4 DEF CopiesOK, InNetwork, Received, netVars
<1>4. ASSUME NEW m \in Replies, ReceiveReply(r, m) PROVE CopiesOK'
  <2>1. /\ recv[r] = "reading" /\ recv' = [recv EXCEPT ![r] = "got"] /\ m \in toSender
        /\ \A x \in Receivers : reply'[x] = IF x = r THEN m ELSE reply[x]
        /\ \/ toSender' = toSender \ {m} /\ dups' = dups
           \/ toSender' = toSender /\ dups' = dups + 1
        /\ UNCHANGED <<totalReceived, results>>
    BY <1>4 DEF ReceiveReply, Delivered, TypeOK
  <2>2. Got' = Got \cup {r} /\ Stored' = Stored /\ r \notin Got
    BY <2>1, ReceiverMoves
  <2>3. Seen' = Seen /\ Answered' = Answered
    <3>1. \A q : (\/ \E n \in toSender' : n[1] = q
                  \/ \E x \in Got' : reply'[x][1] = q)
                 <=> (\/ \E n \in toSender : n[1] = q
                      \/ \E x \in Got : reply[x][1] = q)
      BY <2>1, <2>2 DEF Got
    <3> QED BY <1>0, <2>1, <3>1 DEF Seen, Answered
  <2>4. Cardinality(Got') = Cardinality(Got) + 1
    BY <2>2, Finite, CountOne
  <2>5. \/ Cardinality(toSender') = Cardinality(toSender) - 1 /\ dups' = dups
        \/ Cardinality(toSender') = Cardinality(toSender) /\ dups' = dups + 1
    <3>1. Cardinality(toSender \ {m}) = Cardinality(toSender) - 1
      BY <2>1, Finite, CountOne
    <3> QED BY <2>1, <3>1
  <2> QED BY <1>0, <1>1, <2>1, <2>2, <2>3, <2>4, <2>5, Finite DEF CopiesOK, InNetwork, Received
<1>5. CASE ReceiveDrops(r)
  <2> DEFINE p == reply[r][1]
  <2>1. /\ recv[r] = "got" /\ recv' = [recv EXCEPT ![r] = "head"]
        /\ \A x \in Receivers : x # r => reply'[x] = reply[x]
        /\ UNCHANGED <<totalReceived, toSender, dups, results>>
    BY <1>5 DEF ReceiveDrops, TypeOK, netVars
  <2>2. Got' = Got \ {r} /\ Stored' = Stored /\ r \in Got
    <3>1. \A x \in Receivers : recv'[x] = IF x = r THEN "head" ELSE recv[x]
      BY <2>1 DEF TypeOK
    <3> QED BY <2>1, <3>1 DEF Got, Stored
  <2>3. Seen' \subseteq Seen /\ Seen \subseteq Seen' \cup {p} /\ Answered' = Answered
    BY <1>0, <2>1, <2>2 DEF Seen, Answered, Got
  <2>4. Seen' = Seen \/ Seen' = Seen \ {p}
    BY <2>3
  <2>5. Cardinality(Seen') >= Cardinality(Seen) - 1 /\ Cardinality(Seen') \in Nat
    <3>1. Cardinality(Seen \ {p}) >= Cardinality(Seen) - 1 /\ Cardinality(Seen \ {p}) \in Nat
      BY Finite, CountOne
    <3> QED BY <2>4, <3>1, Finite
  <2>6. Cardinality(Got') = Cardinality(Got) - 1
    BY <2>2, Finite, CountOne
  <2> QED BY <1>0, <1>1, <2>1, <2>2, <2>3, <2>5, <2>6, Finite DEF CopiesOK, InNetwork, Received
<1>6. CASE ReceiveStores(r)
  <2> DEFINE p == reply[r][1]
  <2>1. /\ recv[r] = "got" /\ recv' = [recv EXCEPT ![r] = "stored"] /\ p \in Seq
        /\ \A q \in Seq : results'[q] = IF q = p THEN "received" ELSE results[q]
        /\ UNCHANGED <<totalReceived, toSender, dups, reply>>
    BY <1>6 DEF ReceiveStores, TypeOK, OriginOK, netVars
  <2>2. Got' = Got \ {r} /\ Stored' = Stored \cup {r} /\ r \in Got /\ r \notin Stored
    BY <2>1, ReceiverMoves
  <2>3. Seen' = Seen /\ Answered' = Answered \cup {p}
    <3>1. \A q \in Seq : q # p => ((\E x \in Got' : reply'[x][1] = q)
                                   <=> (\E x \in Got : reply[x][1] = q))
      BY <2>1, <2>2
    <3>2. p \in Seen /\ p \in Seen'
      BY <2>1, <2>2 DEF Seen
    <3>3. Seen' = Seen
      BY <1>0, <2>1, <3>1, <3>2 DEF Seen
    <3> QED BY <2>1, <3>3 DEF Answered
  <2>4. /\ Cardinality(Got') = Cardinality(Got) - 1
        /\ Cardinality(Stored') = Cardinality(Stored) + 1
        /\ Cardinality(Answered') <= Cardinality(Answered) + 1 /\ Cardinality(Answered') \in Nat
    BY <2>2, <2>3, Finite, CountOne
  <2> QED BY <1>0, <1>1, <2>1, <2>3, <2>4, Finite DEF CopiesOK, InNetwork, Received
<1>7. CASE ReceiveCounts(r)
  <2>1. /\ recv[r] = "stored" /\ recv' = [recv EXCEPT ![r] = "head"]
        /\ \A x \in Receivers : x # r => reply'[x] = reply[x]
        /\ totalReceived' = totalReceived + 1
        /\ UNCHANGED <<toSender, dups, results>>
    BY <1>7 DEF ReceiveCounts, CountReply, TypeOK, netVars
  <2>2. Got' = Got /\ Stored' = Stored \ {r} /\ r \in Stored /\ r \notin Got
    <3>1. \A x \in Receivers : recv'[x] = IF x = r THEN "head" ELSE recv[x]
      BY <2>1 DEF TypeOK
    <3> QED BY <2>1, <3>1 DEF Got, Stored
  <2>3. Seen' = Seen /\ Answered' = Answered
    BY <1>0, <2>1, <2>2 DEF Seen, Answered, Got
  <2>4. Cardinality(Stored') = Cardinality(Stored) - 1
    BY <2>2, Finite, CountOne
  <2> QED BY <1>0, <1>1, <2>1, <2>2, <2>3, <2>4, Finite DEF CopiesOK, InNetwork, Received
<1> QED BY <1>3, <1>4, <1>5, <1>6, <1>7 DEF ReceiveStep

(* The conservation of copies.                                             *)
LEMMA NextCopies ==
    TypeOK /\ SeqOnce /\ NumbersOK /\ OriginOK /\ CopiesOK /\ Next => CopiesOK'
<1> SUFFICES ASSUME TypeOK, SeqOnce, NumbersOK, OriginOK, CopiesOK, Next PROVE CopiesOK'
  OBVIOUS
<1>1. CASE LifeStep
  <2>1. UNCHANGED <<recv, reply, totalReceived, written, results, netVars>>
    BY <1>1, LifeKeeps DEF recvVars, sendVars
  <2> QED BY <2>1 DEF CopiesOK, InNetwork, Received, Seen, Answered, Got, Stored, netVars
<1> QED BY <1>1, SendCopies, NetCopies, RecvCopies, NextCases DEF RecvStep

-----------------------------------------------------------------------------
(* The invariant.                                                          *)

(* A new session has sent, received and stored nothing.                    *)
LEMMA InitTInv == Init => TInv
<1> SUFFICES ASSUME Init PROVE TInv
  OBVIOUS
<1>1. TypeOK
  <2>1. /\ 0 \in 0 .. MaxStarts /\ 0 \in 0 .. MaxSeq /\ 0 \in 0 .. MaxDups
        /\ 0 \in 0 .. (MaxSeq + MaxDups)
    BY TrafficAssumption
  <2>2. NoReply \in Nat \X Nat
    BY DEF NoReply
  <2> QED BY <2>1, <2>2 DEF Init, TypeOK
<1>2. SeqOnce /\ NumbersOK /\ OriginOK /\ SocketOK /\ StopQuiesces
  BY DEF Init, SeqOnce, NumbersOK, OriginOK, SocketOK, StopQuiesces
<1>3. Seen = {} /\ Answered = {} /\ Got = {} /\ Stored = {} /\ toReflector = {} /\ toSender = {}
      /\ written = {}
  BY DEF Init, Seen, Answered, Got, Stored
<1>4. CopiesOK
  BY <1>3, FS_EmptySet DEF Init, CopiesOK, InNetwork, Received
<1> QED BY <1>1, <1>2, <1>4 DEF TInv

(* TInv is inductive.                                                      *)
LEMMA TrafficInvariant == Spec => []TInv
<1>1. TInv /\ Next => TInv'
  BY NextType, NextNumbers, NextCopies, NextSocket DEF TInv
<1>2. TInv /\ UNCHANGED vars => TInv'
  BY DEF TInv, vars, lifeVars, sendVars, recvVars, netVars, TypeOK, SeqOnce, NumbersOK, OriginOK,
     CopiesOK, InNetwork, Received, Seen, Answered, Got, Stored, SocketOK, StopQuiesces
<1> QED BY <1>1, <1>2, InitTInv, PTL DEF Spec

(* The sequence numbers that have a copy on the way to the client are not  *)
(* more than the copies.                                                   *)
LEMMA PendingCopies ==
    ASSUME TypeOK
    PROVE  Cardinality(Seen) <=
               Cardinality(Answered) + (InNetwork + Cardinality(Got))
<1> DEFINE A == {m[1] : m \in toSender}
           B == {reply[r][1] : r \in Got}
<1>1. IsFiniteSet(A) /\ Cardinality(A) \in Nat /\ Cardinality(A) <= Cardinality(toSender)
  <2> DEFINE f == [m \in toSender |-> m[1]]
  <2>1. f \in Surjection(toSender, A)
    BY DEF Surjection
  <2> HIDE DEF A, f
  <2> QED BY <2>1, Finite, FS_Surjection, FS_CardinalityType
<1>2. IsFiniteSet(B) /\ Cardinality(B) \in Nat /\ Cardinality(B) <= Cardinality(Got)
  <2> DEFINE f == [r \in Got |-> reply[r][1]]
  <2>1. f \in Surjection(Got, B)
    BY DEF Surjection
  <2> HIDE DEF B, f
  <2> QED BY <2>1, Finite, FS_Surjection, FS_CardinalityType
<1>3. Seen \subseteq (Answered \cup toReflector) \cup (A \cup B)
  BY DEF Seen, Answered
<1> HIDE DEF A, B
<1>4. ASSUME NEW S, NEW T, IsFiniteSet(S), IsFiniteSet(T)
      PROVE  /\ IsFiniteSet(S \cup T) /\ Cardinality(S \cup T) \in Nat
             /\ Cardinality(S \cup T) <= Cardinality(S) + Cardinality(T)
  <2>1. Cardinality(S \cup T) = Cardinality(S) + Cardinality(T) - Cardinality(S \cap T)
        /\ IsFiniteSet(S \cup T)
    BY <1>4, FS_Union
  <2>2. Cardinality(S \cap T) \in Nat
    BY <1>4, FS_Intersection, FS_CardinalityType
  <2>3. Cardinality(S) \in Nat /\ Cardinality(T) \in Nat /\ Cardinality(S \cup T) \in Nat
    BY <1>4, <2>1, FS_CardinalityType
  <2> QED BY <2>1, <2>2, <2>3
<1> DEFINE C == Answered \cup toReflector
           D == A \cup B
<1>5. /\ IsFiniteSet(C) /\ Cardinality(C) \in Nat
      /\ Cardinality(C) <= Cardinality(Answered) + Cardinality(toReflector)
  BY <1>4, Finite
<1>6. /\ IsFiniteSet(D) /\ Cardinality(D) \in Nat
      /\ Cardinality(D) <= Cardinality(A) + Cardinality(B)
  BY <1>1, <1>2, <1>4
<1> HIDE DEF C, D
<1>7. IsFiniteSet(C \cup D) /\ Cardinality(C \cup D) \in Nat
      /\ Cardinality(C \cup D) <= Cardinality(C) + Cardinality(D)
  BY <1>4, <1>5, <1>6
<1>8. Cardinality(Seen) <= Cardinality(C \cup D)
  BY <1>3, <1>7, FS_Subset DEF C, D
<1> QED BY <1>1, <1>2, <1>5, <1>6, <1>7, <1>8, Finite, TrafficAssumption DEF InNetwork

(* What the statistics say, in any state.                                  *)
LEMMA Counts ==
    ASSUME TInv
    PROVE  /\ Cardinality(Answered) \in Nat /\ Cardinality(Stored) \in Nat
           /\ totalReceived \in Nat /\ dups \in Nat
           /\ Cardinality(Answered) <= totalReceived + Cardinality(Stored)
           /\ totalReceived + Cardinality(Stored) <= Cardinality(Answered) + dups
<1>1. /\ Cardinality(Answered) \in Nat /\ Cardinality(Stored) \in Nat /\ Cardinality(Got) \in Nat
      /\ Cardinality(toReflector) \in Nat /\ Cardinality(toSender) \in Nat
      /\ Cardinality(Seen) \in Nat
      /\ totalReceived \in Nat /\ dups \in Nat
  BY Finite, TrafficAssumption DEF TInv, TypeOK
<1> QED BY <1>1, PendingCopies DEF TInv, CopiesOK, InNetwork, Received

-----------------------------------------------------------------------------
(* The theorems.                                                           *)

(* Every variable of the client and the network keeps its type: no counter *)
(* ever exceeds what was sent and duplicated, so none of them wraps.       *)
THEOREM TrafficTypes == Spec => []TypeOK
<1>1. TInv => TypeOK
  BY DEF TInv
<1> QED BY <1>1, TrafficInvariant, PTL

(* However many goroutines call SendTestPacket, no sequence number is used *)
(* for two packets, also across Start and Stop.                            *)
THEOREM SequenceNumbersUnique == Spec => []SeqOnce
<1>1. TInv => SeqOnce
  BY DEF TInv
<1> QED BY <1>1, TrafficInvariant, PTL

(* A reply finds the result of its packet stored, however fast it is.      *)
THEOREM RepliesFindTheirPacket == Spec => []RepliesKnown
<1>1. TInv => RepliesKnown
  BY DEF TInv, NumbersOK, OriginOK, RepliesKnown
<1> QED BY <1>1, TrafficInvariant, PTL

(* The number of replies is the number of answered packets, up to the      *)
(* replies that are being counted and the duplicates of the network.       *)
THEOREM ReceivedCountRight == Spec => []CountsAgree
<1>1. TInv => CountsAgree
  BY Counts DEF CountsAgree, Uncounted, Stored
<1> QED BY <1>1, TrafficInvariant, PTL

(* PacketsLost, computed on uint32, is the number of packets without a     *)
(* reply when the network duplicates nothing.                              *)
THEOREM LossCountRight == Spec => []LossReported
<1>1. TInv => LossReported
  <2> SUFFICES ASSUME TInv, dups = 0
               PROVE  PacketsLost = Cardinality((0 .. (seqNo - 1)) \ Answered) + Uncounted
    BY DEF LossReported
  <2> DEFINE All == 0 .. (seqNo - 1)
  <2>1. seqNo \in 0 .. MaxSeq /\ totalSent = seqNo /\ MaxSeq < Width /\ Width \in Nat
        /\ MaxSeq \in Nat
    BY TrafficAssumption DEF TInv, TypeOK, NumbersOK
  <2>2. IsFiniteSet(All) /\ Cardinality(All) = seqNo
    BY <2>1, FS_Interval
  <2>3. All \cap Answered = Answered
    <3>1. Answered \subseteq Seq /\ \A q \in Answered : q < seqNo
      BY DEF TInv, NumbersOK, Answered
    <3>2. ASSUME NEW q \in Answered PROVE q \in All
      <4>1. q \in 0 .. (MaxSeq - 1) /\ q < seqNo
        BY <3>1 DEF Seq
      <4> QED BY <2>1, <4>1
    <3> HIDE DEF All
    <3> QED BY <3>2
  <2> HIDE DEF All
  <2>4. Cardinality(All \ Answered) = seqNo - Cardinality(Answered)
        /\ Cardinality(All \ Answered) \in Nat
    BY <2>2, <2>3, FS_Difference, FS_CardinalityType
  <2>5. Cardinality(Answered) = totalReceived + Uncounted /\ Uncounted \in Nat
        /\ totalReceived \in Nat /\ Cardinality(Answered) \in Nat
    BY Counts DEF Uncounted, Stored
  <2>6. seqNo - totalReceived \in 0 .. (Width - 1)
    BY <2>1, <2>4, <2>5
  <2>7. (seqNo - totalReceived) % Width = seqNo - totalReceived
    BY <2>1, <2>6
  <2> QED BY <2>1, <2>4, <2>5, <2>7 DEF PacketsLost, All
<1> QED BY <1>1, TrafficInvariant, PTL

(* When Stop has returned, no receiver is left and the socket is closed.   *)
THEOREM StoppedSessionQuiet == Spec => []StopQuiesces
<1>1. TInv => StopQuiesces
  BY DEF TInv
<1> QED BY <1>1, TrafficInvariant, PTL
====
