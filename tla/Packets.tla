------------------------------- MODULE Packets -------------------------------
(***************************************************************************)
(* One test session seen as octets: the padding and the timeout that the   *)
(* client requests and the server accepts, the layouts of the test packets *)
(* (src/messages/test.go, test_rfc6038.go), what their HMAC and encryption *)
(* cover, the size and the padding of the reply in every mode, and the     *)
(* times that the client computes from it.                                 *)
(*                                                                         *)
(* Sizes are the real ones.  The contents of a field are left abstract     *)
(* except for timestamps: of a sequence number or an error estimate only   *)
(* the side that wrote it is kept.  Loss, reordering and concurrent        *)
(* senders are in TestTraffic; here one packet is under way at a time,     *)
(* the client's or one that anyone else sends to the reflector's port.     *)
(***************************************************************************)
EXTENDS Timestamps

CONSTANTS
    Paddings,    \* config.PaddingLength of the client
    Timeouts,    \* config.Timeout of the client, in nanoseconds
    OtherSizes,  \* sizes of the packets that others send
    Skews,       \* how far the server's clock may be ahead
    StartTime, MaxTime,  \* bounds on the clock
    None

ASSUME PacketsAssumption ==
    /\ Paddings \subseteq Nat /\ Timeouts \subseteq Nat /\ OtherSizes \subseteq Nat
    /\ Skews \subseteq Nat /\ None \notin Nat
    /\ StartTime \in Nat /\ MaxTime \in Nat /\ StartTime <= MaxTime

MaxTWAMPPacketSize == 2048

Modes == [security : {"unauthenticated", "authenticated", "encrypted"},
          reflectOctets : BOOLEAN, symmetricalSize : BOOLEAN]

VARIABLES
    mode,     \* the test mode, the same on both sides
    skew,     \* server clock minus client clock
    now,      \* client clock
    phase,    \* what happened last
    session,  \* [PaddingLength, Timeout, sent (the Timeout field), timeout (at the server)]
    own,      \* the packet is the client's
    packet, reply,     \* the test packet and its reflection
    sentAt, rxAt, txAt,  \* when they were stamped
    result    \* the PacketResult

vars == <<mode, skew, now, phase, session, own, packet, reply, sentAt, rxAt, txAt, result>>

Phases ==
    {"new", "requested", "refused", "hungup", "ready", "sent", "received",
     "dropped", "replied", "measured", "ignored", "crashed"}

Secure == mode.security # "unauthenticated"
Encrypted == mode.security = "encrypted"

Init ==
    /\ mode \in Modes /\ skew \in Skews /\ now = StartTime
    /\ phase = "new" /\ session = None
    /\ own = FALSE /\ packet = None /\ reply = None
    /\ sentAt = None /\ rxAt = None /\ txAt = None /\ result = None

-----------------------------------------------------------------------------
(* Layouts: where Marshal puts each field and with what it fills the       *)
(* padding; from where Unmarshal takes each field, the least length it     *)
(* accepts and the octets it wants to be zero.                             *)

SenderAt(seq, time, error) ==
    [SeqNumber |-> seq, Timestamp |-> time, ErrorEstimate |-> error]

ReflectorAt(seq, time, error, receive, sseq, stime, serror, ttl) ==
    [SeqNumber |-> seq, Timestamp |-> time, ErrorEstimate |-> error,
     ReceiveTimestamp |-> receive, SenderSeqNumber |-> sseq, SenderTimestamp |-> stime,
     SenderErrorEstimate |-> serror, SenderTTL |-> ttl]

SenderTestPacket_Marshal ==
    [min |-> 14, at |-> SenderAt(0, 4, 12), fill |-> "zeros"]
SenderTestPacket_Unmarshal ==
    [min |-> 14, at |-> SenderAt(0, 4, 12), mbz |-> {}]

SenderTestPacketAuth_Marshal ==
    [min |-> 48, at |-> SenderAt(0, 16, 24), fill |-> "client"]
SenderTestPacketAuth_Unmarshal ==
    [min |-> 48, at |-> SenderAt(0, 16, 24), mbz |-> {<<4, 16>>, <<26, 32>>}]

SenderTestPacketReflectOctets_Marshal ==
    [min |-> 14, at |-> SenderAt(0, 4, 12), fill |-> "client"]
SenderTestPacketReflectOctets_Unmarshal ==
    [min |-> 14, at |-> SenderAt(0, 4, 12), mbz |-> {}]

SenderTestPacketAuthReflectOctets_Marshal ==
    [min |-> 48, at |-> SenderAt(0, 16, 24), fill |-> "client"]
SenderTestPacketAuthReflectOctets_Unmarshal ==
    [min |-> 48, at |-> SenderAt(0, 16, 24), mbz |-> {<<4, 16>>, <<26, 32>>}]

ReflectorTestPacket_Marshal ==
    [min |-> 41, at |-> ReflectorAt(0, 4, 12, 16, 24, 28, 36, 40), fill |-> "zeros"]
ReflectorTestPacket_Unmarshal ==
    [min |-> 41, at |-> ReflectorAt(0, 4, 12, 16, 24, 28, 36, 40),
     mbz |-> {<<14, 16>>, <<38, 40>>}]

ReflectorTestPacketAuth_Marshal ==
    [min |-> 112, at |-> ReflectorAt(0, 16, 24, 32, 48, 64, 72, 80), fill |-> "server"]
ReflectorTestPacketAuth_Unmarshal ==
    [min |-> 112, at |-> ReflectorAt(0, 16, 24, 32, 48, 64, 72, 80),
     mbz |-> {<<4, 16>>, <<26, 32>>, <<40, 48>>, <<52, 64>>, <<74, 80>>, <<81, 96>>}]

(* Their padding is the sender's.                                          *)
ReflectorTestPacketReflectOctets_Marshal ==
    [min |-> 41, at |-> ReflectorAt(0, 4, 12, 16, 24, 28, 36, 40)]
ReflectorTestPacketAuthReflectOctets_Marshal ==
    [min |-> 112, at |-> ReflectorAt(0, 16, 24, 32, 48, 64, 72, 80)]

(* A pooled buffer of MaxTWAMPPacketSize octets is sliced to the size of   *)
(* the packet, which panics when it is longer.                             *)
Get(size) == size <= MaxTWAMPPacketSize

Marshal(layout, paddingSize, fill, fields) ==
    [size |-> layout.min + paddingSize, at |-> layout.at, fill |-> fill, fields |-> fields,
     hmac |-> 0, cipher |-> 0]

(* The field of the packet that begins where Unmarshal looks for f.        *)
Field(p, layout, f) == p.fields[CHOOSE g \in DOMAIN p.at : p.at[g] = layout.at[f]]

Unmarshals(p, layout) ==
    /\ p.size >= layout.min
    /\ \A range \in layout.mbz, f \in DOMAIN p.at : p.at[f] \notin range[1] .. range[2] - 1

(* common.HMACCoverage, and the octets that are encrypted.                 *)
HMACCoverage(isEncrypted, isReflectorPacket) ==
    IF ~isEncrypted THEN 16 ELSE IF isReflectorPacket THEN 96 ELSE 32

MinAuthSize(isReflector) == IF isReflector THEN 112 ELSE 48
CipherLength(isAuthenticated, isReflector) ==
    IF isAuthenticated THEN 16 ELSE IF isReflector THEN 96 ELSE 32

(* It refuses what is shorter than MinAuthSize, which no layout is.        *)
encryptTestPacket(p, isAuthenticated, isReflector) ==
    [p EXCEPT !.cipher = CipherLength(isAuthenticated, isReflector)]

(* The plain packet is back only if as much is decrypted as was encrypted. *)
Decrypts(p, isAuthenticated, isReflector) ==
    /\ p.size >= MinAuthSize(isReflector)
    /\ p.cipher = CipherLength(isAuthenticated, isReflector)

Protect(p, isReflector) ==
    IF Secure
    THEN encryptTestPacket([p EXCEPT !.hmac = HMACCoverage(Encrypted, isReflector)],
                           ~Encrypted, isReflector)
    ELSE p

(* Decrypt, verify the HMAC, parse.                                        *)
Accepts(p, layout, isReflector) ==
    /\ Secure =>
        /\ Decrypts(p, ~Encrypted, isReflector)
        /\ p.hmac = HMACCoverage(Encrypted, isReflector)
    /\ Unmarshals(p, layout)

-----------------------------------------------------------------------------
(* The request.                                                            *)

Larger(a, b) == IF a > b THEN a ELSE b

calculateMinPadding_Faulty(security) == 0
calculateMinPadding(security) == IF security = "unauthenticated" THEN 27 ELSE 56

DefaultTimeout == 3 * NanosPerSec

TimeoutField(d) ==
    [Seconds |-> (d \div NanosPerSec) % EraSecs, Fraction |-> NanoToFrac(d % NanosPerSec)]

RequestSession(padding, timeout) ==
    LET d == IF timeout = 0 THEN DefaultTimeout ELSE timeout IN
    /\ phase = "new"
    /\ session' = [PaddingLength |-> Larger(padding, calculateMinPadding(mode.security)),
                   Timeout |-> d, sent |-> TimeoutField(d), timeout |-> None]
    /\ phase' = "requested"
    /\ UNCHANGED <<mode, skew, now, own, packet, reply, sentAt, rxAt, txAt, result>>

(* The request cannot be parsed, and the handler ends the connection.      *)
RequestUnmarshals == session.PaddingLength <= MaxTWAMPPacketSize

maxSenderPadding_Faulty == MaxTWAMPPacketSize
maxSenderPadding ==
    MaxTWAMPPacketSize - (IF Secure THEN SenderTestPacketAuth_Marshal ELSE SenderTestPacket_Marshal).min

handleRequestTWSession ==
    /\ phase = "requested"
    /\ \/ ~RequestUnmarshals /\ phase' = "hungup" /\ UNCHANGED session
       \/ /\ RequestUnmarshals /\ session.PaddingLength > maxSenderPadding
          /\ phase' = "refused" /\ UNCHANGED session
       \/ /\ RequestUnmarshals /\ session.PaddingLength <= maxSenderPadding
          /\ phase' = "ready"
          /\ session' = [session EXCEPT !.timeout = Duration(session.sent)]
    /\ UNCHANGED <<mode, skew, now, own, packet, reply, sentAt, rxAt, txAt, result>>

-----------------------------------------------------------------------------
(* The client's packet.                                                    *)

Idle == phase \in {"ready", "dropped", "measured", "ignored"}

Forget == reply' = None /\ rxAt' = None /\ txAt' = None /\ result' = None

SenderLayout ==
    CASE Secure /\ mode.reflectOctets   -> SenderTestPacketAuthReflectOctets_Marshal
      [] Secure /\ ~mode.reflectOctets  -> SenderTestPacketAuth_Marshal
      [] ~Secure /\ mode.reflectOctets  -> SenderTestPacketReflectOctets_Marshal
      [] ~Secure /\ ~mode.reflectOctets -> SenderTestPacket_Marshal

SendTestPacket ==
    LET p == Marshal(SenderLayout, session.PaddingLength, SenderLayout.fill,
                     [SeqNumber |-> "client", Timestamp |-> FromTime(now),
                      ErrorEstimate |-> "client"])
    IN  /\ Idle
        /\ own' = TRUE /\ sentAt' = now /\ packet' = Protect(p, FALSE)
        /\ phase' = IF Get(p.size) THEN "sent" ELSE "crashed"
        /\ Forget
        /\ UNCHANGED <<mode, skew, now, session>>

(* Anyone else's, without the keys of the session.                         *)
SendOther(size) ==
    /\ Idle
    /\ own' = FALSE /\ sentAt' = now
    /\ packet' = [Marshal(SenderTestPacket_Marshal, 0, "other",
                          [SeqNumber |-> "other", Timestamp |-> FromTime(now),
                           ErrorEstimate |-> "other"]) EXCEPT !.size = size]
    /\ phase' = "sent"
    /\ Forget
    /\ UNCHANGED <<mode, skew, now, session>>

-----------------------------------------------------------------------------
(* The reflector, with a clock of its own.                                 *)

(* The read has room for MaxTWAMPPacketSize octets; the rest is lost.      *)
Read(p) == [p EXCEPT !.size = IF @ > MaxTWAMPPacketSize THEN MaxTWAMPPacketSize ELSE @]

ParseLayout ==
    CASE Secure /\ mode.reflectOctets   -> SenderTestPacketAuthReflectOctets_Unmarshal
      [] Secure /\ ~mode.reflectOctets  -> SenderTestPacketAuth_Unmarshal
      [] ~Secure /\ mode.reflectOctets  -> SenderTestPacketReflectOctets_Unmarshal
      [] ~Secure /\ ~mode.reflectOctets -> SenderTestPacket_Unmarshal

(* processAndReflect up to the parsed packet.                              *)
Receive ==
    LET p == Read(packet) IN
    /\ phase = "sent"
    /\ rxAt' = now + skew /\ packet' = p
    /\ phase' = IF Accepts(p, ParseLayout, FALSE) THEN "received" ELSE "dropped"
    /\ UNCHANGED <<mode, skew, now, session, own, reply, sentAt, txAt, result>>

CalculateSymmetricalPadding(size) == IF size > 41 THEN size - 41 ELSE 0
CalculateSymmetricalPaddingAuth(size) == IF size > 112 THEN size - 112 ELSE 0

(* The padding of a reflect-octets reply, lengthened (by zeros) to the     *)
(* size of the packet if that is larger; it never is, as a reply has the   *)
(* longer header.                                                          *)
ReflectedPadding(baseSize) ==
    LET length == packet.size - ParseLayout.min
    IN  IF mode.symmetricalSize /\ packet.size > baseSize + length
        THEN packet.size - baseSize ELSE length

ReflectorFields ==
    [SeqNumber |-> "server", Timestamp |-> FromTime(now + skew), ErrorEstimate |-> "server",
     ReceiveTimestamp |-> FromTime(rxAt),
     SenderSeqNumber |-> Field(packet, ParseLayout, "SeqNumber"),
     SenderTimestamp |-> Field(packet, ParseLayout, "Timestamp"),
     SenderErrorEstimate |-> Field(packet, ParseLayout, "ErrorEstimate"),
     SenderTTL |-> "network"]

SecureReply ==
    IF mode.reflectOctets
    THEN LET layout == ReflectorTestPacketAuthReflectOctets_Marshal
         IN  Marshal(layout, ReflectedPadding(layout.min), packet.fill, ReflectorFields)
    ELSE LET layout == ReflectorTestPacketAuth_Marshal
             size == IF mode.symmetricalSize THEN CalculateSymmetricalPaddingAuth(packet.size) ELSE 0
         IN  Marshal(layout, size, layout.fill, ReflectorFields)

PlainReply ==
    IF mode.reflectOctets
    THEN LET layout == ReflectorTestPacketReflectOctets_Marshal
         IN  Marshal(layout, ReflectedPadding(layout.min), packet.fill, ReflectorFields)
    ELSE LET layout == ReflectorTestPacket_Marshal
             size == IF mode.symmetricalSize THEN CalculateSymmetricalPadding(packet.size)
                     ELSE Larger(0, packet.size - 41)
         IN  Marshal(layout, size, layout.fill, ReflectorFields)

Reflect ==
    LET r == IF Secure THEN SecureReply ELSE PlainReply IN
    /\ phase = "received"
    /\ txAt' = now + skew /\ reply' = Protect(r, TRUE)
    /\ phase' = IF Get(r.size) THEN "replied" ELSE "crashed"
    /\ UNCHANGED <<mode, skew, now, session, own, packet, sentAt, rxAt, result>>

(* The reply to someone else does not reach the client.                    *)
ReplyElsewhere ==
    /\ phase = "replied" /\ ~own
    /\ phase' = "ready"
    /\ UNCHANGED <<mode, skew, now, session, own, packet, reply, sentAt, rxAt, txAt, result>>

-----------------------------------------------------------------------------
(* The client's measurement.                                               *)

ReplyLayout == IF Secure THEN ReflectorTestPacketAuth_Unmarshal ELSE ReflectorTestPacket_Unmarshal

(* ToTime interprets a timestamp in the era of the client's clock, which   *)
(* each call reads once more: rxRef and txRef.                             *)
PacketResult(p, rxRef, txRef) ==
    LET f(name) == Field(p, ReplyLayout, name)
    IN  [SentTime |-> sentAt, ReceivedTime |-> now, RTT |-> now - sentAt,
         SenderTimestamp |-> f("SenderTimestamp"),
         SenderErrorEstimate |-> f("SenderErrorEstimate"),
         ReflectorErrorEstimate |-> f("ErrorEstimate"),
         ReflectorSeqNo |-> f("SeqNumber"), SenderTTL |-> f("SenderTTL"),
         ReflectorRxTime |-> ToTimeWithReference(f("ReceiveTimestamp"), rxRef),
         ReflectorTxTime |-> ToTimeWithReference(f("Timestamp"), txRef),
         ReflectorLatency |-> DurationBetween(f("ReceiveTimestamp"), f("Timestamp"))]

(* The sequence number must be one that the client has sent.               *)
processReceivedPacket ==
    LET p == Read(reply)
        known == /\ Accepts(p, ReplyLayout, TRUE)
                 /\ Field(p, ReplyLayout, "SenderSeqNumber") = "client"
    IN  /\ phase = "replied" /\ own
        /\ \/ known /\ phase' = "measured"
              /\ \E rxRef \in now .. MaxTime : \E txRef \in rxRef .. MaxTime :
                    result' = PacketResult(p, rxRef, txRef) /\ now' = txRef
           \/ ~known /\ phase' = "ignored" /\ result' = None /\ UNCHANGED now
        /\ UNCHANGED <<mode, skew, session, own, packet, reply, sentAt, rxAt, txAt>>

-----------------------------------------------------------------------------

Over == phase \in {"refused", "hungup", "crashed"}

Tick ==
    /\ phase \notin {"new", "requested"} /\ ~Over /\ now < MaxTime
    /\ now' = now + 1
    /\ UNCHANGED <<mode, skew, phase, session, own, packet, reply, sentAt, rxAt, txAt, result>>

Terminated == Over /\ UNCHANGED vars

Next ==
    \/ \E padding \in Paddings, timeout \in Timeouts : RequestSession(padding, timeout)
    \/ handleRequestTWSession
    \/ SendTestPacket
    \/ \E size \in OtherSizes : SendOther(size)
    \/ Receive \/ Reflect \/ ReplyElsewhere \/ processReceivedPacket
    \/ Tick \/ Terminated

Spec == Init /\ [][Next]_vars

-----------------------------------------------------------------------------

Origins == {"client", "server", "other", "network"}

SenderFields == [SeqNumber : Origins, Timestamp : TWAMPTimestamp, ErrorEstimate : Origins]

Fields ==
    [SeqNumber : Origins, Timestamp : TWAMPTimestamp, ErrorEstimate : Origins,
     ReceiveTimestamp : TWAMPTimestamp, SenderSeqNumber : Origins,
     SenderTimestamp : TWAMPTimestamp, SenderErrorEstimate : Origins, SenderTTL : Origins]

Packet(names, fields) ==
    [size : Nat, at : [names -> Nat], fill : Origins \cup {"zeros"}, fields : fields,
     hmac : {0, 16, 32, 96}, cipher : {0, 16, 32, 96}]

SenderPackets == Packet(DOMAIN SenderAt(0, 0, 0), SenderFields)
ReflectorPackets == Packet(DOMAIN ReflectorAt(0, 0, 0, 0, 0, 0, 0, 0), Fields)

(* None is no packet.                                                      *)
ASSUME NoneAssumption == None \notin ReflectorPackets

(* The types of the variables, which the proofs start from.                *)
TypeOK ==
    /\ mode \in Modes /\ skew \in Skews /\ now \in StartTime .. MaxTime
    /\ phase \in Phases /\ own \in BOOLEAN
    /\ session \in {None} \cup [PaddingLength : Nat, Timeout : Nat, sent : TWAMPTimestamp,
                                timeout : Nat \cup {None}]
    /\ packet \in {None} \cup SenderPackets
    /\ reply \in {None} \cup ReflectorPackets
    /\ {sentAt, rxAt, txAt} \subseteq Nat \cup {None}

(* The limits of the request and of the packets fit together.  What the    *)
(* client sends in a session that was accepted is reflected and measured:  *)
(* neither side refuses the other's layout, HMAC, encryption or length.    *)
(* And no packet of any length makes a side panic, except when the         *)
(* reflector builds a reflect-octets reply.                                *)
PacketsServed ==
    /\ own => phase \notin {"dropped", "ignored"}
    /\ phase = "crashed" => mode.reflectOctets /\ reply # None

(* The reply has the size and the padding that the mode calls for.  With   *)
(* reflect-octets it is the sender's padding, all of it; if the size is to *)
(* be symmetrical as well this says nothing of the size, on which code and *)
(* RFC 6038 differ.  Otherwise, if the mode is symmetrical or              *)
(* unauthenticated, the client's packets come back in their own size,      *)
(* because the client pads them enough, save that an authenticated reply   *)
(* has at least 112 octets; anyone else's come back in no less than the    *)
(* size of a reply.                                                        *)
ReplyShape ==
    phase \in {"replied", "measured"} =>
        IF mode.reflectOctets
        THEN /\ reply.fill = packet.fill
             /\ ~mode.symmetricalSize =>
                    reply.size - ReplyLayout.min = packet.size - SenderLayout.min
        ELSE mode.symmetricalSize \/ ~Secure =>
                reply.size = Larger(packet.size, IF own /\ ~Secure THEN 0 ELSE ReplyLayout.min)

Era(t) == IF Unix(t) < NTPEra1Unix THEN 0 ELSE 1

MaxInterval == (EraSecs \div 2 - 1) * NanosPerSec

(* What timestamps can express: the clocks stay within the two eras that   *)
(* ToTimeWithReference knows, a session lasts less than half an era, and   *)
(* the seconds of a timeout fit their field.                               *)
ASSUME ClockAssumption ==
    /\ \A x \in Skews \cup {MaxInterval} : Unix(MaxTime + x) < NTPEra1Unix + EraSecs
    /\ MaxTime - StartTime <= MaxInterval
    /\ \A d \in Timeouts : Unix(d) < EraSecs

(* Conversions round down, so a time may come back a nanosecond early.     *)
Within(measured, true) == measured \in {true - 1, true}

(* The client gets back its own timestamp and what the server measured:    *)
(* the time in the reflector is right also when the era changes in         *)
(* between; the times of arrival and departure are right if the server's   *)
(* clock was in the era in which the client has read the reply, from the   *)
(* reply's arrival until now.                                              *)
MeasuredTimes ==
    phase = "measured" =>
        /\ result.SenderTimestamp = FromTime(sentAt)
        /\ result.SenderErrorEstimate = "client"
        /\ result.ReflectorErrorEstimate = "server"
        /\ Within(result.ReflectorLatency, txAt - rxAt)
        /\ Era(result.ReceivedTime) = Era(now) =>
            /\ Era(rxAt) = Era(now) => Within(result.ReflectorRxTime, rxAt)
            /\ Era(txAt) = Era(now) => Within(result.ReflectorTxTime, txAt)

(* The grace period of the session at the server is the timeout of the     *)
(* client, fractions of a second included.                                 *)
TimeoutCarried ==
    phase \notin {"new", "requested", "refused", "hungup"} =>
        Within(session.timeout, session.Timeout)

(* The arithmetic of timestamps agrees with that of times, across the end  *)
(* of an era: Sub undoes Add, DurationBetween recovers what was added, up  *)
(* to half an era, and Before and After order the times of one era.        *)
StampArithmetic ==
    LET ts == FromTime(now) IN
    \A d \in 0 .. MaxInterval :
        /\ Sub(Add(ts, d), d) = ts
        /\ Within(DurationBetween(ts, Add(ts, d)), d)
        /\ Within(DurationBetween(Add(ts, d), ts), -d)
        /\ Era(now) = Era(now + d) =>
            /\ Before(ts, FromTime(now + d)) <=> d > 0
            /\ After(FromTime(now + d), ts) <=> d > 0

(* Buffers are large enough for any TWAMP packet.                          *)
BuffersSuffice == phase # "crashed"
====
