--------------------------- MODULE PacketsProofs ---------------------------
(***************************************************************************)
(* Proofs about Packets for any paddings, timeouts, packet sizes, skews    *)
(* and clocks, and for any widths of a timestamp.  The invariant follows   *)
(* the packet from its layout at the client through the reflector to the   *)
(* fields that the client reads; the arithmetic of timestamps rests on one *)
(* fact about division, that a quotient is the only multiple that fits.    *)
(***************************************************************************)
EXTENDS Packets, TLAPS

Sender == IF own THEN "client" ELSE "other"

HmacOf(isReflector) == IF Secure THEN HMACCoverage(Encrypted, isReflector) ELSE 0
CipherOf(isReflector) == IF Secure THEN CipherLength(~Encrypted, isReflector) ELSE 0

(* The session was requested with padding enough, and accepted only if its *)
(* packets fit a buffer.                                                   *)
SessionOK ==
    /\ phase # "new" =>
        /\ session \in [PaddingLength : Nat, Timeout : Nat, sent : TWAMPTimestamp,
                        timeout : Nat \cup {None}]
        /\ session.PaddingLength >= calculateMinPadding(mode.security)
        /\ session.sent = TimeoutField(session.Timeout)
        /\ Unix(session.Timeout) < EraSecs
    /\ phase \notin {"new", "requested", "refused", "hungup"} =>
        /\ session.PaddingLength <= maxSenderPadding
        /\ session.timeout = Duration(session.sent)

(* The packet is as its sender made it.                                    *)
PacketOK ==
    phase \in {"sent", "received", "replied", "measured"} =>
        /\ packet \in SenderPackets /\ sentAt \in Nat
        /\ packet.fields = [SeqNumber |-> Sender, Timestamp |-> FromTime(sentAt),
                            ErrorEstimate |-> Sender]
        /\ own => /\ packet.size = SenderLayout.min + session.PaddingLength
                  /\ packet.at = SenderLayout.at
                  /\ packet.hmac = HmacOf(FALSE) /\ packet.cipher = CipherOf(FALSE)
        /\ ~own => /\ packet.at = SenderTestPacket_Marshal.at
                   /\ packet.hmac = 0 /\ packet.cipher = 0

(* Without the keys only an unauthenticated session accepts it, in one     *)
(* buffer.                                                                 *)
ReceivedOK ==
    phase \in {"received", "replied", "measured"} =>
        /\ own \/ ~Secure
        /\ packet.size \in SenderLayout.min .. MaxTWAMPPacketSize
        /\ rxAt \in (StartTime + skew) .. (now + skew)

(* The reply carries the sender's fields back and fits a buffer.           *)
ReplyOK ==
    phase \in {"replied", "measured"} =>
        /\ reply \in ReflectorPackets
        /\ txAt \in rxAt .. (now + skew)
        /\ reply.size \in ReplyLayout.min .. MaxTWAMPPacketSize
        /\ reply.at = ReplyLayout.at
        /\ reply.hmac = HmacOf(TRUE) /\ reply.cipher = CipherOf(TRUE)
        /\ reply.fields =
            [SeqNumber |-> "server", Timestamp |-> FromTime(txAt), ErrorEstimate |-> "server",
             ReceiveTimestamp |-> FromTime(rxAt), SenderSeqNumber |-> Sender,
             SenderTimestamp |-> FromTime(sentAt), SenderErrorEstimate |-> Sender,
             SenderTTL |-> "network"]

(* The reply was measured when it came, not later than now.                *)
ResultOK == phase = "measured" => result.ReceivedTime \in Nat /\ result.ReceivedTime <= now

(* All of it.                                                              *)
PInv ==
    /\ TypeOK /\ SessionOK /\ PacketOK /\ ReceivedOK /\ ReplyOK /\ ResultOK
    /\ PacketsServed /\ ReplyShape /\ MeasuredTimes

-----------------------------------------------------------------------------
(* Arithmetic.                                                             *)

(* Multiplication by a natural number is monotone.                         *)
LEMMA MulMono ==
    ASSUME NEW x \in Int, NEW y \in Int, NEW b \in Nat, x <= y
    PROVE  x * b <= y * b
BY SMT

(* A quotient and its remainder.                                           *)
LEMMA DivMod ==
    ASSUME NEW a \in Int, NEW b \in Nat \ {0}
    PROVE  /\ a \div b \in Int /\ a % b \in 0 .. b - 1
           /\ a = (a \div b) * b + (a % b)
BY SMT

(* The quotient is the only multiple that fits.                            *)
LEMMA DivUnique ==
    ASSUME NEW a \in Int, NEW b \in Nat \ {0}, NEW q \in Int, NEW r \in 0 .. b - 1,
           a = q * b + r
    PROVE  a \div b = q /\ a % b = r
<1> DEFINE p == a \div b
           s == a % b
<1>1. p \in Int /\ s \in 0 .. b - 1 /\ a = p * b + s
  BY DivMod
<1> HIDE DEF p, s
<1>2. ~(p <= q - 1)
  <2>1. SUFFICES ASSUME p <= q - 1 PROVE FALSE
    OBVIOUS
  <2>2. p * b <= (q - 1) * b
    BY <1>1, <2>1, MulMono
  <2>3. (q - 1) * b = q * b - b
    BY SMT
  <2> QED  BY <1>1, <2>2, <2>3
<1>3. ~(q <= p - 1)
  <2>1. SUFFICES ASSUME q <= p - 1 PROVE FALSE
    OBVIOUS
  <2>2. q * b <= (p - 1) * b
    BY <1>1, <2>1, MulMono
  <2>3. (p - 1) * b = p * b - b
    BY <1>1, SMT
  <2> QED  BY <1>1, <2>2, <2>3
<1>4. p = q
  BY <1>1, <1>2, <1>3
<1> QED  BY <1>1, <1>4 DEF p, s

(* Bounds on a quotient.                                                   *)
LEMMA DivBounds ==
    ASSUME NEW a \in Int, NEW b \in Nat \ {0}, NEW lo \in Int, NEW hi \in Int,
           lo * b <= a, a < hi * b
    PROVE  a \div b \in lo .. hi - 1
<1> DEFINE p == a \div b
           s == a % b
<1>1. p \in Int /\ s \in 0 .. b - 1 /\ a = p * b + s
  BY DivMod
<1> HIDE DEF p, s
<1>2. ~(hi <= p)
  <2>1. SUFFICES ASSUME hi <= p PROVE FALSE
    OBVIOUS
  <2>2. hi * b <= p * b
    BY <1>1, <2>1, MulMono
  <2> QED  BY <1>1, <2>2
<1>3. ~(p <= lo - 1)
  <2>1. SUFFICES ASSUME p <= lo - 1 PROVE FALSE
    OBVIOUS
  <2>2. p * b <= (lo - 1) * b
    BY <1>1, <2>1, MulMono
  <2>3. (lo - 1) * b = lo * b - b
    BY SMT
  <2> QED  BY <1>1, <2>2, <2>3
<1> QED  BY <1>1, <1>2, <1>3 DEF p

(* Remainders of numbers less than an era off.                             *)
LEMMA ModNear ==
    ASSUME NEW x \in Int, NEW b \in Nat \ {0}, -b <= x, x < 2 * b
    PROVE  x % b = IF x < 0 THEN x + b ELSE IF x < b THEN x ELSE x - b
<1>1. CASE x < 0
  <2>1. x = (-1) * b + (x + b)
    BY SMT
  <2> QED  BY <1>1, <2>1, DivUnique
<1>2. CASE 0 <= x /\ x < b
  <2>1. x = 0 * b + x
    BY SMT
  <2> QED  BY <1>2, <2>1, DivUnique
<1>3. CASE b <= x
  <2>1. x = 1 * b + (x - b)
    BY SMT
  <2> QED  BY <1>3, <2>1, DivUnique
<1> QED  BY <1>1, <1>2, <1>3

(* The seconds of two moments y - x < EraSecs apart.                       *)
LEMMA ModStep ==
    ASSUME NEW x \in Nat, NEW y \in Nat, NEW b \in Nat \ {0}, x <= y, y - x < b
    PROVE  (y % b) - (x % b) \in {y - x, y - x - b}
<1> DEFINE p == x \div b
           r == x % b
<1>1. p \in Int /\ r \in 0 .. b - 1 /\ x = p * b + r
  BY DivMod
<1> HIDE DEF p, r
<1>2. CASE r + (y - x) < b
  <2> DEFINE s == r + (y - x)
  <2>1. y = p * b + s /\ s \in 0 .. b - 1
    BY <1>1, <1>2
  <2> HIDE DEF s
  <2>2. y % b = s
    BY <1>1, <2>1, DivUnique
  <2> QED  BY <1>1, <2>2 DEF r, s
<1>3. CASE ~(r + (y - x) < b)
  <2>1. (p + 1) * b = p * b + b
    BY <1>1, SMT
  <2> DEFINE q == p + 1
             s == r + (y - x) - b
  <2>2. y = q * b + s /\ q \in Int /\ s \in 0 .. b - 1
    BY <1>1, <1>3, <2>1
  <2> HIDE DEF q, s
  <2>3. y % b = s
    BY <1>1, <2>2, DivUnique
  <2> QED  BY <1>1, <2>3 DEF r, s
<1> QED  BY <1>2, <1>3

-----------------------------------------------------------------------------
(* Conversions of src/common/timestamp.go.                                 *)

(* A fraction is less than FracUnits, and rounded down.                    *)
LEMMA FracOfNano ==
    ASSUME NEW n \in 0 .. NanosPerSec - 1
    PROVE  /\ NanoToFrac(n) \in 0 .. FracUnits - 1
           /\ NanoToFrac(n) * NanosPerSec <= n * FracUnits
           /\ n * FracUnits < NanoToFrac(n) * NanosPerSec + NanosPerSec
<1> USE TimestampAssumption
<1> DEFINE a == n * FracUnits
<1>1. a \in Nat /\ 0 * NanosPerSec <= a
  BY SMT
<1>2. a < FracUnits * NanosPerSec
  <2>1. n * FracUnits <= (NanosPerSec - 1) * FracUnits
    BY MulMono
  <2>2. (NanosPerSec - 1) * FracUnits = FracUnits * NanosPerSec - FracUnits
    BY SMT
  <2>3. FracUnits * NanosPerSec \in Int
    BY SMT
  <2> QED  BY <1>1, <2>1, <2>2, <2>3
<1> HIDE DEF a
<1>3. a \div NanosPerSec \in 0 .. FracUnits - 1
  BY <1>1, <1>2, DivBounds
<1>4. a = (a \div NanosPerSec) * NanosPerSec + (a % NanosPerSec) /\ a % NanosPerSec \in 0 .. NanosPerSec - 1
  BY <1>1, DivMod
<1>5. NanoToFrac(n) = a \div NanosPerSec
  BY DEF NanoToFrac, a
<1>6. (a \div NanosPerSec) * NanosPerSec \in Int
  BY <1>3, SMT
<1>7. /\ (a \div NanosPerSec) * NanosPerSec <= a
      /\ a < (a \div NanosPerSec) * NanosPerSec + NanosPerSec
  BY <1>1, <1>4, <1>6
<1> QED  BY <1>3, <1>5, <1>7 DEF a

(* A later nanosecond has a larger fraction.                               *)
LEMMA FracMono ==
    ASSUME NEW m \in 0 .. NanosPerSec - 1, NEW n \in 0 .. NanosPerSec - 1, m < n
    PROVE  NanoToFrac(m) < NanoToFrac(n)
<1> USE TimestampAssumption
<1> DEFINE f == NanoToFrac(m)
           g == NanoToFrac(n)
<1>1. /\ f \in Nat /\ g \in Nat
      /\ f * NanosPerSec <= m * FracUnits /\ n * FracUnits < g * NanosPerSec + NanosPerSec
  BY FracOfNano
<1> HIDE DEF f, g
<1>2. (m + 1) * FracUnits <= n * FracUnits
  BY MulMono
<1>3. (m + 1) * FracUnits = m * FracUnits + FracUnits
  BY SMT
<1>4. SUFFICES ASSUME g <= f PROVE FALSE
  BY <1>1 DEF f, g
<1>5. g * NanosPerSec <= f * NanosPerSec
  BY <1>1, <1>4, MulMono
<1>6. /\ g * NanosPerSec \in Int /\ f * NanosPerSec \in Int
      /\ m * FracUnits \in Int /\ n * FracUnits \in Int
  BY <1>1, SMT
<1> QED  BY <1>1, <1>2, <1>3, <1>5, <1>6

(* Back to nanoseconds: a fraction that is less than one unit off k        *)
(* nanoseconds becomes k or k - 1.                                         *)
LEMMA NanoOfFrac ==
    ASSUME NEW k \in Int, NEW x \in Nat,
           k * FracUnits - NanosPerSec < x * NanosPerSec,
           x * NanosPerSec < k * FracUnits + NanosPerSec
    PROVE  FracToNano(x) \in {k - 1, k}
<1> USE TimestampAssumption
<1>1. (k - 1) * FracUnits = k * FracUnits - FracUnits /\ (k + 1) * FracUnits = k * FracUnits + FracUnits
  BY SMT
<1>2. x * NanosPerSec \in Int /\ k * FracUnits \in Int
  BY SMT
<1>3. (k - 1) * FracUnits <= x * NanosPerSec /\ x * NanosPerSec < (k + 1) * FracUnits
  BY <1>1, <1>2
<1> DEFINE a == x * NanosPerSec
           lo == k - 1
           hi == k + 1
<1>4. a \in Int /\ lo \in Int /\ hi \in Int /\ lo * FracUnits <= a /\ a < hi * FracUnits
  BY <1>2, <1>3
<1> HIDE DEF a, lo, hi
<1>5. a \div FracUnits \in lo .. hi - 1
  BY <1>4, DivBounds
<1>6. a \div FracUnits \in {k - 1, k}
  BY <1>5 DEF lo, hi
<1> QED  BY <1>6 DEF FracToNano, a

(* A time in seconds and nanoseconds.                                      *)
LEMMA TimeParts ==
    ASSUME NEW t \in Nat
    PROVE  /\ Unix(t) \in Nat /\ Nanosecond(t) \in 0 .. NanosPerSec - 1
           /\ t = Unix(t) * NanosPerSec + Nanosecond(t)
<1> USE TimestampAssumption
<1>1. /\ t \div NanosPerSec \in Int /\ t % NanosPerSec \in 0 .. NanosPerSec - 1
      /\ t = (t \div NanosPerSec) * NanosPerSec + (t % NanosPerSec)
  BY DivMod
<1>2. t \div NanosPerSec >= 0
  BY SMT
<1> QED  BY <1>1, <1>2 DEF Unix, Nanosecond

(* Times at most k seconds apart are at most k apart in whole seconds.     *)
LEMMA UnixApart ==
    ASSUME NEW t \in Nat, NEW u \in Nat, NEW k \in Int, u - t <= k * NanosPerSec
    PROVE  Unix(u) - Unix(t) <= k
<1> USE TimestampAssumption
<1> DEFINE a == Unix(t)
           b == Unix(u)
           m == Nanosecond(t)
           n == Nanosecond(u)
<1>1. /\ a \in Nat /\ b \in Nat /\ m \in 0 .. NanosPerSec - 1 /\ n \in 0 .. NanosPerSec - 1
      /\ t = a * NanosPerSec + m /\ u = b * NanosPerSec + n
  BY TimeParts
<1> HIDE DEF a, b, m, n
<1>2. SUFFICES ASSUME a + k + 1 <= b PROVE FALSE
  BY <1>1 DEF a, b
<1>3. (a + k + 1) * NanosPerSec <= b * NanosPerSec
  BY <1>1, <1>2, MulMono
<1>4. (a + k + 1) * NanosPerSec = a * NanosPerSec + k * NanosPerSec + NanosPerSec
  BY <1>1, SMT
<1>5. a * NanosPerSec \in Int /\ b * NanosPerSec \in Int /\ k * NanosPerSec \in Int
  BY <1>1, SMT
<1> QED  BY <1>1, <1>3, <1>4, <1>5

(* And seconds do not go back.                                             *)
LEMMA UnixMono ==
    ASSUME NEW t \in Nat, NEW u \in Nat, t <= u
    PROVE  Unix(t) <= Unix(u)
<1>1. 0 * NanosPerSec = 0
  BY TimestampAssumption, SMT
<1>2. Unix(t) - Unix(u) <= 0
  BY <1>1, UnixApart
<1> QED  BY <1>2, TimeParts

(* Whatever the time, its timestamp fits.                                  *)
LEMMA StampType ==
    ASSUME NEW t \in Nat
    PROVE  FromTime(t) \in TWAMPTimestamp
<1> USE TimestampAssumption
<1> DEFINE s == Unix(t) + NTPEpochOffset
<1>1. s \in Nat
  BY TimeParts
<1> HIDE DEF s
<1>2. s % EraSecs \in 0 .. EraSecs - 1
  BY <1>1, DivMod
<1>3. NanoToFrac(Nanosecond(t)) \in 0 .. FracUnits - 1
  BY TimeParts, FracOfNano
<1> QED  BY <1>2, <1>3 DEF FromTime, TWAMPTimestamp, s

(* A fraction and back.                                                    *)
LEMMA FracThereAndBack ==
    ASSUME NEW n \in 0 .. NanosPerSec - 1
    PROVE  FracToNano(NanoToFrac(n)) \in {n - 1, n}
<1> USE TimestampAssumption
<1> DEFINE f == NanoToFrac(n)
<1>1. /\ f \in Nat /\ f * NanosPerSec <= n * FracUnits
      /\ n * FracUnits < f * NanosPerSec + NanosPerSec
  BY FracOfNano
<1> HIDE DEF f
<1>2. f * NanosPerSec \in Int /\ n * FracUnits \in Int
  BY <1>1, SMT
<1>3. n * FracUnits - NanosPerSec < f * NanosPerSec /\ f * NanosPerSec < n * FracUnits + NanosPerSec
  BY <1>1, <1>2
<1>4. FracToNano(f) \in {n - 1, n}
  BY <1>1, <1>3, NanoOfFrac
<1> QED  BY <1>4 DEF f

(* The nanoseconds of a fraction are a natural number.                     *)
LEMMA NanoType ==
    ASSUME NEW x \in Nat
    PROVE  FracToNano(x) \in Nat
<1> USE TimestampAssumption
<1> DEFINE a == x * NanosPerSec
<1>1. a \in Nat
  BY SMT
<1> HIDE DEF a
<1>2. a \div FracUnits \in Nat
  BY <1>1, SMT
<1> QED  BY <1>2 DEF a, FracToNano

(* The Timeout field of a request, and what the server makes of it.        *)
LEMMA TimeoutFieldType ==
    ASSUME NEW d \in Nat
    PROVE  /\ TimeoutField(d) \in TWAMPTimestamp
           /\ Duration(TimeoutField(d)) \in Nat
<1> USE TimestampAssumption
<1> DEFINE s == Unix(d)
           n == Nanosecond(d)
<1>1. s \in Nat /\ n \in 0 .. NanosPerSec - 1
  BY TimeParts
<1>2. TimeoutField(d) = [Seconds |-> s % EraSecs, Fraction |-> NanoToFrac(n)]
  BY DEF TimeoutField, Unix, Nanosecond
<1> HIDE DEF s, n
<1>3. s % EraSecs \in 0 .. EraSecs - 1 /\ NanoToFrac(n) \in 0 .. FracUnits - 1
  BY <1>1, DivMod, FracOfNano
<1>4. FracToNano(NanoToFrac(n)) \in Nat
  BY <1>3, NanoType
<1>5. Duration(TimeoutField(d)) = (s % EraSecs) * NanosPerSec + FracToNano(NanoToFrac(n))
  BY <1>2 DEF Duration
<1>6. (s % EraSecs) * NanosPerSec \in Nat
  BY <1>3, SMT
<1> QED  BY <1>2, <1>3, <1>4, <1>5, <1>6 DEF TWAMPTimestamp

(* It gets the timeout back, if its seconds fit the field.                 *)
LEMMA TimeoutThereAndBack ==
    ASSUME NEW d \in Nat, Unix(d) < EraSecs
    PROVE  Within(Duration(TimeoutField(d)), d)
<1> USE TimestampAssumption
<1> DEFINE s == Unix(d)
           n == Nanosecond(d)
<1>1. s \in Nat /\ n \in 0 .. NanosPerSec - 1 /\ d = s * NanosPerSec + n
  BY TimeParts
<1>2. TimeoutField(d) = [Seconds |-> s % EraSecs, Fraction |-> NanoToFrac(n)]
  BY DEF TimeoutField, Unix, Nanosecond
<1>3. s < EraSecs
  OBVIOUS
<1> HIDE DEF s, n
<1>4. s % EraSecs = s
  <2>1. EraSecs \in Nat \ {0} /\ s \in Int /\ -EraSecs <= s /\ s < 2 * EraSecs
    BY <1>1, <1>3
  <2>2. s % EraSecs = IF s < 0 THEN s + EraSecs ELSE IF s < EraSecs THEN s ELSE s - EraSecs
    BY <2>1, ModNear
  <2> QED  BY <1>1, <1>3, <2>2
<1>5. FracToNano(NanoToFrac(n)) \in {n - 1, n}
  BY <1>1, FracThereAndBack
<1>6. Duration(TimeoutField(d)) = s * NanosPerSec + FracToNano(NanoToFrac(n))
  BY <1>2, <1>4 DEF Duration
<1>7. s * NanosPerSec \in Int
  BY <1>1, SMT
<1> QED  BY <1>1, <1>5, <1>6, <1>7 DEF Within

(* Seconds less than half an era apart are told apart in both directions.  *)
LEMMA SecondsApart ==
    ASSUME NEW x \in 0 .. EraSecs - 1, NEW y \in 0 .. EraSecs - 1,
           NEW d \in 0 .. (EraSecs \div 2) - 1, y - x \in {d, d - EraSecs}
    PROVE  SecondsBetween(x, y) = d /\ SecondsBetween(y, x) = -d
<1> USE TimestampAssumption
<1> DEFINE half == EraSecs \div 2
<1>1. half \in Nat /\ EraSecs = 2 * half
  BY SMT
<1> HIDE DEF half
<1>2. SecondsBetween(x, y) =
        IF x - y > half THEN y + EraSecs - x
        ELSE IF y - x > half THEN y - (x + EraSecs) ELSE y - x
  BY <1>1 DEF SecondsBetween, half
<1>3. SecondsBetween(y, x) =
        IF y - x > half THEN x + EraSecs - y
        ELSE IF x - y > half THEN x - (y + EraSecs) ELSE x - y
  BY <1>1 DEF SecondsBetween, half
<1>4. d <= half - 1 /\ d \in Nat
  BY <1>1 DEF half
<1> QED  BY <1>1, <1>2, <1>3, <1>4

(* The time between two timestamps, less than half an era apart.           *)
LEMMA BetweenTimes ==
    ASSUME NEW t \in Nat, NEW u \in Nat, t <= u,
           u - t <= ((EraSecs \div 2) - 1) * NanosPerSec
    PROVE  Within(DurationBetween(FromTime(t), FromTime(u)), u - t)
<1> USE TimestampAssumption
<1> DEFINE a == Unix(t)
           b == Unix(u)
           m == Nanosecond(t)
           n == Nanosecond(u)
           f == NanoToFrac(m)
           g == NanoToFrac(n)
           x == (a + NTPEpochOffset) % EraSecs
           y == (b + NTPEpochOffset) % EraSecs
           k == (EraSecs \div 2) - 1
           w == IF g < f THEN 1 ELSE 0
           h == g + w * FracUnits - f
<1>0. EraSecs \in Nat \ {0}
  OBVIOUS
<1>1. /\ a \in Nat /\ b \in Nat /\ m \in 0 .. NanosPerSec - 1 /\ n \in 0 .. NanosPerSec - 1
      /\ t = a * NanosPerSec + m /\ u = b * NanosPerSec + n
  BY TimeParts
<1>2. k \in Int /\ k < EraSecs /\ u - t <= k * NanosPerSec
  BY SMT
<1>3. a <= b
  BY UnixMono
<1>4. b - a <= k
  BY <1>2, UnixApart
<1>5. FromTime(t) = [Seconds |-> x, Fraction |-> f] /\ FromTime(u) = [Seconds |-> y, Fraction |-> g]
  BY DEF FromTime
<1>6. DurationBetween(FromTime(t), FromTime(u)) = (SecondsBetween(x, y) - w) * NanosPerSec + FracToNano(h)
  BY <1>5 DEF DurationBetween
<1>7. /\ f \in 0 .. FracUnits - 1 /\ f * NanosPerSec <= m * FracUnits
      /\ m * FracUnits < f * NanosPerSec + NanosPerSec
  BY <1>1, FracOfNano
<1>8. /\ g \in 0 .. FracUnits - 1 /\ g * NanosPerSec <= n * FracUnits
      /\ n * FracUnits < g * NanosPerSec + NanosPerSec
  BY <1>1, FracOfNano
<1>9. SecondsBetween(x, y) = b - a
  <2> DEFINE p == a + NTPEpochOffset
             q == b + NTPEpochOffset
             d == b - a
  <2>1. p \in Nat /\ q \in Nat /\ p <= q /\ q - p = d /\ d < EraSecs /\ d \in 0 .. (EraSecs \div 2) - 1
    BY <1>1, <1>2, <1>3, <1>4
  <2>2. x = p % EraSecs /\ y = q % EraSecs
    OBVIOUS
  <2> HIDE DEF a, b, m, n, f, g, x, y, k, w, h, p, q, d
  <2>3. p % EraSecs \in 0 .. EraSecs - 1 /\ q % EraSecs \in 0 .. EraSecs - 1
    <3>1. p \in Int /\ q \in Int
      BY <2>1
    <3> QED  BY ONLY <1>0, <3>1, DivMod
  <2>4. (q % EraSecs) - (p % EraSecs) \in {q - p, q - p - EraSecs}
    <3>1. p \in Nat /\ q \in Nat /\ p <= q /\ q - p < EraSecs
      BY <2>1
    <3> QED  BY ONLY <1>0, <3>1, ModStep
  <2>5. x \in 0 .. EraSecs - 1 /\ y \in 0 .. EraSecs - 1 /\ y - x \in {d, d - EraSecs}
    BY <2>1, <2>2, <2>3, <2>4
  <2>6. SecondsBetween(x, y) = d
    BY <2>1, <2>5, SecondsApart
  <2> QED  BY <2>6 DEF d
<1> HIDE DEF a, b, m, n, f, g, x, y, k
<1>10. w \in {0, 1} /\ h \in Nat
  BY <1>7, <1>8
<1>11. h * NanosPerSec = g * NanosPerSec + (w * FracUnits) * NanosPerSec - f * NanosPerSec
  BY <1>7, <1>8, <1>10, SMT
<1> DEFINE j == n - m + w * NanosPerSec
<1>12. j \in Int
  BY <1>1, <1>10
<1>13. j * FracUnits = n * FracUnits - m * FracUnits + (w * FracUnits) * NanosPerSec
  BY <1>1, <1>10, SMT
<1>14. /\ f * NanosPerSec \in Int /\ g * NanosPerSec \in Int /\ m * FracUnits \in Int
       /\ n * FracUnits \in Int /\ (w * FracUnits) * NanosPerSec \in Int
  BY <1>1, <1>7, <1>8, <1>10, SMT
<1> HIDE DEF h, j
<1>15. /\ j * FracUnits - NanosPerSec < h * NanosPerSec
       /\ h * NanosPerSec < j * FracUnits + NanosPerSec
  BY <1>7, <1>8, <1>11, <1>13, <1>14
<1>16. FracToNano(h) \in {j - 1, j}
  BY <1>10, <1>12, <1>15, NanoOfFrac
<1>17. (b - a - w) * NanosPerSec = b * NanosPerSec - a * NanosPerSec - w * NanosPerSec
  BY <1>1, <1>10, SMT
<1>18. a * NanosPerSec \in Int /\ b * NanosPerSec \in Int /\ w * NanosPerSec \in Int
  BY <1>1, <1>10, SMT
<1>19. (b - a - w) * NanosPerSec + j = u - t
  BY <1>1, <1>17, <1>18 DEF j
<1> DEFINE z == (b - a - w) * NanosPerSec
<1>20. z \in Int
  BY <1>1, <1>10, SMT
<1>21. DurationBetween(FromTime(t), FromTime(u)) = z + FracToNano(h) /\ z + j = u - t
  BY <1>6, <1>9, <1>19
<1> HIDE DEF z, w
<1> QED  BY <1>12, <1>16, <1>20, <1>21 DEF Within

(* A timestamp read in the era of its time.                                *)
LEMMA ReadInEra ==
    ASSUME NEW t \in Nat, NEW ref \in Nat, Era(t) = Era(ref),
           Unix(t) < NTPEra1Unix + EraSecs
    PROVE  Within(ToTimeWithReference(FromTime(t), ref), t)
<1> USE TimestampAssumption
<1> DEFINE a == Unix(t)
           n == Nanosecond(t)
           s == a + NTPEpochOffset
           e == IF Unix(ref) < NTPEra1Unix THEN 0 ELSE EraSecs
<1>1. a \in Nat /\ n \in 0 .. NanosPerSec - 1 /\ t = a * NanosPerSec + n
  BY TimeParts
<1>2. e = IF Unix(t) < NTPEra1Unix THEN 0 ELSE EraSecs
  BY DEF Era
<1>3. s \in Int /\ s < 2 * EraSecs /\ s = (IF s < EraSecs THEN s ELSE s - EraSecs) + e /\ 0 <= s
  BY <1>1, <1>2 DEF NTPEra1Unix
<1>4. FromTime(t) = [Seconds |-> s % EraSecs, Fraction |-> NanoToFrac(n)]
  BY DEF FromTime
<1>5. e \in Int
  OBVIOUS
<1> HIDE DEF n, s
<1>6. s % EraSecs = IF s < 0 THEN s + EraSecs ELSE IF s < EraSecs THEN s ELSE s - EraSecs
  <2>1. EraSecs \in Nat \ {0} /\ s \in Int /\ -EraSecs <= s /\ s < 2 * EraSecs
    BY <1>3
  <2> QED  BY ONLY <2>1, ModNear
<1>7. s % EraSecs \in Int /\ e + (s % EraSecs) = s
  BY <1>3, <1>5, <1>6
<1>8. ToTimeWithReference(FromTime(t), ref) = (s - NTPEpochOffset) * NanosPerSec + FracToNano(NanoToFrac(n))
  BY <1>3, <1>4, <1>7 DEF ToTimeWithReference
<1>9. FracToNano(NanoToFrac(n)) \in {n - 1, n}
  BY <1>1, FracThereAndBack
<1>10. s - NTPEpochOffset = a
  BY <1>1 DEF s
<1>11. a * NanosPerSec \in Int
  BY <1>1, SMT
<1> QED  BY <1>1, <1>8, <1>9, <1>10, <1>11 DEF Within

(* Between two times of an era there is no other era.                      *)
LEMMA EraBetween ==
    ASSUME NEW t \in Nat, NEW u \in Nat, NEW v \in Nat, t <= u, u <= v, Era(t) = Era(v)
    PROVE  Era(u) = Era(v)
<1>1. Unix(t) <= Unix(u) /\ Unix(u) <= Unix(v)
  BY UnixMono
<1>2. Unix(t) \in Int /\ Unix(u) \in Int /\ Unix(v) \in Int /\ NTPEra1Unix \in Int
  BY TimeParts, TimestampAssumption DEF NTPEra1Unix
<1> QED  BY <1>1, <1>2 DEF Era

(* The largest interval that Add and DurationBetween handle.               *)
LEMMA HalfEra ==
    /\ EraSecs \in Nat \ {0} /\ (EraSecs \div 2) - 1 \in Nat
    /\ EraSecs = 2 * (EraSecs \div 2) /\ MaxInterval \in Nat
<1> DEFINE k == (EraSecs \div 2) - 1
<1>1. EraSecs \in Nat \ {0} /\ k \in Nat /\ EraSecs = 2 * (EraSecs \div 2)
  BY TimestampAssumption
<1>2. NanosPerSec \in Nat
  BY TimestampAssumption
<1> HIDE DEF k
<1>3. k * NanosPerSec \in Nat
  BY <1>1, <1>2, SMT
<1> QED  BY <1>1, <1>3 DEF k, MaxInterval

(* A fraction and the number of nanoseconds from the other side.           *)
LEMMA FracComplement ==
    ASSUME NEW r \in 0 .. NanosPerSec - 1
    PROVE  /\ NanoToFrac(r) = 0 => r = 0
           /\ r = 0 => NanoToFrac(r) = 0
           /\ FracToNano(FracUnits - NanoToFrac(r)) = NanosPerSec - r
<1> USE TimestampAssumption
<1> DEFINE g == NanoToFrac(r)
<1>1. /\ g \in 0 .. FracUnits - 1 /\ g * NanosPerSec <= r * FracUnits
      /\ r * FracUnits < g * NanosPerSec + NanosPerSec
  BY FracOfNano
<1> HIDE DEF g
<1>2. g * NanosPerSec \in Int /\ r * FracUnits \in Int /\ FracUnits * NanosPerSec \in Int
  BY <1>1, SMT
<1>3. g = 0 => r = 0
  <2>1. SUFFICES ASSUME g = 0, 1 <= r PROVE FALSE
    OBVIOUS
  <2>2. 1 * FracUnits <= r * FracUnits
    BY <2>1, MulMono
  <2> QED  BY <1>1, <1>2, <2>1, <2>2
<1>4. r = 0 => g = 0
  <2>1. SUFFICES ASSUME r = 0, 1 <= g PROVE FALSE
    BY <1>1
  <2>2. 1 * NanosPerSec <= g * NanosPerSec
    BY <1>1, <2>1, MulMono
  <2> QED  BY <1>1, <1>2, <2>1, <2>2
<1>5. FracToNano(FracUnits - g) = NanosPerSec - r
  <2> DEFINE a == (FracUnits - g) * NanosPerSec
             lo == NanosPerSec - r
             hi == NanosPerSec - r + 1
  <2>1. a = FracUnits * NanosPerSec - g * NanosPerSec
    BY <1>1, SMT
  <2>2. lo * FracUnits = FracUnits * NanosPerSec - r * FracUnits
    BY SMT
  <2>3. hi * FracUnits = FracUnits * NanosPerSec - r * FracUnits + FracUnits
    BY SMT
  <2>4. a \in Int /\ lo \in Int /\ hi \in Int
    BY <1>2, <2>1
  <2>5. lo * FracUnits <= a /\ a < hi * FracUnits
    BY <1>1, <1>2, <2>1, <2>2, <2>3
  <2> HIDE DEF a, lo, hi
  <2>6. a \div FracUnits \in lo .. hi - 1
    BY <2>4, <2>5, DivBounds
  <2>7. a \div FracUnits = NanosPerSec - r
    BY <2>6 DEF lo, hi
  <2> QED  BY <2>7 DEF a, FracToNano
<1> QED  BY <1>3, <1>4, <1>5 DEF g

(* What Add does, in whole seconds k, the nanoseconds r and a carry c that *)
(* never makes half an era of them.                                        *)
LEMMA AddParts ==
    ASSUME NEW ts \in TWAMPTimestamp, NEW d \in 0 .. MaxInterval
    PROVE  \E k \in Nat, r \in 0 .. NanosPerSec - 1, c \in {0, 1} :
               /\ k = d \div NanosPerSec /\ r = d % NanosPerSec
               /\ d = k * NanosPerSec + r
               /\ k + c <= (EraSecs \div 2) - 1
               /\ c = (IF ts.Fraction + NanoToFrac(r) >= FracUnits THEN 1 ELSE 0)
               /\ Add(ts, d) = [Seconds |-> (ts.Seconds + k + c) % EraSecs,
                                Fraction |-> ts.Fraction + NanoToFrac(r) - c * FracUnits]
<1> USE TimestampAssumption
<1> DEFINE k == Unix(d)
           r == Nanosecond(d)
           g == NanoToFrac(r)
           f == ts.Fraction
           c == IF f + g >= FracUnits THEN 1 ELSE 0
           top == (EraSecs \div 2) - 1
<1>1. d \in Nat /\ d <= top * NanosPerSec /\ top \in Nat
  BY HalfEra DEF MaxInterval
<1>2. k \in Nat /\ r \in 0 .. NanosPerSec - 1 /\ d = k * NanosPerSec + r
  BY <1>1, TimeParts
<1>3. f \in 0 .. FracUnits - 1 /\ ts.Seconds \in 0 .. EraSecs - 1
  BY DEF TWAMPTimestamp
<1>4. g \in 0 .. FracUnits - 1 /\ (r = 0 => g = 0)
  BY <1>2, FracOfNano, FracComplement
<1>5. Add(ts, d) = [Seconds |-> (ts.Seconds + k + c) % EraSecs, Fraction |-> f + g - c * FracUnits]
  BY <1>1, <1>2, <1>3, <1>4 DEF Add, Unix, Nanosecond
<1>6. k = d \div NanosPerSec /\ r = d % NanosPerSec
  BY DEF Unix, Nanosecond
<1> HIDE DEF k, r, g, f, top
<1>7. k <= top
  <2>1. SUFFICES ASSUME top + 1 <= k PROVE FALSE
    BY <1>1, <1>2
  <2>2. (top + 1) * NanosPerSec <= k * NanosPerSec
    BY <1>1, <1>2, <2>1, MulMono
  <2>3. (top + 1) * NanosPerSec = top * NanosPerSec + NanosPerSec
    BY <1>1, SMT
  <2>4. top * NanosPerSec \in Int /\ k * NanosPerSec \in Int
    BY <1>1, <1>2, SMT
  <2> QED  BY <1>1, <1>2, <2>2, <2>3, <2>4
<1>8. k = top => r = 0
  <2>1. k * NanosPerSec \in Int
    BY <1>2, SMT
  <2> QED  BY <1>1, <1>2, <2>1
<1>9. c \in {0, 1} /\ k + c <= top
  BY <1>1, <1>2, <1>3, <1>4, <1>7, <1>8
<1> HIDE DEF c
<1>10. c = IF ts.Fraction + NanoToFrac(r) >= FracUnits THEN 1 ELSE 0
  BY DEF c, f, g
<1> QED  BY <1>2, <1>5, <1>6, <1>9, <1>10 DEF f, g, top

(* Sub undoes Add, and DurationBetween recovers the interval both ways.    *)
LEMMA AddUndone ==
    ASSUME NEW ts \in TWAMPTimestamp, NEW d \in 0 .. MaxInterval
    PROVE  /\ Sub(Add(ts, d), d) = ts
           /\ Within(DurationBetween(ts, Add(ts, d)), d)
           /\ Within(DurationBetween(Add(ts, d), ts), -d)
<1> USE TimestampAssumption
<1> DEFINE s == ts.Seconds
           f == ts.Fraction
<1>1. PICK k \in Nat, r \in 0 .. NanosPerSec - 1, c \in {0, 1} :
          /\ k = d \div NanosPerSec /\ r = d % NanosPerSec
          /\ d = k * NanosPerSec + r
          /\ k + c <= (EraSecs \div 2) - 1
          /\ c = (IF f + NanoToFrac(r) >= FracUnits THEN 1 ELSE 0)
          /\ Add(ts, d) = [Seconds |-> (s + k + c) % EraSecs,
                           Fraction |-> f + NanoToFrac(r) - c * FracUnits]
  BY AddParts
<1> DEFINE g == NanoToFrac(r)
           b == s + k + c
           x == b % EraSecs
           e == f + g - c * FracUnits
<1>2. Add(ts, d) = [Seconds |-> x, Fraction |-> e]
  BY <1>1
<1>3. s \in 0 .. EraSecs - 1 /\ f \in 0 .. FracUnits - 1 /\ ts = [Seconds |-> s, Fraction |-> f]
  BY DEF TWAMPTimestamp
<1>4. g \in 0 .. FracUnits - 1 /\ (g = 0 => r = 0) /\ FracToNano(FracUnits - g) = NanosPerSec - r
  BY FracOfNano, FracComplement
<1>5. FracToNano(g) \in {r - 1, r}
  BY FracThereAndBack
<1>6. d \in Nat /\ k + c \in 0 .. (EraSecs \div 2) - 1 /\ k + c <= EraSecs
  BY <1>1, HalfEra
<1>7. c = IF f + g >= FracUnits THEN 1 ELSE 0
  BY <1>1
<1> HIDE DEF s, f, g, x, b
<1>8. x = IF b < EraSecs THEN b ELSE b - EraSecs
  <2>1. EraSecs \in Nat \ {0} /\ b \in Int /\ -EraSecs <= b /\ b < 2 * EraSecs /\ ~(b < 0)
    BY <1>3, <1>6 DEF b
  <2>2. b % EraSecs = IF b < 0 THEN b + EraSecs ELSE IF b < EraSecs THEN b ELSE b - EraSecs
    BY ONLY <2>1, ModNear
  <2> QED  BY <2>1, <2>2 DEF x
<1>9. x \in 0 .. EraSecs - 1 /\ x - s \in {k + c, k + c - EraSecs}
  BY <1>3, <1>6, <1>8 DEF b
<1>10. e \in 0 .. FracUnits - 1 /\ e = (IF c = 1 THEN f + g - FracUnits ELSE f + g)
  BY <1>3, <1>4, <1>7
<1>11. SecondsBetween(s, x) = k + c /\ SecondsBetween(x, s) = -(k + c)
  <2> DEFINE h == k + c
  <2>1. h \in 0 .. (EraSecs \div 2) - 1 /\ x - s \in {h, h - EraSecs}
    BY <1>6, <1>9
  <2> HIDE DEF h
  <2>2. SecondsBetween(s, x) = h /\ SecondsBetween(x, s) = -h
    BY <1>3, <1>9, <2>1, SecondsApart
  <2> QED  BY <2>2 DEF h
<1> HIDE DEF e
<1>12. Sub(Add(ts, d), d) = ts
  <2> DEFINE w == IF g > e THEN 1 ELSE 0
             y == x - k - w
  <2>1. w = c /\ e + w * FracUnits - g = f
    BY <1>3, <1>4, <1>7, <1>10
  <2>2. y % EraSecs = s
    <3>1. EraSecs \in Nat \ {0} /\ y \in Int /\ -EraSecs <= y /\ y < EraSecs /\ y < 2 * EraSecs
      BY <1>6, <1>9, <2>1
    <3>2. y = s \/ y = s - EraSecs
      BY <1>3, <1>6, <1>9, <2>1
    <3> HIDE DEF y
    <3>3. y % EraSecs = IF y < 0 THEN y + EraSecs ELSE IF y < EraSecs THEN y ELSE y - EraSecs
      BY ONLY <3>1, ModNear
    <3> QED  BY <1>3, <3>1, <3>2, <3>3
  <2>3. Sub([Seconds |-> x, Fraction |-> e], d)
            = [Seconds |-> y % EraSecs, Fraction |-> e + w * FracUnits - g]
    BY <1>1, <1>3, <1>4, <1>6, <1>9, <1>10 DEF Sub, g
  <2> QED  BY <1>2, <1>3, <2>1, <2>2, <2>3
<1>13. Within(DurationBetween(ts, Add(ts, d)), d)
  <2> DEFINE w == IF e < f THEN 1 ELSE 0
             h == e + w * FracUnits - f
  <2>1. DurationBetween(ts, Add(ts, d)) = (SecondsBetween(s, x) - w) * NanosPerSec + FracToNano(h)
    BY <1>2, <1>3 DEF DurationBetween
  <2>2. w = c /\ h = g
    BY <1>3, <1>4, <1>7, <1>10
  <2>3. SecondsBetween(s, x) - w = k
    BY <1>11, <2>2
  <2>4. k * NanosPerSec \in Int
    BY SMT
  <2> HIDE DEF w, h
  <2> QED  BY <1>1, <1>5, <2>1, <2>2, <2>3, <2>4 DEF Within
<1>14. Within(DurationBetween(Add(ts, d), ts), -d)
  <2> DEFINE w == IF f < e THEN 1 ELSE 0
             h == f + w * FracUnits - e
  <2>1. DurationBetween(Add(ts, d), ts) = (SecondsBetween(x, s) - w) * NanosPerSec + FracToNano(h)
    BY <1>2, <1>3 DEF DurationBetween
  <2>2. k * NanosPerSec \in Int
    BY SMT
  <2>3. CASE c = 0 /\ g = 0
    <3>1. w = 0 /\ h = g /\ SecondsBetween(x, s) - w = -k
      BY <1>3, <1>10, <1>11, <2>3
    <3>2. (-k) * NanosPerSec = -(k * NanosPerSec)
      BY SMT
    <3>3. r = 0
      BY <1>4, <2>3
    <3> HIDE DEF w, h
    <3>4. DurationBetween(Add(ts, d), ts) = -(k * NanosPerSec) + FracToNano(g)
      BY <2>1, <3>1, <3>2
    <3> QED  BY <1>1, <1>5, <2>2, <3>3, <3>4 DEF Within
  <2>4. CASE ~(c = 0 /\ g = 0)
    <3>1. h = FracUnits - g /\ SecondsBetween(x, s) - w = -k - 1
      BY <1>3, <1>4, <1>7, <1>10, <1>11, <2>4
    <3>2. (-k - 1) * NanosPerSec = -(k * NanosPerSec) - NanosPerSec
      BY SMT
    <3> HIDE DEF w, h
    <3>3. DurationBetween(Add(ts, d), ts) = -(k * NanosPerSec) - NanosPerSec + (NanosPerSec - r)
      BY <1>4, <2>1, <3>1, <3>2
    <3> QED  BY <1>1, <2>2, <3>3 DEF Within
  <2> QED  BY <2>3, <2>4
<1> QED  BY <1>12, <1>13, <1>14

(* Of two times in one era the later one has the later timestamp.          *)
LEMMA StampsOrdered ==
    ASSUME NEW t \in Nat, NEW u \in Nat, t < u, Era(t) = Era(u),
           Unix(u) < NTPEra1Unix + EraSecs
    PROVE  Before(FromTime(t), FromTime(u)) /\ After(FromTime(u), FromTime(t))
<1> USE TimestampAssumption
<1> DEFINE a == Unix(t)
           b == Unix(u)
           m == Nanosecond(t)
           n == Nanosecond(u)
           p == a + NTPEpochOffset
           q == b + NTPEpochOffset
<1>1. /\ a \in Nat /\ b \in Nat /\ m \in 0 .. NanosPerSec - 1 /\ n \in 0 .. NanosPerSec - 1
      /\ t = a * NanosPerSec + m /\ u = b * NanosPerSec + n
  BY TimeParts
<1>2. a <= b
  BY UnixMono
<1>3. /\ FromTime(t) = [Seconds |-> p % EraSecs, Fraction |-> NanoToFrac(m)]
      /\ FromTime(u) = [Seconds |-> q % EraSecs, Fraction |-> NanoToFrac(n)]
  BY DEF FromTime
<1>4. /\ p \in Nat /\ q \in Nat /\ p <= q /\ q < 2 * EraSecs
      /\ p < EraSecs <=> q < EraSecs
  BY <1>1, <1>2 DEF Era, NTPEra1Unix
<1>5. a = b => m < n
  BY <1>1
<1>6. p = q => m < n
  BY <1>1, <1>5
<1> HIDE DEF m, n, p, q
<1>7. EraSecs \in Nat \ {0} /\ p \in Int /\ -EraSecs <= p /\ p < 2 * EraSecs
  BY <1>4
<1>8. EraSecs \in Nat \ {0} /\ q \in Int /\ -EraSecs <= q /\ q < 2 * EraSecs
  BY <1>4
<1>9. p % EraSecs = IF p < 0 THEN p + EraSecs ELSE IF p < EraSecs THEN p ELSE p - EraSecs
  BY ONLY <1>7, ModNear
<1>10. q % EraSecs = IF q < 0 THEN q + EraSecs ELSE IF q < EraSecs THEN q ELSE q - EraSecs
  BY ONLY <1>8, ModNear
<1>11. (q % EraSecs) - (p % EraSecs) = q - p /\ p % EraSecs \in Nat /\ q % EraSecs \in Nat
  BY <1>4, <1>9, <1>10
<1>12. m < n => NanoToFrac(m) < NanoToFrac(n)
  BY <1>1, FracMono
<1>13. NanoToFrac(m) \in Nat /\ NanoToFrac(n) \in Nat
  BY <1>1, FracOfNano
<1> QED  BY <1>3, <1>4, <1>6, <1>11, <1>12, <1>13 DEF Before, After

-----------------------------------------------------------------------------
(* Layouts and packets.                                                    *)

(* The client's layout is the one the reflector parses.                    *)
LEMMA SenderLayouts ==
    ASSUME mode \in Modes
    PROVE  /\ SenderLayout.min = (IF Secure THEN 48 ELSE 14)
           /\ SenderLayout.at = (IF Secure THEN SenderAt(0, 16, 24) ELSE SenderAt(0, 4, 12))
           /\ SenderLayout.fill \in {"zeros", "client"}
           /\ ParseLayout.min = SenderLayout.min /\ ParseLayout.at = SenderLayout.at
           /\ ParseLayout.mbz = (IF Secure THEN {<<4, 16>>, <<26, 32>>} ELSE {})
<1>1. mode.reflectOctets \in BOOLEAN /\ Secure \in BOOLEAN
  BY DEF Modes, Secure
<1>2. CASE Secure /\ mode.reflectOctets
  BY <1>2 DEF SenderLayout, ParseLayout, SenderTestPacketAuthReflectOctets_Marshal,
              SenderTestPacketAuthReflectOctets_Unmarshal
<1>3. CASE Secure /\ ~mode.reflectOctets
  BY <1>3 DEF SenderLayout, ParseLayout, SenderTestPacketAuth_Marshal, SenderTestPacketAuth_Unmarshal
<1>4. CASE ~Secure /\ mode.reflectOctets
  BY <1>4 DEF SenderLayout, ParseLayout, SenderTestPacketReflectOctets_Marshal,
              SenderTestPacketReflectOctets_Unmarshal
<1>5. CASE ~Secure /\ ~mode.reflectOctets
  BY <1>5 DEF SenderLayout, ParseLayout, SenderTestPacket_Marshal, SenderTestPacket_Unmarshal
<1> QED  BY <1>1, <1>2, <1>3, <1>4, <1>5

(* Unmarshal finds a field where Marshal put it, if nothing else is there. *)
LEMMA FieldFound ==
    ASSUME NEW p, NEW layout, layout.at = p.at, NEW f \in DOMAIN p.at,
           \A g \in DOMAIN p.at : p.at[g] = p.at[f] => g = f
    PROVE  Field(p, layout, f) = p.fields[f]
<1>1. (CHOOSE g \in DOMAIN p.at : p.at[g] = p.at[f]) = f
  OBVIOUS
<1> QED  BY <1>1 DEF Field

(* So the reflector reads the sender's fields ...                          *)
LEMMA SenderFieldsFound ==
    ASSUME mode \in Modes, NEW p, p.at = SenderLayout.at
    PROVE  /\ Field(p, ParseLayout, "SeqNumber") = p.fields["SeqNumber"]
           /\ Field(p, ParseLayout, "Timestamp") = p.fields["Timestamp"]
           /\ Field(p, ParseLayout, "ErrorEstimate") = p.fields["ErrorEstimate"]
<1>1. PICK a \in {4, 16}, b \in {12, 24} : p.at = SenderAt(0, a, b) /\ a < b
  BY SenderLayouts
<1>2. ParseLayout.at = p.at
  BY SenderLayouts
<1>3. DOMAIN p.at = {"SeqNumber", "Timestamp", "ErrorEstimate"}
  BY <1>1 DEF SenderAt
<1>4. p.at["SeqNumber"] = 0 /\ p.at["Timestamp"] = a /\ p.at["ErrorEstimate"] = b
  BY <1>1 DEF SenderAt
<1>5. \A f, g \in DOMAIN p.at : p.at[g] = p.at[f] => g = f
  BY <1>1, <1>3, <1>4
<1>6. \A f \in DOMAIN p.at : Field(p, ParseLayout, f) = p.fields[f]
  BY <1>2, <1>5, FieldFound
<1> QED  BY <1>3, <1>6

(* ... and the client the reflector's.                                     *)
LEMMA ReplyFieldsFound ==
    ASSUME NEW p, p.at = ReplyLayout.at
    PROVE  \A f \in {"SeqNumber", "Timestamp", "ErrorEstimate", "ReceiveTimestamp",
                     "SenderSeqNumber", "SenderTimestamp", "SenderErrorEstimate", "SenderTTL"} :
               Field(p, ReplyLayout, f) = p.fields[f]
<1>1. \/ p.at = ReflectorAt(0, 4, 12, 16, 24, 28, 36, 40)
      \/ p.at = ReflectorAt(0, 16, 24, 32, 48, 64, 72, 80)
  BY DEF ReplyLayout, ReflectorTestPacketAuth_Unmarshal, ReflectorTestPacket_Unmarshal
<1>2. DOMAIN p.at = {"SeqNumber", "Timestamp", "ErrorEstimate", "ReceiveTimestamp",
                     "SenderSeqNumber", "SenderTimestamp", "SenderErrorEstimate", "SenderTTL"}
  BY <1>1 DEF ReflectorAt
<1>3. \A f, g \in DOMAIN p.at : p.at[g] = p.at[f] => g = f
  <2>1. CASE p.at = ReflectorAt(0, 4, 12, 16, 24, 28, 36, 40)
    BY <1>2, <2>1 DEF ReflectorAt
  <2>2. CASE p.at = ReflectorAt(0, 16, 24, 32, 48, 64, 72, 80)
    BY <1>2, <2>2 DEF ReflectorAt
  <2> QED  BY <1>1, <2>1, <2>2
<1> QED  BY <1>2, <1>3, FieldFound

(* Protect adds the HMAC and the encryption of the mode and keeps the rest. *)
LEMMA Protected ==
    ASSUME mode \in Modes, NEW p, NEW q, NEW isReflector \in BOOLEAN,
           NEW names, NEW fields, p \in Packet(names, fields), p.hmac = 0, p.cipher = 0,
           q = Protect(p, isReflector)
    PROVE  /\ q \in Packet(names, fields)
           /\ q.size = p.size /\ q.at = p.at /\ q.fill = p.fill /\ q.fields = p.fields
           /\ q.hmac = HmacOf(isReflector) /\ q.cipher = CipherOf(isReflector)
<1>1. HMACCoverage(Encrypted, isReflector) \in {0, 16, 32, 96}
  BY DEF HMACCoverage
<1>2. CipherLength(~Encrypted, isReflector) \in {0, 16, 32, 96}
  BY DEF CipherLength
<1>3. CASE Secure
  <2> DEFINE h == HMACCoverage(Encrypted, isReflector)
             c == CipherLength(~Encrypted, isReflector)
  <2>1. q = [[p EXCEPT !.hmac = h] EXCEPT !.cipher = c]
    BY <1>3 DEF Protect, encryptTestPacket
  <2>2. HmacOf(isReflector) = h /\ CipherOf(isReflector) = c
    BY <1>3 DEF HmacOf, CipherOf
  <2> HIDE DEF h, c
  <2>3. h \in {0, 16, 32, 96} /\ c \in {0, 16, 32, 96}
    BY <1>1, <1>2 DEF h, c
  <2>4. /\ q \in Packet(names, fields) /\ q.size = p.size /\ q.at = p.at /\ q.fill = p.fill
        /\ q.fields = p.fields /\ q.hmac = h /\ q.cipher = c
    <3> DEFINE m == [p EXCEPT !.hmac = h]
    <3>1. /\ m \in Packet(names, fields) /\ m.size = p.size /\ m.at = p.at /\ m.fill = p.fill
          /\ m.fields = p.fields /\ m.hmac = h
      BY <2>3 DEF Packet
    <3>2. q = [m EXCEPT !.cipher = c]
      BY <2>1
    <3> HIDE DEF m
    <3> QED  BY <2>3, <3>1, <3>2 DEF Packet
  <2> QED  BY <2>2, <2>4
<1>4. CASE ~Secure
  BY <1>4 DEF Protect, HmacOf, CipherOf
<1> QED  BY <1>3, <1>4

(* A read truncates and leaves the rest.                                   *)
LEMMA ReadKeeps ==
    ASSUME NEW names, NEW fields, NEW p \in Packet(names, fields), NEW q, q = Read(p)
    PROVE  /\ q \in Packet(names, fields)
           /\ q.size = (IF p.size > MaxTWAMPPacketSize THEN MaxTWAMPPacketSize ELSE p.size)
           /\ q.at = p.at /\ q.fill = p.fill /\ q.fields = p.fields
           /\ q.hmac = p.hmac /\ q.cipher = p.cipher
BY DEF Read, Packet, MaxTWAMPPacketSize

-----------------------------------------------------------------------------
(* The invariant.                                                          *)

(* What depends on the mode alone does not change.                         *)
LEMMA ModeFixed ==
    ASSUME mode' = mode
    PROVE  /\ Secure' <=> Secure
           /\ SenderLayout' = SenderLayout /\ ReplyLayout' = ReplyLayout
           /\ maxSenderPadding' = maxSenderPadding
           /\ HmacOf(FALSE)' = HmacOf(FALSE) /\ HmacOf(TRUE)' = HmacOf(TRUE)
           /\ CipherOf(FALSE)' = CipherOf(FALSE) /\ CipherOf(TRUE)' = CipherOf(TRUE)
<1>1. (Secure' <=> Secure) /\ (Encrypted' <=> Encrypted)
  BY DEF Secure, Encrypted
<1>2. SenderLayout' = SenderLayout
  BY <1>1 DEF SenderLayout
<1>3. ReplyLayout' = ReplyLayout /\ maxSenderPadding' = maxSenderPadding
  BY <1>1 DEF ReplyLayout, maxSenderPadding
<1>4. /\ HmacOf(FALSE)' = HmacOf(FALSE) /\ HmacOf(TRUE)' = HmacOf(TRUE)
      /\ CipherOf(FALSE)' = CipherOf(FALSE) /\ CipherOf(TRUE)' = CipherOf(TRUE)
  BY <1>1 DEF HmacOf, CipherOf, HMACCoverage, CipherLength
<1> QED  BY <1>1, <1>2, <1>3, <1>4

(* Nothing has been requested yet.                                         *)
LEMMA PInvInit == Init => PInv
<1> SUFFICES ASSUME Init PROVE PInv
  OBVIOUS
<1>1. TypeOK
  <2>1. now \in StartTime .. MaxTime
    BY PacketsAssumption DEF Init
  <2>2. phase \in Phases /\ own \in BOOLEAN
    BY DEF Init, Phases
  <2>3. {sentAt, rxAt, txAt} \subseteq Nat \cup {None}
    BY DEF Init
  <2> QED  BY <2>1, <2>2, <2>3 DEF Init, TypeOK
<1>2. SessionOK /\ PacketOK /\ ReceivedOK /\ ReplyOK
  BY DEF Init, SessionOK, PacketOK, ReceivedOK, ReplyOK
<1>3. PacketsServed /\ ReplyShape /\ MeasuredTimes /\ ResultOK
  BY DEF Init, PacketsServed, ReplyShape, MeasuredTimes, ResultOK
<1> QED  BY <1>1, <1>2, <1>3 DEF PInv

(* A request: the timeout fits its field, the padding is enough.           *)
LEMMA RequestKeeps ==
    ASSUME PInv, NEW padding \in Paddings, NEW timeout \in Timeouts,
           RequestSession(padding, timeout)
    PROVE  PInv'
<1> DEFINE d == IF timeout = 0 THEN DefaultTimeout ELSE timeout
           l == Larger(padding, calculateMinPadding(mode.security))
<1>1. d \in Nat /\ Unix(d) < EraSecs
  <2>1. NanosPerSec \in Nat \ {0} /\ EraSecs \in Nat /\ EraSecs > 3
    BY TimestampAssumption
  <2>2. timeout \in Nat /\ Unix(timeout) < EraSecs
    BY PacketsAssumption, ClockAssumption
  <2>3. DefaultTimeout = 3 * NanosPerSec + 0 /\ DefaultTimeout \in Nat
    BY <2>1 DEF DefaultTimeout
  <2>4. DefaultTimeout \div NanosPerSec = 3
    BY <2>1, <2>3, DivUnique
  <2> QED  BY <2>1, <2>2, <2>3, <2>4 DEF Unix
<1>2. l \in Nat /\ l >= calculateMinPadding(mode.security)
  BY PacketsAssumption DEF Larger, calculateMinPadding
<1>3. TimeoutField(d) \in TWAMPTimestamp
  BY <1>1, TimeoutFieldType
<1>4. session' = [PaddingLength |-> l, Timeout |-> d, sent |-> TimeoutField(d), timeout |-> None]
  BY DEF RequestSession
<1> HIDE DEF d, l
<1>5. /\ phase' = "requested" /\ own' = own /\ mode' = mode /\ skew' = skew /\ now' = now
      /\ packet' = packet /\ reply' = reply
      /\ sentAt' = sentAt /\ rxAt' = rxAt /\ txAt' = txAt /\ result' = result
  BY DEF RequestSession
<1>6. session' \in [PaddingLength : Nat, Timeout : Nat, sent : TWAMPTimestamp,
                    timeout : Nat \cup {None}]
  BY <1>1, <1>2, <1>3, <1>4
<1>7. TypeOK'
  BY <1>5, <1>6 DEF PInv, TypeOK, Phases
<1>8. SessionOK'
  BY <1>1, <1>2, <1>4, <1>5, <1>6 DEF SessionOK
<1>9. PacketOK' /\ ReceivedOK' /\ ReplyOK'
  BY <1>5 DEF PacketOK, ReceivedOK, ReplyOK
<1>10. PacketsServed' /\ ReplyShape' /\ MeasuredTimes' /\ ResultOK'
  BY <1>5 DEF PacketsServed, ReplyShape, MeasuredTimes, ResultOK
<1> QED  BY <1>7, <1>8, <1>9, <1>10 DEF PInv

(* The server's answer.                                                    *)
LEMMA AnswerKeeps ==
    ASSUME PInv, handleRequestTWSession
    PROVE  PInv'
<1>1. /\ phase = "requested" /\ phase' \in {"hungup", "refused", "ready"}
      /\ own' = own /\ mode' = mode /\ skew' = skew /\ now' = now
      /\ packet' = packet /\ reply' = reply
      /\ sentAt' = sentAt /\ rxAt' = rxAt /\ txAt' = txAt /\ result' = result
  BY DEF handleRequestTWSession
<1>2. /\ session \in [PaddingLength : Nat, Timeout : Nat, sent : TWAMPTimestamp,
                      timeout : Nat \cup {None}]
      /\ session.PaddingLength >= calculateMinPadding(mode.security)
      /\ session.sent = TimeoutField(session.Timeout)
      /\ Unix(session.Timeout) < EraSecs
  BY <1>1 DEF PInv, SessionOK
<1>3. Duration(session.sent) \in Nat
  BY <1>2, TimeoutFieldType
<1>4. CASE session' = session /\ phase' # "ready"
  <2>1. TypeOK' /\ SessionOK'
    BY <1>1, <1>2, <1>4 DEF PInv, TypeOK, Phases, SessionOK
  <2> QED  BY <1>1, <2>1 DEF PInv, PacketOK, ReceivedOK, ReplyOK, ResultOK, PacketsServed, ReplyShape, MeasuredTimes
<1>5. CASE /\ session.PaddingLength <= maxSenderPadding /\ phase' = "ready"
           /\ session' = [session EXCEPT !.timeout = Duration(session.sent)]
  <2>1. /\ session' \in [PaddingLength : Nat, Timeout : Nat, sent : TWAMPTimestamp,
                         timeout : Nat \cup {None}]
        /\ session'.PaddingLength = session.PaddingLength /\ session'.Timeout = session.Timeout
        /\ session'.sent = session.sent /\ session'.timeout = Duration(session.sent)
    BY <1>2, <1>3, <1>5
  <2>2. TypeOK'
    BY <1>1, <2>1, <1>5 DEF PInv, TypeOK, Phases
  <2>3. SessionOK'
    BY <1>1, <1>2, <1>5, <2>1, ModeFixed DEF SessionOK
  <2> QED  BY <1>1, <1>5, <2>2, <2>3 DEF PInv, PacketOK, ReceivedOK, ReplyOK, ResultOK, PacketsServed, ReplyShape, MeasuredTimes
<1> QED  BY <1>4, <1>5 DEF handleRequestTWSession

(* The limits: an accepted padding leaves room for the header.             *)
LEMMA PaddingFits ==
    ASSUME PInv, phase \notin {"new", "requested", "refused", "hungup"}
    PROVE  /\ mode \in Modes /\ session.PaddingLength \in Nat
           /\ SenderLayout.min + session.PaddingLength \in
                (IF Secure THEN 104 ELSE 41) .. MaxTWAMPPacketSize
<1>1. mode \in Modes /\ session.PaddingLength \in Nat
  BY DEF PInv, TypeOK, SessionOK
<1>2. session.PaddingLength >= calculateMinPadding(mode.security) /\ session.PaddingLength <= maxSenderPadding
  BY DEF PInv, SessionOK
<1>3. SenderLayout.min = IF Secure THEN 48 ELSE 14
  BY <1>1, SenderLayouts
<1> QED  BY <1>1, <1>2, <1>3 DEF calculateMinPadding, maxSenderPadding, MaxTWAMPPacketSize, Secure,
             SenderTestPacketAuth_Marshal, SenderTestPacket_Marshal

(* The client's packet has the layout of the mode and fits its buffer.     *)
LEMMA SendKeeps ==
    ASSUME PInv, SendTestPacket
    PROVE  PInv'
<1> DEFINE f == [SeqNumber |-> "client", Timestamp |-> FromTime(now), ErrorEstimate |-> "client"]
           p == Marshal(SenderLayout, session.PaddingLength, SenderLayout.fill, f)
<1>1. /\ phase \in {"ready", "dropped", "measured", "ignored"}
      /\ own' = TRUE /\ sentAt' = now /\ packet' = Protect(p, FALSE)
      /\ phase' = (IF Get(p.size) THEN "sent" ELSE "crashed")
      /\ reply' = None /\ rxAt' = None /\ txAt' = None /\ result' = None
      /\ mode' = mode /\ skew' = skew /\ now' = now /\ session' = session
  BY DEF SendTestPacket, Idle, Forget
<1>2. /\ mode \in Modes /\ session.PaddingLength \in Nat
      /\ SenderLayout.min + session.PaddingLength \in (IF Secure THEN 104 ELSE 41) .. MaxTWAMPPacketSize
  BY <1>1, PaddingFits
<1>3. now \in Nat
  BY PacketsAssumption DEF PInv, TypeOK
<1>4. f \in SenderFields
  BY <1>3, StampType DEF SenderFields, Origins
<1>5. /\ p.size = SenderLayout.min + session.PaddingLength /\ p.at = SenderLayout.at
      /\ p.fill = SenderLayout.fill /\ p.fields = f /\ p.hmac = 0 /\ p.cipher = 0
      /\ p = [size |-> p.size, at |-> p.at, fill |-> p.fill, fields |-> f, hmac |-> 0, cipher |-> 0]
  BY DEF Marshal
<1> HIDE DEF f, p
<1>6. SenderLayout.at \in [DOMAIN SenderAt(0, 0, 0) -> Nat]
  BY <1>2, SenderLayouts DEF SenderAt
<1>7. SenderLayout.fill \in Origins \cup {"zeros"}
  BY <1>2, SenderLayouts DEF Origins
<1>8. p \in SenderPackets
  <2>1. p.size \in Nat
    BY <1>2, <1>5 DEF MaxTWAMPPacketSize
  <2> QED  BY <1>4, <1>5, <1>6, <1>7, <2>1 DEF SenderPackets, Packet
<1>9. /\ packet' \in SenderPackets
      /\ packet'.size = p.size /\ packet'.at = p.at /\ packet'.fields = p.fields
      /\ packet'.hmac = HmacOf(FALSE) /\ packet'.cipher = CipherOf(FALSE)
  BY <1>1, <1>2, <1>5, <1>8, Protected DEF SenderPackets
<1>10. phase' = "sent"
  BY <1>1, <1>2, <1>5 DEF Get
<1>11. TypeOK'
  <2>1. {sentAt', rxAt', txAt'} \subseteq Nat \cup {None}
    BY <1>1, <1>3
  <2>2. mode' \in Modes /\ skew' \in Skews /\ now' \in StartTime .. MaxTime
    BY <1>1 DEF PInv, TypeOK
  <2>3. session' \in {None} \cup [PaddingLength : Nat, Timeout : Nat, sent : TWAMPTimestamp,
                                  timeout : Nat \cup {None}]
    BY <1>1 DEF PInv, TypeOK
  <2> QED  BY <1>1, <1>9, <1>10, <2>1, <2>2, <2>3 DEF TypeOK, Phases
<1>12. SessionOK'
  BY <1>1, <1>10, ModeFixed DEF PInv, SessionOK
<1>13. PacketOK'
  <2>1. packet'.fields = [SeqNumber |-> "client", Timestamp |-> FromTime(sentAt'), ErrorEstimate |-> "client"]
    BY <1>1, <1>5, <1>9 DEF f
  <2> QED  BY <1>1, <1>3, <1>5, <1>9, <2>1, ModeFixed DEF PacketOK, Sender
<1>14. ReceivedOK' /\ ReplyOK' /\ ResultOK' /\ PacketsServed' /\ ReplyShape' /\ MeasuredTimes'
  BY <1>10 DEF ReceivedOK, ReplyOK, ResultOK, PacketsServed, ReplyShape, MeasuredTimes
<1> QED  BY <1>11, <1>12, <1>13, <1>14 DEF PInv

(* Anyone else's packet has a plain layout, whatever its size.             *)
LEMMA OtherKeeps ==
    ASSUME PInv, NEW size \in OtherSizes, SendOther(size)
    PROVE  PInv'
<1> DEFINE f == [SeqNumber |-> "other", Timestamp |-> FromTime(now), ErrorEstimate |-> "other"]
           m == Marshal(SenderTestPacket_Marshal, 0, "other", f)
<1>1. /\ phase \in {"ready", "dropped", "measured", "ignored"} /\ phase' = "sent"
      /\ own' = FALSE /\ sentAt' = now /\ packet' = [m EXCEPT !.size = size]
      /\ reply' = None /\ rxAt' = None /\ txAt' = None /\ result' = None
      /\ mode' = mode /\ skew' = skew /\ now' = now /\ session' = session
  BY DEF SendOther, Idle, Forget
<1>2. now \in Nat /\ size \in Nat
  BY PacketsAssumption DEF PInv, TypeOK
<1>3. f \in SenderFields
  BY <1>2, StampType DEF SenderFields, Origins
<1> HIDE DEF f
<1>4. packet' = [size |-> size, at |-> SenderAt(0, 4, 12), fill |-> "other", fields |-> f,
                 hmac |-> 0, cipher |-> 0]
  BY <1>1 DEF Marshal, SenderTestPacket_Marshal
<1>5. SenderAt(0, 4, 12) \in [DOMAIN SenderAt(0, 0, 0) -> Nat]
  BY DEF SenderAt
<1>6. packet' \in SenderPackets
  BY <1>2, <1>3, <1>4, <1>5 DEF SenderPackets, Packet, Origins
<1>7. TypeOK'
  <2>1. {sentAt', rxAt', txAt'} \subseteq Nat \cup {None}
    BY <1>1, <1>2
  <2>2. mode' \in Modes /\ skew' \in Skews /\ now' \in StartTime .. MaxTime
    BY <1>1 DEF PInv, TypeOK
  <2>3. session' \in {None} \cup [PaddingLength : Nat, Timeout : Nat, sent : TWAMPTimestamp,
                                  timeout : Nat \cup {None}]
    BY <1>1 DEF PInv, TypeOK
  <2> QED  BY <1>1, <1>6, <2>1, <2>2, <2>3 DEF TypeOK, Phases
<1>8. SessionOK'
  BY <1>1, ModeFixed DEF PInv, SessionOK
<1>9. PacketOK'
  <2>1. packet'.fields = [SeqNumber |-> "other", Timestamp |-> FromTime(sentAt'), ErrorEstimate |-> "other"]
    BY <1>1, <1>4 DEF f
  <2>2. packet'.at = SenderTestPacket_Marshal.at /\ packet'.hmac = 0 /\ packet'.cipher = 0
    BY <1>4 DEF SenderTestPacket_Marshal
  <2> QED  BY <1>1, <1>2, <1>6, <2>1, <2>2 DEF PacketOK, Sender
<1>10. ReceivedOK' /\ ReplyOK' /\ ResultOK' /\ PacketsServed' /\ ReplyShape' /\ MeasuredTimes'
  BY <1>1 DEF ReceivedOK, ReplyOK, ResultOK, PacketsServed, ReplyShape, MeasuredTimes
<1> QED  BY <1>7, <1>8, <1>9, <1>10 DEF PInv

(* The reflector accepts every packet of the client, and others only where *)
(* there is nothing to verify.                                             *)
LEMMA ReceiveKeeps ==
    ASSUME PInv, Receive
    PROVE  PInv'
<1>1. /\ phase = "sent" /\ rxAt' = now + skew /\ packet' = Read(packet)
      /\ phase' = (IF Accepts(packet', ParseLayout, FALSE) THEN "received" ELSE "dropped")
      /\ mode' = mode /\ skew' = skew /\ now' = now /\ session' = session /\ own' = own
      /\ reply' = reply /\ sentAt' = sentAt /\ txAt' = txAt /\ result' = result
  BY DEF Receive
<1>2. /\ mode \in Modes /\ session.PaddingLength \in Nat
      /\ SenderLayout.min + session.PaddingLength \in (IF Secure THEN 104 ELSE 41) .. MaxTWAMPPacketSize
  BY <1>1, PaddingFits
<1>3. now \in Nat /\ skew \in Nat /\ StartTime \in Nat /\ StartTime <= now
  BY PacketsAssumption DEF PInv, TypeOK
<1>4. /\ packet \in SenderPackets /\ sentAt \in Nat
      /\ packet.fields = [SeqNumber |-> Sender, Timestamp |-> FromTime(sentAt),
                          ErrorEstimate |-> Sender]
      /\ own => /\ packet.size = SenderLayout.min + session.PaddingLength
                /\ packet.at = SenderLayout.at
                /\ packet.hmac = HmacOf(FALSE) /\ packet.cipher = CipherOf(FALSE)
      /\ ~own => /\ packet.at = SenderTestPacket_Marshal.at
                 /\ packet.hmac = 0 /\ packet.cipher = 0
  BY <1>1 DEF PInv, PacketOK
<1>5. /\ packet' \in SenderPackets
      /\ packet'.size = (IF packet.size > MaxTWAMPPacketSize THEN MaxTWAMPPacketSize ELSE packet.size)
      /\ packet'.at = packet.at /\ packet'.fields = packet.fields
      /\ packet'.hmac = packet.hmac /\ packet'.cipher = packet.cipher
  BY <1>1, <1>4, ReadKeeps DEF SenderPackets
<1>6. /\ SenderLayout.min = (IF Secure THEN 48 ELSE 14)
      /\ SenderLayout.at = (IF Secure THEN SenderAt(0, 16, 24) ELSE SenderAt(0, 4, 12))
      /\ ParseLayout.min = SenderLayout.min /\ ParseLayout.at = SenderLayout.at
      /\ ParseLayout.mbz = (IF Secure THEN {<<4, 16>>, <<26, 32>>} ELSE {})
  BY <1>2, SenderLayouts
<1>7. packet'.size \in Nat /\ packet'.size <= MaxTWAMPPacketSize
  <2>1. packet.size \in Nat
    BY <1>4 DEF SenderPackets, Packet
  <2> QED  BY <1>5, <2>1 DEF MaxTWAMPPacketSize
<1>8. own => packet'.size = SenderLayout.min + session.PaddingLength
  <2>1. SenderLayout.min + session.PaddingLength <= MaxTWAMPPacketSize
    BY <1>2 DEF MaxTWAMPPacketSize
  <2>2. SenderLayout.min + session.PaddingLength \in Nat
    BY <1>2, <1>6
  <2> QED  BY <1>4, <1>5, <2>1, <2>2 DEF MaxTWAMPPacketSize
<1>9. own => Accepts(packet', ParseLayout, FALSE)
  <2> SUFFICES ASSUME own PROVE Accepts(packet', ParseLayout, FALSE)
    OBVIOUS
  <2>1. packet'.size >= ParseLayout.min
    BY <1>2, <1>6, <1>8
  <2>2. Unmarshals(packet', ParseLayout)
    <3>1. CASE Secure
      <4>1. packet'.at = SenderAt(0, 16, 24)
        BY <1>4, <1>5, <1>6, <3>1
      <4>2. \A range \in {<<4, 16>>, <<26, 32>>}, f \in {"SeqNumber", "Timestamp", "ErrorEstimate"} :
                SenderAt(0, 16, 24)[f] \notin range[1] .. range[2] - 1
        BY DEF SenderAt
      <4>3. DOMAIN SenderAt(0, 16, 24) = {"SeqNumber", "Timestamp", "ErrorEstimate"}
        BY DEF SenderAt
      <4> QED  BY <1>6, <2>1, <3>1, <4>1, <4>2, <4>3 DEF Unmarshals
    <3>2. CASE ~Secure
      BY <1>6, <2>1, <3>2 DEF Unmarshals
    <3> QED  BY <3>1, <3>2
  <2>3. Secure => /\ Decrypts(packet', ~Encrypted, FALSE)
                  /\ packet'.hmac = HMACCoverage(Encrypted, FALSE)
    BY <1>4, <1>5, <1>6, <2>1 DEF HmacOf, CipherOf, Decrypts, MinAuthSize
  <2> QED  BY <2>2, <2>3 DEF Accepts
<1>10. Accepts(packet', ParseLayout, FALSE) => own \/ ~Secure
  <2>1. SUFFICES ASSUME ~own, Secure, packet'.hmac = HMACCoverage(Encrypted, FALSE) PROVE FALSE
    BY DEF Accepts
  <2>2. packet'.hmac = 0
    BY <1>4, <1>5, <2>1
  <2> QED  BY <2>1, <2>2 DEF HMACCoverage
<1>11. Accepts(packet', ParseLayout, FALSE) => packet'.size >= SenderLayout.min
  BY <1>6 DEF Accepts, Unmarshals
<1>12. TypeOK'
  <2>1. {sentAt', rxAt', txAt'} \subseteq Nat \cup {None}
    BY <1>1, <1>3 DEF PInv, TypeOK
  <2>2. mode' \in Modes /\ skew' \in Skews /\ now' \in StartTime .. MaxTime /\ own' \in BOOLEAN
    BY <1>1 DEF PInv, TypeOK
  <2>3. session' \in {None} \cup [PaddingLength : Nat, Timeout : Nat, sent : TWAMPTimestamp,
                                  timeout : Nat \cup {None}]
    BY <1>1 DEF PInv, TypeOK
  <2>4. reply' \in {None} \cup ReflectorPackets
    BY <1>1 DEF PInv, TypeOK
  <2> QED  BY <1>1, <1>5, <2>1, <2>2, <2>3, <2>4 DEF TypeOK, Phases
<1>13. SessionOK'
  BY <1>1, ModeFixed DEF PInv, SessionOK
<1>14. PacketOK'
  <2>1. Sender' = Sender
    BY <1>1 DEF Sender
  <2> QED  BY <1>1, <1>4, <1>5, <1>8, <2>1, ModeFixed DEF PacketOK
<1>15. ReceivedOK'
  <2> SUFFICES ASSUME phase' = "received"
               PROVE  /\ own' \/ ~Secure'
                      /\ packet'.size \in SenderLayout'.min .. MaxTWAMPPacketSize
                      /\ rxAt' \in (StartTime + skew') .. (now' + skew')
    BY <1>1 DEF ReceivedOK
  <2>1. Accepts(packet', ParseLayout, FALSE)
    BY <1>1
  <2>2. SenderLayout.min \in Nat /\ SenderLayout' = SenderLayout /\ (Secure' <=> Secure)
    BY <1>1, <1>6, ModeFixed
  <2>3. packet'.size \in SenderLayout.min .. MaxTWAMPPacketSize
    BY <1>7, <1>11, <2>1, <2>2 DEF MaxTWAMPPacketSize
  <2>4. rxAt' \in (StartTime + skew) .. (now + skew)
    BY <1>1, <1>3
  <2> QED  BY <1>1, <1>10, <2>1, <2>2, <2>3, <2>4
<1>16. ReplyOK' /\ ResultOK' /\ PacketsServed' /\ ReplyShape' /\ MeasuredTimes'
  BY <1>1, <1>9 DEF ReplyOK, ResultOK, PacketsServed, ReplyShape, MeasuredTimes
<1> QED  BY <1>12, <1>13, <1>14, <1>15, <1>16 DEF PInv

(* What the reflector builds: the layout that the client parses, the       *)
(* sender's fields in it, and the size and padding of the mode.            *)
LEMMA ReplyBuilt ==
    ASSUME PInv, phase = "received", NEW r, r = (IF Secure THEN SecureReply ELSE PlainReply)
    PROVE  /\ r \in ReflectorPackets /\ r.at = ReplyLayout.at /\ r.hmac = 0 /\ r.cipher = 0
           /\ r.fields = [SeqNumber |-> "server", Timestamp |-> FromTime(now + skew),
                          ErrorEstimate |-> "server", ReceiveTimestamp |-> FromTime(rxAt),
                          SenderSeqNumber |-> Sender, SenderTimestamp |-> FromTime(sentAt),
                          SenderErrorEstimate |-> Sender, SenderTTL |-> "network"]
           /\ r.size \in Nat /\ r.size >= ReplyLayout.min
           /\ mode.reflectOctets => /\ r.fill = packet.fill
                                    /\ r.size = ReplyLayout.min + (packet.size - SenderLayout.min)
           /\ ~mode.reflectOctets =>
                /\ r.size = (IF Secure /\ ~mode.symmetricalSize THEN ReplyLayout.min
                             ELSE Larger(packet.size, ReplyLayout.min))
                /\ r.size <= MaxTWAMPPacketSize
<1>1. /\ mode \in Modes /\ now \in Nat /\ skew \in Nat /\ packet \in SenderPackets /\ sentAt \in Nat
      /\ packet.fields = [SeqNumber |-> Sender, Timestamp |-> FromTime(sentAt),
                          ErrorEstimate |-> Sender]
  BY PacketsAssumption DEF PInv, TypeOK, PacketOK
<1>2. /\ own \/ ~Secure
      /\ packet.size \in SenderLayout.min .. MaxTWAMPPacketSize
      /\ rxAt \in (StartTime + skew) .. (now + skew)
  BY DEF PInv, ReceivedOK
<1>3. /\ SenderLayout.min = (IF Secure THEN 48 ELSE 14)
      /\ SenderLayout.at = (IF Secure THEN SenderAt(0, 16, 24) ELSE SenderAt(0, 4, 12))
      /\ ParseLayout.min = SenderLayout.min
  BY <1>1, SenderLayouts
<1>4. packet.at = SenderLayout.at
  <2>1. CASE own
    BY <2>1 DEF PInv, PacketOK
  <2>2. CASE ~own
    <3>1. packet.at = SenderTestPacket_Marshal.at
      BY <2>2 DEF PInv, PacketOK
    <3> QED  BY <1>2, <1>3, <2>2, <3>1 DEF SenderTestPacket_Marshal
  <2> QED  BY <2>1, <2>2
<1>5. ReflectorFields = [SeqNumber |-> "server", Timestamp |-> FromTime(now + skew),
                         ErrorEstimate |-> "server", ReceiveTimestamp |-> FromTime(rxAt),
                         SenderSeqNumber |-> Sender, SenderTimestamp |-> FromTime(sentAt),
                         SenderErrorEstimate |-> Sender, SenderTTL |-> "network"]
  <2>1. /\ Field(packet, ParseLayout, "SeqNumber") = packet.fields["SeqNumber"]
        /\ Field(packet, ParseLayout, "Timestamp") = packet.fields["Timestamp"]
        /\ Field(packet, ParseLayout, "ErrorEstimate") = packet.fields["ErrorEstimate"]
    BY <1>1, <1>4, SenderFieldsFound
  <2> QED  BY <1>1, <2>1 DEF ReflectorFields
<1>6. ReflectorFields \in Fields
  <2>1. rxAt \in Nat /\ now + skew \in Nat
    BY <1>1, <1>2, PacketsAssumption
  <2>2. FromTime(rxAt) \in TWAMPTimestamp /\ FromTime(sentAt) \in TWAMPTimestamp
    BY <1>1, <2>1, StampType
  <2>3. FromTime(now + skew) \in TWAMPTimestamp
    BY <2>1, StampType
  <2>4. Sender \in Origins
    BY DEF Sender, Origins
  <2> QED  BY <1>5, <2>2, <2>3, <2>4 DEF Fields, Origins
<1>7. packet.fill \in Origins \cup {"zeros"}
  BY <1>1 DEF SenderPackets, Packet
<1>8. /\ ReplyLayout.min = (IF Secure THEN 112 ELSE 41)
      /\ ReplyLayout.at = (IF Secure THEN ReflectorAt(0, 16, 24, 32, 48, 64, 72, 80)
                           ELSE ReflectorAt(0, 4, 12, 16, 24, 28, 36, 40))
  BY DEF ReplyLayout, ReflectorTestPacketAuth_Unmarshal, ReflectorTestPacket_Unmarshal
<1>9. ReplyLayout.at \in [DOMAIN ReflectorAt(0, 0, 0, 0, 0, 0, 0, 0) -> Nat]
  BY <1>8 DEF ReflectorAt
<1>10. packet.size \in Nat /\ SenderLayout.min <= packet.size /\ packet.size <= MaxTWAMPPacketSize
  BY <1>2, <1>3 DEF MaxTWAMPPacketSize
(* The shape in every mode.                                                *)
<1>11. \E n \in Nat, fill \in Origins \cup {"zeros"} :
          /\ r = [size |-> ReplyLayout.min + n, at |-> ReplyLayout.at, fill |-> fill,
                  fields |-> ReflectorFields, hmac |-> 0, cipher |-> 0]
          /\ mode.reflectOctets => fill = packet.fill /\ n = packet.size - SenderLayout.min
          /\ ~mode.reflectOctets =>
               n = (IF (Secure /\ ~mode.symmetricalSize) \/ packet.size <= ReplyLayout.min THEN 0
                    ELSE packet.size - ReplyLayout.min)
  <2> DEFINE M(n, fill) == [size |-> ReplyLayout.min + n, at |-> ReplyLayout.at, fill |-> fill,
                            fields |-> ReflectorFields, hmac |-> 0, cipher |-> 0]
             k == packet.size - SenderLayout.min
  <2>1. k \in Nat
    BY <1>3, <1>10
  <2>2. CASE Secure /\ mode.reflectOctets
    <3>1. ReflectedPadding(112) = k
      BY <1>3, <1>10, <2>2 DEF ReflectedPadding
    <3>2. r = M(k, packet.fill)
      BY <1>8, <2>2, <3>1 DEF SecureReply, ReflectorTestPacketAuthReflectOctets_Marshal, Marshal
    <3> QED  BY <1>7, <2>1, <2>2, <3>2
  <2>3. CASE ~Secure /\ mode.reflectOctets
    <3>1. ReflectedPadding(41) = k
      BY <1>3, <1>10, <2>3 DEF ReflectedPadding
    <3>2. r = M(k, packet.fill)
      BY <1>8, <2>3, <3>1 DEF PlainReply, ReflectorTestPacketReflectOctets_Marshal, Marshal
    <3> QED  BY <1>7, <2>1, <2>3, <3>2
  <2>4. CASE Secure /\ ~mode.reflectOctets
    <3> DEFINE n == IF mode.symmetricalSize THEN CalculateSymmetricalPaddingAuth(packet.size) ELSE 0
    <3>1. r = M(n, "server")
      BY <1>8, <2>4 DEF SecureReply, ReflectorTestPacketAuth_Marshal, Marshal
    <3>2. n \in Nat /\ n = (IF (Secure /\ ~mode.symmetricalSize) \/ packet.size <= ReplyLayout.min THEN 0
                            ELSE packet.size - ReplyLayout.min)
      BY <1>8, <1>10, <2>4 DEF CalculateSymmetricalPaddingAuth
    <3> HIDE DEF n
    <3> QED  BY <2>4, <3>1, <3>2 DEF Origins
  <2>5. CASE ~Secure /\ ~mode.reflectOctets
    <3> DEFINE n == IF mode.symmetricalSize THEN CalculateSymmetricalPadding(packet.size)
                    ELSE Larger(0, packet.size - 41)
    <3>1. r = M(n, "zeros")
      BY <1>8, <2>5 DEF PlainReply, ReflectorTestPacket_Marshal, Marshal
    <3>2. n \in Nat /\ n = (IF (Secure /\ ~mode.symmetricalSize) \/ packet.size <= ReplyLayout.min THEN 0
                            ELSE packet.size - ReplyLayout.min)
      BY <1>8, <1>10, <2>5 DEF CalculateSymmetricalPadding, Larger
    <3> HIDE DEF n
    <3> QED  BY <2>5, <3>1, <3>2
  <2> QED  BY <2>2, <2>3, <2>4, <2>5
<1>12. PICK n \in Nat, fill \in Origins \cup {"zeros"} :
          /\ r = [size |-> ReplyLayout.min + n, at |-> ReplyLayout.at, fill |-> fill,
                  fields |-> ReflectorFields, hmac |-> 0, cipher |-> 0]
          /\ mode.reflectOctets => fill = packet.fill /\ n = packet.size - SenderLayout.min
          /\ ~mode.reflectOctets =>
               n = (IF (Secure /\ ~mode.symmetricalSize) \/ packet.size <= ReplyLayout.min THEN 0
                    ELSE packet.size - ReplyLayout.min)
  BY <1>11
<1>13. ReplyLayout.min \in Nat /\ ReplyLayout.min <= MaxTWAMPPacketSize
  BY <1>8 DEF MaxTWAMPPacketSize
<1>14. /\ r.size = ReplyLayout.min + n /\ r.at = ReplyLayout.at /\ r.fill = fill
       /\ r.fields = ReflectorFields /\ r.hmac = 0 /\ r.cipher = 0
  BY <1>12
<1>15. r \in ReflectorPackets
  BY <1>6, <1>9, <1>12, <1>13 DEF ReflectorPackets, Packet
<1>16. ~mode.reflectOctets =>
          /\ r.size = (IF Secure /\ ~mode.symmetricalSize THEN ReplyLayout.min
                       ELSE Larger(packet.size, ReplyLayout.min))
          /\ r.size <= MaxTWAMPPacketSize
  BY <1>10, <1>12, <1>13, <1>14 DEF Larger, MaxTWAMPPacketSize
<1> QED  BY <1>5, <1>12, <1>13, <1>14, <1>15, <1>16

(* A reply that fits the buffer leaves; one that does not is reflect-octets. *)
LEMMA ReflectKeeps ==
    ASSUME PInv, Reflect
    PROVE  PInv'
<1> DEFINE r == IF Secure THEN SecureReply ELSE PlainReply
<1>1. /\ phase = "received" /\ txAt' = now + skew /\ reply' = Protect(r, TRUE)
      /\ phase' = (IF Get(r.size) THEN "replied" ELSE "crashed")
      /\ mode' = mode /\ skew' = skew /\ now' = now /\ session' = session /\ own' = own
      /\ packet' = packet /\ sentAt' = sentAt /\ rxAt' = rxAt /\ result' = result
  BY DEF Reflect
<1>2. /\ r \in ReflectorPackets /\ r.at = ReplyLayout.at /\ r.hmac = 0 /\ r.cipher = 0
      /\ r.fields = [SeqNumber |-> "server", Timestamp |-> FromTime(now + skew),
                     ErrorEstimate |-> "server", ReceiveTimestamp |-> FromTime(rxAt),
                     SenderSeqNumber |-> Sender, SenderTimestamp |-> FromTime(sentAt),
                     SenderErrorEstimate |-> Sender, SenderTTL |-> "network"]
      /\ r.size \in Nat /\ r.size >= ReplyLayout.min
      /\ mode.reflectOctets => /\ r.fill = packet.fill
                               /\ r.size = ReplyLayout.min + (packet.size - SenderLayout.min)
      /\ ~mode.reflectOctets =>
           /\ r.size = (IF Secure /\ ~mode.symmetricalSize THEN ReplyLayout.min
                        ELSE Larger(packet.size, ReplyLayout.min))
           /\ r.size <= MaxTWAMPPacketSize
  BY <1>1, ReplyBuilt
<1> HIDE DEF r
<1>3. mode \in Modes /\ now \in Nat /\ skew \in Nat /\ own \in BOOLEAN
  BY PacketsAssumption DEF PInv, TypeOK
<1>4. /\ reply' \in ReflectorPackets
      /\ reply'.size = r.size /\ reply'.at = r.at /\ reply'.fill = r.fill
      /\ reply'.fields = r.fields
      /\ reply'.hmac = HmacOf(TRUE) /\ reply'.cipher = CipherOf(TRUE)
  <2> DEFINE names == DOMAIN ReflectorAt(0, 0, 0, 0, 0, 0, 0, 0)
  <2>1. /\ mode \in Modes /\ reply' = Protect(r, TRUE) /\ r \in Packet(names, Fields)
        /\ r.hmac = 0 /\ r.cipher = 0
    BY <1>1, <1>2, <1>3 DEF ReflectorPackets
  <2>2. ReflectorPackets = Packet(names, Fields)
    BY DEF ReflectorPackets
  <2> HIDE DEF names
  <2>3. /\ reply' \in Packet(names, Fields)
        /\ reply'.size = r.size /\ reply'.at = r.at /\ reply'.fill = r.fill
        /\ reply'.fields = r.fields
        /\ reply'.hmac = HmacOf(TRUE) /\ reply'.cipher = CipherOf(TRUE)
    BY ONLY <2>1, Protected
  <2> QED  BY <2>2, <2>3
<1>5. TypeOK'
  <2>1. {sentAt', rxAt', txAt'} \subseteq Nat \cup {None}
    BY <1>1, <1>3 DEF PInv, TypeOK
  <2>2. mode' \in Modes /\ skew' \in Skews /\ now' \in StartTime .. MaxTime /\ own' \in BOOLEAN
    BY <1>1 DEF PInv, TypeOK
  <2>3. session' \in {None} \cup [PaddingLength : Nat, Timeout : Nat, sent : TWAMPTimestamp,
                                  timeout : Nat \cup {None}]
    BY <1>1 DEF PInv, TypeOK
  <2>4. packet' \in {None} \cup SenderPackets
    BY <1>1 DEF PInv, TypeOK
  <2> QED  BY <1>1, <1>4, <2>1, <2>2, <2>3, <2>4 DEF TypeOK, Phases
<1>6. SessionOK'
  BY <1>1, ModeFixed DEF PInv, SessionOK
<1>7. Sender' = Sender
  BY <1>1 DEF Sender
<1>8. PacketOK'
  BY <1>1, <1>7, ModeFixed DEF PInv, PacketOK
<1>9. ReceivedOK'
  BY <1>1, ModeFixed DEF PInv, ReceivedOK
<1>10. ReplyOK'
  <2> SUFFICES ASSUME phase' = "replied" PROVE ReplyOK'
    BY <1>1 DEF ReplyOK
  <2>1. r.size <= MaxTWAMPPacketSize
    BY <1>1 DEF Get
  <2>2. ReplyLayout.min \in Nat /\ ReplyLayout' = ReplyLayout
    BY <1>1, ModeFixed
       DEF ReplyLayout, ReflectorTestPacketAuth_Unmarshal, ReflectorTestPacket_Unmarshal
  <2>3. reply'.size \in ReplyLayout'.min .. MaxTWAMPPacketSize
    BY <1>2, <1>4, <2>1, <2>2 DEF MaxTWAMPPacketSize
  <2>4. txAt' \in rxAt' .. (now' + skew')
    <3>1. StartTime \in Nat /\ rxAt \in (StartTime + skew) .. (now + skew)
      BY <1>1, PacketsAssumption DEF PInv, ReceivedOK
    <3> QED  BY <1>1, <1>3, <3>1
  <2>5. reply'.fields =
            [SeqNumber |-> "server", Timestamp |-> FromTime(txAt'), ErrorEstimate |-> "server",
             ReceiveTimestamp |-> FromTime(rxAt'), SenderSeqNumber |-> Sender',
             SenderTimestamp |-> FromTime(sentAt'), SenderErrorEstimate |-> Sender',
             SenderTTL |-> "network"]
    BY <1>1, <1>2, <1>4, <1>7
  <2>6. /\ reply'.at = ReplyLayout'.at
        /\ reply'.hmac = HmacOf(TRUE)' /\ reply'.cipher = CipherOf(TRUE)'
    BY <1>1, <1>2, <1>4, <2>2, ModeFixed
  <2> QED  BY <1>4, <2>3, <2>4, <2>5, <2>6 DEF ReplyOK
<1>11. PacketsServed'
  <2>1. phase' = "crashed" => mode.reflectOctets
    BY <1>1, <1>2 DEF Get
  <2>2. reply' # None
    BY <1>4, NoneAssumption
  <2> QED  BY <1>1, <2>1, <2>2 DEF PacketsServed
<1>12. ReplyShape'
  <2>1. CASE mode.reflectOctets
    <3>1. packet.size \in Int /\ SenderLayout.min \in Int /\ ReplyLayout.min \in Int
      <4>1. SenderLayout.min \in Int
        BY <1>3, SenderLayouts
      <4>2. packet.size \in Int
        BY <1>1, <4>1 DEF PInv, ReceivedOK, MaxTWAMPPacketSize
      <4> QED  BY <4>1, <4>2 DEF ReplyLayout, ReflectorTestPacketAuth_Unmarshal, ReflectorTestPacket_Unmarshal
    <3>2. reply'.size = ReplyLayout.min + (packet.size - SenderLayout.min)
      BY <1>2, <1>4, <2>1
    <3>3. reply'.size - ReplyLayout.min = packet.size - SenderLayout.min
      BY <3>1, <3>2
    <3>4. reply'.fill = packet'.fill /\ packet' = packet
      BY <1>1, <1>2, <1>4, <2>1
    <3> QED  BY <1>1, <2>1, <3>3, <3>4, ModeFixed DEF ReplyShape
  <2>2. CASE ~mode.reflectOctets
    <3>1. own /\ ~Secure => Larger(packet.size, ReplyLayout.min) = Larger(packet.size, 0)
      <4> SUFFICES ASSUME own, ~Secure PROVE Larger(packet.size, ReplyLayout.min) = Larger(packet.size, 0)
        OBVIOUS
      <4>1. packet.size = SenderLayout.min + session.PaddingLength
        BY <1>1 DEF PInv, PacketOK
      <4>2. packet.size \in Nat /\ packet.size >= 41
        BY <1>1, <4>1, PaddingFits DEF MaxTWAMPPacketSize
      <4>3. ReplyLayout.min = 41
        BY DEF ReplyLayout, ReflectorTestPacket_Unmarshal
      <4> QED  BY <4>2, <4>3 DEF Larger
    <3>2. mode.symmetricalSize \/ ~Secure =>
              reply'.size = Larger(packet.size, IF own /\ ~Secure THEN 0 ELSE ReplyLayout.min)
      BY <1>2, <1>4, <2>2, <3>1
    <3> QED  BY <1>1, <2>2, <3>2, ModeFixed DEF ReplyShape
  <2> QED  BY <2>1, <2>2
<1>13. MeasuredTimes' /\ ResultOK'
  BY <1>1 DEF MeasuredTimes, ResultOK
<1> QED  BY <1>5, <1>6, <1>8, <1>9, <1>10, <1>11, <1>12, <1>13 DEF PInv

(* Time passes, or the reply goes to someone else.                         *)
LEMMA TickKeeps ==
    ASSUME PInv, \/ Tick \/ ReplyElsewhere \/ Terminated \/ UNCHANGED vars
    PROVE  PInv'
<1>1. /\ mode' = mode /\ skew' = skew /\ session' = session /\ own' = own
      /\ packet' = packet /\ reply' = reply /\ sentAt' = sentAt /\ rxAt' = rxAt
      /\ txAt' = txAt /\ result' = result
  BY DEF Tick, ReplyElsewhere, Terminated, vars
<1>2. \/ phase' = phase /\ (now' = now \/ (now' = now + 1 /\ now < MaxTime))
      \/ phase = "replied" /\ phase' = "ready" /\ now' = now
  BY DEF Tick, ReplyElsewhere, Terminated, vars
<1>3. /\ mode \in Modes /\ now \in StartTime .. MaxTime /\ skew \in Nat
      /\ StartTime \in Nat /\ MaxTime \in Nat
  BY PacketsAssumption DEF PInv, TypeOK
<1>4. now' \in StartTime .. MaxTime /\ now <= now'
  BY <1>2, <1>3
<1>5. TypeOK'
  BY <1>1, <1>2, <1>4 DEF PInv, TypeOK, Phases
<1>6. SessionOK'
  BY <1>1, <1>2, ModeFixed DEF PInv, SessionOK
<1>7. Sender' = Sender
  BY <1>1 DEF Sender
<1>8. PacketOK'
  BY <1>1, <1>2, <1>7, ModeFixed DEF PInv, PacketOK
<1>9. ReceivedOK'
  BY <1>1, <1>2, <1>3, <1>4, ModeFixed DEF PInv, ReceivedOK
<1>10. ReplyOK'
  <2> SUFFICES ASSUME phase' \in {"replied", "measured"} PROVE ReplyOK'
    BY DEF ReplyOK
  <2>1. phase' = phase
    BY <1>2
  <2>2. txAt \in rxAt .. (now + skew) /\ rxAt \in (StartTime + skew) .. (now + skew)
    BY <2>1 DEF PInv, ReplyOK, ReceivedOK
  <2>3. txAt' \in rxAt' .. (now' + skew')
    <3>1. now' + skew \in Int /\ now + skew <= now' + skew /\ rxAt \in Int /\ txAt \in Int
      <4>1. now \in Int /\ now' \in Int /\ skew \in Int
        BY <1>3, <1>4
      <4>2. now + skew \in Int /\ StartTime + skew \in Int
        BY <1>3, <4>1
      <4>3. rxAt \in Int
        BY <2>2, <4>2
      <4>4. txAt \in Int
        BY <2>2, <4>2, <4>3
      <4>5. now' + skew \in Int /\ now + skew <= now' + skew
        <5>1. now <= now'
          BY <1>4
        <5>2. \A a, b, c \in Int : a <= b => b + c \in Int /\ a + c <= b + c
          OBVIOUS
        <5> QED  BY ONLY <4>1, <5>1, <5>2
      <4> QED  BY <4>3, <4>4, <4>5
    <3>2. txAt \in rxAt .. (now' + skew)
      BY <1>3, <2>2, <3>1
    <3> QED  BY <1>1, <3>2
  <2> QED  BY <1>1, <1>7, <2>1, <2>3, ModeFixed DEF PInv, ReplyOK
<1>11. PacketsServed' /\ ReplyShape' /\ MeasuredTimes' /\ ResultOK'
  <2>1. PacketsServed'
    BY <1>1, <1>2 DEF PInv, PacketsServed
  <2>2. ReplyShape'
    BY <1>1, <1>2, ModeFixed DEF PInv, ReplyShape
  <2>3. ResultOK'
    BY <1>1, <1>2, <1>3, <1>4 DEF PInv, ResultOK
  <2>4. MeasuredTimes'
    <3> SUFFICES ASSUME phase' = "measured" PROVE MeasuredTimes'
      BY DEF MeasuredTimes
    <3>1. phase = "measured"
      BY <1>2
    <3>2. /\ result.ReceivedTime \in Nat /\ result.ReceivedTime <= now
          /\ now \in Nat /\ now' \in Nat /\ now <= now'
      BY <1>3, <1>4, <3>1 DEF PInv, ResultOK
    <3>3. Era(result.ReceivedTime) = Era(now') => Era(now) = Era(now')
      BY <3>2, EraBetween
    <3>4. MeasuredTimes
      BY DEF PInv
    <3> QED  BY <1>1, <3>1, <3>3, <3>4 DEF MeasuredTimes, Era
  <2> QED  BY <2>1, <2>2, <2>3, <2>4
<1> QED  BY <1>5, <1>6, <1>8, <1>9, <1>10, <1>11 DEF PInv

(* The client accepts the reply to its packet and reads the fields in it.  *)
LEMMA MeasureKeeps ==
    ASSUME PInv, processReceivedPacket
    PROVE  PInv'
<1> DEFINE p == Read(reply)
           known == /\ Accepts(p, ReplyLayout, TRUE)
                    /\ Field(p, ReplyLayout, "SenderSeqNumber") = "client"
<1>1. /\ phase = "replied" /\ own
      /\ \/ /\ known /\ phase' = "measured"
            /\ \E rxRef \in now .. MaxTime : \E txRef \in rxRef .. MaxTime :
                  result' = PacketResult(p, rxRef, txRef) /\ now' = txRef
         \/ ~known
      /\ mode' = mode /\ skew' = skew /\ session' = session /\ own' = own
      /\ packet' = packet /\ reply' = reply /\ sentAt' = sentAt /\ rxAt' = rxAt /\ txAt' = txAt
  BY DEF processReceivedPacket
<1>2. /\ mode \in Modes /\ now \in StartTime .. MaxTime /\ skew \in Skews /\ skew \in Nat
      /\ StartTime \in Nat /\ MaxTime \in Nat
  BY PacketsAssumption DEF PInv, TypeOK
<1>3. /\ reply \in ReflectorPackets
      /\ txAt \in rxAt .. (now + skew)
      /\ reply.size \in ReplyLayout.min .. MaxTWAMPPacketSize
      /\ reply.at = ReplyLayout.at
      /\ reply.hmac = HmacOf(TRUE) /\ reply.cipher = CipherOf(TRUE)
      /\ reply.fields =
            [SeqNumber |-> "server", Timestamp |-> FromTime(txAt), ErrorEstimate |-> "server",
             ReceiveTimestamp |-> FromTime(rxAt), SenderSeqNumber |-> Sender,
             SenderTimestamp |-> FromTime(sentAt), SenderErrorEstimate |-> Sender,
             SenderTTL |-> "network"]
  BY <1>1 DEF PInv, ReplyOK
<1>4. rxAt \in (StartTime + skew) .. (now + skew) /\ sentAt \in Nat /\ Sender = "client"
  BY <1>1 DEF PInv, ReceivedOK, PacketOK, Sender
<1>5. /\ p.size = (IF reply.size > MaxTWAMPPacketSize THEN MaxTWAMPPacketSize ELSE reply.size)
      /\ p.at = reply.at /\ p.fields = reply.fields
      /\ p.hmac = reply.hmac /\ p.cipher = reply.cipher
  <2> DEFINE names == DOMAIN ReflectorAt(0, 0, 0, 0, 0, 0, 0, 0)
  <2>1. reply \in Packet(names, Fields)
    BY <1>3 DEF ReflectorPackets
  <2>2. p = Read(reply)
    OBVIOUS
  <2> HIDE DEF names, p
  <2> QED  BY ONLY <2>1, <2>2, ReadKeeps
<1> HIDE DEF p
<1>6. /\ ReplyLayout.min = (IF Secure THEN 112 ELSE 41)
      /\ ReplyLayout.at = (IF Secure THEN ReflectorAt(0, 16, 24, 32, 48, 64, 72, 80)
                           ELSE ReflectorAt(0, 4, 12, 16, 24, 28, 36, 40))
      /\ ReplyLayout.mbz = (IF Secure THEN {<<4, 16>>, <<26, 32>>, <<40, 48>>, <<52, 64>>, <<74, 80>>, <<81, 96>>}
                            ELSE {<<14, 16>>, <<38, 40>>})
  BY DEF ReplyLayout, ReflectorTestPacketAuth_Unmarshal, ReflectorTestPacket_Unmarshal
<1>7. p.size \in Nat /\ p.size >= ReplyLayout.min
  BY <1>3, <1>5, <1>6 DEF MaxTWAMPPacketSize
<1>8. \A range \in ReplyLayout.mbz, f \in DOMAIN p.at : p.at[f] \notin range[1] .. range[2] - 1
  <2> DEFINE names == {"SeqNumber", "Timestamp", "ErrorEstimate", "ReceiveTimestamp",
                       "SenderSeqNumber", "SenderTimestamp", "SenderErrorEstimate", "SenderTTL"}
  <2>1. CASE Secure
    <3> DEFINE at == ReflectorAt(0, 16, 24, 32, 48, 64, 72, 80)
    <3>1. p.at = at
      BY <1>3, <1>5, <1>6, <2>1
    <3>2. DOMAIN at = names /\ \A f \in names : at[f] \in {0, 16, 24, 32, 48, 64, 72, 80}
      BY DEF ReflectorAt
    <3> HIDE DEF at, names
    <3>3. \A x \in {0, 16, 24, 32, 48, 64, 72, 80},
             range \in {<<4, 16>>, <<26, 32>>, <<40, 48>>, <<52, 64>>, <<74, 80>>, <<81, 96>>} :
                x \notin range[1] .. range[2] - 1
      OBVIOUS
    <3> QED  BY <1>6, <2>1, <3>1, <3>2, <3>3
  <2>2. CASE ~Secure
    <3> DEFINE at == ReflectorAt(0, 4, 12, 16, 24, 28, 36, 40)
    <3>1. p.at = at
      BY <1>3, <1>5, <1>6, <2>2
    <3>2. DOMAIN at = names /\ \A f \in names : at[f] \in {0, 4, 12, 16, 24, 28, 36, 40}
      BY DEF ReflectorAt
    <3> HIDE DEF at, names
    <3>3. \A x \in {0, 4, 12, 16, 24, 28, 36, 40}, range \in {<<14, 16>>, <<38, 40>>} :
                x \notin range[1] .. range[2] - 1
      OBVIOUS
    <3> QED  BY <1>6, <2>2, <3>1, <3>2, <3>3
  <2> QED  BY <2>1, <2>2
<1>9. Accepts(p, ReplyLayout, TRUE)
  <2>1. Unmarshals(p, ReplyLayout)
    BY <1>7, <1>8 DEF Unmarshals
  <2>2. Secure => /\ Decrypts(p, ~Encrypted, TRUE)
                  /\ p.hmac = HMACCoverage(Encrypted, TRUE)
    BY <1>3, <1>5, <1>6, <1>7 DEF HmacOf, CipherOf, Decrypts, MinAuthSize
  <2> QED  BY <2>1, <2>2 DEF Accepts
<1>10. /\ Field(p, ReplyLayout, "SenderSeqNumber") = "client"
       /\ Field(p, ReplyLayout, "SenderTimestamp") = FromTime(sentAt)
       /\ Field(p, ReplyLayout, "SenderErrorEstimate") = "client"
       /\ Field(p, ReplyLayout, "ErrorEstimate") = "server"
       /\ Field(p, ReplyLayout, "ReceiveTimestamp") = FromTime(rxAt)
       /\ Field(p, ReplyLayout, "Timestamp") = FromTime(txAt)
  <2>1. p.at = ReplyLayout.at
    BY <1>3, <1>5
  <2>2. \A f \in {"SeqNumber", "Timestamp", "ErrorEstimate", "ReceiveTimestamp",
                  "SenderSeqNumber", "SenderTimestamp", "SenderErrorEstimate", "SenderTTL"} :
            Field(p, ReplyLayout, f) = p.fields[f]
    BY <2>1, ReplyFieldsFound
  <2> QED  BY <1>3, <1>4, <1>5, <2>2
<1>11. phase' = "measured" /\ \E rxRef \in now .. MaxTime : \E txRef \in rxRef .. MaxTime :
                result' = PacketResult(p, rxRef, txRef) /\ now' = txRef
  BY <1>1, <1>9, <1>10
<1> PICK rxRef \in now .. MaxTime : \E txRef \in rxRef .. MaxTime :
                result' = PacketResult(p, rxRef, txRef) /\ now' = txRef
  BY <1>11
<1>a. now' \in rxRef .. MaxTime /\ result' = PacketResult(p, rxRef, now')
  OBVIOUS
<1>b. rxRef \in Nat /\ now' \in StartTime .. MaxTime /\ now <= rxRef /\ rxRef <= now' /\ now <= now'
  BY <1>2, <1>a
<1>12. MeasuredTimes' /\ ResultOK'
  <2>1. /\ result'.SenderTimestamp = FromTime(sentAt) /\ result'.SenderErrorEstimate = "client"
        /\ result'.ReflectorErrorEstimate = "server" /\ result'.ReceivedTime = now
        /\ result'.ReflectorLatency = DurationBetween(FromTime(rxAt), FromTime(txAt))
        /\ result'.ReflectorRxTime = ToTimeWithReference(FromTime(rxAt), rxRef)
        /\ result'.ReflectorTxTime = ToTimeWithReference(FromTime(txAt), now')
    BY <1>10, <1>a DEF PacketResult
  <2>2. /\ now \in Nat /\ rxAt \in Nat /\ txAt \in Nat /\ MaxTime + skew \in Nat
        /\ rxAt <= txAt /\ txAt <= MaxTime + skew /\ rxAt <= MaxTime + skew
        /\ txAt - rxAt <= MaxTime - StartTime
    <3>1. now \in Nat /\ now <= MaxTime
      BY <1>2
    <3>2. rxAt \in Nat /\ StartTime + skew <= rxAt /\ rxAt <= now + skew
      BY <1>2, <1>4, <3>1
    <3>3. txAt \in Nat /\ rxAt <= txAt /\ txAt <= now + skew
      BY <1>2, <1>3, <3>1, <3>2
    <3> QED  BY <1>2, <3>1, <3>2, <3>3
  <2>3. Within(result'.ReflectorLatency, txAt - rxAt)
    <3>1. txAt - rxAt <= MaxInterval
      BY <1>2, <2>2, HalfEra, ClockAssumption
    <3>2. Within(DurationBetween(FromTime(rxAt), FromTime(txAt)), txAt - rxAt)
      BY <2>2, <3>1, BetweenTimes DEF MaxInterval
    <3> QED  BY <2>1, <3>2
  <2>4. Unix(MaxTime + skew) < NTPEra1Unix + EraSecs
    BY <1>2, ClockAssumption
  <2>5. NTPEra1Unix + EraSecs \in Int
    BY TimestampAssumption DEF NTPEra1Unix
  <2>6. Unix(rxAt) < NTPEra1Unix + EraSecs
    <3>1. Unix(rxAt) <= Unix(MaxTime + skew)
      BY <2>2, UnixMono
    <3> QED  BY <2>2, <2>4, <2>5, <3>1, TimeParts
  <2>7. Unix(txAt) < NTPEra1Unix + EraSecs
    <3>1. Unix(txAt) <= Unix(MaxTime + skew)
      BY <2>2, UnixMono
    <3> QED  BY <2>2, <2>4, <2>5, <3>1, TimeParts
  <2>8. Era(now) = Era(now') /\ Era(rxAt) = Era(now') => Within(result'.ReflectorRxTime, rxAt)
    <3> SUFFICES ASSUME Era(now) = Era(now'), Era(rxAt) = Era(now')
                 PROVE  Within(result'.ReflectorRxTime, rxAt)
      OBVIOUS
    <3>1. now' \in Nat
      BY <1>2, <1>b
    <3>2. Era(rxRef) = Era(now')
      BY <1>b, <2>2, <3>1, EraBetween
    <3> QED  BY <1>b, <2>1, <2>2, <2>6, <3>2, ReadInEra
  <2>9. Era(txAt) = Era(now') => Within(result'.ReflectorTxTime, txAt)
    <3>1. now' \in Nat
      BY <1>2, <1>b
    <3> QED  BY <2>1, <2>2, <2>7, <3>1, ReadInEra
  <2>10. ResultOK'
    BY <1>b, <2>1, <2>2 DEF ResultOK
  <2> QED  BY <1>1, <2>1, <2>3, <2>8, <2>9, <2>10 DEF MeasuredTimes, Era
<1>13. TypeOK'
  BY <1>1, <1>11, <1>b DEF PInv, TypeOK, Phases
<1>14. SessionOK'
  BY <1>1, <1>11, ModeFixed DEF PInv, SessionOK
<1>15. Sender' = Sender
  BY <1>1 DEF Sender
<1>16. PacketOK'
  BY <1>1, <1>11, <1>15, ModeFixed DEF PInv, PacketOK
<1>c. rxAt \in (StartTime + skew) .. (now' + skew) /\ txAt \in rxAt .. (now' + skew)
  <2>1. /\ StartTime \in Int /\ now \in Int /\ now' \in Int /\ skew \in Int
        /\ now + skew \in Int /\ now' + skew \in Int /\ StartTime + skew \in Int
    BY <1>2, <1>b
  <2>2. now + skew <= now' + skew
    BY <1>b, <2>1
  <2>3. rxAt \in Int
    BY <1>4, <2>1
  <2>4. txAt \in Int
    BY <1>3, <2>1, <2>3
  <2> QED  BY <1>3, <1>4, <2>1, <2>2, <2>3, <2>4
<1>d. ReceivedOK'
  BY <1>1, <1>11, <1>c, ModeFixed DEF PInv, ReceivedOK
<1>17. ReplyOK'
  BY <1>1, <1>11, <1>15, <1>c, ModeFixed DEF PInv, ReplyOK
<1>18. PacketsServed'
  BY <1>11 DEF PacketsServed
<1>19. ReplyShape'
  BY <1>1, <1>11, ModeFixed DEF PInv, ReplyShape
<1> QED  BY <1>12, <1>13, <1>14, <1>16, <1>d, <1>17, <1>18, <1>19 DEF PInv

(* Every step keeps the invariant.                                         *)
LEMMA PInvNext == PInv /\ [Next]_vars => PInv'
<1> SUFFICES ASSUME PInv, [Next]_vars PROVE PInv'
  OBVIOUS
<1>1. ASSUME NEW padding \in Paddings, NEW timeout \in Timeouts, RequestSession(padding, timeout)
      PROVE  PInv'
  BY <1>1, RequestKeeps
<1>2. CASE handleRequestTWSession
  BY <1>2, AnswerKeeps
<1>3. CASE SendTestPacket
  BY <1>3, SendKeeps
<1>4. ASSUME NEW size \in OtherSizes, SendOther(size) PROVE PInv'
  BY <1>4, OtherKeeps
<1>5. CASE Receive
  BY <1>5, ReceiveKeeps
<1>6. CASE Reflect
  BY <1>6, ReflectKeeps
<1>7. CASE processReceivedPacket
  BY <1>7, MeasureKeeps
<1>8. CASE Tick \/ ReplyElsewhere \/ Terminated \/ UNCHANGED vars
  BY <1>8, TickKeeps
<1> QED  BY <1>1, <1>2, <1>3, <1>4, <1>5, <1>6, <1>7, <1>8 DEF Next

(* So it always holds.                                                     *)
LEMMA PInvAlways == Spec => []PInv
BY PInvInit, PInvNext, PTL DEF Spec

-----------------------------------------------------------------------------
(* The theorems.                                                           *)

(* What the client sends in an accepted session is reflected and measured, *)
(* in every mode and for every padding; only a reflect-octets reply can    *)
(* exceed its buffer (PacketsServed).                                      *)
THEOREM AcceptedSessionsServed == Spec => []PacketsServed
<1>1. PInv => PacketsServed
  BY DEF PInv
<1> QED  BY <1>1, PInvAlways, PTL

(* The reply has the size and the padding that the mode calls for, for     *)
(* packets of any size (ReplyShape).                                       *)
THEOREM RepliesShaped == Spec => []ReplyShape
<1>1. PInv => ReplyShape
  BY DEF PInv
<1> QED  BY <1>1, PInvAlways, PTL

(* The client computes the reflector's times to a nanosecond, also across  *)
(* the end of an era (MeasuredTimes).                                      *)
THEOREM TimesMeasured == Spec => []MeasuredTimes
<1>1. PInv => MeasuredTimes
  BY DEF PInv
<1> QED  BY <1>1, PInvAlways, PTL

(* The server's grace period is the client's timeout to a nanosecond       *)
(* (TimeoutCarried).                                                       *)
THEOREM TimeoutsCarried == Spec => []TimeoutCarried
<1>1. PInv => TimeoutCarried
  <2> SUFFICES ASSUME PInv, phase \notin {"new", "requested", "refused", "hungup"}
               PROVE  Within(session.timeout, session.Timeout)
    BY DEF TimeoutCarried
  <2>1. /\ session.Timeout \in Nat /\ Unix(session.Timeout) < EraSecs
        /\ session.timeout = Duration(TimeoutField(session.Timeout))
    BY DEF PInv, SessionOK
  <2> QED  BY <2>1, TimeoutThereAndBack
<1> QED  BY <1>1, PInvAlways, PTL

(* Add, Sub, DurationBetween, Before and After agree with the arithmetic   *)
(* of times, for every clock and interval below half an era and for every  *)
(* width of the fields (StampArithmetic).                                  *)
THEOREM StampsAgree == Spec => []StampArithmetic
<1>1. TypeOK => StampArithmetic
  <2> SUFFICES ASSUME TypeOK, NEW d \in 0 .. MaxInterval
               PROVE  LET ts == FromTime(now) IN
                      /\ Sub(Add(ts, d), d) = ts
                      /\ Within(DurationBetween(ts, Add(ts, d)), d)
                      /\ Within(DurationBetween(Add(ts, d), ts), -d)
                      /\ Era(now) = Era(now + d) =>
                          /\ Before(ts, FromTime(now + d)) <=> d > 0
                          /\ After(FromTime(now + d), ts) <=> d > 0
    BY DEF StampArithmetic
  <2> DEFINE u == now + d
  <2>1. now \in Nat /\ d \in Nat /\ u \in Nat /\ MaxTime + MaxInterval \in Nat /\ u <= MaxTime + MaxInterval
    BY PacketsAssumption, HalfEra DEF TypeOK
  <2>2. FromTime(now) \in TWAMPTimestamp
    BY <2>1, StampType
  <2>3. /\ Sub(Add(FromTime(now), d), d) = FromTime(now)
        /\ Within(DurationBetween(FromTime(now), Add(FromTime(now), d)), d)
        /\ Within(DurationBetween(Add(FromTime(now), d), FromTime(now)), -d)
    BY <2>2, AddUndone
  <2>4. Unix(u) < NTPEra1Unix + EraSecs
    <3>1. Unix(MaxTime + MaxInterval) < NTPEra1Unix + EraSecs
      BY ClockAssumption
    <3>2. Unix(u) <= Unix(MaxTime + MaxInterval)
      BY <2>1, UnixMono
    <3>3. Unix(u) \in Int /\ Unix(MaxTime + MaxInterval) \in Int
      BY <2>1, TimeParts
    <3>4. NTPEra1Unix + EraSecs \in Int
      BY TimestampAssumption DEF NTPEra1Unix
    <3> HIDE DEF u
    <3> QED  BY <3>1, <3>2, <3>3, <3>4
  <2>5. d > 0 => now < u
    BY <2>1
  <2>6. d = 0 => u = now
    BY <2>1
  <2>7. d = 0 \/ d > 0
    BY <2>1
  <2> HIDE DEF u
  <2>8. ASSUME Era(now) = Era(u), d > 0
        PROVE  Before(FromTime(now), FromTime(u)) /\ After(FromTime(u), FromTime(now))
    BY <2>1, <2>4, <2>5, <2>8, StampsOrdered
  <2>9. ~Before(FromTime(now), FromTime(now)) /\ ~After(FromTime(now), FromTime(now))
    <3>1. FromTime(now).Seconds \in Int /\ FromTime(now).Fraction \in Int
      BY <2>2, TimestampAssumption DEF TWAMPTimestamp
    <3> QED  BY <3>1 DEF Before, After
  <2>10. Era(now) = Era(u) =>
            /\ Before(FromTime(now), FromTime(u)) <=> d > 0
            /\ After(FromTime(u), FromTime(now)) <=> d > 0
    BY <2>6, <2>7, <2>8, <2>9
  <2> QED  BY <2>3, <2>10 DEF u
<1>2. PInv => TypeOK
  BY DEF PInv
<1> QED  BY <1>1, <1>2, PInvAlways, PTL
====
