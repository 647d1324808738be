# A TLA+ model of twamp_nc

`twamp_nc` is a Go implementation of TWAMP (RFC 5357, with RFC 5618, 5938 and
6038): a client opens a TCP control connection to a server, agrees on a
security mode, requests test sessions, starts them, exchanges UDP test packets
with the server's reflectors and stops the sessions. This directory holds TLA+
modules translated from the code, TLC configurations that check them on small
instances, and TLAPS proofs, for every instance, of all the invariants checked.
`PROJECT.json` is the index: components, runs, the correspondence of
definitions to source lines (`map`), mutants, findings, hazards and theorems.

## 1. Inventory

| Part (code) | State | Operations | Modelled in |
|---|---|---|---|
| server: connections and session lifecycle (`server/server.go`) | `Server.connections`, `Server.sessions`, `controlConnection.sessions`; per session `isActive`, `conn`, `stopChan`, `reflectorDone`, port; pending `time.AfterFunc` timers | accept loop, greeting and set-up, the five commands, `startSession`, `stopSession`, deferred cleanup of a connection, `Server.Stop` | `TwampServer`, and `SessionLife` for what it promises |
| server: port manager (`server/server.go`) | `usedPorts`, range | `newPortManager`, `allocatePort`, `releasePort` | `PortManager` |
| server: reflector loop (`server/server.go`) | `startTime`, `hmacFailures`, `lastHMACFailureTime`, read deadline | `reflectPackets`, `processAndReflect` | `Reflector` (time), `TwampServer` (its life), `TestTraffic` (sequence numbers), `Packets` (replies) |
| client: test session (`client/test_session.go`) | `seqNo`, `totalSent`, `totalReceived`, `results`, `conn`, `stopChan`, `isStopping`, `receiverWg` | `Start`, `Stop`, `SendTestPacket`, `StartReceiving`, `processReceivedPacket`, `GetResults` | `TestTraffic` |
| control connection (`client/client.go`, `server/server.go`, `common/types.go`) | modes, keys, `serverStartHMACPending` and the list of sessions, on each side | `Connect`, `RequestSession(Individual)`, `StartSession(s)`, `StopSession(s)`, `StopNSessions`, `Close`; the server's handlers | `Control` |
| messages (`messages/`) | none | codecs, padding, packet sizes | `Packets` (test packets, padding and timeout of a request) |
| common (`common/`) | none | timestamps, HMAC coverage, buffer pool; error estimates, socket options | `Timestamps`, `Packets`; not |
| crypto (`crypto/`) | CBC chaining of a control stream | AES, HMAC, key derivation | `Packets` (what is covered), otherwise verification is an outcome |
| metrics, logging, examples, test utilities | counters, text | | no |

How they interact. Client and server exchange control messages over TCP; the
client waits for a reply to requests and starts, but not to stops. The server
has a goroutine for the accept loop, one per connection, one per started
session (the reflector), and timers. They share `Server.sessions`,
`Server.connections`, the port manager and the session objects, under several
mutexes and the atomic `isActive`; a session can be stopped by its timer, its
own reflector, its connection's cleanup and `Server.Stop`, all at once. In the
client the methods of `Client` hold one mutex; senders and receivers of a
test session run concurrently with `Start` and `Stop`.

What is hard here:

* four kinds of goroutine race to stop one session and to return its port
  exactly once, and a session that has stopped by itself can be started again;
* Stop-Sessions detaches sessions from their connection and leaves them to a
  timer, while the connection may close at any time;
* SIDs are checked and stored under different locks;
* `Server.Stop` works on copies of maps that go on changing, then waits for
  everybody;
* timeouts decide what happens to silent, misbehaving or slow peers;
* both sides of a control connection keep their own list of sessions, and the
  server closes the connection if a count differs;
* test packets are lost, reordered and duplicated, and replies can overtake the
  bookkeeping of the sender;
* sizes are limited in several places (the client's minimum padding, the
  server's maximum, the parser of the request, the pooled buffers), and twelve
  test modes choose layouts, coverage and reply sizes on each side separately;
* 16- and 32-bit arithmetic at its limits, the end of an NTP era among them.

The full list, at the lines where it bites, is `hazards` in `PROJECT.json`.

## 2. Modules and how they correspond to the code

**TwampServer.** A step is what a goroutine does between two points where
another can see or change what it uses (a mutex section, an atomic operation, a
socket or channel operation). `pc[c]` is where the handler of connection `c` is;
`frame[f]` is the `stopSession` call a goroutine is in, which advances in four
steps: the compare-and-swap (`BeginStop`), stop channel and socket
(`CloseSession`), the map (`Unregister`), the port (`ReleasePort`). `starts`,
`conn` and `chan` number the activations of a session, so that sockets and stop
channels of two activations are told apart; `view` is what a reflector copied
under `session.mu`. `released` and `overwritten` are history. Message contents
and security are left out: a request is served or refused. Time is left out: a
running deadline may expire at any moment.

**SessionLife.** The abstract specification of one session's port and socket:
reserved, live, ending, released, in this order, the socket closed before the
port is free. `TwampServer!Life` instantiates it: the stage of a session is read
off `port`, `released`, `starts` and the `stopSession` frames (`Stage`), so that
`BeginStop` of whichever goroutine wins is the abstract `End` and `ReleasePort`
is `Release`; every other step of the four kinds of goroutine must be a stutter.
Once a session has been started a second time (`again`) nothing more is promised.

**PortManager.** `allocatePort` with one step per probed port, on unsigned ports
of `Width` values, while other processes bind and free ports.

**Reflector.** The loop of `reflectPackets` in time. Clock values appear as ages
that stop counting above everything they are compared with.

**TestTraffic.** The client's test session with concurrent senders and
receivers, a network that loses, reorders and duplicates, and the reflector's
answers. `SendTestPacket` takes three steps (number, store, write) and a
receiver four (head of the loop, read, store, count). A `WriteTo` on the nil
left by `Stop` ends the client (`crashed`).

**Control.** Both ends of a control connection, set-up included. A mode is the
set of its bits. A message of a secure connection verifies if both sides have
the same secret; the server's first reply also covers Server-Start. Requests,
starts and stops carry what the two lists of sessions depend on. Two errors are
left out because they cannot happen: `NewTestSession` fails only on keys of a
wrong length, and `session.Stop` only if closing a UDP socket fails.

**Timestamps.** The conversions and the arithmetic of `common/timestamp.go` as
operators, with the lengths of an era, a second and a fraction as parameters.
The code multiplies by a `float64` factor and truncates; the operators divide
and round down, which gives the same result for every nanosecond and every
fraction the code converts.

**Packets.** One test session as octets. The request carries padding and timeout
from client to server, which hangs up (the parser's limit), refuses
(`maxSenderPadding`) or accepts. A packet type is a pair of layouts, one from
its `Marshal` and one from its `Unmarshal`: the offset of each field, the length
of the header, the octets that must be zero, the filling of the padding. A
packet keeps the offsets it was written with, and reading a field takes what is
written at the reader's offset, so a disagreement of two layouts shows in what is
read. Of the HMAC and the encryption the packet keeps how much they cover; a
receiver accepts only what it would have covered itself. `Get` is the pooled
buffer: a packet longer than it is a panic (`crashed`). `now` is the client's
clock and `now + skew` the server's; both may pass the end of the era between any
two steps, and between the client's three readings of its clock for one reply (the
time of arrival and one in each `ToTime`). Others send packets of any size to the
reflector's port as well.

An operator whose name ends in `_Faulty` is the definition after it with one
plausible mistake (a dropped guard, a missing reset, an off-by-one). No
specification uses it: it is there to confirm, one at a time, that the property
named with it in `mutants` notices the mistake.

## 3. Runs

Passing runs:

| Run | Instance | Distinct states | What it checks |
|---|---|---|---|
| `server_safety` | 2 connections, 2 sessions, 2 SIDs, 2 ports, each session started once, symmetric | 1,038,998 | ports and sockets accounted for, active sessions registered, served and stoppable, the grace period after Stop-Sessions, quiet after `Server.Stop`; `TwampServer` implements `SessionLife` |
| `server_live` | 1 of each, a session may be started twice, fairness | 14,677 | a stop channel is closed once; stopped sessions release their port, cleanup ends, `Stop` returns unless a client that connected meanwhile stays silent |
| `ports` | a port space of 5, every range, every binding of other processes | 81,067 | range, first fit, termination (at the top of the port space, if some port stays free) |
| `reflector` | read timeout 2, REFWAIT 5, window 3, limits 1, 2 and the default 3 | 1,777 | a session ends in time without valid packets, unless others keep coming; the HMAC failure policy |
| `test_traffic` | 2 senders, 2 receivers, 2 packets, 1 duplicate, 2 starts, fairness | 327,496 | sequence numbers, results and counters, `Stop` |
| `control` | every pair of mode masks, three secrets, KeyID known or not, 2 SIDs, 2 commands in flight, fairness | 709,996 | modes, HMAC prefix, session lists, what `Close` leaves, keys, methods return |
| `packets` | all 12 test modes, 8 paddings and 6 foreign sizes around every limit, timeouts with and without a fraction, clocks that agree or differ, an era of 8 seconds that ends during the run | 501,848 | accepted sessions are served, size and padding of replies, measured times, the timeout, timestamp arithmetic |

Why these bounds are enough for the questions asked. The races in the server
are between two goroutines about one session or between two sessions about one
SID or one port; two of each make them all happen, and the theorems (below)
remove the bound. Restarts need a second activation and are in `server_live`
(`MaxStarts = 2`) and `server_panic`. In `PortManager` the behaviour depends on
whether the range ends below the top of the port space, has holes, or is full;
all of that happens with five ports, and the theorems hold for every `Width`. In
`Reflector` the constants are pairwise different and larger than one tick. Two
senders and two receivers give every interleaving of two critical sections; one
duplicated packet is enough to separate "replies" from "packets answered". Two
commands in flight are what a client that does not wait for an answer to a stop
can have before a request, which it does wait for. In `control`, `Extensions` is
empty: the mixed-security bit is negotiated by the same expression as the bits
of RFC 6038. In `packets` the sizes are the real ones (14, 41, 48, 112, 2048) and
the paddings lie on both sides of each limit they lead to: the minimum paddings,
a reply of exactly 112 octets, a reflected packet that just fits or just exceeds
the buffer, the largest padding accepted, refused and parsed. Time is small
(5 nanoseconds to a second, 16 units to a fraction, 8 seconds to an era) because
the arithmetic only depends on the fraction being finer than a nanosecond, as
the theorems of `PacketsProofs` show; the
clock runs from before the last second of the era into the next one, and with
the skew the server is there first.

Runs that show a disagreement between the code and what it says (each with its
quotation under `findings`):

| Run | Property | What happens |
|---|---|---|
| `server_panic` | `NoPanic` | A session that stopped by itself (REFWAIT, HMAC failures) is still in `cc.sessions`; Start-Sessions starts it again and its second reflector closes `reflectorDone` a second time. |
| `server_port_leak` | `PortsReclaimed` | A session that was accepted and never started keeps its port: `stopSession` returns early when `isActive` is false. |
| `server_sid_race` | `SIDCheckHolds` | Two connections that request one SID both pass the check, and the second replaces the first in `Server.sessions`. |
| `ports_top` | `AllPortsInRange` | With `maxPort` 65535 the `uint16` loop variable wraps, and ports below the range are given out. |
| `packets_overflow` | `BuffersSuffice` | A reflect-octets reply is 27 octets (64 in the secure modes) longer than the packet; the largest padding that the server accepts makes it longer than the pooled buffer, and the reflector panics. |

Conditions in the properties. `NoRestart` (no session was started twice) and
`~overwritten` (no SID was replaced) limit what the server properties say to the
states before those disagreements: after a restart a session runs on a port it
has given back. `~TopOfRange` does the same for `RangeKept`. `strayed` in `Control`
marks the use of `Client.StopSession`, which by its own comment tells the server
nothing; after it the two lists differ and a Stop-Sessions makes the server close
the connection. `PacketsServed` excepts the reflect-octets replies of
`packets_overflow`. `ReplyShape` has secure symmetrical replies no shorter than 112
octets: the client's minimum padding of 56 gives packets of 104.

More disagreements. In these the passing property states what does hold, exactly
as far as it holds, and says nothing of the rest; TLC gives a short counterexample
to each as soon as the exception is taken out of the property.

* `Server.Stop` may never return. A connection that was accepted before the
  listener closed, and registers after `Stop` has closed the registered ones, is
  closed by nobody and reads the Set-Up-Response without a deadline
  (`server/server.go:482`), although `Stop` says "Close all connections" (`:2123`)
  and a test has "Server did not shut down in time"
  (`client/integration_rfc5938_test.go:113`). `StopWaitsOnlyForSetup`: this
  situation (`LateSetup`) lasting for ever is the only thing that keeps `Stop` from
  returning.
* With `maxPort` 65535 `allocatePort` does not return ErrNoAvailablePorts ("returned
  when all ports in the configured range are in use", `server/server.go:30`): it
  goes round with the mutex held. `AllocateEnds`: it returns nevertheless if any
  port of the whole space stays free, and below 65535 always.
* Invalid packets keep a session alive. REFWAIT is looked at only after a read that
  timed out, so any packets that come more often than the read timeout do
  (`server/server.go:1361`; the comments at 1384 and 1454 want "to prevent attackers
  from keeping sessions alive"). `QuietSessionEnds`: beyond REFWAIT and one read
  timeout it takes a packet in every read timeout.
* `PacketsLost` wraps. Every copy of a reply is counted, so after a duplicate
  `totalSent - totalReceived` can pass below zero to almost 2^32
  (`client/test_session.go:587`), while tests read it as lost "out of" those sent
  (`test/integration/twamp_integration_test.go:302`). `LossReported` is about a
  network that does not duplicate (`dups = 0`); `CountsAgree` bounds what duplicates
  add.
* `Client.Close` may leave test sessions running. `stopSessionsWith` returns when
  Stop-Sessions cannot be written, before any test session is stopped
  (`client/client.go:660`), and `Close` ignores that, although it "closes the control
  connection and all test sessions" (`:1016`). `SessionsAgree`: this happens only if
  the server has hung up, and what runs on is still in the client's list.
* With reflect-octets and symmetrical size together the reply is longer than the
  packet, by 27 octets (64 in the secure modes): 341 to a packet of 314. The
  reflected padding is as long as the sender's, so the condition of the code for
  both modes (`server/server.go:1602-1610`, `1719-1727`) is never true, and it could
  only lengthen the reply. `test/integration/rfc6038_test.go:370` says of this mode
  "should be reflected with same size", and RFC 6038 the same
  (`rfcs/rfc6038.txt:877-879`). `ReplyShape` says nothing of the size in this mode;
  it has the size in each of the two alone.
* Times are off by an era when a packet crosses its end. `ToTimeWithReference` takes
  the era of the reference (`common/timestamp.go:97`), so a time stamped before the
  end and read after it is 136 years off, although the two are much closer than the
  68 years that `:83-84` asks for. `MeasuredTimes` promises `ReflectorRxTime` and
  `ReflectorTxTime` only if the server's clock was in the era in which the client
  reads the reply, and the latency, which needs no era, always.

## 4. Fairness

* `TwampServer!Fairness`: the Go scheduler runs every goroutine that can run,
  and deadlines and timers expire (SERVWAIT, the accept deadline, the read
  deadline of a reflector, the one-second wait of the cleanup, `AfterFunc`).
  Nothing is assumed of clients, of test traffic, or of the caller of `Stop`. The
  Set-Up-Response is read without a deadline, so a greeted client may leave its
  handler there for ever, and `Stop` with it.
  `CleanupEnds` and `StoppedSessionReleased` hold all the same.
* `PortManager`: the goroutine inside `allocatePort` goes on.
* `TestTraffic`: receivers run and their reads time out; `Stop` goes on. Nothing
  is assumed of senders or the network.
* `Control`: both sides read what has arrived. Nothing is assumed of who calls
  the client's methods or that the server ever hangs up by itself.

## 5. Proofs

All proofs are checked by TLAPS. They remove the bounds of the runs: the
theorems hold for any number of connections, sessions, SIDs, ports, restarts,
senders, receivers, packets, duplicates and commands in flight, and for all
sizes, timeouts, clocks and field widths. Every invariant that a passing run
checks is proved. The assumptions are the `ASSUME`s of the modules, which TLC
evaluates in the runs. Those of most modules say no more than that bounds are
natural numbers, that sets are finite where they are counted, that `None` is none
of the others, and (ports) that the default range is a range. `TrafficAssumption`
limits a test session to fewer packets and copies than its `uint32` counters can
count. `ClockAssumption`
of `Packets` says what an NTP timestamp can express: clocks stay within the two
eras that `ToTimeWithReference` knows, a session lasts less than half an era
(68 years), and a timeout less than one.

| Theorem | Property | Argument |
|---|---|---|
| `TwampServerProofs!TypeCorrect` | `TypeOK` | `TypeOK` is not inductive: a handler in the middle of a request or a start must have a session in hand, and a goroutine in `stopSession` must have one as well (`Shape`). |
| `TwampServerPortProofs!PortAccounting` | `PortsAccounted` | `IInv`: a session in the making belongs to one handler and nobody else; nothing happens to a session before its socket is bound; until a restart a session is in one of the stages starting, active, stopping, released, with at most one goroutine in `stopSession` for it. |
| `TwampServerPortProofs!SocketsOnHeldPorts` | `SocketsReserved` | From the same invariant: the socket is open only in the first three stages, and the port is held in all of them. |
| `TwampServerLifeProofs!GracePeriodKept` | `GraceKept` | `OwnOK`: a session is listed by one connection, or by none and then perhaps by a timer. |
| `TwampServerLifeProofs!StopChannelsClosedOnce` | `StopChanClosedOnce` | `ChanOK`: a closed channel belongs to an activation that has begun and is no longer the session's channel. It holds with restarts, because the channel is taken from the session in the step that closes it. |
| `TwampServerLifeProofs!ActiveSessionsServed` | `ActiveIsServed` | `ServedOK`: until a restart whoever has an open socket is active, about to be, or about to have it closed. |
| `TwampServerLifeProofs!ActiveSessionsRegistered`, `ActiveSessionsStoppable` | `ActiveRegistered`, `ActiveHasStopper` | `ListedOK`: the map has what was stored and not removed; an active session has not been removed, as only the `stopSession` that deactivated it does that. |
| `TwampServerLifeProofs!NothingRunsAfterStop` | `StoppedIsQuiet` | `RunsOK` and `ConnOK`: there is a reflector for every activation that has begun and a handler for every registered connection, so the wait for them covers everything. With restarts it holds for a reason of its own: `Stop` cannot have waited for two reflectors of a session, because the second to return would have closed `reflectorDone` again and ended the program. |
| `TwampServerLifeProofs!ServerImplementsSessionLife` | `ImplementsSessionLife` | The initial state maps to an initial state (`LifeInit`); the steps of the winner of `BeginStop`, of `CloseSession` and of `ReleasePort` map to `End`, closing and `Release` of that session (`LifeEnds`, `LifeClosesSocket`, `LifeWithdraws`), those of the handler to the first stages, all others to stutters (`LifeStutter`, `LifeStep`). `LInv` gives that no second frame is about the session. |
| `PortManagerProofs!PortTypes`, `PortsWithinRange`, `AllocateFirstFit` | `TypeOK`, `RangeKept`, `FirstFit` | No end of the range is 0, as 0 stands for the default. The loop variable is at most one beyond the range, and every port that has been free since the scan began is still ahead of it. |
| `ReflectorProofs!ReflectorTypes`, `SilenceIsNoticed`, `HMACPolicyHolds` | `TypeOK`, `QuietSessionEnds`, `HMACPolicy` | The threshold is never 0, and the session is banned when the counter reaches it. Either the current read began with the last packet, or a read timed out since and found the session within REFWAIT; the counted failures lie within one window of each other. |
| `TestTrafficProofs!TrafficTypes`, `SequenceNumbersUnique`, `RepliesFindTheirPacket` | `TypeOK`, `SeqOnce`, `RepliesKnown` | `NumbersOK`: a number belongs to one sender from the moment it is drawn, and its result is stored before it is written; `OriginOK`: whatever is in the network was written. |
| `TestTrafficProofs!ReceivedCountRight`, `LossCountRight` | `CountsAgree`, `LossReported` | `CopiesOK`, a conservation law: the copies of packets and replies in the network, in the hands of receivers and counted are at most one per sequence number and one per duplicate. `CountsAgree` says nothing of what is still in the network, so it is not inductive. |
| `TestTrafficProofs!StoppedSessionQuiet` | `StopQuiesces` | `SocketOK`: the open socket is the session's or the one that `Stop` has taken from it. |
| `ControlProofs!ControlTypes`, `ConnectionsAgreeOnModes` | `TypeOK`, `ModesAgree` | `QueueOK`: a command that is answered is the last one on its way, as the client waits for one reply at a time; `ModesOK`: what either side has resolved is what the client selected from the server's greeting. |
| `ControlProofs!RepliesVerifiable`, `SessionsNeedKeys` | `RepliesVerify`, `KeysNeeded` | `PendingOK`: the two flags `serverStartHMACPending` are equal while no reply is on its way, and a reply on its way was made with the client's. |
| `ControlProofs!SessionListsAgree`, `StopNumbersMatch` | `SessionsAgree`, `StopMatches` | `NumbersOK`: a Stop-Sessions on its way has the number of the sessions that the commands before it will leave (`LeftAfter`). `StopMatches` looks only at the first command, so it needs this of all. |
| `PacketsProofs!AcceptedSessionsServed`, `RepliesShaped` | `PacketsServed`, `ReplyShape` | `PInv` has the types (`TypeOK` of `Packets` holds by the widths of Go's fields, so it is a part of the proof only) and follows the packet: an accepted padding leaves room for the header (`PaddingFits`), the packet is as its sender made it (`PacketOK`), a packet that the reflector accepts is the client's or unprotected (`ReceivedOK`), and the reply has the layout the client parses and the sender's fields in it (`ReplyBuilt`, `ReplyOK`). |
| `PacketsProofs!TimesMeasured`, `TimeoutsCarried`, `StampsAgree` | `MeasuredTimes`, `TimeoutCarried`, `StampArithmetic` | Lemmas about `Timestamps`: a fraction that is less than a unit off `k` nanoseconds becomes `k` or `k - 1` (`NanoOfFrac`), which needs only that a fraction is finer than a nanosecond; seconds less than half an era apart are told apart in both directions (`SecondsApart`), and the carry of `Add` never makes half an era (`AddParts`). All rest on the uniqueness of a quotient (`DivUnique`). |

The invariants `IInv`, `LInv`, `TInv`, `CInv` and `PInv` were checked as
invariants of the corresponding runs before they were proved.

Only model-checked: the liveness properties (`StoppedSessionReleased`,
`CleanupEnds`, `StopWaitsOnlyForSetup`, `AllocateEnds`, `StopEnds`, `MethodsReturn`),
since liveness under fairness is out of the prover's reach, and the
counterexamples of the runs that show a violation.

## 6. Not modelled

* Byte layouts of control messages beyond the padding and timeout of a request
  (Control has what they say), the KeyID field, and the bits of an error estimate:
  straight-line encoding without state. `Equal`, and `Add` and `Sub` of a negative
  duration, which nothing in the program calls.
* The averages of `GetResults` beyond the counts (two hazards of theirs are
  listed): computed in one go from the stored results, and read by nobody.
* Cryptography: whether something verifies depends on keys and coverage, not on a
  computation.
* Addresses, DSCP, TTL, the allow list of receivers: they decide whether a
  request is refused, which is a choice in the models.
* Metrics, logging, the command-line examples and test utilities: nothing in the
  protocol reads their state.
* Calls that the code does not provide for: a second `Server.Stop`,
  concurrent `Client.Close`.

## 7. Plan

Done: `TwampServer` (the core: what every other part depends on), `PortManager`,
`Reflector`, `TestTraffic`, `Control`, `SessionLife`, `Timestamps`, `Packets`, in
this order, with the proofs above.

Next, in order:

1. That the disagreements of section 3 have no other cause, as theorems: no
   panic unless a session is started a second time, and a port that is never
   returned only if its session was never started.
2. Action properties from the invariants at hand: a port is given back only by
   the `stopSession` that ended its session, `totalReceived` and the results only
   grow.
3. `Control`: `isUnauthReceiverAllowed` and the other reasons for a refusal as
   guards.
