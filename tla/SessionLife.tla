----------------------------- MODULE SessionLife -----------------------------
(***************************************************************************)
(* What the server promises about the life of a test session, whoever ends *)
(* it and however many goroutines try to: it reserves a port that no other *)
(* session has, keeps it while it may have a socket, is ended once, closes *)
(* its socket, and only then gives the port back, once.                    *)
(*                                                                         *)
(* TwampServer implements this specification until a session is started a  *)
(* second time (again): a session that has given its port back is then     *)
(* reflecting on it, and nothing is promised any more.                     *)
(***************************************************************************)
CONSTANTS Sessions, Ports, None

VARIABLES
    stage,    \* how far each session is
    port,     \* the port it was given
    used,     \* ports that are not to be given out
    sockets,  \* sessions with an open UDP socket
    again     \* a session was started a second time

vars == <<stage, port, used, sockets, again>>

Stages == {"free", "reserved", "live", "ending", "released"}

(* The types of the abstract state.                                        *)
TypeOK ==
    /\ stage \in [Sessions -> Stages]
    /\ port \in [Sessions -> Ports \cup {None}]
    /\ used \subseteq Ports
    /\ sockets \subseteq Sessions
    /\ again \in BOOLEAN

Init ==
    /\ stage = [s \in Sessions |-> "free"]
    /\ port = [s \in Sessions |-> None]
    /\ used = {} /\ sockets = {}
    /\ again = FALSE

Moves(s, from, to) == stage[s] = from /\ stage' = [stage EXCEPT ![s] = to]

(* A request was given a port.                                             *)
Reserve(s, p) ==
    /\ p \notin used
    /\ used' = used \cup {p}
    /\ port' = [port EXCEPT ![s] = p]
    /\ UNCHANGED <<sockets, again>>
    /\ Moves(s, "free", "reserved")

(* It was refused after all.                                               *)
Withdraw(s) ==
    /\ port[s] \in used
    /\ used' = used \ {port[s]}
    /\ port' = [port EXCEPT ![s] = None]
    /\ UNCHANGED <<sockets, again>>
    /\ Moves(s, "reserved", "free")

Begin(s) ==
    /\ s \notin sockets
    /\ sockets' = sockets \cup {s}
    /\ UNCHANGED <<port, used, again>>
    /\ Moves(s, "reserved", "live")

(* One of those who try to stop it succeeds.                               *)
End(s) ==
    /\ UNCHANGED <<port, used, sockets, again>>
    /\ Moves(s, "live", "ending")

CloseSocket(s) ==
    /\ s \in sockets
    /\ sockets' = sockets \ {s}
    /\ UNCHANGED <<stage, port, used, again>>
    /\ stage[s] = "ending"

Release(s) ==
    /\ port[s] \in used
    /\ used' = used \ {port[s]}
    /\ s \notin sockets
    /\ UNCHANGED <<port, sockets, again>>
    /\ Moves(s, "ending", "released")

(* From here on anything may happen.                                       *)
StartAgain == again'

Next ==
    \/ \E s \in Sessions, p \in Ports : Reserve(s, p)
    \/ \E s \in Sessions : Withdraw(s) \/ Begin(s) \/ End(s) \/ CloseSocket(s) \/ Release(s)
    \/ StartAgain

Spec == Init /\ [][Next]_vars

-----------------------------------------------------------------------------

Reserved(s) == stage[s] \in {"reserved", "live", "ending"}

(* No two sessions that have not released their port share it, and the     *)
(* ports that are not given out are exactly theirs.                        *)
PortsExclusive ==
    ~again =>
        /\ used = {port[s] : s \in {t \in Sessions : Reserved(t)}}
        /\ \A s, t \in Sessions : Reserved(s) /\ Reserved(t) /\ port[s] = port[t] => s = t
====
