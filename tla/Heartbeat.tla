------------------------------ MODULE Heartbeat ------------------------------
(***************************************************************************)
(* The two HeartbeatManagers of a connection, in time.                     *)
(*                                                                         *)
(* Each end counts from the making of its manager, which is before the     *)
(* handshake, and then from its last pong.  Pings and pongs share the      *)
(* stream with the requests, and the server's queue too: while a service   *)
(* is awaited the server handles none of them.  The answer to a request    *)
(* carries the request's timestamp, which the client's replay guard        *)
(* compares with the clock when the answer arrives.                        *)
(*                                                                         *)
(* Time is the step Elapse, and what is due comes before it.  Ages are     *)
(* kept instead of a clock, so that a run may go on for ever.  The two     *)
(* clocks agree.  Of the handshake only its length is left, of a close     *)
(* only that the other end learns of it: both are PQCChannel's.            *)
(***************************************************************************)
EXTENDS Naturals, Sequences

CONSTANTS
    Interval,        \* heartbeatIntervalMs
    Skew,            \* maxClockSkewMs
    MaxSetup,        \* from new PQCClientService() to the server's end of the handshake
    MaxDelay,        \* a frame's way through the network
    MaxService,      \* a service's time, with the chaos jitter
    MaxOutstanding   \* requests of the application that are not yet answered

ASSUME TimingAssumption ==
    /\ Interval \in Nat \ {0}
    /\ Skew \in Nat /\ MaxSetup \in Nat /\ MaxDelay \in Nat
    /\ MaxService \in Nat /\ MaxOutstanding \in Nat

\* The first ping leaves one interval after the handshake, and its pong must be here
\* before three intervals since the manager was made are over.
ASSUME TimelyAssumption ==
    /\ MaxSetup + 3 * MaxDelay + MaxOutstanding * MaxService <= 2 * Interval
    /\ 2 * MaxDelay + MaxOutstanding * MaxService <= Skew

VARIABLES
    phase,        \* of each end
    silence,      \* since its lastPongAt
    untilTick,    \* until its interval fires
    wire,         \* what each end has written and the other has not handled
    service,      \* the requests whose service is awaited: none or one
    outstanding   \* requests sent and not answered

linkVars == <<phase, silence, untilTick, wire, service, outstanding>>

Ends == {"client", "server"}
Peer(e) == IF e = "client" THEN "server" ELSE "client"

Over == {"dead", "ended", "closed", "gone"}
    \* dead: it has presumed the other dead; ended: by disconnect; closed: told by
    \* the other end; gone: its machine has stopped

\* Ages of a frame: since it was written, and since its timestamp.
Frame(kind, stamp) == [kind |-> kind, sent |-> 0, stamp |-> stamp]

Threshold == 3 * Interval    \* deadThresholdMs
DeadInTwo(e) == silence[e] > 2 * Interval                    \* faulty: one less
Dead(e) == silence[e] > Threshold

LinkInit ==
    /\ phase = [e \in Ends |-> "setup"]
    /\ silence = [e \in Ends |-> 0] /\ untilTick = [e \in Ends |-> Interval]
    /\ wire = [e \in Ends |-> <<>>]
    /\ service = {} /\ outstanding = 0

-----------------------------------------------------------------------------
(***************************************************************************)
(* The interval of an end                                                  *)
(***************************************************************************)
Ping(e) ==
    /\ phase[e] = "up" /\ untilTick[e] = 0 /\ ~Dead(e)
    /\ untilTick' = [untilTick EXCEPT ![e] = Interval]
    /\ wire' = [wire EXCEPT ![e] = Append(@, Frame("ping", 0))]
    /\ UNCHANGED <<phase, silence, service, outstanding>>

\* failHandshake, fail, disconnect: the heartbeat stops and the socket ends.
Leaves(e, how) ==
    /\ phase' = [phase EXCEPT ![e] = how]
    /\ UNCHANGED <<silence, untilTick, wire, service, outstanding>>

PresumeDead(e) == phase[e] = "up" /\ untilTick[e] = 0 /\ Dead(e) /\ Leaves(e, "dead")

-----------------------------------------------------------------------------
(***************************************************************************)
(* Frames                                                                  *)
(***************************************************************************)
\* handshakeComplete on the server, whose last message tells the client.
Establish ==
    /\ phase["server"] = "setup" /\ phase["client"] = "setup"
    /\ phase' = [phase EXCEPT !["server"] = "up"]
    /\ wire' = [wire EXCEPT !["server"] = <<Frame("server_auth_response", 0)>>]
    /\ UNCHANGED <<silence, untilTick, service, outstanding>>

Written(e, frames) == [wire EXCEPT ![Peer(e)] = Tail(@), ![e] = @ \o frames]

\* An end's next frame; the server handles none before its service has answered.
NextIs(e, kind) ==
    /\ wire[Peer(e)] # <<>> /\ Head(wire[Peer(e)]).kind = kind
    /\ e = "server" => service = {}

Completes ==
    /\ phase["client"] = "setup" /\ NextIs("client", "server_auth_response")
    /\ phase' = [phase EXCEPT !["client"] = "up"]
    /\ wire' = Written("client", <<>>)
    /\ UNCHANGED <<silence, untilTick, service, outstanding>>

HandlePing(e) ==
    /\ phase[e] = "up" /\ NextIs(e, "ping")
    /\ wire' = Written(e, <<Frame("pong", 0)>>)
    /\ UNCHANGED <<phase, silence, untilTick, service, outstanding>>

HandlePong(e) ==
    /\ phase[e] = "up" /\ NextIs(e, "pong")
    /\ silence' = [silence EXCEPT ![e] = 0]
    /\ wire' = Written(e, <<>>)
    /\ UNCHANGED <<phase, untilTick, service, outstanding>>

Request ==
    /\ phase["client"] = "up" /\ outstanding < MaxOutstanding
    /\ outstanding' = outstanding + 1
    /\ wire' = [wire EXCEPT !["client"] = Append(@, Frame("request", 0))]
    /\ UNCHANGED <<phase, silence, untilTick, service>>

HandleRequest ==
    /\ phase["server"] = "up" /\ NextIs("server", "request")
    /\ service' = {[elapsed |-> 0, stamp |-> Head(wire["client"]).stamp]}
    /\ wire' = Written("server", <<>>)
    /\ UNCHANGED <<phase, silence, untilTick, outstanding>>

\* The service has answered.
Respond ==
    /\ phase["server"] = "up"
    /\ \E request \in service :
          wire' = [wire EXCEPT !["server"] = Append(@, Frame("answer", request.stamp))]
    /\ service' = {}
    /\ UNCHANGED <<phase, silence, untilTick, outstanding>>

HandleAnswer ==
    /\ phase["client"] = "up" /\ NextIs("client", "answer")
    /\ outstanding' = outstanding - 1
    /\ wire' = Written("client", <<>>)
    /\ UNCHANGED <<phase, silence, untilTick, service>>

-----------------------------------------------------------------------------
(***************************************************************************)
(* The end of a connection, and time                                       *)
(***************************************************************************)
\* The other end has sent its FIN.
Told(e) == phase[e] = "up" /\ phase[Peer(e)] \in Over \ {"gone"}

\* 'close', then, or when an end that has left hears back or is given up.
Closes(e) ==
    /\ Told(e) \/ phase[e] \in {"dead", "ended"}
    /\ Leaves(e, "closed")

\* The server's machine stops, or is cut off, without a FIN.
Vanishes == phase["server"] \in {"setup", "up"} /\ Leaves("server", "gone")

\* What cannot wait any longer.
Due ==
    \/ \E e \in Ends : Told(e) \/ (phase[e] = "up" /\ untilTick[e] = 0)
    \/ \E e \in Ends :
         /\ phase[e] \in {"setup", "up"} /\ (e = "server" => service = {})
         /\ wire[Peer(e)] # <<>> /\ Head(wire[Peer(e)]).sent >= MaxDelay
    \/ phase["server"] = "up" /\ \E request \in service : request.elapsed >= MaxService
    \/ \A e \in Ends : phase[e] = "setup" /\ silence[e] >= MaxSetup

AtMost(limit, n) == IF n < limit THEN n ELSE limit
Older(frames) ==
    [i \in 1..Len(frames) |-> [frames[i] EXCEPT !.sent = AtMost(MaxDelay, @ + 1),
                                                !.stamp = AtMost(Skew + 1, @ + 1)]]

Elapse ==
    /\ ~Due /\ phase["client"] \in {"setup", "up"}
    /\ silence' = [e \in Ends |-> AtMost(Threshold + Interval + 1, silence[e] + 1)]
    /\ untilTick' = [e \in Ends |-> untilTick[e] - IF phase[e] = "up" THEN 1 ELSE 0]
    /\ wire' = [e \in Ends |-> Older(wire[e])]
    /\ service' = {[elapsed |-> AtMost(MaxService, r.elapsed + 1),
                    stamp |-> AtMost(Skew + 1, r.stamp + 1)] : r \in service}
    /\ UNCHANGED <<phase, outstanding>>

\* The steps that are nobody's but the connection's.
LinkSteps ==
    \/ Establish \/ HandleRequest \/ Respond \/ HandleAnswer \/ Vanishes \/ Elapse
    \/ \E e \in Ends : \/ Ping(e) \/ PresumeDead(e) \/ HandlePing(e)
                       \/ HandlePong(e) \/ Closes(e)

-----------------------------------------------------------------------------
\* The heartbeats tell a dead peer from a slow one.  Under TimelyAssumption no end is
\* declared dead while it is up, and nothing an end has yet to handle is too old for
\* its replay guard, although pings and pongs wait behind requests and an answer
\* carries its request's timestamp.  A peer that vanishes without a FIN is noticed
\* within four intervals.
VerdictsAreTrue ==
    \A e \in Ends :
        /\ phase[e] = "dead" => phase[Peer(e)] \notin {"setup", "up"}
        /\ phase[e] = "up" =>
              /\ silence[e] <= Threshold + Interval
              /\ \A i \in 1..Len(wire[Peer(e)]) : wire[Peer(e)][i].stamp <= Skew
=============================================================================
