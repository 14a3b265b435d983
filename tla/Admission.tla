------------------------------- MODULE Admission -------------------------------
(***************************************************************************)
(* Admission of connections: acceptConnection, the local RateLimiter, the  *)
(* Redis counters it may have to wait for, the slots a PQCConnection gives *)
(* back, and GracefulShutdown.                                             *)
(*                                                                         *)
(* acceptConnection checks the organism, the shutdown flag and the local   *)
(* limits, and awaits the distributed limiter twice.  With Redis the event *)
(* loop turns meanwhile: the socket may close or fail with no handler of   *)
(* the service bound to it, the organism may enter lockdown, the server may *)
(* shut down.  Without Redis both awaits resolve before the next event.    *)
(*                                                                         *)
(* All connections come from one address.  What a connection does between  *)
(* its admission and its end is PQCChannel's.                              *)
(***************************************************************************)
EXTENDS Integers, Sequences, FiniteSets

CONSTANTS
    MaxConns,        \* connections that arrive, in all
    MaxConnections,  \* config.maxConnections, of both limiters
    MaxHandshakes,   \* config.maxHandshakesPerMinute, of both limiters
    Window,          \* the 60 s of both limiters
    MaxTime,         \* the clock stops here
    MaxOthers        \* increments by other instances

ASSUME LimitsAssumption ==
    /\ MaxConns \in Nat /\ MaxConnections \in Nat /\ MaxHandshakes \in Nat \ {0}
    /\ Window \in Nat \ {0} /\ MaxTime \in Nat /\ MaxOthers \in Nat

Conns == 1..MaxConns    \* in the order in which they arrive

VARIABLES
    awaits,          \* the distributed limiter is Redis
    up,              \* the process runs
    now,
    vital,           \* the organism's isVital()
    \* RateLimiter
    activeConnections, activeHandshakes, handshakeTimestamps,
    \* Redis: ratelimit:conn and ratelimit:handshake, for each window
    counts, others,
    \* each connection
    stage, slot, socket, connectionReleased, handshakeSlotReleased,
    \* GracefulShutdown
    shutdown, polling, activeSockets,
    \* history
    granted,         \* when each handshake was granted
    closedEarly      \* closed before the service bound a handler to them

limiterVars == <<activeConnections, activeHandshakes, handshakeTimestamps, granted>>
redisVars == <<counts, others>>
connVars == <<stage, slot, socket, connectionReleased, handshakeSlotReleased>>
shutdownVars == <<shutdown, polling, activeSockets>>
envVars == <<awaits, up, now, vital>>
vars == <<envVars, limiterVars, redisVars, connVars, shutdownVars, closedEarly>>

Asking == {"askConnection", "askHandshake"}
Windows == {t \div Window : t \in 0..MaxTime}
NoWindow == -1

Init ==
    /\ awaits \in BOOLEAN /\ up = TRUE /\ now = 0 /\ vital = TRUE
    /\ activeConnections = 0 /\ activeHandshakes = 0 /\ handshakeTimestamps = <<>>
    /\ counts = [type \in Asking |-> [w \in Windows |-> 0]] /\ others = 0
    /\ stage = [i \in Conns |-> "none"]
    /\ slot = [i \in Conns |-> NoWindow]
    /\ socket = [i \in Conns |-> "none"]
    /\ connectionReleased = [i \in Conns |-> FALSE]
    /\ handshakeSlotReleased = [i \in Conns |-> FALSE]
    /\ shutdown = "running" /\ polling = FALSE /\ activeSockets = {}
    /\ granted = <<>> /\ closedEarly = {}

\* The event loop takes its next event: the process runs, and no accept that
\* waits for promises already resolved is left half done.
Turn == up /\ (awaits \/ \A i \in Conns : stage[i] \notin Asking)

-----------------------------------------------------------------------------
(***************************************************************************)
(* RateLimiter                                                             *)
(***************************************************************************)
ConnectionFree == activeConnections < MaxConnections

\* Math.max(0, n - 1)
Less(n) == IF n = 0 THEN 0 ELSE n - 1

\* The filter t >= windowStart; timestamps are pushed in order, so what is older
\* is a prefix.
StaleInclusive == {k \in DOMAIN handshakeTimestamps : handshakeTimestamps[k] <= now - Window}
                                                             \* faulty: >, not >=
Stale == {k \in DOMAIN handshakeTimestamps : handshakeTimestamps[k] < now - Window}
Recent == SubSeq(handshakeTimestamps, Cardinality(Stale) + 1, Len(handshakeTimestamps))

\* tryAcquireHandshake
HandshakeFree == Len(Recent) < MaxHandshakes
AcquireHandshake ==
    /\ handshakeTimestamps' = Append(Recent, now)
    /\ granted' = Append(granted, now)
    /\ activeHandshakes' = activeHandshakes + 1

-----------------------------------------------------------------------------
(***************************************************************************)
(* acceptConnection                                                        *)
(***************************************************************************)
Refuse(i) ==
    /\ stage' = [stage EXCEPT ![i] = "refused"]
    /\ slot' = [slot EXCEPT ![i] = NoWindow]
    /\ socket' = [socket EXCEPT ![i] = "closed"]

\* checkLimit's windowSlot
WindowSlot == now \div Window

\* Up to the first await.
OpenAtAll == TRUE                                            \* faulty: flags not checked
Open == vital /\ shutdown = "running"

Accept(i) ==
    /\ Turn /\ shutdown # "stopped"
    /\ stage[i] = "none" /\ \A j \in 1..(i - 1) : stage[j] # "none"
    /\ IF Open /\ ConnectionFree
       THEN /\ activeConnections' = activeConnections + 1
            /\ stage' = [stage EXCEPT ![i] = "askConnection"]
            /\ socket' = [socket EXCEPT ![i] = "open"]
            /\ slot' = [slot EXCEPT ![i] = WindowSlot]
       ELSE Refuse(i) /\ UNCHANGED activeConnections
    /\ UNCHANGED <<envVars, activeHandshakes, handshakeTimestamps, granted, redisVars,
                   connectionReleased, handshakeSlotReleased, shutdownVars, closedEarly>>

\* checkLimit: one more for the window in which it was asked, then within the limit?
Incr(i) ==
    counts' = IF awaits THEN [counts EXCEPT ![stage[i]][slot[i]] = @ + 1] ELSE counts
Allowed(i, limit) == awaits => counts[stage[i]][slot[i]] + 1 <= limit

\* The answer for the connection, and up to the second await.
ReleaseOnRefusal == Less(activeConnections)

ConnectionAnswer(i) ==
    /\ up /\ stage[i] = "askConnection"
    /\ Incr(i)
    /\ IF Allowed(i, MaxConnections) /\ HandshakeFree
       THEN /\ AcquireHandshake
            /\ stage' = [stage EXCEPT ![i] = "askHandshake"]
            /\ slot' = [slot EXCEPT ![i] = WindowSlot]
            /\ UNCHANGED <<activeConnections, socket>>
       ELSE /\ Refuse(i)
            /\ activeConnections' = ReleaseOnRefusal
            /\ handshakeTimestamps' =
                 IF Allowed(i, MaxConnections) THEN Recent ELSE handshakeTimestamps
            /\ UNCHANGED <<activeHandshakes, granted>>
    /\ UNCHANGED <<envVars, others, connectionReleased, handshakeSlotReleased,
                   shutdownVars, closedEarly>>

\* The answer for the handshake: the socket is tracked and its PQCConnection made,
\* whatever has happened since Accept.  A refusal keeps the handshake slot.
HandshakeAnswer(i) ==
    /\ up /\ stage[i] = "askHandshake"
    /\ Incr(i)
    /\ IF Allowed(i, MaxHandshakes)
       THEN /\ stage' = [stage EXCEPT ![i] = "served"]
            /\ slot' = [slot EXCEPT ![i] = NoWindow]
            /\ activeSockets' = activeSockets \cup {i}
            /\ UNCHANGED <<activeConnections, socket>>
       ELSE /\ Refuse(i)
            /\ activeConnections' = ReleaseOnRefusal
            /\ UNCHANGED activeSockets
    /\ UNCHANGED <<envVars, activeHandshakes, handshakeTimestamps, granted, others,
                   connectionReleased, handshakeSlotReleased, shutdown, polling, closedEarly>>

\* The process ends, and what it remembers with it.
ProcessEnds ==
    /\ up' = FALSE
    /\ activeConnections' = 0 /\ activeHandshakes' = 0
    /\ handshakeTimestamps' = <<>> /\ granted' = <<>>
    /\ stage' = [i \in Conns |-> "none"] /\ slot' = [i \in Conns |-> NoWindow]
    /\ socket' = [i \in Conns |-> "none"]
    /\ connectionReleased' = [i \in Conns |-> FALSE]
    /\ handshakeSlotReleased' = [i \in Conns |-> FALSE]
    /\ shutdown' = "stopped" /\ polling' = FALSE
    /\ activeSockets' = {} /\ closedEarly' = {}
    /\ UNCHANGED <<awaits, now, vital, redisVars>>

\* Redis rejects: nobody handles acceptConnection's promise.
LimiterFails(i) ==
    /\ up /\ awaits /\ stage[i] \in Asking
    /\ ProcessEnds

\* An 'error' event on a socket that has no listener for it.
SocketErrorWhileAsking(i) ==
    /\ up /\ awaits /\ stage[i] \in Asking /\ socket[i] = "open"
    /\ ProcessEnds

\* The peer closes meanwhile: nobody listens.
SocketCloseWhileAsking(i) ==
    /\ up /\ awaits /\ stage[i] \in Asking /\ socket[i] = "open"
    /\ socket' = [socket EXCEPT ![i] = "closed"]
    /\ closedEarly' = closedEarly \cup {i}
    /\ UNCHANGED <<envVars, limiterVars, redisVars, stage, slot, connectionReleased,
                   handshakeSlotReleased, shutdownVars>>

-----------------------------------------------------------------------------
(***************************************************************************)
(* The callbacks of a PQCConnection, each guarded by a flag of its own     *)
(***************************************************************************)
ReleaseAlways(i) ==                                          \* faulty: flag ignored
    /\ connectionReleased' = [connectionReleased EXCEPT ![i] = TRUE]
    /\ activeConnections' = Less(activeConnections)
ReleaseConnection(i) ==
    /\ connectionReleased' = [connectionReleased EXCEPT ![i] = TRUE]
    /\ activeConnections' = IF connectionReleased[i] THEN activeConnections
                                                     ELSE Less(activeConnections)

ReleaseHandshake(i) ==
    /\ handshakeSlotReleased' = [handshakeSlotReleased EXCEPT ![i] = TRUE]
    /\ activeHandshakes' = IF handshakeSlotReleased[i] THEN activeHandshakes
                                                       ELSE Less(activeHandshakes)

\* fail(), for any of its reasons, as often as they come.
Fails(i) ==
    /\ Turn /\ stage[i] = "served"
    /\ ReleaseHandshake(i)
    /\ UNCHANGED <<envVars, activeConnections, handshakeTimestamps, granted, redisVars,
                   stage, slot, socket, connectionReleased, shutdownVars, closedEarly>>

\* 'error' on the socket; its 'close' follows.
SocketError(i) ==
    /\ Turn /\ stage[i] = "served" /\ socket[i] = "open"
    /\ ReleaseConnection(i)
    /\ socket' = [socket EXCEPT ![i] = "destroyed"]
    /\ UNCHANGED <<envVars, activeHandshakes, handshakeTimestamps, granted, redisVars,
                   stage, slot, handshakeSlotReleased, shutdownVars, closedEarly>>

\* 'close', for whatever reason: the connection's handler and the tracker's.
KeepTracking(i) == activeSockets                             \* faulty: listener missing
StopTracking(i) == activeSockets \ {i}

SocketClose(i) ==
    /\ Turn /\ stage[i] = "served" /\ socket[i] \in {"open", "destroyed"}
    /\ socket' = [socket EXCEPT ![i] = "closed"]
    /\ ReleaseHandshake(i) /\ ReleaseConnection(i)
    /\ activeSockets' = StopTracking(i)
    /\ UNCHANGED <<envVars, handshakeTimestamps, granted, redisVars, stage, slot,
                   shutdown, polling, closedEarly>>

-----------------------------------------------------------------------------
(***************************************************************************)
(* GracefulShutdown, awaited by the server's stop()                        *)
(***************************************************************************)
Shutdown ==
    /\ Turn /\ shutdown = "running"
    /\ shutdown' = "draining" /\ polling' = TRUE
    /\ UNCHANGED <<envVars, limiterVars, redisVars, connVars, activeSockets, closedEarly>>

\* The interval finds no socket left; it also ends itself after the deadline.
ShutdownPoll ==
    /\ Turn /\ polling /\ activeSockets = {}
    /\ polling' = FALSE /\ shutdown' = "stopped"
    /\ UNCHANGED <<envVars, limiterVars, redisVars, connVars, activeSockets, closedEarly>>

DestroyNone == {}                                            \* faulty: nothing destroyed
Destroyed == activeSockets

ShutdownDeadline ==
    /\ Turn /\ shutdown = "draining"
    /\ shutdown' = "stopped"
    /\ socket' = [i \in Conns |-> IF i \in Destroyed /\ socket[i] = "open"
                                  THEN "destroyed" ELSE socket[i]]
    /\ UNCHANGED <<envVars, limiterVars, redisVars, stage, slot, connectionReleased,
                   handshakeSlotReleased, polling, activeSockets, closedEarly>>

-----------------------------------------------------------------------------
\* A pulse of the organism ends in lockdown, or out of it.
OrganismPulse ==
    /\ Turn /\ vital' = ~vital
    /\ UNCHANGED <<awaits, up, now, limiterVars, redisVars, connVars, shutdownVars,
                   closedEarly>>

\* Another instance counts the same address up, in the current window.
OtherInstance ==
    /\ up /\ awaits /\ others < MaxOthers
    /\ others' = others + 1
    /\ \E type \in Asking : counts' = [counts EXCEPT ![type][WindowSlot] = @ + 1]
    /\ UNCHANGED <<envVars, limiterVars, connVars, shutdownVars, closedEarly>>

Tick ==
    /\ up /\ now < MaxTime
    /\ now' = now + 1
    /\ UNCHANGED <<awaits, up, vital, limiterVars, redisVars, connVars, shutdownVars,
                   closedEarly>>

Next ==
    \/ Tick \/ OtherInstance \/ OrganismPulse
    \/ Shutdown \/ ShutdownPoll \/ ShutdownDeadline
    \/ \E i \in Conns :
          \/ Accept(i) \/ ConnectionAnswer(i) \/ HandshakeAnswer(i)
          \/ LimiterFails(i) \/ SocketErrorWhileAsking(i) \/ SocketCloseWhileAsking(i)
          \/ Fails(i) \/ SocketError(i) \/ SocketClose(i)

\* Resolved promises continue, armed timers fire, and a destroyed socket closes.
Fairness ==
    /\ WF_vars(ShutdownPoll) /\ WF_vars(ShutdownDeadline)
    /\ \A i \in Conns :
          /\ WF_vars(~awaits /\ (ConnectionAnswer(i) \/ HandshakeAnswer(i)))
          /\ WF_vars(socket[i] = "destroyed" /\ SocketClose(i))

Spec == Init /\ [][Next]_vars /\ Fairness

-----------------------------------------------------------------------------
(***************************************************************************)
(* Properties                                                              *)
(***************************************************************************)
TypeOK ==
    /\ awaits \in BOOLEAN /\ up \in BOOLEAN /\ vital \in BOOLEAN /\ polling \in BOOLEAN
    /\ now \in 0..MaxTime /\ activeConnections \in Nat /\ activeHandshakes \in Nat
    /\ handshakeTimestamps \in Seq(Nat) /\ granted \in Seq(Nat)
    /\ counts \in [Asking -> [Windows -> Nat]] /\ others \in Nat
    /\ stage \in [Conns -> {"none", "refused", "served"} \cup Asking]
    /\ slot \in [Conns -> Windows \cup {NoWindow}]
    /\ \A i \in Conns : stage[i] \in Asking => slot[i] \in Windows
    /\ socket \in [Conns -> {"none", "open", "destroyed", "closed"}]
    /\ connectionReleased \in [Conns -> BOOLEAN]
    /\ handshakeSlotReleased \in [Conns -> BOOLEAN]
    /\ shutdown \in {"running", "draining", "stopped"}
    /\ activeSockets \subseteq Conns /\ closedEarly \subseteq Conns

\* Connections that hold one of the local limiter's connections.
Holding ==
    {i \in Conns : stage[i] \in Asking \/ (stage[i] = "served" /\ ~connectionReleased[i])}

\* The limiter's count is the connections that hold one: none is given back twice
\* (an 'error' is followed by a 'close', fail() may run again and again), none is
\* lost on a refusal, and Math.max(0, ...) never hides a miscount.
SlotsAccounted == activeConnections = Cardinality(Holding)

\* Never more live connections than the cap, though the two limits are taken on
\* both sides of an await.
CapRespected ==
    Cardinality({i \in Conns : stage[i] = "served" /\ socket[i] = "open"}) <= MaxConnections

\* A closed socket is forgotten, by the limiter and by the tracker that shutdown
\* waits for, unless it closed while Redis was asked: then it never is.
ClosedIsForgotten ==
    \A i \in Conns : socket[i] = "closed" /\ i \notin closedEarly =>
        i \notin Holding /\ i \notin activeSockets

\* No window of 60 s, wherever it begins, sees more handshakes granted than the
\* limit.
HandshakeRate ==
    \A k \in 1..(Len(granted) - MaxHandshakes) :
        granted[k + MaxHandshakes] > granted[k] + Window

\* Why the four above hold: what is released was served and is closing; a closed
\* connection was refused or has given back what it held; and only Redis lets an
\* event come between the checks and the admission.
AdmissionInv ==
    /\ SlotsAccounted /\ activeConnections <= MaxConnections
    /\ \A i \in Conns :
          /\ connectionReleased[i] => stage[i] = "served" /\ socket[i] # "open"
          /\ i \in activeSockets => stage[i] = "served"
          /\ socket[i] = "closed" /\ i \notin closedEarly =>
                /\ i \notin activeSockets
                /\ stage[i] = "refused" \/ (stage[i] = "served" /\ connectionReleased[i])
          /\ ~awaits /\ stage[i] \in Asking => vital /\ shutdown = "running"

\* Without Redis nothing is admitted on a stale view of the organism or of the
\* shutdown.
AdmittedOnCurrentView ==
    [][\A i \in Conns :
          ~awaits /\ stage[i] # "served" /\ stage'[i] = "served" =>
             vital /\ shutdown = "running"]_vars

\* Without Redis a shutdown ends: every socket closes and its interval stops.
ShutdownEnds == ~awaits /\ shutdown = "draining" ~> activeSockets = {} /\ ~polling
=============================================================================
