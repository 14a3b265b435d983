------------------------------- MODULE Sidecar -------------------------------
(***************************************************************************)
(* PQCSidecar and one local connection: the local socket, and the client   *)
(* it makes for it, whose connection upstream is Heartbeat's.              *)
(*                                                                         *)
(* handleLocalConnection awaits connect() and waitForHandshake() before it *)
(* listens to the local socket.  What the local program has written by     *)
(* then waits in the socket and delays its 'close' event; without it the   *)
(* event comes and nobody hears it.  The upstream side never touches the   *)
(* local socket: the next chunk finds out.                                 *)
(***************************************************************************)
EXTENDS Heartbeat

VARIABLES
    local,   \* open; left: the program has closed it; ended: by the sidecar; closed
    unread,  \* the local socket holds data
    hears,   \* the listeners are attached
    active,  \* the client is in activeClients
    missed   \* the local socket's 'close' had no listener

localVars == <<local, unread, hears, active, missed>>
vars == <<linkVars, localVars>>

Init ==
    /\ LinkInit
    /\ local = "open" /\ unread = FALSE /\ hears = FALSE
    /\ active = TRUE /\ missed = FALSE

\* localSocket.end()
EndLocal == local' = IF local = "open" THEN "ended" ELSE local

\* client.disconnect(): its socket ends in any phase.
Disconnects ==
    /\ phase' = [phase EXCEPT !["client"] = IF @ \in Over THEN @ ELSE "ended"]
    /\ UNCHANGED <<silence, untilTick, wire, service, outstanding>>

ForgetsOnly == active' = FALSE /\ UNCHANGED linkVars         \* faulty: no disconnect
Cleanup == active' = FALSE /\ Disconnects

-----------------------------------------------------------------------------
\* connect() and waitForHandshake() resolve.
HandshakeDone ==
    /\ Completes
    /\ hears' = TRUE
    /\ UNCHANGED <<local, unread, active, missed>>

\* One of them rejects: refused, timed out, closed by the server.
SetupFails ==
    /\ phase["client"] = "setup"
    /\ EndLocal /\ Cleanup
    /\ UNCHANGED <<unread, hears, missed>>

\* The local program writes.
LocalWrites ==
    /\ local = "open" /\ ~unread
    /\ unread' = TRUE
    /\ UNCHANGED <<linkVars, local, hears, active, missed>>

\* The 'data' handler calls sendRaw.  It sends; or writes to a socket that has ended
\* and so destroys it; or, the key being wiped, throws.
Forward ==
    /\ hears /\ unread
    /\ unread' = FALSE
    /\ \/ Request /\ UNCHANGED local
       \/ phase["client"] = "dead" /\ Leaves("client", "closed") /\ UNCHANGED local
       \/ phase["client"] \in {"ended", "closed"} /\ EndLocal /\ UNCHANGED linkVars
    /\ UNCHANGED <<hears, active, missed>>

\* The local program closes its socket, or answers the sidecar's FIN.
LocalLeaves ==
    /\ local \in {"open", "ended"}
    /\ local' = "left"
    /\ UNCHANGED <<linkVars, unread, hears, active, missed>>

\* 'close' on the local socket, once its data has been read.
LocalClose ==
    /\ local = "left" /\ ~unread
    /\ local' = "closed"
    /\ IF hears THEN Cleanup ELSE UNCHANGED <<linkVars, active>>
    /\ missed' = ~hears
    /\ UNCHANGED <<unread, hears>>

\* The local socket is reset.  Unheard, the 'error' ends the process.
LocalReset ==
    /\ local \in {"open", "ended"}
    /\ local' = "closed" /\ unread' = FALSE
    /\ IF hears THEN Cleanup ELSE active' = FALSE /\ Leaves("client", "closed")
    /\ UNCHANGED <<hears, missed>>

\* stop(); a handshake it interrupts rejects.
StopForgets ==                                               \* faulty: no disconnect
    active /\ ForgetsOnly /\ UNCHANGED <<local, unread, hears, missed>>
Stop ==
    /\ active
    /\ Cleanup
    /\ IF phase["client"] = "setup" THEN EndLocal ELSE UNCHANGED local
    /\ UNCHANGED <<unread, hears, missed>>

Next ==
    \/ LinkSteps /\ UNCHANGED localVars
    \/ HandshakeDone \/ SetupFails
    \/ LocalWrites \/ Forward \/ LocalLeaves \/ LocalClose \/ LocalReset
    \/ Stop

\* The event loop runs, and the handshake's timer ends a handshake that lasts.  The
\* application behind the server answers in time.
Fairness ==
    /\ WF_vars(HandshakeDone) /\ WF_vars(SetupFails)
    /\ WF_vars(Forward) /\ WF_vars(LocalClose)
    /\ WF_vars(LinkSteps /\ UNCHANGED localVars)

Spec == Init /\ [][Next]_vars /\ Fairness

-----------------------------------------------------------------------------
\* stop() and the local socket's end reach every client that still lives: none is
\* upstream and not in activeClients, and none outlives its local socket unless
\* that was closed, with nothing left to read, before the handshake was over.
NoneForgottenAlive ==
    phase["client"] \in {"setup", "up"} => active /\ (local = "closed" => missed)

\* A local program that leaves takes its client upstream with it, also when it left
\* during the handshake with data unread, or when the server is gone; the exception
\* is a close that nobody heard.
LeaverIsFollowed ==
    local = "left" ~> missed \/ (~active /\ phase["client"] \notin {"setup", "up"})
=============================================================================
