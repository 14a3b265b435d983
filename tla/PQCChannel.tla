----------------------------- MODULE PQCChannel -----------------------------
(***************************************************************************)
(* One connection between a PQCClientService and the PQCConnection the     *)
(* server creates for it: the full handshake, the encrypted exchange, and  *)
(* every way either end fails or closes.                                   *)
(*                                                                         *)
(* Both ends are single-threaded event loops, so one action is one event   *)
(* handler (a frame, a timer, a socket event, a call by the application).  *)
(* The client's frame handlers never wait for I/O.  The server's           *)
(* encrypted_data handler does: it awaits the routed service.  MessageQueue *)
(* holds back the frames behind it while timers and socket events run.     *)
(*                                                                         *)
(* Abstractions.  A channel key is the epoch of the KEM key pair it was    *)
(* encapsulated to; decapsulating with another pair, or what was damaged   *)
(* on its way, gives another key.  A frame that does not parse, or whose   *)
(* signature fails, is a "garbled" frame; a record whose tag fails carries *)
(* NoKey.  An endpoint sends no frame twice, so a frame stands for its     *)
(* nonce.  Session resumption, heartbeat traffic and the replay guard's    *)
(* clock have modules of their own: here a heartbeat is a timer that may   *)
(* find its peer dead.                                                     *)
(*                                                                         *)
(* A definition marked "faulty" is not part of the model: it is the one    *)
(* below it with a plausible slip, kept to show what the properties catch. *)
(***************************************************************************)
EXTENDS Integers, Sequences

CONSTANTS
    MaxData,   \* requests the client application sends
    MaxEpoch,  \* KEM key pairs the server goes through
    MaxFaults  \* frames lost, duplicated or damaged on the way

ASSUME BoundsAssumption ==
    MaxData \in Nat /\ MaxEpoch \in Nat \ {0} /\ MaxFaults \in Nat

VARIABLES
    c2s, s2c,     \* the two directions of the TCP stream, as frames
    faults,       \* frames the network has mistreated so far
    kemEpoch,     \* KeyRotationManager.current
    draining,     \* GracefulShutdown.shuttingDown
    \* PQCClientService
    cPhase, cSock, cKey, cSend, cRecv, cTimer, cHeartbeat,
    cComplete,    \* handshakeComplete
    cPromise,     \* what waitForHandshake() has settled to
    cSeen,        \* replayGuard.seenNonces
    cGot,         \* sequences handed to the application, in order
    \* PQCConnection
    sPhase, sSock, sKey, sPinned, sSend, sRecv, sTimer, sHeartbeat,
    sQueue,       \* messageQueue: frames parsed, not yet handled
    sPending,     \* the request awaiting router.route, or 0
    sSeen, sFailed,
    sRouted       \* sequences handed to the service, in order

clientVars == <<cPhase, cSock, cKey, cSend, cRecv, cTimer, cHeartbeat,
                cComplete, cPromise, cSeen, cGot>>
serverVars == <<sPhase, sSock, sKey, sPinned, sSend, sRecv, sTimer, sHeartbeat,
                sQueue, sPending, sSeen, sFailed, sRouted>>
envVars == <<faults, kemEpoch, draining>>
vars == <<c2s, s2c, envVars, clientVars, serverVars>>

(***************************************************************************)
(* Frames, keys and sockets                                                *)
(***************************************************************************)
NoKey == 0
WrongKey == -1

Frame(type, seq, key) == [type |-> type, seq |-> seq, key |-> key]

Garbled  == Frame("garbled", 0, NoKey)
Fin      == Frame("fin", 0, NoKey)        \* the stream's end, not a message
ErrorMsg == Frame("handshake_error", 0, NoKey)

FrameTypes == {"client_hello", "server_hello", "client_auth_response",
               "server_auth_response", "encrypted_data", "handshake_error",
               "close_notify", "garbled", "fin"}
Frames == [type : FrameTypes, seq : Nat, key : Int]

\* ML-KEM rejects implicitly: the wrong private key yields another secret.
Decapsulate(private, encapsulatedTo) ==
    IF private = encapsulatedTo THEN encapsulatedTo ELSE WrongKey

\* The check on an encrypted_data sequence, the same on both sides.
NewerInSequence(seq, last) == seq > last                     \* faulty: gaps pass
NextInSequence(seq, last) == seq = last + 1

\* A socket not yet connected, open, after end(), after destroy() with its
\* "close" event still due, and after that event.
SockStates == {"none", "open", "ended", "destroyed", "closed"}
Listening == {"open", "ended", "destroyed"}  \* a chunk already read is still handled
Secured == {"established"}

\* socket.write: lost unless the socket is open; after end() it is an error
\* that destroys the socket.
Written(sock, stream, frames) == IF sock = "open" THEN stream \o frames ELSE stream
AfterWrite(sock) == IF sock = "ended" THEN "destroyed" ELSE sock
\* socket.end: what was written goes out first.
Ended(sock, stream) == IF sock = "open" THEN Append(stream, Fin) ELSE stream
AfterEnd(sock) == IF sock = "open" THEN "ended" ELSE sock

Init ==
    /\ c2s = <<>> /\ s2c = <<>>
    /\ faults = 0 /\ kemEpoch = 1 /\ draining = FALSE
    /\ cPhase = "idle" /\ cSock = "none" /\ cKey = NoKey
    /\ cSend = 0 /\ cRecv = 0 /\ cTimer = FALSE /\ cHeartbeat = FALSE
    /\ cComplete = FALSE /\ cPromise = "pending" /\ cSeen = {} /\ cGot = <<>>
    /\ sPhase = "idle" /\ sSock = "none" /\ sKey = NoKey /\ sPinned = NoKey
    /\ sSend = 0 /\ sRecv = 0 /\ sTimer = FALSE /\ sHeartbeat = FALSE
    /\ sQueue = <<>> /\ sPending = 0 /\ sSeen = {} /\ sFailed = "no"
    /\ sRouted = <<>>

-----------------------------------------------------------------------------
(***************************************************************************)
(* The client: connect, its socket's events and its application            *)
(***************************************************************************)

\* settleHandshakeFailure, called unless the handshake is complete.
RejectIfComplete ==                                          \* faulty: condition inverted
    IF cComplete /\ cPromise = "pending" THEN "rejected" ELSE cPromise
Reject == IF cComplete \/ cPromise # "pending" THEN cPromise ELSE "rejected"

\* clearHandshakeTimer and heartbeat.stop, which every way out runs.
ClientStopsTimer == cTimer' = FALSE /\ UNCHANGED cHeartbeat  \* faulty: heartbeat goes on
ClientStops == cTimer' = FALSE /\ cHeartbeat' = FALSE

\* failHandshake: timer and heartbeat stop, the socket is half-closed, and an
\* unsettled handshake promise is rejected.  The phase stays as it was.
FailHandshakeLeftOpen ==                                     \* faulty: socket left open
    /\ ClientStops
    /\ cPromise' = Reject
    /\ UNCHANGED <<c2s, cSock>>
FailHandshake ==
    /\ ClientStops
    /\ c2s' = Ended(cSock, c2s)
    /\ cSock' = AfterEnd(cSock)
    /\ cPromise' = Reject

\* disconnect: says goodbye only on a completed handshake, then wipes the key.
Disconnect ==
    LET notify == IF cComplete THEN <<Frame("close_notify", 0, NoKey)>> ELSE <<>>
    IN /\ ClientStops
       /\ c2s' = Ended(cSock, Written(cSock, c2s, notify))
       /\ cSock' = IF cComplete THEN AfterEnd(AfterWrite(cSock)) ELSE AfterEnd(cSock)
       /\ cKey' = NoKey

\* The "connect" callback: client_hello goes out and the handshake timer starts.
ClientConnect ==
    /\ cSock = "none"
    /\ cSock' = "open"
    /\ c2s' = Append(c2s, Frame("client_hello", 0, NoKey))
    /\ cPhase' = "client_hello_sent"
    /\ cTimer' = TRUE
    /\ UNCHANGED <<s2c, envVars, cKey, cSend, cRecv, cHeartbeat, cComplete,
                   cPromise, cSeen, cGot, serverVars>>

\* The head of s2c is the next frame the data handler enqueues and runs.
ClientReceives(type) ==
    /\ cSock \in Listening
    /\ s2c # <<>>
    /\ Head(s2c).type = type
    /\ Head(s2c) \notin cSeen
    /\ s2c' = Tail(s2c)
    /\ cSeen' = cSeen \cup {Head(s2c)}

ClientHandleServerHello ==
    /\ ClientReceives("server_hello")
    /\ cPhase = "client_hello_sent"
    /\ cKey' = Head(s2c).key
    /\ cPhase' = "client_auth_sent"
    /\ c2s' = Written(cSock, c2s, <<Frame("client_auth_response", 0, Head(s2c).key)>>)
    /\ cSock' = AfterWrite(cSock)
    /\ UNCHANGED <<envVars, cSend, cRecv, cTimer, cHeartbeat, cComplete,
                   cPromise, cGot, serverVars>>

ClientHandleServerAuthResponse ==
    /\ ClientReceives("server_auth_response")
    /\ cPhase \in {"client_auth_sent", "client_hello_sent"}
    /\ cKey # NoKey
    /\ cPhase' = "established"
    /\ cComplete' = TRUE
    /\ cTimer' = FALSE
    /\ cHeartbeat' = TRUE
    /\ cPromise' = IF cPromise = "pending" THEN "resolved" ELSE cPromise
    /\ UNCHANGED <<c2s, envVars, cSock, cKey, cSend, cRecv, cGot, serverVars>>

ClientHandleEncryptedData ==
    /\ ClientReceives("encrypted_data")
    /\ cPhase \in Secured /\ cKey # NoKey
    /\ NextInSequence(Head(s2c).seq, cRecv)
    /\ Head(s2c).key = cKey
    /\ cRecv' = Head(s2c).seq
    /\ cGot' = Append(cGot, Head(s2c).seq)
    /\ UNCHANGED <<c2s, envVars, cPhase, cSock, cKey, cSend, cTimer, cHeartbeat,
                   cComplete, cPromise, serverVars>>

\* The sequence number is spent before the record is opened.
ClientFailsToDecrypt ==
    /\ ClientReceives("encrypted_data")
    /\ cPhase \in Secured /\ cKey # NoKey
    /\ NextInSequence(Head(s2c).seq, cRecv)
    /\ Head(s2c).key # cKey
    /\ cRecv' = Head(s2c).seq
    /\ FailHandshake
    /\ UNCHANGED <<envVars, cPhase, cKey, cSend, cComplete, cGot, serverVars>>

ClientHandleCloseNotify ==
    /\ ClientReceives("close_notify")
    /\ Disconnect
    /\ UNCHANGED <<envVars, cPhase, cSend, cRecv, cComplete, cPromise, cGot,
                   serverVars>>

\* What the handlers above accept; anything else ends in failHandshake.
ClientAccepts(m) ==
    /\ m \notin cSeen
    /\ \/ m.type = "server_hello" /\ cPhase = "client_hello_sent"
       \/ /\ m.type = "server_auth_response"
          /\ cPhase \in {"client_auth_sent", "client_hello_sent"} /\ cKey # NoKey
       \/ /\ m.type = "encrypted_data"
          /\ cPhase \in Secured /\ cKey # NoKey /\ NextInSequence(m.seq, cRecv)
       \/ m.type = "close_notify"

\* Replayed, garbled, out of phase, out of sequence, or handshake_error.
ClientRejectsFrame ==
    /\ cSock \in Listening
    /\ s2c # <<>> /\ Head(s2c) # Fin
    /\ ~ClientAccepts(Head(s2c))
    /\ s2c' = Tail(s2c)
    /\ cSeen' = cSeen \cup {Head(s2c)}
    /\ FailHandshake
    /\ UNCHANGED <<envVars, cPhase, cKey, cSend, cRecv, cComplete, cGot, serverVars>>

\* sendRaw; it throws, changing nothing, unless the channel is secured.
ClientSendRaw ==
    /\ cSend < MaxData
    /\ cPhase \in Secured /\ cKey # NoKey
    /\ cSend' = cSend + 1
    /\ c2s' = Written(cSock, c2s, <<Frame("encrypted_data", cSend + 1, cKey)>>)
    /\ cSock' = AfterWrite(cSock)
    /\ UNCHANGED <<s2c, envVars, cPhase, cKey, cRecv, cTimer, cHeartbeat,
                   cComplete, cPromise, cSeen, cGot, serverVars>>

ClientDisconnect ==
    /\ cSock \in Listening
    /\ Disconnect
    /\ UNCHANGED <<s2c, envVars, cPhase, cSend, cRecv, cComplete, cPromise,
                   cSeen, cGot, serverVars>>

ClientTimeout ==
    /\ cTimer
    /\ FailHandshake
    /\ UNCHANGED <<s2c, envVars, cPhase, cKey, cSend, cRecv, cComplete, cSeen,
                   cGot, serverVars>>

ClientHeartbeatDead ==
    /\ cHeartbeat
    /\ FailHandshake
    /\ UNCHANGED <<s2c, envVars, cPhase, cKey, cSend, cRecv, cComplete, cSeen,
                   cGot, serverVars>>

\* "end" on a socket without allowHalfOpen ends the other direction too.
ClientReadsEnd ==
    /\ cSock \in {"open", "ended"}
    /\ s2c # <<>> /\ Head(s2c) = Fin
    /\ s2c' = Tail(s2c)
    /\ c2s' = Ended(cSock, c2s)
    /\ cSock' = "destroyed"
    /\ UNCHANGED <<envVars, cPhase, cKey, cSend, cRecv, cTimer, cHeartbeat,
                   cComplete, cPromise, cSeen, cGot, serverVars>>

\* "error": the connection is reset under the client.
ClientSocketError ==
    /\ cSock \in {"open", "ended"}
    /\ c2s' = Ended(cSock, c2s)
    /\ cSock' = "destroyed"
    /\ cTimer' = FALSE
    /\ cPromise' = Reject
    /\ UNCHANGED <<s2c, envVars, cPhase, cKey, cSend, cRecv, cHeartbeat,
                   cComplete, cSeen, cGot, serverVars>>

\* "close": what was not read is lost, and the secrets are wiped.
ClientSocketClose ==
    /\ cSock = "destroyed"
    /\ cSock' = "closed"
    /\ s2c' = <<>>
    /\ ClientStops
    /\ cPromise' = Reject
    /\ cKey' = NoKey
    /\ UNCHANGED <<c2s, envVars, cPhase, cSend, cRecv, cComplete, cSeen, cGot,
                   serverVars>>

-----------------------------------------------------------------------------
(***************************************************************************)
(* The server connection                                                   *)
(***************************************************************************)

\* fail: handshake_error goes out unless the channel is secured, the socket is
\* half-closed, timer and heartbeat stop.  The phase stays as it was, so frames
\* that arrive later are still handled.  (phase is the phase fail runs in.)
FailWithoutEnd(phase) ==                                     \* faulty: socket left open
    /\ sTimer' = FALSE /\ sHeartbeat' = FALSE
    /\ sFailed' = IF phase \in Secured THEN "channel" ELSE "handshake"
    /\ UNCHANGED <<s2c, sSock>>
FailIn(phase) ==
    LET notify == IF phase \in Secured THEN <<>> ELSE <<ErrorMsg>>
    IN /\ s2c' = Ended(sSock, Written(sSock, s2c, notify))
       /\ sSock' = IF phase \in Secured THEN AfterEnd(sSock) ELSE AfterEnd(AfterWrite(sSock))
       /\ sTimer' = FALSE /\ sHeartbeat' = FALSE
       /\ sFailed' = IF sFailed # "no" THEN sFailed
                     ELSE IF phase \in Secured THEN "channel" ELSE "handshake"

\* Promise callbacks run before the loop takes its next event: while the queue
\* can move, no timer, socket event or service answer is dispatched.
LoopFree == sQueue = <<>> \/ sPending # 0

\* acceptConnection hands the socket to a new PQCConnection.
ServerAccept ==
    /\ sSock = "none" /\ cSock # "none"
    /\ ~draining
    /\ sSock' = "open"
    /\ UNCHANGED <<c2s, s2c, envVars, clientVars, sPhase, sKey, sPinned, sSend,
                   sRecv, sTimer, sHeartbeat, sQueue, sPending, sSeen, sFailed,
                   sRouted>>

\* The data handler: a frame joins the message queue.
ServerReceive ==
    /\ LoopFree
    /\ sSock \in Listening
    /\ c2s # <<>> /\ Head(c2s) # Fin
    /\ sQueue' = Append(sQueue, Head(c2s))
    /\ c2s' = Tail(c2s)
    /\ UNCHANGED <<s2c, envVars, clientVars, sPhase, sSock, sKey, sPinned, sSend,
                   sRecv, sTimer, sHeartbeat, sPending, sSeen, sFailed, sRouted>>

\* The queue runs its next handler once the one before has finished, whatever
\* has become of the socket since.
Dequeue ==
    /\ sPending = 0
    /\ sQueue # <<>>
    /\ sQueue' = Tail(sQueue)
    /\ sSeen' = sSeen \cup {Head(sQueue)}

ServerHandles(type) ==
    /\ Dequeue
    /\ Head(sQueue).type = type
    /\ Head(sQueue) \notin sSeen

\* The answer to a client_hello.  The server adopts whatever correlationId that
\* carries, and the client refuses an answer under another one than its own.
ServerHello(hello) ==
    IF hello.key = WrongKey THEN Garbled ELSE Frame("server_hello", 0, kemEpoch)

ServerHandleClientHello ==
    /\ ServerHandles("client_hello")
    /\ sPhase = "idle"
    /\ sTimer' = TRUE
    /\ sPinned' = kemEpoch
    /\ s2c' = Written(sSock, s2c, <<ServerHello(Head(sQueue))>>)
    /\ sSock' = AfterWrite(sSock)
    /\ sPhase' = "server_hello_sent"
    /\ UNCHANGED <<c2s, envVars, clientVars, sKey, sSend, sRecv, sHeartbeat,
                   sPending, sFailed, sRouted>>

\* The KEM pair a client_auth_response is decapsulated with.
ActiveKem == kemEpoch                                        \* faulty: ignores pinnedKem
HandshakeKem == sPinned

SecuresWithoutPhase ==                                       \* faulty: phase not advanced
    /\ ServerHandles("client_auth_response")
    /\ sPhase = "server_hello_sent"
    /\ sKey' = Decapsulate(HandshakeKem, Head(sQueue).key)
    /\ s2c' = Written(sSock, s2c, <<Frame("server_auth_response", 0, NoKey)>>)
    /\ sSock' = AfterWrite(sSock)
    /\ sTimer' = FALSE
    /\ sHeartbeat' = TRUE
    /\ UNCHANGED <<c2s, envVars, clientVars, sPhase, sPinned, sSend, sRecv,
                   sPending, sFailed, sRouted>>
\* The signature covers both public keys, not the encapsulated key: a damaged one
\* is decapsulated to another secret, and the handshake completes all the same.
ServerHandleClientAuthResponse ==
    /\ ServerHandles("client_auth_response")
    /\ sPhase = "server_hello_sent"
    /\ sKey' = Decapsulate(HandshakeKem, Head(sQueue).key)
    /\ s2c' = Written(sSock, s2c, <<Frame("server_auth_response", 0, NoKey)>>)
    /\ sSock' = AfterWrite(sSock)
    /\ sPhase' = "established"
    /\ sTimer' = FALSE
    /\ sHeartbeat' = TRUE
    /\ UNCHANGED <<c2s, envVars, clientVars, sPinned, sSend, sRecv, sPending,
                   sFailed, sRouted>>

\* The request is decrypted and its service awaited.
ServerHandleEncryptedData ==
    /\ ServerHandles("encrypted_data")
    /\ sPhase \in Secured /\ sKey # NoKey
    /\ NextInSequence(Head(sQueue).seq, sRecv)
    /\ Head(sQueue).key = sKey
    /\ sRecv' = Head(sQueue).seq
    /\ sPending' = Head(sQueue).seq
    /\ sRouted' = Append(sRouted, Head(sQueue).seq)
    /\ UNCHANGED <<c2s, s2c, envVars, clientVars, sPhase, sSock, sKey, sPinned,
                   sSend, sTimer, sHeartbeat, sFailed>>

\* The sequence number is spent before the record is opened.
ServerFailsToDecrypt ==
    /\ ServerHandles("encrypted_data")
    /\ sPhase \in Secured /\ sKey # NoKey
    /\ NextInSequence(Head(sQueue).seq, sRecv)
    /\ Head(sQueue).key # sKey
    /\ sRecv' = Head(sQueue).seq
    /\ FailIn(sPhase)
    /\ UNCHANGED <<c2s, envVars, clientVars, sPhase, sKey, sPinned, sSend,
                   sPending, sRouted>>

ServerHandleCloseNotify ==
    /\ ServerHandles("close_notify")
    /\ s2c' = Ended(sSock, s2c)
    /\ sSock' = AfterEnd(sSock)
    /\ UNCHANGED <<c2s, envVars, clientVars, sPhase, sKey, sPinned, sSend, sRecv,
                   sTimer, sHeartbeat, sPending, sFailed, sRouted>>

ServerAccepts(m) ==
    /\ m \notin sSeen
    /\ \/ m.type = "client_hello" /\ sPhase = "idle"
       \/ m.type = "client_auth_response" /\ sPhase = "server_hello_sent"
       \/ /\ m.type = "encrypted_data"
          /\ sPhase \in Secured /\ sKey # NoKey /\ NextInSequence(m.seq, sRecv)
       \/ m.type = "close_notify"

\* Replayed, garbled, out of phase, or out of sequence.
ServerRejectsFrame ==
    /\ Dequeue
    /\ ~ServerAccepts(Head(sQueue))
    /\ FailIn(sPhase)
    /\ UNCHANGED <<c2s, envVars, clientVars, sPhase, sKey, sPinned, sSend, sRecv,
                   sPending, sRouted>>

\* router.route answers: the response takes the next number and is sealed with
\* the key this.aesKey holds now.
ServerRespond ==
    /\ sPending # 0 /\ sKey # NoKey
    /\ sPending' = 0
    /\ sSend' = sSend + 1
    /\ s2c' = Written(sSock, s2c, <<Frame("encrypted_data", sSend + 1, sKey)>>)
    /\ sSock' = AfterWrite(sSock)
    /\ UNCHANGED <<c2s, envVars, clientVars, sPhase, sKey, sPinned, sRecv, sTimer,
                   sHeartbeat, sQueue, sSeen, sFailed, sRouted>>

\* The socket closed meanwhile: seal throws on the wiped key, the queue fails.
ServerRespondAfterWipe ==
    /\ sPending # 0 /\ sKey = NoKey
    /\ sPending' = 0
    /\ sSend' = sSend + 1
    /\ FailIn(sPhase)
    /\ UNCHANGED <<c2s, envVars, clientVars, sPhase, sKey, sPinned, sRecv, sQueue,
                   sSeen, sRouted>>

\* The service rejects: the message queue hands the error to fail.
ServerServiceThrows ==
    /\ sPending # 0
    /\ sPending' = 0
    /\ FailIn(sPhase)
    /\ UNCHANGED <<c2s, envVars, clientVars, sPhase, sKey, sPinned, sSend, sRecv,
                   sQueue, sSeen, sRouted>>

ServerTimeout ==
    /\ LoopFree /\ sTimer
    /\ FailIn(sPhase)
    /\ UNCHANGED <<c2s, envVars, clientVars, sPhase, sKey, sPinned, sSend, sRecv,
                   sQueue, sPending, sSeen, sRouted>>

ServerHeartbeatDead ==
    /\ LoopFree /\ sHeartbeat
    /\ FailIn(sPhase)
    /\ UNCHANGED <<c2s, envVars, clientVars, sPhase, sKey, sPinned, sSend, sRecv,
                   sQueue, sPending, sSeen, sRouted>>

ServerReadsEnd ==
    /\ LoopFree
    /\ sSock \in {"open", "ended"}
    /\ c2s # <<>> /\ Head(c2s) = Fin
    /\ c2s' = Tail(c2s)
    /\ s2c' = Ended(sSock, s2c)
    /\ sSock' = "destroyed"
    /\ UNCHANGED <<envVars, clientVars, sPhase, sKey, sPinned, sSend, sRecv,
                   sTimer, sHeartbeat, sQueue, sPending, sSeen, sFailed, sRouted>>

ServerSocketError ==
    /\ LoopFree
    /\ sSock \in {"open", "ended"}
    /\ s2c' = Ended(sSock, s2c)
    /\ sSock' = "destroyed"
    /\ sTimer' = FALSE
    /\ UNCHANGED <<c2s, envVars, clientVars, sPhase, sKey, sPinned, sSend, sRecv,
                   sHeartbeat, sQueue, sPending, sSeen, sFailed, sRouted>>

ServerSocketClose ==
    /\ LoopFree
    /\ sSock = "destroyed"
    /\ sSock' = "closed"
    /\ c2s' = <<>>
    /\ sTimer' = FALSE /\ sHeartbeat' = FALSE
    /\ sKey' = NoKey
    /\ UNCHANGED <<s2c, envVars, clientVars, sPhase, sPinned, sSend, sRecv, sQueue,
                   sPending, sSeen, sFailed, sRouted>>

-----------------------------------------------------------------------------
(***************************************************************************)
(* The server process and the network                                      *)
(***************************************************************************)

\* rotateKeys, or a rotation that getActiveKeys finds due.
RotateKeys ==
    /\ LoopFree
    /\ kemEpoch < MaxEpoch
    /\ kemEpoch' = kemEpoch + 1
    /\ UNCHANGED <<c2s, s2c, faults, draining, clientVars, serverVars>>

\* GracefulShutdown.shutdown begins: every tracked socket gets close_notify.
BeginShutdown ==
    /\ LoopFree
    /\ ~draining
    /\ draining' = TRUE
    /\ IF sSock \in {"none", "closed"}
       THEN UNCHANGED <<s2c, sSock>>
       ELSE /\ s2c' = Written(sSock, s2c, <<Frame("close_notify", 0, NoKey)>>)
            /\ sSock' = AfterWrite(sSock)
    /\ UNCHANGED <<c2s, faults, kemEpoch, clientVars, sPhase, sKey, sPinned, sSend,
                   sRecv, sTimer, sHeartbeat, sQueue, sPending, sSeen, sFailed,
                   sRouted>>

\* Its deadline destroys the sockets that are left.
ShutdownDeadline ==
    /\ LoopFree
    /\ draining
    /\ sSock \in {"open", "ended"}
    /\ s2c' = Ended(sSock, s2c)
    /\ sSock' = "destroyed"
    /\ UNCHANGED <<c2s, envVars, clientVars, sPhase, sKey, sPinned, sSend, sRecv,
                   sTimer, sHeartbeat, sQueue, sPending, sSeen, sFailed, sRouted>>

\* acceptConnection destroys a socket that arrives once the server drains.
RefuseConnection ==
    /\ sSock = "none" /\ cSock # "none"
    /\ draining
    /\ sSock' = "destroyed"
    /\ s2c' = Append(s2c, Fin)
    /\ UNCHANGED <<c2s, envVars, clientVars, sPhase, sKey, sPinned, sSend, sRecv,
                   sTimer, sHeartbeat, sQueue, sPending, sSeen, sFailed, sRouted>>

\* What a damaged frame can arrive as.  Any may be refused.  A record may keep its
\* number and fail its tag.  A client_hello may arrive with another correlationId and
\* a client_auth_response with another encapsulatedKey, which nothing signs.
Damaged(m) ==
    {Garbled}
        \cup (IF m.type = "encrypted_data" THEN {Frame(m.type, m.seq, NoKey)} ELSE {})
        \cup (IF m.type \in {"client_hello", "client_auth_response"}
              THEN {Frame(m.type, 0, WrongKey)} ELSE {})

\* What can befall the next frame of a stream: lost, delivered twice, damaged.
Mistreated(stream) ==
    {Tail(stream), <<Head(stream)>> \o stream}
        \cup {<<m>> \o Tail(stream) : m \in Damaged(Head(stream))}

FaultToServer ==
    /\ faults < MaxFaults
    /\ faults' = faults + 1
    /\ c2s # <<>> /\ Head(c2s) # Fin
    /\ c2s' \in Mistreated(c2s)
    /\ UNCHANGED <<s2c, kemEpoch, draining, clientVars, serverVars>>

FaultToClient ==
    /\ faults < MaxFaults
    /\ faults' = faults + 1
    /\ s2c # <<>> /\ Head(s2c) # Fin
    /\ s2c' \in Mistreated(s2c)
    /\ UNCHANGED <<c2s, kemEpoch, draining, clientVars, serverVars>>

-----------------------------------------------------------------------------
ClientStep ==
    \/ ClientHandleServerHello \/ ClientHandleServerAuthResponse
    \/ ClientHandleEncryptedData \/ ClientFailsToDecrypt
    \/ ClientHandleCloseNotify \/ ClientRejectsFrame
    \/ ClientReadsEnd \/ ClientSocketClose

ServerQueueStep ==
    \/ ServerHandleClientHello \/ ServerHandleClientAuthResponse
    \/ ServerHandleEncryptedData \/ ServerFailsToDecrypt
    \/ ServerHandleCloseNotify \/ ServerRejectsFrame

ServerIoStep ==
    \/ ServerAccept \/ RefuseConnection \/ ServerReceive
    \/ ServerReadsEnd \/ ServerSocketClose

ServiceStep == ServerRespond \/ ServerRespondAfterWipe \/ ServerServiceThrows

\* What the application, the operator and the network may or may not do.
Choice ==
    \/ ClientSendRaw \/ ClientDisconnect \/ ClientHeartbeatDead
    \/ ClientSocketError \/ ServerHeartbeatDead \/ ServerSocketError
    \/ RotateKeys \/ BeginShutdown \/ ShutdownDeadline
    \/ FaultToServer \/ FaultToClient

Next ==
    \/ ClientConnect \/ ClientStep \/ ClientTimeout
    \/ ServerQueueStep \/ ServerIoStep \/ ServiceStep \/ ServerTimeout
    \/ Choice

\* Both event loops keep running and armed timers fire.  A service need not
\* answer, and nothing is assumed of applications, operators or faults.
Fairness ==
    /\ WF_vars(ClientStep)
    /\ WF_vars(ClientTimeout)
    /\ WF_vars(ServerQueueStep)
    /\ WF_vars(ServerIoStep)
    /\ WF_vars(ServerTimeout)

Spec == Init /\ [][Next]_vars /\ Fairness

-----------------------------------------------------------------------------
(***************************************************************************)
(* Properties                                                              *)
(***************************************************************************)
StreamTypes ==
    c2s \in Seq(Frames) /\ s2c \in Seq(Frames) /\ sQueue \in Seq(Frames)

FlagTypes ==
    /\ draining \in BOOLEAN /\ cComplete \in BOOLEAN
    /\ cTimer \in BOOLEAN /\ cHeartbeat \in BOOLEAN
    /\ sTimer \in BOOLEAN /\ sHeartbeat \in BOOLEAN

StateTypes ==
    /\ cPhase \in {"idle", "client_hello_sent", "client_auth_sent", "established"}
    /\ sPhase \in {"idle", "server_hello_sent", "established"}
    /\ cSock \in SockStates /\ sSock \in SockStates
    /\ cPromise \in {"pending", "resolved", "rejected"}
    /\ sFailed \in {"no", "handshake", "channel"}

ValueTypes ==
    /\ faults \in Nat /\ kemEpoch \in Nat \ {0}
    /\ cKey \in Int /\ sKey \in Int /\ sPinned \in Int
    /\ cSend \in Nat /\ cRecv \in Nat /\ cGot \in Seq(Nat)
    /\ sSend \in Nat /\ sRecv \in Nat /\ sRouted \in Seq(Nat) /\ sPending \in Nat
    /\ cSeen \subseteq Frames /\ sSeen \subseteq Frames

\* The type invariant of the connection.
TypeOK == StreamTypes /\ FlagTypes /\ StateTypes /\ ValueTypes

\* Why the properties below hold.  Every KEM key on the wire, in the queue or in
\* use is the one the server pinned, or comes of a damaged encapsulation;
\* server_auth_response, or a client that has completed, means the server is
\* established; no record carries a number that its sender has not given, and none
\* is sealed by the client under another key than its own.
Pinned(key) == sPhase # "idle" /\ key = sPinned /\ key > 0
DamagedAuth == Frame("client_auth_response", 0, WrongKey)
Unused == sRouted = <<>> /\ sPending = 0 /\ sSend = 0 /\ cGot = <<>>
ToServer == {m \in Frames :
                /\ m.type = "client_auth_response" => Pinned(m.key) \/ m = DamagedAuth
                /\ m.type = "encrypted_data" => m.seq <= cSend /\ m.key # WrongKey}
ToClient == {m \in Frames :
                /\ m.type = "server_hello" => Pinned(m.key)
                /\ m.type = "server_auth_response" => sPhase = "established"
                /\ m.type = "encrypted_data" => m.seq <= sSend}
ChannelInv ==
    /\ c2s \in Seq(ToServer) /\ sQueue \in Seq(ToServer) /\ s2c \in Seq(ToClient)
    /\ cKey # NoKey => Pinned(cKey)
    /\ \/ sKey = NoKey
       \/ Pinned(sKey)
       \/ sKey = WrongKey /\ Unused /\ DamagedAuth \in sSeen
    /\ sPhase # "established" => Unused
    /\ cComplete => sPhase = "established"

\* A client that completed its handshake and the server that answered it hold
\* the same channel key for as long as both hold one, although the server's KEM
\* pair may rotate between server_hello and client_auth_response (the pinnedKem
\* of handleClientHello).  The one exception is an encapsulatedKey damaged on its
\* way, which buildClientAuthSignedPayload leaves unsigned: then the handshake
\* completes on two keys, and as long as they differ no request reaches a service
\* and no reply the application.
KeyAgreement ==
    cComplete /\ cKey # NoKey /\ sKey # NoKey =>
        \/ cKey = sKey
        \/ DamagedAuth \in sSeen /\ sRouted = <<>> /\ cGot = <<>>

\* handshakeComplete on the client means that the server reached "established"
\* before, whatever timed out or closed meanwhile.
ServerEstablishedFirst == cComplete => sPhase = "established"

\* A handshake that failed, on either side, carries no request: once the
\* server fails before securing the channel, or the client's promise is
\* rejected, no service ever sees a record of this connection.
FailedHandshakeCarriesNothing ==
    sFailed = "handshake" \/ cPromise = "rejected" => sRouted = <<>>

\* The connection as its users see it.  A client has failed once its socket is
\* past "open"; a server once fail has run.
SecuredEnds ==
    {e \in {"client", "server"} : IF e = "client" THEN cComplete ELSE sPhase = "established"}
FailedEnds ==
    {e \in {"client", "server"} :
        IF e = "client" THEN cSock \notin {"none", "open"} ELSE sFailed # "no"}
ClosedEnds ==
    {e \in {"client", "server"} :
        IF e = "client" THEN cSock = "closed" ELSE sSock = "closed"}

Abstract == INSTANCE Exchange WITH
    sent <- cSend, routed <- sRouted, waiting <- sPending # 0, replied <- sSend, got <- cGot,
    up <- SecuredEnds, failed <- FailedEnds, closed <- ClosedEnds

\* The connection implements Exchange, whatever is lost, doubled or damaged and
\* whoever fails when: the service sees the client's requests once each, in order
\* and one at a time, the application sees the replies once each and in order; a
\* number is missing only behind a failure of that end (fail does not stop the
\* frames behind a record that would not open); and nothing is handed to either
\* after its socket's "close" event, although a slow service leaves frames queued
\* behind it.
ImplementsExchange == Abstract!Spec

\* Once a socket's "close" event has run, its endpoint holds no channel key and
\* no armed timer, also when frames queued behind a slow service are handled
\* after the event.
NothingOutlivesClose ==
    /\ cSock = "closed" => cKey = NoKey /\ ~cTimer /\ ~cHeartbeat
    /\ sSock = "closed" => sKey = NoKey /\ ~sTimer /\ ~sHeartbeat

\* waitForHandshake() settles for every client that got as far as connect(),
\* although failHandshake, disconnect and the error handler all stop the timer.
HandshakeSettles == cPhase # "idle" ~> cPromise # "pending"

\* A server connection that has sent server_hello does not stay half-open: it
\* becomes established or its socket closes.
HalfOpenEnds == sPhase = "server_hello_sent" ~> sPhase = "established" \/ sSock = "closed"

\* A connection the server has failed is closed in the end, even when a late
\* client_auth_response makes it "established" and restarts its heartbeat.
FailedCloses == sFailed # "no" ~> sSock = "closed"
=============================================================================
