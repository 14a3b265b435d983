-------------------------- MODULE PQCChannel_proofs --------------------------
(***************************************************************************)
(* What PQCChannel promises for every number of requests, rotations and    *)
(* network faults: its types, that the client never completes a handshake  *)
(* the server has not, that both ends then hold one key, that a closed end *)
(* keeps nothing, and that the channel implements Exchange.                *)
(***************************************************************************)
EXTENDS PQCChannel, SequenceTheorems, TLAPS

\* Every frame the endpoints build is a frame.
LEMMA FrameType ==
    /\ \A t \in FrameTypes, n \in Nat, k \in Int : Frame(t, n, k) \in Frames
    /\ Garbled \in Frames /\ Fin \in Frames /\ ErrorMsg \in Frames
BY DEF Frame, Garbled, Fin, ErrorMsg, Frames, FrameTypes, NoKey

\* So are the streams of none or one of them.
LEMMA ShortStreams ==
    /\ <<>> \in Seq(Frames)
    /\ \A m \in Frames : <<m>> \in Seq(Frames)
OBVIOUS

\* Writing to a socket and ending it keep a stream a sequence of frames.
LEMMA StreamType ==
    ASSUME NEW sock \in SockStates, NEW stream \in Seq(Frames),
           NEW frames \in Seq(Frames)
    PROVE  /\ Written(sock, stream, frames) \in Seq(Frames)
           /\ Ended(sock, stream) \in Seq(Frames)
           /\ AfterWrite(sock) \in SockStates
           /\ AfterEnd(sock) \in SockStates
BY FrameType DEF Written, Ended, AfterWrite, AfterEnd, SockStates

\* The head of a stream is a frame and the rest of it a stream.
LEMMA HeadTail ==
    ASSUME NEW stream \in Seq(Frames), stream # <<>>
    PROVE  /\ Head(stream) \in Frames
           /\ Head(stream).seq \in Nat /\ Head(stream).key \in Int
           /\ Tail(stream) \in Seq(Frames)
<1>1. Head(stream) \in Frames /\ Tail(stream) \in Seq(Frames)
  BY HeadTailProperties
<1> QED
  BY <1>1 DEF Frames

\* A damaged frame is a frame, garbled or of the same type and number.
LEMMA DamagedFrame ==
    ASSUME NEW m \in Frames, NEW d \in Damaged(m)
    PROVE  /\ d \in Frames
           /\ \/ d = Garbled
              \/ m.type = "encrypted_data" /\ d = Frame("encrypted_data", m.seq, NoKey)
              \/ /\ m.type \in {"client_hello", "client_auth_response"}
                 /\ d = Frame(m.type, 0, WrongKey)
<1>1. /\ Frame(m.type, m.seq, NoKey) \in Frames /\ Frame(m.type, 0, WrongKey) \in Frames
  BY DEF Frame, Frames, NoKey, WrongKey
<1> QED
  BY <1>1, FrameType DEF Damaged

\* So is the server's answer to a client_hello.
LEMMA HelloType ==
    ASSUME NEW m, kemEpoch \in Nat
    PROVE  ServerHello(m) \in Frames
BY FrameType DEF ServerHello, FrameTypes

\* What a server failure leaves on the socket and its stream is typed.
LEMMA FailInType ==
    ASSUME s2c \in Seq(Frames), sSock \in SockStates, NEW phase, FailIn(phase)
    PROVE  s2c' \in Seq(Frames) /\ sSock' \in SockStates
<1> DEFINE notify == IF phase \in Secured THEN <<>> ELSE <<ErrorMsg>>
<1>1. notify \in Seq(Frames)
  BY FrameType, ShortStreams
<1>2. Written(sSock, s2c, notify) \in Seq(Frames)
  BY <1>1, StreamType
<1>3. s2c' \in Seq(Frames)
  BY <1>2, StreamType DEF FailIn
<1>4. AfterWrite(sSock) \in SockStates /\ sSock' \in SockStates
  BY StreamType, ShortStreams DEF FailIn
<1> QED
  BY <1>3, <1>4

\* What a client failure leaves on the socket and its stream is typed.
LEMMA FailHandshakeType ==
    ASSUME c2s \in Seq(Frames), cSock \in SockStates, FailHandshake
    PROVE  c2s' \in Seq(Frames) /\ cSock' \in SockStates
BY StreamType, ShortStreams DEF FailHandshake

\* What disconnect() leaves on the socket and its stream is typed.
LEMMA DisconnectType ==
    ASSUME c2s \in Seq(Frames), cSock \in SockStates, Disconnect
    PROVE  c2s' \in Seq(Frames) /\ cSock' \in SockStates
<1> DEFINE notify == IF cComplete THEN <<Frame("close_notify", 0, NoKey)>> ELSE <<>>
<1>1. Frame("close_notify", 0, NoKey) \in Frames
  BY FrameType DEF FrameTypes, NoKey
<1>2. notify \in Seq(Frames)
  BY <1>1, ShortStreams
<1>3. Written(cSock, c2s, notify) \in Seq(Frames)
  BY <1>2, StreamType
<1>4. c2s' \in Seq(Frames)
  BY <1>3, StreamType DEF Disconnect
<1>5. AfterWrite(cSock) \in SockStates /\ cSock' \in SockStates
  BY StreamType, ShortStreams DEF Disconnect
<1> QED
  BY <1>4, <1>5

\* Network faults keep a stream a sequence of frames.
LEMMA MistreatedType ==
    ASSUME NEW stream \in Seq(Frames), stream # <<>>
    PROVE  Mistreated(stream) \subseteq Seq(Frames)
<1>1. Head(stream) \in Frames /\ Tail(stream) \in Seq(Frames)
  BY HeadTail
<1>2. <<Head(stream)>> \o stream \in Seq(Frames)
  BY <1>1, ShortStreams, ConcatProperties
<1>3. ASSUME NEW m \in Damaged(Head(stream)) PROVE <<m>> \o Tail(stream) \in Seq(Frames)
  BY <1>1, <1>3, DamagedFrame, ShortStreams, ConcatProperties
<1> QED
  BY <1>1, <1>2, <1>3 DEF Mistreated

-----------------------------------------------------------------------------
LEMMA TypeInit == Init => TypeOK
<1> SUFFICES ASSUME Init PROVE TypeOK
  OBVIOUS
<1>1. StreamTypes
  BY ShortStreams DEF Init, StreamTypes
<1>2. FlagTypes
  BY DEF Init, FlagTypes
<1>3. StateTypes
  BY DEF Init, StateTypes, SockStates
<1>4. ValueTypes
  BY DEF Init, ValueTypes, NoKey
<1> QED
  BY <1>1, <1>2, <1>3, <1>4 DEF TypeOK

\* A handler assigns a flag TRUE or FALSE, or leaves it alone.
LEMMA FlagStep == FlagTypes /\ [Next]_vars => FlagTypes'
<1> SUFFICES ASSUME FlagTypes, [Next]_vars PROVE FlagTypes'
  OBVIOUS
<1> USE DEF FlagTypes, envVars, clientVars, serverVars
<1>1. CASE ClientConnect \/ ClientTimeout
  BY <1>1 DEF ClientConnect, ClientTimeout, FailHandshake, ClientStops
<1>2. CASE ClientStep
  <2>1. CASE ClientHandleServerHello
    BY <2>1 DEF ClientHandleServerHello
  <2>2. CASE ClientHandleServerAuthResponse
    BY <2>2 DEF ClientHandleServerAuthResponse
  <2>3. CASE ClientHandleEncryptedData
    BY <2>3 DEF ClientHandleEncryptedData
  <2>4. CASE ClientFailsToDecrypt
    BY <2>4 DEF ClientFailsToDecrypt, FailHandshake, ClientStops
  <2>5. CASE ClientHandleCloseNotify
    BY <2>5 DEF ClientHandleCloseNotify, Disconnect, ClientStops
  <2>6. CASE ClientRejectsFrame
    BY <2>6 DEF ClientRejectsFrame, FailHandshake, ClientStops
  <2>7. CASE ClientReadsEnd \/ ClientSocketClose
    BY <2>7 DEF ClientReadsEnd, ClientSocketClose, ClientStops
  <2> QED
    BY <1>2, <2>1, <2>2, <2>3, <2>4, <2>5, <2>6, <2>7 DEF ClientStep
<1>3. CASE ServerQueueStep
  <2>1. CASE ServerHandleClientHello
    BY <2>1 DEF ServerHandleClientHello
  <2>2. CASE ServerHandleClientAuthResponse
    BY <2>2 DEF ServerHandleClientAuthResponse
  <2>3. CASE ServerHandleEncryptedData \/ ServerHandleCloseNotify
    BY <2>3 DEF ServerHandleEncryptedData, ServerHandleCloseNotify
  <2>4. CASE ServerFailsToDecrypt \/ ServerRejectsFrame
    BY <2>4 DEF ServerFailsToDecrypt, ServerRejectsFrame, FailIn
  <2> QED
    BY <1>3, <2>1, <2>2, <2>3, <2>4 DEF ServerQueueStep
<1>4. CASE ServerIoStep
  BY <1>4 DEF ServerIoStep, ServerAccept, RefuseConnection, ServerReceive,
              ServerReadsEnd, ServerSocketClose
<1>5. CASE ServiceStep \/ ServerTimeout
  BY <1>5 DEF ServiceStep, ServerRespond, ServerRespondAfterWipe,
              ServerServiceThrows, ServerTimeout, FailIn
<1>6. CASE Choice
  <2>1. CASE ClientSendRaw \/ ClientDisconnect \/ ClientHeartbeatDead \/ ClientSocketError
    BY <2>1 DEF ClientSendRaw, ClientDisconnect, ClientHeartbeatDead,
                ClientSocketError, Disconnect, FailHandshake, ClientStops
  <2>2. CASE ServerHeartbeatDead \/ ServerSocketError \/ ShutdownDeadline
    BY <2>2 DEF ServerHeartbeatDead, ServerSocketError, ShutdownDeadline, FailIn
  <2>3. CASE RotateKeys \/ BeginShutdown
    BY <2>3 DEF RotateKeys, BeginShutdown
  <2>4. CASE FaultToServer \/ FaultToClient
    BY <2>4 DEF FaultToServer, FaultToClient
  <2> QED
    BY <1>6, <2>1, <2>2, <2>3, <2>4 DEF Choice
<1>7. CASE UNCHANGED vars
  BY <1>7 DEF vars
<1> QED
  BY <1>1, <1>2, <1>3, <1>4, <1>5, <1>6, <1>7 DEF Next

\* The frame a client handler takes is typed, and so is what it leaves.
LEMMA ClientReceivesType ==
    ASSUME TypeOK, NEW type, ClientReceives(type)
    PROVE  /\ Head(s2c) \in Frames /\ Head(s2c).seq \in Nat /\ Head(s2c).key \in Int
           /\ s2c' \in Seq(Frames) /\ cSeen' \subseteq Frames
BY HeadTail DEF ClientReceives, TypeOK, StreamTypes, ValueTypes

\* The same for a frame the server's queue runs.
LEMMA DequeueType ==
    ASSUME TypeOK, Dequeue
    PROVE  /\ Head(sQueue) \in Frames /\ Head(sQueue).seq \in Nat
           /\ Head(sQueue).key \in Int
           /\ sQueue' \in Seq(Frames) /\ sSeen' \subseteq Frames
BY HeadTail DEF Dequeue, TypeOK, StreamTypes, ValueTypes

\* One step keeps streams, states and values typed: the client's actions.
LEMMA ClientTypeStep ==
    ASSUME TypeOK, ClientConnect \/ ClientStep \/ ClientTimeout
    PROVE  StreamTypes' /\ StateTypes' /\ ValueTypes'
<1> USE DEF TypeOK, StreamTypes, StateTypes, ValueTypes, envVars, serverVars
<1>0. /\ \A t \in FrameTypes, n \in Nat, k \in Int : <<Frame(t, n, k)>> \in Seq(Frames)
      /\ "client_hello" \in FrameTypes /\ "client_auth_response" \in FrameTypes
      /\ NoKey \in Int /\ {"open", "destroyed", "closed"} \subseteq SockStates
  BY FrameType, ShortStreams DEF FrameTypes, NoKey, SockStates
<1>1. CASE ClientConnect
  <2>1. Frame("client_hello", 0, NoKey) \in Frames
    BY <1>0, FrameType
  <2> QED
    BY <1>0, <1>1, <2>1, AppendProperties DEF ClientConnect
<1>2. CASE ClientTimeout
  BY <1>2, FailHandshakeType DEF ClientTimeout, FailHandshake, Reject
<1>3. CASE ClientHandleServerHello
  <2>1. /\ Head(s2c).key \in Int /\ s2c' \in Seq(Frames) /\ cSeen' \subseteq Frames
    BY <1>3, ClientReceivesType DEF ClientHandleServerHello
  <2>2. <<Frame("client_auth_response", 0, Head(s2c).key)>> \in Seq(Frames)
    BY <1>0, <2>1
  <2> QED
    BY <1>3, <2>1, <2>2, StreamType DEF ClientHandleServerHello
<1>4. CASE ClientHandleServerAuthResponse
  BY <1>4, ClientReceivesType DEF ClientHandleServerAuthResponse
<1>5. CASE ClientHandleEncryptedData
  <2>1. /\ Head(s2c).seq \in Nat /\ s2c' \in Seq(Frames) /\ cSeen' \subseteq Frames
    BY <1>5, ClientReceivesType DEF ClientHandleEncryptedData
  <2>2. Append(cGot, Head(s2c).seq) \in Seq(Nat)
    BY <2>1
  <2> QED
    BY <1>5, <2>1, <2>2 DEF ClientHandleEncryptedData
<1>6. CASE ClientFailsToDecrypt
  <2>1. /\ Head(s2c).seq \in Nat /\ s2c' \in Seq(Frames) /\ cSeen' \subseteq Frames
    BY <1>6, ClientReceivesType DEF ClientFailsToDecrypt
  <2> QED
    BY <1>6, <2>1, FailHandshakeType DEF ClientFailsToDecrypt, FailHandshake, Reject
<1>7. CASE ClientHandleCloseNotify
  <2>1. s2c' \in Seq(Frames) /\ cSeen' \subseteq Frames
    BY <1>7, ClientReceivesType DEF ClientHandleCloseNotify
  <2>2. cKey' \in Int
    BY <1>0, <1>7 DEF ClientHandleCloseNotify, Disconnect
  <2> QED
    BY <1>7, <2>1, <2>2, DisconnectType DEF ClientHandleCloseNotify
<1>8. CASE ClientRejectsFrame
  <2>1. s2c' \in Seq(Frames) /\ cSeen' \subseteq Frames
    BY <1>8, HeadTail DEF ClientRejectsFrame
  <2> QED
    BY <1>8, <2>1, FailHandshakeType DEF ClientRejectsFrame, FailHandshake, Reject
<1>9. CASE ClientReadsEnd
  BY <1>0, <1>9, HeadTail, StreamType, ShortStreams DEF ClientReadsEnd
<1>10. CASE ClientSocketClose
  BY <1>0, <1>10, ShortStreams DEF ClientSocketClose, Reject
<1> QED
  BY <1>1, <1>2, <1>3, <1>4, <1>5, <1>6, <1>7, <1>8, <1>9, <1>10 DEF ClientStep

\* The server's actions.
LEMMA ServerTypeStep ==
    ASSUME TypeOK, ServerQueueStep \/ ServerIoStep \/ ServiceStep \/ ServerTimeout
    PROVE  StreamTypes' /\ StateTypes' /\ ValueTypes'
<1> USE DEF TypeOK, StreamTypes, StateTypes, ValueTypes, envVars, clientVars
<1>0. /\ \A t \in FrameTypes, n \in Nat, k \in Int : <<Frame(t, n, k)>> \in Seq(Frames)
      /\ "server_hello" \in FrameTypes /\ "server_auth_response" \in FrameTypes
      /\ "encrypted_data" \in FrameTypes
      /\ NoKey \in Int /\ {"open", "destroyed", "closed"} \subseteq SockStates
  BY FrameType, ShortStreams DEF FrameTypes, NoKey, SockStates
<1>1. CASE ServerHandleClientHello
  <2>1. sQueue' \in Seq(Frames) /\ sSeen' \subseteq Frames
    BY <1>1, DequeueType DEF ServerHandleClientHello, ServerHandles
  <2>2. <<ServerHello(Head(sQueue))>> \in Seq(Frames)
    BY HelloType, ShortStreams
  <2>3. StreamTypes' /\ StateTypes'
    BY <1>1, <2>1, <2>2, StreamType DEF ServerHandleClientHello
  <2>4. ValueTypes'
    BY <1>1, <2>1 DEF ServerHandleClientHello
  <2> QED
    BY <2>3, <2>4
<1>2. CASE ServerHandleClientAuthResponse
  <2>1. /\ Head(sQueue).key \in Int
        /\ sQueue' \in Seq(Frames) /\ sSeen' \subseteq Frames
    BY <1>2, DequeueType DEF ServerHandleClientAuthResponse, ServerHandles
  <2>2. <<Frame("server_auth_response", 0, NoKey)>> \in Seq(Frames)
    BY <1>0
  <2>3. Decapsulate(HandshakeKem, Head(sQueue).key) \in Int
    BY <2>1 DEF Decapsulate, WrongKey
  <2> QED
    BY <1>2, <2>1, <2>2, <2>3, StreamType DEF ServerHandleClientAuthResponse
<1>3. CASE ServerHandleEncryptedData
  <2>1. /\ Head(sQueue).seq \in Nat
        /\ sQueue' \in Seq(Frames) /\ sSeen' \subseteq Frames
    BY <1>3, DequeueType DEF ServerHandleEncryptedData, ServerHandles
  <2>2. Append(sRouted, Head(sQueue).seq) \in Seq(Nat)
    BY <2>1
  <2> QED
    BY <1>3, <2>1, <2>2 DEF ServerHandleEncryptedData
<1>4. CASE ServerFailsToDecrypt
  <2>1. /\ Head(sQueue).seq \in Nat
        /\ sQueue' \in Seq(Frames) /\ sSeen' \subseteq Frames
    BY <1>4, DequeueType DEF ServerFailsToDecrypt, ServerHandles
  <2> QED
    BY <1>4, <2>1, FailInType DEF ServerFailsToDecrypt, FailIn
<1>5. CASE ServerHandleCloseNotify
  <2>1. sQueue' \in Seq(Frames) /\ sSeen' \subseteq Frames
    BY <1>5, DequeueType DEF ServerHandleCloseNotify, ServerHandles
  <2> QED
    BY <1>5, <2>1, StreamType, ShortStreams DEF ServerHandleCloseNotify
<1>6. CASE ServerRejectsFrame
  <2>1. sQueue' \in Seq(Frames) /\ sSeen' \subseteq Frames
    BY <1>6, DequeueType DEF ServerRejectsFrame
  <2> QED
    BY <1>6, <2>1, FailInType DEF ServerRejectsFrame, FailIn
<1>7. CASE ServerAccept
  BY <1>0, <1>7 DEF ServerAccept
<1>8. CASE RefuseConnection
  BY <1>0, <1>8, FrameType, AppendProperties DEF RefuseConnection
<1>9. CASE ServerReceive
  BY <1>9, HeadTail, AppendProperties DEF ServerReceive
<1>10. CASE ServerReadsEnd
  BY <1>0, <1>10, HeadTail, StreamType, ShortStreams DEF ServerReadsEnd
<1>11. CASE ServerSocketClose
  BY <1>0, <1>11, ShortStreams DEF ServerSocketClose
<1>12. CASE ServerRespond
  <2>1. <<Frame("encrypted_data", sSend + 1, sKey)>> \in Seq(Frames)
    BY <1>0
  <2>2. StreamTypes' /\ StateTypes'
    BY <1>12, <2>1, StreamType DEF ServerRespond
  <2>3. ValueTypes'
    BY <1>12 DEF ServerRespond
  <2> QED
    BY <2>2, <2>3
<1>13. CASE ServerRespondAfterWipe
  <2>1. StreamTypes' /\ StateTypes'
    BY <1>13, FailInType DEF ServerRespondAfterWipe, FailIn
  <2>2. ValueTypes'
    BY <1>13 DEF ServerRespondAfterWipe
  <2> QED
    BY <2>1, <2>2
<1>14. CASE ServerServiceThrows
  BY <1>14, FailInType DEF ServerServiceThrows, FailIn
<1>15. CASE ServerTimeout
  BY <1>15, FailInType DEF ServerTimeout, FailIn
<1> QED
  BY <1>1, <1>2, <1>3, <1>4, <1>5, <1>6, <1>7, <1>8, <1>9, <1>10, <1>11, <1>12,
     <1>13, <1>14, <1>15 DEF ServerQueueStep, ServerIoStep, ServiceStep

\* What applications, the operator and the network do.
LEMMA ChoiceTypeStep ==
    ASSUME TypeOK, Choice
    PROVE  StreamTypes' /\ StateTypes' /\ ValueTypes'
<1> USE DEF TypeOK, StreamTypes, StateTypes, ValueTypes, envVars, clientVars, serverVars
<1>0. /\ \A t \in FrameTypes, n \in Nat, k \in Int : <<Frame(t, n, k)>> \in Seq(Frames)
      /\ "encrypted_data" \in FrameTypes /\ "close_notify" \in FrameTypes
      /\ NoKey \in Int /\ {"open", "destroyed", "closed"} \subseteq SockStates
  BY FrameType, ShortStreams DEF FrameTypes, NoKey, SockStates
<1>1. CASE ClientSendRaw
  <2>1. <<Frame("encrypted_data", cSend + 1, cKey)>> \in Seq(Frames)
    BY <1>0
  <2>2. StreamTypes' /\ StateTypes'
    BY <1>1, <2>1, StreamType DEF ClientSendRaw
  <2>3. ValueTypes'
    BY <1>1 DEF ClientSendRaw
  <2> QED
    BY <2>2, <2>3
<1>2. CASE ClientDisconnect
  <2>1. cKey' \in Int
    BY <1>0, <1>2 DEF ClientDisconnect, Disconnect
  <2> QED
    BY <1>2, <2>1, DisconnectType DEF ClientDisconnect
<1>3. CASE ClientHeartbeatDead
  BY <1>3, FailHandshakeType DEF ClientHeartbeatDead, FailHandshake, Reject
<1>4. CASE ClientSocketError
  BY <1>0, <1>4, StreamType, ShortStreams DEF ClientSocketError, Reject
<1>5. CASE ServerHeartbeatDead
  BY <1>5, FailInType DEF ServerHeartbeatDead, FailIn
<1>6. CASE ServerSocketError
  BY <1>0, <1>6, StreamType, ShortStreams DEF ServerSocketError
<1>7. CASE RotateKeys
  BY <1>7 DEF RotateKeys
<1>8. CASE BeginShutdown
  <2>1. <<Frame("close_notify", 0, NoKey)>> \in Seq(Frames)
    BY <1>0
  <2> DEFINE notice == <<Frame("close_notify", 0, NoKey)>>
  <2>2. /\ Written(sSock, s2c, notice) \in Seq(Frames)
        /\ AfterWrite(sSock) \in SockStates
    BY <2>1, StreamType
  <2>3. /\ s2c' = s2c \/ s2c' = Written(sSock, s2c, notice)
        /\ sSock' = sSock \/ sSock' = AfterWrite(sSock)
    BY <1>8 DEF BeginShutdown
  <2>4. UNCHANGED <<c2s, sQueue, cPhase, sPhase, cSock, cPromise, sFailed>>
    BY <1>8 DEF BeginShutdown
  <2> HIDE DEF notice
  <2>5. StreamTypes'
    BY <2>2, <2>3, <2>4
  <2>6. StateTypes'
    BY <2>2, <2>3, <2>4
  <2>7. ValueTypes'
    BY <1>8 DEF BeginShutdown
  <2> QED
    BY <2>5, <2>6, <2>7
<1>9. CASE ShutdownDeadline
  BY <1>0, <1>9, StreamType, ShortStreams DEF ShutdownDeadline
<1>10. CASE FaultToServer
  BY <1>10, MistreatedType DEF FaultToServer
<1>11. CASE FaultToClient
  BY <1>11, MistreatedType DEF FaultToClient
<1> QED
  BY <1>1, <1>2, <1>3, <1>4, <1>5, <1>6, <1>7, <1>8, <1>9, <1>10, <1>11 DEF Choice

LEMMA TypeStep == TypeOK /\ [Next]_vars => TypeOK'
<1> SUFFICES ASSUME TypeOK, [Next]_vars PROVE TypeOK'
  OBVIOUS
<1>1. FlagTypes'
  BY FlagStep DEF TypeOK
<1>2. StreamTypes' /\ StateTypes' /\ ValueTypes'
  <2>1. CASE UNCHANGED vars
    BY <2>1 DEF vars, envVars, clientVars, serverVars, TypeOK, StreamTypes,
                StateTypes, ValueTypes
  <2> QED
    BY <2>1, ClientTypeStep, ServerTypeStep, ChoiceTypeStep DEF Next
<1> QED
  BY <1>1, <1>2 DEF TypeOK

\* The state of a connection stays well-typed whatever its bounds are.
THEOREM TypeCorrect == Spec => []TypeOK
BY TypeInit, TypeStep, PTL DEF Spec

-----------------------------------------------------------------------------
(***************************************************************************)
(* Agreement on the channel key                                            *)
(***************************************************************************)

\* The server's phase only advances and, past "idle", its KEM key stays pinned.
LEMMA PinnedStays ==
    ASSUME [Next]_vars
    PROVE  /\ sPhase # "idle" => sPhase' # "idle" /\ sPinned' = sPinned
           /\ sPhase = "established" => sPhase' = "established"
<1> USE DEF envVars, clientVars, serverVars
<1>1. CASE ClientConnect \/ ClientTimeout
  BY <1>1 DEF ClientConnect, ClientTimeout
<1>2. CASE ClientStep
  BY <1>2 DEF ClientStep, ClientHandleServerHello, ClientHandleServerAuthResponse,
              ClientHandleEncryptedData, ClientFailsToDecrypt,
              ClientHandleCloseNotify, ClientRejectsFrame, ClientReadsEnd,
              ClientSocketClose
<1>3. CASE ServerQueueStep
  BY <1>3 DEF ServerQueueStep, ServerHandleClientHello,
              ServerHandleClientAuthResponse, ServerHandleEncryptedData,
              ServerFailsToDecrypt, ServerHandleCloseNotify, ServerRejectsFrame
<1>4. CASE ServerIoStep
  BY <1>4 DEF ServerIoStep, ServerAccept, RefuseConnection, ServerReceive,
              ServerReadsEnd, ServerSocketClose
<1>5. CASE ServiceStep \/ ServerTimeout
  BY <1>5 DEF ServiceStep, ServerRespond, ServerRespondAfterWipe,
              ServerServiceThrows, ServerTimeout
<1>6. CASE Choice
  BY <1>6 DEF Choice, ClientSendRaw, ClientDisconnect, ClientHeartbeatDead,
              ClientSocketError, ServerHeartbeatDead, ServerSocketError,
              RotateKeys, BeginShutdown, ShutdownDeadline, FaultToServer,
              FaultToClient
<1>7. CASE UNCHANGED vars
  BY <1>7 DEF vars
<1> QED
  BY <1>1, <1>2, <1>3, <1>4, <1>5, <1>6, <1>7 DEF Next

\* The numbers given to requests and replies only grow, one at a time.
LEMMA NumbersGrow ==
    ASSUME TypeOK, [Next]_vars
    PROVE  /\ cSend' \in {cSend, cSend + 1} /\ cSend <= cSend'
           /\ sSend' \in {sSend, sSend + 1} /\ sSend <= sSend'
<1> USE DEF envVars, clientVars, serverVars, TypeOK, ValueTypes
<1>1. CASE ClientConnect \/ ClientTimeout
  BY <1>1 DEF ClientConnect, ClientTimeout
<1>2. CASE ClientStep
  BY <1>2 DEF ClientStep, ClientHandleServerHello, ClientHandleServerAuthResponse,
              ClientHandleEncryptedData, ClientFailsToDecrypt,
              ClientHandleCloseNotify, ClientRejectsFrame, ClientReadsEnd,
              ClientSocketClose
<1>3. CASE ServerQueueStep
  BY <1>3 DEF ServerQueueStep, ServerHandleClientHello,
              ServerHandleClientAuthResponse, ServerHandleEncryptedData,
              ServerFailsToDecrypt, ServerHandleCloseNotify, ServerRejectsFrame
<1>4. CASE ServerIoStep
  BY <1>4 DEF ServerIoStep, ServerAccept, RefuseConnection, ServerReceive,
              ServerReadsEnd, ServerSocketClose
<1>5. CASE ServiceStep \/ ServerTimeout
  BY <1>5 DEF ServiceStep, ServerRespond, ServerRespondAfterWipe,
              ServerServiceThrows, ServerTimeout
<1>6. CASE Choice
  BY <1>6 DEF Choice, ClientSendRaw, ClientDisconnect, ClientHeartbeatDead,
              ClientSocketError, ServerHeartbeatDead, ServerSocketError,
              RotateKeys, BeginShutdown, ShutdownDeadline, FaultToServer,
              FaultToClient
<1>7. CASE UNCHANGED vars
  BY <1>7 DEF vars
<1> QED
  BY <1>1, <1>2, <1>3, <1>4, <1>5, <1>6, <1>7 DEF Next

\* So a frame that was fit to be on its way stays fit.
LEMMA FitFramesStay ==
    ASSUME TypeOK, [Next]_vars
    PROVE  ToServer \subseteq ToServer' /\ ToClient \subseteq ToClient'
BY PinnedStays, NumbersGrow DEF ToServer, ToClient, Pinned, Frames, TypeOK, ValueTypes

\* Frames that carry neither a KEM key nor a number and promise nothing are always fit.
LEMMA PlainFrames ==
    /\ \A t \in {"client_hello", "close_notify", "fin", "garbled", "handshake_error"},
          n \in Nat, k \in Int :
          Frame(t, n, k) \in ToServer /\ Frame(t, n, k) \in ToClient
    /\ Fin \in ToServer /\ Fin \in ToClient
    /\ ErrorMsg \in ToClient
BY DEF ToServer, ToClient, Frame, Frames, FrameTypes, Fin, ErrorMsg, NoKey

\* Writing fit frames to a stream of fit frames, and ending it, keep it so.
LEMMA FitStream ==
    ASSUME NEW S, Fin \in S, NEW sock, NEW stream \in Seq(S), NEW frames \in Seq(S)
    PROVE  Written(sock, stream, frames) \in Seq(S) /\ Ended(sock, stream) \in Seq(S)
BY DEF Written, Ended

LEMMA FitWrite ==
    ASSUME NEW S, Fin \in S, NEW sock, NEW stream \in Seq(S), NEW m \in S
    PROVE  Written(sock, stream, <<m>>) \in Seq(S)
<1>1. <<m>> \in Seq(S)
  OBVIOUS
<1> QED
  BY <1>1, FitStream

\* Network faults keep it so too.
LEMMA FitAfterFault ==
    ASSUME NEW S, S \in {ToServer, ToClient}, NEW stream \in Seq(S), stream # <<>>
    PROVE  Mistreated(stream) \subseteq Seq(S)
<1>1. Head(stream) \in S /\ Tail(stream) \in Seq(S)
  BY HeadTailProperties
<1>2. ASSUME NEW m \in S, NEW d \in Damaged(m)
      PROVE  d \in S
  <2>1. m \in Frames
    BY DEF ToServer, ToClient
  <2>2. CASE d = Garbled
    BY <2>2, PlainFrames DEF Garbled, NoKey
  <2>3. CASE m.type = "encrypted_data" /\ d = Frame("encrypted_data", m.seq, NoKey)
    <3>1. d \in Frames /\ d.type = "encrypted_data" /\ d.seq = m.seq /\ d.key # WrongKey
      BY <2>1, <2>3, DamagedFrame DEF Frame, NoKey, WrongKey
    <3> QED
      BY <2>3, <3>1 DEF ToServer, ToClient
  <2>4. CASE d = Frame("client_hello", 0, WrongKey)
    BY <2>4, PlainFrames DEF WrongKey
  <2>5. CASE d = DamagedAuth
    <3>1. d \in Frames /\ d.type = "client_auth_response"
      BY <2>5 DEF DamagedAuth, Frame, Frames, FrameTypes, WrongKey
    <3> QED
      BY <2>5, <3>1 DEF ToServer, ToClient
  <2> QED
    BY <2>1, <2>2, <2>3, <2>4, <2>5, DamagedFrame DEF DamagedAuth
<1>3. <<Head(stream)>> \o stream \in Seq(S)
  BY <1>1, ConcatProperties
<1>4. ASSUME NEW m \in Damaged(Head(stream)) PROVE <<m>> \o Tail(stream) \in Seq(S)
  <2>1. m \in S
    BY <1>1, <1>2
  <2> QED
    BY <1>1, <2>1, ConcatProperties
<1> QED
  BY <1>1, <1>3, <1>4 DEF Mistreated

\* What fail() leaves on the stream to the client is fit.
LEMMA FitAfterFail ==
    ASSUME s2c \in Seq(ToClient), NEW phase, FailIn(phase)
    PROVE  s2c' \in Seq(ToClient)
<1> DEFINE notify == IF phase \in Secured THEN <<>> ELSE <<ErrorMsg>>
<1>1. notify \in Seq(ToClient)
  BY PlainFrames
<1>2. Written(sSock, s2c, notify) \in Seq(ToClient)
  BY <1>1, PlainFrames, FitStream
<1> QED
  BY <1>2, PlainFrames, FitStream, EmptySeq DEF FailIn

\* So is what failHandshake() and disconnect() leave on the stream to the server.
LEMMA FitAfterClientEnds ==
    ASSUME c2s \in Seq(ToServer), FailHandshake \/ Disconnect
    PROVE  c2s' \in Seq(ToServer)
<1> DEFINE notify == IF cComplete THEN <<Frame("close_notify", 0, NoKey)>> ELSE <<>>
<1>1. notify \in Seq(ToServer)
  BY PlainFrames DEF NoKey
<1>2. Written(cSock, c2s, notify) \in Seq(ToServer)
  BY <1>1, PlainFrames, FitStream
<1>3. CASE FailHandshake
  BY <1>3, PlainFrames, FitStream, EmptySeq DEF FailHandshake
<1>4. CASE Disconnect
  BY <1>2, <1>4, PlainFrames, FitStream, EmptySeq DEF Disconnect
<1> QED
  BY <1>3, <1>4

\* A client handler takes a fit frame and leaves a fit stream.
LEMMA ClientTakesFit ==
    ASSUME ChannelInv, NEW type, ClientReceives(type)
    PROVE  /\ Head(s2c) \in ToClient /\ Head(s2c).type = type
           /\ s2c' \in Seq(ToClient)
BY HeadTailProperties DEF ChannelInv, ClientReceives

\* So does the server's queue.
LEMMA QueueTakesFit ==
    ASSUME ChannelInv, Dequeue
    PROVE  Head(sQueue) \in ToServer /\ sQueue' \in Seq(ToServer)
BY HeadTailProperties DEF ChannelInv, Dequeue

\* Every step leaves fit frames on both streams and in the queue.
StreamsFit ==
    c2s \in Seq(ToServer) /\ sQueue \in Seq(ToServer) /\ s2c \in Seq(ToClient)

LEMMA StreamsGrow ==
    ASSUME TypeOK, [Next]_vars, c2s' \in Seq(ToServer), sQueue' \in Seq(ToServer),
           s2c' \in Seq(ToClient)
    PROVE  StreamsFit'
BY FitFramesStay, SeqMonotonic DEF StreamsFit

LEMMA ClientFitStep ==
    ASSUME TypeOK, ChannelInv, [Next]_vars,
           ClientConnect \/ ClientStep \/ ClientTimeout
    PROVE  StreamsFit'
<1> SUFFICES c2s' \in Seq(ToServer) /\ sQueue' \in Seq(ToServer) /\ s2c' \in Seq(ToClient)
  BY StreamsGrow
<1> USE DEF ChannelInv, serverVars
<1>1. CASE ClientConnect
  BY <1>1, PlainFrames, AppendProperties DEF ClientConnect, NoKey
<1>2. CASE ClientTimeout
  BY <1>2, FitAfterClientEnds DEF ClientTimeout
<1>3. CASE ClientHandleServerHello
  <2>1. /\ Head(s2c) \in ToClient /\ Head(s2c).type = "server_hello"
        /\ s2c' \in Seq(ToClient)
    BY <1>3, ClientTakesFit DEF ClientHandleServerHello
  <2>2. Pinned(Head(s2c).key) /\ Head(s2c).key \in Int
    BY <2>1 DEF ToClient, Frames
  <2>3. Frame("client_auth_response", 0, Head(s2c).key) \in ToServer
    BY <2>2 DEF ToServer, Frame, Frames, FrameTypes
  <2>4. Written(cSock, c2s, <<Frame("client_auth_response", 0, Head(s2c).key)>>)
           \in Seq(ToServer)
    BY <2>3, PlainFrames, FitWrite
  <2> QED
    BY <1>3, <2>1, <2>4 DEF ClientHandleServerHello
<1>4. CASE ClientHandleServerAuthResponse
  BY <1>4, ClientTakesFit DEF ClientHandleServerAuthResponse
<1>5. CASE ClientHandleEncryptedData
  BY <1>5, ClientTakesFit DEF ClientHandleEncryptedData
<1>6. CASE ClientFailsToDecrypt
  BY <1>6, ClientTakesFit, FitAfterClientEnds DEF ClientFailsToDecrypt
<1>7. CASE ClientHandleCloseNotify
  BY <1>7, ClientTakesFit, FitAfterClientEnds DEF ClientHandleCloseNotify
<1>8. CASE ClientRejectsFrame
  BY <1>8, HeadTailProperties, FitAfterClientEnds DEF ClientRejectsFrame
<1>9. CASE ClientReadsEnd
  BY <1>9, HeadTailProperties, PlainFrames, FitStream, EmptySeq DEF ClientReadsEnd
<1>10. CASE ClientSocketClose
  BY <1>10, EmptySeq DEF ClientSocketClose
<1> QED
  BY <1>1, <1>2, <1>3, <1>4, <1>5, <1>6, <1>7, <1>8, <1>9, <1>10 DEF ClientStep

LEMMA ServerFitStep ==
    ASSUME TypeOK, ChannelInv, [Next]_vars,
           ServerQueueStep \/ ServerIoStep \/ ServiceStep \/ ServerTimeout
    PROVE  StreamsFit'
<1> USE DEF ChannelInv
<1>1. CASE ServerHandleClientHello
  \* The one step that makes a KEM key fit: it pins it.
  <2>1. c2s' \in Seq(ToServer') /\ sQueue' \in Seq(ToServer')
    BY <1>1, QueueTakesFit, FitFramesStay, SeqMonotonic
       DEF ServerHandleClientHello, ServerHandles
  <2>2. ServerHello(Head(sQueue)) \in ToClient'
    <3>1. Frame("server_hello", 0, kemEpoch) \in ToClient'
      BY <1>1 DEF ServerHandleClientHello, ToClient, Pinned, Frame, Frames, FrameTypes,
                  TypeOK, ValueTypes
    <3>2. Garbled \in ToClient'
      BY PlainFrames, FitFramesStay DEF Garbled, NoKey
    <3> QED
      BY <3>1, <3>2 DEF ServerHello
  <2>3. s2c \in Seq(ToClient') /\ Fin \in ToClient'
    BY PlainFrames, FitFramesStay, SeqMonotonic
  <2>4. Written(sSock, s2c, <<ServerHello(Head(sQueue))>>) \in Seq(ToClient')
    BY <2>2, <2>3, FitWrite
  <2> QED
    BY <1>1, <2>1, <2>4 DEF ServerHandleClientHello, StreamsFit
<1>2. CASE ServerHandleClientAuthResponse
  <2>1. c2s' \in Seq(ToServer') /\ sQueue' \in Seq(ToServer')
    BY <1>2, QueueTakesFit, FitFramesStay, SeqMonotonic
       DEF ServerHandleClientAuthResponse, ServerHandles
  <2>2. Frame("server_auth_response", 0, NoKey) \in ToClient'
    BY <1>2 DEF ServerHandleClientAuthResponse, ToClient, Frame, Frames, FrameTypes, NoKey
  <2>3. s2c \in Seq(ToClient') /\ Fin \in ToClient'
    BY PlainFrames, FitFramesStay, SeqMonotonic
  <2>4. Written(sSock, s2c, <<Frame("server_auth_response", 0, NoKey)>>) \in Seq(ToClient')
    BY <2>2, <2>3, FitWrite
  <2> QED
    BY <1>2, <2>1, <2>4 DEF ServerHandleClientAuthResponse, StreamsFit
<1>3. CASE ServerHandleEncryptedData
  BY <1>3, QueueTakesFit, StreamsGrow DEF ServerHandleEncryptedData, ServerHandles
<1>4. CASE ServerFailsToDecrypt
  BY <1>4, QueueTakesFit, FitAfterFail, StreamsGrow DEF ServerFailsToDecrypt, ServerHandles
<1>5. CASE ServerHandleCloseNotify
  BY <1>5, QueueTakesFit, PlainFrames, FitStream, EmptySeq, StreamsGrow
     DEF ServerHandleCloseNotify, ServerHandles
<1>6. CASE ServerRejectsFrame
  BY <1>6, QueueTakesFit, FitAfterFail, StreamsGrow DEF ServerRejectsFrame
<1>7. CASE ServerAccept
  BY <1>7, StreamsGrow DEF ServerAccept
<1>8. CASE RefuseConnection
  BY <1>8, PlainFrames, AppendProperties, StreamsGrow DEF RefuseConnection
<1>9. CASE ServerReceive
  <2>1. Head(c2s) \in ToServer /\ Tail(c2s) \in Seq(ToServer)
    BY <1>9, HeadTailProperties DEF ServerReceive
  <2> QED
    BY <1>9, <2>1, AppendProperties, StreamsGrow DEF ServerReceive
<1>10. CASE ServerReadsEnd
  BY <1>10, HeadTailProperties, PlainFrames, FitStream, EmptySeq, StreamsGrow
     DEF ServerReadsEnd
<1>11. CASE ServerSocketClose
  BY <1>11, EmptySeq, StreamsGrow DEF ServerSocketClose
<1>12. CASE ServerRespond
  <2>1. Frame("encrypted_data", sSend + 1, sKey) \in ToClient'
    BY <1>12 DEF ServerRespond, ToClient, Frame, Frames, FrameTypes, TypeOK, ValueTypes
  <2>2. /\ c2s \in Seq(ToServer') /\ sQueue \in Seq(ToServer')
        /\ s2c \in Seq(ToClient') /\ Fin \in ToClient'
    BY PlainFrames, FitFramesStay, SeqMonotonic
  <2>3. Written(sSock, s2c, <<Frame("encrypted_data", sSend + 1, sKey)>>) \in Seq(ToClient')
    BY <2>1, <2>2, FitWrite
  <2> QED
    BY <1>12, <2>2, <2>3 DEF ServerRespond, StreamsFit
<1>13. CASE ServerRespondAfterWipe \/ ServerServiceThrows \/ ServerTimeout
  BY <1>13, FitAfterFail, StreamsGrow
     DEF ServerRespondAfterWipe, ServerServiceThrows, ServerTimeout
<1> QED
  BY <1>1, <1>2, <1>3, <1>4, <1>5, <1>6, <1>7, <1>8, <1>9, <1>10, <1>11, <1>12,
     <1>13 DEF ServerQueueStep, ServerIoStep, ServiceStep

LEMMA ChoiceFitStep ==
    ASSUME TypeOK, ChannelInv, [Next]_vars, Choice
    PROVE  StreamsFit'
<1> USE DEF ChannelInv, serverVars
<1>1. CASE ClientSendRaw
  <2>0. cKey # WrongKey
    BY <1>1 DEF ClientSendRaw, Pinned, WrongKey
  <2>1. Frame("encrypted_data", cSend + 1, cKey) \in ToServer'
    BY <1>1, <2>0 DEF ClientSendRaw, ToServer, Frame, Frames, FrameTypes, TypeOK, ValueTypes
  <2>2. /\ c2s \in Seq(ToServer') /\ sQueue \in Seq(ToServer')
        /\ s2c \in Seq(ToClient') /\ Fin \in ToServer'
    BY PlainFrames, FitFramesStay, SeqMonotonic
  <2>3. Written(cSock, c2s, <<Frame("encrypted_data", cSend + 1, cKey)>>) \in Seq(ToServer')
    BY <2>1, <2>2, FitWrite
  <2> QED
    BY <1>1, <2>2, <2>3 DEF ClientSendRaw, StreamsFit
<1> USE StreamsGrow
<1>2. CASE ClientDisconnect \/ ClientHeartbeatDead
  BY <1>2, FitAfterClientEnds DEF ClientDisconnect, ClientHeartbeatDead
<1>3. CASE ClientSocketError
  BY <1>3, PlainFrames, FitStream, EmptySeq DEF ClientSocketError
<1>4. CASE ServerHeartbeatDead
  BY <1>4, FitAfterFail DEF ServerHeartbeatDead
<1>5. CASE ServerSocketError \/ ShutdownDeadline
  BY <1>5, PlainFrames, FitStream, EmptySeq DEF ServerSocketError, ShutdownDeadline
<1>6. CASE RotateKeys
  BY <1>6 DEF RotateKeys
<1>7. CASE BeginShutdown
  <2>1. Frame("close_notify", 0, NoKey) \in ToClient
    BY PlainFrames DEF NoKey
  <2>2. Written(sSock, s2c, <<Frame("close_notify", 0, NoKey)>>) \in Seq(ToClient)
    BY <2>1, PlainFrames, FitWrite
  <2> QED
    BY <1>7, <2>2 DEF BeginShutdown
<1>8. CASE FaultToServer
  BY <1>8, FitAfterFault DEF FaultToServer
<1>9. CASE FaultToClient
  BY <1>9, FitAfterFault DEF FaultToClient
<1> QED
  BY <1>1, <1>2, <1>3, <1>4, <1>5, <1>6, <1>7, <1>8, <1>9 DEF Choice

\* As long as the server has not secured the channel, or holds a key that is not the
\* client's, nothing is handed over: no record opens under that key.
LEMMA UnusedStays ==
    ASSUME TypeOK, ChannelInv, [Next]_vars, Unused,
           sPhase # "established" \/ sKey = WrongKey
    PROVE  Unused'
<1> USE DEF envVars, clientVars, serverVars, Unused
<1>1. CASE ServerHandleEncryptedData
  <2>1. Head(sQueue) \in ToServer /\ Head(sQueue).type = "encrypted_data"
    BY <1>1, QueueTakesFit DEF ServerHandleEncryptedData, ServerHandles
  <2>2. Head(sQueue).key # WrongKey
    BY <2>1 DEF ToServer
  <2> QED
    BY <1>1, <2>2 DEF ServerHandleEncryptedData, Secured
<1>2. CASE ClientHandleEncryptedData
  <2>1. Head(s2c) \in ToClient /\ Head(s2c).type = "encrypted_data"
    BY <1>2, ClientTakesFit DEF ClientHandleEncryptedData
  <2>2. Head(s2c).seq <= 0 /\ Head(s2c).seq = cRecv + 1 /\ cRecv \in Nat
    BY <1>2, <2>1 DEF ToClient, ClientHandleEncryptedData, NextInSequence, TypeOK, ValueTypes
  <2> QED
    BY <2>2
<1>3. CASE ServiceStep
  BY <1>3 DEF ServiceStep, ServerRespond, ServerRespondAfterWipe, ServerServiceThrows
<1>4. CASE ClientConnect \/ ClientTimeout \/ ServerTimeout
  BY <1>4 DEF ClientConnect, ClientTimeout, ServerTimeout
<1>5. CASE ClientStep /\ ~ClientHandleEncryptedData
  BY <1>5 DEF ClientStep, ClientHandleServerHello, ClientHandleServerAuthResponse,
              ClientFailsToDecrypt, ClientHandleCloseNotify, ClientRejectsFrame,
              ClientReadsEnd, ClientSocketClose
<1>6. CASE ServerQueueStep /\ ~ServerHandleEncryptedData
  BY <1>6 DEF ServerQueueStep, ServerHandleClientHello, ServerHandleClientAuthResponse,
              ServerFailsToDecrypt, ServerHandleCloseNotify, ServerRejectsFrame
<1>7. CASE ServerIoStep
  BY <1>7 DEF ServerIoStep, ServerAccept, RefuseConnection, ServerReceive,
              ServerReadsEnd, ServerSocketClose
<1>8. CASE Choice
  BY <1>8 DEF Choice, ClientSendRaw, ClientDisconnect, ClientHeartbeatDead,
              ClientSocketError, ServerHeartbeatDead, ServerSocketError,
              RotateKeys, BeginShutdown, ShutdownDeadline, FaultToServer,
              FaultToClient
<1>9. CASE UNCHANGED vars
  BY <1>9 DEF vars
<1> QED
  BY <1>1, <1>2, <1>3, <1>4, <1>5, <1>6, <1>7, <1>8, <1>9 DEF Next

\* What the server's queue has run it has run.
LEMMA SeenStays ==
    ASSUME [Next]_vars
    PROVE  sSeen \subseteq sSeen'
<1> USE DEF envVars, clientVars, serverVars
<1>1. CASE ClientConnect \/ ClientTimeout
  BY <1>1 DEF ClientConnect, ClientTimeout
<1>2. CASE ClientStep
  BY <1>2 DEF ClientStep, ClientHandleServerHello, ClientHandleServerAuthResponse,
              ClientHandleEncryptedData, ClientFailsToDecrypt,
              ClientHandleCloseNotify, ClientRejectsFrame, ClientReadsEnd,
              ClientSocketClose
<1>3. CASE ServerQueueStep
  BY <1>3 DEF ServerQueueStep, ServerHandleClientHello, ServerHandleClientAuthResponse,
              ServerHandleEncryptedData, ServerFailsToDecrypt, ServerHandleCloseNotify,
              ServerRejectsFrame, ServerHandles, Dequeue
<1>4. CASE ServerIoStep
  BY <1>4 DEF ServerIoStep, ServerAccept, RefuseConnection, ServerReceive,
              ServerReadsEnd, ServerSocketClose
<1>5. CASE ServiceStep \/ ServerTimeout
  BY <1>5 DEF ServiceStep, ServerRespond, ServerRespondAfterWipe,
              ServerServiceThrows, ServerTimeout
<1>6. CASE Choice
  BY <1>6 DEF Choice, ClientSendRaw, ClientDisconnect, ClientHeartbeatDead,
              ClientSocketError, ServerHeartbeatDead, ServerSocketError,
              RotateKeys, BeginShutdown, ShutdownDeadline, FaultToServer,
              FaultToClient
<1>7. CASE UNCHANGED vars
  BY <1>7 DEF vars
<1> QED
  BY <1>1, <1>2, <1>3, <1>4, <1>5, <1>6, <1>7 DEF Next

\* The endpoints' keys: set from a fit frame, or wiped.
Mismatched == sKey = WrongKey /\ Unused /\ DamagedAuth \in sSeen

LEMMA KeysStep ==
    ASSUME TypeOK, ChannelInv, [Next]_vars
    PROVE  /\ cKey' # NoKey => Pinned(cKey)'
           /\ sKey' = NoKey \/ Pinned(sKey)' \/ Mismatched'
           /\ sPhase' # "established" => Unused'
           /\ cComplete' => sPhase' = "established"
<1>0. sPhase' # "established" => Unused'
  BY PinnedStays, UnusedStays DEF ChannelInv
<1>5. Mismatched /\ UNCHANGED sKey => Mismatched'
  BY UnusedStays, SeenStays DEF Mismatched
<1> USE DEF envVars, clientVars, serverVars
<1>1. \/ UNCHANGED <<cKey, sKey, cComplete>>
      \/ cKey' = NoKey /\ UNCHANGED <<sKey, cComplete>>
      \/ sKey' = NoKey /\ UNCHANGED <<cKey, cComplete>>
      \/ ClientHandleServerHello
      \/ ClientHandleServerAuthResponse
      \/ ServerHandleClientAuthResponse
  <2>1. CASE ClientConnect \/ ClientTimeout
    BY <2>1 DEF ClientConnect, ClientTimeout
  <2>2. CASE ClientStep
    BY <2>2 DEF ClientStep, ClientHandleEncryptedData, ClientFailsToDecrypt,
                ClientHandleCloseNotify, ClientRejectsFrame, ClientReadsEnd,
                ClientSocketClose, Disconnect
  <2>3. CASE ServerQueueStep
    BY <2>3 DEF ServerQueueStep, ServerHandleClientHello,
                ServerHandleEncryptedData, ServerFailsToDecrypt,
                ServerHandleCloseNotify, ServerRejectsFrame
  <2>4. CASE ServerIoStep
    BY <2>4 DEF ServerIoStep, ServerAccept, RefuseConnection, ServerReceive,
                ServerReadsEnd, ServerSocketClose
  <2>5. CASE ServiceStep \/ ServerTimeout
    BY <2>5 DEF ServiceStep, ServerRespond, ServerRespondAfterWipe,
                ServerServiceThrows, ServerTimeout
  <2>6. CASE Choice
    BY <2>6 DEF Choice, ClientSendRaw, ClientDisconnect, ClientHeartbeatDead,
                ClientSocketError, ServerHeartbeatDead, ServerSocketError,
                RotateKeys, BeginShutdown, ShutdownDeadline, FaultToServer,
                FaultToClient, Disconnect
  <2>7. CASE UNCHANGED vars
    BY <2>7 DEF vars
  <2> QED
    BY <2>1, <2>2, <2>3, <2>4, <2>5, <2>6, <2>7 DEF Next
<1>2. CASE ClientHandleServerHello
  <2>1. Pinned(Head(s2c).key)
    BY <1>2, ClientTakesFit DEF ClientHandleServerHello, ToClient
  <2>2. UNCHANGED <<sKey, sPhase, sPinned, cComplete>> /\ cKey' = Head(s2c).key
    BY <1>2 DEF ClientHandleServerHello
  <2> QED
    BY <1>0, <1>5, <2>1, <2>2 DEF ChannelInv, Pinned, Mismatched
<1>3. CASE ClientHandleServerAuthResponse
  <2>1. sPhase = "established"
    BY <1>3, ClientTakesFit DEF ClientHandleServerAuthResponse, ToClient
  <2>2. UNCHANGED <<sKey, cKey, sPhase, sPinned>>
    BY <1>3 DEF ClientHandleServerAuthResponse
  <2> QED
    BY <1>0, <1>5, <2>1, <2>2 DEF ChannelInv, Pinned, Mismatched
<1>4. CASE ServerHandleClientAuthResponse
  <2>1. /\ Head(sQueue) \in ToServer /\ Head(sQueue).type = "client_auth_response"
        /\ sSeen' = sSeen \cup {Head(sQueue)}
    BY <1>4, QueueTakesFit DEF ServerHandleClientAuthResponse, ServerHandles, Dequeue
  <2>2. sKey' = Decapsulate(sPinned, Head(sQueue).key)
    BY <1>4 DEF ServerHandleClientAuthResponse, HandshakeKem
  <2>3. UNCHANGED <<cKey, cComplete, sPinned>> /\ sPhase' = "established"
    BY <1>4 DEF ServerHandleClientAuthResponse
  <2>4. CASE Pinned(Head(sQueue).key)
    <3>1. Pinned(sKey)'
      BY <2>2, <2>3, <2>4 DEF Decapsulate, Pinned
    <3> QED
      BY <2>3, <3>1, <1>0 DEF ChannelInv, Pinned
  <2>5. CASE Head(sQueue) = DamagedAuth
    <3>1. sKey' = WrongKey
      BY <2>2, <2>5 DEF Decapsulate, DamagedAuth, Frame
    <3>2. Unused
      BY <1>4 DEF ServerHandleClientAuthResponse, ChannelInv
    <3>3. Unused'
      BY <1>4, <3>2, UnusedStays DEF ServerHandleClientAuthResponse
    <3> QED
      BY <2>1, <2>3, <2>5, <3>1, <3>3, <1>0 DEF ChannelInv, Pinned, Mismatched
  <2> QED
    BY <2>1, <2>4, <2>5 DEF ToServer
<1> QED
  BY <1>0, <1>1, <1>2, <1>3, <1>4, <1>5, PinnedStays DEF ChannelInv, Pinned, Mismatched

LEMMA ChannelInit == Init => ChannelInv
BY EmptySeq DEF Init, ChannelInv, Unused

LEMMA ChannelStep == TypeOK /\ ChannelInv /\ [Next]_vars => ChannelInv'
<1> SUFFICES ASSUME TypeOK, ChannelInv, [Next]_vars PROVE ChannelInv'
  OBVIOUS
<1>1. StreamsFit'
  <2>1. CASE UNCHANGED vars
    BY <2>1, StreamsGrow DEF ChannelInv, vars, serverVars
  <2> QED
    BY <2>1, ClientFitStep, ServerFitStep, ChoiceFitStep DEF Next
<1> QED
  BY <1>1, KeysStep DEF ChannelInv, StreamsFit, Mismatched

\* On every connection a KEM key in play is the pinned one or comes of a damaged
\* encapsulation, under which nothing is carried; and server_auth_response means an
\* established server.
THEOREM ChannelInvariant == Spec => []ChannelInv
BY TypeCorrect, ChannelInit, ChannelStep, PTL DEF Spec

\* Both ends of a completed handshake hold one channel key, through key rotations,
\* lost and repeated frames, and late answers; but for a damaged encapsulatedKey, and
\* then nothing is handed over on either side.
THEOREM KeysAgree == Spec => []KeyAgreement
<1>1. ChannelInv => KeyAgreement
  BY DEF ChannelInv, KeyAgreement, Pinned, Unused
<1> QED
  BY <1>1, ChannelInvariant, PTL

\* No client completes its handshake before its server is established.
THEOREM ServerFirst == Spec => []ServerEstablishedFirst
<1>1. ChannelInv => ServerEstablishedFirst
  BY DEF ChannelInv, ServerEstablishedFirst
<1> QED
  BY <1>1, ChannelInvariant, PTL

-----------------------------------------------------------------------------
(***************************************************************************)
(* The ends of the connection: phases, timers and the "close" events       *)
(***************************************************************************)

\* A phase tells whether its end has secured the channel, a socket that is closed
\* leaves nothing armed, and what is still queued then is behind a pending request.
EndsInv ==
    /\ cPhase = "established" => cComplete
    /\ cComplete => cPhase = "established"
    /\ cSock = "none" => cPhase = "idle"
    /\ cSock = "closed" => cKey = NoKey /\ ~cTimer /\ ~cHeartbeat
    /\ sPending # 0 => sPhase = "established"
    /\ sSock = "closed" => sKey = NoKey /\ ~sTimer /\ ~sHeartbeat
    /\ sSock = "closed" => sQueue = <<>> \/ sPhase = "established"

LEMMA EndsInit == Init => EndsInv
BY DEF Init, EndsInv

LEMMA ClientEndsStep ==
    ASSUME TypeOK, EndsInv, ClientConnect \/ ClientStep \/ ClientTimeout
    PROVE  EndsInv'
<1> USE DEF EndsInv, Listening, envVars, serverVars
<1>1. CASE ClientConnect
  BY <1>1 DEF ClientConnect
<1>2. CASE ClientTimeout
  BY <1>2 DEF ClientTimeout, FailHandshake, ClientStops, AfterEnd
<1>3. CASE ClientHandleServerHello
  BY <1>3 DEF ClientHandleServerHello, ClientReceives, AfterWrite
<1>4. CASE ClientHandleServerAuthResponse
  BY <1>4 DEF ClientHandleServerAuthResponse, ClientReceives
<1>5. CASE ClientHandleEncryptedData
  BY <1>5 DEF ClientHandleEncryptedData
<1>6. CASE ClientFailsToDecrypt
  BY <1>6 DEF ClientFailsToDecrypt, FailHandshake, ClientStops, AfterEnd
<1>7. CASE ClientHandleCloseNotify
  BY <1>7 DEF ClientHandleCloseNotify, Disconnect, ClientStops, AfterEnd, AfterWrite
<1>8. CASE ClientRejectsFrame
  BY <1>8 DEF ClientRejectsFrame, FailHandshake, ClientStops, AfterEnd
<1>9. CASE ClientReadsEnd
  BY <1>9 DEF ClientReadsEnd
<1>10. CASE ClientSocketClose
  BY <1>10 DEF ClientSocketClose, ClientStops
<1> QED
  BY <1>1, <1>2, <1>3, <1>4, <1>5, <1>6, <1>7, <1>8, <1>9, <1>10 DEF ClientStep

LEMMA ServerEndsStep ==
    ASSUME TypeOK, EndsInv, ServerQueueStep \/ ServerIoStep \/ ServiceStep \/ ServerTimeout
    PROVE  EndsInv'
<1> USE DEF EndsInv, Listening, envVars, clientVars
<1>1. CASE ServerHandleClientHello
  BY <1>1 DEF ServerHandleClientHello, ServerHandles, Dequeue, AfterWrite
<1>2. CASE ServerHandleClientAuthResponse
  BY <1>2 DEF ServerHandleClientAuthResponse, ServerHandles, Dequeue, AfterWrite
<1>3. CASE ServerHandleEncryptedData
  BY <1>3 DEF ServerHandleEncryptedData, ServerHandles, Dequeue, Secured
<1>4. CASE ServerFailsToDecrypt
  BY <1>4 DEF ServerFailsToDecrypt, ServerHandles, Dequeue, FailIn, AfterWrite, AfterEnd
<1>5. CASE ServerHandleCloseNotify
  BY <1>5 DEF ServerHandleCloseNotify, ServerHandles, Dequeue, AfterEnd
<1>6. CASE ServerRejectsFrame
  BY <1>6 DEF ServerRejectsFrame, Dequeue, FailIn, AfterWrite, AfterEnd
<1>7. CASE ServerAccept
  BY <1>7 DEF ServerAccept
<1>8. CASE RefuseConnection
  BY <1>8 DEF RefuseConnection
<1>9. CASE ServerReceive
  BY <1>9 DEF ServerReceive
<1>10. CASE ServerReadsEnd
  BY <1>10 DEF ServerReadsEnd
<1>11. CASE ServerSocketClose
  BY <1>11 DEF ServerSocketClose, LoopFree
<1>12. CASE ServerRespond
  BY <1>12 DEF ServerRespond, AfterWrite
<1>13. CASE ServerRespondAfterWipe
  BY <1>13 DEF ServerRespondAfterWipe, FailIn, AfterWrite, AfterEnd
<1>14. CASE ServerServiceThrows
  BY <1>14 DEF ServerServiceThrows, FailIn, AfterWrite, AfterEnd
<1>15. CASE ServerTimeout
  BY <1>15 DEF ServerTimeout, FailIn, AfterWrite, AfterEnd
<1> QED
  BY <1>1, <1>2, <1>3, <1>4, <1>5, <1>6, <1>7, <1>8, <1>9, <1>10, <1>11, <1>12,
     <1>13, <1>14, <1>15 DEF ServerQueueStep, ServerIoStep, ServiceStep

LEMMA ChoiceEndsStep ==
    ASSUME TypeOK, EndsInv, Choice
    PROVE  EndsInv'
<1> USE DEF EndsInv, Listening, envVars, clientVars, serverVars
<1>1. CASE ClientSendRaw
  BY <1>1 DEF ClientSendRaw, AfterWrite
<1>2. CASE ClientDisconnect
  BY <1>2 DEF ClientDisconnect, Disconnect, ClientStops, AfterEnd, AfterWrite
<1>3. CASE ClientHeartbeatDead
  BY <1>3 DEF ClientHeartbeatDead, FailHandshake, ClientStops, AfterEnd
<1>4. CASE ClientSocketError
  BY <1>4 DEF ClientSocketError
<1>5. CASE ServerHeartbeatDead
  BY <1>5 DEF ServerHeartbeatDead, FailIn, AfterWrite, AfterEnd
<1>6. CASE ServerSocketError \/ ShutdownDeadline
  BY <1>6 DEF ServerSocketError, ShutdownDeadline
<1>7. CASE RotateKeys \/ FaultToServer \/ FaultToClient
  BY <1>7 DEF RotateKeys, FaultToServer, FaultToClient
<1>8. CASE BeginShutdown
  BY <1>8 DEF BeginShutdown, AfterWrite
<1> QED
  BY <1>1, <1>2, <1>3, <1>4, <1>5, <1>6, <1>7, <1>8 DEF Choice

LEMMA EndsStep == TypeOK /\ EndsInv /\ [Next]_vars => EndsInv'
<1> SUFFICES ASSUME TypeOK, EndsInv, [Next]_vars PROVE EndsInv'
  OBVIOUS
<1>1. CASE UNCHANGED vars
  BY <1>1 DEF vars, clientVars, serverVars, EndsInv
<1> QED
  BY <1>1, ClientEndsStep, ServerEndsStep, ChoiceEndsStep DEF Next

\* Each end's phase, promise and key go together with its socket, and the 'close'
\* handlers leave neither key nor timer.
THEOREM EndsInvariant == Spec => []EndsInv
BY TypeCorrect, EndsInit, EndsStep, PTL DEF Spec

\* Once its "close" event has run, an end holds no key and nothing is armed, although
\* the server may handle queued frames after the event.
THEOREM CloseIsFinal == Spec => []NothingOutlivesClose
<1>1. EndsInv => NothingOutlivesClose
  BY DEF EndsInv, NothingOutlivesClose
<1> QED
  BY <1>1, EndsInvariant, PTL

-----------------------------------------------------------------------------
(***************************************************************************)
(* A failed handshake carries nothing                                      *)
(***************************************************************************)

\* What does not end once it holds: a client that has completed before its promise was
\* rejected, and a server that was established before it failed.
Completed == cComplete /\ cPromise # "rejected"
Established == sPhase = "established" /\ sFailed # "handshake"

\* Only such a client has sent records, and only such a server its last message.
FromCompleted == {m \in Frames : m.type = "encrypted_data" => Completed}
FromEstablished == {m \in Frames : m.type = "server_auth_response" => Established}

\* A side that failed writes nothing more: its socket is past "open".
FailedSilent ==
    /\ cPromise = "rejected" => cSock \notin {"none", "open"}
    /\ sFailed # "no" => sSock \notin {"none", "open"}
    /\ cSock = "none" => ~cTimer /\ ~cHeartbeat
    /\ sSock = "none" => ~sTimer /\ ~sHeartbeat /\ sQueue = <<>> /\ sPending = 0

CarriesInv ==
    /\ c2s \in Seq(FromCompleted) /\ sQueue \in Seq(FromCompleted)
    /\ s2c \in Seq(FromEstablished)
    /\ sRouted # <<>> => Completed
    /\ cComplete => Established

LEMMA CarriesInit == Init => CarriesInv /\ FailedSilent
BY EmptySeq DEF Init, CarriesInv, FailedSilent

\* Neither ends.
LEMMA NeitherEnds ==
    ASSUME [Next]_vars
    PROVE  (Completed => Completed') /\ (Established => Established')
<1> USE DEF Completed, Established, envVars, clientVars, serverVars
<1>1. CASE ClientConnect \/ ClientTimeout
  BY <1>1 DEF ClientConnect, ClientTimeout, FailHandshake, Reject
<1>2. CASE ClientStep
  BY <1>2 DEF ClientStep, ClientHandleServerHello, ClientHandleServerAuthResponse,
              ClientHandleEncryptedData, ClientFailsToDecrypt,
              ClientHandleCloseNotify, ClientRejectsFrame, ClientReadsEnd,
              ClientSocketClose, FailHandshake, Reject
<1>3. CASE ServerQueueStep
  BY <1>3 DEF ServerQueueStep, ServerHandleClientHello,
              ServerHandleClientAuthResponse, ServerHandleEncryptedData,
              ServerFailsToDecrypt, ServerHandleCloseNotify, ServerRejectsFrame,
              FailIn, Secured
<1>4. CASE ServerIoStep
  BY <1>4 DEF ServerIoStep, ServerAccept, RefuseConnection, ServerReceive,
              ServerReadsEnd, ServerSocketClose
<1>5. CASE ServiceStep \/ ServerTimeout
  BY <1>5 DEF ServiceStep, ServerRespond, ServerRespondAfterWipe,
              ServerServiceThrows, ServerTimeout, FailIn, Secured
<1>6. CASE Choice
  BY <1>6 DEF Choice, ClientSendRaw, ClientDisconnect, ClientHeartbeatDead,
              ClientSocketError, ServerHeartbeatDead, ServerSocketError,
              RotateKeys, BeginShutdown, ShutdownDeadline, FaultToServer,
              FaultToClient, FailHandshake, Reject, FailIn, Secured
<1>7. CASE UNCHANGED vars
  BY <1>7 DEF vars
<1> QED
  BY <1>1, <1>2, <1>3, <1>4, <1>5, <1>6, <1>7 DEF Next

\* So what those may have sent they may still have sent.
LEMMA StillSent ==
    ASSUME [Next]_vars
    PROVE  /\ FromCompleted \subseteq FromCompleted'
           /\ FromEstablished \subseteq FromEstablished'
BY NeitherEnds DEF FromCompleted, FromEstablished

\* Anyone sends the rest.
LEMMA OtherFrames ==
    /\ \A t \in FrameTypes, n \in Nat, k \in Int :
          /\ t # "encrypted_data" => Frame(t, n, k) \in FromCompleted
          /\ t # "server_auth_response" => Frame(t, n, k) \in FromEstablished
    /\ Fin \in FromCompleted /\ Fin \in FromEstablished /\ ErrorMsg \in FromEstablished
BY DEF FromCompleted, FromEstablished, Frame, Frames, FrameTypes, Fin, ErrorMsg, NoKey

\* What fails and closes leave on the streams.
LEMMA SentAfterFail ==
    ASSUME s2c \in Seq(FromEstablished), NEW phase, FailIn(phase)
    PROVE  s2c' \in Seq(FromEstablished)
<1> DEFINE notify == IF phase \in Secured THEN <<>> ELSE <<ErrorMsg>>
<1>1. notify \in Seq(FromEstablished)
  BY OtherFrames
<1>2. Written(sSock, s2c, notify) \in Seq(FromEstablished)
  BY <1>1, OtherFrames, FitStream
<1> QED
  BY <1>2, OtherFrames, FitStream, EmptySeq DEF FailIn

LEMMA SentAfterClientEnds ==
    ASSUME c2s \in Seq(FromCompleted), FailHandshake \/ Disconnect
    PROVE  c2s' \in Seq(FromCompleted)
<1> DEFINE notify == IF cComplete THEN <<Frame("close_notify", 0, NoKey)>> ELSE <<>>
<1>1. notify \in Seq(FromCompleted)
  BY OtherFrames DEF NoKey, FrameTypes
<1>2. Written(cSock, c2s, notify) \in Seq(FromCompleted)
  BY <1>1, OtherFrames, FitStream
<1>3. CASE FailHandshake
  BY <1>3, OtherFrames, FitStream, EmptySeq DEF FailHandshake
<1>4. CASE Disconnect
  BY <1>2, <1>4, OtherFrames, FitStream, EmptySeq DEF Disconnect
<1> QED
  BY <1>3, <1>4

LEMMA SentAfterFault ==
    ASSUME NEW S, S \in {FromCompleted, FromEstablished}, NEW stream \in Seq(S), stream # <<>>
    PROVE  Mistreated(stream) \subseteq Seq(S)
<1>1. Head(stream) \in S /\ Tail(stream) \in Seq(S)
  BY HeadTailProperties
<1>2. ASSUME NEW m \in S, NEW d \in Damaged(m)
      PROVE  d \in S
  <2>1. m \in Frames
    BY DEF FromCompleted, FromEstablished
  <2>2. d \in Frames /\ d.type \in {"garbled", m.type} /\ d.type # "server_auth_response"
    BY <2>1, DamagedFrame DEF Garbled, Frame
  <2> QED
    BY <2>2 DEF FromCompleted, FromEstablished
<1>3. <<Head(stream)>> \o stream \in Seq(S)
  BY <1>1, ConcatProperties
<1>4. ASSUME NEW m \in Damaged(Head(stream)) PROVE <<m>> \o Tail(stream) \in Seq(S)
  <2>1. m \in S
    BY <1>1, <1>2
  <2> QED
    BY <1>1, <2>1, ConcatProperties
<1> QED
  BY <1>1, <1>3, <1>4 DEF Mistreated

\* A step that adds nothing else to the streams, and hands over and completes nothing.
LEMMA CarriesStay ==
    ASSUME CarriesInv, [Next]_vars,
           c2s' \in Seq(FromCompleted), sQueue' \in Seq(FromCompleted),
           s2c' \in Seq(FromEstablished),
           UNCHANGED <<sRouted, cComplete>>
    PROVE  CarriesInv'
BY StillSent, SeqMonotonic, NeitherEnds DEF CarriesInv

LEMMA ClientReceivesSent ==
    ASSUME CarriesInv, NEW type, ClientReceives(type)
    PROVE  /\ Head(s2c) \in FromEstablished /\ Head(s2c).type = type
           /\ s2c' \in Seq(FromEstablished)
BY HeadTailProperties DEF CarriesInv, ClientReceives

LEMMA DequeueSent ==
    ASSUME CarriesInv, Dequeue
    PROVE  Head(sQueue) \in FromCompleted /\ sQueue' \in Seq(FromCompleted)
BY HeadTailProperties DEF CarriesInv, Dequeue

LEMMA ClientCarriesStep ==
    ASSUME TypeOK, CarriesInv, [Next]_vars, ClientConnect \/ ClientStep \/ ClientTimeout
    PROVE  CarriesInv'
<1> USE DEF serverVars
<1>0. /\ c2s \in Seq(FromCompleted) /\ sQueue \in Seq(FromCompleted)
      /\ s2c \in Seq(FromEstablished)
  BY DEF CarriesInv
<1>1. CASE ClientConnect
  <2>1. Frame("client_hello", 0, NoKey) \in FromCompleted
    BY OtherFrames DEF NoKey, FrameTypes
  <2> QED
    BY <1>0, <1>1, <2>1, AppendProperties, CarriesStay DEF ClientConnect
<1>2. CASE ClientTimeout
  BY <1>0, <1>2, SentAfterClientEnds, CarriesStay DEF ClientTimeout
<1>3. CASE ClientHandleServerHello
  <2>1. Head(s2c).key \in Int /\ s2c' \in Seq(FromEstablished)
    BY <1>3, ClientReceivesType, ClientReceivesSent DEF ClientHandleServerHello
  <2>2. Frame("client_auth_response", 0, Head(s2c).key) \in FromCompleted
    BY <2>1, OtherFrames DEF FrameTypes
  <2>3. Written(cSock, c2s, <<Frame("client_auth_response", 0, Head(s2c).key)>>)
           \in Seq(FromCompleted)
    BY <1>0, <2>2, OtherFrames, FitWrite
  <2> QED
    BY <1>0, <1>3, <2>1, <2>3, CarriesStay DEF ClientHandleServerHello
\* the server was established, and had not failed, when it sent the answer
<1>4. CASE ClientHandleServerAuthResponse
  <2>1. Established /\ s2c' \in Seq(FromEstablished)
    BY <1>4, ClientReceivesSent DEF ClientHandleServerAuthResponse, FromEstablished
  <2>2. UNCHANGED <<c2s, sQueue, sRouted>>
    BY <1>4 DEF ClientHandleServerAuthResponse
  <2> QED
    BY <1>0, <2>1, <2>2, StillSent, SeqMonotonic, NeitherEnds DEF CarriesInv
<1>5. CASE ClientHandleEncryptedData
  BY <1>0, <1>5, ClientReceivesSent, CarriesStay DEF ClientHandleEncryptedData
<1>6. CASE ClientFailsToDecrypt
  BY <1>0, <1>6, ClientReceivesSent, SentAfterClientEnds, CarriesStay DEF ClientFailsToDecrypt
<1>7. CASE ClientHandleCloseNotify
  BY <1>0, <1>7, ClientReceivesSent, SentAfterClientEnds, CarriesStay
     DEF ClientHandleCloseNotify
<1>8. CASE ClientRejectsFrame
  BY <1>0, <1>8, HeadTailProperties, SentAfterClientEnds, CarriesStay DEF ClientRejectsFrame
<1>9. CASE ClientReadsEnd
  BY <1>0, <1>9, HeadTailProperties, OtherFrames, FitStream, EmptySeq, CarriesStay
     DEF ClientReadsEnd
<1>10. CASE ClientSocketClose
  BY <1>0, <1>10, EmptySeq, CarriesStay DEF ClientSocketClose
<1> QED
  BY <1>1, <1>2, <1>3, <1>4, <1>5, <1>6, <1>7, <1>8, <1>9, <1>10 DEF ClientStep

LEMMA ServerCarriesStep ==
    ASSUME TypeOK, CarriesInv, FailedSilent, [Next]_vars,
           ServerQueueStep \/ ServerIoStep \/ ServiceStep \/ ServerTimeout
    PROVE  CarriesInv'
<1> USE DEF clientVars
<1>0. /\ c2s \in Seq(FromCompleted) /\ sQueue \in Seq(FromCompleted)
      /\ s2c \in Seq(FromEstablished)
  BY DEF CarriesInv
<1>1. CASE ServerHandleClientHello
  <2>1. ServerHello(Head(sQueue)) \in FromEstablished
    BY OtherFrames DEF ServerHello, Garbled, NoKey, FrameTypes, TypeOK, ValueTypes
  <2>2. Written(sSock, s2c, <<ServerHello(Head(sQueue))>>) \in Seq(FromEstablished)
    BY <1>0, <2>1, OtherFrames, FitWrite
  <2> QED
    BY <1>0, <1>1, <2>2, DequeueSent, CarriesStay DEF ServerHandleClientHello, ServerHandles
\* a server that failed in the handshake no longer writes its answer
<1>2. CASE ServerHandleClientAuthResponse
  <2>1. UNCHANGED <<sRouted, cComplete, c2s>> /\ sQueue' \in Seq(FromCompleted)
    BY <1>2, DequeueSent DEF ServerHandleClientAuthResponse, ServerHandles
  <2>2. s2c' \in Seq(FromEstablished')
    <3>1. s2c \in Seq(FromEstablished') /\ Fin \in FromEstablished'
      BY <1>0, OtherFrames, StillSent, SeqMonotonic
    <3>2. CASE sSock = "open"
      <4>1. Established'
        BY <1>2, <3>2 DEF ServerHandleClientAuthResponse, FailedSilent, Established
      <4>2. Frame("server_auth_response", 0, NoKey) \in FromEstablished'
        BY <4>1 DEF FromEstablished, Frame, Frames, FrameTypes, NoKey
      <4>3. Written(sSock, s2c, <<Frame("server_auth_response", 0, NoKey)>>)
               \in Seq(FromEstablished')
        BY <3>1, <4>2, FitWrite
      <4> QED
        BY <1>2, <4>3 DEF ServerHandleClientAuthResponse
    <3>3. CASE sSock # "open"
      BY <1>2, <3>1, <3>3 DEF ServerHandleClientAuthResponse, Written
    <3> QED
      BY <3>2, <3>3
  <2> QED
    BY <1>0, <2>1, <2>2, StillSent, SeqMonotonic, NeitherEnds DEF CarriesInv
\* the client had completed, and its promise was not rejected, when it sent the record
<1>3. CASE ServerHandleEncryptedData
  <2>1. Completed /\ sQueue' \in Seq(FromCompleted)
    BY <1>3, DequeueSent DEF ServerHandleEncryptedData, ServerHandles, FromCompleted
  <2>2. UNCHANGED <<c2s, s2c, cComplete>>
    BY <1>3 DEF ServerHandleEncryptedData
  <2> QED
    BY <1>0, <2>1, <2>2, StillSent, SeqMonotonic, NeitherEnds DEF CarriesInv
<1>4. CASE ServerFailsToDecrypt
  BY <1>0, <1>4, DequeueSent, SentAfterFail, CarriesStay
     DEF ServerFailsToDecrypt, ServerHandles
<1>5. CASE ServerHandleCloseNotify
  BY <1>0, <1>5, DequeueSent, OtherFrames, FitStream, EmptySeq, CarriesStay
     DEF ServerHandleCloseNotify, ServerHandles
<1>6. CASE ServerRejectsFrame
  BY <1>0, <1>6, DequeueSent, SentAfterFail, CarriesStay DEF ServerRejectsFrame
<1>7. CASE ServerAccept
  BY <1>0, <1>7, CarriesStay DEF ServerAccept
<1>8. CASE RefuseConnection
  BY <1>0, <1>8, OtherFrames, AppendProperties, CarriesStay DEF RefuseConnection
<1>9. CASE ServerReceive
  <2>1. Head(c2s) \in FromCompleted /\ Tail(c2s) \in Seq(FromCompleted)
    BY <1>0, <1>9, HeadTailProperties DEF ServerReceive
  <2> QED
    BY <1>0, <1>9, <2>1, AppendProperties, CarriesStay DEF ServerReceive
<1>10. CASE ServerReadsEnd
  BY <1>0, <1>10, HeadTailProperties, OtherFrames, FitStream, EmptySeq, CarriesStay
     DEF ServerReadsEnd
<1>11. CASE ServerSocketClose
  BY <1>0, <1>11, EmptySeq, CarriesStay DEF ServerSocketClose
<1>12. CASE ServerRespond
  <2>1. Frame("encrypted_data", sSend + 1, sKey) \in FromEstablished
    BY OtherFrames DEF FrameTypes, TypeOK, ValueTypes
  <2>2. Written(sSock, s2c, <<Frame("encrypted_data", sSend + 1, sKey)>>)
           \in Seq(FromEstablished)
    BY <1>0, <2>1, OtherFrames, FitWrite
  <2> QED
    BY <1>0, <1>12, <2>2, CarriesStay DEF ServerRespond
<1>13. CASE ServerRespondAfterWipe \/ ServerServiceThrows \/ ServerTimeout
  BY <1>0, <1>13, SentAfterFail, CarriesStay
     DEF ServerRespondAfterWipe, ServerServiceThrows, ServerTimeout
<1> QED
  BY <1>1, <1>2, <1>3, <1>4, <1>5, <1>6, <1>7, <1>8, <1>9, <1>10, <1>11, <1>12,
     <1>13 DEF ServerQueueStep, ServerIoStep, ServiceStep

LEMMA ChoiceCarriesStep ==
    ASSUME TypeOK, EndsInv, CarriesInv, FailedSilent, [Next]_vars, Choice
    PROVE  CarriesInv'
<1> USE DEF serverVars
<1>0. /\ c2s \in Seq(FromCompleted) /\ sQueue \in Seq(FromCompleted)
      /\ s2c \in Seq(FromEstablished)
  BY DEF CarriesInv
\* sendRaw on a socket that a rejection has ended writes nothing
<1>1. CASE ClientSendRaw
  <2>1. UNCHANGED <<sRouted, cComplete, s2c, sQueue>>
    BY <1>1 DEF ClientSendRaw
  <2>2. c2s' \in Seq(FromCompleted)
    <3>1. CASE cSock = "open"
      <4>1. Completed
        BY <1>1, <3>1 DEF ClientSendRaw, FailedSilent, Completed, EndsInv, Secured
      <4>2. Frame("encrypted_data", cSend + 1, cKey) \in FromCompleted
        BY <4>1 DEF FromCompleted, Frame, Frames, FrameTypes, TypeOK, ValueTypes
      <4>3. Written(cSock, c2s, <<Frame("encrypted_data", cSend + 1, cKey)>>)
               \in Seq(FromCompleted)
        BY <1>0, <4>2, OtherFrames, FitWrite
      <4> QED
        BY <1>1, <4>3 DEF ClientSendRaw
    <3>2. CASE cSock # "open"
      BY <1>0, <1>1, <3>2 DEF ClientSendRaw, Written
    <3> QED
      BY <3>1, <3>2
  <2> QED
    BY <1>0, <2>1, <2>2, CarriesStay
<1>2. CASE ClientDisconnect \/ ClientHeartbeatDead
  BY <1>0, <1>2, SentAfterClientEnds, CarriesStay DEF ClientDisconnect, ClientHeartbeatDead
<1>3. CASE ClientSocketError
  BY <1>0, <1>3, OtherFrames, FitStream, EmptySeq, CarriesStay DEF ClientSocketError
<1>4. CASE ServerHeartbeatDead
  BY <1>0, <1>4, SentAfterFail, CarriesStay DEF ServerHeartbeatDead, clientVars
<1>5. CASE ServerSocketError \/ ShutdownDeadline
  BY <1>0, <1>5, OtherFrames, FitStream, EmptySeq, CarriesStay
     DEF ServerSocketError, ShutdownDeadline, clientVars
<1>6. CASE RotateKeys
  BY <1>0, <1>6, CarriesStay DEF RotateKeys, clientVars
<1>7. CASE BeginShutdown
  <2>1. Frame("close_notify", 0, NoKey) \in FromEstablished
    BY OtherFrames DEF NoKey, FrameTypes
  <2>2. Written(sSock, s2c, <<Frame("close_notify", 0, NoKey)>>) \in Seq(FromEstablished)
    BY <1>0, <2>1, OtherFrames, FitWrite
  <2> QED
    BY <1>0, <1>7, <2>2, CarriesStay DEF BeginShutdown, clientVars
<1>8. CASE FaultToServer
  BY <1>0, <1>8, SentAfterFault, CarriesStay DEF FaultToServer, clientVars
<1>9. CASE FaultToClient
  BY <1>0, <1>9, SentAfterFault, CarriesStay DEF FaultToClient, clientVars
<1> QED
  BY <1>1, <1>2, <1>3, <1>4, <1>5, <1>6, <1>7, <1>8, <1>9 DEF Choice

LEMMA CarriesStep ==
    TypeOK /\ EndsInv /\ FailedSilent /\ CarriesInv /\ [Next]_vars => CarriesInv'
<1> SUFFICES ASSUME TypeOK, EndsInv, FailedSilent, CarriesInv, [Next]_vars PROVE CarriesInv'
  OBVIOUS
<1>1. CASE UNCHANGED vars
  BY <1>1, CarriesStay DEF CarriesInv, vars, clientVars, serverVars
<1> QED
  BY <1>1, ClientCarriesStep, ServerCarriesStep, ChoiceCarriesStep DEF Next

\* What ends a side's handshake ends its socket.
LEMMA ClientSilentStep ==
    ASSUME FailedSilent, ClientConnect \/ ClientStep \/ ClientTimeout
    PROVE  FailedSilent'
<1> USE DEF FailedSilent, Listening, envVars, serverVars
<1>1. CASE ClientConnect
  BY <1>1 DEF ClientConnect
<1>2. CASE ClientTimeout
  BY <1>2 DEF ClientTimeout, FailHandshake, ClientStops, AfterEnd, Reject
<1>3. CASE ClientHandleServerHello
  BY <1>3 DEF ClientHandleServerHello, ClientReceives, AfterWrite
<1>4. CASE ClientHandleServerAuthResponse
  BY <1>4 DEF ClientHandleServerAuthResponse, ClientReceives
<1>5. CASE ClientHandleEncryptedData
  BY <1>5 DEF ClientHandleEncryptedData
<1>6. CASE ClientFailsToDecrypt
  BY <1>6 DEF ClientFailsToDecrypt, ClientReceives, FailHandshake, ClientStops, AfterEnd
<1>7. CASE ClientHandleCloseNotify
  BY <1>7 DEF ClientHandleCloseNotify, Disconnect, ClientStops, AfterEnd, AfterWrite
<1>8. CASE ClientRejectsFrame
  BY <1>8 DEF ClientRejectsFrame, FailHandshake, ClientStops, AfterEnd
<1>9. CASE ClientReadsEnd
  BY <1>9 DEF ClientReadsEnd
<1>10. CASE ClientSocketClose
  BY <1>10 DEF ClientSocketClose, ClientStops
<1> QED
  BY <1>1, <1>2, <1>3, <1>4, <1>5, <1>6, <1>7, <1>8, <1>9, <1>10 DEF ClientStep

LEMMA ServerSilentStep ==
    ASSUME FailedSilent, ServerQueueStep \/ ServerIoStep \/ ServiceStep \/ ServerTimeout
    PROVE  FailedSilent'
<1> USE DEF FailedSilent, Listening, envVars, clientVars
<1>1. CASE ServerHandleClientHello
  BY <1>1 DEF ServerHandleClientHello, ServerHandles, Dequeue, AfterWrite
<1>2. CASE ServerHandleClientAuthResponse
  BY <1>2 DEF ServerHandleClientAuthResponse, ServerHandles, Dequeue, AfterWrite
<1>3. CASE ServerHandleEncryptedData
  BY <1>3 DEF ServerHandleEncryptedData, ServerHandles, Dequeue
<1>4. CASE ServerFailsToDecrypt
  BY <1>4 DEF ServerFailsToDecrypt, ServerHandles, Dequeue, FailIn, AfterWrite, AfterEnd
<1>5. CASE ServerHandleCloseNotify
  BY <1>5 DEF ServerHandleCloseNotify, ServerHandles, Dequeue, AfterEnd
<1>6. CASE ServerRejectsFrame
  BY <1>6 DEF ServerRejectsFrame, Dequeue, FailIn, AfterWrite, AfterEnd
<1>7. CASE ServerAccept
  BY <1>7 DEF ServerAccept
<1>8. CASE RefuseConnection
  BY <1>8 DEF RefuseConnection
<1>9. CASE ServerReceive
  BY <1>9 DEF ServerReceive
<1>10. CASE ServerReadsEnd
  BY <1>10 DEF ServerReadsEnd
<1>11. CASE ServerSocketClose
  BY <1>11 DEF ServerSocketClose
<1>12. CASE ServerRespond
  BY <1>12 DEF ServerRespond, AfterWrite
<1>13. CASE ServerRespondAfterWipe
  BY <1>13 DEF ServerRespondAfterWipe, FailIn, AfterWrite, AfterEnd
<1>14. CASE ServerServiceThrows
  BY <1>14 DEF ServerServiceThrows, FailIn, AfterWrite, AfterEnd
<1>15. CASE ServerTimeout
  BY <1>15 DEF ServerTimeout, FailIn, AfterWrite, AfterEnd
<1> QED
  BY <1>1, <1>2, <1>3, <1>4, <1>5, <1>6, <1>7, <1>8, <1>9, <1>10, <1>11, <1>12,
     <1>13, <1>14, <1>15 DEF ServerQueueStep, ServerIoStep, ServiceStep

LEMMA ChoiceSilentStep ==
    ASSUME FailedSilent, Choice
    PROVE  FailedSilent'
<1> USE DEF FailedSilent, Listening, envVars, clientVars, serverVars
<1>1. CASE ClientSendRaw
  BY <1>1 DEF ClientSendRaw, AfterWrite
<1>2. CASE ClientDisconnect
  BY <1>2 DEF ClientDisconnect, Disconnect, ClientStops, AfterEnd, AfterWrite
<1>3. CASE ClientHeartbeatDead
  BY <1>3 DEF ClientHeartbeatDead, FailHandshake, ClientStops, AfterEnd
<1>4. CASE ClientSocketError
  BY <1>4 DEF ClientSocketError
<1>5. CASE ServerHeartbeatDead
  BY <1>5 DEF ServerHeartbeatDead, FailIn, AfterWrite, AfterEnd
<1>6. CASE ServerSocketError \/ ShutdownDeadline
  BY <1>6 DEF ServerSocketError, ShutdownDeadline
<1>7. CASE RotateKeys \/ FaultToServer \/ FaultToClient
  BY <1>7 DEF RotateKeys, FaultToServer, FaultToClient
<1>8. CASE BeginShutdown
  BY <1>8 DEF BeginShutdown, AfterWrite
<1> QED
  BY <1>1, <1>2, <1>3, <1>4, <1>5, <1>6, <1>7, <1>8 DEF Choice

LEMMA SilentStep == FailedSilent /\ [Next]_vars => FailedSilent'
<1> SUFFICES ASSUME FailedSilent, [Next]_vars PROVE FailedSilent'
  OBVIOUS
<1>1. CASE UNCHANGED vars
  BY <1>1 DEF vars, clientVars, serverVars, FailedSilent
<1> QED
  BY <1>1, ClientSilentStep, ServerSilentStep, ChoiceSilentStep DEF Next

\* Records come only from a client that completed before anything rejected its promise,
\* and it completed only with a server that had not failed.
THEOREM CarriesInvariant == Spec => [](CarriesInv /\ FailedSilent)
BY TypeCorrect, EndsInvariant, CarriesInit, CarriesStep, SilentStep, PTL DEF Spec

\* A handshake that failed, on either side, carries no request, however late the frames
\* that were on their way are handled: a failed server's answer and a rejected client's
\* records are written to sockets that have ended.
THEOREM FailedCarriesNothing == Spec => []FailedHandshakeCarriesNothing
<1>1. CarriesInv => FailedHandshakeCarriesNothing
  BY DEF CarriesInv, Completed, Established, FailedHandshakeCarriesNothing
<1> QED
  BY <1>1, CarriesInvariant, PTL

-----------------------------------------------------------------------------
(***************************************************************************)
(* The connection implements Exchange                                      *)
(***************************************************************************)

\* What has been handed over is behind the last number taken, without a gap as long
\* as that end has not failed.
Behind(log, last) == \A i \in 1..Len(log) : log[i] <= last
OrderInv ==
    /\ Behind(sRouted, sRecv) /\ (sFailed = "no" => Len(sRouted) = sRecv)
    /\ Behind(cGot, cRecv) /\ (cSock \in {"none", "open"} => Len(cGot) = cRecv)

\* The next number goes to the end of such a log.
LEMMA NextBehind ==
    ASSUME NEW log \in Seq(Nat), NEW last \in Nat, NEW n \in Nat, Behind(log, last),
           n = last + 1
    PROVE  /\ Behind(Append(log, n), n)
           /\ Len(Append(log, n)) = Len(log) + 1
           /\ \A i \in 1..Len(log) : log[i] < n
<1>1. \A i \in 1..Len(log) : log[i] \in Nat
  OBVIOUS
<1> QED
  BY <1>1, AppendProperties DEF Behind

\* It stays behind a number that is spent without being handed over.
LEMMA StillBehind ==
    ASSUME NEW log \in Seq(Nat), NEW last \in Nat, Behind(log, last)
    PROVE  Behind(log, last + 1)
<1>1. \A i \in 1..Len(log) : log[i] \in Nat
  OBVIOUS
<1> QED
  BY <1>1 DEF Behind

\* The steps that number or hand over nothing and fail no end's record.
Carried == <<cRecv, cGot, sRecv, sRouted>>

LEMMA CarriedOrder ==
    ASSUME OrderInv, UNCHANGED Carried,
           cSock' \in {"none", "open"} => cSock \in {"none", "open"},
           sFailed' = "no" => sFailed = "no"
    PROVE  OrderInv'
BY DEF OrderInv, Carried, Behind

LEMMA OrderInit == Init => OrderInv
BY DEF Init, OrderInv, Behind

\* What a failure of the server leaves of sFailed.
LEMMA FailedByFail ==
    ASSUME NEW phase, FailIn(phase)
    PROVE  sFailed' # "no" /\ (sFailed # "no" => sFailed' = sFailed)
BY DEF FailIn

\* A socket that is past "open" stays past it.
LEMMA PastOpen ==
    ASSUME NEW sock, sock \notin {"none", "open"}
    PROVE  /\ AfterWrite(sock) \notin {"none", "open"}
           /\ AfterEnd(sock) \notin {"none", "open"}
BY DEF AfterWrite, AfterEnd

\* Ending a socket takes it there.
LEMMA PastOpenByEnd ==
    ASSUME NEW sock, sock # "none"
    PROVE  AfterEnd(sock) \notin {"none", "open"}
BY DEF AfterEnd

LEMMA ClientOrderStep ==
    ASSUME TypeOK, OrderInv, ClientConnect \/ ClientStep \/ ClientTimeout
    PROVE  OrderInv'
<1> USE DEF Carried, serverVars
<1>1. CASE ClientConnect
  BY <1>1, CarriedOrder DEF ClientConnect
<1>2. CASE ClientTimeout
  BY <1>2, PastOpen, CarriedOrder DEF ClientTimeout, FailHandshake
<1>3. CASE ClientHandleServerHello
  BY <1>3, PastOpen, CarriedOrder DEF ClientHandleServerHello
<1>4. CASE ClientHandleServerAuthResponse
  BY <1>4, CarriedOrder DEF ClientHandleServerAuthResponse
<1>5. CASE ClientHandleEncryptedData
  <2>1. cRecv' = cRecv + 1 /\ cRecv' \in Nat /\ cGot' = Append(cGot, cRecv')
    BY <1>5, ClientReceivesType DEF ClientHandleEncryptedData, NextInSequence, TypeOK, ValueTypes
  <2>2. Behind(cGot', cRecv') /\ Len(cGot') = Len(cGot) + 1
    BY <2>1, NextBehind DEF OrderInv, TypeOK, ValueTypes
  <2> QED
    BY <1>5, <2>1, <2>2 DEF ClientHandleEncryptedData, OrderInv, Behind
<1>6. CASE ClientFailsToDecrypt
  <2>1. cRecv' = cRecv + 1 /\ cGot' = cGot
    BY <1>6 DEF ClientFailsToDecrypt, NextInSequence
  <2>2. Behind(cGot', cRecv')
    BY <2>1, StillBehind DEF OrderInv, TypeOK, ValueTypes
  <2>3. cSock' \notin {"none", "open"}
    BY <1>6, PastOpenByEnd DEF ClientFailsToDecrypt, FailHandshake, ClientReceives, Listening
  <2> QED
    BY <1>6, <2>2, <2>3 DEF ClientFailsToDecrypt, OrderInv, Behind
<1>7. CASE ClientHandleCloseNotify
  BY <1>7, PastOpen, CarriedOrder DEF ClientHandleCloseNotify, Disconnect
<1>8. CASE ClientRejectsFrame
  BY <1>8, PastOpen, CarriedOrder DEF ClientRejectsFrame, FailHandshake
<1>9. CASE ClientReadsEnd \/ ClientSocketClose
  BY <1>9, CarriedOrder DEF ClientReadsEnd, ClientSocketClose
<1> QED
  BY <1>1, <1>2, <1>3, <1>4, <1>5, <1>6, <1>7, <1>8, <1>9 DEF ClientStep

LEMMA ServerOrderStep ==
    ASSUME TypeOK, OrderInv, ServerQueueStep \/ ServerIoStep \/ ServiceStep \/ ServerTimeout
    PROVE  OrderInv'
<1> USE DEF Carried, clientVars
<1>1. CASE ServerHandleClientHello \/ ServerHandleClientAuthResponse \/ ServerHandleCloseNotify
  BY <1>1, CarriedOrder
     DEF ServerHandleClientHello, ServerHandleClientAuthResponse, ServerHandleCloseNotify
<1>2. CASE ServerHandleEncryptedData
  <2>1. sRecv' = sRecv + 1 /\ sRecv' \in Nat /\ sRouted' = Append(sRouted, sRecv')
    BY <1>2, DequeueType
       DEF ServerHandleEncryptedData, ServerHandles, NextInSequence, TypeOK, ValueTypes
  <2>2. Behind(sRouted', sRecv') /\ Len(sRouted') = Len(sRouted) + 1
    BY <2>1, NextBehind DEF OrderInv, TypeOK, ValueTypes
  <2> QED
    BY <1>2, <2>1, <2>2 DEF ServerHandleEncryptedData, OrderInv, Behind
<1>3. CASE ServerFailsToDecrypt
  <2>1. sRecv' = sRecv + 1 /\ sRouted' = sRouted
    BY <1>3 DEF ServerFailsToDecrypt, NextInSequence
  <2>2. Behind(sRouted', sRecv')
    BY <2>1, StillBehind DEF OrderInv, TypeOK, ValueTypes
  <2> QED
    BY <1>3, <2>2, FailedByFail DEF ServerFailsToDecrypt, OrderInv, Behind
<1>4. CASE ServerRejectsFrame
  BY <1>4, FailedByFail, CarriedOrder DEF ServerRejectsFrame
<1>5. CASE ServerIoStep
  BY <1>5, CarriedOrder DEF ServerIoStep, ServerAccept, RefuseConnection, ServerReceive,
                            ServerReadsEnd, ServerSocketClose
<1>6. CASE ServerRespond
  BY <1>6, CarriedOrder DEF ServerRespond
<1>7. CASE ServerRespondAfterWipe \/ ServerServiceThrows \/ ServerTimeout
  BY <1>7, FailedByFail, CarriedOrder
     DEF ServerRespondAfterWipe, ServerServiceThrows, ServerTimeout
<1> QED
  BY <1>1, <1>2, <1>3, <1>4, <1>5, <1>6, <1>7 DEF ServerQueueStep, ServiceStep

LEMMA ChoiceOrderStep ==
    ASSUME TypeOK, OrderInv, Choice
    PROVE  OrderInv'
<1> USE DEF Carried, clientVars, serverVars
<1>1. CASE ClientSendRaw
  BY <1>1, PastOpen, CarriedOrder DEF ClientSendRaw
<1>2. CASE ClientDisconnect
  BY <1>2, PastOpen, CarriedOrder DEF ClientDisconnect, Disconnect
<1>3. CASE ClientHeartbeatDead
  BY <1>3, PastOpen, CarriedOrder DEF ClientHeartbeatDead, FailHandshake
<1>4. CASE ClientSocketError
  BY <1>4, CarriedOrder DEF ClientSocketError
<1>5. CASE ServerHeartbeatDead
  BY <1>5, FailedByFail, CarriedOrder DEF ServerHeartbeatDead
<1>6. CASE ServerSocketError \/ ShutdownDeadline \/ RotateKeys \/ BeginShutdown
  BY <1>6, CarriedOrder DEF ServerSocketError, ShutdownDeadline, RotateKeys, BeginShutdown
<1>7. CASE FaultToServer \/ FaultToClient
  BY <1>7, CarriedOrder DEF FaultToServer, FaultToClient
<1> QED
  BY <1>1, <1>2, <1>3, <1>4, <1>5, <1>6, <1>7 DEF Choice

LEMMA OrderStep == TypeOK /\ OrderInv /\ [Next]_vars => OrderInv'
<1> SUFFICES ASSUME TypeOK, OrderInv, [Next]_vars PROVE OrderInv'
  OBVIOUS
<1>1. CASE UNCHANGED vars
  BY <1>1, CarriedOrder DEF vars, clientVars, serverVars, Carried
<1> QED
  BY <1>1, ClientOrderStep, ServerOrderStep, ChoiceOrderStep DEF Next

-----------------------------------------------------------------------------
\* The mapping, end by end.
LEMMA EndsMapped ==
    /\ "client" \in SecuredEnds <=> cComplete
    /\ "server" \in SecuredEnds <=> sPhase = "established"
    /\ "client" \in FailedEnds <=> cSock \notin {"none", "open"}
    /\ "server" \in FailedEnds <=> sFailed # "no"
    /\ "client" \in ClosedEnds <=> cSock = "closed"
    /\ "server" \in ClosedEnds <=> sSock = "closed"
BY DEF SecuredEnds, FailedEnds, ClosedEnds

\* A step that numbers, hands over and secures nothing, closes no socket, and fails
\* at most one end, is at most a failure of that end.
LEMMA QuietStep ==
    ASSUME UNCHANGED <<cSend, sRouted, sPending, sSend, cGot, cComplete>>,
           sPhase' = "established" <=> sPhase = "established",
           cSock' \in {"none", "open"} => cSock \in {"none", "open"},
           sFailed' = "no" => sFailed = "no",
           cSock' = "closed" <=> cSock = "closed",
           sSock' = "closed" <=> sSock = "closed",
           UNCHANGED sFailed \/ UNCHANGED cSock
    PROVE  [Abstract!Next]_Abstract!vars
<1>1. SecuredEnds' = SecuredEnds
  BY DEF SecuredEnds
<1>2. ClosedEnds' = ClosedEnds
  BY DEF ClosedEnds
<1>3. \E e \in {"client", "server"} : FailedEnds' \in {FailedEnds, FailedEnds \cup {e}}
  <2>1. CASE UNCHANGED sFailed
    <3>1. FailedEnds' \in {FailedEnds, FailedEnds \cup {"client"}}
      BY <2>1 DEF FailedEnds
    <3> QED
      BY <3>1
  <2>2. CASE UNCHANGED cSock
    <3>1. FailedEnds' \in {FailedEnds, FailedEnds \cup {"server"}}
      BY <2>2 DEF FailedEnds
    <3> QED
      BY <3>1
  <2> QED
    BY <2>1, <2>2
<1>4. PICK e \in {"client", "server"} : FailedEnds' \in {FailedEnds, FailedEnds \cup {e}}
  BY <1>3
<1>5. (sPending # 0)' = (sPending # 0)
  OBVIOUS
<1>6. CASE FailedEnds' = FailedEnds
  BY <1>1, <1>2, <1>5, <1>6 DEF Abstract!vars
<1>7. CASE FailedEnds' = FailedEnds \cup {e}
  <2>1. Abstract!Fail(e)
    BY <1>1, <1>2, <1>5, <1>7 DEF Abstract!Fail
  <2> QED
    BY <2>1 DEF Abstract!Next, Abstract!Ends
<1> QED
  BY <1>4, <1>6, <1>7

\* The sockets of the actions that write or end only: none comes back, none closes.
LEMMA SockMoves ==
    ASSUME NEW sock
    PROVE  /\ AfterWrite(sock) \in {"none", "open"} => sock \in {"none", "open"}
           /\ AfterEnd(sock) \in {"none", "open"} => sock \in {"none", "open"}
           /\ AfterWrite(sock) = "closed" <=> sock = "closed"
           /\ AfterEnd(sock) = "closed" <=> sock = "closed"
BY DEF AfterWrite, AfterEnd

LEMMA FailMoves ==
    ASSUME NEW phase, FailIn(phase)
    PROVE  /\ sSock' = "closed" <=> sSock = "closed"
           /\ sFailed' = "no" => sFailed = "no"
BY SockMoves DEF FailIn

\* "close" events.
LEMMA CloseMapped ==
    ASSUME ClientSocketClose \/ ServerSocketClose
    PROVE  Abstract!Next
<1> USE DEF clientVars, serverVars
<1>1. SecuredEnds' = SecuredEnds
  BY DEF ClientSocketClose, ServerSocketClose, SecuredEnds
<1>2. FailedEnds' = FailedEnds
  BY DEF ClientSocketClose, ServerSocketClose, FailedEnds
<1>3. \E e \in {"client", "server"} : ClosedEnds' = ClosedEnds \cup {e}
  <2>1. CASE ClientSocketClose
    <3>1. ClosedEnds' = ClosedEnds \cup {"client"}
      BY <2>1 DEF ClientSocketClose, ClosedEnds
    <3> QED
      BY <3>1
  <2>2. CASE ServerSocketClose
    <3>1. ClosedEnds' = ClosedEnds \cup {"server"}
      BY <2>2 DEF ServerSocketClose, ClosedEnds
    <3> QED
      BY <3>1
  <2> QED
    BY <2>1, <2>2
<1>4. UNCHANGED <<cSend, sRouted, sPending, sSend, cGot>>
  BY DEF ClientSocketClose, ServerSocketClose
<1>5. PICK e \in {"client", "server"} : ClosedEnds' = ClosedEnds \cup {e}
  BY <1>3
<1>6. Abstract!Close(e)
  BY <1>1, <1>2, <1>4, <1>5 DEF Abstract!Close
<1> QED
  BY <1>6 DEF Abstract!Next, Abstract!Ends

\* Handshakes: the server's end, and then the client's.
LEMMA SecureMapped ==
    ASSUME ChannelInv, EndsInv,
           ServerHandleClientAuthResponse \/ ClientHandleServerAuthResponse
    PROVE  Abstract!Next
<1> USE DEF clientVars, serverVars
<1>1. FailedEnds' = FailedEnds /\ ClosedEnds' = ClosedEnds
  BY SockMoves
     DEF ServerHandleClientAuthResponse, ClientHandleServerAuthResponse, FailedEnds, ClosedEnds
<1>2. UNCHANGED <<cSend, sRouted, sPending, sSend, cGot>>
  BY DEF ServerHandleClientAuthResponse, ClientHandleServerAuthResponse
<1>3. CASE ServerHandleClientAuthResponse
  <2>1. sPhase # "established" /\ sSock # "closed"
    BY <1>3 DEF ServerHandleClientAuthResponse, ServerHandles, Dequeue, EndsInv
  <2>2. "server" \notin SecuredEnds \cup ClosedEnds
    BY <2>1, EndsMapped
  <2>3. SecuredEnds' = SecuredEnds \cup {"server"}
    BY <1>3 DEF ServerHandleClientAuthResponse, SecuredEnds
  <2>4. Abstract!Secure("server")
    BY <1>1, <1>2, <2>2, <2>3 DEF Abstract!Secure
  <2> QED
    BY <2>4 DEF Abstract!Next, Abstract!Ends
<1>4. CASE ClientHandleServerAuthResponse
  <2>1. sPhase = "established"
    BY <1>4, ClientTakesFit DEF ClientHandleServerAuthResponse, ToClient
  <2>2. ~cComplete /\ cSock # "closed"
    BY <1>4 DEF ClientHandleServerAuthResponse, ClientReceives, Listening, EndsInv
  <2>3. "client" \notin SecuredEnds \cup ClosedEnds /\ "server" \in SecuredEnds
    BY <2>1, <2>2, EndsMapped
  <2>4. cComplete' /\ sPhase' = "established"
    BY <1>4, <2>1 DEF ClientHandleServerAuthResponse
  <2>5. SecuredEnds' = SecuredEnds \cup {"client"}
    BY <2>1, <2>4 DEF SecuredEnds
  <2>6. Abstract!Secure("client")
    BY <1>1, <1>2, <2>3, <2>5 DEF Abstract!Secure
  <2> QED
    BY <2>6 DEF Abstract!Next, Abstract!Ends
<1> QED
  BY <1>3, <1>4

\* sendRaw is a request.
LEMMA RequestMapped ==
    ASSUME EndsInv, ClientSendRaw
    PROVE  Abstract!Next
<1>1. SecuredEnds' = SecuredEnds /\ FailedEnds' = FailedEnds /\ ClosedEnds' = ClosedEnds
  BY SockMoves DEF ClientSendRaw, serverVars, SecuredEnds, FailedEnds, ClosedEnds, AfterWrite
<1>2. cComplete /\ cSock # "closed"
  BY DEF ClientSendRaw, EndsInv, Secured
<1>3. "client" \in SecuredEnds \ ClosedEnds
  BY <1>2, EndsMapped
<1>4. Abstract!Request
  BY <1>1, <1>3 DEF Abstract!Request, ClientSendRaw, serverVars
<1> QED
  BY <1>4 DEF Abstract!Next

\* A record that opens at the server is a request handed to its service.
LEMMA RouteMapped ==
    ASSUME TypeOK, ChannelInv, EndsInv, OrderInv, ServerHandleEncryptedData
    PROVE  Abstract!Next
<1> DEFINE n == Head(sQueue).seq
<1>1. SecuredEnds' = SecuredEnds /\ FailedEnds' = FailedEnds /\ ClosedEnds' = ClosedEnds
  BY DEF ServerHandleEncryptedData, clientVars, SecuredEnds, FailedEnds, ClosedEnds
<1>2. sPhase = "established" /\ sSock # "closed"
  BY DEF ServerHandleEncryptedData, EndsInv, Secured
<1>3. "server" \in SecuredEnds \ ClosedEnds
  BY <1>2, EndsMapped
<1>4. n \in Nat /\ n = sRecv + 1 /\ n <= cSend
  <2>1. Head(sQueue) \in ToServer /\ Head(sQueue).type = "encrypted_data"
    BY QueueTakesFit DEF ServerHandleEncryptedData, ServerHandles
  <2> QED
    BY <2>1 DEF ServerHandleEncryptedData, NextInSequence, ToServer, Frames
<1>5. n \in 1..cSend
  BY <1>4 DEF TypeOK, ValueTypes
<1>6. Abstract!Follows(n, sRouted, "server")
  <2>1. \A i \in 1..Len(sRouted) : sRouted[i] < n
    BY <1>4, NextBehind DEF OrderInv, TypeOK, ValueTypes
  <2>2. "server" \notin FailedEnds => n = Len(sRouted) + 1
    BY <1>4, EndsMapped DEF OrderInv
  <2> QED
    BY <2>1, <2>2 DEF Abstract!Follows
<1>7. sPending = 0 /\ sPending' # 0 /\ sRouted' = Append(sRouted, n)
  BY <1>5 DEF ServerHandleEncryptedData, ServerHandles, Dequeue
<1>8. UNCHANGED <<cSend, sSend, cGot>>
  BY DEF ServerHandleEncryptedData, clientVars
<1>9. (sPending' # 0) = TRUE
  BY <1>7
<1>10. \E k \in 1..cSend : Abstract!Follows(k, sRouted, "server") /\ sRouted' = Append(sRouted, k)
  BY <1>5, <1>6, <1>7
<1> HIDE DEF n
<1>11. Abstract!Route
  BY <1>1, <1>3, <1>7, <1>8, <1>9, <1>10 DEF Abstract!Route
<1> QED
  BY <1>11 DEF Abstract!Next

\* A service's answer is a reply, a rejection a refusal.
LEMMA ServiceMapped ==
    ASSUME TypeOK, ServiceStep
    PROVE  Abstract!Next
<1> USE DEF clientVars
<1>1. sPending # 0 /\ sPending' = 0
  BY DEF ServiceStep, ServerRespond, ServerRespondAfterWipe, ServerServiceThrows
<1>2. (sPending' # 0) = FALSE
  BY <1>1
<1>3. SecuredEnds' = SecuredEnds
  BY DEF ServiceStep, ServerRespond, ServerRespondAfterWipe, ServerServiceThrows, SecuredEnds
<1>4. sSock' = "closed" <=> sSock = "closed"
  BY SockMoves, FailMoves
     DEF ServiceStep, ServerRespond, ServerRespondAfterWipe, ServerServiceThrows
<1>5. ClosedEnds' = ClosedEnds
  BY <1>4 DEF ServiceStep, ServerRespond, ServerRespondAfterWipe, ServerServiceThrows, ClosedEnds
<1>6. UNCHANGED <<cSend, sRouted, cGot, cSock>>
  BY DEF ServiceStep, ServerRespond, ServerRespondAfterWipe, ServerServiceThrows
<1>7. CASE ServerRespond
  <2>1. FailedEnds' = FailedEnds /\ sSend' = sSend + 1
    BY <1>7 DEF ServerRespond, FailedEnds
  <2>2. Abstract!Reply
    BY <1>1, <1>2, <1>3, <1>5, <1>6, <2>1 DEF Abstract!Reply
  <2> QED
    BY <2>2 DEF Abstract!Next
<1>8. CASE ServerRespondAfterWipe \/ ServerServiceThrows
  <2>1. sFailed' # "no"
    BY <1>8, FailedByFail DEF ServerRespondAfterWipe, ServerServiceThrows
  <2>2. FailedEnds' = FailedEnds \cup {"server"}
    BY <1>6, <2>1 DEF FailedEnds
  <2>3. CASE ServerRespondAfterWipe
    <3>1. sSend' = sSend + 1
      BY <2>3 DEF ServerRespondAfterWipe
    <3>2. Abstract!Reply
      BY <1>1, <1>2, <1>3, <1>5, <1>6, <2>2, <3>1 DEF Abstract!Reply
    <3> QED
      BY <3>2 DEF Abstract!Next
  <2>4. CASE ServerServiceThrows
    <3>1. sSend' = sSend
      BY <2>4 DEF ServerServiceThrows
    <3>2. Abstract!Refuse
      BY <1>1, <1>2, <1>3, <1>5, <1>6, <2>2, <3>1 DEF Abstract!Refuse
    <3> QED
      BY <3>2 DEF Abstract!Next
  <2> QED
    BY <1>8, <2>3, <2>4
<1> QED
  BY <1>7, <1>8 DEF ServiceStep

\* A record that opens at the client is a reply delivered.
LEMMA DeliverMapped ==
    ASSUME TypeOK, ChannelInv, EndsInv, OrderInv, ClientHandleEncryptedData
    PROVE  Abstract!Next
<1> DEFINE n == Head(s2c).seq
<1>1. SecuredEnds' = SecuredEnds /\ FailedEnds' = FailedEnds /\ ClosedEnds' = ClosedEnds
  BY DEF ClientHandleEncryptedData, serverVars, SecuredEnds, FailedEnds, ClosedEnds
<1>2. cComplete /\ cSock # "closed"
  BY DEF ClientHandleEncryptedData, ClientReceives, Listening, EndsInv, Secured
<1>3. "client" \in SecuredEnds \ ClosedEnds
  BY <1>2, EndsMapped
<1>4. n \in Nat /\ n = cRecv + 1 /\ n <= sSend
  <2>1. Head(s2c) \in ToClient /\ Head(s2c).type = "encrypted_data"
    BY ClientTakesFit DEF ClientHandleEncryptedData
  <2> QED
    BY <2>1 DEF ClientHandleEncryptedData, NextInSequence, ToClient, Frames
<1>5. n \in 1..sSend
  BY <1>4 DEF TypeOK, ValueTypes
<1>6. Abstract!Follows(n, cGot, "client")
  <2>1. \A i \in 1..Len(cGot) : cGot[i] < n
    BY <1>4, NextBehind DEF OrderInv, TypeOK, ValueTypes
  <2>2. "client" \notin FailedEnds => n = Len(cGot) + 1
    BY <1>4, EndsMapped DEF OrderInv
  <2> QED
    BY <2>1, <2>2 DEF Abstract!Follows
<1>7. /\ cGot' = Append(cGot, n)
      /\ UNCHANGED <<cSend, sRouted, sPending, sSend>>
  BY DEF ClientHandleEncryptedData, serverVars
<1>8. \E k \in 1..sSend : Abstract!Follows(k, cGot, "client") /\ cGot' = Append(cGot, k)
  BY <1>5, <1>6, <1>7
<1> HIDE DEF n
<1>9. Abstract!Deliver
  BY <1>1, <1>3, <1>7, <1>8 DEF Abstract!Deliver
<1> QED
  BY <1>9 DEF Abstract!Next

\* Everything else is quiet: the client's other steps,
LEMMA ClientQuiet ==
    ASSUME ClientConnect \/ ClientTimeout \/ ClientHandleServerHello \/ ClientFailsToDecrypt
           \/ ClientHandleCloseNotify \/ ClientRejectsFrame \/ ClientReadsEnd
           \/ ClientDisconnect \/ ClientHeartbeatDead \/ ClientSocketError
    PROVE  [Abstract!Next]_Abstract!vars
<1> USE DEF serverVars
<1>1. CASE ClientConnect \/ ClientReadsEnd \/ ClientSocketError
  BY <1>1, QuietStep DEF ClientConnect, ClientReadsEnd, ClientSocketError
<1>2. CASE ClientTimeout \/ ClientHeartbeatDead
  BY <1>2, SockMoves, QuietStep DEF ClientTimeout, ClientHeartbeatDead, FailHandshake
<1>3. CASE ClientHandleServerHello
  BY <1>3, SockMoves, QuietStep DEF ClientHandleServerHello
<1>4. CASE ClientFailsToDecrypt \/ ClientRejectsFrame
  BY <1>4, SockMoves, QuietStep DEF ClientFailsToDecrypt, ClientRejectsFrame, FailHandshake
<1>5. CASE ClientHandleCloseNotify \/ ClientDisconnect
  BY <1>5, SockMoves, QuietStep DEF ClientHandleCloseNotify, ClientDisconnect, Disconnect
<1> QED
  BY <1>1, <1>2, <1>3, <1>4, <1>5

\* the server's,
LEMMA ServerQuiet ==
    ASSUME ServerHandleClientHello \/ ServerFailsToDecrypt \/ ServerHandleCloseNotify
           \/ ServerRejectsFrame \/ ServerAccept \/ RefuseConnection \/ ServerReceive
           \/ ServerReadsEnd \/ ServerTimeout \/ ServerHeartbeatDead \/ ServerSocketError
    PROVE  [Abstract!Next]_Abstract!vars
<1> USE DEF clientVars
<1>1. CASE ServerHandleClientHello
  BY <1>1, SockMoves, QuietStep DEF ServerHandleClientHello
<1>2. CASE ServerHandleCloseNotify
  BY <1>2, SockMoves, QuietStep DEF ServerHandleCloseNotify
<1>3. CASE ServerFailsToDecrypt \/ ServerRejectsFrame
  BY <1>3, FailMoves, QuietStep DEF ServerFailsToDecrypt, ServerRejectsFrame
<1>4. CASE ServerTimeout \/ ServerHeartbeatDead
  BY <1>4, FailMoves, QuietStep DEF ServerTimeout, ServerHeartbeatDead
<1>5. CASE ServerAccept \/ RefuseConnection \/ ServerReceive
  BY <1>5, QuietStep DEF ServerAccept, RefuseConnection, ServerReceive
<1>6. CASE ServerReadsEnd \/ ServerSocketError
  BY <1>6, QuietStep DEF ServerReadsEnd, ServerSocketError
<1> QED
  BY <1>1, <1>2, <1>3, <1>4, <1>5, <1>6

\* and those of the process and the network.
LEMMA EnvironmentQuiet ==
    ASSUME RotateKeys \/ BeginShutdown \/ ShutdownDeadline \/ FaultToServer \/ FaultToClient
    PROVE  [Abstract!Next]_Abstract!vars
<1> USE DEF clientVars, serverVars
<1>1. CASE BeginShutdown
  BY <1>1, SockMoves, QuietStep DEF BeginShutdown
<1>2. CASE ShutdownDeadline
  BY <1>2, QuietStep DEF ShutdownDeadline
<1>3. CASE RotateKeys \/ FaultToServer \/ FaultToClient
  BY <1>3, QuietStep DEF RotateKeys, FaultToServer, FaultToClient
<1> QED
  BY <1>1, <1>2, <1>3

LEMMA StepMapped ==
    TypeOK /\ ChannelInv /\ EndsInv /\ OrderInv /\ [Next]_vars
      => [Abstract!Next]_Abstract!vars
<1> SUFFICES ASSUME TypeOK, ChannelInv, EndsInv, OrderInv, [Next]_vars
             PROVE  [Abstract!Next]_Abstract!vars
  OBVIOUS
<1>1. CASE ClientConnect \/ ClientStep \/ ClientTimeout
  BY <1>1, ClientQuiet, SecureMapped, DeliverMapped, CloseMapped DEF ClientStep
<1>2. CASE ServerQueueStep
  BY <1>2, ServerQuiet, SecureMapped, RouteMapped DEF ServerQueueStep
<1>3. CASE ServerIoStep \/ ServiceStep \/ ServerTimeout
  BY <1>3, ServerQuiet, ServiceMapped, CloseMapped DEF ServerIoStep
<1>4. CASE Choice
  BY <1>4, RequestMapped, ClientQuiet, ServerQuiet, EnvironmentQuiet DEF Choice
<1>5. CASE UNCHANGED vars
  BY <1>5, QuietStep DEF vars, clientVars, serverVars
<1> QED
  BY <1>1, <1>2, <1>3, <1>4, <1>5 DEF Next

LEMMA InitMapped == Init => Abstract!Init
<1> SUFFICES ASSUME Init PROVE Abstract!Init
  OBVIOUS
<1>1. SecuredEnds = {} /\ FailedEnds = {} /\ ClosedEnds = {}
  BY DEF Init, SecuredEnds, FailedEnds, ClosedEnds
<1>2. (sPending # 0) = FALSE
  BY DEF Init
<1> QED
  BY <1>1, <1>2 DEF Init, Abstract!Init

\* What services and application were handed does not run ahead of recvSequence, and
\* has no gap until their end has failed.
THEOREM OrderInvariant == Spec => []OrderInv
BY TypeCorrect, OrderInit, OrderStep, PTL DEF Spec

\* Every behaviour of the connection is one of Exchange: requests and replies once
\* each and in order, gaps only behind a failure, nothing after a close, for every
\* number of requests, rotations and faults.
THEOREM ChannelImplementsExchange == Spec => ImplementsExchange
<1>1. Spec => [](TypeOK /\ ChannelInv /\ EndsInv /\ OrderInv)
  BY TypeCorrect, ChannelInvariant, EndsInvariant, OrderInvariant, PTL
<1> QED
  BY <1>1, InitMapped, StepMapped, PTL DEF Spec, ImplementsExchange, Abstract!Spec
=============================================================================
