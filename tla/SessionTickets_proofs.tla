------------------------ MODULE SessionTickets_proofs ------------------------
(***************************************************************************)
(* Session tickets for every number of clients, connections, restarts and  *)
(* every capacity: a ticket is taken up once under each spelling in a life *)
(* of the server, only by the client it was issued to, and the memory for  *)
(* it is bounded.                                                          *)
(***************************************************************************)
EXTENDS SessionTickets, SequenceTheorems, TLAPS

\* Consuming a string keeps the memory typed, and bounded if it was.
LEMMA RememberType ==
    ASSUME NEW t \in Strings, consumed \in Seq(Strings)
    PROVE  /\ Remember(t) \in Seq(Strings)
           /\ Len(consumed) <= MaxConsumed => Len(Remember(t)) <= MaxConsumed
           /\ Forgets \subseteq Strings
<1> USE StoreAssumption
<1>1. CASE Len(consumed) >= MaxConsumed
  <2>1. consumed # <<>>
    BY <1>1, EmptySeq
  <2>2. /\ Head(consumed) \in Strings /\ Tail(consumed) \in Seq(Strings)
        /\ Len(Tail(consumed)) = Len(consumed) - 1
    BY <2>1, HeadTailProperties
  <2>3. /\ Append(Tail(consumed), t) \in Seq(Strings)
        /\ Len(Append(Tail(consumed), t)) = Len(consumed)
    BY <2>2, AppendProperties, LenProperties
  <2> QED
    BY <1>1, <2>2, <2>3 DEF Remember, Forgets
<1>2. CASE ~(Len(consumed) >= MaxConsumed)
  <2>1. /\ Append(consumed, t) \in Seq(Strings)
        /\ Len(Append(consumed, t)) = Len(consumed) + 1
    BY AppendProperties
  <2> QED
    BY <1>2, <2>1, LenProperties DEF Remember, Forgets
<1> QED
  BY <1>1, <1>2

\* It remembers the string, and every string it does not report as dropped.
LEMMA RememberKeeps ==
    ASSUME NEW t \in Strings, consumed \in Seq(Strings), consumed' = Remember(t)
    PROVE  /\ IsConsumed(t)'
           /\ \A u : IsConsumed(u) => IsConsumed(u)' \/ u \in Forgets
<1> USE StoreAssumption DEF IsConsumed
<1>1. CASE Len(consumed) >= MaxConsumed
  <2>1. consumed # <<>>
    BY <1>1, EmptySeq
  <2>2. /\ Tail(consumed) \in Seq(Strings) /\ Len(Tail(consumed)) = Len(consumed) - 1
        /\ \A k \in 1..Len(Tail(consumed)) : Tail(consumed)[k] = consumed[k + 1]
    BY <2>1, HeadTailProperties
  <2>3. consumed' = Append(Tail(consumed), t) /\ Forgets = {consumed[1]}
    BY <1>1, <2>1 DEF Remember, Forgets
  <2>4. /\ DOMAIN consumed = 1..Len(consumed) /\ Len(consumed) \in Nat
        /\ DOMAIN consumed' = 1..Len(consumed)
        /\ consumed'[Len(consumed)] = t
        /\ \A k \in 1..(Len(consumed) - 1) : consumed'[k] = consumed[k + 1]
    BY <2>2, <2>3, AppendProperties, LenProperties
  <2>5. ASSUME NEW u, IsConsumed(u) PROVE IsConsumed(u)' \/ u \in Forgets
    <3>1. PICK k \in 1..Len(consumed) : consumed[k] = u
      BY <2>4, <2>5
    <3>2. CASE k = 1
      BY <2>3, <3>1, <3>2
    <3>3. CASE k # 1
      <4>1. k - 1 \in 1..(Len(consumed) - 1)
        BY <2>4, <3>3
      <4>2. consumed'[k - 1] = u
        BY <2>4, <3>1, <4>1
      <4> QED
        BY <2>4, <4>1, <4>2
    <3> QED
      BY <3>2, <3>3
  <2>6. Len(consumed) \in 1..Len(consumed)
    BY <2>1, <2>4, EmptySeq
  <2> QED
    BY <2>4, <2>5, <2>6
<1>2. CASE ~(Len(consumed) >= MaxConsumed)
  <2>1. consumed' = Append(consumed, t)
    BY <1>2 DEF Remember
  <2>2. /\ DOMAIN consumed = 1..Len(consumed) /\ Len(consumed) \in Nat
        /\ DOMAIN consumed' = 1..(Len(consumed) + 1)
        /\ consumed'[Len(consumed) + 1] = t
        /\ \A k \in 1..Len(consumed) : consumed'[k] = consumed[k]
    BY <2>1, AppendProperties, LenProperties
  <2> QED
    BY <2>2
<1> QED
  BY <1>1, <1>2

-----------------------------------------------------------------------------
LEMMA TypeInit == Init => TypeOK
BY StoreAssumption, EmptySeq DEF Init, TypeOK, Conns, Strings, None, NoLife, NoTicket, NoEntry, NoRequest, Unused

\* What a connection asks to resume with is a string.
LEMMA SentType ==
    ASSUME TypeOK, NEW i \in Conns, request[i].ticket # None
    PROVE  request[i].ticket \in Conns /\ request[i].spelling \in Spellings /\ Sent(i) \in Strings
BY DEF TypeOK, Sent, Strings

LEMMA TypeStep == TypeOK /\ [Next]_vars => TypeOK'
<1> SUFFICES ASSUME TypeOK, [Next]_vars PROVE TypeOK'
  OBVIOUS
<1> USE StoreAssumption DEF TypeOK, storeVars, clientVars, linkVars, historyVars
<1>1. ASSUME NEW c \in Clients, NEW i \in Conns, FullHandshake(c, i) PROVE TypeOK'
  <2>1. Issue(c) \in [client : Clients \cup {None}, expiresAt : Nat, master : Nat]
    BY DEF Issue
  <2>2. cache' \in [Clients -> [Strings -> [key : Conns \cup {None}, savedAt : Nat]]]
    BY <1>1 DEF FullHandshake
  <2>3. /\ owner' \in [Conns -> Clients \cup {None}] /\ socketOpen' \in [Conns -> BOOLEAN]
        /\ tickets' \in [Conns -> [client : Clients \cup {None}, expiresAt : Nat, master : Nat]]
        /\ server' \in [Conns -> [state : {"none", "established", "resumed", "failed", "closed"},
                                  key : Conns \cup {None}, ticket : Conns \cup {None}]]
    BY <1>1, <2>1 DEF FullHandshake
  <2>4. /\ phase' \in [Clients -> {"idle", "client_hello_sent", "established", "resumed"}]
        /\ aesKey' \in [Clients -> Conns \cup {None}]
        /\ socket' \in [Clients -> Conns \cup {None}]
        /\ sessionTicket' \in [Clients -> Conns \cup {None}]
        /\ spelling' \in [Clients -> Spellings]
        /\ serverSig' \in [Clients -> Nat \cup {NoLife}]
    BY <1>1 DEF FullHandshake
  <2> QED
    BY <1>1, <2>2, <2>3, <2>4 DEF FullHandshake
<1>2. ASSUME NEW c \in Clients, NEW t \in Conns, NEW s \in Spellings, SetSessionTicket(c, t, s)
      PROVE  TypeOK'
  <2>1. <<t, s>> \in Strings
    BY DEF Strings
  <2>2. /\ cache' \in [Clients -> [Strings -> [key : Conns \cup {None}, savedAt : Nat]]]
        /\ aesKey' \in [Clients -> Conns \cup {None}]
    BY <1>2, <2>1 DEF SetSessionTicket, NoEntry, None
  <2>3. /\ sessionTicket' \in [Clients -> Conns \cup {None}]
        /\ spelling' \in [Clients -> Spellings]
    BY <1>2 DEF SetSessionTicket
  <2> QED
    BY <1>2, <2>2, <2>3 DEF SetSessionTicket
<1>3. ASSUME NEW c \in Clients, NEW i \in Conns, ConnectResume(c, i) PROVE TypeOK'
  BY <1>3 DEF ConnectResume
<1>4. ASSUME NEW i \in Conns, ServerResume(i) PROVE TypeOK'
  <2>1. request[i].ticket \in Conns /\ Sent(i) \in Strings
    BY <1>4, SentType DEF ServerResume
  <2>2. consumed' \in Seq(Strings) /\ forgotten' \subseteq Strings
    BY <1>4, <2>1, RememberType DEF ServerResume
  <2>3. redeemed' \subseteq Strings \X Conns \X Nat
    BY <1>4, <2>1 DEF ServerResume
  <2>4. server' \in [Conns -> [state : {"none", "established", "resumed", "failed", "closed"},
                             key : Conns \cup {None}, ticket : Conns \cup {None}]]
    BY <1>4, <2>1 DEF ServerResume
  <2>5. /\ answer' \in [Conns -> {"none", "server_auth_response", "handshake_error"}]
        /\ signedBy' \in [Conns -> Nat \cup {NoLife}]
    BY <1>4 DEF ServerResume
  <2> QED
    BY <1>4, <2>2, <2>3, <2>4, <2>5 DEF ServerResume
<1>5. ASSUME NEW i \in Conns, ServerRefuseResume(i) PROVE TypeOK'
  <2>1. Sent(i) \in Strings
    BY <1>5, SentType DEF ServerRefuseResume
  <2>2. consumed' \in Seq(Strings) /\ forgotten' \subseteq Strings
    BY <1>5, <2>1, RememberType DEF ServerRefuseResume
  <2>3. server' \in [Conns -> [state : {"none", "established", "resumed", "failed", "closed"},
                             key : Conns \cup {None}, ticket : Conns \cup {None}]]
    BY <1>5 DEF ServerRefuseResume, Failed, None
  <2>4. answer' \in [Conns -> {"none", "server_auth_response", "handshake_error"}]
    BY <1>5 DEF ServerRefuseResume
  <2>5. UNCHANGED <<now, restarts, masterKey, tickets, clientVars, owner, socketOpen, request,
                    signedBy, redeemed>>
    BY <1>5 DEF ServerRefuseResume
  <2> QED
    BY <2>2, <2>3, <2>4, <2>5
<1>6. ASSUME NEW c \in Clients, NEW i \in Conns, ClientResumed(c, i) PROVE TypeOK'
  <2>1. CASE HasKey(c)
    <3> DEFINE entry == [key |-> aesKey[c], savedAt |-> now]
    <3>1. entry \in [key : Conns \cup {None}, savedAt : Nat]
      OBVIOUS
    <3>2. /\ cache' = [cache EXCEPT ![c] = [cache[c] EXCEPT ![Sent(i)] = entry]]
          /\ phase' = [phase EXCEPT ![c] = "resumed"]
      BY <1>6, <2>1, Zenon DEF ClientResumed
    <3> HIDE DEF entry
    <3>3. cache' \in [Clients -> [Strings -> [key : Conns \cup {None}, savedAt : Nat]]]
      BY <3>1, <3>2
    <3>4. phase' \in [Clients -> {"idle", "client_hello_sent", "established", "resumed"}]
      BY <3>2
    <3> QED
      BY <1>6, <3>3, <3>4 DEF ClientResumed
  <2>2. CASE ~HasKey(c)
    <3>1. UNCHANGED <<phase, cache>>
      BY <1>6, <2>2, Zenon DEF ClientResumed
    <3> QED
      BY <1>6, <3>1 DEF ClientResumed
  <2> QED
    BY <2>1, <2>2
<1>12. ASSUME NEW c \in Clients, NEW i \in Conns, ClientRefusesAnswer(c, i) PROVE TypeOK'
  BY <1>12 DEF ClientRefusesAnswer
<1>7. ASSUME NEW c \in Clients, Disconnect(c) PROVE TypeOK'
  BY <1>7 DEF Disconnect, WipeSecrets
<1>8. ASSUME NEW c \in Clients, NEW i \in Conns, SocketClose(c, i) PROVE TypeOK'
  BY <1>8 DEF SocketClose, WipeSecrets, Closed, NoRequest, None
<1>9. CASE Restart
  <2>1. masterKey' \in Nat /\ restarts' \in Nat /\ consumed' \in Seq(Strings)
    BY <1>9, EmptySeq DEF Restart
  <2> QED
    BY <1>9, <2>1 DEF Restart, Closed, None
<1>10. CASE Tick
  BY <1>10 DEF Tick
<1>11. CASE UNCHANGED vars
  BY <1>11 DEF vars
<1> QED
  BY <1>1, <1>2, <1>3, <1>4, <1>5, <1>6, <1>7, <1>8, <1>9, <1>10, <1>11, <1>12 DEF Next

-----------------------------------------------------------------------------
\* TicketInv in three parts: what refers to a ticket, what a resumed connection
\* took up, and what was redeemed.
References ==
    /\ \A t \in Conns : ~Issued(t) => tickets[t] = NoTicket
    /\ \A c \in Clients : sessionTicket[c] # None => Issued(sessionTicket[c])
    /\ \A i \in Conns : request[i].ticket # None => Issued(i) /\ Issued(request[i].ticket)

TakenUp ==
    \A i \in Conns : server[i].state = "resumed" =>
        /\ Issued(i) /\ server[i].ticket \in Conns /\ Issued(server[i].ticket)
        /\ tickets[server[i].ticket].client = owner[i]
        /\ server[i].key = server[i].ticket

History ==
    /\ \A r \in redeemed :
          /\ r[3] <= restarts
          /\ r[3] = restarts => IsConsumed(r[1]) \/ r[1] \in forgotten
    /\ OnceInALife

LEMMA TicketParts == TicketInv <=> References /\ TakenUp /\ History
BY DEF TicketInv, References, TakenUp, History, OnceInALife

LEMMA TicketInit == Init => TicketInv
<1> SUFFICES ASSUME Init PROVE TicketInv
  OBVIOUS
<1>1. References
  BY DEF Init, References, Issued, NoRequest
<1>2. TakenUp
  BY DEF Init, TakenUp, Unused
<1>3. History
  BY DEF Init, History, OnceInALife
<1> QED
  BY <1>1, <1>2, <1>3, TicketParts

\* A step that makes no connection, or one for a fresh i, leaves the owners of the
\* connections made so far, and what their tickets say, as they are.
LEMMA IssuedStays ==
    ASSUME TypeOK, [Next]_vars, NEW t \in Conns, Issued(t)
    PROVE  owner'[t] = owner[t] /\ tickets'[t] = tickets[t] /\ Issued(t)'
<1> USE DEF Issued, storeVars, clientVars, linkVars, historyVars
<1>1. ASSUME NEW c \in Clients, NEW i \in Conns, FullHandshake(c, i)
      PROVE  owner'[t] = owner[t] /\ tickets'[t] = tickets[t]
  BY <1>1 DEF FullHandshake, Fresh, TypeOK
<1>2. ASSUME NEW c \in Clients, NEW i \in Conns, ConnectResume(c, i)
      PROVE  owner'[t] = owner[t] /\ tickets'[t] = tickets[t]
  BY <1>2 DEF ConnectResume, Fresh, TypeOK
<1>3. ASSUME NEW c \in Clients, NEW i \in Conns,
             \/ \E s \in Spellings : SetSessionTicket(c, i, s)
             \/ ClientResumed(c, i) \/ ClientRefusesAnswer(c, i)
             \/ SocketClose(c, i) \/ Disconnect(c)
      PROVE  UNCHANGED <<owner, tickets>>
  BY <1>3 DEF SetSessionTicket, ClientResumed, ClientRefusesAnswer, SocketClose, Disconnect
<1>4. ASSUME NEW i \in Conns, ServerResume(i) \/ ServerRefuseResume(i)
      PROVE  UNCHANGED <<owner, tickets>>
  BY <1>4 DEF ServerResume, ServerRefuseResume
<1>5. CASE Restart \/ Tick \/ UNCHANGED vars
  BY <1>5 DEF Restart, Tick, vars
<1> QED
  BY <1>1, <1>2, <1>3, <1>4, <1>5 DEF Next

LEMMA ReferencesStep == TypeOK /\ References /\ [Next]_vars => References'
<1> SUFFICES ASSUME TypeOK, References, [Next]_vars PROVE References'
  OBVIOUS
<1> USE DEF Issued, storeVars, clientVars, linkVars, historyVars
<1>0. \A t \in Conns : Issued(t) => owner'[t] # None /\ tickets'[t] = tickets[t]
  BY IssuedStays
<1>a. sessionTicket \in [Clients -> Conns \cup {None}]
  BY DEF TypeOK
<1>b. request \in [Conns -> [ticket : Conns \cup {None}, spelling : Spellings, signed : BOOLEAN]]
  BY DEF TypeOK
<1>c. /\ owner \in [Conns -> Clients \cup {None}]
      /\ tickets \in [Conns -> [client : Clients \cup {None}, expiresAt : Nat, master : Nat]]
  BY DEF TypeOK
\* a step that touches none of the three
<1>1. ASSUME UNCHANGED <<tickets, sessionTicket, request, owner>> PROVE References'
  BY <1>1 DEF References, Issued
<1>2. ASSUME NEW c \in Clients, NEW i \in Conns, FullHandshake(c, i) PROVE References'
  <2>1. owner'[i] # None
    BY <1>2, <1>c, ClientsAssumption DEF FullHandshake, Issued
  <2>2. \A t \in Conns : owner'[t] = None => tickets'[t] = NoTicket
    BY <1>2, <1>0, <1>c, <2>1 DEF FullHandshake, References
  <2>3. \A d \in Clients : sessionTicket'[d] # None => owner'[sessionTicket'[d]] # None
    BY <1>2, <1>0, <1>a, <2>1 DEF FullHandshake, References, None, Conns
  <2>4. \A j \in Conns : request'[j].ticket # None => owner'[j] # None /\ owner'[request'[j].ticket] # None
    BY <1>2, <1>0, <1>b DEF FullHandshake, References
  <2> QED
    BY <2>2, <2>3, <2>4 DEF References, Issued
<1>3. ASSUME NEW c \in Clients, NEW t \in Conns, NEW s \in Spellings, SetSessionTicket(c, t, s)
      PROVE  References'
  <2>1. Issued(t)
    BY <1>3 DEF SetSessionTicket, References
  <2>2. \A d \in Clients : sessionTicket'[d] # None => Issued(sessionTicket'[d])
    BY <1>3, <1>a, <2>1 DEF SetSessionTicket, References
  <2> QED
    BY <1>3, <2>2 DEF SetSessionTicket, References, Issued
<1>4. ASSUME NEW c \in Clients, NEW i \in Conns, ConnectResume(c, i) PROVE References'
  <2>1. owner'[i] # None
    BY <1>4, <1>c, ClientsAssumption DEF ConnectResume, Issued
  <2>2. \A t \in Conns : owner'[t] = None => tickets'[t] = NoTicket
    BY <1>4, <1>0 DEF ConnectResume, References
  <2>3. \A d \in Clients : sessionTicket'[d] # None => owner'[sessionTicket'[d]] # None
    BY <1>4, <1>0, <1>a DEF ConnectResume, References
  <2>4. ASSUME NEW j \in Conns, request'[j].ticket # None
        PROVE  owner'[j] # None /\ owner'[request'[j].ticket] # None
    <3>1. CASE j = i
      <4>1. request'[i].ticket = sessionTicket[c]
        BY <1>4, <1>b DEF ConnectResume
      <4> QED
        BY <1>4, <1>0, <1>a, <2>1, <3>1, <4>1 DEF ConnectResume, References
    <3>2. CASE j # i
      <4>1. request'[j] = request[j]
        BY <1>4, <1>b, <3>2 DEF ConnectResume
      <4> QED
        BY <1>0, <1>b, <2>4, <4>1 DEF References
    <3> QED
      BY <3>1, <3>2
  <2> QED
    BY <2>2, <2>3, <2>4 DEF References, Issued
<1>5. ASSUME NEW c \in Clients, NEW i \in Conns, ClientResumed(c, i) PROVE References'
  <2>1. \A d \in Clients : sessionTicket'[d] # None => Issued(sessionTicket'[d])
    BY <1>5, <1>a, <1>b DEF ClientResumed, References
  <2> QED
    BY <1>5, <2>1 DEF ClientResumed, References, Issued
<1>6. ASSUME NEW c \in Clients, NEW i \in Conns, SocketClose(c, i) PROVE References'
  <2>1. \A j \in Conns : request'[j].ticket # None => request'[j] = request[j]
    BY <1>6, <1>b DEF SocketClose, NoRequest
  <2> QED
    BY <1>6, <2>1 DEF SocketClose, References, Issued
<1>7. ASSUME NEW c \in Clients, Disconnect(c) PROVE References'
  BY <1>7, <1>1 DEF Disconnect
<1>10. ASSUME NEW c \in Clients, NEW i \in Conns, ClientRefusesAnswer(c, i) PROVE References'
  BY <1>10, <1>1 DEF ClientRefusesAnswer
<1>8. ASSUME NEW i \in Conns, ServerResume(i) \/ ServerRefuseResume(i) PROVE References'
  BY <1>8, <1>1 DEF ServerResume, ServerRefuseResume
<1>9. CASE Restart \/ Tick \/ UNCHANGED vars
  BY <1>9, <1>1 DEF Restart, Tick, vars
<1> QED
  BY <1>2, <1>3, <1>4, <1>5, <1>6, <1>7, <1>8, <1>9, <1>10 DEF Next

LEMMA TakenUpStep == TypeOK /\ References /\ TakenUp /\ [Next]_vars => TakenUp'
<1> SUFFICES ASSUME TypeOK, References, TakenUp, [Next]_vars,
                    NEW j \in Conns, server'[j].state = "resumed"
             PROVE  /\ owner'[j] # None /\ server'[j].ticket \in Conns
                    /\ owner'[server'[j].ticket] # None
                    /\ tickets'[server'[j].ticket].client = owner'[j]
                    /\ server'[j].key = server'[j].ticket
  BY DEF TakenUp, Issued
<1> USE DEF Issued, storeVars, clientVars, linkVars, historyVars
<1>0. \A t \in Conns : owner[t] # None => owner'[t] = owner[t] /\ tickets'[t] = tickets[t]
  BY IssuedStays
<1>a. server \in [Conns -> [state : {"none", "established", "resumed", "failed", "closed"},
                            key : Conns \cup {None}, ticket : Conns \cup {None}]]
  BY DEF TypeOK
\* a connection that was resumed before
<1>1. ASSUME server'[j] = server[j]
      PROVE  /\ owner'[j] # None /\ server'[j].ticket \in Conns
             /\ owner'[server'[j].ticket] # None
             /\ tickets'[server'[j].ticket].client = owner'[j]
             /\ server'[j].key = server'[j].ticket
  BY <1>0, <1>1 DEF TakenUp
<1>2. ASSUME NEW i \in Conns, ServerResume(i), j = i
      PROVE  /\ owner'[j] # None /\ server'[j].ticket \in Conns
             /\ owner'[server'[j].ticket] # None
             /\ tickets'[server'[j].ticket].client = owner'[j]
             /\ server'[j].key = server'[j].ticket
  <2>1. /\ request[i].ticket \in Conns /\ tickets[request[i].ticket].client = owner[i]
        /\ owner[i] # None /\ owner[request[i].ticket] # None
    BY <1>2 DEF ServerResume, KeyMatches, References, TypeOK
  <2>2. server'[i] = [state |-> "resumed", key |-> request[i].ticket, ticket |-> request[i].ticket]
    BY <1>2, <1>a DEF ServerResume
  <2> QED
    BY <1>0, <1>2, <2>1, <2>2
<1>3. ASSUME NEW i \in Conns, ServerResume(i), j # i PROVE server'[j] = server[j]
  BY <1>3, <1>a DEF ServerResume
<1>4. ASSUME NEW i \in Conns, ServerRefuseResume(i) PROVE server'[j] = server[j]
  <2>1. server'[i] = Failed /\ (j # i => server'[j] = server[j])
    BY <1>4, <1>a DEF ServerRefuseResume
  <2> QED
    BY <2>1 DEF Failed
<1>5. ASSUME NEW c \in Clients, NEW i \in Conns, FullHandshake(c, i) PROVE server'[j] = server[j]
  BY <1>5, <1>a DEF FullHandshake
<1>6. ASSUME NEW c \in Clients, NEW i \in Conns, SocketClose(c, i) PROVE server'[j] = server[j]
  <2>1. server'[i] = Closed /\ (j # i => server'[j] = server[j])
    BY <1>6, <1>a DEF SocketClose
  <2> QED
    BY <2>1 DEF Closed
<1>7. ASSUME NEW c \in Clients, NEW i \in Conns,
             \/ \E s \in Spellings : SetSessionTicket(c, i, s)
             \/ ConnectResume(c, i) \/ Disconnect(c)
             \/ ClientResumed(c, i) \/ ClientRefusesAnswer(c, i)
      PROVE  server'[j] = server[j]
  BY <1>7 DEF SetSessionTicket, ConnectResume, ClientResumed, ClientRefusesAnswer, Disconnect
<1>8. CASE Restart
  BY <1>1, <1>8 DEF Restart, Closed
<1>9. CASE Tick \/ UNCHANGED vars
  BY <1>1, <1>9 DEF Tick, vars
<1> QED
  BY <1>1, <1>2, <1>3, <1>4, <1>5, <1>6, <1>7, <1>8, <1>9 DEF Next

\* A step that redeems nothing.
LEMMA HistoryKept ==
    ASSUME TypeOK, History, UNCHANGED <<restarts, redeemed>>, forgotten \subseteq forgotten',
           \A u : IsConsumed(u) => IsConsumed(u)' \/ u \in forgotten'
    PROVE  History'
<1>1. \A r \in redeemed' :
          /\ r[3] <= restarts'
          /\ r[3] = restarts' => IsConsumed(r[1])' \/ r[1] \in forgotten'
  BY DEF History
<1>2. OnceInALife'
  BY DEF History, OnceInALife
<1> QED
  BY <1>1, <1>2 DEF History

LEMMA HistoryStep == TypeOK /\ History /\ [Next]_vars => History'
<1> SUFFICES ASSUME TypeOK, History, [Next]_vars PROVE History'
  OBVIOUS
<1> USE DEF storeVars, clientVars, linkVars, historyVars
<1>1. ASSUME UNCHANGED <<restarts, redeemed, forgotten, consumed>> PROVE History'
  BY <1>1, HistoryKept DEF IsConsumed
<1>2. ASSUME NEW i \in Conns, ServerResume(i) PROVE History'
  <2>0. PICK t \in Strings : t = Sent(i)
    BY <1>2, SentType DEF ServerResume
  <2>1. /\ ~IsConsumed(t) /\ consumed' = Remember(t)
        /\ redeemed' = redeemed \cup {<<t, i, restarts>>} /\ restarts' = restarts
        /\ forgotten' = forgotten \cup Forgets /\ restarts \in Nat
    BY <1>2, <2>0 DEF ServerResume, Redeemable, TypeOK
  <2>2. /\ IsConsumed(t)'
        /\ \A u : IsConsumed(u) => IsConsumed(u)' \/ u \in forgotten'
    BY <2>1, RememberKeeps DEF TypeOK
  <2>3. \A r \in redeemed' :
          /\ r[3] <= restarts'
          /\ r[3] = restarts' => IsConsumed(r[1])' \/ r[1] \in forgotten'
    BY <2>1, <2>2 DEF History
  \* an earlier redemption of the same string in this life: it was dropped since
  <2>4. \A r \in redeemed : r[1] = t /\ r[3] = restarts => r[1] \in forgotten'
    BY <2>1 DEF History
  <2>5. OnceInALife'
    <3> SUFFICES ASSUME NEW r \in redeemed', NEW s \in redeemed',
                        r[1] = s[1], r[3] = s[3], r[1] \notin forgotten'
                 PROVE  r[2] = s[2]
      BY DEF OnceInALife
    <3>1. CASE r \in redeemed /\ s \in redeemed
      BY <2>1, <3>1 DEF History, OnceInALife
    <3>2. CASE r = <<t, i, restarts>>
      BY <2>1, <2>4, <3>2
    <3>3. CASE s = <<t, i, restarts>>
      BY <2>1, <2>4, <3>3
    <3> QED
      BY <2>1, <3>1, <3>2, <3>3
  <2> QED
    BY <2>3, <2>5 DEF History
<1>3. ASSUME NEW i \in Conns, ServerRefuseResume(i) PROVE History'
  <2>1. CASE Redeemable(i)
    <3>1. /\ Sent(i) \in Strings /\ consumed' = Remember(Sent(i))
          /\ UNCHANGED <<redeemed, restarts>> /\ forgotten' = forgotten \cup Forgets
      BY <1>3, <2>1, SentType DEF ServerRefuseResume
    <3>2. \A u : IsConsumed(u) => IsConsumed(u)' \/ u \in forgotten'
      BY <3>1, RememberKeeps DEF TypeOK
    <3> QED
      BY <3>1, <3>2, HistoryKept
  <2>2. CASE ~Redeemable(i)
    BY <1>1, <1>3, <2>2 DEF ServerRefuseResume
  <2> QED
    BY <2>1, <2>2
<1>4. ASSUME NEW c \in Clients, NEW i \in Conns,
             \/ FullHandshake(c, i) \/ ConnectResume(c, i)
             \/ \E s \in Spellings : SetSessionTicket(c, i, s)
             \/ ClientResumed(c, i) \/ ClientRefusesAnswer(c, i) \/ SocketClose(c, i)
      PROVE  History'
  BY <1>1, <1>4 DEF FullHandshake, SetSessionTicket, ConnectResume, ClientResumed,
                    ClientRefusesAnswer, SocketClose
\* consumedTickets is lost, but what follows is another life
<1>5. CASE Restart
  <2>1. restarts' = restarts + 1 /\ restarts \in Nat /\ UNCHANGED <<redeemed, forgotten>>
    BY <1>5 DEF Restart, TypeOK
  <2>2. \A r \in redeemed : r[3] \in Nat /\ r[3] <= restarts
    BY DEF History, TypeOK
  <2>3. \A r \in redeemed' :
          /\ r[3] <= restarts'
          /\ r[3] = restarts' => IsConsumed(r[1])' \/ r[1] \in forgotten'
    BY <2>1, <2>2
  <2>4. OnceInALife'
    BY <2>1 DEF History, OnceInALife
  <2> QED
    BY <2>3, <2>4 DEF History
<1>6. CASE Tick \/ UNCHANGED vars \/ \E c \in Clients : Disconnect(c)
  BY <1>1, <1>6 DEF Tick, vars, Disconnect
<1> QED
  BY <1>2, <1>3, <1>4, <1>5, <1>6 DEF Next

-----------------------------------------------------------------------------
\* The store, the clients and the links between them stay well-typed.
THEOREM TypeCorrect == Spec => []TypeOK
BY TypeInit, TypeStep, PTL DEF Spec

\* The inductive invariant: what refers to a ticket refers to one that was issued,
\* and what was redeemed in this life is remembered or was dropped.
THEOREM TicketInvariant == Spec => []TicketInv
<1>1. TypeOK /\ TicketInv /\ [Next]_vars => TicketInv'
  <2> SUFFICES ASSUME TypeOK, TicketInv, [Next]_vars PROVE TicketInv'
    OBVIOUS
  <2>1. References /\ TakenUp /\ History
    BY TicketParts
  <2>2. References' /\ TakenUp' /\ History'
    BY <2>1, ReferencesStep, TakenUpStep, HistoryStep
  <2>3. (TicketInv <=> References /\ TakenUp /\ History)'
    BY TicketParts, PTL
  <2> QED
    BY <2>2, <2>3
<1> QED
  BY <1>1, TicketInit, TypeCorrect, PTL DEF Spec

\* Within one life of the server a ticket resumes at most one connection under each
\* spelling, unless a full set of consumed strings has dropped that one.
THEOREM TakenUpOnce == Spec => []OnceInALife
<1>1. TicketInv => OnceInALife
  BY TicketParts DEF History
<1> QED
  BY <1>1, TicketInvariant, PTL

\* A connection is resumed only by the client object the ticket was issued to, and
\* with the key that client negotiated.
THEOREM OwnerResumes == Spec => []ResumedByOwner
<1>1. TicketInv => ResumedByOwner
  BY DEF TicketInv, ResumedByOwner
<1> QED
  BY <1>1, TicketInvariant, PTL

\* The memory for consumed tickets never outgrows its bound.
THEOREM MemoryBounded == Spec => []ConsumedBounded
<1>1. Init => ConsumedBounded
  BY StoreAssumption, EmptySeq DEF Init, ConsumedBounded
<1>2. TypeOK /\ ConsumedBounded /\ [Next]_vars => ConsumedBounded'
  <2> SUFFICES ASSUME TypeOK, ConsumedBounded, [Next]_vars PROVE ConsumedBounded'
    OBVIOUS
  <2> USE DEF ConsumedBounded, storeVars, clientVars, linkVars, historyVars
  <2>1. ASSUME NEW i \in Conns, ServerResume(i) PROVE ConsumedBounded'
    <3>1. Sent(i) \in Strings  BY <2>1, SentType DEF ServerResume
    <3> QED  BY <2>1, <3>1, RememberType DEF ServerResume, TypeOK
  <2>2. ASSUME NEW i \in Conns, ServerRefuseResume(i) PROVE ConsumedBounded'
    <3>1. Sent(i) \in Strings  BY <2>2, SentType DEF ServerRefuseResume
    <3> QED  BY <2>2, <3>1, RememberType DEF ServerRefuseResume, TypeOK
  <2>3. ASSUME NEW c \in Clients, NEW i \in Conns,
               \/ FullHandshake(c, i) \/ ConnectResume(c, i)
               \/ \E s \in Spellings : SetSessionTicket(c, i, s)
               \/ ClientResumed(c, i) \/ ClientRefusesAnswer(c, i) \/ SocketClose(c, i)
        PROVE  ConsumedBounded'
    BY <2>3 DEF FullHandshake, SetSessionTicket, ConnectResume, ClientResumed,
                ClientRefusesAnswer, SocketClose
  <2>4. CASE Restart
    BY <2>4, StoreAssumption, EmptySeq DEF Restart
  <2>5. CASE Tick \/ UNCHANGED vars \/ \E c \in Clients : Disconnect(c)
    BY <2>5 DEF Tick, vars, Disconnect
  <2> QED
    BY <2>1, <2>2, <2>3, <2>4, <2>5 DEF Next
<1> QED
  BY <1>1, <1>2, TypeCorrect, PTL DEF Spec
-----------------------------------------------------------------------------
(***************************************************************************)
(* The key a resumed client holds.  A client makes one full handshake, so  *)
(* it has one ticket and one key buffer of its own; it holds, and caches,  *)
(* no other, under whatever spelling; and while a resumption is under way  *)
(* nothing but a wipe touches the key it holds.                            *)
(***************************************************************************)
NotMade ==
    \A i \in Conns :
        /\ owner[i] = None => ~socketOpen[i] /\ answer[i] = "none"
        /\ request[i].ticket # None => socketOpen[i]

\* A client that has a ticket, of whomever, never makes another full handshake.
OneTicket ==
    /\ \A c \in Clients : \A t \in Conns :
          sessionTicket[c] = None => tickets[t].client # c
    /\ \A c \in Clients : \A t, u \in Conns :
          tickets[t].client = c /\ tickets[u].client = c => t = u

KeysOwned ==
    /\ \A c \in Clients : aesKey[c] # None => tickets[aesKey[c]].client = c
    /\ \A c \in Clients : \A str \in Strings :
          cache[c][str].key # None => tickets[cache[c][str].key].client = c
    /\ \A k \in zeroed : tickets[k].client \in Clients /\ ~signing[tickets[k].client]

Answered(i) == answer[i] = "server_auth_response"
Pending(i) == owner[i] # None /\ socketOpen[i] /\ (server[i].state = "none" \/ Answered(i))

\* A client has one resumption under way, on its current socket, and if it still
\* holds a key then it has wiped nothing since it signed.
UnderwayAt(i, c) ==
    /\ socket[c] = i /\ phase[c] = "client_hello_sent"
    /\ sessionTicket[c] = request[i].ticket
    /\ (request[i].signed \/ Answered(i)) /\ aesKey[c] # None => signing[c]
Underway == \A i \in Conns : Pending(i) => UnderwayAt(i, owner[i])

AnswerFits ==
    \A i \in Conns : Answered(i) =>
        /\ owner[i] # None /\ socketOpen[i]
        /\ request[i].ticket \in Conns
        /\ tickets[request[i].ticket].client = owner[i]
        /\ server[i].state = "resumed" \/ server[i].state = "closed"
        /\ server[i].state = "resumed" => server[i].key = request[i].ticket
        /\ aesKey[owner[i]] \in {None, request[i].ticket}

KeyInv == NotMade /\ OneTicket /\ KeysOwned /\ Underway /\ AnswerFits

LEMMA KeyInit == Init => KeyInv
<1> SUFFICES ASSUME Init PROVE KeyInv  OBVIOUS
<1>1. NotMade  BY DEF Init, NotMade, NoRequest
<1>2. OneTicket  BY ClientsAssumption DEF Init, OneTicket, NoTicket
<1>3. KeysOwned  BY DEF Init, KeysOwned, NoEntry
<1>5. Underway  BY DEF Init, Underway, Pending
<1>6. AnswerFits  BY DEF Init, AnswerFits, Answered
<1> QED  BY <1>1, <1>2, <1>3, <1>5, <1>6 DEF KeyInv

\* Its own actions touch a client's socket, phase, ticket and key only when no
\* handshake of its is under way.
LEMMA SettledNotPending ==
    ASSUME TypeOK, Underway, NEW c \in Clients, Settled(c),
           NEW i \in Conns, owner[i] = c
    PROVE  ~Pending(i)
<1> SUFFICES ASSUME Pending(i) PROVE FALSE  OBVIOUS
<1>1. socket[c] = i /\ phase[c] = "client_hello_sent" /\ socketOpen[i]
  BY DEF Underway, UnderwayAt, Pending
<1> QED  BY <1>1 DEF Settled, None, Conns

LEMMA NotMadeStep == TypeOK /\ References /\ NotMade /\ [Next]_vars => NotMade'
<1> SUFFICES ASSUME TypeOK, References, NotMade, [Next]_vars PROVE NotMade'  OBVIOUS
<1> USE DEF storeVars, clientVars, linkVars, historyVars
<1>a. /\ owner \in [Conns -> Clients \cup {None}] /\ socketOpen \in [Conns -> BOOLEAN]
      /\ answer \in [Conns -> {"none", "server_auth_response", "handshake_error"}]
      /\ request \in [Conns -> [ticket : Conns \cup {None}, spelling : Spellings, signed : BOOLEAN]]
  BY DEF TypeOK
<1>1. ASSUME NEW c \in Clients, NEW i \in Conns, FullHandshake(c, i) \/ ConnectResume(c, i)
      PROVE  NotMade'
  <2>1. /\ owner' = [owner EXCEPT ![i] = c] /\ UNCHANGED answer
        /\ socketOpen' = [socketOpen EXCEPT ![i] = TRUE]
    BY <1>1 DEF FullHandshake, ConnectResume
  <2>2. \A j \in Conns : j # i => request'[j] = request[j]
    BY <1>1, <1>a DEF FullHandshake, ConnectResume
  <2> QED  BY <1>a, <2>1, <2>2, ClientsAssumption DEF NotMade
<1>2. ASSUME NEW i \in Conns, ServerResume(i) \/ ServerRefuseResume(i) PROVE NotMade'
  <2>1. owner[i] # None /\ UNCHANGED <<owner, socketOpen, request>>
    BY <1>2 DEF ServerResume, ServerRefuseResume, References, Issued
  <2>2. \A j \in Conns : j # i => answer'[j] = answer[j]
    BY <1>2, <1>a DEF ServerResume, ServerRefuseResume
  <2> QED  BY <2>1, <2>2 DEF NotMade
<1>3. ASSUME NEW c \in Clients, NEW i \in Conns, ClientResumed(c, i) PROVE NotMade'
  BY <1>3, <1>a DEF ClientResumed, NotMade
<1>4. ASSUME NEW c \in Clients, NEW i \in Conns, SocketClose(c, i) PROVE NotMade'
  BY <1>4, <1>a DEF SocketClose, NotMade, NoRequest
<1>5. ASSUME NEW c \in Clients, NEW i \in Conns, NEW s \in Spellings, SetSessionTicket(c, i, s)
      PROVE  NotMade'
  BY <1>5 DEF SetSessionTicket, NotMade
<1>8. ASSUME NEW c \in Clients, NEW i \in Conns, ClientRefusesAnswer(c, i) PROVE NotMade'
  BY <1>8, <1>a DEF ClientRefusesAnswer, NotMade
<1>6. ASSUME NEW c \in Clients, Disconnect(c) PROVE NotMade'
  BY <1>6 DEF Disconnect, NotMade
<1>7. CASE Restart \/ Tick \/ UNCHANGED vars
  BY <1>7 DEF Restart, Tick, vars, NotMade
<1> QED
  BY <1>1, <1>2, <1>3, <1>4, <1>5, <1>6, <1>7, <1>8 DEF Next

\* A ticket's client is the one it was issued to, for good.
LEMMA ClientStays ==
    ASSUME TypeOK, References, [Next]_vars, NEW t \in Conns, NEW c \in Clients,
           tickets[t].client = c
    PROVE  tickets'[t].client = c
<1>1. Issued(t)  BY ClientsAssumption DEF References, NoTicket
<1> QED  BY <1>1, IssuedStays

LEMMA OneTicketStep ==
    TypeOK /\ AnswerFits /\ OneTicket /\ [Next]_vars => OneTicket'
<1> SUFFICES ASSUME TypeOK, AnswerFits, OneTicket, [Next]_vars PROVE OneTicket'  OBVIOUS
<1> USE DEF storeVars, clientVars, linkVars, historyVars
<1>a. /\ tickets \in [Conns -> [client : Clients \cup {None}, expiresAt : Nat, master : Nat]]
      /\ sessionTicket \in [Clients -> Conns \cup {None}]
      /\ request \in [Conns -> [ticket : Conns \cup {None}, spelling : Spellings, signed : BOOLEAN]]
  BY DEF TypeOK
<1>1. ASSUME UNCHANGED tickets,
             \A c \in Clients : sessionTicket'[c] = None => sessionTicket[c] = None
      PROVE  OneTicket'
  BY <1>1 DEF OneTicket
<1>2. ASSUME NEW c \in Clients, NEW i \in Conns, FullHandshake(c, i) PROVE OneTicket'
  <2>1. /\ sessionTicket[c] = None /\ sessionTicket' = [sessionTicket EXCEPT ![c] = i]
        /\ tickets' = [tickets EXCEPT ![i] = Issue(c)] /\ i # None
    BY <1>2 DEF FullHandshake, None, Conns
  <2>2. tickets'[i].client = c /\ \A t \in Conns : t # i => tickets'[t] = tickets[t]
    BY <1>a, <2>1 DEF Issue
  <2>3. ASSUME NEW d \in Clients, NEW t \in Conns, sessionTicket'[d] = None
        PROVE  tickets'[t].client # d
    <3>1. d # c /\ sessionTicket[d] = None  BY <1>a, <2>1, <2>3
    <3> QED  BY <2>2, <3>1 DEF OneTicket
  <2>4. ASSUME NEW d \in Clients, NEW t \in Conns, NEW u \in Conns,
               tickets'[t].client = d, tickets'[u].client = d
        PROVE  t = u
    <3>1. CASE d = c
      <4>1. t = i /\ u = i  BY <2>1, <2>2, <2>4, <3>1 DEF OneTicket
      <4> QED  BY <4>1
    <3>2. CASE d # c  BY <2>2, <2>4, <3>2 DEF OneTicket
    <3> QED  BY <3>1, <3>2
  <2> QED  BY <2>3, <2>4 DEF OneTicket
<1>3. ASSUME NEW c \in Clients, NEW t \in Conns, NEW s \in Spellings, SetSessionTicket(c, t, s)
      PROVE  OneTicket'
  <2>1. sessionTicket' = [sessionTicket EXCEPT ![c] = t] /\ UNCHANGED tickets
    BY <1>3 DEF SetSessionTicket
  <2> QED  BY <1>1, <1>a, <2>1 DEF None, Conns
\* only a request that names a ticket is answered
<1>4. ASSUME NEW c \in Clients, NEW i \in Conns, ClientResumed(c, i) PROVE OneTicket'
  <2>1. /\ sessionTicket' = [sessionTicket EXCEPT ![c] = request[i].ticket] /\ UNCHANGED tickets
        /\ request[i].ticket # None
    BY <1>4 DEF ClientResumed, AnswerFits, Answered, None, Conns
  <2> QED  BY <1>1, <1>a, <2>1
<1>5. ASSUME UNCHANGED <<tickets, sessionTicket>> PROVE OneTicket'
  BY <1>1, <1>5
<1>6. ASSUME NEW c \in Clients, NEW i \in Conns,
             ConnectResume(c, i) \/ ClientRefusesAnswer(c, i) \/ SocketClose(c, i)
      PROVE  OneTicket'
  BY <1>5, <1>6 DEF ConnectResume, ClientRefusesAnswer, SocketClose
<1>7. ASSUME NEW i \in Conns, ServerResume(i) \/ ServerRefuseResume(i) PROVE OneTicket'
  BY <1>5, <1>7 DEF ServerResume, ServerRefuseResume
<1>8. ASSUME NEW c \in Clients, Disconnect(c) PROVE OneTicket'
  BY <1>5, <1>8 DEF Disconnect
<1>9. CASE Restart \/ Tick \/ UNCHANGED vars
  BY <1>5, <1>9 DEF Restart, Tick, vars
<1> QED
  BY <1>2, <1>3, <1>4, <1>6, <1>7, <1>8, <1>9 DEF Next

\* Keys are made by one client and wiped by it.
LEMMA KeysOwnedStep == TypeOK /\ References /\ KeysOwned /\ [Next]_vars => KeysOwned'
<1> SUFFICES ASSUME TypeOK, References, KeysOwned, [Next]_vars PROVE KeysOwned'  OBVIOUS
<1> USE DEF storeVars, clientVars, linkVars, historyVars
<1>a. /\ tickets \in [Conns -> [client : Clients \cup {None}, expiresAt : Nat, master : Nat]]
      /\ zeroed \subseteq Conns
      /\ aesKey \in [Clients -> Conns \cup {None}] /\ signing \in [Clients -> BOOLEAN]
      /\ cache \in [Clients -> [Strings -> [key : Conns \cup {None}, savedAt : Nat]]]
  BY DEF TypeOK
<1>0. \A t \in Conns : \A c \in Clients : tickets[t].client = c => tickets'[t].client = c
  BY ClientStays
\* the three parts, for a step that leaves them alone
<1>1. ASSUME UNCHANGED aesKey
      PROVE  \A c \in Clients : aesKey'[c] # None => tickets'[aesKey'[c]].client = c
  BY <1>0, <1>1, <1>a DEF KeysOwned
<1>2. ASSUME UNCHANGED cache
      PROVE  \A c \in Clients : \A str \in Strings :
                cache'[c][str].key # None => tickets'[cache'[c][str].key].client = c
  <2> SUFFICES ASSUME NEW c \in Clients, NEW str \in Strings, cache[c][str].key # None
               PROVE  tickets'[cache[c][str].key].client = c
    BY <1>2
  <2>1. cache[c][str].key \in Conns  BY <1>a
  <2> QED  BY <1>0, <2>1 DEF KeysOwned
<1>3. ASSUME UNCHANGED <<zeroed, signing>>
      PROVE  \A k \in zeroed' : tickets'[k].client \in Clients /\ ~signing'[tickets'[k].client]
  BY <1>0, <1>3, <1>a DEF KeysOwned
<1>4. ASSUME NEW c \in Clients, NEW i \in Conns, FullHandshake(c, i) PROVE KeysOwned'
  <2>1. tickets'[i].client = c  BY <1>4, <1>a DEF FullHandshake, Issue
  <2>2. \A d \in Clients : aesKey'[d] # None => tickets'[aesKey'[d]].client = d
    <3>1. aesKey' = [aesKey EXCEPT ![c] = i]  BY <1>4 DEF FullHandshake
    <3> QED  BY <1>a, <1>0, <2>1, <3>1 DEF KeysOwned
  <2>3. ASSUME NEW d \in Clients, NEW str \in Strings, cache'[d][str].key # None
        PROVE  tickets'[cache'[d][str].key].client = d
    <3>0. PICK e : e = [key |-> i, savedAt |-> now]  OBVIOUS
    <3>1. cache' = [cache EXCEPT ![c][<<i, AsIssued>>] = e]
      BY <1>4, <3>0 DEF FullHandshake
    <3>2. CASE d = c /\ str = <<i, AsIssued>>
      <4>1. cache'[d][str] = e  BY <1>a, <3>1, <3>2
      <4>2. cache'[d][str].key = i  BY <3>0, <4>1
      <4> QED  BY <2>1, <3>2, <4>2
    <3>3. CASE ~(d = c /\ str = <<i, AsIssued>>)
      <4>1. cache'[d][str] = cache[d][str]  BY <1>a, <3>1, <3>3
      <4>2. cache[d][str].key \in Conns  BY <1>a, <2>3, <4>1
      <4> QED  BY <1>0, <2>3, <4>1, <4>2 DEF KeysOwned
    <3> QED  BY <3>2, <3>3
  <2>4. UNCHANGED <<zeroed, signing>>  BY <1>4 DEF FullHandshake
  <2> QED  BY <1>3, <2>2, <2>3, <2>4 DEF KeysOwned
<1>5. ASSUME NEW c \in Clients, NEW t \in Conns, NEW s \in Spellings, SetSessionTicket(c, t, s)
      PROVE  KeysOwned'
  <2>0. PICK str \in Strings : str = <<t, s>>  BY DEF Strings
  <2>1. \/ aesKey' = aesKey
        \/ aesKey' = [aesKey EXCEPT ![c] = cache[c][str].key]
    BY <1>5, <2>0 DEF SetSessionTicket
  <2>2. \A d \in Clients : aesKey'[d] # None => tickets'[aesKey'[d]].client = d
    <3>1. CASE aesKey' = [aesKey EXCEPT ![c] = cache[c][str].key]
      <4> SUFFICES ASSUME NEW d \in Clients, aesKey'[d] # None
                   PROVE  tickets'[aesKey'[d]].client = d
        OBVIOUS
      <4>1. CASE d = c
        <5>1. aesKey'[d] = cache[c][str].key  BY <1>a, <3>1, <4>1
        <5>2. cache[c][str].key \in Conns /\ tickets[cache[c][str].key].client = c
          BY <1>a, <5>1 DEF KeysOwned
        <5> QED  BY <1>0, <4>1, <5>1, <5>2
      <4>2. CASE d # c
        <5>1. aesKey'[d] = aesKey[d] /\ aesKey[d] \in Conns  BY <1>a, <3>1, <4>2
        <5> QED  BY <1>0, <5>1 DEF KeysOwned
      <4> QED  BY <4>1, <4>2
    <3> QED  BY <1>1, <2>1, <3>1
  <2>3. \/ cache' = cache \/ cache' = [cache EXCEPT ![c][str] = NoEntry]
    BY <1>5, <2>0 DEF SetSessionTicket
  <2>4. \A d \in Clients : \A u \in Strings :
           cache'[d][u].key # None => tickets'[cache'[d][u].key].client = d
    <3>1. CASE cache' = [cache EXCEPT ![c][str] = NoEntry]
      <4> SUFFICES ASSUME NEW d \in Clients, NEW u \in Strings, cache'[d][u].key # None
                   PROVE  tickets'[cache'[d][u].key].client = d
        OBVIOUS
      <4>1. cache'[d][u] = cache[d][u] \/ cache'[d][u] = NoEntry
        BY <1>a, <3>1
      <4>2. cache'[d][u] = cache[d][u]  BY <4>1 DEF NoEntry
      <4>3. cache[d][u].key \in Conns  BY <1>a, <4>2
      <4> QED  BY <1>0, <4>2, <4>3 DEF KeysOwned
    <3> QED  BY <1>2, <2>3, <3>1
  <2>5. UNCHANGED <<zeroed, signing>>  BY <1>5 DEF SetSessionTicket
  <2> QED  BY <1>3, <2>2, <2>4, <2>5 DEF KeysOwned
<1>6. ASSUME NEW c \in Clients, NEW i \in Conns, ClientResumed(c, i) PROVE KeysOwned'
  <2>1. UNCHANGED <<zeroed, signing, aesKey>>  BY <1>6 DEF ClientResumed
  <2>2. \/ cache' = cache
        \/ cache' = [cache EXCEPT ![c][Sent(i)] = [key |-> aesKey[c], savedAt |-> now]]
    BY <1>6 DEF ClientResumed
  <2>3. \A d \in Clients : \A u \in Strings :
           cache'[d][u].key # None => tickets'[cache'[d][u].key].client = d
    <3>1. CASE cache' = [cache EXCEPT ![c][Sent(i)] = [key |-> aesKey[c], savedAt |-> now]]
      <4> SUFFICES ASSUME NEW d \in Clients, NEW u \in Strings, cache'[d][u].key # None
                   PROVE  tickets'[cache'[d][u].key].client = d
        OBVIOUS
      <4>1. cache'[d][u].key = cache[d][u].key \/ cache'[d][u].key = aesKey[d]
        BY <1>a, <3>1
      <4>2. cache'[d][u].key \in Conns  BY <1>a, <4>1
      <4> QED  BY <1>0, <4>1, <4>2 DEF KeysOwned
    <3> QED  BY <1>2, <2>2, <3>1
  <2> QED  BY <1>1, <1>3, <2>1, <2>3 DEF KeysOwned
<1>7. ASSUME NEW c \in Clients, WipeSecrets(c), UNCHANGED <<cache, tickets>> PROVE KeysOwned'
  <2>1. \A d \in Clients : aesKey'[d] # None => tickets'[aesKey'[d]].client = d
    BY <1>7, <1>a DEF WipeSecrets, KeysOwned
  <2>2. \A k \in zeroed' : k \in zeroed \/ (k = aesKey[c] /\ aesKey[c] # None)
    BY <1>7 DEF WipeSecrets
  <2>3. \A d \in Clients : signing'[d] => signing[d]  BY <1>7, <1>a DEF WipeSecrets
  <2>4. ~signing'[c]  BY <1>7, <1>a DEF WipeSecrets
  <2>5. \A k \in zeroed' : tickets'[k].client \in Clients /\ ~signing'[tickets'[k].client]
    BY <1>7, <2>2, <2>3, <2>4 DEF KeysOwned
  <2> QED  BY <1>2, <1>7, <2>1, <2>5 DEF KeysOwned
<1>8. ASSUME NEW c \in Clients, NEW i \in Conns, SocketClose(c, i) PROVE KeysOwned'
  BY <1>7, <1>8 DEF SocketClose
<1>13. ASSUME NEW c \in Clients, Disconnect(c) PROVE KeysOwned'
  BY <1>7, <1>13 DEF Disconnect
<1>9. ASSUME UNCHANGED <<aesKey, cache, zeroed, signing>> PROVE KeysOwned'
  BY <1>1, <1>2, <1>3, <1>9 DEF KeysOwned
<1>10. ASSUME NEW c \in Clients, NEW i \in Conns, ConnectResume(c, i) \/ ClientRefusesAnswer(c, i)
       PROVE  KeysOwned'
  BY <1>9, <1>10 DEF ConnectResume, ClientRefusesAnswer
<1>11. CASE Restart \/ Tick \/ UNCHANGED vars
  BY <1>9, <1>11 DEF Restart, Tick, vars
<1>12. ASSUME NEW i \in Conns, ServerResume(i) \/ ServerRefuseResume(i) PROVE KeysOwned'
  BY <1>9, <1>12 DEF ServerResume, ServerRefuseResume
<1> QED
  BY <1>4, <1>5, <1>6, <1>8, <1>10, <1>11, <1>12, <1>13 DEF Next

\* While a resumption is under way its client starts nothing else, and a wipe takes
\* the key along with the right to sign.
LEMMA UnderwayStep ==
    TypeOK /\ References /\ NotMade /\ AnswerFits /\ Underway /\ [Next]_vars => Underway'
<1> SUFFICES ASSUME TypeOK, References, NotMade, AnswerFits, Underway, [Next]_vars
             PROVE  Underway'
  OBVIOUS
<1> USE DEF storeVars, clientVars, linkVars, historyVars
<1>a. /\ owner \in [Conns -> Clients \cup {None}] /\ socketOpen \in [Conns -> BOOLEAN]
      /\ answer \in [Conns -> {"none", "server_auth_response", "handshake_error"}]
      /\ request \in [Conns -> [ticket : Conns \cup {None}, spelling : Spellings, signed : BOOLEAN]]
      /\ server \in [Conns -> [state : {"none", "established", "resumed", "failed", "closed"},
                               key : Conns \cup {None}, ticket : Conns \cup {None}]]
  BY DEF TypeOK
<1>b. /\ socket \in [Clients -> Conns \cup {None}]
      /\ phase \in [Clients -> {"idle", "client_hello_sent", "established", "resumed"}]
      /\ sessionTicket \in [Clients -> Conns \cup {None}]
      /\ aesKey \in [Clients -> Conns \cup {None}] /\ signing \in [Clients -> BOOLEAN]
  BY DEF TypeOK
\* a connection that was pending, if nothing of its client's but a wipe has changed
<1>0. ASSUME NEW j \in Conns, Pending(j)', Pending(j), owner'[j] = owner[j],
             UNCHANGED <<socket[owner[j]], phase[owner[j]], sessionTicket[owner[j]]>>,
             request'[j] = request[j], Answered(j)' => Answered(j) \/ request[j].signed,
             \/ UNCHANGED <<aesKey[owner[j]], signing[owner[j]]>>
             \/ aesKey'[owner[j]] = None
      PROVE  UnderwayAt(j, owner[j])'
  BY <1>0 DEF Underway, UnderwayAt
<1>1. ASSUME NEW c \in Clients, NEW i \in Conns, ConnectResume(c, i) PROVE Underway'
  <2> SUFFICES ASSUME NEW j \in Conns, Pending(j)'
               PROVE  UnderwayAt(j, owner[j])'
    BY DEF Underway
  <2>1. /\ owner' = [owner EXCEPT ![i] = c] /\ socketOpen' = [socketOpen EXCEPT ![i] = TRUE]
        /\ socket' = [socket EXCEPT ![c] = i]
        /\ phase' = [phase EXCEPT ![c] = "client_hello_sent"]
        /\ request' = [request EXCEPT ![i] = [ticket |-> sessionTicket[c],
                                             spelling |-> spelling[c],
                                             signed |-> signing[c]]]
        /\ UNCHANGED <<server, answer, aesKey, signing, sessionTicket>>
        /\ Settled(c) /\ owner[i] = None
    BY <1>1 DEF ConnectResume, Fresh
  <2>2. CASE j = i
    <3>1. owner'[i] = c /\ socket'[c] = i /\ phase'[c] = "client_hello_sent"
      BY <1>a, <1>b, <2>1
    <3>2. request'[i].ticket = sessionTicket[c] /\ request'[i].signed = signing[c]
      BY <1>a, <2>1
    <3>3. ~Answered(i)'  BY <2>1 DEF Answered, NotMade
    <3> QED  BY <2>1, <2>2, <3>1, <3>2, <3>3 DEF UnderwayAt
  <2>3. CASE j # i
    <3>1. owner'[j] = owner[j] /\ socketOpen'[j] = socketOpen[j] /\ request'[j] = request[j]
      BY <1>a, <2>1, <2>3
    <3>2. Pending(j)  BY <2>1, <3>1 DEF Pending, Answered
    <3>3. owner[j] # c  BY <2>1, <3>2, SettledNotPending
    <3>4. UNCHANGED <<socket[owner[j]], phase[owner[j]]>>
      BY <1>a, <1>b, <2>1, <3>2, <3>3 DEF Pending
    <3> QED  BY <1>0, <2>1, <3>1, <3>2, <3>4 DEF Answered
  <2> QED  BY <2>2, <2>3
<1>2. ASSUME NEW c \in Clients, NEW i \in Conns, FullHandshake(c, i) PROVE Underway'
  <2> SUFFICES ASSUME NEW j \in Conns, Pending(j)'
               PROVE  UnderwayAt(j, owner[j])'
    BY DEF Underway
  <2>1. /\ owner' = [owner EXCEPT ![i] = c] /\ socketOpen' = [socketOpen EXCEPT ![i] = TRUE]
        /\ socket' = [socket EXCEPT ![c] = i]
        /\ phase' = [phase EXCEPT ![c] = "established"]
        /\ aesKey' = [aesKey EXCEPT ![c] = i]
        /\ sessionTicket' = [sessionTicket EXCEPT ![c] = i]
        /\ UNCHANGED <<request, answer, signing>>
        /\ Settled(c) /\ owner[i] = None
    BY <1>2 DEF FullHandshake, Fresh
  <2>2. server'[i].state = "established" /\ \A k \in Conns : k # i => server'[k] = server[k]
    BY <1>2, <1>a DEF FullHandshake
  <2>3. j # i
    BY <2>1, <2>2 DEF Pending, Answered, NotMade
  <2>4. owner'[j] = owner[j] /\ socketOpen'[j] = socketOpen[j] /\ server'[j] = server[j]
    BY <1>a, <2>1, <2>2, <2>3
  <2>5. Pending(j)  BY <2>1, <2>4 DEF Pending, Answered
  <2>6. owner[j] # c  BY <2>1, <2>5, SettledNotPending
  <2>7. UNCHANGED <<socket[owner[j]], phase[owner[j]], sessionTicket[owner[j]],
                    aesKey[owner[j]], signing[owner[j]]>>
    BY <1>a, <1>b, <2>1, <2>5, <2>6 DEF Pending
  <2> QED  BY <1>0, <2>1, <2>4, <2>5, <2>7 DEF Answered
<1>3. ASSUME NEW c \in Clients, NEW t \in Conns, NEW s \in Spellings, SetSessionTicket(c, t, s)
      PROVE  Underway'
  <2> SUFFICES ASSUME NEW j \in Conns, Pending(j)'
               PROVE  UnderwayAt(j, owner[j])'
    BY DEF Underway
  <2>1. /\ UNCHANGED <<owner, socketOpen, request, answer, server, socket, phase, signing>>
        /\ sessionTicket' = [sessionTicket EXCEPT ![c] = t] /\ Settled(c)
    BY <1>3 DEF SetSessionTicket
  <2>2. \/ aesKey' = aesKey \/ aesKey' = [aesKey EXCEPT ![c] = cache[c][<<t, s>>].key]
    BY <1>3 DEF SetSessionTicket
  <2>3. Pending(j)  BY <2>1 DEF Pending, Answered
  <2>4. owner[j] # c  BY <2>1, <2>3, SettledNotPending
  <2>5. owner[j] \in Clients  BY <1>a, <2>3 DEF Pending
  <2>6. UNCHANGED <<sessionTicket[owner[j]], aesKey[owner[j]]>>
    BY <1>b, <2>1, <2>2, <2>4, <2>5
  <2> QED  BY <1>0, <2>1, <2>3, <2>6 DEF Answered
<1>4. ASSUME NEW i \in Conns, ServerResume(i) PROVE Underway'
  <2> SUFFICES ASSUME NEW j \in Conns, Pending(j)'
               PROVE  UnderwayAt(j, owner[j])'
    BY DEF Underway
  <2>1. /\ UNCHANGED <<owner, socketOpen, request, socket, phase, sessionTicket, aesKey, signing>>
        /\ server[i].state = "none" /\ request[i].signed
        /\ answer' = [answer EXCEPT ![i] = "server_auth_response"]
    BY <1>4 DEF ServerResume
  <2>2. \A k \in Conns : k # i => server'[k] = server[k]
    BY <1>4, <1>a DEF ServerResume
  <2>3. Pending(j)  BY <1>a, <2>1, <2>2 DEF Pending, Answered
  <2>4. Answered(j)' => Answered(j) \/ request[j].signed
    BY <1>a, <2>1 DEF Answered
  <2> QED  BY <1>0, <2>1, <2>3, <2>4
<1>5. ASSUME NEW i \in Conns, ServerRefuseResume(i) PROVE Underway'
  <2> SUFFICES ASSUME NEW j \in Conns, Pending(j)'
               PROVE  UnderwayAt(j, owner[j])'
    BY DEF Underway
  <2>1. /\ UNCHANGED <<owner, socketOpen, request, socket, phase, sessionTicket, aesKey, signing>>
        /\ answer' = [answer EXCEPT ![i] = "handshake_error"]
    BY <1>5 DEF ServerRefuseResume
  <2>2. server'[i].state = "failed" /\ \A k \in Conns : k # i => server'[k] = server[k]
    BY <1>5, <1>a DEF ServerRefuseResume, Failed
  <2>3. Answered(j)' => Answered(j)  BY <1>a, <2>1 DEF Answered
  <2>4. Pending(j)  BY <2>1, <2>2, <2>3 DEF Pending
  <2> QED  BY <1>0, <2>1, <2>3, <2>4
\* what was pending no longer is
<1>6. ASSUME NEW c \in Clients, NEW i \in Conns, ClientResumed(c, i) PROVE Underway'
  <2> SUFFICES ASSUME NEW j \in Conns, Pending(j)'
               PROVE  UnderwayAt(j, owner[j])'
    BY DEF Underway
  <2>1. /\ UNCHANGED <<owner, socketOpen, request, socket, aesKey, signing, server>>
        /\ owner[i] = c /\ socketOpen[i] /\ Answered(i)
        /\ answer' = [answer EXCEPT ![i] = "none"]
        /\ sessionTicket' = [sessionTicket EXCEPT ![c] = request[i].ticket]
    BY <1>6 DEF ClientResumed, Answered
  <2>2. \/ phase' = phase \/ phase' = [phase EXCEPT ![c] = "resumed"]
    BY <1>6 DEF ClientResumed
  <2>3. server[i].state # "none"  BY <2>1 DEF AnswerFits
  <2>4. j # i
    BY <1>a, <2>1, <2>3 DEF Pending, Answered
  <2>5. Answered(j)' => Answered(j)  BY <1>a, <2>1, <2>4 DEF Answered
  <2>6. Pending(j)  BY <2>1, <2>5 DEF Pending
  <2>7. owner[j] # c
    <3>1. socket[c] = i  BY <2>1, ClientsAssumption DEF Underway, UnderwayAt, Pending
    <3> QED  BY <2>4, <2>6, <3>1 DEF Underway, UnderwayAt
  <2>8. owner[j] \in Clients  BY <1>a, <2>6 DEF Pending
  <2>9. UNCHANGED <<phase[owner[j]], sessionTicket[owner[j]]>>
    BY <1>b, <2>1, <2>2, <2>7, <2>8
  <2> QED  BY <1>0, <2>1, <2>5, <2>6, <2>9
<1>7. ASSUME NEW c \in Clients, WipeSecrets(c), UNCHANGED <<owner, socket, phase, sessionTicket>>,
             NEW j \in Conns, Pending(j), Pending(j)', request'[j] = request[j],
             Answered(j)' => Answered(j)
      PROVE  UnderwayAt(j, owner[j])'
  <2>1. owner[j] \in Clients  BY <1>a, <1>7 DEF Pending
  <2>2. /\ aesKey' = [aesKey EXCEPT ![c] = None] /\ signing' = [signing EXCEPT ![c] = FALSE]
    BY <1>7 DEF WipeSecrets
  <2>3. \/ UNCHANGED <<aesKey[owner[j]], signing[owner[j]]>>
        \/ aesKey'[owner[j]] = None
    BY <1>b, <1>7, <2>1, <2>2
  <2> QED  BY <1>0, <1>7, <2>3
<1>8. ASSUME NEW c \in Clients, NEW i \in Conns, SocketClose(c, i) PROVE Underway'
  <2> SUFFICES ASSUME NEW j \in Conns, Pending(j)'
               PROVE  UnderwayAt(j, owner[j])'
    BY DEF Underway
  <2>1. /\ UNCHANGED <<owner, socket, phase, sessionTicket>> /\ WipeSecrets(c)
        /\ socketOpen' = [socketOpen EXCEPT ![i] = FALSE]
        /\ request' = [request EXCEPT ![i] = NoRequest]
        /\ answer' = [answer EXCEPT ![i] = "none"]
        /\ server' = [server EXCEPT ![i] = Closed]
    BY <1>8 DEF SocketClose
  <2>2. j # i  BY <1>a, <2>1 DEF Pending
  <2>3. /\ request'[j] = request[j] /\ answer'[j] = answer[j]
        /\ server'[j] = server[j] /\ socketOpen'[j] = socketOpen[j]
    BY <1>a, <2>1, <2>2
  <2>4. Pending(j)  BY <2>1, <2>3 DEF Pending, Answered
  <2> QED  BY <1>7, <2>1, <2>3, <2>4 DEF Answered
<1>12. ASSUME NEW c \in Clients, NEW i \in Conns, ClientRefusesAnswer(c, i) PROVE Underway'
  <2> SUFFICES ASSUME NEW j \in Conns, Pending(j)'
               PROVE  UnderwayAt(j, owner[j])'
    BY DEF Underway
  <2>1. /\ UNCHANGED <<owner, socketOpen, request, socket, phase, sessionTicket, aesKey,
                      signing, server>>
        /\ answer' = [answer EXCEPT ![i] = "none"]
    BY <1>12 DEF ClientRefusesAnswer
  <2>2. Answered(j)' => Answered(j)  BY <1>a, <2>1 DEF Answered
  <2>3. Pending(j)  BY <2>1, <2>2 DEF Pending
  <2> QED  BY <1>0, <2>1, <2>2, <2>3
<1>9. ASSUME NEW c \in Clients, Disconnect(c) PROVE Underway'
  <2> SUFFICES ASSUME NEW j \in Conns, Pending(j)'
               PROVE  UnderwayAt(j, owner[j])'
    BY DEF Underway
  <2>1. /\ UNCHANGED <<owner, socket, phase, sessionTicket, request, answer, socketOpen, server>>
        /\ WipeSecrets(c)
    BY <1>9 DEF Disconnect
  <2>2. Pending(j)  BY <2>1 DEF Pending, Answered
  <2> QED  BY <1>7, <2>1, <2>2 DEF Answered
<1>10. CASE Restart
  <2> SUFFICES ASSUME NEW j \in Conns, Pending(j)'
               PROVE  UnderwayAt(j, owner[j])'
    BY DEF Underway
  <2>1. UNCHANGED <<owner, socket, phase, sessionTicket, request, answer, socketOpen, aesKey, signing>>
    BY <1>10 DEF Restart
  <2>2. server'[j] = Closed \/ server'[j] = server[j]  BY <1>10 DEF Restart
  <2>3. Pending(j)  BY <2>1, <2>2 DEF Pending, Answered, Closed
  <2> QED  BY <1>0, <2>1, <2>3 DEF Answered
<1>11. CASE Tick \/ UNCHANGED vars
  BY <1>11 DEF Tick, vars, Underway, UnderwayAt, Pending, Answered
<1> QED
  BY <1>1, <1>2, <1>3, <1>4, <1>5, <1>6, <1>8, <1>9, <1>10, <1>11, <1>12 DEF Next

\* The answer to a resumption stays true of its connection until the client has it.
LEMMA AnswerFitsStep ==
    TypeOK /\ References /\ KeyInv /\ [Next]_vars => AnswerFits'
<1> SUFFICES ASSUME TypeOK, References, KeyInv, [Next]_vars PROVE AnswerFits'
  OBVIOUS
<1> USE DEF storeVars, clientVars, linkVars, historyVars
<1>a. /\ owner \in [Conns -> Clients \cup {None}] /\ socketOpen \in [Conns -> BOOLEAN]
      /\ answer \in [Conns -> {"none", "server_auth_response", "handshake_error"}]
      /\ request \in [Conns -> [ticket : Conns \cup {None}, spelling : Spellings, signed : BOOLEAN]]
      /\ server \in [Conns -> [state : {"none", "established", "resumed", "failed", "closed"},
                               key : Conns \cup {None}, ticket : Conns \cup {None}]]
      /\ aesKey \in [Clients -> Conns \cup {None}]
  BY DEF TypeOK
<1>b. NotMade /\ OneTicket /\ KeysOwned /\ Underway /\ AnswerFits  BY DEF KeyInv
\* a connection that was answered before
<1>0. ASSUME NEW j \in Conns, Answered(j),
             /\ owner'[j] = owner[j] /\ socketOpen'[j] = socketOpen[j]
             /\ request'[j] = request[j],
             server'[j] = server[j] \/ server'[j].state = "closed",
             aesKey'[owner[j]] = aesKey[owner[j]] \/ aesKey'[owner[j]] = None
      PROVE  /\ owner'[j] # None /\ socketOpen'[j]
             /\ request'[j].ticket \in Conns
             /\ tickets'[request'[j].ticket].client = owner'[j]
             /\ server'[j].state = "resumed" \/ server'[j].state = "closed"
             /\ server'[j].state = "resumed" => server'[j].key = request'[j].ticket
             /\ aesKey'[owner'[j]] \in {None, request'[j].ticket}
  <2>1. /\ owner[j] # None /\ socketOpen[j] /\ request[j].ticket \in Conns
        /\ tickets[request[j].ticket].client = owner[j]
        /\ server[j].state = "resumed" \/ server[j].state = "closed"
        /\ server[j].state = "resumed" => server[j].key = request[j].ticket
        /\ aesKey[owner[j]] \in {None, request[j].ticket}
    BY <1>0, <1>b DEF AnswerFits
  <2>2. Issued(request[j].ticket)  BY <2>1, ClientsAssumption DEF References, None, Conns
  <2>3. tickets'[request[j].ticket] = tickets[request[j].ticket]
    BY <2>1, <2>2, IssuedStays
  <2> QED  BY <1>0, <2>1, <2>3
<1> SUFFICES ASSUME NEW j \in Conns, Answered(j)'
             PROVE  /\ owner'[j] # None /\ socketOpen'[j]
                    /\ request'[j].ticket \in Conns
                    /\ tickets'[request'[j].ticket].client = owner'[j]
                    /\ server'[j].state = "resumed" \/ server'[j].state = "closed"
                    /\ server'[j].state = "resumed" => server'[j].key = request'[j].ticket
                    /\ aesKey'[owner'[j]] \in {None, request'[j].ticket}
  BY DEF AnswerFits
<1> DEFINE Goal == /\ owner'[j] # None /\ socketOpen'[j]
                   /\ request'[j].ticket \in Conns
                   /\ tickets'[request'[j].ticket].client = owner'[j]
                   /\ server'[j].state = "resumed" \/ server'[j].state = "closed"
                   /\ server'[j].state = "resumed" => server'[j].key = request'[j].ticket
                   /\ aesKey'[owner'[j]] \in {None, request'[j].ticket}
<1>1. ASSUME NEW i \in Conns, ServerResume(i) PROVE Goal
  <2>1. /\ UNCHANGED <<owner, socketOpen, request, tickets, aesKey>>
        /\ answer' = [answer EXCEPT ![i] = "server_auth_response"]
        /\ server[i].state = "none" /\ KeyMatches(i)
        /\ request[i].ticket # None /\ owner[i] # None
    BY <1>1 DEF ServerResume, References, Issued
  <2>2. /\ server'[i].state = "resumed" /\ server'[i].key = request[i].ticket
        /\ \A k \in Conns : k # i => server'[k] = server[k]
    BY <1>1, <1>a DEF ServerResume
  <2>3. CASE j = i
    <3>1. socketOpen[i]  BY <1>b, <2>1 DEF NotMade
    <3>4. /\ request[i].ticket \in Conns /\ owner[i] \in Clients
          /\ tickets[request[i].ticket].client = owner[i]
      BY <1>a, <2>1 DEF KeyMatches
    \* the client's only ticket, so its only key
    <3>5. aesKey[owner[i]] \in {None, request[i].ticket}
      BY <1>a, <1>b, <3>4 DEF OneTicket, KeysOwned
    <3> QED  BY <2>1, <2>2, <2>3, <3>1, <3>4, <3>5
  <2>4. CASE j # i
    <3>1. Answered(j)  BY <1>a, <2>1, <2>4 DEF Answered
    <3> QED  BY <1>0, <2>1, <2>2, <2>4, <3>1
  <2> QED  BY <2>3, <2>4
<1>2. ASSUME NEW i \in Conns, ServerRefuseResume(i) PROVE Goal
  <2>1. /\ UNCHANGED <<owner, socketOpen, request, aesKey>>
        /\ answer' = [answer EXCEPT ![i] = "handshake_error"]
        /\ \A k \in Conns : k # i => server'[k] = server[k]
    BY <1>2, <1>a DEF ServerRefuseResume
  <2>2. j # i /\ Answered(j)  BY <1>a, <2>1 DEF Answered
  <2> QED  BY <1>0, <2>1, <2>2
<1>3. ASSUME NEW c \in Clients, NEW i \in Conns, FullHandshake(c, i) PROVE Goal
  <2>1. /\ owner' = [owner EXCEPT ![i] = c] /\ socketOpen' = [socketOpen EXCEPT ![i] = TRUE]
        /\ aesKey' = [aesKey EXCEPT ![c] = i]
        /\ UNCHANGED <<request, answer>> /\ Settled(c) /\ owner[i] = None
        /\ \A k \in Conns : k # i => server'[k] = server[k]
    BY <1>3, <1>a DEF FullHandshake, Fresh
  <2>2. Answered(j) /\ owner[j] # None /\ socketOpen[j]
    BY <1>b, <2>1 DEF Answered, AnswerFits
  <2>3. j # i /\ Pending(j)  BY <2>1, <2>2 DEF Pending
  <2>4. owner[j] # c  BY <1>b, <2>1, <2>3, SettledNotPending
  <2>5. aesKey'[owner[j]] = aesKey[owner[j]]  BY <1>a, <2>1, <2>2, <2>4
  <2>6. owner'[j] = owner[j] /\ socketOpen'[j] = socketOpen[j]  BY <1>a, <2>1, <2>3
  <2> QED  BY <1>0, <2>1, <2>2, <2>3, <2>5, <2>6
<1>4. ASSUME NEW c \in Clients, NEW t \in Conns, NEW s \in Spellings, SetSessionTicket(c, t, s)
      PROVE  Goal
  <2>1. UNCHANGED <<owner, socketOpen, request, answer, server>> /\ Settled(c)
    BY <1>4 DEF SetSessionTicket
  <2>2. \/ aesKey' = aesKey \/ aesKey' = [aesKey EXCEPT ![c] = cache[c][<<t, s>>].key]
    BY <1>4 DEF SetSessionTicket
  <2>3. Answered(j) /\ owner[j] # None /\ socketOpen[j]
    BY <1>b, <2>1 DEF Answered, AnswerFits
  <2>4. owner[j] # c  BY <1>b, <2>1, <2>3, SettledNotPending DEF Pending
  <2>5. aesKey'[owner[j]] = aesKey[owner[j]]  BY <1>a, <2>2, <2>3, <2>4
  <2> QED  BY <1>0, <2>1, <2>3, <2>5
<1>5. ASSUME NEW c \in Clients, NEW i \in Conns, ConnectResume(c, i) PROVE Goal
  <2>1. /\ owner' = [owner EXCEPT ![i] = c] /\ socketOpen' = [socketOpen EXCEPT ![i] = TRUE]
        /\ UNCHANGED <<answer, server, aesKey>> /\ owner[i] = None
        /\ \A k \in Conns : k # i => request'[k] = request[k]
    BY <1>5, <1>a DEF ConnectResume, Fresh
  <2>2. Answered(j) /\ owner[j] # None  BY <1>b, <2>1 DEF Answered, AnswerFits
  <2>3. owner'[j] = owner[j] /\ socketOpen'[j] = socketOpen[j] /\ j # i
    BY <1>a, <2>1, <2>2
  <2> QED  BY <1>0, <2>1, <2>2, <2>3
<1>6. ASSUME NEW c \in Clients, NEW i \in Conns, ClientResumed(c, i) PROVE Goal
  <2>1. /\ UNCHANGED <<owner, socketOpen, request, server, aesKey>>
        /\ answer' = [answer EXCEPT ![i] = "none"]
    BY <1>6 DEF ClientResumed
  <2>2. Answered(j)  BY <1>a, <2>1 DEF Answered
  <2> QED  BY <1>0, <2>1, <2>2
<1>11. ASSUME NEW c \in Clients, NEW i \in Conns, ClientRefusesAnswer(c, i) PROVE Goal
  <2>1. /\ UNCHANGED <<owner, socketOpen, request, server, aesKey>>
        /\ answer' = [answer EXCEPT ![i] = "none"]
    BY <1>11 DEF ClientRefusesAnswer
  <2>2. Answered(j)  BY <1>a, <2>1 DEF Answered
  <2> QED  BY <1>0, <2>1, <2>2
<1>7. ASSUME NEW c \in Clients, NEW i \in Conns, SocketClose(c, i) PROVE Goal
  <2>1. /\ UNCHANGED owner /\ aesKey' = [aesKey EXCEPT ![c] = None]
        /\ answer' = [answer EXCEPT ![i] = "none"]
        /\ \A k \in Conns : k # i => /\ server'[k] = server[k] /\ request'[k] = request[k]
                                     /\ socketOpen'[k] = socketOpen[k]
    BY <1>7, <1>a DEF SocketClose, WipeSecrets
  <2>2. j # i /\ Answered(j)  BY <1>a, <2>1 DEF Answered
  <2>3. owner[j] \in Clients  BY <1>a, <1>b, <2>2 DEF AnswerFits
  <2> QED  BY <1>0, <1>a, <2>1, <2>2, <2>3
<1>8. ASSUME NEW c \in Clients, Disconnect(c) PROVE Goal
  <2>1. /\ UNCHANGED <<owner, socketOpen, request, server, answer>>
        /\ aesKey' = [aesKey EXCEPT ![c] = None]
    BY <1>8 DEF Disconnect, WipeSecrets
  <2>2. Answered(j)  BY <2>1 DEF Answered
  <2>3. owner[j] \in Clients  BY <1>a, <1>b, <2>2 DEF AnswerFits
  <2> QED  BY <1>0, <1>a, <2>1, <2>2, <2>3
<1>9. CASE Restart
  <2>1. UNCHANGED <<owner, socketOpen, request, answer, aesKey>>
    BY <1>9 DEF Restart
  <2>2. server'[j] = server[j] \/ server'[j] = Closed  BY <1>9 DEF Restart
  <2> QED  BY <1>0, <2>1, <2>2 DEF Answered, Closed
<1>10. CASE Tick \/ UNCHANGED vars
  BY <1>0, <1>10 DEF Tick, vars, Answered
<1> QED
  BY <1>1, <1>2, <1>3, <1>4, <1>5, <1>6, <1>7, <1>8, <1>9, <1>10, <1>11 DEF Next

LEMMA KeyStep == TypeOK /\ References /\ KeyInv /\ [Next]_vars => KeyInv'
BY NotMadeStep, OneTicketStep, KeysOwnedStep, UnderwayStep, AnswerFitsStep DEF KeyInv

\* The inductive invariant about keys.
THEOREM KeyInvariant == Spec => []KeyInv
<1>1. TicketInv => References  BY TicketParts
<1> QED  BY <1>1, KeyInit, KeyStep, TypeCorrect, TicketInvariant, PTL DEF Spec

\* What a step that makes c resumed can be.
LEMMA BecomesResumed ==
    ASSUME TypeOK, [Next]_vars, NEW c \in Clients,
           phase[c] # "resumed", phase'[c] = "resumed"
    PROVE  \E i \in Conns : ClientResumed(c, i) /\ HasKey(c)
<1> USE DEF storeVars, clientVars, linkVars, historyVars
<1>a. phase \in [Clients -> {"idle", "client_hello_sent", "established", "resumed"}]
  BY DEF TypeOK
<1>1. ASSUME NEW d \in Clients, NEW i \in Conns, ClientResumed(d, i)
      PROVE  d = c /\ HasKey(c)
  <2>1. \/ phase' = phase
        \/ phase' = [phase EXCEPT ![d] = "resumed"] /\ HasKey(d)
    BY <1>1 DEF ClientResumed
  <2> QED  BY <1>a, <2>1
<1>2. ASSUME NEW d \in Clients, NEW i \in Conns,
             \/ FullHandshake(d, i) \/ \E s \in Spellings : SetSessionTicket(d, i, s)
             \/ ConnectResume(d, i) \/ ClientRefusesAnswer(d, i) \/ SocketClose(d, i)
      PROVE  FALSE
  BY <1>2, <1>a DEF FullHandshake, SetSessionTicket, ConnectResume, ClientRefusesAnswer,
                    SocketClose
<1>3. ASSUME NEW i \in Conns, ServerResume(i) \/ ServerRefuseResume(i) PROVE FALSE
  BY <1>3 DEF ServerResume, ServerRefuseResume
<1>4. ASSUME NEW d \in Clients, Disconnect(d) PROVE FALSE
  BY <1>4 DEF Disconnect
<1>5. CASE Restart \/ Tick \/ UNCHANGED vars
  BY <1>5 DEF Restart, Tick, vars
<1> QED
  BY <1>1, <1>2, <1>3, <1>4, <1>5 DEF Next

LEMMA BecomesEstablished ==
    ASSUME TypeOK, [Next]_vars, NEW c \in Clients,
           phase[c] # "established", phase'[c] = "established"
    PROVE  signing[c]
<1> USE DEF storeVars, clientVars, linkVars, historyVars
<1>a. phase \in [Clients -> {"idle", "client_hello_sent", "established", "resumed"}]
  BY DEF TypeOK
<1>1. ASSUME NEW d \in Clients, NEW i \in Conns, FullHandshake(d, i) PROVE signing[c]
  BY <1>1, <1>a DEF FullHandshake
<1>2. ASSUME NEW d \in Clients, NEW i \in Conns,
             \/ ClientResumed(d, i) \/ \E s \in Spellings : SetSessionTicket(d, i, s)
             \/ ConnectResume(d, i) \/ ClientRefusesAnswer(d, i) \/ SocketClose(d, i)
      PROVE  FALSE
  BY <1>2, <1>a DEF ClientResumed, SetSessionTicket, ConnectResume, ClientRefusesAnswer,
                    SocketClose
<1>3. ASSUME NEW i \in Conns, ServerResume(i) \/ ServerRefuseResume(i) PROVE FALSE
  BY <1>3 DEF ServerResume, ServerRefuseResume
<1>4. ASSUME NEW d \in Clients, Disconnect(d) PROVE FALSE
  BY <1>4 DEF Disconnect
<1>5. CASE Restart \/ Tick \/ UNCHANGED vars
  BY <1>5 DEF Restart, Tick, vars
<1> QED
  BY <1>1, <1>2, <1>3, <1>4, <1>5 DEF Next

\* What holds when a client takes the answer to its resumption with a key in hand.
LEMMA ResumedWith ==
    ASSUME TypeOK, KeyInv, NEW c \in Clients, NEW i \in Conns, ClientResumed(c, i), HasKey(c)
    PROVE  /\ socket[c] = i /\ signing[c]
           /\ aesKey[c] = request[i].ticket /\ aesKey[c] \notin zeroed
           /\ server[i].state = "resumed" => server[i].key = aesKey[c]
<1>1. owner[i] = c /\ socketOpen[i] /\ Answered(i) /\ c # None
  BY ClientsAssumption DEF ClientResumed, Answered
<1>2. UnderwayAt(i, c)  BY <1>1 DEF KeyInv, Underway, Pending
<1>3. socket[c] = i /\ signing[c]  BY <1>1, <1>2 DEF UnderwayAt, HasKey
<1>4. /\ aesKey[c] = request[i].ticket
      /\ server[i].state = "resumed" => server[i].key = request[i].ticket
  BY <1>1 DEF KeyInv, AnswerFits, HasKey
<1>5. aesKey[c] \notin zeroed
  BY <1>3 DEF KeyInv, KeysOwned, HasKey
<1> QED  BY <1>3, <1>4, <1>5

\* When a client considers its connection resumed, the key it holds is the one the
\* server took from the ticket, and no wipe has zero-filled it, also when the cache
\* shares the buffer, another socket has closed or the server has restarted since.
THEOREM KeysAgree == Spec => ResumedKeysAgree
<1>1. TypeOK /\ KeyInv /\ [Next]_vars =>
        \A c \in Clients :
          phase[c] # "resumed" /\ phase'[c] = "resumed" =>
             /\ aesKey'[c] # None /\ aesKey'[c] \notin zeroed'
             /\ LET i == socket[c]
                IN server[i].state = "resumed" => server[i].key = aesKey'[c]
  <2> SUFFICES ASSUME TypeOK, KeyInv, [Next]_vars, NEW c \in Clients,
                      phase[c] # "resumed", phase'[c] = "resumed"
               PROVE  /\ aesKey'[c] # None /\ aesKey'[c] \notin zeroed'
                      /\ server[socket[c]].state = "resumed" =>
                            server[socket[c]].key = aesKey'[c]
    OBVIOUS
  <2>1. PICK i \in Conns : ClientResumed(c, i) /\ HasKey(c)  BY BecomesResumed
  <2>2. UNCHANGED <<aesKey, zeroed>>  BY <2>1 DEF ClientResumed
  <2> QED  BY <2>1, <2>2, ResumedWith DEF HasKey
<1> QED  BY <1>1, KeyInvariant, TypeCorrect, PTL DEF Spec, ResumedKeysAgree

\* A client object whose secrets were wiped secures no channel again: it signs no
\* handshake, and holds no key when the answer to one it signed before comes in.
THEOREM WipedIsDone == Spec => WipedNeverSecures
<1>1. TypeOK /\ KeyInv /\ [Next]_vars =>
        \A c \in Clients :
          ~signing[c] /\ phase'[c] \in Secured => phase[c] = phase'[c]
  <2> SUFFICES ASSUME TypeOK, KeyInv, [Next]_vars, NEW c \in Clients,
                      ~signing[c], phase'[c] \in Secured, phase[c] # phase'[c]
               PROVE  FALSE
    OBVIOUS
  <2>1. CASE phase'[c] = "resumed"
    BY <2>1, BecomesResumed, ResumedWith
  <2>2. CASE phase'[c] = "established"
    BY <2>2, BecomesEstablished
  <2> QED  BY <2>1, <2>2 DEF Secured
<1> QED  BY <1>1, KeyInvariant, TypeCorrect, PTL DEF Spec, WipedNeverSecures
=============================================================================
