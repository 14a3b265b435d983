---------------------------- MODULE SessionTickets ----------------------------
(***************************************************************************)
(* Session tickets: SessionStore on the server, ClientSessionCache and the *)
(* session_resume handshake of client objects that connect more than once, *)
(* and a server process that restarts.                                     *)
(*                                                                         *)
(* The full handshake, which PQCChannel details, is one action here.  It   *)
(* gives connection i the channel key i and the ticket i.  The client's    *)
(* channel keys are buffers it shares with its cache: wiping one zero-fills *)
(* it for both.  A wiped signing key signs nothing that verifies.          *)
(*                                                                         *)
(* A ticket travels as a base64 string, and several strings decode to it:  *)
(* the server remembers, and the client caches, the string.  A string is   *)
(* the ticket it decodes to and how it is spelled.                         *)
(*                                                                         *)
(* The application waits for one handshake to end before it calls connect  *)
(* or setSessionTicket again; it need not disconnect first.                *)
(***************************************************************************)
EXTENDS Integers, Sequences, FiniteSets

CONSTANTS
    Clients,        \* client objects, each with a signing key of its own
    MaxConns,       \* connections made, in all
    SessionTtl,     \* sessionTtlMs
    Spellings,      \* the base64 texts that decode to one ticket
    AsIssued,       \* the one the server wrote
    MaxConsumed,    \* strings the server remembers as consumed (50_000)
    MaxTime,        \* the clock stops here
    MaxRestarts,
    PersistentKey   \* NOMAD_SESSION_MASTER_KEY is set

ASSUME StoreAssumption ==
    /\ MaxConns \in Nat /\ SessionTtl \in Nat /\ MaxTime \in Nat
    /\ MaxConsumed \in Nat \ {0} /\ MaxRestarts \in Nat
    /\ PersistentKey \in BOOLEAN
    /\ AsIssued \in Spellings

Conns == 1..MaxConns
Strings == Conns \X Spellings
None == 0
NoLife == -1

ASSUME ClientsAssumption == None \notin Clients

Secured == {"established", "resumed"}

VARIABLES
    now, restarts,
    \* the server process
    masterKey,   \* the life in which its master key was made
    consumed,    \* consumedTickets, oldest first
    server,      \* each connection: state, channel key, ticket it was resumed with
    tickets,     \* what each ticket says, once issued
    \* client objects
    phase, aesKey, socket,
    sessionTicket, spelling,   \* the string it resumes with
    serverSig,   \* the life whose server's signature key it knows
    signing,     \* clientSigPrivateKey is not wiped
    cache,       \* sessionCache: string -> the key buffer and when it was saved
    zeroed,      \* key buffers that have been zero-filled
    \* each connection
    owner,       \* the client object that made it
    socketOpen,  \* its "close" event on the client is still to come
    request,     \* session_resume on its way to the server
    answer,      \* what is on its way back
    signedBy,    \* the life whose server signed that
    \* history
    redeemed,    \* <<string, connection, life>> of each successful resumption
    forgotten    \* strings dropped from a full consumedTickets

storeVars == <<masterKey, consumed, server, tickets>>
clientVars == <<phase, aesKey, socket, sessionTicket, spelling, serverSig, signing,
                cache, zeroed>>
linkVars == <<owner, socketOpen, request, answer, signedBy>>
historyVars == <<redeemed, forgotten>>
vars == <<now, restarts, storeVars, clientVars, linkVars, historyVars>>

NoTicket == [client |-> None, expiresAt |-> 0, master |-> 0]
NoEntry == [key |-> None, savedAt |-> 0]
NoRequest == [ticket |-> None, spelling |-> AsIssued, signed |-> FALSE]
Unused == [state |-> "none", key |-> None, ticket |-> None]
Failed == [state |-> "failed", key |-> None, ticket |-> None]
Closed == [state |-> "closed", key |-> None, ticket |-> None]

Init ==
    /\ now = 0 /\ restarts = 0
    /\ masterKey = 0 /\ consumed = <<>>
    /\ server = [i \in Conns |-> Unused]
    /\ tickets = [i \in Conns |-> NoTicket]
    /\ phase = [c \in Clients |-> "idle"]
    /\ aesKey = [c \in Clients |-> None]
    /\ sessionTicket = [c \in Clients |-> None]
    /\ spelling = [c \in Clients |-> AsIssued]
    /\ serverSig = [c \in Clients |-> NoLife]
    /\ socket = [c \in Clients |-> None]
    /\ signing = [c \in Clients |-> TRUE]
    /\ cache = [c \in Clients |-> [str \in Strings |-> NoEntry]]
    /\ zeroed = {}
    /\ owner = [i \in Conns |-> None]
    /\ socketOpen = [i \in Conns |-> FALSE]
    /\ request = [i \in Conns |-> NoRequest]
    /\ answer = [i \in Conns |-> "none"]
    /\ signedBy = [i \in Conns |-> NoLife]
    /\ redeemed = {} /\ forgotten = {}

-----------------------------------------------------------------------------
(***************************************************************************)
(* SessionStore                                                            *)
(***************************************************************************)
Issue(c) == [client |-> c, expiresAt |-> now + SessionTtl, master |-> masterKey]

\* The string that connection i asks to resume with.
Sent(i) == <<request[i].ticket, request[i].spelling>>

IsConsumed(str) == \E k \in DOMAIN consumed : consumed[k] = str

\* What redeem asks of that string before it consumes it: it is compared as it is
\* spelled, then decoded.
Redeemable(i) ==
    LET t == request[i].ticket
    IN /\ ~IsConsumed(Sent(i))
       /\ tickets[t].master = masterKey    \* its HMAC and tag verify
       /\ now <= tickets[t].expiresAt

\* consumedTickets after str: a full set first drops its oldest.
RememberNothing(str) == consumed                             \* faulty: consume not the default
Remember(str) ==
    IF Len(consumed) >= MaxConsumed THEN Append(Tail(consumed), str)
                                    ELSE Append(consumed, str)
Forgets == IF Len(consumed) >= MaxConsumed THEN {Head(consumed)} ELSE {}

-----------------------------------------------------------------------------
(***************************************************************************)
(* The client object                                                       *)
(***************************************************************************)
\* The handshake of c's current socket, if it made one, is over.
Settled(c) ==
    socket[c] # None =>
        phase[c] # "client_hello_sent" \/ ~socketOpen[socket[c]]

Fresh(i) ==
    /\ owner[i] = None
    /\ \A j \in 1..(i - 1) : owner[j] # None

\* connect() without a ticket, and the full handshake to its end: the server
\* issues a ticket, and the client caches its key under it.
FullHandshake(c, i) ==
    /\ sessionTicket[c] = None /\ signing[c]
    /\ Settled(c) /\ Fresh(i)
    /\ owner' = [owner EXCEPT ![i] = c]
    /\ socketOpen' = [socketOpen EXCEPT ![i] = TRUE]
    /\ socket' = [socket EXCEPT ![c] = i]
    /\ server' = [server EXCEPT ![i] = [state |-> "established", key |-> i, ticket |-> None]]
    /\ tickets' = [tickets EXCEPT ![i] = Issue(c)]
    /\ phase' = [phase EXCEPT ![c] = "established"]
    /\ aesKey' = [aesKey EXCEPT ![c] = i]
    /\ sessionTicket' = [sessionTicket EXCEPT ![c] = i]
    /\ spelling' = [spelling EXCEPT ![c] = AsIssued]
    /\ serverSig' = [serverSig EXCEPT ![c] = restarts]
    /\ cache' = [cache EXCEPT ![c][<<i, AsIssued>>] = [key |-> i, savedAt |-> now]]
    /\ UNCHANGED <<now, restarts, masterKey, consumed, signing, zeroed, request,
                   answer, signedBy, historyVars>>

\* setSessionTicket, with any string that decodes to a ticket issued so far;
\* ClientSessionCache.load.  On a miss the client keeps the key it holds.
SetSessionTicket(c, t, s) ==
    /\ Settled(c)
    /\ tickets[t] # NoTicket
    /\ sessionTicket' = [sessionTicket EXCEPT ![c] = t]
    /\ spelling' = [spelling EXCEPT ![c] = s]
    /\ LET entry == cache[c][<<t, s>>]
           hit == entry # NoEntry /\ now - entry.savedAt <= SessionTtl
       IN /\ aesKey' = IF hit THEN [aesKey EXCEPT ![c] = entry.key] ELSE aesKey
          /\ cache' = IF hit THEN cache ELSE [cache EXCEPT ![c][<<t, s>>] = NoEntry]
    /\ UNCHANGED <<now, restarts, storeVars, phase, socket, serverSig, signing, zeroed,
                   linkVars, historyVars>>

\* connect() with a ticket: session_resume, signed with what the key now is.
ConnectResume(c, i) ==
    /\ sessionTicket[c] # None
    /\ Settled(c) /\ Fresh(i)
    /\ owner' = [owner EXCEPT ![i] = c]
    /\ socketOpen' = [socketOpen EXCEPT ![i] = TRUE]
    /\ socket' = [socket EXCEPT ![c] = i]
    /\ phase' = [phase EXCEPT ![c] = "client_hello_sent"]
    /\ request' = [request EXCEPT ![i] = [ticket |-> sessionTicket[c],
                                         spelling |-> spelling[c],
                                         signed |-> signing[c]]]
    /\ UNCHANGED <<now, restarts, storeVars, aesKey, sessionTicket, spelling, serverSig,
                   signing, cache, zeroed, answer, signedBy, historyVars>>

\* handleSessionResume: redeem consumes the ticket before the public key and the
\* signature are looked at.
KeyMatchesAny(i) == TRUE                                     \* faulty: keys not compared
KeyMatches(i) == tickets[request[i].ticket].client = owner[i]

ServerResume(i) ==
    LET t == request[i].ticket
    IN /\ t # None /\ server[i].state = "none"
       /\ Redeemable(i) /\ KeyMatches(i) /\ request[i].signed
       /\ consumed' = Remember(Sent(i))
       /\ server' = [server EXCEPT ![i] = [state |-> "resumed", key |-> t, ticket |-> t]]
       /\ answer' = [answer EXCEPT ![i] = "server_auth_response"]
       /\ signedBy' = [signedBy EXCEPT ![i] = restarts]
       /\ redeemed' = redeemed \cup {<<Sent(i), i, restarts>>}
       /\ forgotten' = forgotten \cup Forgets
       /\ UNCHANGED <<now, restarts, masterKey, tickets, clientVars, owner,
                      socketOpen, request>>

\* fail(): the ticket stays consumed if it was redeemable.
ServerRefuseResume(i) ==
    /\ request[i].ticket # None /\ server[i].state = "none"
    /\ ~(Redeemable(i) /\ KeyMatches(i) /\ request[i].signed)
    /\ IF Redeemable(i)
       THEN consumed' = Remember(Sent(i)) /\ forgotten' = forgotten \cup Forgets
       ELSE UNCHANGED <<consumed, forgotten>>
    /\ server' = [server EXCEPT ![i] = Failed]
    /\ answer' = [answer EXCEPT ![i] = "handshake_error"]
    /\ UNCHANGED <<now, restarts, masterKey, tickets, clientVars, owner,
                   socketOpen, request, signedBy, redeemed>>

\* The signature key of the answer is the one the client knows, if it knows one.
SignerKnown(c, i) == serverSig[c] \in {NoLife, signedBy[i]}

\* handleServerAuthResponse on a resumption.  The server sends the string it has
\* just consumed back, and the client keeps it.
ResumeWithoutKey(c) == TRUE                                  \* faulty: key not required
HasKey(c) == aesKey[c] # None

ClientResumed(c, i) ==
    /\ owner[i] = c /\ socketOpen[i]
    /\ answer[i] = "server_auth_response" /\ phase[c] = "client_hello_sent"
    /\ SignerKnown(c, i)
    /\ answer' = [answer EXCEPT ![i] = "none"]
    /\ serverSig' = [serverSig EXCEPT ![c] = signedBy[i]]
    /\ sessionTicket' = [sessionTicket EXCEPT ![c] = request[i].ticket]
    /\ spelling' = [spelling EXCEPT ![c] = request[i].spelling]
    /\ IF HasKey(c)
       THEN /\ phase' = [phase EXCEPT ![c] = "resumed"]
            /\ cache' = [cache EXCEPT ![c][Sent(i)] = [key |-> aesKey[c], savedAt |-> now]]
       ELSE UNCHANGED <<phase, cache>>     \* RESUME_KEY_MISSING: failHandshake
    /\ UNCHANGED <<now, restarts, storeVars, aesKey, socket, signing, zeroed,
                   owner, socketOpen, request, signedBy, historyVars>>

\* The answer of a server that has restarted, and made a new key pair, since the
\* client learnt its key: failHandshake.  The ticket is consumed all the same.
ClientRefusesAnswer(c, i) ==
    /\ owner[i] = c /\ socketOpen[i]
    /\ answer[i] = "server_auth_response" /\ phase[c] = "client_hello_sent"
    /\ ~SignerKnown(c, i)
    /\ answer' = [answer EXCEPT ![i] = "none"]
    /\ UNCHANGED <<now, restarts, storeVars, clientVars, owner, socketOpen, request,
                   signedBy, historyVars>>

\* wipeSecrets: the key buffer and the signing key are zero-filled.
WipeKeyOnly(c) ==                                            \* faulty: signing key left
    /\ zeroed' = IF aesKey[c] = None THEN zeroed ELSE zeroed \cup {aesKey[c]}
    /\ aesKey' = [aesKey EXCEPT ![c] = None]
    /\ UNCHANGED signing
WipeSecrets(c) ==
    /\ zeroed' = IF aesKey[c] = None THEN zeroed ELSE zeroed \cup {aesKey[c]}
    /\ aesKey' = [aesKey EXCEPT ![c] = None]
    /\ signing' = [signing EXCEPT ![c] = FALSE]

\* disconnect(); the "close" event follows.
Disconnect(c) ==
    /\ socket[c] # None /\ socketOpen[socket[c]]
    /\ WipeSecrets(c)
    /\ UNCHANGED <<now, restarts, storeVars, phase, socket, sessionTicket, spelling,
                   serverSig, cache, linkVars, historyVars>>

\* A socket closes, for whatever reason: what is on the way is lost and both ends
\* run their "close" handler.  The client's wipes its secrets even when the
\* socket is not its current one.
SocketClose(c, i) ==
    /\ owner[i] = c /\ socketOpen[i]
    /\ socketOpen' = [socketOpen EXCEPT ![i] = FALSE]
    /\ request' = [request EXCEPT ![i] = NoRequest]
    /\ answer' = [answer EXCEPT ![i] = "none"]
    /\ server' = [server EXCEPT ![i] = Closed]
    /\ WipeSecrets(c)
    /\ UNCHANGED <<now, restarts, masterKey, consumed, tickets, phase, socket,
                   sessionTicket, spelling, serverSig, cache, owner, signedBy,
                   historyVars>>

\* The server process dies and comes back: its connections and consumedTickets
\* are gone, its master key only if it was made up at start.
Restart ==
    /\ restarts < MaxRestarts
    /\ restarts' = restarts + 1
    /\ consumed' = <<>>
    /\ masterKey' = IF PersistentKey THEN masterKey ELSE restarts + 1
    /\ server' = [i \in Conns |->
                    IF owner[i] = None THEN server[i] ELSE Closed]
    /\ UNCHANGED <<now, tickets, clientVars, linkVars, historyVars>>

Tick ==
    /\ now < MaxTime
    /\ now' = now + 1
    /\ UNCHANGED <<restarts, storeVars, clientVars, linkVars, historyVars>>

Next ==
    \/ Tick \/ Restart
    \/ \E i \in Conns : ServerResume(i) \/ ServerRefuseResume(i)
    \/ \E c \in Clients :
          \/ Disconnect(c)
          \/ \E i \in Conns :
                \/ FullHandshake(c, i) \/ ConnectResume(c, i)
                \/ \E s \in Spellings : SetSessionTicket(c, i, s)
                \/ ClientResumed(c, i) \/ ClientRefusesAnswer(c, i)
                \/ SocketClose(c, i)

Spec == Init /\ [][Next]_vars

-----------------------------------------------------------------------------
(***************************************************************************)
(* Properties                                                              *)
(***************************************************************************)
TypeOK ==
    /\ now \in Nat /\ restarts \in Nat /\ masterKey \in Nat
    /\ consumed \in Seq(Strings)
    /\ server \in [Conns -> [state : {"none", "established", "resumed", "failed", "closed"},
                             key : Conns \cup {None}, ticket : Conns \cup {None}]]
    /\ tickets \in [Conns -> [client : Clients \cup {None}, expiresAt : Nat, master : Nat]]
    /\ phase \in [Clients -> {"idle", "client_hello_sent", "established", "resumed"}]
    /\ aesKey \in [Clients -> Conns \cup {None}]
    /\ sessionTicket \in [Clients -> Conns \cup {None}]
    /\ spelling \in [Clients -> Spellings]
    /\ serverSig \in [Clients -> Nat \cup {NoLife}]
    /\ socket \in [Clients -> Conns \cup {None}]
    /\ signing \in [Clients -> BOOLEAN]
    /\ cache \in [Clients -> [Strings -> [key : Conns \cup {None}, savedAt : Nat]]]
    /\ zeroed \subseteq Conns
    /\ owner \in [Conns -> Clients \cup {None}]
    /\ socketOpen \in [Conns -> BOOLEAN]
    /\ request \in [Conns -> [ticket : Conns \cup {None}, spelling : Spellings, signed : BOOLEAN]]
    /\ answer \in [Conns -> {"none", "server_auth_response", "handshake_error"}]
    /\ signedBy \in [Conns -> Nat \cup {NoLife}]
    /\ redeemed \subseteq Strings \X Conns \X Nat
    /\ forgotten \subseteq Strings

\* Why the next two hold.  A ticket that anything refers to was issued, on a
\* connection some client made, and is not issued again; what was redeemed in
\* this life is still in consumedTickets, or was dropped from it.
Issued(t) == owner[t] # None
TicketInv ==
    /\ \A t \in Conns : ~Issued(t) => tickets[t] = NoTicket
    /\ \A c \in Clients : sessionTicket[c] # None => Issued(sessionTicket[c])
    /\ \A i \in Conns :
          /\ request[i].ticket # None => Issued(i) /\ Issued(request[i].ticket)
          /\ server[i].state = "resumed" =>
                /\ Issued(i) /\ server[i].ticket \in Conns /\ Issued(server[i].ticket)
                /\ tickets[server[i].ticket].client = owner[i]
                /\ server[i].key = server[i].ticket
    /\ \A r \in redeemed :
          /\ r[3] <= restarts
          /\ r[3] = restarts => IsConsumed(r[1]) \/ r[1] \in forgotten
    /\ \A r, s \in redeemed :
          r[1] = s[1] /\ r[3] = s[3] /\ r[1] \notin forgotten => r[2] = s[2]

\* Within one life of the server a ticket resumes at most one connection under each
\* spelling of it, unless the set of consumed strings, once full, has dropped that
\* one.  Under another spelling, which the set does not hold, it may resume again.
OnceInALife ==
    \A r, s \in redeemed :
        r[1] = s[1] /\ r[3] = s[3] /\ r[1] \notin forgotten => r[2] = s[2]

\* A ticket resumes at most one connection, ever.
TicketConsumedOnce == \A r, s \in redeemed : r[1][1] = s[1][1] => r[2] = s[2]

\* A connection is resumed only by the client object the ticket was issued to,
\* and takes up the channel key that client negotiated.
ResumedByOwner ==
    \A i \in Conns : server[i].state = "resumed" =>
        /\ tickets[server[i].ticket].client = owner[i]
        /\ server[i].key = server[i].ticket

\* When a client considers its connection resumed, the key it holds is the one
\* the server took from the ticket, and not zero-filled: the cache hands out
\* buffers that a wipe may have zeroed, and another socket may have closed, or the
\* process restarted, since the request was signed.
ResumedKeysAgree ==
    [][\A c \in Clients :
          phase[c] # "resumed" /\ phase'[c] = "resumed" =>
             /\ aesKey'[c] # None /\ aesKey'[c] \notin zeroed'
             /\ LET i == socket[c]
                IN server[i].state = "resumed" => server[i].key = aesKey'[c]]_vars

\* The memory for consumed tickets is bounded.
ConsumedBounded == Len(consumed) <= MaxConsumed

\* A client object whose secrets were wiped secures no channel again: any close,
\* of any of its sockets, ends its use.
WipedNeverSecures ==
    [][\A c \in Clients :
          ~signing[c] /\ phase'[c] \in Secured => phase[c] = phase'[c]]_vars
=============================================================================
