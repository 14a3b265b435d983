------------------------------- MODULE Gateway --------------------------------
(***************************************************************************)
(* ApiGateway and ConsoleServer in front of the console's sessions: a      *)
(* request takes a connection slot, waits for the distributed limiter and  *)
(* for its body, and only then asks who sends it, whether the organism is  *)
(* vital, and runs its handler.  Every request goes through one function   *)
(* with two awaits before the checks and one after them.                   *)
(***************************************************************************)
EXTENDS Console

CONSTANTS
    Requests,       \* requests under way at a time
    MaxConnections,
    HasRedis        \* the distributed limiter counts in Redis

ASSUME GatewayAssumption ==
    /\ IsFiniteSet(Requests) /\ MaxConnections \in Nat \ {0} /\ HasRedis \in BOOLEAN

VARIABLES
    request,            \* what each request waits for, whose token it carries
    activeConnections,
    ended               \* the process has ended

gatewayVars == <<request, activeConnections, ended>>
vars == <<consoleVars, gatewayVars>>

\* public: for /health and /organism/vitals.
Waits(at, bearer, public) == [at |-> at, bearer |-> bearer, public |-> public]
NoRequest == Waits("nothing", NoToken, FALSE)

Init ==
    /\ ConsoleInit
    /\ request = [r \in Requests |-> NoRequest]
    /\ activeConnections = 0
    /\ ended = FALSE

IsAt(r, at) == ~ended /\ request[r].at = at
AtLimiter(r) == IsAt(r, "limiter") \/ IsAt(r, "deserted")
GoesTo(r, at) == request' = [request EXCEPT ![r].at = at]

ReleasedByHandler(r) ==                                      \* faulty: not on an early return
    IF request[r].at = "handler" THEN activeConnections - 1 ELSE activeConnections
Released(r) == activeConnections - 1

FinishUnanswered(r) ==                                       \* faulty: denied in silence
    /\ request' = [request EXCEPT ![r] = IF @.at = "limiter"
                                           THEN Waits("denied", @.bearer, @.public)
                                           ELSE NoRequest]
    /\ activeConnections' = activeConnections - 1

\* Answered, whatever the answer; the finally clause releases the slot.
Finish(r) ==
    /\ request' = [request EXCEPT ![r] = NoRequest]
    /\ activeConnections' = Released(r)

-----------------------------------------------------------------------------
\* Over the cap it is answered with 429 at once.
Arrive(r, bearer, public) ==
    /\ IsAt(r, "nothing") /\ activeConnections < MaxConnections
    /\ request' = [request EXCEPT ![r] = Waits("limiter", bearer, public)]
    /\ activeConnections' = activeConnections + 1
    /\ UNCHANGED <<consoleVars, ended>>

\* new URL() throws before the try: nobody handles the rejection.
ArriveMalformed ==
    /\ ~ended /\ ended' = TRUE
    /\ UNCHANGED <<consoleVars, request, activeConnections>>

\* The sender goes away while Redis is asked, and nobody listens to the request yet.
\* Nobody will ask for its token.
SenderLeaves(r) ==
    /\ IsAt(r, "limiter") /\ HasRedis
    /\ request' = [request EXCEPT ![r] = Waits("deserted", NoToken, FALSE)]
    /\ UNCHANGED <<consoleVars, activeConnections, ended>>

\* readBody() listens from here on; to a request that is destroyed already it listens
\* for ever.
LimiterAllows(r) ==
    /\ AtLimiter(r)
    /\ GoesTo(r, IF request[r].at = "limiter" THEN "body" ELSE "hung")
    /\ UNCHANGED <<consoleVars, activeConnections, ended>>

LimiterDenies(r) ==
    /\ AtLimiter(r) /\ HasRedis
    /\ Finish(r)
    /\ UNCHANGED <<consoleVars, ended>>

\* A rejection of Redis here is outside the try: nobody handles it.
LimiterRejects(r) ==
    /\ AtLimiter(r) /\ HasRedis
    /\ ended' = TRUE
    /\ UNCHANGED <<consoleVars, request, activeConnections>>

\* The body is too large, or the sender goes away: 500.
BodyFails(r) ==
    /\ IsAt(r, "body")
    /\ Finish(r)
    /\ UNCHANGED <<consoleVars, ended>>

\* The body is there.  From here to the handler's first await nothing else runs.
AuthorizedByToken(t) == t # NoToken                          \* faulty: any token will do
Authorized(t) == t \in Tokens /\ Resolves(t)

BodyRead(r) ==
    LET t == request[r].bearer IN
    /\ IsAt(r, "body")
    /\ stage' = StageResolved(t)
    /\ IF request[r].public \/ (vital /\ Authorized(t))
       THEN GoesTo(r, "handler") /\ UNCHANGED activeConnections
       ELSE Finish(r)
    /\ UNCHANGED <<required, vital, over, factors, tries, webauthnVars, zkChallenge,
                   ended>>

\* The handler settles; what it throws is answered with 500.
HandlerEnds(r) ==
    /\ IsAt(r, "handler")
    /\ Finish(r)
    /\ UNCHANGED <<consoleVars, ended>>

\* GET /console/status and POST /console/rotate-keys resolve the session and act in the
\* same turn, so all that is left of them here is that they may delete a session.
ConsoleAsks(t) ==
    /\ ~ended
    /\ StageResolved(t) # stage /\ stage' = StageResolved(t)
    /\ UNCHANGED <<required, vital, over, factors, tries, webauthnVars, zkChallenge,
                   gatewayVars>>

ConsoleStep == ~ended /\ ConsoleNext /\ UNCHANGED gatewayVars

Next ==
    \/ \E r \in Requests :
          \/ \E b \in Tokens \cup {NoToken}, p \in BOOLEAN : Arrive(r, b, p)
          \/ SenderLeaves(r)
          \/ LimiterAllows(r) \/ LimiterDenies(r) \/ LimiterRejects(r)
          \/ BodyFails(r) \/ BodyRead(r) \/ HandlerEnds(r)
    \/ ArriveMalformed
    \/ \E t \in Tokens : ConsoleAsks(t)
    \/ ConsoleStep

\* Redis answers or fails; a body that is listened to ends, or fails with its sender or
\* the server's request timeout; and the handlers, which await nothing but what the
\* process itself does, settle.  A deserted request owes nothing.
Fairness ==
    \A r \in Requests :
        /\ WF_vars(LimiterAllows(r) \/ LimiterDenies(r) \/ LimiterRejects(r))
        /\ WF_vars(BodyRead(r) \/ BodyFails(r))
        /\ WF_vars(HandlerEnds(r))

Spec == Init /\ [][Next]_vars /\ Fairness

-----------------------------------------------------------------------------
(***************************************************************************)
(* Properties                                                              *)
(***************************************************************************)
TypeOK ==
    /\ ConsoleTypeOK
    /\ request \in
         [Requests -> [at : {"nothing", "limiter", "deserted", "body", "hung", "handler"},
                       bearer : Tokens \cup {NoToken}, public : BOOLEAN]]
    /\ activeConnections \in 0..MaxConnections
    /\ ended \in BOOLEAN

InService == {r \in Requests : request[r].at # "nothing"}

\* A slot is held by every request in service and by no other, however it ends; one that
\* hangs keeps its slot.
SlotsReturned == activeConnections = Cardinality(InService)

\* A protected handler starts only while the organism is vital and for a session that is
\* neither over nor deleted at that moment and, where WebAuthn is required, has an
\* assertion of its own: both waits of the gateway lie before its checks.
Proven(t) ==
    /\ vital /\ stage[t] = "open" /\ t \notin over
    /\ "webauthn" \in required => provenBy[t] # {}
Starts(r) == request[r].at # "handler" /\ request'[r].at = "handler" /\ ~request[r].public
ProtectedOnlyProven ==
    [][\A r \in Requests :
         Starts(r) => request[r].bearer \in Tokens /\ Proven(request[r].bearer)]_vars

\* Every request is answered, unless the process ends or its sender went away while
\* Redis was asked: that one hangs, and what it holds is lost.
RequestsAnswered ==
    \A r \in Requests :
        request[r].at \in {"limiter", "body", "handler"}
            ~> request[r].at \in {"nothing", "hung"} \/ ended
=============================================================================
