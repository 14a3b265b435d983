# Nomad Cyber Algorithm: a TLA+ model of the stack

TLA+ modules for this TypeScript stack: the post-quantum channel and the abstract exchange
it implements, its framing, replay guard, heartbeats and session tickets, the admission of
connections, the sidecar, the sovereign organism, the console and gateway in front of it,
the audit log and the vaults behind it, the certificates, and the calculations of the
cipher stack and of secret sharing. TLC checks each module on small instances; TLAPS
proves the theorems listed below for every value of the constants.

Paths are relative to the repository, so the code of `pqc_server_service.ts` is
`src/pqc_server_service.ts`. `PROJECT.json` maps each definition to the lines it models.

## Contents

1. [The system](#the-system)
2. [Modules](#modules)
3. [Runs, bounds and what they show](#runs-bounds-and-what-they-show)
4. [Fairness](#fairness)
5. [Proofs](#proofs)
6. [Where the code and its documents disagree](#where-the-code-and-its-documents-disagree)
7. [What is not modelled](#what-is-not-modelled)
8. [Plan](#plan)
9. [How to run](#how-to-run)

## The system

One Node.js process is the sovereign node: a PQC server (TCP), an API gateway and a
console (HTTP), two vaults, an audit log, and the organism that all of them ask before
they act. Clients and sidecars are other processes. Every process is one event loop, so
code between two `await`s is atomic; the hard behaviour is between them, between the
frames of a connection, and between lives of the process.

| Component | State | Operations | Interacts with | Hard behaviour | Correct when |
|---|---|---|---|---|---|
| PQC client (`pqc_client_service.ts`) | phase, socket, channel key, sequences, handshake promise and timer, seen nonces | connect, frame handlers, sendRaw, disconnect, timer, socket events | server, cache, heartbeat, replay guard | timer against late answer; close in any phase; reuse of one object | it never holds a key the server does not; its promise settles |
| PQC server connection (`pqc_server_service.ts`) | phase, socket, key, pinned KEM pair, sequences, message queue, one pending service call | frame handlers, fail, timer, socket events | client, router, session store, limiter, shutdown | a service awaited while the socket closes; frames queued behind a failure; rotation inside a handshake | requests once and in order; nothing after close; no half-open connection |
| Replay guard (`security/replay_guard.ts`) | table of nonces with expiry | validate | both connection ends | expiry at the skew's edge; a full table | a message goes through once |
| Session store, client cache (`session/`) | master key, consumed tickets; tickets with key buffers | issue, redeem; save, load | both connection ends | restart, full memory, a buffer shared with the one that wipes it | a ticket resumes once, for its owner, with the same key on both sides |
| Admission (`acceptConnection`, `security/*rate_limiter.ts`, `session/graceful_shutdown.ts`) | counts, timestamps, tracked sockets | accept, release, shutdown | organism, Redis, connections | two awaits between check and use; events with no listener | slots are returned once; caps and rate hold; shutdown ends |
| Organism (`organism/`) | status of eleven organs, lockdown, fingerprint | awaken, pulse | Redis, HSM, TPM, audit log, CT log; asked by everyone | pulses overlap while one waits for Redis | lockdown is lifted only over a whole body |
| Console (`console/`) | sessions, MFA attempts, challenges, credential counter | login, verifyMfa, WebAuthn, ZK, resolveSession | organism, gateway, audit log | awaits inside login and WebAuthn; expiry; lockdown | a session that resolves has the factors required; a challenge is used once |
| Gateway (`gateway/`) | slots, routes | handle | Redis, console, organism, vaults | checks after awaits; early returns | slots return; protected handlers run for proven sessions only |
| KEM rotation (`security/key_rotation.ts`) | current and previous pair | rotate | server connections, console | rotation during a handshake | both ends derive one key |
| Framing (`utils.ts`, the `data` handlers) | `receivedBuffer`, message queue | parseMessages, enqueue | both connection ends, replay guard | a length that throws after frames before it were queued | handlers run for what was sent, in order |
| Heartbeat (`session/heartbeat.ts`) | timer, sequence, last pong | start, handlePong, stop | both connection ends | a slow service delays pongs; last pong counted from construction | a dead peer is noticed, a live one is not killed |
| Audit log (`ops/audit_log.ts`) | entries in memory and in a file, chain key | record, verifyChain, load | everyone | append that fails or is torn by a crash | a gap in the chain is seen |
| Vaults (`vault/`, `data/`) | objects and fields sealed to owner and fingerprint | store, retrieve, encryptField, decryptField | organism, gateway, audit log | the fingerprint changes between seal and open; a scan is awaited | what is stored by an owner is read by it and no other, in its pulse and no other |
| Sidecar (`sidecar/sidecar.ts`) | one client per local socket | handleLocalConnection, stop | PQC client | local close while the upstream connects | no upstream channel outlives its local socket |
| Certificates (`crypto/qs_ca.ts`, `cert_verify.ts`, `ct_log.ts`, `ocsp_responder.ts`, `transfer/airgap.ts`) | root, pins, log entries, revocations, staples | issue, verify, pin, revoke, respond | server, clients | renewal, expiry, a restart that makes a new root, bundles one after another | a client takes only keys its root bound together; nothing revoked is called good |
| Secret sharing (`crypto/shamir.ts`, `threshold_sig.ts`) | shares by node, contributions | split, combine, distributeShares, beginSigning, combineThresholdSignature | key ceremony | nodes dealt to again | enough shares of one dealing give its secret, fewer say nothing |
| Record layer and ciphers (`crypto/record_layer.ts`, `imperial/`, `occult/`, `chaos/`) | none | seal, open | both connection ends | orders, rods and paddings that follow the key | open inverts seal |
| Router, allowlist, HSM and key store, key worker | maps, key pairs, pending requests | route, check, load | server, organism | a service that is slow or throws; a device that fails | — |
| Startup, config, health, metrics, logs, scripts | counters | read, print | — | none | — |

## Modules

| Module | Models | Composition |
|---|---|---|
| `PQCChannel` | one connection of client and server, the network between them, rotation and shutdown | implements `Exchange` by the instance `Abstract` |
| `Exchange` | abstract: what a channel promises the application and the services | — |
| `ReplayGuard` | `ReplayGuard` of one end under duplicated and late messages and a clock | — |
| `Intake` | chunks, `receivedBuffer`, `parseMessages`, the queue and `validateIncoming` | extends `ReplayGuard`: a message handled is an `Accept` or a `Reject` of it, or passes it by |
| `Heartbeat` | the two `HeartbeatManager`s of a connection, in time | the connection's end and set-up are `PQCChannel`'s |
| `Sidecar` | `PQCSidecar` with one local connection | extends `Heartbeat`, whose client it makes |
| `SessionTickets` | store, cache and `session_resume` over several connections and lives of the server | the full handshake, detailed in `PQCChannel`, is one step |
| `MCSessionTickets` | `SessionTickets` with the symmetry of its clients, for TLC | extends `SessionTickets` |
| `Admission` | `acceptConnection`, both rate limiters, `GracefulShutdown` | a served connection is what `PQCChannel` details |
| `Organism` | `SovereignOrganism` with the organs that can fail | its `isVital()` is the `vital` of `Admission` and `Console` |
| `Console` | `ConsoleAuthService` with WebAuthn and ZK, and `ConsoleServer` | — |
| `Gateway` | `ApiGateway.handle` | extends `Console`: both run in one process over one set of sessions |
| `AuditLog` | `AuditLog` with its file, as operators on one record | — |
| `Vaults` | `FileVault` and `DbVault`, the pulse's fingerprint, lives of the process | extends `AuditLog`; the pulse is detailed in `Organism` |
| `MCVaults` | `Vaults` with owners and columns whose names have colons, for TLC | extends `Vaults` |
| `Trust` | `QuantumSafeCA` as issuer and as a client's trust, CT log, OCSP, air-gap bundles | `server_hello` is the one of `PQCChannel` |
| `Bytes`, `Ciphers`, `CipherStack` | the layers, and `ImperialCipherStack` as `RecordLayer` uses it | each extends the one before |
| `Shamir`, `ThresholdSig` | GF arithmetic, split and combine; the coordinator | extend `Bytes` |
| `MCAlgorithms` | `CipherStack` and `ThresholdSig` side by side, with their inputs, for TLC | extends both |
| `*_proofs` | theorems and their proofs | each extends its components and TLAPS: `Connection_proofs` is about `Intake` (with `ReplayGuard`) and `Sidecar` (with `Heartbeat`), `Crypto_proofs` about `Trust`, `CipherStack` (with `Bytes` and `Ciphers`) and `ThresholdSig` (with `Shamir`), the others about the module they are named after |

An action is one event handler, or one stretch of an async function from an `await` to the
next. A definition whose comment says *faulty* is not part of the model: it is the one
below it with a slip that could have been made in the code, there to show that the
properties notice.

**PQCChannel.** The two directions of the TCP stream are sequences of frames. The client
(`c...` variables) handles a frame in one step. The server (`s...`) parses a frame into
`sQueue` (`ServerReceive`), as the `data` handler does into `MessageQueue`, and handles it
later; `sPending` is the request for which `router.route` is awaited, and while it is set
the queue waits but timers and socket events do not. A channel key is the epoch of the KEM
pair it was encapsulated to; decapsulating with another pair gives another key and no
error, as ML-KEM does. Both ends may fail, time out, be disconnected, find their peer dead;
the network may lose, double or damage a frame (TCP alone would not); keys rotate; the
server drains. What a damaged frame arrives as is `Damaged`: one that the parser, the schema
or a signature check refuses is `garbled`; a record may keep its number and fail its tag; a
`client_hello` may carry another `correlationId`; and a `client_auth_response` another
`encapsulatedKey`, which is not part of what the client signs, so that the server goes on
with a key of its own.

**ReplayGuard.** `validate` as `Accept` or `Reject`, both with the purge and the eviction
that come first. The timestamp of a message is arbitrary, because it is the sender's.
`accepted` and `first` are history: how often a message went through, and when first.

**Exchange.** Requests and replies are numbers; an end has secured the channel, failed or
closed. A service sees each request at most once, in order and one at a time; the
application sees each reply at most once and in order; numbers go missing only after the
end in question has failed, and a closed end receives nothing. `PQCChannel` maps `sRouted`,
`cGot`, the send sequences, the pending service and its phases to it. An end *fails*, in
that mapping, as soon as it has ended its socket, for whatever reason.

**Intake.** Bytes are units, two to a frame, cut into chunks anywhere. `Remaining` and
`Parsed` are what `parseMessages` returns and hands over; when it throws, the buffer stays
and the frames before the bad length have been queued, so they are queued again with the
next chunk. Only the replay guard stands between them and a second run of their handlers.
What its steps do to the guard are `ReplayGuard`'s own (theorem `IntakeIsGuarded`), so what
is proved of `GuardSpec` carries over. `validateIncoming` does not ask the guard about a
message whose timestamp is 0, nor about a `handshake_error` without one: these pass it by,
and what is said of the others is said under `Guarded`.

**Heartbeat, Sidecar.** Time is a step, `Elapse`, which what is due precedes, and ages
replace the clock so that a behaviour may go on for ever. The frames of one direction are
one sequence, in which pings wait behind requests, and the server handles none of them
while a service is awaited. The sidecar's `hears` says whether `handleLocalConnection` has
come to attach its listeners to the local socket; data left unread delays that socket's
`close` event, and without data a close before that moment is `missed`.

**SessionTickets.** Client objects that connect again and again. A key is the connection
that negotiated it; `zeroed` is the set of key buffers that have been zero-filled, because
the cache and the connection share one buffer. `Restart` keeps the master key or not,
according to the environment, and loses the consumed set. The application is assumed to
await a handshake before it calls `connect` or `setSessionTicket` again. The server
remembers a used ticket by its base64 text and finds it by the bytes, which many texts decode
to: a ticket has `Spellings`, and the consumed set holds strings. A client refuses the
resumption by a server whose signature key is not the one it pinned, which is any later life
of it. The vendored
liboqs stub returns one array for public and private signing key, so that a wipe clears
both; the outcome is the same refusal (`RESUME_KEY_MISMATCH` instead of a bad signature).

**Admission.** `awaits` says whether the limiter is Redis. Without it both awaits resolve
before the next event (`Turn`), with it anything may come between. Slots are released by
the handlers that the code binds, and only once it has bound them.

**Organism.** Pulses are records in the order of their microtasks (`ready`), or wait for
Redis (`waiting`). `vital` stands for `vital` and `dormant`. An organ that is unset in
production returns `critical`, one that is broken throws: the code treats the two
differently and the model keeps that. `EndPulseUnrecorded` is an audit log that cannot be
written at that moment, so that the pulse rejects, after it has written its findings. The
timer's `catch` locks down and records that (`PulseFails`): when this record fails too nobody
handles it and the process ends, and otherwise it goes on, locked down whatever the organs
are, until the next pulse ends (`pulseFailed`). In `awaken` the process ends.

**Console, Gateway.** A session has a stage and the set of its verified flags. Time is a
set, `over`, of what has expired. `login` and `verifyWebAuthn` are two steps each, since
they await a thread of the pool. A request of the gateway waits for the limiter, for its
body, or in its handler; everything from the body to the handler's start is one step,
which is why the order of organism check and session check does not matter. A sender that
leaves while Redis is asked (`SenderLeaves`) has nobody listening; `readBody` then listens to
a request that is destroyed already, and the request hangs with its slot. A URL that cannot
be parsed (`ArriveMalformed`) ends the process, as a rejection of Redis does.

**AuditLog, Vaults.** The log is one record, with its entries, the lines of its file and the
life in which each entry was made. An append that throws leaves nothing, half a line or a
line without its newline, and the next line is joined to it. `Vaults` composes it with the
fingerprint (a hash of the log's head and the number of the pulse), with pulses that end
during a scan, and with crashes at every point, also between an object and its record. A
write of a vault object that fails leaves nothing that parses. A name is the sequence of its
parts between colons. What a field is bound to is the text that table, column and tenant join
to, colons not escaped, so that different names may join alike (`Joined`). Whether the log
has a file is chosen at the start; without one nothing outlives the process.

**Trust.** A certificate is its root, its two keys and its validity. Whatever was issued may be
shown again at any time with any keys beside it. A restart of the issuing process makes a
new root and forgets log, revocations and staples; a client goes on with the root it has.
`pinServerKey` is taken only as a part of `importBundle`, which checks first: it is public,
and a call of it alone would add a second pin, but the program has no such call.

**Bytes, Ciphers, CipherStack.** Each layer is a function of bytes, in both directions;
`Rejected` is a way back that throws. HKDF and HMAC yield material that both ends share, so
it is drawn with the record, and every operator of the stack takes it, and the
configuration, as a parameter; the HMAC inside cartouche and seal is a sum of one byte, which
is enough for a property about honest ends. **Shamir, ThresholdSig.** The field is built as
the code builds it, from `gfMultiply` and the powers of 3, for any size of byte; secrets are
one byte because the code treats bytes one by one.

## Runs, bounds and what they show

| Run | Instance | States | Shows |
|---|---|---|---|
| `channel` | 2 requests, 2 KEM epochs, 1 mistreated frame | 434 k | it implements `Exchange`; keys agree, or nothing passes; failed handshakes carry nothing, nothing outlives a close, handshakes settle and half-open connections end |
| `intake` | 4 frames of 3 messages and a bad length, table of 2, lifetime exactly twice the skew | 2.5 M | handlers run in order; a message's handler runs once, or twice at both edges of its window, unless a full table gave it up; the table stays bounded |
| `sessions` | 2 clients, 3 connections, 2 spellings of a ticket, memory of 1, 1 restart | 1.2 M | each string resumes once per life, for the owner, with the same live key; a wiped client is finished |
| `session_restart` | 1 client, 3 connections, 1 restart, key kept | violation | a used ticket resumes again after a restart |
| `admission` | 3 connections against limits of 2, 2 windows, 1 foreign increment | 1.5 M | slots are exact, the rate holds, what closed is forgotten, shutdown ends |
| `organism` | 2 pulses waiting, a third running | 241 k | lockdown is lifted only over a whole body, and stays over one only after a pulse that was not recorded; it recovers |
| `gateway` | 1 session, 1 challenge of each kind, 2 requests | 667 k | slots return but for a request that hangs, a challenge is spent once, protected handlers only for sessions proven at that moment |
| `console_zk` | all factors required, 2 challenges of each kind | violation | no session ever resolves |
| `vaults` | 2 owners, 6 records, 2 sealed things, 2 pulses at a time, 3 lives, 1 failed append, with and without a log file | 7.9 M | gaps are seen; what is acknowledged opens in its pulse, for its owner or for names that join to the same text, and in no other pulse unless its life left no trace |
| `sidecar` | interval of 3 units, every delay 1, set-up of 2, 1 request at a time | 2.2 M | no live peer is declared dead, no client outlives its local program unless its close went unheard |
| `algorithms` | bytes of 8 values, every order, 5 lengths of record; threshold 2 and 3 of 3, two dealings | 172 k | every configuration of the stack is undone; a dealing's shares give its secret, fewer give nothing |
| `trust` | 2 keys of each kind, 2 certificates in each of 2 lives, 3 instants | 3.0 M | a client takes only keys bound together by its root; one pin; no good staple of a revoked key |

Why the bounds are enough. `channel`: the second request queues behind the first while its
service is awaited, the second epoch puts a rotation at every point of the handshake, and
one fault can lose, double or damage any single frame. `intake`: a table of two with three
messages fills, the lifetime is the program's, twice the skew, the clock reaches both edges
of a window and goes beyond it, and four frames leave room for a repetition behind a bad
length and for one before it. `sessions`: three connections are two handshakes and a
resumption, with the other client's ticket or its own, or one handshake whose ticket resumes
under both spellings; the second spelling makes a memory of one drop the first. That a
dropped string resumes again takes one connection more, and is left to the theorem, which has
any number of them. `admission`: three connections, two slots: one is refused while
others hold, wait or leave. `organism`: two waiting pulses answered together, and a third
started behind them, is every kind of overlap: further pulses are more of the same, and the
proofs cover them; and each of them may end without a record. `gateway`: two requests share the slots and the session; two answers to
one challenge need one session only. `vaults`: a line torn in the first life, joined to in
the second and loaded in the third, with a pulse that overlaps another in each. `sidecar`:
the delays add up to exactly what `TimelyAssumption` allows; with one unit more of set-up or
delay a live peer is declared dead. `algorithms`: rods longer and shorter than the record,
rows full, partly full and missing, both orders of the tail and all six of the rest; the
whole field is drawn from, which 256 values would forbid. `trust`: a renewed certificate,
an expired one, one of the other root, and keys taken from two certificates.

Every property of a passing run has a mutant in `PROJECT.json`: one definition replaced by
its faulty variant, which TLC then finds violated under the same configuration.

## Fairness

Assumed: event loops keep running (the client's and server's handlers of what has
arrived), armed timers fire, a destroyed socket emits `close`, resolved promises continue,
the organism's interval keeps firing, an HTTP body that `readBody` listens to ends, or
fails with its sender or the server's request timeout (a sender that leaves before it listens
is not covered: that request hangs, and `RequestsAnswered` excepts it), Redis answers a limiter's request or rejects it (the client library retries once
and gives up). The gateway's handlers await nothing outside the process, so they settle.
In `Sidecar`, that a handshake ends, by success or by its timer, and that the application
behind the server answers within `MaxService`: the same that `TimelyAssumption` needs.

Not assumed: that a service ever answers (`ServiceStep` has no fairness), that a peer or
an application does anything, that Redis answers a ping, that faults stop. Where Redis is
needed, the property says so: `ShutdownEnds` is about a server without it, and
`RecoversWhenHealthy` assumes that pings are answered again and again and that pulses can be
recorded from some time on. `OperatorSpec` of
`console_zk` assumes an operator who goes on as long as there is something left to do.

## Proofs

All proofs are for every value of the constants that satisfies the named assumptions.
Each invariant `Inv` is proved as `Init => Inv`, `TypeOK /\ Inv /\ [Next]_vars => Inv'`
and a last temporal step.

| Theorem | States | Argument |
|---|---|---|
| `PQCChannel_proofs!TypeCorrect` | types | per action |
| `CloseIsFinal` | `NothingOutlivesClose` | `EndsInv` (theorem `EndsInvariant`) ties phase, promise, key, timer and heartbeat of an end to its socket |
| `OrderInvariant`, `ChannelImplementsExchange` | `ImplementsExchange` | `ChannelInv` bounds the record numbers in flight by those sent; `OrderInv` says that services and application have been handed numbers up to `recvSequence`, without a gap until that end fails. Under these two and `EndsInv` each action of `PQCChannel` is an action of `Exchange` or leaves its variables alone, one lemma per action |
| `ChannelInvariant`, `KeysAgree`, `ServerFirst` | `ChannelInv`, `KeyAgreement`, `ServerEstablishedFirst` | Agreement is not inductive: the key is decided by a frame in flight. `ChannelInv` says of every frame, queued or on the wire, that a `client_auth_response` carries the pinned pair's key, or is one whose encapsulation was damaged, after which the two keys differ and no record is opened by either end; and that a `server_auth_response` exists only after `established`. The pin never changes once made (`PinnedStays`), so sequences of fit frames stay fit under every append, loss, duplication and damage |
| `PQCChannel_proofs!CarriesInvariant`, `FailedCarriesNothing` | `FailedHandshakeCarriesNothing` | A record on the wire or queued is of a client that completed before its promise was rejected, a server's last message is of one established before it failed (`CarriesInv`), and a side that failed has ended its socket and writes no more (`FailedSilent`) |
| `Connection_proofs!TypeCorrect`, `TableStaysBounded`, `MessagesAcceptedOnce` | types, `TableBounded`, `AcceptedOnce` of `GuardSpec` | A nonce that was accepted and not evicted is in the table until its timestamp is stale, but for the last instant of its window if it was taken at the first one (`ReplayInv`). The last theorem assumes `NonceTtl >= 2 * MaxClockSkew` and `NonceTtl > 0`: both services set exactly twice the skew |
| `IntakeIsGuarded`, `IntakeAcceptsOnce` | `Intake` implements `GuardSpec`; `HandledOnce`, `TableBounded` | Every step of `Intake` is an `Accept`, a `Reject`, a tick of the clock, or leaves the guard alone (`GuardSteps`). The handler of a message with a timestamp has run as often as the guard has accepted it (`RunsCounted`); with the first theorem and `MessagesAcceptedOnce` this is the second |
| `HandlesInOrder` | `HandledInOrder` | Until a length throws or a message is refused, what has left the buffer is queued or handled, in the order in which it was sent (`NothingSkipped`) |
| `VerdictsHold` | `VerdictsAreTrue` | Under `TimelyAssumption` a live peer's answer is always near enough: a pong is on its way, or a ping to which it will be the answer, or the peer's next tick is soon enough to send one. How long each takes depends on the requests before it, so `LinkInv` keeps a tally of the work that waits on the wire and bounds what is left of an end's patience by it. TLC checked `LinkInv` before it was proved |
| `NoneIsForgotten` | `NoneForgottenAlive` | A client that outlives its local program is one whose close came before the listener |
| `SessionTickets_proofs!TypeCorrect`, `TicketInvariant`, `TakenUpOnce`, `OwnerResumes`, `MemoryBounded` | `TicketInv`, `OnceInALife`, `ResumedByOwner`, `ConsumedBounded` | A string that was redeemed in this life is still remembered or was dropped; what is referred to was issued, and is not issued again |
| `SessionTickets_proofs!KeyInvariant`, `KeysAgree`, `WipedIsDone` | `ResumedKeysAgree`, `WipedNeverSecures` | A key buffer belongs to the client that negotiated it, and a zero-filled one to a client that can no longer sign (`KeysOwned`). The cache has a client's own ticket, under its key, until it expires (`CacheTrue`), and while a resumption is under way only a wipe touches the key its client holds (`Underway`, `AnswerFits`) |
| `Admission_proofs!TypeCorrect`, `AdmissionInvariant`, `SlotsExact`, `CapHolds`, `ClosedForgotten`, `CurrentView`, `RateHolds` | the safety properties of the run | The count is the cardinality of `Holding`; each handler moves one connection in or out of it, once. The rate needs a second invariant (`RateInv`): the timestamps kept are the recent suffix of all that were granted |
| `Organism_proofs!TypeCorrect`, `InvCorrect`, `WholeRelease`, `BrokenNeverTrusted` | `ReleasedWhole`, `BrokenNotTrusted` | A pulse that waited for Redis has looked at the organs before that wait long ago. It still may lift lockdown only over a whole body, because each of those organs has a dependent checked after the wait, which looks at its status again (`CleanHasSeen`); the one without, `supply_spleen`, follows the core (`SpleenFollowsCore`). What is found is written before anything else runs (`FoundIsWritten`, `FindingsCurrent`), and pulses answered together agree (`AnswersAgree`) |
| `Organism_proofs!LockdownIsTrue` | `LockdownMatchesOrgans` | Lockdown without a critical organ is the doing of a pulse that was not recorded (`pulseFailed`). Otherwise the pulse that ends last has its `anyCritical` from an organ that is critical still (`Caused`, `LastCaused`): it is of those before the wait for Redis, which pulses find in order, or the limiter's own, about which pulses answered together agree (`NervesAgree`); those behind follow from these (`LungsFollow`) |
| `Gateway_proofs!InvCorrect`, `TypeCorrect`, `ChallengeSpentOnce`, `SlotsExact`, `HandlersAreProtected` | `ChallengeProvesOne`, `SlotsReturned`, `ProtectedOnlyProven` | A challenge under check, or that verified a session, is marked used, and never is both (`ChallengeInv`); where WebAuthn is required the flag of a session comes from an assertion (`FactorsInv`); the in-flight count is the cardinality of `InService`, in which a request that hangs stays; a step of the gateway touches a session only by deleting it (`OnlyStage`) |
| `Vaults_proofs!SealedUnderPulse`, `StoredOpens` | `AckedOpens` | What is acknowledged is part of what is sealed; what was sealed since the last pulse ended carries the fingerprint that stands and the key of this life (`SealInv`), because seal and open read the fingerprint and only a pulse's end writes it |
| `Vaults_proofs!LogInOrder`, `GapsAreSeen` | `GapsSeen` | Entries in memory and on disk were made, and stand in the order in which they were; one that follows another of its own life names it (`LogInv`). A chain that verifies therefore has the entry before, if that is of the same life |
| `Vaults_proofs!CleanLogComesBack` | `CleanLogReloads` | Loading is a fold over the lines; induction on how many of them are loaded |
| `Vaults_proofs!OpensInPulse` | `OpensInItsPulse` | A fingerprint names the head the log had before its pulse was recorded. Each pulse of a life names a later head than the one before, and what left a trace in an earlier life was sealed before the head that this life's first pulse names. What opens was sealed for a scope that joins to the same text (`Bound`), and two texts that are equal and divided at the same places have equal parts (`FieldsApart`) |
| `Crypto_proofs!TrustInvariant`, `KeysAreVouched`, `OnePinOnly`, `RevokedNeverGood` | the three invariants of `Trust` | What was issued in the life under way is in its log, and no root is of a life to come (`IssuedLogged`); pins are added only where there are none or where they are already (`OnePin`); the third invariant is inductive |
| `Crypto_proofs!AugustanTurnsBack`, `ScytaleTurnsBack` | — | Arithmetic modulo the byte; a place in the transposed record is a row and a column, which division gives back (lemmas `DivMod`, `DivModBack`), and the padding is behind the last byte |
| `Crypto_proofs!SharesCombine`, `SharesFitAll` | — | The bytes are a field: `xor` is a group (`XorGroup`), `gfMultiply` distributes over it (`MulLinear`, both by doubling the range), and exponents are added and subtracted below the order of the group (`TimesAgain`, `OverIs`). A polynomial is divided by `x + a` (`Divided`) and multiplied by it (`Multiplied`), so that one goes through any points (`ThroughAll`), and what it is at 0 follows from what it is at as many points as it has coefficients (`LagrangeAll`) |
| `Crypto_proofs!KeyIsMasters`, `FewerLearnNothing` | `SignsWithMaster`, `FewerSayNothing` | Behind the shares of each dealing, in nodes and in the last signature, is one polynomial (`Backed`), and the key is what the shares combine to (`KeyMade`); both are in `SigningInv`. The rest is the two theorems above |
| `Crypto_proofs!RecordsComeBack` | `RoundTrip` | Numbers in two and four bytes are read as they were written (`Written`); `xor` taken twice gives back the first operand, by doubling the range for which it does (`XorTwice`); the key schedule of the S-box and the shuffle of an order swap places and so keep every value once (`SboxIs`, `ShuffledIs`). Each layer is undone (`UndoesDo`), the scytale if the length before it fits four bytes, which holds because it comes once and every other layer keeps the length; so the reversed order undoes the order (`OrderUndone`), and cartouche, seal, padding and fingerprint come off in turn (`DeciphersWhatWasEnciphered`) |

Only model-checked: every liveness property and everything under fairness, which is out of
the prover's reach: `HandshakeSettles`, `HalfOpenEnds`, `FailedCloses`, `ShutdownEnds`,
`RecoversWhenHealthy`, `RequestsAnswered`, `LeaverIsFollowed`. Every other property that a
passing run checks is stated by a theorem.

Induction. The library's theorems of induction take an operator as a parameter, which the
installed provers cannot instantiate. Where a proof needs one, for the loading of a log in
`Vaults_proofs` and for the recursive functions of the cipher stack, the field and its
polynomials in `Crypto_proofs`, it goes through sets of numbers: a set of naturals that is
not empty has a least element (`LeastNumber`), so a set with 0 and the successor of each of
its elements is all of them (`Induction`, `InductionTo`), which is first order. That a
function defined by recursion exists at all, so that its definition says something, is
`Recursion`: a function built one argument at a time.

What `RecordsComeBack` assumes is `StackAssumption`: keys and seeds are bytes and not empty,
the lengths of the padding fit the two bytes they are written in (the code draws them below
272), and `SizeAssumption`, a byte of 8 to 256 values.

What the theorems about shares assume is `CoordinatorAssumption`: lists of names, thresholds
that `splitSecret` accepts and an index that is a byte, and `FieldAssumption`: the reduction
is a byte, each of the tables `EXP` and `LOG` undoes the other, and the sum of two
logarithms is the logarithm of their `gfMultiply`. This is finitely much about one number,
and a calculation rather than a proof: TLC evaluates it, in the run for the field of 8
elements, and evaluates it to true for the code's field, `Size = 256` and
`Reduction = 16^^1b` (65 025 products, in seconds, in a module that extends `Shamir`). All
else about the field is proved from the definitions.

## Where the code and its documents disagree

Shown by a run that expects a violation:

- **A ticket resumes twice across a restart** (`session_restart`): the consumed set is in
memory, the master key in the environment. `README.md:201` says "one-time consume".
- **The ZK login cannot be completed** (`console_zk`): the challenge's answer lacks the
nonce the proof must sign, so with a ZK key configured no session resolves. With
`NonceIsSent == TRUE` the property holds.

Met on the way, and visible in the models as a condition, an exception or an assumption of a
property:

- *Replay at both edges of the window.* Both services make `nonceTtlMs` exactly twice
`maxClockSkewMs`, `purge` drops at `<=` and the skew check is inclusive: a message taken at
the first millisecond at which its timestamp allows it is forgotten at the last one, and taken
again. This is the exception `TakenAtBothEdges` of `AcceptedOnce` and `HandledOnce`.
- *A message with timestamp 0 is never checked for replay*: `validateIncoming` tests the
timestamp for truth (`pqc_server_service.ts:135`), and the schema accepts 0. Hence `Guarded`
in `HandledOnce`.
- *The encapsulation is not signed.* `buildClientAuthSignedPayload` leaves `encapsulatedKey`
out. One that was damaged on its way passes every check and decapsulates to another key: both
ends complete, and nothing passes between them. `KeyAgreement` has the exception, and says
what then holds.
- *A ticket written in another way resumes again*: `consumedTickets` holds the text of the
ticket, `redeemTicket` decodes it with `Buffer.from`, which takes many texts for the same
bytes. `OnceInALife` is therefore about strings.
- *A request hangs* whose sender leaves while Redis is asked, and its slot is not returned
(`api_gateway.ts:83`, `:145`); a URL that cannot be parsed ends the process (`:71`).
- *A whole body may stay locked down*, until the next pulse ends, when a pulse could not be
recorded and the lockdown after it could: the exception `pulseFailed` of
`LockdownMatchesOrgans`.
- *Fields are bound to a joined text.* `DbVault` puts table, column and tenant into the AAD
with unescaped colons (`db_vault.ts:96`), so that a field of tenant `x` in column `c:t` opens
for tenant `t:x` in column `c`. `OpensInItsPulse` says whose it is only between names with as
many colons.
- *Admission in lockdown.* The organism is asked before Redis, not after.
`AdmittedOnCurrentView` is therefore about a server without Redis.
- *The client cache keeps the buffer of the key*, which `wipeSecrets` zero-fills:
`ResumedKeysAgree` shows that the zeros are never used as a channel key, since a client
that was wiped cannot sign either.
- *The end of an audit log can be lost without trace.* `audit_log.ts:54` says that
`verifyChain` detects the gaps of skipped lines; it detects those before an entry of the
same life that survived (`GapsSeen`), not the last lines of a life.
- *Fingerprints repeat.* The first pulses of two lives have one fingerprint when nothing
recorded in between reached the second life: always without `NOMAD_AUDIT_LOG_DIR`, for
objects nobody was told of after one torn line, and for acknowledged ones after two
failed appends, one the line that the first pulse's record is joined to and one the
object's own. "Data sealed under one pulse cannot be read under another"
(`README.md:104`) holds as `OpensInItsPulse` states it: for what was acknowledged and has
left a trace in the log that this life loaded (`LeftTrace`). The run has both kinds of log. Conversely a
file stored before a pulse cannot be opened after it, so `db_vault.ts:51`, which warns
that data is lost on restart only with an ephemeral key, promises more than the binding.
- *The CT log is written and never read back*, so `verifyChain` on it after a restart says
that an empty chain is valid.
- *An unheard local close leaks a channel.* `LeaverIsFollowed` and `NoneForgottenAlive` make
the exception `missed`; a reset at that moment has no `error` listener and ends the process.
The death of the upstream is told to the local program with its next chunk, and a chunk
written after `failHandshake` is lost silently.
- *The defaults leave the heartbeat 30 s*: `TimelyAssumption` in the defaults' terms. A
handshake that takes its full timeout has used them up before the first ping.
- *A long subject is sent and never opened*: a cartouche header of 4097 to 65535 bytes is
written (`egyptian.ts:43`) and refused (`egyptian.ts:54`).
- *Threshold signatures* are made over random bytes instead of the message
(`threshold_sig.ts:85`), reconstruct the key, ignore the contributions that `beginSigning`
collected, and give some other key, silently, when nodes hold shares of two dealings.
`splitSecret` puts no upper bound on the number of shares (`shamir.ts:59`); an index over
255 is outside the field and its tables, hence `TotalShares \in 1..Order`.
- *One pin is for ever.* After one air-gap bundle no bundle with another server key is
taken (`FirstPinStays`), so that a rotated server key needs a new client. A restart of the
issuer makes a new root, which clients with the old one reject.
- *Revocations are in memory and unused.* `OcspResponder` is made nowhere in the program,
and `verifyServerHelloIdentity` asks for no staple; `verifyStapled` ignores `nextUpdate`.
- *The key worker's* `shutdown()` awaits an answer that the worker, having exited, never
posts; a worker that dies leaves its callers waiting. Nothing starts one.

## What is not modelled

Each row of `PROJECT.json`'s `components` says what is left out of it. In general: the
cryptography is ideal (a record opens under its key, a signature verifies under its key);
`audit.record` may throw in `Organism` and `Vaults` and is assumed not to elsewhere;
metrics, logs and the wording of messages are left out; roles collapse, because the only
user is the sovereign `admin`; the HSM's `connect` is assumed to settle within the
microtasks; the HSM, TPM and CT parts of the fingerprint are left out, which can only make
more fingerprints equal. A client object that connects again keeps its sequence numbers and
its settled promise; `SessionTickets` has such clients without the numbers, and nothing in
the program makes one. The key worker, the audit export, health, metrics, logging and the
scripts are not modelled: no other part reads what they keep, or they run once from top to
bottom.

## Plan

Done, in this order: `PQCChannel`, `ReplayGuard`, `SessionTickets`, `Admission`, `Organism`,
`Console`, `Gateway`; `Exchange` and the refinement, `AuditLog` and `Vaults`, `Heartbeat` and
`Sidecar`, `Intake`, the algorithms, `Trust`; the proofs of each.

Left, most useful first:

1. A client that connects again over the whole of `PQCChannel`, with its sequence numbers.
2. `HSM`: the adapters' sessions and the rewrapping of keys.

## How to run

  tlc -workers 2 -config PQCChannel.cfg PQCChannel.tla
  tlapm PQCChannel_proofs.tla

with the module and configuration of any run of `PROJECT.json`. The longest runs take one
to two minutes on two cores; the proofs of a module take one to three minutes.
