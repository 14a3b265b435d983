------------------------------- MODULE Trust -------------------------------
(***************************************************************************)
(* The certificates: QuantumSafeCA as issuer, with its transparency log,   *)
(* and as the trust of a client; verifyServerHelloIdentity; air-gap        *)
(* bundles; the OCSP responder.                                            *)
(*                                                                         *)
(* A certificate binds a server's two keys to the root that signed it and  *)
(* to a time.  Everyone keeps what was issued and may show it again, with  *)
(* whatever keys beside it.  A signature verifies under the root that made *)
(* it.  The root, the log and the responder's memory are those of one life *)
(* of the issuing process; a client goes on with the root it was given.    *)
(***************************************************************************)
EXTENDS Naturals, Sequences, FiniteSets, Functions, TLC

CONSTANTS SigKeys, KemKeys,
          Ttl,                 \* ttlMs, in units of the model's clock
          LogsToFile,          \* NOMAD_CT_LOG_DIR is set
          MaxTime, MaxIssued, MaxLives

ASSUME TrustAssumption ==
    /\ Ttl \in Nat /\ LogsToFile \in BOOLEAN
    /\ MaxTime \in Nat /\ MaxIssued \in Nat /\ MaxLives \in Nat \ {0}

VARIABLES
    now, life,
    ctLog,      \* entries: the certificates of this life's transparency log
    issued,     \* certificates that issueCertificate has returned
    trusted,    \* rootPublicKey of the client: the life it is of; 0, one of its own
    pinned,     \* its pinnedServerKeys
    accepted,   \* the keys the client took from server_hello last, and when
    revoked, stapled   \* of the responder: stapled keeps a status by fingerprint

trustVars == <<now, life, ctLog, issued, trusted, pinned, accepted, revoked, stapled>>

Nobody == [sig |-> "none", kem |-> "none", at |-> 0]

Init ==
    /\ now = 1 /\ life = 1
    /\ ctLog = <<>> /\ issued = {}
    /\ trusted = 0 /\ pinned = {} /\ accepted = Nobody
    /\ revoked = {} /\ stapled = <<>>

-----------------------------------------------------------------------------
Certificate(sig, kem) ==
    [root |-> life, sig |-> sig, kem |-> kem, notBefore |-> now, notAfter |-> now + Ttl]

Valid(cert) == cert.notBefore <= now /\ now <= cert.notAfter

\* verifyCertificate
UnpinnedToo(cert) == Valid(cert) /\ cert.root = trusted       \* faulty: pins not looked at
verifyCertificate(cert) ==
    /\ Valid(cert) /\ cert.root = trusted
    /\ pinned = {} \/ cert.sig \in pinned

\* verifyServerHelloIdentity
OneKeyCompared(cert, kem, sig) ==                             \* faulty: the KEM key is not
    verifyCertificate(cert) /\ cert.sig = sig
verifyServerHelloIdentity(cert, kem, sig) ==
    verifyCertificate(cert) /\ cert.kem = kem /\ cert.sig = sig

fingerprint(cert) == <<cert.sig, cert.kem>>

-----------------------------------------------------------------------------
\* issueCertificate: the certificate is in the log before it is returned.
Issue(sig, kem) ==
    /\ Len(ctLog) < MaxIssued
    /\ ctLog' = Append(ctLog, Certificate(sig, kem))
    /\ \/ issued' = issued \cup {Certificate(sig, kem)}
       \/ LogsToFile /\ UNCHANGED issued      \* appendFileSync throws: nothing is returned
    /\ UNCHANGED <<now, life, trusted, pinned, accepted, revoked, stapled>>

\* fromTrustedRoot: a client starts with the root public key it is given.
FromTrustedRoot ==
    /\ trusted' = life /\ pinned' = {} /\ accepted' = Nobody
    /\ UNCHANGED <<now, life, ctLog, issued, revoked, stapled>>

\* server_hello reaches the client: a certificate, and keys beside it.
ServerHello(cert, sig, kem) ==
    /\ verifyServerHelloIdentity(cert, kem, sig)
    /\ accepted' = [sig |-> sig, kem |-> kem, at |-> now]
    /\ UNCHANGED <<now, life, ctLog, issued, trusted, pinned, revoked, stapled>>

\* A public method that would pin any key unverified; importAirGapBundle is its one
\* caller.
pinServerKey(key) == pinned' = pinned \cup {key}

\* importAirGapBundle: the bundle's root is not looked at.
ImportBundle(cert) ==
    /\ verifyCertificate(cert)
    /\ pinServerKey(cert.sig)
    /\ UNCHANGED <<now, life, ctLog, issued, trusted, accepted, revoked, stapled>>

\* revoke takes the staple away.
Revoke(cert) ==
    /\ revoked' = revoked \cup {fingerprint(cert)}
    /\ stapled' = [fp \in DOMAIN stapled \ {fingerprint(cert)} |-> stapled[fp]]
    /\ UNCHANGED <<now, life, ctLog, issued, trusted, pinned, accepted>>

\* respond: what it says is kept as the staple of every certificate of these keys.
StatusByTime(cert) == IF Valid(cert) THEN "good" ELSE "revoked"
                                                             \* faulty: revoked not asked
Status(cert) == IF fingerprint(cert) \in revoked \/ ~Valid(cert) THEN "revoked" ELSE "good"
Respond(cert) ==
    /\ stapled' = [fp \in DOMAIN stapled \cup {fingerprint(cert)} |->
                     IF fp = fingerprint(cert) THEN Status(cert) ELSE stapled[fp]]
    /\ UNCHANGED <<now, life, ctLog, issued, trusted, pinned, accepted, revoked>>

\* The issuing process starts again: a new root, and nothing is read back.
Restart ==
    /\ life < MaxLives
    /\ life' = life + 1
    /\ ctLog' = <<>> /\ revoked' = {} /\ stapled' = <<>>
    /\ UNCHANGED <<now, issued, trusted, pinned, accepted>>

Tick ==
    /\ now < MaxTime
    /\ now' = now + 1
    /\ UNCHANGED <<life, ctLog, issued, trusted, pinned, accepted, revoked, stapled>>

Next ==
    \/ \E sig \in SigKeys, kem \in KemKeys : Issue(sig, kem)
    \/ \E cert \in issued :
          \/ \E sig \in SigKeys, kem \in KemKeys : ServerHello(cert, sig, kem)
          \/ ImportBundle(cert) \/ Revoke(cert) \/ Respond(cert)
    \/ FromTrustedRoot \/ Restart \/ Tick

Spec == Init /\ [][Next]_trustVars
\* Keys are told apart only as equal or different.
Interchangeable == Permutations(SigKeys) \cup Permutations(KemKeys)

-----------------------------------------------------------------------------
\* What a client takes from server_hello, some certificate that the trusted
\* root really issued binds both keys together, at that time; and one of the
\* life under way is in the transparency log (server_hello mixes certificates
\* and keys of different answers and lives at will).
AcceptedVouched ==
    accepted # Nobody =>
        \E cert \in issued :
            /\ cert.root = trusted /\ cert.sig = accepted.sig /\ cert.kem = accepted.kem
            /\ cert.notBefore <= accepted.at /\ accepted.at <= cert.notAfter
            /\ cert.root = life => cert \in Range(ctLog)

\* importAirGapBundle verifies a bundle against the pins there are: a client
\* pins the first server key it imports, and no later bundle adds another.
FirstPinStays == Cardinality(pinned) <= 1

\* No staple says "good" of keys revoked in the life of the responder, in
\* whatever order revoke and respond come, for whichever of the certificates
\* that share the fingerprint.
NoGoodStapleOnceRevoked ==
    \A fp \in DOMAIN stapled : stapled[fp] = "good" => fp \notin revoked
=============================================================================
