----------------------------- MODULE ReplayGuard -----------------------------
(***************************************************************************)
(* The ReplayGuard of one connection end.  validate() runs on every message *)
(* before its handler does: it forgets expired nonces, makes room in a full *)
(* table, then accepts the message if its timestamp is near the local clock *)
(* and its nonce is not in the table.                                      *)
(*                                                                         *)
(* A nonce is attached to one message and with it a timestamp taken from   *)
(* the sender's clock, or copied from the request it answers, so it may be *)
(* anything.  The network delivers a message at any time, any number of    *)
(* times.  The local clock does not go back.  Both services keep a nonce   *)
(* for exactly twice the skew.                                             *)
(*                                                                         *)
(* The table is a Map, which keeps its entries in insertion order; with one *)
(* lifetime for all, the oldest is one with the least expiry.              *)
(***************************************************************************)
EXTENDS Integers, FiniteSets

CONSTANTS
    Nonces,        \* correlationId:nonce of every message of the connection
    MaxClockSkew,  \* maxClockSkewMs, in units of the model's clock
    NonceTtl,      \* nonceTtlMs
    MaxEntries,
    MaxTime        \* the clock stops here

ASSUME OptionsAssumption ==
    /\ MaxClockSkew \in Nat /\ NonceTtl \in Nat
    /\ MaxEntries \in Nat \ {0} /\ MaxTime \in Nat

VARIABLES
    now,
    timestamp,  \* of each message
    expiresAt,  \* seenNonces: for each nonce in the table
    accepted,   \* how often each message went through
    first,      \* when it first did
    evicted     \* nonces dropped from a full table before they expired

guardVars == <<now, timestamp, expiresAt, accepted, first, evicted>>

Restricted(f, S) == [n \in S |-> f[n]]

GuardInit ==
    /\ now = 1
    /\ timestamp \in [Nonces -> 0..MaxTime]
    /\ expiresAt = [n \in {} |-> 0]
    /\ accepted = [n \in Nonces |-> 0] /\ first = accepted
    /\ evicted = {}

\* purge: what stays in the table.
Fresh == {n \in DOMAIN expiresAt : expiresAt[n] > now}

\* Room for one more: the nonce a full table gives up, if it is full.
NoEviction == {{}}                                           \* faulty: the table grows
Evictions ==
    IF Cardinality(Fresh) < MaxEntries THEN {{}}
    ELSE {{n} : n \in {m \in Fresh : \A k \in Fresh : expiresAt[m] <= expiresAt[k]}}

InTime(n) ==
    /\ timestamp[n] > 0
    /\ now - timestamp[n] <= MaxClockSkew /\ timestamp[n] - now <= MaxClockSkew

\* When the guard may forget a nonce it accepts now.
ExpiryBySkew(n) == now + MaxClockSkew                        \* faulty: the wrong option
Expiry(n) == now + NonceTtl

\* validate() returns: the message's handler runs.
Accept(n) ==
    \E out \in Evictions :
       LET kept == Fresh \ out
       IN /\ InTime(n) /\ n \notin kept
          /\ expiresAt' = [m \in kept \cup {n} |->
                             IF m = n THEN Expiry(n) ELSE expiresAt[m]]
          /\ accepted' = [accepted EXCEPT ![n] = @ + 1]
          /\ first' = [first EXCEPT ![n] = IF accepted[n] = 0 THEN now ELSE @]
          /\ evicted' = evicted \cup out
          /\ UNCHANGED <<now, timestamp>>

\* validate() throws; the table was purged, and made room, all the same.
Reject(n) ==
    \E out \in Evictions :
       LET kept == Fresh \ out
       IN /\ ~(InTime(n) /\ n \notin kept)
          /\ expiresAt' = Restricted(expiresAt, kept)
          /\ evicted' = evicted \cup out
          /\ UNCHANGED <<now, timestamp, accepted, first>>

Tick ==
    /\ now < MaxTime
    /\ now' = now + 1
    /\ UNCHANGED <<timestamp, expiresAt, accepted, first, evicted>>

GuardNext == Tick \/ \E n \in Nonces : Accept(n) \/ Reject(n)

GuardSpec == GuardInit /\ [][GuardNext]_guardVars

-----------------------------------------------------------------------------
TypeOK ==
    /\ now \in Nat
    /\ timestamp \in [Nonces -> Nat]
    /\ DOMAIN expiresAt \subseteq Nonces
    /\ \A n \in DOMAIN expiresAt : expiresAt[n] \in Nat
    /\ accepted \in [Nonces -> Nat] /\ first \in [Nonces -> Nat]
    /\ evicted \subseteq Nonces

\* What remains possible after a message has gone through: with a lifetime of exactly
\* twice the skew, what was taken at the first instant that its timestamp allows is
\* forgotten at the last one, when it is taken again.
TakenAtBothEdges(n) ==
    /\ first[n] = timestamp[n] - MaxClockSkew
    /\ now >= timestamp[n] + MaxClockSkew

\* The guard lets a message through once, however often and however late it is
\* delivered, but for those edges, and then once more.  A nonce that a full table gave
\* up is the exception.
AcceptedOnce ==
    \A n \in Nonces \ evicted :
        accepted[n] <= 1 \/ (accepted[n] = 2 /\ TakenAtBothEdges(n))

\* A flood of messages does not grow the table past maxEntries, expired entries
\* included.
TableBounded == Cardinality(DOMAIN expiresAt) <= MaxEntries

\* Why AcceptedOnce holds: what was accepted once, and not evicted, is in the table
\* until its lifetime is over; what was accepted twice is there until it is stale.
ReplayInv ==
    /\ AcceptedOnce
    /\ \A n \in Nonces \ evicted :
         /\ accepted[n] = 1 =>
               /\ first[n] >= timestamp[n] - MaxClockSkew
               /\ \/ now >= first[n] + NonceTtl
                  \/ n \in DOMAIN expiresAt /\ expiresAt[n] = first[n] + NonceTtl
         /\ accepted[n] = 2 =>
               \/ now > timestamp[n] + MaxClockSkew
               \/ n \in DOMAIN expiresAt /\ expiresAt[n] > now
=============================================================================
