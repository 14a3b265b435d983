----------------------------- MODULE CipherStack -----------------------------
(***************************************************************************)
(* ImperialCipherStack as RecordLayer.seal and open use it: the sender     *)
(* enciphers a record, the receiver deciphers it with the keys it derives  *)
(* for itself from the channel's key, the sequence and the timestamp that  *)
(* came with the message.                                                  *)
(*                                                                         *)
(* HKDF and HMAC give both ends the same material, of any value; it is     *)
(* chosen with the record.  The AES layer below is a channel that does not *)
(* change what it carries (PQCChannel has what it may do to a record).     *)
(***************************************************************************)
EXTENDS Ciphers

CONSTANTS
    Plaintexts, Subjects,
    Materials,    \* what may be derived for a record
    Noise         \* bytes of the padding

KeyNames == {"cartouche", "hieroglyph", "augustan", "seal", "torch", "veil"}
NonEmpty(bytes) == bytes \in Seq(Byte) /\ bytes # <<>>

ASSUME StackAssumption ==
    /\ Noise \subseteq Byte /\ TcapAnchor \in Nat /\ MaxHeader \in Nat
    /\ \A plain \in Plaintexts : plain \in Seq(Byte)
    /\ \A subject \in Subjects : subject \in Seq(Byte)
    /\ \A m \in Materials :
          /\ \A name \in KeyNames : NonEmpty(m.key[name])
          /\ NonEmpty(m.mutable) /\ NonEmpty(m.tail)   \* seeds of the orders
          /\ m.columns \in Nat /\ m.prefix \in Nat /\ m.suffix \in Nat
          /\ FitsIn(m.prefix, 2) /\ FitsIn(m.suffix, 2)
          /\ m.fingerprint \in Seq(Byte)

VARIABLES
    step,      \* "plain", "sent", "opened"
    config,    \* ImperialCipherConfig
    material,  \* what the ends derive
    plaintext, wire, opened

stackVars == <<step, config, material, plaintext, wire, opened>>

Configs == [enabled : BOOLEAN, occultVeilEnabled : BOOLEAN, chaosModeEnabled : BOOLEAN,
            subject : Subjects]
StackInit ==
    /\ step = "plain"
    /\ config \in Configs /\ material \in Materials /\ plaintext \in Plaintexts
    /\ wire = <<>> /\ opened = <<>>

-----------------------------------------------------------------------------
MUTABLE_LAYERS == <<"hieroglyph", "augustan", "scytale">>
MutableOrder(c, m) ==
    IF c.chaosModeEnabled THEN deriveShuffledOrder(MUTABLE_LAYERS, m.mutable)
    ELSE MUTABLE_LAYERS
TailLayers(c) == IF c.occultVeilEnabled THEN <<"torch", "veil">> ELSE <<"torch">>
TailOrder(c, m) ==
    IF c.chaosModeEnabled THEN deriveShuffledOrder(TailLayers(c), m.tail) ELSE TailLayers(c)

Do(m, layer, body) ==
    CASE layer = "hieroglyph" ->
            hieroglyphEncipher(body, buildHieroglyphSbox(m.key["hieroglyph"]))
      [] layer = "augustan" -> augustanEncipher(body, m.key["augustan"])
      [] layer = "scytale" -> scytaleEncipher(body, m.columns)
      [] layer = "torch" -> torchMask(body, m.key["torch"])
      [] layer = "veil" -> occultVeilTransform(body, m.key["veil"])
Undo(m, layer, body) ==
    CASE layer = "hieroglyph" ->
            hieroglyphDecipher(body, buildHieroglyphSbox(m.key["hieroglyph"]))
      [] layer = "augustan" -> augustanDecipher(body, m.key["augustan"])
      [] layer = "scytale" -> scytaleDecipher(body, m.columns)
      [] layer \in {"torch", "veil"} -> Do(m, layer, body)

\* A buffer of its own: every byte of it computed.
Buffer(f) == <<>> \o f

DoAll(m, order, body) ==
    LET done[i \in 0..Len(order)] ==
            IF i = 0 THEN body ELSE Buffer(Do(m, order[i], done[i - 1]))
    IN done[Len(order)]
UndoInOrder(m, order, body) ==                                  \* faulty: not reversed
    LET undone[i \in 0..Len(order)] ==
            IF i = 0 THEN body
            ELSE IF undone[i - 1] = Rejected THEN Rejected
            ELSE Buffer(Undo(m, order[i], undone[i - 1]))
    IN undone[Len(order)]
UndoAll(m, order, body) ==
    LET n == Len(order)
        undone[i \in 0..n] ==
            IF i = 0 THEN body
            ELSE IF undone[i - 1] = Rejected THEN Rejected
            ELSE Buffer(Undo(m, order[n + 1 - i], undone[i - 1]))
    IN undone[n]

HeaderLength(c) == Len(c.subject) + 1

encipher(c, m, plain, prefix, suffix) ==
    LET wrapped == wrapCartouche(plain, c.subject, m.key["cartouche"])
        sealed == applyPersianSeal(DoAll(m, MutableOrder(c, m), wrapped), m.key["seal"])
        masked == DoAll(m, TailOrder(c, m), sealed)
    IN IF ~c.enabled THEN plain
       ELSE IF ~c.chaosModeEnabled THEN masked
       ELSE applyChaoticPadding(m.fingerprint \o masked, prefix, suffix)

\* The fingerprint in front of the body, if it is the right one.
Fingerprinted(m, body) ==
    LET n == Len(m.fingerprint)
    IN IF body = Rejected \/ First(body, n) # m.fingerprint THEN Rejected
       ELSE After(body, n)
decipher(c, m, ciphertext) ==
    LET masked == IF c.chaosModeEnabled
                  THEN Fingerprinted(m, stripChaoticPadding(ciphertext, m.prefix, m.suffix))
                  ELSE ciphertext
        sealed == UndoAll(m, TailOrder(c, m), masked)
        body == IF sealed = Rejected THEN Rejected
                ELSE verifyPersianSeal(sealed, m.key["seal"])
        wrapped == UndoAll(m, MutableOrder(c, m), body)
    IN IF ~c.enabled THEN ciphertext
       ELSE IF wrapped = Rejected THEN Rejected
       ELSE unwrapCartouche(wrapped, m.key["cartouche"])

\* seal: a header whose length does not fit its two bytes throws, as does a record that
\* does not fit the scytale's four, and nothing is sent.
Seal ==
    /\ step = "plain"
    /\ config.enabled =>
          FitsIn(HeaderLength(config), 2) /\ FitsIn(2 + HeaderLength(config) + Len(plaintext), 4)
    /\ \E noise \in Noise :
          wire' = encipher(config, material, plaintext,
                           [i \in 1..material.prefix |-> noise],
                           [i \in 1..material.suffix |-> noise])
    /\ step' = "sent"
    /\ UNCHANGED <<config, material, plaintext, opened>>

Open ==
    /\ step = "sent"
    /\ opened' = decipher(config, material, wire)
    /\ step' = "opened"
    /\ UNCHANGED <<config, material, plaintext, wire>>

StackNext == Seal \/ Open
StackSpec == StackInit /\ [][StackNext]_stackVars

-----------------------------------------------------------------------------
\* What is opened is what was sealed, for every configuration, order of the layers,
\* key, rod, padding and length of the record.  The exception is a subject whose header
\* the sender still writes and no receiver takes: then nothing is ever opened.
RoundTrip ==
    step = "opened" =>
        opened = IF config.enabled /\ HeaderLength(config) > MaxHeader THEN Rejected ELSE plaintext
=============================================================================
