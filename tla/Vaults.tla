------------------------------- MODULE Vaults -------------------------------
(***************************************************************************)
(* FileVault and DbVault over the audit log and the organism's fingerprint.*)
(*                                                                         *)
(* Everything sealed is bound to its owner (a file) or to its table,       *)
(* column and tenant (a field), to the vault's master key, and to the      *)
(* fingerprint the organism has at that moment, a hash of the audit log's  *)
(* head and the pulse's number.  Each pulse replaces the fingerprint at    *)
(* its end, and may lock the vaults; store() waits for the virus scan      *)
(* meanwhile.                                                              *)
(*                                                                         *)
(* A name is the sequence of its parts between colons, so that names       *)
(* joined with colons, as the vaults join them, are concatenated.          *)
(*                                                                         *)
(* The process crashes and starts again over the same files.  Organism     *)
(* details the pulse: here it begins, and ends with or without finding     *)
(* the body healthy.  The TPM, HSM and CT parts of the fingerprint are     *)
(* left out, which can only make more of them equal.                       *)
(***************************************************************************)
EXTENDS AuditLog, FiniteSets

CONSTANTS
    Owners,         \* principals, who are the tenants of the fields too
    Fields,         \* tables and columns
    KeepsVaultKey,  \* the vaults' key files are configured
    MaxRecords, MaxSealed, MaxPulsing, MaxDamage, MaxLives

ASSUME NamesAssumption ==
    /\ Owners \subseteq Seq(STRING)
    /\ Fields \subseteq Seq(STRING) \X Seq(STRING)

ASSUME VaultAssumption ==
    /\ KeepsVaultKey \in BOOLEAN
    /\ MaxRecords \in Nat /\ MaxSealed \in Nat /\ MaxPulsing \in Nat \ {0}
    /\ MaxDamage \in Nat /\ MaxLives \in Nat

VARIABLES
    phase,        \* down, awakening, or awake
    vital,        \* organism.isVital()
    generation,   \* pulseGeneration
    pulsing,      \* pulses begun and not ended
    fingerprint,
    scanning,     \* owners whose store() awaits the scan
    sealed,       \* objects on disk, and fields in their callers' database
    acked,        \* those whose caller was told
    opened,       \* what was opened: the sealed thing, the reader, the pulse
    pulses,       \* pulses ended so far, in all lives
    damage        \* appends that failed or were cut short

bodyVars == <<phase, vital, generation, pulsing, fingerprint, pulses>>
vaultVars == <<scanning, sealed, acked, opened>>
vars == <<log, life, bodyVars, vaultVars, damage>>

NoFingerprint == [head |-> 0, generation |-> 0]

Init ==
    /\ log \in {EmptyLog(toFile) : toFile \in LogsToFile} /\ life = 0
    /\ phase = "down" /\ vital = FALSE /\ generation = 0 /\ pulsing = 0
    /\ fingerprint = NoFingerprint /\ pulses = 0
    /\ scanning = {} /\ sealed = {} /\ acked = {} /\ opened = {}
    /\ damage = 0

\* Bounds on what is recorded and on what fails.
Room(n) == Len(log.history) + n <= MaxRecords
MayFail == log.toFile /\ damage < MaxDamage

Records == Room(1) /\ log' = Recorded(log) /\ UNCHANGED damage
RecordThrows == Room(1) /\ MayFail /\ log' \in Unrecorded(log) /\ damage' = damage + 1

-----------------------------------------------------------------------------
(***************************************************************************)
(* The process and its pulse                                               *)
(***************************************************************************)

\* The constructors run, and awaken() begins the first pulse.
Start ==
    /\ phase = "down" /\ life < MaxLives
    /\ life' = life + 1
    /\ log' = Reloaded(log)
    /\ phase' = "awakening"
    /\ generation' = 1 /\ pulsing' = 1
    /\ UNCHANGED <<vital, fingerprint, pulses, vaultVars, damage>>

BeginPulse ==
    /\ phase = "awake" /\ pulsing < MaxPulsing
    /\ generation' = generation + 1 /\ pulsing' = pulsing + 1
    /\ UNCHANGED <<log, life, phase, vital, fingerprint, pulses, vaultVars, damage>>

\* computeFingerprint, from the log as it is before the pulse is recorded.
ComputedFingerprint == [head |-> HeadId(log.entries), generation |-> generation]

\* All of a pulse's end that comes before it is recorded.
PulseSeen ==
    /\ phase # "down" /\ pulsing > 0
    /\ pulses' = pulses + 1
    /\ fingerprint' = ComputedFingerprint
    /\ UNCHANGED <<life, generation, sealed, acked, opened>>

LivesOn == phase' = "awake" /\ pulsing' = pulsing - 1 /\ UNCHANGED scanning
Ends == phase' = "down" /\ vital' = FALSE /\ pulsing' = 0 /\ scanning' = {}

EndPulseVital ==
    /\ PulseSeen
    /\ ChainValid(log.entries)
    /\ Records
    /\ vital' = TRUE /\ LivesOn

\* enterLockdown records the lockdown, then the pulse is recorded.  A body that
\* was to awaken does not.
EndPulseLocked ==
    /\ PulseSeen
    /\ Room(2) /\ log' = Recorded(Recorded(log)) /\ UNCHANGED damage
    /\ IF phase = "awakening" THEN Ends ELSE vital' = FALSE /\ LivesOn

\* One of these records throws.  The interval's catch enters lockdown and records
\* that: if this throws too nobody handles it, and the process ends.
EndPulseUnrecorded ==
    /\ PulseSeen
    /\ Room(3) /\ MayFail /\ damage' = damage + 1
    /\ \E failed \in Unrecorded(log) \cup Unrecorded(Recorded(log)) :
         \/ phase = "awakening" /\ Ends /\ log' = failed
         \/ phase = "awake" /\ vital' = FALSE /\ LivesOn /\ log' = Recorded(failed)
         \/ phase = "awake" /\ Ends /\ log' \in Unrecorded(failed)

\* The process or the machine stops, perhaps in the middle of an append.
Crash ==
    /\ phase # "down" /\ Ends
    /\ UNCHANGED <<log, damage>> \/ RecordThrows
    /\ UNCHANGED <<life, generation, fingerprint, pulses, sealed, acked, opened>>

-----------------------------------------------------------------------------
(***************************************************************************)
(* The vaults                                                              *)
(***************************************************************************)
MasterKey == IF KeepsVaultKey THEN 1 ELSE life

\* scope: whom, or what of whom, a thing is sealed for; its names joined, behind the
\* object's id if it is a file, go into the AAD.  pulse and record are history: the
\* pulse that stood, and the id of the record that follows.
Joined(scope) == IF Len(scope) = 1 THEN scope[1] ELSE scope[1] \o scope[2] \o scope[3]

SealedAfresh(kind, scope) ==                                 \* faulty: not the pulse's
    [id |-> Cardinality(sealed) + 1, kind |-> kind, scope |-> scope, aad |-> Joined(scope),
     key |-> MasterKey, binding |-> ComputedFingerprint,
     pulse |-> pulses, record |-> Len(log.history) + 1]
Sealed(kind, scope) ==
    [id |-> Cardinality(sealed) + 1, kind |-> kind, scope |-> scope, aad |-> Joined(scope),
     key |-> MasterKey, binding |-> fingerprint,
     pulse |-> pulses, record |-> Len(log.history) + 1]

OpensAnyPulse(s, scope) == s.key = MasterKey /\ s.aad = Joined(scope)
                                                             \* faulty: binding left out
Opens(s, scope) == s.key = MasterKey /\ s.aad = Joined(scope) /\ s.binding = fingerprint

\* History: it was sealed in this life, or the log that this life has loaded shows
\* something recorded since.
LeftTrace(s) ==
    \E i \in 1..Len(log.entries) :
        LET id == log.entries[i].id
        IN id >= s.record /\ (log.history[s.record] = life \/ log.history[id] < life)
Opening(s, scope) ==
    [id |-> s.id, scope |-> scope, pulse |-> pulses,
     traced |-> s.id \in acked /\ LeftTrace(s)]

Guarded == phase = "awake" /\ vital   \* requireVital

\* store(), up to the scan.
BeginStore(owner) ==
    /\ Guarded /\ owner \notin scanning
    /\ Cardinality(sealed) + Cardinality(scanning) < MaxSealed
    /\ scanning' = scanning \cup {owner}
    /\ UNCHANGED <<log, life, bodyVars, sealed, acked, opened, damage>>

ScanEnds(owner) ==
    /\ phase = "awake" /\ owner \in scanning
    /\ scanning' = scanning \ {owner}
    /\ UNCHANGED <<life, bodyVars, opened>>

ScanRejects(owner) ==
    /\ ScanEnds(owner)
    /\ Records \/ RecordThrows
    /\ UNCHANGED <<sealed, acked>>

\* The object is written before it is recorded: when the record throws, it stays
\* and its caller is told of an error.  When the write throws, nothing stays that
\* would parse.
Store(owner) ==
    /\ ScanEnds(owner)
    /\ LET object == Sealed("file", <<owner>>)
       IN /\ sealed' = sealed \cup {object}
          /\ \/ Records /\ acked' = acked \cup {object.id}
             \/ RecordThrows /\ UNCHANGED acked

StoreUnwritten(owner) ==
    /\ ScanEnds(owner)
    /\ UNCHANGED <<log, sealed, acked, damage>>

\* The crash falls between the object and its record.
CrashAfterWrite(owner) ==
    /\ phase = "awake" /\ owner \in scanning
    /\ Ends
    /\ sealed' = sealed \cup {Sealed("file", <<owner>>)}
    /\ UNCHANGED <<log, damage>> \/ RecordThrows
    /\ UNCHANGED <<life, generation, fingerprint, pulses, acked, opened>>

\* retrieve(): the plaintext is the caller's only once it has been recorded.
Retrieve(s, reader) ==
    /\ Guarded /\ s.kind = "file" /\ s.scope = <<reader>> /\ Opens(s, <<reader>>)
    /\ \/ Records /\ opened' = opened \cup {Opening(s, <<reader>>)}
       \/ RecordThrows /\ UNCHANGED opened
    /\ UNCHANGED <<life, bodyVars, scanning, sealed, acked>>

RetrieveDenied(s, reader) ==
    /\ Guarded /\ s.kind = "file" /\ s.scope # <<reader>>
    /\ Records \/ RecordThrows
    /\ UNCHANGED <<life, bodyVars, vaultVars>>

EncryptField(field, tenant) ==
    /\ Guarded
    /\ Cardinality(sealed) + Cardinality(scanning) < MaxSealed
    /\ LET value == Sealed("field", <<field[1], field[2], tenant>>)
       IN \/ /\ Records
             /\ sealed' = sealed \cup {value} /\ acked' = acked \cup {value.id}
          \/ RecordThrows /\ UNCHANGED <<sealed, acked>>
    /\ UNCHANGED <<life, bodyVars, scanning, opened>>

DecryptField(s, field, tenant) ==
    LET scope == <<field[1], field[2], tenant>> IN
    /\ Guarded /\ s.kind = "field" /\ Opens(s, scope)
    /\ \/ Records /\ opened' = opened \cup {Opening(s, scope)}
       \/ RecordThrows /\ UNCHANGED opened
    /\ UNCHANGED <<life, bodyVars, scanning, sealed, acked>>

\* auditQuery(), and whatever else in the process records an event.
AuditQuery ==
    /\ phase = "awake"
    /\ Records \/ RecordThrows
    /\ UNCHANGED <<life, bodyVars, vaultVars>>

-----------------------------------------------------------------------------
Next ==
    \/ Start \/ BeginPulse
    \/ EndPulseVital \/ EndPulseLocked \/ EndPulseUnrecorded
    \/ Crash \/ AuditQuery
    \/ \E o \in Owners :
         \/ BeginStore(o) \/ ScanRejects(o) \/ Store(o) \/ StoreUnwritten(o)
         \/ CrashAfterWrite(o)
         \/ \E s \in sealed : Retrieve(s, o) \/ RetrieveDenied(s, o)
         \/ \E f \in Fields :
              EncryptField(f, o) \/ \E s \in sealed : DecryptField(s, f, o)

Spec == Init /\ [][Next]_vars

-----------------------------------------------------------------------------
(***************************************************************************)
(* Properties                                                              *)
(***************************************************************************)
\* What opens was sealed for that reader, unless it is a field of a table or a tenant
\* with another number of colons in its name: the vault does not escape them.  And it
\* was sealed, once its caller was told that it is stored, under the pulse that stands
\* now ("data sealed under one pulse cannot be read under another"), unless all that
\* its life recorded from its own record on is lost.  The first pulses of two lives
\* then share a fingerprint: with the log in memory that is every life, with a file it
\* takes two lines cut short, one that the first pulse's record is joined to and one
\* for the stored object's.
AlikeInColons(a, b) ==
    /\ Len(a) = Len(b)
    /\ Len(a[1]) = Len(b[1]) /\ Len(a[Len(a)]) = Len(b[Len(b)])
OpensInItsPulse ==
    \A o \in opened : \A s \in sealed : s.id = o.id =>
        /\ s.kind = "file" \/ AlikeInColons(o.scope, s.scope) => o.scope = s.scope
        /\ o.traced => o.pulse = s.pulse

\* What its caller was told is stored opens for that caller at least until the
\* next pulse ends, also when pulses end during the scan.
AckedOpens ==
    \A s \in sealed :
        s.id \in acked /\ s.pulse = pulses /\ phase = "awake" => Opens(s, s.scope)

\* A process whose appends never failed comes back over its own log, to the entry.
CleanLogReloads ==
    damage = 0 /\ log.toFile /\ phase # "down" =>
        /\ Loaded(log.file) = log.entries
        /\ KeepsChainKey => ChainValid(log.entries)
=============================================================================
