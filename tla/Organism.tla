------------------------------- MODULE Organism -------------------------------
(***************************************************************************)
(* SovereignOrganism: eleven organs, a pulse that checks them in the order *)
(* of their dependencies, and the lockdown it enters or lifts.  What the   *)
(* rest of the stack asks is isVital().                                    *)
(*                                                                         *)
(* A pulse is an async function.  Between two organs it yields to the      *)
(* microtasks queued before its continuation, and at the rate limiter's    *)
(* organ it may wait for Redis while the event loop turns: the timer then  *)
(* starts further pulses, which read and write the same statuses.          *)
(*                                                                         *)
(* "vital" stands for the states "vital" and "dormant", which the code     *)
(* treats alike.  The fingerprint a pulse leaves concerns the vaults only. *)
(***************************************************************************)
EXTENDS Integers, Sequences

CONSTANT MaxWaiting   \* pulses that wait for Redis at a time

ASSUME WaitingAssumption == MaxWaiting \in Nat \ {0}

\* organActivationOrder()
Order == << "crypto_core", "supply_spleen", "audit_immune", "tpm_skeletal",
            "hsm_heart", "ca_liver", "console_brain", "rate_limit_nerves",
            "pqc_lungs", "gateway_skin", "vault_marrow" >>
Organs == {"crypto_core", "supply_spleen", "audit_immune", "tpm_skeletal",
           "hsm_heart", "ca_liver", "console_brain", "rate_limit_nerves",
           "pqc_lungs", "gateway_skin", "vault_marrow"}

DependsOn ==
    [crypto_core       |-> {},
     supply_spleen     |-> {"crypto_core"},
     audit_immune      |-> {"crypto_core"},
     tpm_skeletal      |-> {"crypto_core"},
     hsm_heart         |-> {"crypto_core", "tpm_skeletal", "audit_immune"},
     ca_liver          |-> {"crypto_core", "audit_immune", "hsm_heart"},
     console_brain     |-> {"audit_immune", "ca_liver"},
     rate_limit_nerves |-> {"audit_immune"},
     pqc_lungs         |-> {"hsm_heart", "ca_liver", "audit_immune", "crypto_core"},
     gateway_skin      |-> {"console_brain", "pqc_lungs", "audit_immune", "rate_limit_nerves"},
     vault_marrow      |-> {"tpm_skeletal", "hsm_heart", "audit_immune", "crypto_core"}]

\* Organs whose check can find something wrong; the others' always succeed.
Checked == {"crypto_core", "audit_immune", "tpm_skeletal", "hsm_heart", "ca_liver",
            "console_brain", "rate_limit_nerves"}

VARIABLES
    pings,      \* the rate limiter's organ asks Redis
    unset,      \* organs that production requires and the configuration leaves out
    health,     \* would the check of an organ succeed now?
    life,       \* awakening, awake, or ended
    statuses,
    lockdown,   \* lockdownReason # null
    pulseFailed,\* that reason is a pulse's failure, and not its critical organs
    rejected,   \* pulses that have failed and whose catch has yet to run
    ready,      \* pulses that run, in the order of their microtasks
    waiting,    \* pulses that wait for Redis, in the order they asked: their anyCritical
    found       \* organs a pulse has found broken, and that are broken since

bodyVars == <<statuses, lockdown, pulseFailed, rejected>>
pulseVars == <<ready, waiting>>
vars == <<pings, unset, health, life, bodyVars, pulseVars, found>>

\* at: the organ it is at; result: of the check it has awaited, if any.
Pulse(at, anyCritical, result) == [at |-> at, anyCritical |-> anyCritical, result |-> result]
NoResult == "none"
RedisAt == 8   \* where Order has rate_limit_nerves

Init ==
    /\ unset \in SUBSET {"hsm_heart", "rate_limit_nerves"}
    /\ pings \in (IF "rate_limit_nerves" \in unset THEN {FALSE} ELSE BOOLEAN)
    /\ health \in [Checked -> BOOLEAN]
    /\ \A o \in unset : ~health[o]
    /\ life = "awakening"
    /\ statuses = [o \in Organs |-> "pending"]
    /\ lockdown = FALSE /\ pulseFailed = FALSE
    /\ rejected = 0
    /\ ready = << Pulse(1, FALSE, NoResult) >>   \* awaken() begins with a pulse
    /\ waiting = <<>>
    /\ found = {}

Fit(o) == statuses[o] = "vital"

VitalByReason == ~lockdown                                   \* faulty: statuses not asked
\* isVital()
IsVital == ~lockdown /\ \A o \in Organs : Fit(o)

-----------------------------------------------------------------------------
(***************************************************************************)
(* The pulse at the head of the microtask queue                            *)
(***************************************************************************)
Current == Head(ready)
Running == life # "ended" /\ ready # <<>>
IsAt(o) == Running /\ Current.at <= Len(Order) /\ o = Order[Current.at]
Arrives(o) == IsAt(o) /\ Current.result = NoResult

\* The pulse keeps the turn and goes on to the next organ.
GoOn(anyCritical) ==
    ready' = <<Pulse(Current.at + 1, anyCritical, NoResult)>> \o Tail(ready)

AnyDependencies(o) == TRUE                                   \* faulty: not asked
DependenciesSatisfied(o) == \A d \in DependsOn[o] : Fit(d)

\* A failed check throws, or returns the state "critical".
Returning == unset \cup {"console_brain"}
Finding(o) ==
    IF o \notin Checked \/ health[o] THEN "vital"
    ELSE IF o \in Returning THEN "critical" ELSE "throws"
Finds(o) == found' = IF Finding(o) = "vital" THEN found ELSE found \cup {o}

SkipOrgan(o) ==
    /\ Arrives(o) /\ ~DependenciesSatisfied(o)
    /\ statuses' = [statuses EXCEPT ![o] = "critical"]
    /\ GoOn(TRUE)
    /\ UNCHANGED <<pings, unset, health, life, lockdown, pulseFailed, rejected, waiting, found>>

\* checkOrgan runs, and the pulse yields.
CheckOrgan(o) ==
    /\ Arrives(o) /\ DependenciesSatisfied(o)
    /\ ~(pings /\ o = "rate_limit_nerves")
    /\ Finds(o)
    /\ ready' = Append(Tail(ready), Pulse(Current.at, Current.anyCritical, Finding(o)))
    /\ UNCHANGED <<pings, unset, health, life, bodyVars, waiting>>

\* checkOrgan awaits Redis.
AskRedis(o) ==
    /\ Arrives(o) /\ DependenciesSatisfied(o)
    /\ pings /\ o = "rate_limit_nerves"
    /\ waiting' = Append(waiting, Current.anyCritical)
    /\ ready' = Tail(ready)
    /\ UNCHANGED <<pings, unset, health, life, bodyVars, found>>

\* A returned "critical" is written like any state; only a throw sets anyCritical.
WriteOrgan(o) ==
    /\ IsAt(o) /\ Current.result # NoResult
    /\ statuses' = [statuses EXCEPT ![o] =
                      IF Current.result = "vital" THEN "vital" ELSE "critical"]
    /\ GoOn(Current.anyCritical \/ Current.result = "throws")
    /\ UNCHANGED <<pings, unset, health, life, lockdown, pulseFailed, rejected, waiting, found>>

\* All organs seen: lockdown, or its end.
StaysLocked == lockdown \/ Current.anyCritical               \* faulty: never lifted
LockdownAfter == Current.anyCritical

PulseEnds ==
    /\ Running /\ Current.result = NoResult /\ Current.at > Len(Order)
    /\ lockdown' = LockdownAfter /\ pulseFailed' = FALSE
    /\ ready' = Tail(ready)
    /\ UNCHANGED <<pings, unset, health, statuses, waiting, found>>

\* The pulse is on record.  awaken() wants a vital organism.
EndPulse ==
    /\ PulseEnds
    /\ life' = IF life = "awakening" /\ ~IsVital' THEN "ended" ELSE "awake"
    /\ UNCHANGED rejected

\* The audit log cannot be written: the pulse rejects, and so does awaken().
EndPulseUnrecorded ==
    /\ PulseEnds
    /\ life' = IF life = "awakening" THEN "ended" ELSE life
    /\ rejected' = IF life = "awakening" THEN rejected ELSE rejected + 1

\* The timer's catch enters lockdown and records that too.  It may be possible
\* again; if it is not, nobody handles the second rejection.
PulseFails ==
    /\ life # "ended" /\ rejected > 0
    /\ lockdown' = TRUE /\ pulseFailed' = TRUE
    /\ rejected' = rejected - 1
    /\ life' \in {life, "ended"}
    /\ UNCHANGED <<pings, unset, health, statuses, pulseVars, found>>

-----------------------------------------------------------------------------
(***************************************************************************)
(* The event loop, once its microtasks are done                            *)
(***************************************************************************)
Turn == life # "ended" /\ ready = <<>> /\ rejected = 0

PulseTimer ==
    /\ Turn /\ life = "awake" /\ Len(waiting) < MaxWaiting
    /\ ready' = << Pulse(1, FALSE, NoResult) >>
    /\ UNCHANGED <<pings, unset, health, life, bodyVars, waiting, found>>

\* Redis answers the first n pings in one read, or the connection fails and takes
\* them with it; redisPing turns a rejection into FALSE.
PingReplies(n) ==
    /\ Turn /\ n <= Len(waiting)
    /\ ready' = [k \in 1..n |-> Pulse(RedisAt, waiting[k], Finding("rate_limit_nerves"))]
    /\ waiting' = SubSeq(waiting, n + 1, Len(waiting))
    /\ Finds("rate_limit_nerves")
    /\ UNCHANGED <<pings, unset, health, life, bodyVars>>

\* An organ fails.  The HSM, once connected, is never asked again.
Breaks(o) ==
    /\ Turn /\ health[o] /\ o # "hsm_heart"
    /\ o = "rate_limit_nerves" => pings
    /\ health' = [health EXCEPT ![o] = FALSE]
    /\ UNCHANGED <<pings, unset, life, bodyVars, pulseVars, found>>

\* It is put right from outside; a broken chain in memory is not.
Recovers(o) ==
    /\ Turn /\ ~health[o]
    /\ o \notin unset \cup {"hsm_heart", "audit_immune", "ca_liver"}
    /\ health' = [health EXCEPT ![o] = TRUE]
    /\ found' = found \ {o}
    /\ UNCHANGED <<pings, unset, life, bodyVars, pulseVars>>

Microtask ==
    \/ EndPulse \/ EndPulseUnrecorded \/ PulseFails
    \/ \E o \in Organs : SkipOrgan(o) \/ CheckOrgan(o) \/ AskRedis(o) \/ WriteOrgan(o)

Next ==
    \/ Microtask \/ PulseTimer
    \/ \E n \in 1..MaxWaiting : PingReplies(n)
    \/ \E o \in Checked : Breaks(o) \/ Recovers(o)

\* Microtasks run to their end and the interval keeps firing.  Redis owes nothing.
Spec == Init /\ [][Next]_vars /\ WF_vars(Microtask) /\ WF_vars(PulseTimer)

-----------------------------------------------------------------------------
(***************************************************************************)
(* Properties                                                              *)
(***************************************************************************)
TypeOK ==
    /\ pings \in BOOLEAN /\ lockdown \in BOOLEAN /\ pulseFailed \in BOOLEAN
    /\ rejected \in Nat
    /\ unset \subseteq {"hsm_heart", "rate_limit_nerves"}
    /\ health \in [Checked -> BOOLEAN]
    /\ life \in {"awakening", "awake", "ended"}
    /\ statuses \in [Organs -> {"pending", "vital", "critical"}]
    /\ ready \in Seq([at : 1..(Len(Order) + 1), anyCritical : BOOLEAN,
                      result : {NoResult, "vital", "critical", "throws"}])
    /\ waiting \in Seq(BOOLEAN)
    /\ found \subseteq Checked

\* Lockdown is lifted only over a body that is wholly vital, whatever a pulse that
\* waited for Redis has missed: every organ checked before that wait has a dependent
\* that is checked after it.
ReleasedWhole == [][lockdown /\ ~lockdown' => \A o \in Organs : statuses'[o] = "vital"]_vars

\* With no pulse under way, lockdown is on whenever an organ is critical, also when
\* a check has returned "critical" and not thrown; and it is on without one only after
\* a pulse that could not be recorded, until the next pulse ends.
LockdownMatchesOrgans ==
    life = "awake" /\ ready = <<>> /\ waiting = <<>> =>
        LET critical == \E o \in Organs : statuses[o] = "critical"
        IN (critical => lockdown) /\ (lockdown => critical \/ pulseFailed)

\* An organ found broken, and not put right since, keeps the body from being
\* trusted, although an older pulse may end without having seen it.
BrokenNotTrusted == ready = <<>> /\ found # {} => ~IsVital

\* A body whose organs stay healthy, whose pulses can be recorded and whose pings
\* are answered, becomes vital again and stays so.
RecoversWhenHealthy ==
    <>[](life = "awake" /\ rejected = 0 /\ \A o \in Checked : health[o])
    /\ []<>(waiting = <<>>)
        => <>[]IsVital
=============================================================================
