------------------------------- MODULE AuditLog -------------------------------
(***************************************************************************)
(* AuditLog: a chain of entries kept in memory and, when a directory is    *)
(* configured, appended line by line to a file that the next life of the   *)
(* process loads.                                                          *)
(*                                                                         *)
(* The log is one record, so that a module which uses it says with         *)
(* log' = Recorded(log) that a handler has called record().                *)
(*   entries  what is in memory                                            *)
(*   file     the lines on disk                                            *)
(*   history  the life in which each id was made; ids are random in the    *)
(*            code, here they count                                        *)
(*   toFile   the directory is configured                                  *)
(* An entry is its id, the id before it and the chain key of its MAC; a    *)
(* MAC verifies under the key that made it.                                *)
(***************************************************************************)
EXTENDS Naturals, Sequences

CONSTANTS
    LogsToFile,     \* NOMAD_AUDIT_LOG_DIR is set: the choices
    KeepsChainKey   \* NOMAD_AUDIT_CHAIN_KEY is set

ASSUME AuditConfigAssumption == LogsToFile \subseteq BOOLEAN /\ KeepsChainKey \in BOOLEAN

VARIABLES log, life

Genesis == 0
EmptyLog(toFile) == [entries |-> <<>>, file |-> <<>>, history |-> <<>>, toFile |-> toFile]

\* The key of this life: from the environment, or drawn by the constructor.
ChainKey == IF KeepsChainKey THEN 1 ELSE life

HeadId(entries) == IF entries = <<>> THEN Genesis ELSE entries[Len(entries)].id

\* What record() makes of an event.
ChainedToFirst(l) ==                                         \* faulty: not to the last
    [id |-> Len(l.history) + 1, prev |-> IF l.entries = <<>> THEN Genesis ELSE l.entries[1].id,
     key |-> ChainKey]
NewEntry(l) == [id |-> Len(l.history) + 1, prev |-> HeadId(l.entries), key |-> ChainKey]

\* The entry is in memory before it is written.
Pushed(l) == [l EXCEPT !.entries = Append(@, NewEntry(l)), !.history = Append(@, life)]

\* A line on disk: the entry it parses to, or Unparsable, and whether it has its
\* newline.  What is appended behind a line without one is joined to it.
Unparsable == [id |-> 0, prev |-> 0, key |-> 0]
Line(entry, ended) == [entry |-> entry, ended |-> ended]
EndsInNewline(file) == file = <<>> \/ file[Len(file)].ended
Appended(file, line) ==
    IF EndsInNewline(file) THEN Append(file, line)
    ELSE [file EXCEPT ![Len(file)] = Line(Unparsable, line.ended)]

Recorded(l) ==
    [Pushed(l) EXCEPT !.file = IF l.toFile THEN Appended(@, Line(NewEntry(l), TRUE)) ELSE @]

\* appendFileSync fails, or the machine stops under it: nothing is written, half a
\* line, or all of it but the newline.
Torn(l) ==
    {[Pushed(l) EXCEPT !.file = f] :
        f \in {l.file, Appended(l.file, Line(Unparsable, FALSE)),
               Appended(l.file, Line(NewEntry(l), FALSE))}}
Unrecorded(l) == IF l.toFile THEN Torn(l) ELSE {}

\* loadFromDisk: line by line; those that do not parse are skipped.
Parses(line) == line.entry # Unparsable
LoadedLine(entries, line) == IF Parses(line) THEN Append(entries, line.entry) ELSE entries
Loaded(file) ==
    LET upTo[n \in 0..Len(file)] ==
            IF n = 0 THEN <<>> ELSE LoadedLine(upTo[n - 1], file[n])
    IN upTo[Len(file)]
Reloaded(l) == [l EXCEPT !.entries = IF l.toFile THEN Loaded(l.file) ELSE <<>>]

\* verifyChain().valid
MacsOnly(entries) == \A i \in 1..Len(entries) : entries[i].key = ChainKey
                                                             \* faulty: links not followed
ChainValid(entries) ==
    \A i \in 1..Len(entries) :
        /\ entries[i].key = ChainKey
        /\ entries[i].prev = IF i = 1 THEN Genesis ELSE entries[i - 1].id

-----------------------------------------------------------------------------
\* A chain that verifies has no gap before an entry that survived: whatever its
\* life recorded earlier is there too.  (Only the end of a life can be lost without
\* trace, although loadFromDisk skips lines and says verifyChain sees it.)
GapsSeen ==
    ChainValid(log.entries) =>
        \A i \in 1..Len(log.entries) :
            LET survivor == log.entries[i].id
            IN \A id \in 1..survivor :
                   log.history[id] = log.history[survivor] =>
                       \E j \in 1..i : log.entries[j].id = id
=============================================================================
