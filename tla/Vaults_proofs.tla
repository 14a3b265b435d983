----------------------------- MODULE Vaults_proofs -----------------------------
(***************************************************************************)
(* What the audit log and the vaults promise, for every number of owners,  *)
(* records, pulses under way, torn appends, crashes and lives, with or     *)
(* without a log file and key files.                                       *)
(*                                                                         *)
(* The log: in memory and on disk is what was made, in the order in which  *)
(* it was made (LogIs).  From this a chain that verifies shows every gap   *)
(* before an entry that survived, and a log no append of which failed is   *)
(* loaded as it was.                                                       *)
(*                                                                         *)
(* The vaults: what was sealed in the pulse that stands carries its        *)
(* fingerprint and, while the process is awake, the key of this life       *)
(* (SealInv), so that what a caller was told is stored opens.  And what    *)
(* opens is of the pulse that stands, since each fingerprint names a head  *)
(* that the log had before it, and these grow (Standing, Recalled).  Two   *)
(* fields whose names join to one text are the same, when their tables and *)
(* their tenants have as many colons (FieldsApart).                        *)
(*                                                                         *)
(* What loadFromDisk makes of a file is proved by induction over its lines,*)
(* through sets of numbers: Induction needs no operator as a parameter.    *)
(***************************************************************************)
EXTENDS Vaults, WellFoundedInduction, SequenceTheorems, FiniteSetTheorems, TLAPS

(***************************************************************************)
(* Induction: a set that holds 0, and with every number the next, holds    *)
(* them all.                                                               *)
(***************************************************************************)
LEMMA LeastNumber ==
    ASSUME NEW T \in SUBSET Nat, T # {}
    PROVE  \E n \in T : \A m \in T : n <= m
<1> DEFINE Below == {p \in Nat \X Nat : p[1] < p[2]}
<1>1. IsWellFoundedOn(Below, Nat)
  BY NatLessThanWellFounded DEF OpToRel
<1>2. PICK n \in T : \A m \in T : ~(<<m, n>> \in Below)
  BY <1>1, WFMin
<1>3. ASSUME NEW m \in T, m < n PROVE FALSE
  <2>1. <<m, n>> \in Nat \X Nat /\ <<m, n>>[1] < <<m, n>>[2]
    BY <1>3
  <2>2. <<m, n>> \in Below
    BY <2>1
  <2> QED  BY <1>2, <2>2
<1> QED
  BY <1>3

LEMMA Induction ==
    ASSUME NEW A, 0 \in A, \A n \in Nat : n \in A => n + 1 \in A
    PROVE  Nat \subseteq A
<1> SUFFICES ASSUME Nat \ A # {} PROVE FALSE
  OBVIOUS
<1>1. PICK n \in Nat \ A : \A m \in Nat \ A : n <= m
  BY LeastNumber
<1>2. n # 0 /\ n - 1 \in Nat /\ n - 1 < n
  BY <1>1
<1>3. n - 1 \in A
  BY <1>1, <1>2
<1>4. (n - 1) + 1 \in A
  BY <1>2, <1>3
<1> QED
  BY <1>1, <1>4

-----------------------------------------------------------------------------
(***************************************************************************)
(* Loading: what Loaded makes of a file, line by line                      *)
(***************************************************************************)
LoadingOf(file, f, m) ==
    f = [n \in 0..m |-> IF n = 0 THEN <<>> ELSE LoadedLine(f[n - 1], file[n])]

LEMMA LoadingExists ==
    ASSUME NEW file, NEW m \in Nat
    PROVE  \E f : LoadingOf(file, f, m)
<1> DEFINE A == {k \in Nat : \E f : LoadingOf(file, f, k)}
<1>1. 0 \in A
  <2>1. LoadingOf(file, [n \in 0..0 |-> <<>>], 0)
    BY DEF LoadingOf
  <2> QED  BY <2>1
<1>2. ASSUME NEW k \in Nat, k \in A PROVE k + 1 \in A
  <2>1. PICK f : LoadingOf(file, f, k)
    BY <1>2
  <2> DEFINE g == [n \in 0..k + 1 |->
                     IF n = k + 1 THEN LoadedLine(f[k], file[k + 1]) ELSE f[n]]
  <2>2. ASSUME NEW n \in 0..k + 1
        PROVE  g[n] = IF n = 0 THEN <<>> ELSE LoadedLine(g[n - 1], file[n])
    <3>1. CASE n = k + 1
      <4>1. n - 1 = k /\ k \in 0..k + 1 /\ k # k + 1 /\ n # 0
        BY <3>1
      <4> QED  BY <3>1, <4>1
    <3>2. CASE n # k + 1
      <4>1. n \in 0..k
        BY <3>2
      <4>2. f[n] = IF n = 0 THEN <<>> ELSE LoadedLine(f[n - 1], file[n])
        BY <2>1, <4>1 DEF LoadingOf
      <4>3. n # 0 => n - 1 \in 0..k + 1 /\ n - 1 # k + 1
        BY <4>1
      <4> QED  BY <3>2, <4>2, <4>3
    <3> QED  BY <3>1, <3>2
  <2>3. g = [n \in 0..k + 1 |-> g[n]]
    OBVIOUS
  <2> HIDE DEF g
  <2>4. LoadingOf(file, g, k + 1)
    BY <2>2, <2>3 DEF LoadingOf
  <2> QED  BY <2>4
<1> HIDE DEF A
<1>3. Nat \subseteq A
  BY <1>1, <1>2, Induction
<1> QED
  BY <1>3 DEF A

LEMMA LoadedIs ==
    ASSUME NEW S, NEW file \in Seq(S)
    PROVE  \E f : LoadingOf(file, f, Len(file)) /\ Loaded(file) = f[Len(file)]
<1> DEFINE f == CHOOSE g : LoadingOf(file, g, Len(file))
<1>1. LoadingOf(file, f, Len(file))
  <2>1. Len(file) \in Nat
    OBVIOUS
  <2> QED  BY <2>1, LoadingExists
<1>2. Loaded(file) = f[Len(file)]
  BY DEF Loaded, LoadingOf
<1> QED
  BY <1>1, <1>2


Entry == [id : Nat, prev : Nat, key : Nat]
Lines == [entry : Entry, ended : BOOLEAN]

\* The ids of lines that parse grow from line to line.
LinesGrow(file) ==
    \A k, m \in 1..Len(file) :
        k < m /\ Parses(file[k]) /\ Parses(file[m]) => file[k].entry.id < file[m].entry.id

EntriesGrow(entries) ==
    \A i, j \in 1..Len(entries) : i < j => entries[i].id < entries[j].id

\* Every entry is one of a line that parses.
Stems(entries, file) ==
    \A i \in 1..Len(entries) :
        \E k \in 1..Len(file) : Parses(file[k]) /\ entries[i] = file[k].entry

LEMMA LoadedProperties ==
    ASSUME NEW file \in Seq(Lines)
    PROVE  /\ Loaded(file) \in Seq(Entry)
           /\ Stems(Loaded(file), file)
           /\ LinesGrow(file) => EntriesGrow(Loaded(file))
<1>1. PICK f : LoadingOf(file, f, Len(file)) /\ Loaded(file) = f[Len(file)]
  BY LoadedIs
<1>2. Len(file) \in Nat
  OBVIOUS
<1> DEFINE Good(n) ==
      /\ f[n] \in Seq(Entry)
      /\ \A i \in 1..Len(f[n]) : \E k \in 1..n : Parses(file[k]) /\ f[n][i] = file[k].entry
      /\ LinesGrow(file) => EntriesGrow(f[n])
    A == {n \in Nat : n <= Len(file) => Good(n)}
<1>3. 0 \in A
  <2>1. f[0] = <<>>
    BY <1>1, <1>2 DEF LoadingOf
  <2>2. f[0] \in Seq(Entry) /\ Len(f[0]) = 0
    BY <2>1
  <2>3. 1..Len(f[0]) = {}
    BY <2>2
  <2> QED  BY <2>2, <2>3 DEF EntriesGrow
<1>4. ASSUME NEW n \in Nat, n \in A PROVE n + 1 \in A
  <2> SUFFICES ASSUME n + 1 <= Len(file) PROVE Good(n + 1)
    OBVIOUS
  <2>1. Good(n)
    BY <1>2, <1>4
  <2>2. f[n + 1] = LoadedLine(f[n], file[n + 1])
    <3>1. n + 1 \in 0..Len(file) /\ n + 1 # 0 /\ (n + 1) - 1 = n
      BY <1>2
    <3> QED  BY <1>1, <3>1 DEF LoadingOf
  <2>3. CASE ~Parses(file[n + 1])
    <3>1. f[n + 1] = f[n]
      BY <2>2, <2>3 DEF LoadedLine
    <3> QED  BY <2>1, <3>1
  <2>4. CASE Parses(file[n + 1])
    <3>1. n + 1 \in 1..Len(file) /\ file[n + 1].entry \in Entry
      <4>1. n + 1 \in 1..Len(file)
        BY <1>2
      <4>2. file[n + 1] \in Lines
        BY <4>1, ElementOfSeq
      <4> QED  BY <4>1, <4>2 DEF Lines
    <3>2. f[n + 1] = Append(f[n], file[n + 1].entry)
      BY <2>2, <2>4 DEF LoadedLine
    <3>3. /\ f[n + 1] \in Seq(Entry) /\ Len(f[n + 1]) = Len(f[n]) + 1
          /\ f[n + 1][Len(f[n]) + 1] = file[n + 1].entry
          /\ \A i \in 1..Len(f[n]) : f[n + 1][i] = f[n][i]
      BY <2>1, <3>1, <3>2
    <3>4. \A i \in 1..Len(f[n + 1]) : i \in 1..Len(f[n]) \/ i = Len(f[n]) + 1
      BY <2>1, <3>3
    <3>5. \A i \in 1..Len(f[n + 1]) :
            \E k \in 1..n + 1 : Parses(file[k]) /\ f[n + 1][i] = file[k].entry
      BY <2>1, <2>4, <3>3, <3>4
    <3>6. ASSUME LinesGrow(file), NEW i \in 1..Len(f[n + 1]), NEW j \in 1..Len(f[n + 1]), i < j
          PROVE  f[n + 1][i].id < f[n + 1][j].id
      <4>1. i \in 1..Len(f[n])
        BY <2>1, <3>3, <3>6
      <4>2. CASE j \in 1..Len(f[n])
        BY <2>1, <3>3, <3>6, <4>1, <4>2 DEF EntriesGrow
      <4>3. CASE j = Len(f[n]) + 1
        <5>1. PICK k \in 1..n : Parses(file[k]) /\ f[n][i] = file[k].entry
          BY <2>1, <4>1
        <5>2. k \in 1..Len(file) /\ k < n + 1
          BY <3>1
        <5> QED  BY <2>4, <3>1, <3>3, <3>6, <4>1, <4>3, <5>1, <5>2 DEF LinesGrow
      <4> QED  BY <3>4, <4>2, <4>3
    <3> QED  BY <3>3, <3>5, <3>6 DEF EntriesGrow
  <2> QED  BY <2>3, <2>4
<1> HIDE DEF A, Good
<1>5. Nat \subseteq A
  BY <1>3, <1>4, Induction
<1>6. Good(Len(file))
  BY <1>2, <1>5 DEF A
<1> QED
  BY <1>1, <1>6 DEF Good, Stems

\* A line more is loaded last.
LEMMA LoadedAppended ==
    ASSUME NEW file \in Seq(Lines), NEW line \in Lines
    PROVE  Loaded(Append(file, line)) = LoadedLine(Loaded(file), line)
<1> DEFINE longer == Append(file, line)
<1>1. /\ longer \in Seq(Lines) /\ Len(file) \in Nat /\ Len(longer) = Len(file) + 1
      /\ longer[Len(file) + 1] = line
      /\ \A n \in 1..Len(file) : longer[n] = file[n]
  OBVIOUS
<1> HIDE DEF longer
<1>2. PICK f : LoadingOf(file, f, Len(file)) /\ Loaded(file) = f[Len(file)]
  BY LoadedIs
<1>3. PICK g : LoadingOf(longer, g, Len(longer)) /\ Loaded(longer) = g[Len(longer)]
  BY <1>1, LoadedIs
<1> DEFINE A == {n \in Nat : n <= Len(file) => g[n] = f[n]}
<1>4. 0 \in A
  BY <1>1, <1>2, <1>3 DEF LoadingOf
<1>5. ASSUME NEW n \in Nat, n \in A PROVE n + 1 \in A
  <2> SUFFICES ASSUME n + 1 <= Len(file) PROVE g[n + 1] = f[n + 1]
    OBVIOUS
  <2>1. /\ n + 1 \in 0..Len(file) /\ n + 1 \in 0..Len(longer) /\ n + 1 # 0
        /\ (n + 1) - 1 = n /\ n + 1 \in 1..Len(file)
    BY <1>1
  <2>2. f[n + 1] = LoadedLine(f[n], file[n + 1])
    BY <1>2, <2>1 DEF LoadingOf
  <2>3. g[n + 1] = LoadedLine(g[n], longer[n + 1])
    BY <1>3, <2>1 DEF LoadingOf
  <2>4. g[n] = f[n]
    BY <1>1, <1>5
  <2> QED  BY <1>1, <2>1, <2>2, <2>3, <2>4
<1> HIDE DEF A
<1>6. Nat \subseteq A
  BY <1>4, <1>5, Induction
<1>7. g[Len(file)] = f[Len(file)]
  BY <1>1, <1>6 DEF A
<1>8. g[Len(longer)] = LoadedLine(g[Len(file)], line)
  <2>1. Len(longer) \in 0..Len(longer) /\ Len(longer) # 0 /\ Len(longer) - 1 = Len(file)
    BY <1>1
  <2> QED  BY <1>1, <1>3, <2>1 DEF LoadingOf
<1> QED
  BY <1>2, <1>3, <1>7, <1>8 DEF longer

LEMMA LoadedEmpty == Loaded(<<>>) = <<>>
<1>1. <<>> \in Seq(Lines) /\ Len(<<>>) = 0
  OBVIOUS
<1>2. PICK f : LoadingOf(<<>>, f, 0) /\ Loaded(<<>>) = f[0]
  BY <1>1, LoadedIs
<1> QED
  BY <1>2 DEF LoadingOf

-----------------------------------------------------------------------------
(***************************************************************************)
(* The log                                                                 *)
(***************************************************************************)
Logs == [entries : Seq(Entry), file : Seq(Lines), history : Seq(Nat), toFile : BOOLEAN]

\* An entry follows the one made before it in its life, if any was.
Made(l, e) ==
    /\ e.id \in 1..Len(l.history)
    /\ e.id > 1 /\ l.history[e.id - 1] = l.history[e.id] => e.prev = e.id - 1

\* In memory and on disk are entries that were made, in the order in which they were;
\* lives follow each other; and whatever this life made is in memory to the last.
LogInv(l, current) ==
    /\ l \in Logs
    /\ \A m, n \in 1..Len(l.history) : m <= n => l.history[m] <= l.history[n]
    /\ \A n \in 1..Len(l.history) : l.history[n] <= current
    /\ \A i \in 1..Len(l.entries) : Made(l, l.entries[i])
    /\ EntriesGrow(l.entries)
    /\ \A k \in 1..Len(l.file) : Parses(l.file[k]) => Made(l, l.file[k].entry)
    /\ LinesGrow(l.file)
    /\ l.history # <<>> /\ l.history[Len(l.history)] = current
          => HeadId(l.entries) = Len(l.history)

\* m is l and what this life has recorded since, at least one entry.
Grown(l, m) ==
    /\ Len(l.history) <= Len(m.history)
    /\ \A n \in 1..Len(l.history) : m.history[n] = l.history[n]
    /\ Len(l.entries) <= Len(m.entries)
    /\ \A i \in 1..Len(l.entries) : m.entries[i] = l.entries[i]
    /\ \A i \in Len(l.entries) + 1..Len(m.entries) : m.history[m.entries[i].id] = life
    /\ HeadId(m.entries) > Len(l.history)

LEMMA HeadOfLog ==
    ASSUME NEW l, NEW current, LogInv(l, current)
    PROVE  /\ HeadId(l.entries) \in 0..Len(l.history)
           /\ \A i \in 1..Len(l.entries) : l.entries[i].id <= HeadId(l.entries)
<1>1. l.entries \in Seq(Entry) /\ l.history \in Seq(Nat)
  BY DEF LogInv, Logs
<1>2. Len(l.history) \in Nat /\ Len(l.entries) \in Nat
  BY <1>1
<1>3. CASE l.entries = <<>>
  BY <1>2, <1>3 DEF HeadId, Genesis
<1>4. CASE l.entries # <<>>
  <2>1. Len(l.entries) \in 1..Len(l.entries) /\ HeadId(l.entries) = l.entries[Len(l.entries)].id
    BY <1>1, <1>4 DEF HeadId
  <2>2. HeadId(l.entries) \in 1..Len(l.history)
    BY <2>1 DEF LogInv, Made
  <2>3. ASSUME NEW i \in 1..Len(l.entries) PROVE l.entries[i].id <= HeadId(l.entries)
    <3>1. CASE i = Len(l.entries)
      BY <2>1, <2>2, <3>1
    <3>2. CASE i # Len(l.entries)
      <4>1. i < Len(l.entries) /\ l.entries[i].id \in 1..Len(l.history)
        BY <1>2, <3>2 DEF LogInv, Made
      <4> QED  BY <1>2, <2>1, <2>2, <4>1 DEF LogInv, EntriesGrow
    <3> QED  BY <3>1, <3>2
  <2> QED  BY <1>2, <2>2, <2>3
<1> QED
  BY <1>3, <1>4

LEMMA NewEntryTyped ==
    ASSUME NEW l, LogInv(l, life), life \in Nat
    PROVE  /\ NewEntry(l) \in Entry
           /\ NewEntry(l).id = Len(l.history) + 1
           /\ NewEntry(l).prev = HeadId(l.entries)
           /\ NewEntry(l) # Unparsable
<1>1. Len(l.history) \in Nat
  BY DEF LogInv, Logs
<1>2. HeadId(l.entries) \in Nat /\ ChainKey \in Nat
  BY <1>1, HeadOfLog DEF ChainKey
<1> QED
  BY <1>1, <1>2 DEF NewEntry, Entry, Unparsable

\* What memory looks like when an entry has been pushed.
LEMMA PushedMemory ==
    ASSUME NEW l, LogInv(l, life), life \in Nat, NEW file \in Seq(Lines),
           NEW m, m = [Pushed(l) EXCEPT !.file = file]
    PROVE  /\ m \in Logs /\ m.file = file
           /\ m.history = Append(l.history, life)
           /\ m.entries = Append(l.entries, NewEntry(l))
<1>1. l \in Logs /\ l.history \in Seq(Nat) /\ l.entries \in Seq(Entry)
  BY DEF LogInv, Logs
<1>2. /\ Append(l.history, life) \in Seq(Nat)
      /\ Append(l.entries, NewEntry(l)) \in Seq(Entry)
  BY <1>1, NewEntryTyped
<1> DEFINE e == Append(l.entries, NewEntry(l))
           h == Append(l.history, life)
<1>3. Pushed(l) = [l EXCEPT !.entries = e, !.history = h]
  BY DEF Pushed
<1> HIDE DEF e, h
<1>4. m = [entries |-> e, file |-> file, history |-> h, toFile |-> l.toFile]
  BY <1>1, <1>3 DEF Logs
<1>5. m.entries = e /\ m.file = file /\ m.history = h
  BY <1>4
<1>6. e \in Seq(Entry) /\ h \in Seq(Nat) /\ file \in Seq(Lines)
  BY <1>2 DEF e, h
<1>7. m \in Logs
  <2>1. [entries |-> e, file |-> file, history |-> h, toFile |-> l.toFile] \in Logs
    BY <1>1, <1>6 DEF Logs
  <2> QED  BY <1>4, <2>1
<1> QED
  BY <1>5, <1>7 DEF e, h

\* A file to which the new entry, or something that does not parse, was appended.
Extended(l, file) ==
    \/ file = l.file
    \/ \E line \in Lines :
          /\ file = Appended(l.file, line)
          /\ line.entry = Unparsable \/ line.entry = NewEntry(l)

LEMMA ExtendedFile ==
    ASSUME NEW l, LogInv(l, life), life \in Nat, NEW file, Extended(l, file)
    PROVE  /\ file \in Seq(Lines)
           /\ LinesGrow(file)
           /\ \A k \in 1..Len(file) : Parses(file[k]) =>
                 \/ file[k].entry = NewEntry(l)
                 \/ \E n \in 1..Len(l.file) : Parses(l.file[n]) /\ file[k].entry = l.file[n].entry
<1>1. l.file \in Seq(Lines) /\ LinesGrow(l.file) /\ Len(l.file) \in Nat
  BY DEF LogInv, Logs
<1>2. CASE file = l.file
  BY <1>1, <1>2
<1>3. ASSUME NEW line \in Lines, file = Appended(l.file, line),
             line.entry = Unparsable \/ line.entry = NewEntry(l)
      PROVE  /\ file \in Seq(Lines)
             /\ LinesGrow(file)
             /\ \A k \in 1..Len(file) : Parses(file[k]) =>
                   \/ file[k].entry = NewEntry(l)
                   \/ \E n \in 1..Len(l.file) :
                        Parses(l.file[n]) /\ file[k].entry = l.file[n].entry
  <2>1. CASE EndsInNewline(l.file)
    <3>1. file = Append(l.file, line)
      BY <1>3, <2>1 DEF Appended
    <3>2. /\ file \in Seq(Lines) /\ Len(file) = Len(l.file) + 1
          /\ file[Len(l.file) + 1] = line
          /\ \A k \in 1..Len(l.file) : file[k] = l.file[k]
      BY <1>1, <3>1
    <3>3. \A k \in 1..Len(file) : k \in 1..Len(l.file) \/ (k = Len(l.file) + 1 /\ file[k] = line)
      BY <1>1, <3>2
    <3>4. \A k \in 1..Len(l.file) : Parses(l.file[k]) =>
             l.file[k].entry.id \in 1..Len(l.history)
      BY DEF LogInv, Made
    <3>5. Parses(line) => line.entry.id = Len(l.history) + 1 /\ Len(l.history) \in Nat
      <4>1. Len(l.history) \in Nat
        BY DEF LogInv, Logs
      <4> QED  BY <1>3, <4>1, NewEntryTyped DEF Parses
    <3>6. ASSUME NEW k \in 1..Len(file), NEW n \in 1..Len(file), k < n,
                 Parses(file[k]), Parses(file[n])
          PROVE  file[k].entry.id < file[n].entry.id
      <4>1. k \in 1..Len(l.file) /\ file[k] = l.file[k]
        BY <1>1, <3>2, <3>6
      <4>2. CASE n \in 1..Len(l.file)
        BY <1>1, <3>2, <3>6, <4>1, <4>2 DEF LinesGrow
      <4>3. CASE n \notin 1..Len(l.file)
        <5>1. file[n] = line /\ Parses(line)
          BY <3>3, <3>6, <4>3
        <5>2. file[k].entry.id \in 1..Len(l.history)
          BY <3>4, <3>6, <4>1
        <5> QED  BY ONLY <3>5, <5>1, <5>2
      <4> QED  BY <4>2, <4>3
    <3>7. LinesGrow(file)
      BY <3>6 DEF LinesGrow
    <3> QED  BY <1>3, <3>2, <3>3, <3>7 DEF Parses
  <2>2. CASE ~EndsInNewline(l.file)
    <3>1. l.file # <<>> /\ Len(l.file) \in 1..Len(l.file)
      BY <1>1, <2>2 DEF EndsInNewline
    <3>2. Line(Unparsable, line.ended) \in Lines
      BY Zenon DEF Line, Lines, Unparsable, Entry
    <3>3. file = [l.file EXCEPT ![Len(l.file)] = Line(Unparsable, line.ended)]
      BY <1>3, <2>2 DEF Appended
    <3>4. /\ file \in Seq(Lines) /\ Len(file) = Len(l.file)
          /\ file[Len(l.file)] = Line(Unparsable, line.ended)
          /\ \A k \in 1..Len(l.file) : k # Len(l.file) => file[k] = l.file[k]
      BY <1>1, <3>1, <3>2, <3>3, ExceptSeq
    <3>5. ~Parses(file[Len(l.file)])
      BY <3>4 DEF Parses, Line
    <3> QED  BY <1>1, <3>4, <3>5 DEF LinesGrow
  <2> QED  BY <2>1, <2>2
<1> QED
  BY <1>2, <1>3 DEF Extended

LEMMA AppendFacts ==
    ASSUME NEW S, NEW q \in Seq(S), NEW x \in S
    PROVE  /\ Len(q) \in Nat /\ Len(Append(q, x)) = Len(q) + 1
           /\ Append(q, x)[Len(q) + 1] = x
           /\ \A j \in 1..Len(q) : Append(q, x)[j] = q[j]
           /\ Append(q, x) # <<>>
OBVIOUS

\* Whatever becomes of the file, an entry pushed keeps the log in order.
LEMMA PushedGrows ==
    ASSUME NEW l, LogInv(l, life), life \in Nat, NEW file, Extended(l, file),
           NEW m, m = [Pushed(l) EXCEPT !.file = file]
    PROVE  LogInv(m, life) /\ Grown(l, m)
<1> DEFINE n == Len(l.history)
           k == Len(l.entries)
           e == NewEntry(l)
<1>1. /\ file \in Seq(Lines) /\ LinesGrow(file)
      /\ \A x \in 1..Len(file) : Parses(file[x]) =>
            \/ file[x].entry = e
            \/ \E y \in 1..Len(l.file) : Parses(l.file[y]) /\ file[x].entry = l.file[y].entry
  BY ExtendedFile
<1>2. /\ m \in Logs /\ m.file = file
      /\ m.history = Append(l.history, life) /\ m.entries = Append(l.entries, e)
  <2>1. file \in Seq(Lines)
    BY <1>1
  <2> QED  BY <2>1, PushedMemory
<1> HIDE DEF n, k, e
<1>3. /\ n \in Nat /\ l.history \in Seq(Nat) /\ Len(m.history) = n + 1
      /\ m.history[n + 1] = life
      /\ \A x \in 1..n : m.history[x] = l.history[x]
      /\ m.history # <<>>
  <2>1. l.history \in Seq(Nat)
    BY DEF LogInv, Logs
  <2> QED  BY <1>2, <2>1, AppendFacts DEF n
<1>4. e \in Entry /\ e.id = n + 1 /\ e.prev = HeadId(l.entries)
  BY NewEntryTyped DEF e, n
<1>5. /\ k \in Nat /\ l.entries \in Seq(Entry) /\ Len(m.entries) = k + 1
      /\ m.entries[k + 1] = e
      /\ \A x \in 1..k : m.entries[x] = l.entries[x]
      /\ m.entries # <<>>
  <2>1. l.entries \in Seq(Entry)
    BY DEF LogInv, Logs
  <2> QED  BY <1>2, <1>4, <2>1, AppendFacts DEF k
<1>6. HeadId(m.entries) = n + 1
  BY <1>4, <1>5 DEF HeadId
<1>7. \A x, y \in 1..Len(m.history) : x <= y => m.history[x] <= m.history[y]
  <2> SUFFICES ASSUME NEW x \in 1..n + 1, NEW y \in 1..n + 1, x <= y
               PROVE  m.history[x] <= m.history[y]
    BY <1>3
  <2>1. CASE y = n + 1
    <3>1. CASE x = n + 1
      BY <1>3, <2>1, <3>1
    <3>2. CASE x # n + 1
      <4>1. x \in 1..n /\ l.history[x] <= life
        BY <1>3, <3>2 DEF LogInv, n
      <4> QED  BY <1>3, <2>1, <4>1
    <3> QED  BY <3>1, <3>2
  <2>2. CASE y # n + 1
    <3>1. x \in 1..n /\ y \in 1..n
      BY <1>3, <2>2
    <3> QED  BY <1>3, <3>1 DEF LogInv, n
  <2> QED  BY <2>1, <2>2
<1>8. \A x \in 1..Len(m.history) : m.history[x] <= life
  <2> SUFFICES ASSUME NEW x \in 1..n + 1 PROVE m.history[x] <= life
    BY <1>3
  <2>1. CASE x = n + 1
    BY <1>3, <2>1
  <2>2. CASE x # n + 1
    <3>1. x \in 1..n /\ l.history[x] <= life
      BY <1>3, <2>2 DEF LogInv, n
    <3> QED  BY <1>3, <3>1
  <2> QED  BY <2>1, <2>2
<1>9. ASSUME NEW old, Made(l, old) PROVE Made(m, old)
  <2>1. old.id \in 1..n
    BY <1>9 DEF Made, n
  <2>2. old.id > 1 => old.id - 1 \in 1..n
    BY <1>3, <2>1
  <2>3. old.id \in 1..Len(m.history)
    BY <1>3, <2>1
  <2>4. ASSUME old.id > 1, m.history[old.id - 1] = m.history[old.id]
        PROVE  old.prev = old.id - 1
    <3>1. l.history[old.id - 1] = l.history[old.id]
      BY <1>3, <2>1, <2>2, <2>4
    <3> QED  BY <1>9, <2>4, <3>1 DEF Made
  <2> QED  BY <2>3, <2>4 DEF Made
<1>10. Made(m, e)
  <2>1. e.id > 1 => e.id - 1 = n /\ n \in 1..n /\ l.history # <<>>
    BY <1>3, <1>4 DEF n
  <2>2. e.id > 1 /\ l.history[n] = life => HeadId(l.entries) = n
    BY <2>1 DEF LogInv, n
  <2>3. e.id \in 1..Len(m.history)
    BY <1>3, <1>4
  <2>4. ASSUME e.id > 1, m.history[e.id - 1] = m.history[e.id] PROVE e.prev = e.id - 1
    <3>1. e.id - 1 = n /\ n \in 1..n
      BY <2>1, <2>4
    <3>2. l.history[n] = life
      BY <1>3, <1>4, <2>4, <3>1
    <3> QED  BY <1>4, <2>2, <2>4, <3>1, <3>2
  <2> QED  BY <2>3, <2>4 DEF Made
<1>11. \A x \in 1..Len(m.entries) : Made(m, m.entries[x])
  <2> SUFFICES ASSUME NEW x \in 1..k + 1 PROVE Made(m, m.entries[x])
    BY <1>5
  <2>1. CASE x = k + 1
    BY <1>5, <1>10, <2>1
  <2>2. CASE x # k + 1
    <3>1. x \in 1..k /\ m.entries[x] = l.entries[x]
      BY <1>5, <2>2
    <3> QED  BY <1>9, <3>1 DEF LogInv, k
  <2> QED  BY <2>1, <2>2
<1>12. EntriesGrow(m.entries)
  <2> SUFFICES ASSUME NEW x \in 1..k + 1, NEW y \in 1..k + 1, x < y
               PROVE  m.entries[x].id < m.entries[y].id
    BY <1>5 DEF EntriesGrow
  <2>1. x \in 1..k /\ m.entries[x] = l.entries[x]
    BY <1>5
  <2>2. l.entries[x].id \in 1..n
    BY <2>1 DEF LogInv, Made, k, n
  <2>3. CASE y = k + 1
    <3>1. l.entries[x].id < n + 1
      BY ONLY <2>2, <1>3
    <3>2. m.entries[x].id = l.entries[x].id /\ m.entries[y].id = n + 1
      BY ONLY <1>4, <1>5, <2>1, <2>3
    <3> QED  BY ONLY <3>1, <3>2
  <2>4. CASE y # k + 1
    <3>1. y \in 1..k /\ m.entries[y] = l.entries[y]
      BY <1>5, <2>4
    <3> QED  BY <2>1, <3>1 DEF LogInv, EntriesGrow, k
  <2> QED  BY <2>3, <2>4
<1>13. \A x \in 1..Len(m.file) : Parses(m.file[x]) => Made(m, m.file[x].entry)
  BY <1>1, <1>2, <1>9, <1>10 DEF LogInv
<1>14. LogInv(m, life)
  BY <1>1, <1>2, <1>3, <1>6, <1>7, <1>8, <1>11, <1>12, <1>13 DEF LogInv
<1>15. Grown(l, m)
  <2>1. \A x \in k + 1..Len(m.entries) : m.history[m.entries[x].id] = life
    BY <1>3, <1>4, <1>5
  <2> QED  BY <1>3, <1>5, <1>6, <2>1 DEF Grown, n, k
<1> QED
  BY <1>14, <1>15

LEMMA RecordedGrows ==
    ASSUME NEW l, LogInv(l, life), life \in Nat
    PROVE  LogInv(Recorded(l), life) /\ Grown(l, Recorded(l))
<1> DEFINE file == IF l.toFile THEN Appended(l.file, Line(NewEntry(l), TRUE)) ELSE l.file
<1>1. Line(NewEntry(l), TRUE) \in Lines /\ Line(NewEntry(l), TRUE).entry = NewEntry(l)
  <2>1. NewEntry(l) \in Entry
    BY NewEntryTyped
  <2> QED  BY <2>1, Zenon DEF Line, Lines
<1>2. Extended(l, file)
  BY <1>1 DEF Extended
<1>3. Pushed(l).file = l.file
  BY DEF Pushed, LogInv, Logs
<1>4. Recorded(l) = [Pushed(l) EXCEPT !.file = file]
  BY <1>3 DEF Recorded
<1> QED
  BY <1>2, <1>4, PushedGrows

LEMMA UnrecordedGrows ==
    ASSUME NEW l, LogInv(l, life), life \in Nat, NEW m \in Unrecorded(l)
    PROVE  LogInv(m, life) /\ Grown(l, m)
<1>1. Line(NewEntry(l), FALSE) \in Lines /\ Line(NewEntry(l), FALSE).entry = NewEntry(l)
  <2>1. NewEntry(l) \in Entry
    BY NewEntryTyped
  <2> QED  BY <2>1, Zenon DEF Line, Lines
<1>2. Line(Unparsable, FALSE) \in Lines /\ Line(Unparsable, FALSE).entry = Unparsable
  <2>1. Unparsable \in Entry
    BY DEF Unparsable, Entry
  <2> QED  BY <2>1, Zenon DEF Line, Lines
<1>3. PICK file \in {l.file, Appended(l.file, Line(Unparsable, FALSE)),
                   Appended(l.file, Line(NewEntry(l), FALSE))} :
        m = [Pushed(l) EXCEPT !.file = file]
  BY DEF Unrecorded, Torn
<1>4. Extended(l, file)
  BY <1>1, <1>2, <1>3 DEF Extended
<1> QED
  BY <1>3, <1>4, PushedGrows

LEMMA GrownOn ==
    ASSUME NEW l, NEW m, NEW n, LogInv(l, life), LogInv(m, life), LogInv(n, life),
           Grown(l, m), Grown(m, n)
    PROVE  Grown(l, n)
<1>1. /\ Len(l.history) \in Nat /\ Len(m.history) \in Nat /\ Len(n.history) \in Nat
      /\ Len(l.entries) \in Nat /\ Len(m.entries) \in Nat /\ Len(n.entries) \in Nat
  <2>1. ASSUME NEW x \in Logs PROVE Len(x.history) \in Nat /\ Len(x.entries) \in Nat
    <3>1. x.history \in Seq(Nat) /\ x.entries \in Seq(Entry)
      BY DEF Logs
    <3> QED  BY <3>1
  <2>2. l \in Logs /\ m \in Logs /\ n \in Logs
    BY DEF LogInv
  <2> QED  BY <2>1, <2>2
<1>2. HeadId(m.entries) \in Nat /\ HeadId(n.entries) \in Nat
  <2>1. HeadId(m.entries) \in 0..Len(m.history) /\ HeadId(n.entries) \in 0..Len(n.history)
    BY HeadOfLog
  <2> QED  BY <1>1, <2>1
<1>3. ASSUME NEW i \in Len(l.entries) + 1..Len(n.entries) PROVE n.history[n.entries[i].id] = life
  <2>1. CASE i \in 1..Len(m.entries)
    <3>1. i \in Len(l.entries) + 1..Len(m.entries) /\ n.entries[i] = m.entries[i]
      BY <1>1, <2>1 DEF Grown
    <3>2. m.entries[i].id \in 1..Len(m.history)
      BY <2>1 DEF LogInv, Made
    <3> QED  BY <3>1, <3>2 DEF Grown
  <2>2. CASE i \notin 1..Len(m.entries)
    <3>1. i \in Len(m.entries) + 1..Len(n.entries)
      BY <1>1, <2>2
    <3> QED  BY <3>1 DEF Grown
  <2> QED  BY <2>1, <2>2
<1>4. /\ Len(l.history) <= Len(n.history) /\ Len(l.entries) <= Len(n.entries)
      /\ HeadId(n.entries) > Len(l.history)
  <2>1. /\ Len(l.history) <= Len(m.history) /\ Len(m.history) <= Len(n.history)
        /\ Len(l.entries) <= Len(m.entries) /\ Len(m.entries) <= Len(n.entries)
        /\ HeadId(n.entries) > Len(m.history)
    BY DEF Grown
  <2> QED  BY <1>1, <1>2, <2>1
<1>5. ASSUME NEW i \in 1..Len(l.history) PROVE n.history[i] = l.history[i]
  <2>1. i \in 1..Len(m.history)
    BY <1>1 DEF Grown
  <2> QED  BY <2>1 DEF Grown
<1>6. ASSUME NEW i \in 1..Len(l.entries) PROVE n.entries[i] = l.entries[i]
  <2>1. i \in 1..Len(m.entries)
    BY <1>1 DEF Grown
  <2> QED  BY <2>1 DEF Grown
<1> QED
  BY <1>3, <1>4, <1>5, <1>6 DEF Grown

\* The next life loads what was made before it, in the order in which it was made.
LEMMA ReloadedInv ==
    ASSUME NEW l, LogInv(l, life), life \in Nat
    PROVE  LogInv(Reloaded(l), life + 1)
<1> DEFINE e == IF l.toFile THEN Loaded(l.file) ELSE <<>>
           m == Reloaded(l)
<1>1. l \in Logs /\ l.file \in Seq(Lines) /\ l.history \in Seq(Nat)
  BY DEF LogInv, Logs
<1>2. /\ e \in Seq(Entry) /\ EntriesGrow(e)
      /\ \A i \in 1..Len(e) : Made(l, e[i])
  <2>1. CASE l.toFile
    <3>1. Loaded(l.file) \in Seq(Entry) /\ Stems(Loaded(l.file), l.file) /\ EntriesGrow(Loaded(l.file))
      BY <1>1, LoadedProperties DEF LogInv
    <3> QED  BY <2>1, <3>1 DEF LogInv, Stems
  <2>2. CASE ~l.toFile
    <3>1. e = <<>> /\ Len(<<>>) = 0 /\ <<>> \in Seq(Entry) /\ 1..0 = {}
      BY <2>2
    <3> QED  BY <3>1 DEF EntriesGrow
  <2> QED  BY <2>1, <2>2
<1> HIDE DEF e
<1>3. m = [l EXCEPT !.entries = e]
  BY DEF Reloaded, e
<1> HIDE DEF m
<1>4. m = [entries |-> e, file |-> l.file, history |-> l.history, toFile |-> l.toFile]
  BY <1>1, <1>3 DEF Logs
<1>5. m \in Logs /\ m.entries = e /\ m.file = l.file /\ m.history = l.history
  BY <1>1, <1>2, <1>4 DEF Logs
<1>6. \A n \in 1..Len(l.history) : l.history[n] <= life /\ l.history[n] \in Nat
  BY <1>1 DEF LogInv
<1>7. \A n \in 1..Len(l.history) : l.history[n] < life + 1
  BY <1>6
<1>8. m.history # <<>> => Len(m.history) \in 1..Len(l.history)
  BY <1>1, <1>5
<1>9. \A x : Made(l, x) => Made(m, x)
  BY <1>5 DEF Made
<1>10. \A n \in 1..Len(m.history) : m.history[n] <= life + 1
  BY <1>5, <1>6, <1>7
<1>11. ~(m.history # <<>> /\ m.history[Len(m.history)] = life + 1)
  BY <1>5, <1>6, <1>7, <1>8
<1>12. /\ \A x, y \in 1..Len(m.history) : x <= y => m.history[x] <= m.history[y]
       /\ \A k \in 1..Len(m.file) : Parses(m.file[k]) => Made(m, m.file[k].entry)
       /\ LinesGrow(m.file)
  BY <1>5, <1>9 DEF LogInv
<1> QED
  BY <1>2, <1>5, <1>9, <1>10, <1>11, <1>12, Zenon DEF LogInv, m

\* A chain that verifies has no gap within a life: each link leads to the entry that
\* the life made before, one after the other back to the one in question.
LEMMA ChainWithoutGap ==
    ASSUME LogInv(log, life), life \in Nat
    PROVE  GapsSeen
<1> DEFINE E == log.entries
           H == log.history
<1> SUFFICES ASSUME ChainValid(E), NEW i \in 1..Len(E), NEW id \in 1..E[i].id,
                    H[id] = H[E[i].id]
             PROVE  \E j \in 1..i : E[j].id = id
  BY DEF GapsSeen
<1>1. /\ E \in Seq(Entry) /\ Len(E) \in Nat /\ H \in Seq(Nat) /\ Len(H) \in Nat
      /\ \A m, n \in 1..Len(H) : m <= n => H[m] <= H[n]
      /\ \A n \in 1..Len(H) : H[n] \in Nat
      /\ \A k \in 1..Len(E) : Made(log, E[k])
  BY DEF LogInv, Logs
<1>2. /\ E[i].id \in 1..Len(H) /\ Len(H) \in Nat
      /\ E[i].id \in Nat /\ E[i].id <= Len(H) /\ id \in Nat /\ 1 <= id /\ id <= E[i].id
  <2>1. E[i].id \in 1..Len(H) /\ Len(H) \in Nat
    BY <1>1 DEF Made
  <2> QED  BY <2>1
<1>3. \A k \in 1..Len(E) : E[k].prev = IF k = 1 THEN 0 ELSE E[k - 1].id
  BY DEF ChainValid, Genesis
<1>4. \A k \in 1..Len(E) : E[k].id > 1 /\ H[E[k].id - 1] = H[E[k].id] => E[k].prev = E[k].id - 1
  BY <1>1 DEF Made
<1> HIDE DEF E, H
<1>5. PICK top \in Nat : top = E[i].id
  BY <1>2
<1>6. /\ top \in 1..Len(H) /\ Len(H) \in Nat /\ top <= Len(H)
      /\ id \in Nat /\ 1 <= id /\ id <= top
  BY <1>2, <1>5
<1> DEFINE A == {d \in Nat : d <= top - id => \E j \in 1..i : E[j].id = top - d}
<1>7. 0 \in A
  BY <1>5, <1>6
<1>8. ASSUME NEW d \in Nat, d \in A PROVE d + 1 \in A
  <2> SUFFICES ASSUME d + 1 <= top - id
               PROVE  \E j \in 1..i : E[j].id = top - (d + 1)
    OBVIOUS
  <2>1. PICK j \in 1..i : E[j].id = top - d
    BY <1>6, <1>8
  <2>2. PICK here \in Nat : here = top - d
    BY <1>6
  <2>3. PICK before \in Nat : before = here - 1
    BY <1>6, <2>2
  <2>4. /\ id <= before /\ before < here /\ here <= top /\ here > 1 /\ before # 0
        /\ before = top - (d + 1)
    BY <1>6, <2>2, <2>3
  <2>5. here \in 1..Len(H) /\ before \in 1..Len(H) /\ id \in 1..Len(H)
    BY <1>6, <2>4
  <2>6. H[before] = H[here]
    <3>1. H[id] <= H[before] /\ H[before] <= H[here] /\ H[here] <= H[top]
      <4>1. \A m, n \in 1..Len(H) : m <= n => H[m] <= H[n]
        BY <1>1
      <4>2. id <= before /\ before <= here /\ here <= top
        BY <1>6, <2>2, <2>3, <2>4
      <4> QED  BY ONLY <4>1, <4>2, <2>5, <1>6
    <3>2. H[id] \in Nat /\ H[before] \in Nat /\ H[here] \in Nat /\ H[id] = H[top]
      BY <1>1, <1>5, <2>5
    <3> QED  BY <3>1, <3>2
  <2>7. j \in 1..Len(E) /\ E[j].id = here
    BY <1>1, <2>1, <2>2
  <2>8. E[j].prev = before
    BY <1>4, <2>3, <2>4, <2>6, <2>7
  <2>9. j # 1 /\ E[j - 1].id = before
    BY <1>3, <2>4, <2>7, <2>8
  <2>10. j - 1 \in 1..i
    BY <2>1, <2>9
  <2> QED  BY <2>4, <2>9, <2>10
<1> HIDE DEF A
<1>9. PICK d \in Nat : d = top - id
  BY <1>6
<1>10. d \in A
  BY <1>7, <1>8, Induction
<1>11. PICK j \in 1..i : E[j].id = top - d
  <2>1. d <= top - id
    BY <1>6, <1>9
  <2> QED  BY <1>10, <2>1 DEF A
<1> QED
  BY <1>9, <1>11, <1>6

-----------------------------------------------------------------------------
SealInv ==
    /\ pulses \in Nat
    /\ \A s \in sealed :
         /\ s.pulse \in Nat /\ s.pulse <= pulses
         /\ s.pulse = pulses =>
              /\ s.binding = fingerprint
              /\ phase = "awake" => s.key = MasterKey

LEMMA SealInit == Init => SealInv
BY DEF Init, SealInv

\* A step that seals nothing and leaves pulse, fingerprint and life alone.
LEMMA NothingSealed ==
    ASSUME SealInv, phase' = "awake" => phase = "awake",
           UNCHANGED <<life, fingerprint, pulses, sealed>>
    PROVE  SealInv'
BY DEF SealInv, MasterKey

\* A step that seals something at the pulse that stands.
LEMMA SealedNow ==
    ASSUME SealInv, NEW kind, NEW scope,
           sealed' = sealed \cup {Sealed(kind, scope)},
           phase' = "awake" => phase = "awake",
           UNCHANGED <<life, fingerprint, pulses>>
    PROVE  SealInv'
<1>1. /\ Sealed(kind, scope).pulse = pulses
      /\ Sealed(kind, scope).binding = fingerprint
      /\ Sealed(kind, scope).key = MasterKey
  BY DEF Sealed
<1>2. MasterKey' = MasterKey
  BY DEF MasterKey
<1> QED
  BY <1>1, <1>2 DEF SealInv

\* A pulse that ends leaves everything sealed behind.
LEMMA PulseEnded == SealInv /\ PulseSeen => SealInv'
<1> SUFFICES ASSUME SealInv, PulseSeen PROVE SealInv'
  OBVIOUS
<1>1. pulses' = pulses + 1 /\ sealed' = sealed
  BY DEF PulseSeen
<1>2. pulses \in Nat /\ \A s \in sealed : s.pulse \in Nat /\ s.pulse <= pulses
  BY DEF SealInv
<1>3. pulses' \in Nat
  BY <1>1, <1>2
<1>4. ASSUME NEW s \in sealed PROVE s.pulse \in Nat /\ s.pulse <= pulses' /\ s.pulse # pulses'
  BY <1>1, <1>2
<1> QED
  BY <1>1, <1>3, <1>4 DEF SealInv

\* The process starts: it is not awake.
LEMMA Started == SealInv /\ Start => SealInv'
BY DEF SealInv, Start, vaultVars

LEMMA SealStep == SealInv /\ [Next]_vars => SealInv'
<1> SUFFICES ASSUME SealInv, [Next]_vars PROVE SealInv'
  OBVIOUS
<1> USE DEF bodyVars, vaultVars
<1>1. CASE Start
  BY <1>1, Started
<1>2. CASE BeginPulse
  BY <1>2, NothingSealed DEF BeginPulse
<1>3. CASE EndPulseVital \/ EndPulseLocked \/ EndPulseUnrecorded
  BY <1>3, PulseEnded DEF EndPulseVital, EndPulseLocked, EndPulseUnrecorded
<1>4. CASE Crash
  BY <1>4, NothingSealed DEF Crash, Ends
<1>5. CASE AuditQuery
  BY <1>5, NothingSealed DEF AuditQuery
<1>6. ASSUME NEW o \in Owners, BeginStore(o) PROVE SealInv'
  BY <1>6, NothingSealed DEF BeginStore
<1>7. ASSUME NEW o \in Owners, ScanRejects(o) PROVE SealInv'
  BY <1>7, NothingSealed DEF ScanRejects, ScanEnds
<1>8. ASSUME NEW o \in Owners, Store(o) PROVE SealInv'
  BY <1>8, SealedNow DEF Store, ScanEnds
<1>9. ASSUME NEW o \in Owners, StoreUnwritten(o) PROVE SealInv'
  BY <1>9, NothingSealed DEF StoreUnwritten, ScanEnds
<1>10. ASSUME NEW o \in Owners, CrashAfterWrite(o) PROVE SealInv'
  BY <1>10, SealedNow DEF CrashAfterWrite, Ends
<1>11. ASSUME NEW o \in Owners, NEW s \in sealed, Retrieve(s, o) PROVE SealInv'
  BY <1>11, NothingSealed DEF Retrieve
<1>12. ASSUME NEW o \in Owners, NEW s \in sealed, RetrieveDenied(s, o) PROVE SealInv'
  BY <1>12, NothingSealed DEF RetrieveDenied
<1>13. ASSUME NEW o \in Owners, NEW c \in Fields, EncryptField(c, o) PROVE SealInv'
  <2>1. CASE sealed' = sealed
    BY <1>13, <2>1, NothingSealed DEF EncryptField
  <2>2. CASE sealed' = sealed \cup {Sealed("field", <<c[1], c[2], o>>)}
    BY <1>13, <2>2, SealedNow DEF EncryptField
  <2> QED
    BY <1>13, <2>1, <2>2 DEF EncryptField
<1>14. ASSUME NEW o \in Owners, NEW c \in Fields, NEW s \in sealed, DecryptField(s, c, o)
       PROVE  SealInv'
  BY <1>14, NothingSealed DEF DecryptField
<1>15. CASE UNCHANGED vars
  BY <1>15, NothingSealed DEF vars
<1> QED
  BY <1>1, <1>2, <1>3, <1>4, <1>5, <1>6, <1>7, <1>8, <1>9, <1>10, <1>11, <1>12, <1>13, <1>14,
     <1>15 DEF Next

\* Everything sealed is of a pulse that has ended, and what is of the last one
\* carries its fingerprint and the key of the life that is awake.
THEOREM SealedUnderPulse == Spec => []SealInv
BY SealInit, SealStep, PTL DEF Spec

-----------------------------------------------------------------------------
(***************************************************************************)
(* What each step does to the log, and through it to what is sealed        *)
(***************************************************************************)
LogIs == life \in Nat /\ LogInv(log, life)

\* What a step of a running process leaves of the log: as it was, or more of it.
LogStays == log' = log /\ life' = life
LogGrows == LogInv(log', life) /\ Grown(log, log') /\ life' = life

LEMMA RecordGrows == LogIs /\ (Records \/ RecordThrows) /\ life' = life => LogGrows
BY RecordedGrows, UnrecordedGrows DEF LogIs, Records, RecordThrows, LogGrows

\* A pulse's end records something, once, twice or three times, whatever fails.
PulseEnds == EndPulseVital \/ EndPulseLocked \/ EndPulseUnrecorded

LEMMA TwoRecordsGrow ==
    ASSUME LogIs, NEW l, LogInv(l, life), Grown(log, l), NEW m,
           m = Recorded(l) \/ m \in Unrecorded(l)
    PROVE  LogInv(m, life) /\ Grown(log, m)
<1>1. LogInv(m, life) /\ Grown(l, m)
  BY RecordedGrows, UnrecordedGrows DEF LogIs
<1> QED
  BY <1>1, GrownOn DEF LogIs

LEMMA PulseGrows == LogIs /\ PulseEnds => LogGrows /\ PulseSeen /\ phase' \in {"awake", "down"}
<1> SUFFICES ASSUME LogIs, PulseEnds
             PROVE  LogGrows /\ PulseSeen /\ phase' \in {"awake", "down"}
  OBVIOUS
<1>1. PulseSeen /\ life' = life
  BY DEF PulseEnds, EndPulseVital, EndPulseLocked, EndPulseUnrecorded, PulseSeen
<1>2. phase' \in {"awake", "down"}
  BY DEF PulseEnds, EndPulseVital, EndPulseLocked, EndPulseUnrecorded, LivesOn, Ends
<1>3. LogInv(Recorded(log), life) /\ Grown(log, Recorded(log))
  BY RecordedGrows DEF LogIs
<1>4. CASE EndPulseVital
  BY <1>1, <1>2, <1>4, RecordGrows DEF EndPulseVital
<1>5. CASE EndPulseLocked
  BY <1>1, <1>2, <1>3, <1>5, TwoRecordsGrow DEF EndPulseLocked, LogGrows
<1>6. CASE EndPulseUnrecorded
  <2>1. PICK failed \in Unrecorded(log) \cup Unrecorded(Recorded(log)) :
          log' = failed \/ log' = Recorded(failed) \/ log' \in Unrecorded(failed)
    BY <1>6 DEF EndPulseUnrecorded
  <2>2. LogInv(failed, life) /\ Grown(log, failed)
    BY <1>3, TwoRecordsGrow, UnrecordedGrows DEF LogIs
  <2>3. LogInv(log', life) /\ Grown(log, log')
    BY <2>1, <2>2, TwoRecordsGrow
  <2> QED  BY <1>1, <1>2, <2>3 DEF LogGrows
<1> QED
  BY <1>4, <1>5, <1>6 DEF PulseEnds

\* The steps of a process that runs, other than a pulse's end.
FieldScopes == Seq(STRING) \X Seq(STRING) \X Seq(STRING)
ScopeOf(kind, scope) == kind = "file" \/ (kind = "field" /\ scope \in FieldScopes)
Seals ==
    /\ phase = "awake" /\ opened' = opened
    /\ \E kind, scope :
          ScopeOf(kind, scope) /\ sealed' = sealed \cup {Sealed(kind, scope)}
    /\ acked' = acked \/ (LogGrows /\ acked' = acked \cup {Cardinality(sealed) + 1})
OpensOne ==
    /\ phase = "awake" /\ UNCHANGED <<sealed, acked>>
    /\ \E s \in sealed : \E scope :
          /\ s.scope = scope \/ (s.kind = "field" /\ scope \in FieldScopes)
          /\ Opens(s, scope) /\ opened' = opened \cup {Opening(s, scope)}
RunsOn ==
    /\ LogStays \/ (LogGrows /\ phase' # "awakening")
    /\ phase' \in {phase, "down"} /\ UNCHANGED <<fingerprint, pulses>>
    /\ UNCHANGED <<sealed, acked, opened>> \/ Seals \/ OpensOne

LEMMA StepKinds == LogIs /\ [Next]_vars => Start \/ PulseEnds \/ RunsOn
<1> SUFFICES ASSUME LogIs, [Next]_vars PROVE Start \/ PulseEnds \/ RunsOn
  OBVIOUS
<1> USE DEF bodyVars, vaultVars
<1>1. CASE Start \/ EndPulseVital \/ EndPulseLocked \/ EndPulseUnrecorded
  BY <1>1 DEF PulseEnds
<1>2. CASE BeginPulse
  BY <1>2 DEF BeginPulse, RunsOn, LogStays
<1>3. CASE Crash
  <2>1. LogStays \/ LogGrows
    BY <1>3, RecordGrows DEF Crash, LogStays
  <2> QED  BY <1>3, <2>1 DEF Crash, Ends, RunsOn
<1>4. CASE AuditQuery
  <2>1. LogGrows
    BY <1>4, RecordGrows DEF AuditQuery
  <2> QED  BY <1>4, <2>1 DEF AuditQuery, RunsOn
<1>5. ASSUME NEW o \in Owners, BeginStore(o) PROVE RunsOn
  BY <1>5 DEF BeginStore, RunsOn, LogStays
<1>6. ASSUME NEW o \in Owners, ScanRejects(o) PROVE RunsOn
  <2>1. LogGrows
    BY <1>6, RecordGrows DEF ScanRejects, ScanEnds
  <2> QED  BY <1>6, <2>1 DEF ScanRejects, ScanEnds, RunsOn
<1>7. ASSUME NEW o \in Owners, Store(o) PROVE RunsOn
  <2>1. LogGrows
    BY <1>7, RecordGrows DEF Store, ScanEnds
  <2>2. sealed' = sealed \cup {Sealed("file", <<o>>)}
    BY <1>7 DEF Store
  <2>3. acked' = acked \/ acked' = acked \cup {Cardinality(sealed) + 1}
    BY <1>7 DEF Store, Sealed
  <2> QED  BY <1>7, <2>1, <2>2, <2>3 DEF Store, ScanEnds, RunsOn, Seals, ScopeOf
<1>8. ASSUME NEW o \in Owners, StoreUnwritten(o) PROVE RunsOn
  BY <1>8 DEF StoreUnwritten, ScanEnds, RunsOn, LogStays
<1>9. ASSUME NEW o \in Owners, CrashAfterWrite(o) PROVE RunsOn
  <2>1. LogStays \/ LogGrows
    BY <1>9, RecordGrows DEF CrashAfterWrite, LogStays
  <2>2. sealed' = sealed \cup {Sealed("file", <<o>>)}
    BY <1>9 DEF CrashAfterWrite
  <2> QED  BY <1>9, <2>1, <2>2 DEF CrashAfterWrite, Ends, RunsOn, Seals, ScopeOf
<1>10. ASSUME NEW o \in Owners, NEW s \in sealed, Retrieve(s, o) PROVE RunsOn
  <2>1. LogGrows
    BY <1>10, RecordGrows DEF Retrieve
  <2> QED  BY <1>10, <2>1 DEF Retrieve, Guarded, RunsOn, OpensOne
<1>11. ASSUME NEW o \in Owners, NEW s \in sealed, RetrieveDenied(s, o) PROVE RunsOn
  <2>1. LogGrows
    BY <1>11, RecordGrows DEF RetrieveDenied
  <2> QED  BY <1>11, <2>1 DEF RetrieveDenied, Guarded, RunsOn
<1>12. ASSUME NEW o \in Owners, NEW c \in Fields, EncryptField(c, o) PROVE RunsOn
  <2>1. LogGrows
    BY <1>12, RecordGrows DEF EncryptField
  <2>2. \/ UNCHANGED <<sealed, acked>>
        \/ /\ sealed' = sealed \cup {Sealed("field", <<c[1], c[2], o>>)}
           /\ acked' = acked \cup {Cardinality(sealed) + 1}
    BY <1>12 DEF EncryptField, Sealed
  <2>3. ScopeOf("field", <<c[1], c[2], o>>)
    BY NamesAssumption DEF ScopeOf, FieldScopes
  <2> QED  BY <1>12, <2>1, <2>2, <2>3 DEF EncryptField, Guarded, RunsOn, Seals
<1>13. ASSUME NEW o \in Owners, NEW c \in Fields, NEW s \in sealed, DecryptField(s, c, o)
       PROVE  RunsOn
  <2>1. LogGrows
    BY <1>13, RecordGrows DEF DecryptField
  <2>2. <<c[1], c[2], o>> \in FieldScopes
    BY NamesAssumption DEF FieldScopes
  <2> QED  BY <1>13, <2>1, <2>2 DEF DecryptField, Guarded, RunsOn, OpensOne
<1>14. CASE UNCHANGED vars
  BY <1>14 DEF vars, RunsOn, LogStays
<1> QED
  BY <1>1, <1>2, <1>3, <1>4, <1>5, <1>6, <1>7, <1>8, <1>9, <1>10, <1>11, <1>12, <1>13, <1>14
     DEF Next

LEMMA LogInit == Init => LogIs
<1> SUFFICES ASSUME Init PROVE LogIs
  OBVIOUS
<1>1. /\ life = 0 /\ log \in Logs
      /\ log.entries = <<>> /\ log.file = <<>> /\ log.history = <<>>
  <2>1. PICK toFile \in LogsToFile : log = EmptyLog(toFile)
    BY DEF Init
  <2>2. toFile \in BOOLEAN
    BY AuditConfigAssumption
  <2> QED  BY <2>1, <2>2 DEF Init, EmptyLog, Logs
<1>2. Len(<<>>) = 0 /\ 1..0 = {}
  OBVIOUS
<1> QED
  BY <1>1, <1>2 DEF LogIs, LogInv, EntriesGrow, LinesGrow

LEMMA LogStep == LogIs /\ [Next]_vars => LogIs'
<1> SUFFICES ASSUME LogIs, [Next]_vars PROVE LogIs'
  OBVIOUS
<1>1. CASE Start
  <2>1. life' = life + 1 /\ life' \in Nat /\ log' = Reloaded(log)
    BY <1>1 DEF Start, LogIs
  <2> QED  BY <2>1, ReloadedInv DEF LogIs
<1>2. CASE LogGrows
  BY <1>2 DEF LogIs, LogGrows
<1>3. CASE LogStays
  BY <1>3 DEF LogIs, LogStays
<1> QED
  BY <1>1, <1>2, <1>3, StepKinds, PulseGrows DEF RunsOn

\* In memory and on disk is what was made, in the order in which it was made.
THEOREM LogInOrder == Spec => []LogIs
BY LogInit, LogStep, PTL DEF Spec

\* A chain that verifies has no gap before an entry that survived.
THEOREM GapsAreSeen == Spec => []GapsSeen
<1>1. LogIs => GapsSeen
  BY ChainWithoutGap DEF LogIs
<1> QED
  BY <1>1, LogInOrder, PTL

-----------------------------------------------------------------------------
(***************************************************************************)
(* A log none of whose appends failed                                      *)
(***************************************************************************)
\* Its file ends in a newline and holds, line by line, what is in memory.
Clean(l) ==
    /\ EndsInNewline(l.file)
    /\ Loaded(l.file) = l.entries
    /\ KeepsChainKey => ChainValid(l.entries)

CleanInv == damage \in Nat /\ (damage = 0 /\ log.toFile => Clean(log))

LEMMA RecordedClean ==
    ASSUME NEW l, LogInv(l, life), life \in Nat, l.toFile, Clean(l)
    PROVE  Clean(Recorded(l))
<1> DEFINE e == NewEntry(l)
           m == Recorded(l)
           k == Len(l.entries)
<1>1. l.file \in Seq(Lines) /\ l.entries \in Seq(Entry) /\ k \in Nat
  BY DEF LogInv, Logs
<1>2. e \in Entry /\ e.prev = HeadId(l.entries) /\ e.key = ChainKey /\ e # Unparsable
  BY NewEntryTyped DEF NewEntry
<1>3. Line(e, TRUE) \in Lines /\ Line(e, TRUE).entry = e /\ Line(e, TRUE).ended
  BY <1>2, Zenon DEF Line, Lines
<1>4. Appended(l.file, Line(e, TRUE)) = Append(l.file, Line(e, TRUE))
  BY DEF Appended, Clean
<1>5. /\ Append(l.file, Line(e, TRUE)) \in Seq(Lines)
      /\ Len(Append(l.file, Line(e, TRUE))) = Len(l.file) + 1
      /\ Append(l.file, Line(e, TRUE))[Len(l.file) + 1] = Line(e, TRUE)
  <2>1. ASSUME NEW line \in Lines
        PROVE  /\ Append(l.file, line) \in Seq(Lines)
               /\ Len(Append(l.file, line)) = Len(l.file) + 1
               /\ Append(l.file, line)[Len(l.file) + 1] = line
    BY <1>1
  <2> QED  BY <1>3, <2>1, Zenon
<1>6. m = [Pushed(l) EXCEPT !.file = Append(l.file, Line(e, TRUE))]
  <2>1. Pushed(l).file = l.file
    BY DEF Pushed, LogInv, Logs
  <2> QED  BY <1>4, <2>1 DEF Recorded
<1> HIDE DEF m, e
<1>7. m.file = Append(l.file, Line(e, TRUE)) /\ m.entries = Append(l.entries, e)
  <2> DEFINE g == Append(l.file, Line(e, TRUE))
  <2>1. g \in Seq(Lines) /\ m = [Pushed(l) EXCEPT !.file = g]
    BY <1>5, <1>6
  <2> HIDE DEF g
  <2>2. m.file = g /\ m.entries = Append(l.entries, NewEntry(l))
    BY <2>1, PushedMemory
  <2> QED  BY <2>2 DEF e, g
<1>8. EndsInNewline(m.file)
  <2>1. Len(m.file) = Len(l.file) + 1 /\ m.file[Len(l.file) + 1] = Line(e, TRUE)
    BY <1>5, <1>7
  <2> QED  BY <1>3, <2>1 DEF EndsInNewline
<1>9. Loaded(m.file) = m.entries
  <2>1. Loaded(m.file) = LoadedLine(Loaded(l.file), Line(e, TRUE))
    BY <1>1, <1>3, <1>7, LoadedAppended
  <2>2. Parses(Line(e, TRUE))
    BY <1>2, <1>3 DEF Parses
  <2> QED  BY <1>3, <1>7, <2>1, <2>2 DEF LoadedLine, Clean
<1>10. ASSUME KeepsChainKey PROVE ChainValid(m.entries)
  <2>1. ChainValid(l.entries)
    BY <1>10 DEF Clean
  <2>2. /\ Len(m.entries) = k + 1 /\ m.entries[k + 1] = e
        /\ \A i \in 1..k : m.entries[i] = l.entries[i]
    BY <1>1, <1>2, <1>7
  <2>3. HeadId(l.entries) = IF k = 0 THEN Genesis ELSE l.entries[k].id
    BY <1>1 DEF HeadId
  <2> HIDE DEF k
  <2>4. ASSUME NEW i \in 1..k + 1
        PROVE  /\ m.entries[i].key = ChainKey
               /\ m.entries[i].prev = IF i = 1 THEN Genesis ELSE m.entries[i - 1].id
    <3>1. CASE i = k + 1
      <4>1. k # 0 => k \in 1..k /\ i # 1 /\ i - 1 = k
        BY <1>1, <3>1
      <4>2. k = 0 => i = 1
        BY <3>1
      <4> QED  BY <1>2, <2>2, <2>3, <3>1, <4>1, <4>2
    <3>2. CASE i # k + 1
      <4>1. i \in 1..k /\ (i # 1 => i - 1 \in 1..k)
        BY <1>1, <3>2
      <4>2. /\ l.entries[i].key = ChainKey
            /\ l.entries[i].prev = IF i = 1 THEN Genesis ELSE l.entries[i - 1].id
        BY <2>1, <4>1 DEF ChainValid, k
      <4> QED  BY <2>2, <4>1, <4>2
    <3> QED  BY <3>1, <3>2
  <2> QED  BY <2>2, <2>4 DEF ChainValid
<1> QED
  BY <1>8, <1>9, <1>10 DEF Clean, m

\* What is recorded or loaded does not change where the log goes.
LEMMA SameLogFile ==
    ASSUME NEW l, LogInv(l, life)
    PROVE  Recorded(l).toFile = l.toFile /\ Reloaded(l).toFile = l.toFile
BY DEF Recorded, Reloaded, Pushed, LogInv, Logs

\* Nothing but what records without failing leaves damage at 0.
LEMMA CleanKinds ==
    ASSUME CleanInv, [Next]_vars
    PROVE  /\ damage' \in Nat
           /\ damage' = 0 =>
                /\ damage = 0
                /\ \/ Start
                   \/ log' = log /\ life' = life
                   \/ log' = Recorded(log) /\ life' = life
                   \/ log' = Recorded(Recorded(log)) /\ life' = life
<1> DEFINE Kept == damage' = damage /\ log' = log /\ life' = life
           Once == damage' = damage /\ log' = Recorded(log) /\ life' = life
           Hurt == damage' = damage + 1
<1>1. Records => damage' = damage /\ log' = Recorded(log)
  BY DEF Records
<1>2. RecordThrows => Hurt
  BY DEF RecordThrows
<1> USE DEF bodyVars, vaultVars
<1>3. CASE Start
  <2>1. damage' = damage
    BY <1>3 DEF Start
  <2> QED  BY <1>3, <2>1 DEF CleanInv
<1>4. CASE BeginPulse
  BY <1>4 DEF BeginPulse, CleanInv
<1>5. CASE EndPulseVital
  BY <1>1, <1>5 DEF EndPulseVital, PulseSeen, CleanInv
<1>6. CASE EndPulseLocked
  BY <1>6 DEF EndPulseLocked, PulseSeen, CleanInv
<1>7. CASE EndPulseUnrecorded
  BY <1>7 DEF EndPulseUnrecorded, CleanInv
<1>8. Crash => Kept \/ Hurt
  BY <1>2 DEF Crash
<1>9. AuditQuery => Once \/ Hurt
  BY <1>1, <1>2 DEF AuditQuery
<1>10. ASSUME NEW o \in Owners
       PROVE  /\ BeginStore(o) => Kept
              /\ ScanRejects(o) => Once \/ Hurt
              /\ Store(o) => Once \/ Hurt
              /\ StoreUnwritten(o) => Kept
              /\ CrashAfterWrite(o) => Kept \/ Hurt
  BY <1>1, <1>2 DEF BeginStore, ScanRejects, Store, StoreUnwritten, CrashAfterWrite, ScanEnds
<1>11. ASSUME NEW o \in Owners, NEW s \in sealed
       PROVE  /\ Retrieve(s, o) => Once \/ Hurt
              /\ RetrieveDenied(s, o) => Once \/ Hurt
  BY <1>1, <1>2 DEF Retrieve, RetrieveDenied
<1>12. ASSUME NEW o \in Owners, NEW c \in Fields
       PROVE  /\ EncryptField(c, o) => Once \/ Hurt
              /\ \A s \in sealed : DecryptField(s, c, o) => Once \/ Hurt
  BY <1>1, <1>2 DEF EncryptField, DecryptField
<1>13. UNCHANGED vars => Kept
  BY DEF vars
<1>14. CASE Kept \/ Once \/ Hurt
  BY <1>14 DEF CleanInv
<1> QED
  <2> HIDE DEF Kept, Once, Hurt
  <2> QED  BY <1>3, <1>4, <1>5, <1>6, <1>7, <1>8, <1>9, <1>10, <1>11, <1>12, <1>13, <1>14 DEF Next

LEMMA CleanStep == LogIs /\ CleanInv /\ [Next]_vars => CleanInv'
<1> SUFFICES ASSUME LogIs, CleanInv, [Next]_vars, damage' = 0, log'.toFile PROVE Clean(log)'
  BY CleanKinds DEF CleanInv
<1>0. /\ LogInv(log, life) /\ life \in Nat /\ LogInv(Recorded(log), life)
      /\ Recorded(log).toFile = log.toFile
      /\ Recorded(Recorded(log)).toFile = log.toFile
      /\ Reloaded(log).toFile = log.toFile
  BY RecordedGrows, SameLogFile DEF LogIs
<1>1. Clean(log) /\ log.toFile
  BY <1>0, CleanKinds DEF CleanInv, Start
<1>2. CASE Start
  <2>1. log' = [log EXCEPT !.entries = log.entries]
    BY <1>1, <1>2 DEF Start, Reloaded, Clean
  <2>2. log' = log
    BY <1>0, <2>1 DEF LogInv, Logs
  <2> QED  BY <1>1, <2>2 DEF Clean, ChainValid, ChainKey
<1>3. CASE log' = log /\ life' = life
  BY <1>1, <1>3 DEF Clean, ChainValid, ChainKey
<1>4. ASSUME Clean(log'), life' = life PROVE Clean(log)'
  BY <1>4 DEF Clean, ChainValid, ChainKey
<1>5. CASE log' = Recorded(log) /\ life' = life
  BY <1>0, <1>1, <1>4, <1>5, RecordedClean
<1>6. CASE log' = Recorded(Recorded(log)) /\ life' = life
  <2>1. Clean(Recorded(log))
    BY <1>0, <1>1, RecordedClean
  <2> QED  BY <1>0, <1>1, <1>4, <1>6, <2>1, RecordedClean
<1> QED
  BY <1>2, <1>3, <1>5, <1>6, CleanKinds

\* A process whose appends never failed comes back over its own log, to the entry.
THEOREM CleanLogComesBack == Spec => []CleanLogReloads
<1>1. Init => CleanInv
  <2> SUFFICES ASSUME Init PROVE CleanInv
    OBVIOUS
  <2>1. damage = 0 /\ log.file = <<>> /\ log.entries = <<>>
    BY DEF Init, EmptyLog
  <2>2. Len(<<>>) = 0 /\ 1..0 = {}
    OBVIOUS
  <2> QED  BY <2>1, <2>2, LoadedEmpty DEF CleanInv, Clean, EndsInNewline, ChainValid
<1>2. CleanInv => CleanLogReloads
  BY DEF CleanInv, Clean, CleanLogReloads
<1> QED
  BY <1>1, <1>2, CleanStep, LogInOrder, PTL DEF Spec

-----------------------------------------------------------------------------
(***************************************************************************)
(* What opens, opens in its pulse.  A fingerprint names the head the log   *)
(* had before its pulse was recorded; each pulse of a life names a later   *)
(* head than the one before; and a thing that was sealed in an earlier     *)
(* life and left a trace there was sealed before the head that this life's *)
(* first pulse names.                                                      *)
(***************************************************************************)
Standing ==
    /\ phase \in {"down", "awakening", "awake"}
    /\ phase = "awakening" => \A n \in 1..Len(log.history) : log.history[n] < life
    /\ phase = "awake" =>
         /\ fingerprint.head \in Nat
         /\ fingerprint.head < HeadId(log.entries)
         /\ \A i \in 1..Len(log.entries) :
              log.history[log.entries[i].id] < life => log.entries[i].id <= fingerprint.head

Numbered ==
    /\ IsFiniteSet(sealed)
    /\ \A s \in sealed : s.id \in 1..Cardinality(sealed)
    /\ \A s, t \in sealed : s.id = t.id => s = t
    /\ acked \subseteq 1..Cardinality(sealed)
    /\ \A o \in opened : o.id \in 1..Cardinality(sealed)

Recalled ==
    \A s \in sealed :
        /\ s.binding.head \in Nat /\ s.record \in Nat \ {0}
        /\ s.binding.head < s.record
        /\ s.id \in acked => s.record <= Len(log.history)
        /\ s.id \in acked /\ phase = "awake" /\ log.history[s.record] = life /\ s.pulse < pulses
              => s.binding.head < fingerprint.head

Bound == \A s \in sealed : s.aad = Joined(s.scope) /\ ScopeOf(s.kind, s.scope)

PulseInv == Standing /\ Numbered /\ Recalled /\ Bound /\ OpensInItsPulse

\* How a step leaves the log: history and memory lose nothing.
LEMMA HistoryKept ==
    ASSUME LogIs, LogStays \/ LogGrows
    PROVE  /\ Len(log.history) \in Nat /\ Len(log'.history) \in Nat
           /\ Len(log.history) <= Len(log'.history)
           /\ \A n \in 1..Len(log.history) :
                n \in 1..Len(log'.history) /\ log'.history[n] = log.history[n]
           /\ HeadId(log.entries) \in Nat /\ HeadId(log'.entries) \in Nat
           /\ HeadId(log.entries) <= Len(log.history)
           /\ HeadId(log.entries) <= HeadId(log'.entries)
           /\ LogGrows => Len(log.history) < HeadId(log'.entries)
           /\ LogGrows => Len(log.history) < Len(log'.history)
<1>1. LogInv(log', life) /\ LogInv(log, life)
  BY DEF LogIs, LogStays, LogGrows
<1>2. /\ HeadId(log.entries) \in 0..Len(log.history) /\ Len(log.history) \in Nat
      /\ HeadId(log'.entries) \in 0..Len(log'.history) /\ Len(log'.history) \in Nat
  <2>1. ASSUME NEW l, LogInv(l, life)
        PROVE  HeadId(l.entries) \in 0..Len(l.history) /\ Len(l.history) \in Nat
    <3>1. HeadId(l.entries) \in 0..Len(l.history)
      BY <2>1, HeadOfLog
    <3>2. Len(l.history) \in Nat
      BY <2>1 DEF LogInv, Logs
    <3> QED  BY <3>1, <3>2
  <2> QED  BY <1>1, <2>1
<1>3. CASE LogGrows
  BY <1>2, <1>3 DEF LogGrows, Grown
<1>4. CASE LogStays /\ ~LogGrows
  BY <1>2, <1>4 DEF LogStays
<1> QED
  BY <1>3, <1>4

\* An entry in memory is one that was there before, or of this life.
LEMMA EntriesKept ==
    ASSUME LogIs, LogStays \/ LogGrows, NEW i \in 1..Len(log'.entries)
    PROVE  \/ /\ i \in 1..Len(log.entries) /\ log'.entries[i] = log.entries[i]
              /\ log'.history[log'.entries[i].id] = log.history[log.entries[i].id]
           \/ log'.history[log'.entries[i].id] = life
<1>1. Len(log.entries) \in Nat
  BY DEF LogIs, LogInv, Logs
<1>2. CASE LogStays
  BY <1>2 DEF LogStays
<1>3. CASE LogGrows
  <2>1. Len(log'.entries) \in Nat
    BY <1>3 DEF LogGrows, LogInv, Logs
  <2>2. CASE i \in 1..Len(log.entries)
    <3>1. log'.entries[i] = log.entries[i] /\ log.entries[i].id \in 1..Len(log.history)
      BY <1>3, <2>2 DEF LogGrows, Grown, LogIs, LogInv, Made
    <3> QED  BY <1>3, <2>2, <3>1, HistoryKept
  <2>3. CASE i \notin 1..Len(log.entries)
    <3>1. i \in Len(log.entries) + 1..Len(log'.entries)
      BY <1>1, <2>1, <2>3
    <3> QED  BY <1>3, <3>1 DEF LogGrows, Grown
  <2> QED  BY <2>2, <2>3
<1> QED
  BY <1>2, <1>3

LEMMA StandingStep ==
    ASSUME LogIs, Standing, [Next]_vars
    PROVE  Standing'
<1> USE DEF LogIs
<1>1. CASE Start
  <2>1. phase' = "awakening" /\ life' = life + 1 /\ log'.history = log.history
    <3>1. log' = Reloaded(log) /\ log \in Logs
      BY <1>1 DEF Start, LogInv
    <3> QED  BY <1>1, <3>1 DEF Start, Reloaded, Logs
  <2>2. \A n \in 1..Len(log.history) : log.history[n] \in Nat /\ log.history[n] <= life
    BY DEF LogInv, Logs
  <2>3. \A n \in 1..Len(log.history) : log.history[n] < life + 1
    BY <2>2
  <2> QED  BY <2>1, <2>3 DEF Standing
<1>2. CASE PulseEnds
  <2>1. LogGrows /\ PulseSeen /\ phase' \in {"awake", "down"} /\ life' = life
    BY <1>2, PulseGrows DEF LogGrows
  <2>2. fingerprint'.head = HeadId(log.entries)
    BY <2>1 DEF PulseSeen, ComputedFingerprint
  <2>3. HeadId(log.entries) \in Nat /\ HeadId(log.entries) < HeadId(log'.entries)
    BY <2>1, HistoryKept
  <2>4. ASSUME NEW i \in 1..Len(log'.entries), log'.history[log'.entries[i].id] < life
        PROVE  log'.entries[i].id <= HeadId(log.entries)
    BY <2>1, <2>4, EntriesKept, HeadOfLog
  <2> QED  BY <2>1, <2>2, <2>3, <2>4 DEF Standing
<1>3. CASE RunsOn
  <2>1. /\ life' = life /\ fingerprint' = fingerprint /\ phase' \in {phase, "down"}
        /\ LogStays \/ LogGrows
        /\ phase' = "awakening" => phase = "awakening" /\ log' = log
        /\ phase' = "awake" => phase = "awake"
    BY <1>3 DEF RunsOn, LogStays, LogGrows
  <2>2. phase' \in {"down", "awakening", "awake"}
    BY <2>1 DEF Standing
  <2>3. ASSUME phase' = "awake", NEW i \in 1..Len(log'.entries),
               log'.history[log'.entries[i].id] < life
        PROVE  log'.entries[i].id <= fingerprint.head
    BY <2>1, <2>3, EntriesKept DEF Standing
  <2>4. phase' = "awake" => fingerprint.head \in Nat /\ fingerprint.head < HeadId(log'.entries)
    BY <2>1, HistoryKept DEF Standing
  <2> QED  BY <2>1, <2>2, <2>3, <2>4 DEF Standing
<1> QED
  BY <1>1, <1>2, <1>3, StepKinds

\* What one more thing sealed, told or opened does to the numbers.
LEMMA OneMoreSealed ==
    ASSUME Numbered, NEW t, t.id = Cardinality(sealed) + 1
    PROVE  /\ t \notin sealed
           /\ Cardinality(sealed) \in Nat
           /\ IsFiniteSet(sealed \cup {t})
           /\ Cardinality(sealed \cup {t}) = Cardinality(sealed) + 1
           /\ \A s \in sealed : s.id # t.id
           /\ t.id \notin acked
<1>1. Cardinality(sealed) \in Nat
  BY FS_CardinalityType DEF Numbered
<1>2. t \notin sealed /\ \A s \in sealed : s.id # t.id
  BY <1>1 DEF Numbered
<1>3. IsFiniteSet(sealed \cup {t}) /\ Cardinality(sealed \cup {t}) = Cardinality(sealed) + 1
  BY <1>2, FS_AddElement DEF Numbered
<1>4. t.id \notin acked
  BY <1>1 DEF Numbered
<1> QED
  BY <1>1, <1>2, <1>3, <1>4

LEMMA NumberedStep ==
    ASSUME LogIs, Numbered, [Next]_vars
    PROVE  Numbered'
<1>1. CASE UNCHANGED <<sealed, acked, opened>>
  BY <1>1 DEF Numbered
<1>2. CASE Seals
  <2>1. PICK kind, scope : sealed' = sealed \cup {Sealed(kind, scope)}
    BY <1>2 DEF Seals
  <2>2. PICK t : t = Sealed(kind, scope)
    OBVIOUS
  <2>3. t.id = Cardinality(sealed) + 1 /\ sealed' = sealed \cup {t}
    BY <2>1, <2>2 DEF Sealed
  <2>4. /\ Cardinality(sealed) \in Nat /\ IsFiniteSet(sealed')
        /\ Cardinality(sealed') = Cardinality(sealed) + 1
        /\ \A s \in sealed : s.id # t.id
    BY <2>3, OneMoreSealed
  <2>5. 1..Cardinality(sealed) \subseteq 1..Cardinality(sealed')
        /\ t.id \in 1..Cardinality(sealed')
    BY <2>3, <2>4
  <2>6. \A s \in sealed' : s.id \in 1..Cardinality(sealed')
    BY <2>3, <2>5 DEF Numbered
  <2>7. \A s, u \in sealed' : s.id = u.id => s = u
    BY <2>3, <2>4 DEF Numbered
  <2>8. acked' \subseteq 1..Cardinality(sealed')
    BY <1>2, <2>3, <2>5 DEF Seals, Numbered
  <2>9. \A o \in opened' : o.id \in 1..Cardinality(sealed')
    BY <1>2, <2>5 DEF Seals, Numbered
  <2> QED  BY <2>4, <2>6, <2>7, <2>8, <2>9 DEF Numbered
<1>3. CASE OpensOne
  <2>1. PICK s \in sealed : \E scope : opened' = opened \cup {Opening(s, scope)}
    BY <1>3 DEF OpensOne
  <2>10. PICK scope : opened' = opened \cup {Opening(s, scope)}
    BY <2>1
  <2>2. Opening(s, scope).id = s.id
    BY DEF Opening
  <2>3. \A o \in opened' : o.id \in 1..Cardinality(sealed)
    BY <2>10, <2>2 DEF Numbered
  <2> QED  BY <1>3, <2>3 DEF OpensOne, Numbered
<1>4. Start \/ PulseEnds => UNCHANGED <<sealed, acked, opened>>
  BY DEF Start, vaultVars, PulseEnds, EndPulseVital, EndPulseLocked, EndPulseUnrecorded, PulseSeen
<1> QED
  BY <1>1, <1>2, <1>3, <1>4, StepKinds DEF RunsOn

LEMMA RecalledStep ==
    ASSUME LogIs, SealInv, Standing, Numbered, Recalled, [Next]_vars
    PROVE  Recalled'
<1>1. CASE Start
  <2>1. /\ phase' = "awakening" /\ sealed' = sealed /\ acked' = acked
        /\ log'.history = log.history
    <3>1. log' = Reloaded(log) /\ log \in Logs
      BY <1>1 DEF Start, LogIs, LogInv
    <3> QED  BY <1>1, <3>1 DEF Start, vaultVars, Reloaded, Logs
  <2> QED  BY <2>1 DEF Recalled
<1>2. CASE PulseEnds
  <2>1. LogGrows /\ PulseSeen /\ phase' \in {"awake", "down"} /\ life' = life
    BY <1>2, PulseGrows DEF LogGrows
  <2>2. /\ sealed' = sealed /\ acked' = acked /\ pulses' = pulses + 1 /\ phase # "down"
        /\ fingerprint'.head = HeadId(log.entries)
    BY <2>1 DEF PulseSeen, ComputedFingerprint
  <2>3. ASSUME NEW s \in sealed
        PROVE  /\ s.binding.head \in Nat /\ s.record \in Nat \ {0} /\ s.binding.head < s.record
               /\ s.id \in acked => s.record <= Len(log'.history)
    BY <2>1, HistoryKept DEF Recalled
  <2>4. ASSUME NEW s \in sealed, s.id \in acked, log'.history[s.record] = life
        PROVE  s.binding.head < HeadId(log.entries)
    <3>1. s.record \in 1..Len(log.history)
      BY <2>1, <2>4, HistoryKept DEF Recalled
    <3>2. log.history[s.record] = life
      BY <2>1, <2>4, <3>1, HistoryKept
    <3>3. phase = "awake"
      BY <2>2, <3>1, <3>2 DEF Standing, LogIs
    <3>4. /\ fingerprint.head \in Nat /\ fingerprint.head < HeadId(log.entries)
          /\ HeadId(log.entries) \in Nat
      BY <2>1, <3>3, HistoryKept DEF Standing
    <3>5. CASE s.pulse = pulses
      <4>1. s.binding = fingerprint
        BY <3>5 DEF SealInv
      <4> QED  BY <3>4, <4>1
    <3>6. CASE s.pulse # pulses
      <4>1. s.pulse < pulses
        BY <3>6 DEF SealInv
      <4>2. s.binding.head < fingerprint.head /\ s.binding.head \in Nat
        BY <2>4, <3>2, <3>3, <4>1 DEF Recalled
      <4> QED  BY <3>4, <4>2
    <3> QED  BY <3>5, <3>6
  <2> QED  BY <2>1, <2>2, <2>3, <2>4 DEF Recalled
<1>3. CASE RunsOn
  <2>1. /\ life' = life /\ fingerprint' = fingerprint /\ pulses' = pulses
        /\ LogStays \/ LogGrows
        /\ phase' = "awake" => phase = "awake"
    BY <1>3 DEF RunsOn, LogStays, LogGrows
  <2>2. ASSUME NEW s \in sealed, s.id \in acked' => s.id \in acked
        PROVE  /\ s.binding.head \in Nat /\ s.record \in Nat \ {0} /\ s.binding.head < s.record
               /\ s.id \in acked' => s.record <= Len(log'.history)
               /\ /\ s.id \in acked' /\ phase' = "awake"
                  /\ log'.history[s.record] = life' /\ s.pulse < pulses'
                  => s.binding.head < fingerprint'.head
    <3>1. /\ s.binding.head \in Nat /\ s.record \in Nat \ {0} /\ s.binding.head < s.record
          /\ s.id \in acked => s.record <= Len(log.history)
      BY DEF Recalled
    <3>2. s.id \in acked' => s.record <= Len(log'.history) /\ s.record \in 1..Len(log.history)
      BY <2>1, <2>2, <3>1, HistoryKept
    <3>3. s.id \in acked' => log'.history[s.record] = log.history[s.record]
      BY <2>1, <3>2, HistoryKept
    <3> QED  BY <2>1, <2>2, <3>1, <3>2, <3>3 DEF Recalled
  <2>3. CASE sealed' = sealed /\ acked' = acked
    BY <2>2, <2>3 DEF Recalled
  <2>4. CASE Seals
    <3>1. PICK kind, scope : sealed' = sealed \cup {Sealed(kind, scope)}
      BY <2>4 DEF Seals
    <3>2. PICK t : t = Sealed(kind, scope)
      OBVIOUS
    <3>3. /\ t.id = Cardinality(sealed) + 1 /\ sealed' = sealed \cup {t}
          /\ t.binding = fingerprint /\ t.pulse = pulses /\ t.record = Len(log.history) + 1
      BY <3>1, <3>2 DEF Sealed
    <3>4. t.id \notin acked /\ \A s \in sealed : s.id # t.id
      BY <3>3, OneMoreSealed
    <3>5. \A s \in sealed : s.id \in acked' => s.id \in acked
      BY <2>4, <3>3, <3>4 DEF Seals
    <3>6. /\ t.binding.head \in Nat /\ t.record \in Nat \ {0} /\ t.binding.head < t.record
      BY <2>1, <2>4, <3>3, HistoryKept DEF Seals, Standing
    <3>7. t.id \in acked' => t.record <= Len(log'.history)
      <4>1. t.id \in acked' => LogGrows
        BY <2>4, <3>4 DEF Seals
      <4>2. t.id \in acked' => Len(log.history) < Len(log'.history)
        BY <2>1, <4>1, HistoryKept
      <4> QED  BY <2>1, <3>3, <4>2, HistoryKept
    <3>8. ~(t.pulse < pulses')
      BY <2>1, <3>3 DEF SealInv
    <3> QED  BY <2>2, <3>3, <3>5, <3>6, <3>7, <3>8 DEF Recalled
  <2> QED  BY <1>3, <2>3, <2>4 DEF RunsOn, OpensOne
<1> QED
  BY <1>1, <1>2, <1>3, StepKinds

\* What opens with a trace of its sealing was sealed in the pulse that stands.
LEMMA TracedInItsPulse ==
    ASSUME LogIs, SealInv, Standing, Recalled, phase = "awake",
           NEW s \in sealed, NEW scope, Opens(s, scope), Opening(s, scope).traced
    PROVE  s.pulse = pulses
<1>1. s.binding = fingerprint
  BY DEF Opens
<1>2. s.id \in acked /\ LeftTrace(s)
  BY DEF Opening
<1>3. PICK i \in 1..Len(log.entries) :
         /\ log.entries[i].id >= s.record
         /\ log.history[s.record] = life \/ log.history[log.entries[i].id] < life
  BY <1>2 DEF LeftTrace
<1>4. /\ fingerprint.head \in Nat /\ fingerprint.head < s.record /\ s.record \in Nat
      /\ log.entries[i].id \in Nat
  BY <1>1 DEF Recalled, LogIs, LogInv, Logs, Made
<1>5. CASE log.history[s.record] = life
  <2>1. ~(s.pulse < pulses)
    BY <1>1, <1>2, <1>4, <1>5 DEF Recalled
  <2> QED  BY <2>1 DEF SealInv
<1>6. CASE log.history[log.entries[i].id] < life
  <2>1. log.entries[i].id <= fingerprint.head
    BY <1>6 DEF Standing
  <2> QED  BY <1>3, <1>4, <2>1
<1> QED
  BY <1>3, <1>5, <1>6

\* Two texts that are equal and divided at the same place have equal parts.
LEMMA DividedAlike ==
    ASSUME NEW S, NEW a \in Seq(S), NEW b \in Seq(S), NEW c \in Seq(S), NEW d \in Seq(S),
           a \o b = c \o d, Len(a) = Len(c)
    PROVE  a = c /\ b = d
<1>1. Len(a) \in Nat /\ Len(b) \in Nat /\ Len(d) \in Nat
  OBVIOUS
<1>2. Len(a \o b) = Len(a) + Len(b) /\ Len(c \o d) = Len(c) + Len(d)
  <2>1. ASSUME NEW u \in Seq(S), NEW v \in Seq(S)
        PROVE  Len(u \o v) = Len(u) + Len(v)
    BY <2>1
  <2> QED  BY <2>1
<1>3. Len(b) = Len(d)
  BY <1>1, <1>2
<1>4. \A i \in 1..Len(a) : a[i] = (a \o b)[i] /\ c[i] = (c \o d)[i]
  <2>1. ASSUME NEW u \in Seq(S), NEW v \in Seq(S), NEW k \in 1..Len(u)
        PROVE  (u \o v)[k] = u[k]
    BY <2>1
  <2> QED  BY <2>1
<1>5. ASSUME NEW i \in 1..Len(b)
      PROVE  b[i] = (a \o b)[Len(a) + i] /\ d[i] = (c \o d)[Len(c) + i]
  <2>1. ASSUME NEW u \in Seq(S), NEW v \in Seq(S), NEW k \in 1..(Len(u) + Len(v)), k > Len(u)
        PROVE  (u \o v)[k] = v[k - Len(u)]
    BY <2>1
  <2>2. PICK k \in Nat : k = Len(a) + i
    BY <1>1
  <2>3. /\ k \in 1..(Len(a) + Len(b)) /\ k \in 1..(Len(c) + Len(d)) /\ k > Len(a) /\ k > Len(c)
        /\ k - Len(a) = i /\ k - Len(c) = i
    BY <1>1, <1>3, <2>2
  <2>4. (a \o b)[k] = b[i]
    BY <2>1, <2>3
  <2>5. (c \o d)[k] = d[i]
    BY <2>1, <2>3
  <2> QED  BY <2>2, <2>4, <2>5
<1>6. a = c
  BY <1>4, SeqEqual
<1>7. b = d
  BY <1>3, <1>5, SeqEqual
<1> QED
  BY <1>6, <1>7

LEMMA FieldsApart ==
    ASSUME NEW a \in FieldScopes, NEW b \in FieldScopes, Joined(a) = Joined(b),
           AlikeInColons(a, b)
    PROVE  a = b
<1>1. /\ a = <<a[1], a[2], a[3]>> /\ b = <<b[1], b[2], b[3]>>
      /\ Len(a) = 3 /\ Len(b) = 3
      /\ a[1] \in Seq(STRING) /\ a[2] \in Seq(STRING) /\ a[3] \in Seq(STRING)
      /\ b[1] \in Seq(STRING) /\ b[2] \in Seq(STRING) /\ b[3] \in Seq(STRING)
  BY DEF FieldScopes
<1>2. a[1] \o a[2] \o a[3] = b[1] \o b[2] \o b[3]
  <2>1. /\ Joined(a) = a[1] \o a[2] \o a[3]
        /\ Joined(b) = b[1] \o b[2] \o b[3]
    BY <1>1 DEF Joined
  <2> QED  BY <2>1
<1>3. Len(a[1]) = Len(b[1]) /\ Len(a[3]) = Len(b[3])
  BY <1>1 DEF AlikeInColons
<1>4. /\ a[1] \o a[2] \in Seq(STRING) /\ b[1] \o b[2] \in Seq(STRING)
      /\ Len(a[1] \o a[2]) = Len(a[1]) + Len(a[2]) /\ Len(b[1] \o b[2]) = Len(b[1]) + Len(b[2])
      /\ Len(a[1] \o a[2] \o a[3]) = Len(a[1]) + Len(a[2]) + Len(a[3])
      /\ Len(b[1] \o b[2] \o b[3]) = Len(b[1]) + Len(b[2]) + Len(b[3])
  BY <1>1
<1>5. Len(a[2]) = Len(b[2])
  BY <1>1, <1>2, <1>3, <1>4
<1> DEFINE ab == a[1] \o a[2]
           bb == b[1] \o b[2]
<1>6. ab = bb /\ a[3] = b[3]
  <2> DEFINE a3 == a[3]
             b3 == b[3]
  <2>1. /\ ab \in Seq(STRING) /\ bb \in Seq(STRING) /\ a3 \in Seq(STRING) /\ b3 \in Seq(STRING)
        /\ ab \o a3 = bb \o b3 /\ Len(ab) = Len(bb)
    BY <1>1, <1>2, <1>3, <1>4, <1>5
  <2> HIDE DEF ab, bb, a3, b3
  <2>2. ab = bb /\ a3 = b3
    BY <2>1, DividedAlike
  <2> QED  BY <2>2 DEF a3, b3
<1>7. a[1] = b[1] /\ a[2] = b[2]
  <2> DEFINE a1 == a[1]
             a2 == a[2]
             b1 == b[1]
             b2 == b[2]
  <2>1. /\ a1 \in Seq(STRING) /\ a2 \in Seq(STRING) /\ b1 \in Seq(STRING) /\ b2 \in Seq(STRING)
        /\ a1 \o a2 = b1 \o b2 /\ Len(a1) = Len(b1)
    BY <1>1, <1>3, <1>6
  <2> HIDE DEF a1, a2, b1, b2
  <2>2. a1 = b1 /\ a2 = b2
    BY <2>1, DividedAlike
  <2> QED  BY <2>2 DEF a1, a2, b1, b2
<1> QED
  <2>1. <<a[1], a[2], a[3]>> = <<b[1], b[2], b[3]>>
    BY <1>6, <1>7
  <2> QED  BY <1>1, <2>1

LEMMA BoundStep ==
    ASSUME LogIs, Bound, [Next]_vars
    PROVE  Bound'
<1>1. CASE UNCHANGED sealed
  BY <1>1 DEF Bound
<1>2. CASE Seals
  <2>1. PICK kind, scope : ScopeOf(kind, scope) /\ sealed' = sealed \cup {Sealed(kind, scope)}
    BY <1>2 DEF Seals
  <2>2. /\ Sealed(kind, scope).aad = Joined(scope) /\ Sealed(kind, scope).scope = scope
        /\ Sealed(kind, scope).kind = kind
    BY DEF Sealed
  <2> QED  BY <2>1, <2>2 DEF Bound
<1>3. Start \/ PulseEnds \/ OpensOne => UNCHANGED sealed
  BY DEF Start, vaultVars, PulseEnds, EndPulseVital, EndPulseLocked, EndPulseUnrecorded,
     PulseSeen, OpensOne
<1> QED
  BY <1>1, <1>2, <1>3, StepKinds DEF RunsOn

LEMMA OpenedStep ==
    ASSUME LogIs, SealInv, PulseInv, [Next]_vars
    PROVE  OpensInItsPulse'
<1> USE DEF PulseInv
<1>1. CASE UNCHANGED <<sealed, acked, opened>>
  BY <1>1 DEF OpensInItsPulse
<1>2. CASE Seals
  <2>1. PICK kind, scope : sealed' = sealed \cup {Sealed(kind, scope)}
    BY <1>2 DEF Seals
  <2>2. PICK t : t = Sealed(kind, scope)
    OBVIOUS
  <2>3. t.id = Cardinality(sealed) + 1 /\ sealed' = sealed \cup {t}
    BY <2>1, <2>2 DEF Sealed
  <2>4. Cardinality(sealed) \in Nat
    BY <2>3, OneMoreSealed
  <2>5. \A o \in opened : o.id # t.id
    BY <2>3, <2>4 DEF Numbered
  <2> QED  BY <1>2, <2>3, <2>5 DEF Seals, OpensInItsPulse
<1>3. CASE OpensOne
  <2>11. PICK s \in sealed :
            \E scope : /\ s.scope = scope \/ (s.kind = "field" /\ scope \in FieldScopes)
                       /\ Opens(s, scope) /\ opened' = opened \cup {Opening(s, scope)}
    BY <1>3 DEF OpensOne
  <2>1. PICK scope : /\ s.scope = scope \/ (s.kind = "field" /\ scope \in FieldScopes)
                     /\ Opens(s, scope) /\ opened' = opened \cup {Opening(s, scope)}
    BY <2>11
  <2>2. PICK o : o = Opening(s, scope)
    OBVIOUS
  <2>3. o.id = s.id /\ o.scope = scope /\ o.pulse = pulses
    BY <2>1, <2>2 DEF Opening
  <2>6. s.kind = "file" \/ AlikeInColons(o.scope, s.scope) => o.scope = s.scope
    <3>1. CASE s.scope = scope
      BY <2>3, <3>1
    <3>2. CASE s.kind = "field" /\ scope \in FieldScopes
      <4>1. s.scope \in FieldScopes /\ Joined(scope) = Joined(s.scope) /\ s.kind # "file"
        BY <2>1, <3>2 DEF Bound, ScopeOf, Opens
      <4> QED  BY <2>3, <3>2, <4>1, FieldsApart
    <3> QED  BY <2>1, <3>1, <3>2
  <2>4. o.traced => s.pulse = pulses
    BY <1>3, <2>1, <2>2, TracedInItsPulse DEF OpensOne
  <2>5. \A t \in sealed : t.id = o.id => t = s
    BY <2>3 DEF Numbered
  <2> QED  BY <1>3, <2>1, <2>2, <2>3, <2>4, <2>5, <2>6 DEF OpensOne, OpensInItsPulse
<1>4. Start \/ PulseEnds => UNCHANGED <<sealed, acked, opened>>
  BY DEF Start, vaultVars, PulseEnds, EndPulseVital, EndPulseLocked, EndPulseUnrecorded, PulseSeen
<1> QED
  BY <1>1, <1>2, <1>3, <1>4, StepKinds DEF RunsOn

LEMMA PulseInit == Init => PulseInv
<1> SUFFICES ASSUME Init PROVE PulseInv
  OBVIOUS
<1>1. /\ phase = "down" /\ sealed = {} /\ acked = {} /\ opened = {}
  BY DEF Init
<1>2. IsFiniteSet({}) /\ Cardinality({}) = 0
  BY FS_EmptySet
<1> QED
  BY <1>1, <1>2 DEF PulseInv, Standing, Numbered, Recalled, Bound, OpensInItsPulse

\* What opens was sealed for that reader, colons in names apart, and under the pulse
\* that stands, unless all that its life recorded from its own record on is lost.
THEOREM OpensInPulse == Spec => []OpensInItsPulse
<1>1. LogIs /\ SealInv /\ PulseInv /\ [Next]_vars => PulseInv'
  BY StandingStep, NumberedStep, RecalledStep, BoundStep, OpenedStep DEF PulseInv
<1>2. PulseInv => OpensInItsPulse
  BY DEF PulseInv
<1> QED
  BY <1>1, <1>2, PulseInit, LogInOrder, SealedUnderPulse, PTL DEF Spec

\* What its caller was told is stored opens for that caller until the next pulse ends.
THEOREM StoredOpens == Spec => []AckedOpens
<1>1. LogIs /\ SealInv /\ PulseInv /\ [Next]_vars => PulseInv'
  BY StandingStep, NumberedStep, RecalledStep, BoundStep, OpenedStep DEF PulseInv
<1>2. SealInv /\ PulseInv => AckedOpens
  BY DEF PulseInv, Bound, SealInv, AckedOpens, Opens
<1> QED
  BY <1>1, <1>2, PulseInit, LogInOrder, SealedUnderPulse, PTL DEF Spec
=============================================================================
