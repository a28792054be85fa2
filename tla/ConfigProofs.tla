----------------------------- MODULE ConfigProofs ------------------------------
(***************************************************************************)
(* What the parser makes of a command line, for every command line and     *)
(* every set of files: it accepts what consists of options and values, and *)
(* its settings are the Meaning, in the terms of what a user is told.        *)
(***************************************************************************)
EXTENDS Config, SequenceTheorems, WellFoundedInduction, TLAPS

Fields == DOMAIN Default

LEMMA FieldsAre ==
    Fields = {"port", "ioThreads", "workerThreads", "staticDir", "maxFileSizeMB",
              "connectionTimeoutSec", "logLevel", "listenBacklog", "maxConnections"}
BY DEF Fields, Default

LEMMA OptionIs ==
    \A o \in DOMAIN Option : Option[o] \in Fields \cup {NoField} /\ Option[o] # ""
BY FieldsAre DEF Option, NoField

LEMMA FileKeyIs == \A k \in DOMAIN FileKey : FileKey[k] \in Fields
BY FieldsAre DEF FileKey

\* The parser's tables are what the help and the documented file say, but for the
\* exceptions in TrueOption and TrueKey.
LEMMA TablesAgree == TrueOption = Option /\ TrueKey = FileKey
<1>1. DOMAIN TrueOption = DOMAIN Option /\ DOMAIN TrueKey = DOMAIN FileKey
  BY DEF TrueOption, Option, HelpOption, TrueKey, FileKey, DocumentedKey
<1>2. \A o \in DOMAIN Option : TrueOption[o] = Option[o]
  BY DEF TrueOption, Option, HelpOption, NoField
<1>3. \A k \in DOMAIN FileKey : TrueKey[k] = FileKey[k]
  BY DEF TrueKey, FileKey, DocumentedKey
<1> QED
  BY <1>1, <1>2, <1>3 DEF TrueOption, Option, TrueKey, FileKey

LEMMA Parity == \A i \in Nat : i % 2 \in {0, 1} /\ ((i + 1) % 2 = 1 <=> i % 2 = 0)
OBVIOUS

LEMMA MaxIs ==
    ASSUME NEW S \in SUBSET Nat, NEW m \in S, \A y \in S : m >= y
    PROVE  Max(S) = m
<1> DEFINE P(x) == x \in S /\ \A y \in S : x >= y
<1>1. P(m)
  OBVIOUS
<1>2. Max(S) = CHOOSE x : P(x)
  BY Zenon DEF Max
<1>3. P(CHOOSE x : P(x))
  BY <1>1, Zenon
<1>4. PICK x : x = Max(S) /\ P(x)
  BY <1>2, <1>3
<1>5. x \in Nat /\ m \in Nat /\ x >= m /\ m >= x
  BY <1>4
<1>6. x = m
  BY <1>5
<1> QED
  BY <1>4, <1>6

\* The elements of S in front of i.
Before(S, i) == {k \in S : k < i}

LEMMA BeforeNext ==
    ASSUME NEW S \in SUBSET Nat, NEW i \in Nat
    PROVE  /\ Before(S, i) \in SUBSET Nat
           /\ i \in S => Before(S, i + 1) # {} /\ Max(Before(S, i + 1)) = i
           /\ i \notin S => Before(S, i + 1) = Before(S, i)
<1>1. Before(S, i) \in SUBSET Nat /\ Before(S, i + 1) \in SUBSET Nat
  BY DEF Before
<1>2. CASE i \in S
  <2>1. i \in Before(S, i + 1) /\ \A y \in Before(S, i + 1) : i >= y
    BY <1>2 DEF Before
  <2>2. Max(Before(S, i + 1)) = i
    BY <1>1, <2>1, MaxIs
  <2> QED
    BY <1>1, <1>2, <2>1, <2>2
<1>3. CASE i \notin S
  <2>1. \A k \in S : k < i + 1 <=> k < i
    BY <1>3
  <2>2. Before(S, i + 1) = Before(S, i)
    BY <2>1, Zenon DEF Before
  <2> QED
    BY <1>1, <1>3, <2>2
<1> QED
  BY <1>2, <1>3

Less == {p \in Nat \X Nat : p[1] < p[2]}

\* A set of numbers that holds 0 and the successors of its elements holds them all.
LEMMA Induction ==
    ASSUME NEW S \in SUBSET Nat, 0 \in S, \A k \in S : k + 1 \in S
    PROVE  S = Nat
<1> SUFFICES ASSUME Nat \ S # {} PROVE FALSE
  OBVIOUS
<1>1. IsWellFoundedOn(Less, Nat)
  BY NatLessThanWellFounded DEF OpToRel, Less
<1>2. PICK m \in Nat \ S : \A n \in Nat \ S : <<n, m>> \notin Less
  BY <1>1, WFMin
<1>3. m - 1 \in Nat /\ m - 1 \notin Nat \ S
  <2>1. m # 0
    BY <1>2
  <2>2. m - 1 \in Nat /\ m - 1 < m
    BY <2>1
  <2>3. <<m - 1, m>> \in Less
    BY <2>2 DEF Less
  <2> QED
    BY <1>2, <2>2, <2>3
<1>4. m - 1 + 1 = m /\ m - 1 \in S
  BY <1>3
<1> QED
  BY <1>2, <1>4

-------------------------------------------------------------------------------
(* Settings. *)

IsSettings(cfg) == cfg = [field \in Fields |-> cfg[field]]

LEMMA WithIs ==
    ASSUME NEW cfg, IsSettings(cfg), NEW field \in Fields \cup {NoField}, NEW word
    PROVE  /\ IsSettings(With(cfg, field, word))
           /\ \A f \in Fields :
                 With(cfg, field, word)[f] = IF f = field THEN Converted(field, word) ELSE cfg[f]
<1>1. NoField \notin Fields
  BY FieldsAre DEF NoField
<1>2. CASE field = NoField
  <2>1. With(cfg, field, word) = cfg
    BY <1>2 DEF With
  <2> QED
    BY <1>1, <1>2, <2>1
<1>3. CASE field # NoField
  <2> DEFINE value == Converted(field, word)
  <2>1. With(cfg, field, word) = [cfg EXCEPT ![field] = value]
    BY <1>3 DEF With
  <2> HIDE DEF value
  <2>2. PICK new : new = With(cfg, field, word)
    OBVIOUS
  <2>3. field \in Fields /\ new = [cfg EXCEPT ![field] = value]
    BY <1>3, <2>1, <2>2
  <2>4. cfg = [f \in Fields |-> cfg[f]]
    BY DEF IsSettings
  <2>5. new = [f \in Fields |-> IF f = field THEN value ELSE cfg[f]]
    BY <2>3, <2>4
  <2>6. new = [f \in Fields |-> new[f]] /\ \A f \in Fields : new[f] = IF f = field THEN value ELSE cfg[f]
    BY <2>5
  <2> QED
    BY <2>2, <2>6 DEF value, IsSettings
<1> QED
  BY <1>2, <1>3

-------------------------------------------------------------------------------
(* A file. *)

FileTurns(after, cfg, name, n) ==
    after = [j \in 0 .. n |-> IF j = 0 THEN cfg ELSE TakeLine(after[j - 1], LinesOf(name)[j])]

LEMMA FileTurnsExist ==
    ASSUME NEW cfg, NEW name, NEW n \in Nat
    PROVE  \E after : FileTurns(after, cfg, name, n)
<1> DEFINE S == {i \in Nat : \E after : FileTurns(after, cfg, name, i)}
<1>1. 0 \in S
  <2>1. FileTurns([j \in 0 .. 0 |-> cfg], cfg, name, 0)
    BY DEF FileTurns
  <2> QED
    BY <2>1
<1>2. ASSUME NEW i \in S PROVE i + 1 \in S
  <2>1. PICK after : FileTurns(after, cfg, name, i)
    OBVIOUS
  <2>2. PICK more : more = [j \in 0 .. i + 1 |->
                              IF j = 0 THEN cfg ELSE TakeLine(after[j - 1], LinesOf(name)[j])]
    OBVIOUS
  <2>3. \A j \in 0 .. i : more[j] = after[j]
    BY <2>1, <2>2 DEF FileTurns
  <2>4. \A j \in 0 .. i + 1 : j # 0 => j - 1 \in 0 .. i
    OBVIOUS
  <2>5. more = [j \in 0 .. i + 1 |->
                  IF j = 0 THEN cfg ELSE TakeLine(more[j - 1], LinesOf(name)[j])]
    BY <2>2, <2>3, <2>4
  <2> QED
    BY <2>5 DEF FileTurns
<1> HIDE DEF S
<1>3. S = Nat
  BY <1>1, <1>2, Induction DEF S
<1> QED
  BY <1>3 DEF S

\* The loop over the lines, turn by turn.
LEMMA FileTurn ==
    ASSUME NEW cfg, NEW name, Len(LinesOf(name)) \in Nat
    PROVE  \E after :
              /\ after[0] = cfg
              /\ \A j \in 1 .. Len(LinesOf(name)) :
                    after[j] = TakeLine(after[j - 1], LinesOf(name)[j])
              /\ LoadFromFile(cfg, name) = after[Len(LinesOf(name))]
<1> DEFINE n == Len(LinesOf(name))
           chosen == CHOOSE after : FileTurns(after, cfg, name, n)
<1>1. FileTurns(chosen, cfg, name, n)
  BY FileTurnsExist, Zenon
<1>2. LoadFromFile(cfg, name) = chosen[n]
  BY Zenon DEF LoadFromFile, FileTurns
<1> HIDE DEF chosen, n
<1>3. PICK after : after = chosen
  OBVIOUS
<1>4. n \in Nat /\ after = [j \in 0 .. n |->
                              IF j = 0 THEN cfg ELSE TakeLine(after[j - 1], LinesOf(name)[j])]
  BY <1>1, <1>3 DEF FileTurns, n
<1>5. after[0] = cfg /\ \A j \in 1 .. n : after[j] = TakeLine(after[j - 1], LinesOf(name)[j])
  BY <1>4
<1> QED
  BY <1>2, <1>3, <1>5 DEF n

\* The lines of a name are a sequence, empty if there is no such file.
LEMMA LinesAre ==
    ASSUME NEW name
    PROVE  /\ LinesOf(name) \in Seq([key : STRING, value : STRING])
           /\ Len(LinesOf(name)) \in Nat /\ DOMAIN LinesOf(name) = 1 .. Len(LinesOf(name))
<1>1. LinesOf(name) \in Seq([key : STRING, value : STRING])
  BY FilesAssumption DEF LinesOf
<1> QED
  BY <1>1, LenProperties

\* What a field is after j lines of the file, one of which may have set it.
AfterLines(cfg, name, j) ==
    [field \in Fields |->
        IF Before(LinesFor(field, name), j + 1) = {} THEN cfg[field]
        ELSE Converted(field, LinesOf(name)[Max(Before(LinesFor(field, name), j + 1))].value)]

LEMMA OneLine ==
    ASSUME NEW cfg, NEW name, NEW j \in Nat, j + 1 =< Len(LinesOf(name))
    PROVE  TakeLine(AfterLines(cfg, name, j), LinesOf(name)[j + 1])
              = AfterLines(cfg, name, j + 1)
<1> DEFINE line == LinesOf(name)[j + 1]
           old  == AfterLines(cfg, name, j)
           new  == TakeLine(old, line)
<1>1. j + 1 \in Nat /\ j + 1 \in DOMAIN LinesOf(name)
  BY LinesAre
<1>2. IsSettings(old)
  BY DEF AfterLines, IsSettings
<1>3. ASSUME NEW field \in Fields
      PROVE  /\ LinesFor(field, name) \in SUBSET Nat
             /\ j + 1 \in LinesFor(field, name)
                  <=> line.key \in DOMAIN FileKey /\ FileKey[line.key] = field
  BY <1>1, LinesAre, TablesAgree DEF LinesFor
<1>4. /\ IsSettings(new)
      /\ \A f \in Fields : new[f] = IF j + 1 \in LinesFor(f, name)
                                    THEN Converted(f, line.value) ELSE old[f]
  <2>1. CASE line.key \in DOMAIN FileKey
    <3>1. new = With(old, FileKey[line.key], line.value) /\ FileKey[line.key] \in Fields
      BY <2>1, FileKeyIs DEF TakeLine
    <3> HIDE DEF new, old, line
    <3>2. /\ IsSettings(new)
          /\ \A f \in Fields : new[f] = IF f = FileKey[line.key]
                                        THEN Converted(FileKey[line.key], line.value) ELSE old[f]
      BY <1>2, <3>1, WithIs
    <3> QED
      BY <1>3, <2>1, <3>2
  <2>2. CASE line.key \notin DOMAIN FileKey
    <3>1. new = old
      BY <2>2 DEF TakeLine
    <3> HIDE DEF new, old, line
    <3> QED
      BY <1>2, <1>3, <2>2, <3>1
  <2> QED
    BY <2>1, <2>2
<1> HIDE DEF new
<1>5. ASSUME NEW f \in Fields PROVE new[f] = AfterLines(cfg, name, j + 1)[f]
  <2> DEFINE L == LinesFor(f, name)
  <2>1. L \in SUBSET Nat
    BY <1>3
  <2>2. /\ AfterLines(cfg, name, j + 1)[f]
             = (IF Before(L, j + 1 + 1) = {} THEN cfg[f]
                ELSE Converted(f, LinesOf(name)[Max(Before(L, j + 1 + 1))].value))
        /\ old[f] = (IF Before(L, j + 1) = {} THEN cfg[f]
                     ELSE Converted(f, LinesOf(name)[Max(Before(L, j + 1))].value))
    BY DEF AfterLines
  <2> HIDE DEF L, old
  <2>3. CASE j + 1 \in L
    <3>1. Before(L, j + 1 + 1) # {} /\ Max(Before(L, j + 1 + 1)) = j + 1
      BY <1>1, <2>1, <2>3, BeforeNext
    <3>2. new[f] = Converted(f, line.value)
      BY <1>4, <2>3 DEF L
    <3> QED
      BY <2>2, <3>1, <3>2
  <2>4. CASE j + 1 \notin L
    <3>1. Before(L, j + 1 + 1) = Before(L, j + 1)
      BY <1>1, <2>1, <2>4, BeforeNext
    <3>2. new[f] = old[f]
      BY <1>4, <2>4 DEF L
    <3> QED
      BY <2>2, <3>1, <3>2
  <2> QED
    BY <2>3, <2>4
<1>6. IsSettings(AfterLines(cfg, name, j + 1))
  BY DEF AfterLines, IsSettings
<1>7. new = AfterLines(cfg, name, j + 1)
  <2> DEFINE end == AfterLines(cfg, name, j + 1)
  <2>1. new = [f \in Fields |-> new[f]] /\ end = [f \in Fields |-> end[f]]
    BY <1>4, <1>6 DEF IsSettings
  <2>2. \A f \in Fields : new[f] = end[f]
    BY <1>5
  <2> HIDE DEF end
  <2>3. new = end
    BY <2>1, <2>2
  <2> QED
    BY <2>3 DEF end
<1> QED
  BY <1>7 DEF new

\* A file gives a field the value of the last line about it, if there is one.
LEMMA FileGives ==
    ASSUME NEW cfg, IsSettings(cfg), NEW name
    PROVE  LoadFromFile(cfg, name) =
              [field \in Fields |->
                  IF LinesFor(field, name) = {} THEN cfg[field]
                  ELSE Converted(field, LinesOf(name)[Max(LinesFor(field, name))].value)]
<1> DEFINE n == Len(LinesOf(name))
<1>1. n \in Nat /\ DOMAIN LinesOf(name) = 1 .. n
  BY LinesAre
<1>2. PICK after : /\ after[0] = cfg
                   /\ \A j \in 1 .. n : after[j] = TakeLine(after[j - 1], LinesOf(name)[j])
                   /\ LoadFromFile(cfg, name) = after[n]
  BY <1>1, FileTurn
<1> DEFINE S == {j \in Nat : j =< n => after[j] = AfterLines(cfg, name, j)}
<1>3. 0 \in S
  <2>1. \A field \in Fields : Before(LinesFor(field, name), 0 + 1) = {}
    BY <1>1 DEF Before, LinesFor
  <2>2. AfterLines(cfg, name, 0) = [field \in Fields |-> cfg[field]]
    BY <2>1 DEF AfterLines
  <2> QED
    BY <1>2, <2>2 DEF IsSettings
<1>4. ASSUME NEW j \in S PROVE j + 1 \in S
  <2> SUFFICES ASSUME j + 1 =< n PROVE after[j + 1] = AfterLines(cfg, name, j + 1)
    OBVIOUS
  <2>1. j \in Nat /\ j =< n /\ j + 1 \in 1 .. n /\ (j + 1) - 1 = j
    BY <1>1
  <2>2. after[j] = AfterLines(cfg, name, j)
    BY <2>1
  <2>3. after[j + 1] = TakeLine(after[j], LinesOf(name)[j + 1])
    BY <1>2, <2>1
  <2> QED
    BY <2>1, <2>2, <2>3, OneLine
<1> HIDE DEF S
<1>5. S = Nat
  BY <1>3, <1>4, Induction DEF S
<1>6. after[n] = AfterLines(cfg, name, n)
  BY <1>1, <1>5 DEF S
<1>7. \A field \in Fields : Before(LinesFor(field, name), n + 1) = LinesFor(field, name)
  BY <1>1 DEF Before, LinesFor
<1>8. AfterLines(cfg, name, n) =
        [field \in Fields |->
            IF LinesFor(field, name) = {} THEN cfg[field]
            ELSE Converted(field, LinesOf(name)[Max(LinesFor(field, name))].value)]
  BY <1>7, Zenon DEF AfterLines
<1> QED
  BY <1>2, <1>6, <1>8

-------------------------------------------------------------------------------
(* The first pass. *)

FirstTurns(after, start, argv, n) ==
    after = [i \in 0 .. n |-> IF i = 0 THEN start ELSE FirstWord(after[i - 1], argv[i])]

LEMMA FirstTurnsExist ==
    ASSUME NEW start, NEW argv, NEW n \in Nat
    PROVE  \E after : FirstTurns(after, start, argv, n)
<1> DEFINE S == {i \in Nat : \E after : FirstTurns(after, start, argv, i)}
<1>1. 0 \in S
  <2>1. FirstTurns([j \in 0 .. 0 |-> start], start, argv, 0)
    BY DEF FirstTurns
  <2> QED
    BY <2>1
<1>2. ASSUME NEW i \in S PROVE i + 1 \in S
  <2>1. PICK after : FirstTurns(after, start, argv, i)
    OBVIOUS
  <2>2. PICK more : more = [j \in 0 .. i + 1 |->
                              IF j = 0 THEN start ELSE FirstWord(after[j - 1], argv[j])]
    OBVIOUS
  <2>3. \A j \in 0 .. i : more[j] = after[j]
    BY <2>1, <2>2 DEF FirstTurns
  <2>4. \A j \in 0 .. i + 1 : j # 0 => j - 1 \in 0 .. i
    OBVIOUS
  <2>5. more = [j \in 0 .. i + 1 |-> IF j = 0 THEN start ELSE FirstWord(more[j - 1], argv[j])]
    BY <2>2, <2>3, <2>4
  <2> QED
    BY <2>5 DEF FirstTurns
<1> HIDE DEF S
<1>3. S = Nat
  BY <1>1, <1>2, Induction DEF S
<1> QED
  BY <1>3 DEF S

\* The first loop over the words, turn by turn.
LEMMA FirstTurn ==
    ASSUME NEW argv, Len(argv) \in Nat
    PROVE  \E after :
              /\ after[0] = [cfg |-> Default, expects |-> FALSE]
              /\ \A i \in 1 .. Len(argv) : after[i] = FirstWord(after[i - 1], argv[i])
              /\ FirstPass(argv) = after[Len(argv)].cfg
<1> DEFINE n == Len(argv)
           start == [cfg |-> Default, expects |-> FALSE]
           chosen == CHOOSE after : FirstTurns(after, start, argv, n)
<1>1. FirstTurns(chosen, start, argv, n)
  BY FirstTurnsExist, Zenon
<1>2. FirstPass(argv) = chosen[n].cfg
  BY Zenon DEF FirstPass, FirstTurns
<1> HIDE DEF chosen, n
<1>3. PICK after : after = chosen
  OBVIOUS
<1> HIDE DEF start
<1>4. n \in Nat /\ after = [i \in 0 .. n |->
                              IF i = 0 THEN start ELSE FirstWord(after[i - 1], argv[i])]
  BY <1>1, <1>3 DEF FirstTurns, n
<1>5. after[0] = start /\ \A i \in 1 .. n : after[i] = FirstWord(after[i - 1], argv[i])
  BY <1>4
<1> QED
  BY <1>2, <1>3, <1>5 DEF n, start

\* Where the files are named that have a line about field.
FilesFor(field, argv) ==
    {i \in Options(argv) : NamesFile(argv[i]) /\ LinesFor(field, argv[i + 1]) # {}}

LastLine(field, name) == LinesOf(name)[Max(LinesFor(field, name))].value

\* What a field is after the first pass has looked at i words.
FromFiles(argv, i) ==
    [field \in Fields |->
        IF Before(FilesFor(field, argv), i) = {} THEN Default[field]
        ELSE Converted(field, LastLine(field, argv[Max(Before(FilesFor(field, argv), i)) + 1]))]

LEMMA WordsAre ==
    ASSUME NEW argv \in Seq(STRING)
    PROVE  /\ Len(argv) \in Nat /\ DOMAIN argv = 1 .. Len(argv)
           /\ Options(argv) = {i \in 1 .. Len(argv) : i % 2 = 1 /\ i < Len(argv)}
           /\ Options(argv) \in SUBSET Nat
           /\ \A field : FilesFor(field, argv) \in SUBSET Nat
<1>1. Len(argv) \in Nat /\ DOMAIN argv = 1 .. Len(argv)
  BY LenProperties
<1>2. Options(argv) = {i \in 1 .. Len(argv) : i % 2 = 1 /\ i < Len(argv)}
  BY <1>1 DEF Options
<1>3. Options(argv) \in SUBSET Nat
  BY <1>1, <1>2
<1>4. ASSUME NEW field PROVE FilesFor(field, argv) \in SUBSET Nat
  BY <1>3 DEF FilesFor
<1> QED
  BY <1>1, <1>2, <1>3, <1>4

\* The file that is named in front of word i + 1 is read, if i is where one is named.
LEMMA OneFile ==
    ASSUME NEW argv \in Seq(STRING), NEW i \in Nat, i + 1 =< Len(argv)
    PROVE  IF i % 2 = 1 /\ NamesFile(argv[i])
           THEN LoadFromFile(FromFiles(argv, i), argv[i + 1]) = FromFiles(argv, i + 1)
           ELSE FromFiles(argv, i) = FromFiles(argv, i + 1)
<1> DEFINE named == i % 2 = 1 /\ NamesFile(argv[i])
           name  == argv[i + 1]
           old   == FromFiles(argv, i)
           F(field) == FilesFor(field, argv)
<1>1. IsSettings(old)
  BY DEF FromFiles, IsSettings
<1>2. ASSUME NEW field \in Fields
      PROVE  /\ F(field) \in SUBSET Nat
             /\ i \in F(field) <=> named /\ LinesFor(field, name) # {}
  <2>1. i % 2 = 1 => i # 0
    OBVIOUS
  <2>2. i \in Options(argv) <=> i % 2 = 1
    BY <2>1, WordsAre
  <2> QED
    BY <2>2, WordsAre DEF FilesFor
<1>3. ASSUME NEW field \in Fields
      PROVE  FromFiles(argv, i + 1)[field]
                = IF i \in F(field) THEN Converted(field, LastLine(field, name)) ELSE old[field]
  <2>1. /\ FromFiles(argv, i + 1)[field]
             = (IF Before(F(field), i + 1) = {} THEN Default[field]
                ELSE Converted(field, LastLine(field, argv[Max(Before(F(field), i + 1)) + 1])))
        /\ old[field]
             = (IF Before(F(field), i) = {} THEN Default[field]
                ELSE Converted(field, LastLine(field, argv[Max(Before(F(field), i)) + 1])))
    BY DEF FromFiles
  <2>2. /\ i \in F(field) => Before(F(field), i + 1) # {} /\ Max(Before(F(field), i + 1)) = i
        /\ i \notin F(field) => Before(F(field), i + 1) = Before(F(field), i)
    BY <1>2, BeforeNext
  <2> HIDE DEF F, old
  <2> QED
    BY <2>1, <2>2
<1>4. IsSettings(FromFiles(argv, i + 1))
  BY DEF FromFiles, IsSettings
<1>5. CASE named
  <2>1. PICK read : read = LoadFromFile(old, name)
    OBVIOUS
  <2>2. read = [field \in Fields |->
                  IF LinesFor(field, name) = {} THEN old[field]
                  ELSE Converted(field, LastLine(field, name))]
    BY <1>1, <2>1, FileGives DEF LastLine
  <2>3. PICK new : new = FromFiles(argv, i + 1)
    OBVIOUS
  <2>4. new = [field \in Fields |-> new[field]]
    BY <1>4, <2>3 DEF IsSettings
  <2> HIDE DEF old, F, name, named
  <2>5. \A field \in Fields : new[field] = read[field]
    BY <1>2, <1>3, <1>5, <2>2, <2>3
  <2>6. new = read
    BY <2>2, <2>4, <2>5
  <2> QED
    BY <1>5, <2>1, <2>3, <2>6 DEF old, name, named
<1>6. CASE ~named
  <2>1. PICK new : new = FromFiles(argv, i + 1)
    OBVIOUS
  <2>2. new = [field \in Fields |-> new[field]] /\ old = [field \in Fields |-> old[field]]
    BY <1>1, <1>4, <2>1 DEF IsSettings
  <2> HIDE DEF old, F, name, named
  <2>3. \A field \in Fields : new[field] = old[field]
    BY <1>2, <1>3, <1>6, <2>1
  <2>4. new = old
    BY <2>2, <2>3
  <2> QED
    BY <1>6, <2>1, <2>4 DEF old, name, named
<1> QED
  BY <1>5, <1>6

\* After the first pass each field is what the files that are named make of it.
LEMMA FilesGive ==
    ASSUME NEW argv \in Seq(STRING), Plain(argv)
    PROVE  FirstPass(argv) =
              [field \in Fields |->
                  IF FilesFor(field, argv) = {} THEN Default[field]
                  ELSE Converted(field, LastLine(field, argv[Max(FilesFor(field, argv)) + 1]))]
<1> DEFINE n == Len(argv)
           Due(i) == i % 2 = 1 /\ NamesFile(argv[i])
<1>1. n \in Nat /\ DOMAIN argv = 1 .. n
  BY WordsAre
<1>2. PICK after : /\ after[0] = [cfg |-> Default, expects |-> FALSE]
                   /\ \A i \in 1 .. n : after[i] = FirstWord(after[i - 1], argv[i])
                   /\ FirstPass(argv) = after[n].cfg
  BY <1>1, FirstTurn
<1> DEFINE S == {i \in Nat : i =< n => after[i].cfg = FromFiles(argv, i) /\ (after[i].expects <=> Due(i))}
<1>3. 0 \in S
  <2>1. \A field \in Fields : Before(FilesFor(field, argv), 0) = {}
    BY WordsAre DEF Before
  <2>2. FromFiles(argv, 0) = [field \in Fields |-> Default[field]]
    BY <2>1 DEF FromFiles
  <2>3. Default = [field \in Fields |-> Default[field]]
    BY DEF Fields, Default
  <2>4. ~Due(0)
    OBVIOUS
  <2>5. after[0].cfg = Default /\ ~after[0].expects
    BY <1>2
  <2> QED
    BY <2>2, <2>3, <2>4, <2>5
<1>4. ASSUME NEW i \in S PROVE i + 1 \in S
  <2> SUFFICES ASSUME i + 1 =< n
               PROVE  /\ after[i + 1].cfg = FromFiles(argv, i + 1)
                      /\ after[i + 1].expects <=> Due(i + 1)
    OBVIOUS
  <2>1. i \in Nat /\ i =< n /\ i + 1 \in 1 .. n /\ (i + 1) - 1 = i /\ i + 1 \in DOMAIN argv
    BY <1>1
  <2>2. after[i].cfg = FromFiles(argv, i) /\ (after[i].expects <=> Due(i))
    BY <2>1
  <2>3. after[i + 1] = FirstWord(after[i], argv[i + 1])
    BY <1>2, <2>1
  <2>4. /\ Due(i) => LoadFromFile(FromFiles(argv, i), argv[i + 1]) = FromFiles(argv, i + 1)
        /\ ~Due(i) => FromFiles(argv, i) = FromFiles(argv, i + 1)
    BY <2>1, OneFile
  <2>5. /\ (i + 1) % 2 = 1 <=> i % 2 = 0
        /\ i % 2 \in {0, 1} /\ (i + 1) % 2 \in {0, 1}
    BY <2>1, Parity
  <2>6. (i + 1) % 2 = 0 /\ NamesFile(argv[i + 1]) => Due(i)
    BY <2>1, <2>5 DEF Plain
  <2>7. CASE Due(i)
    <3>1. after[i + 1] = [cfg |-> LoadFromFile(after[i].cfg, argv[i + 1]), expects |-> FALSE]
      BY <2>2, <2>3, <2>7 DEF FirstWord
    <3>2. ~Due(i + 1)
      BY <2>5, <2>7
    <3> QED
      BY <2>2, <2>4, <2>7, <3>1, <3>2
  <2>8. CASE ~Due(i)
    <3>1. after[i + 1] = [cfg |-> after[i].cfg, expects |-> NamesFile(argv[i + 1])]
      BY <2>2, <2>3, <2>8 DEF FirstWord
    <3>2. NamesFile(argv[i + 1]) <=> Due(i + 1)
      BY <2>5, <2>6, <2>8
    <3> QED
      BY <2>2, <2>4, <2>8, <3>1, <3>2
  <2> QED
    BY <2>7, <2>8
<1> HIDE DEF S
<1>5. S = Nat
  BY <1>3, <1>4, Induction DEF S
<1>6. after[n].cfg = FromFiles(argv, n)
  BY <1>1, <1>5 DEF S
<1>7. \A field \in Fields : Before(FilesFor(field, argv), n) = FilesFor(field, argv)
  BY WordsAre DEF Before, FilesFor
<1> QED
  BY <1>2, <1>6, <1>7, Zenon DEF FromFiles

-------------------------------------------------------------------------------
(* The second pass. *)

SecondTurns(after, start, argv, n) ==
    after = [i \in 0 .. n |-> IF i = 0 THEN start ELSE SecondWord(after[i - 1], argv[i])]

LEMMA SecondTurnsExist ==
    ASSUME NEW start, NEW argv, NEW n \in Nat
    PROVE  \E after : SecondTurns(after, start, argv, n)
<1> DEFINE S == {i \in Nat : \E after : SecondTurns(after, start, argv, i)}
<1>1. 0 \in S
  <2>1. SecondTurns([j \in 0 .. 0 |-> start], start, argv, 0)
    BY DEF SecondTurns
  <2> QED
    BY <2>1
<1>2. ASSUME NEW i \in S PROVE i + 1 \in S
  <2>1. PICK after : SecondTurns(after, start, argv, i)
    OBVIOUS
  <2>2. PICK more : more = [j \in 0 .. i + 1 |->
                              IF j = 0 THEN start ELSE SecondWord(after[j - 1], argv[j])]
    OBVIOUS
  <2>3. \A j \in 0 .. i : more[j] = after[j]
    BY <2>1, <2>2 DEF SecondTurns
  <2>4. \A j \in 0 .. i + 1 : j # 0 => j - 1 \in 0 .. i
    OBVIOUS
  <2>5. more = [j \in 0 .. i + 1 |-> IF j = 0 THEN start ELSE SecondWord(more[j - 1], argv[j])]
    BY <2>2, <2>3, <2>4
  <2> QED
    BY <2>5 DEF SecondTurns
<1> HIDE DEF S
<1>3. S = Nat
  BY <1>1, <1>2, Induction DEF S
<1> QED
  BY <1>3 DEF S

Begun(base) == [ok |-> TRUE, wants |-> "", cfg |-> base]

\* The second loop over the words, turn by turn.
LEMMA SecondTurn ==
    ASSUME NEW base, NEW argv, Len(argv) \in Nat
    PROVE  \E after :
              /\ after[0] = Begun(base)
              /\ \A i \in 1 .. Len(argv) : after[i] = SecondWord(after[i - 1], argv[i])
              /\ SecondPass(base, argv) = after[Len(argv)]
<1> DEFINE n == Len(argv)
           start == Begun(base)
           chosen == CHOOSE after : SecondTurns(after, start, argv, n)
<1>1. SecondTurns(chosen, start, argv, n)
  BY SecondTurnsExist, Zenon
<1>2. SecondPass(base, argv) = chosen[n]
  BY Zenon DEF SecondPass, SecondTurns, Begun
<1> HIDE DEF chosen, n
<1>3. PICK after : after = chosen
  OBVIOUS
<1> HIDE DEF start
<1>4. n \in Nat /\ after = [i \in 0 .. n |->
                              IF i = 0 THEN start ELSE SecondWord(after[i - 1], argv[i])]
  BY <1>1, <1>3 DEF SecondTurns, n
<1>5. after[0] = start /\ \A i \in 1 .. n : after[i] = SecondWord(after[i - 1], argv[i])
  BY <1>4
<1> QED
  BY <1>2, <1>3, <1>5 DEF n, start

\* The first i words hold no option that is unknown.
AcceptedTo(argv, i) == \A k \in DOMAIN argv : k =< i /\ k % 2 = 1 => argv[k] \in DOMAIN Option

\* Where field is given a value by an option.
Given(field, argv) == {i \in Options(argv) : TrueOption[argv[i]] = field}

\* What a field is after the second pass has looked at i words.
FromOptions(base, argv, i) ==
    [field \in Fields |->
        IF Before(Given(field, argv), i) = {} THEN base[field]
        ELSE Converted(field, argv[Max(Before(Given(field, argv), i)) + 1])]

\* The word after an option is taken for its value; the one after that is an option.
LEMMA OneOption ==
    ASSUME NEW base, NEW argv \in Seq(STRING), NEW i \in Nat, i + 1 =< Len(argv),
           i % 2 = 1 => argv[i] \in DOMAIN Option
    PROVE  IF i % 2 = 1
           THEN With(FromOptions(base, argv, i), Option[argv[i]], argv[i + 1])
                   = FromOptions(base, argv, i + 1)
           ELSE FromOptions(base, argv, i) = FromOptions(base, argv, i + 1)
<1> DEFINE old == FromOptions(base, argv, i)
           G(field) == Given(field, argv)
           value == argv[i + 1]
<1>1. PICK new : new = FromOptions(base, argv, i + 1)
  OBVIOUS
<1>2. IsSettings(old) /\ IsSettings(new)
  BY <1>1 DEF FromOptions, IsSettings
<1>3. ASSUME NEW field \in Fields
      PROVE  /\ G(field) \in SUBSET Nat
             /\ i \in G(field) <=> i % 2 = 1 /\ Option[argv[i]] = field
  <2>1. i % 2 = 1 => i # 0
    OBVIOUS
  <2>2. i \in Options(argv) <=> i % 2 = 1
    BY <2>1, WordsAre
  <2> QED
    BY <2>2, WordsAre, TablesAgree DEF Given
<1>4. ASSUME NEW field \in Fields
      PROVE  new[field] = IF i \in G(field) THEN Converted(field, value) ELSE old[field]
  <2>1. /\ new[field] = (IF Before(G(field), i + 1) = {} THEN base[field]
                         ELSE Converted(field, argv[Max(Before(G(field), i + 1)) + 1]))
        /\ old[field] = (IF Before(G(field), i) = {} THEN base[field]
                         ELSE Converted(field, argv[Max(Before(G(field), i)) + 1]))
    BY <1>1 DEF FromOptions
  <2>2. /\ i \in G(field) => Before(G(field), i + 1) # {} /\ Max(Before(G(field), i + 1)) = i
        /\ i \notin G(field) => Before(G(field), i + 1) = Before(G(field), i)
    BY <1>3, BeforeNext
  <2> HIDE DEF G, old
  <2> QED
    BY <2>1, <2>2
<1>5. CASE i % 2 = 1
  <2>0. PICK option : option = Option[argv[i]]
    OBVIOUS
  <2>1. option \in Fields \cup {NoField}
    BY <1>5, <2>0, OptionIs
  <2>2. PICK set : set = With(old, option, value)
    OBVIOUS
  <2> HIDE DEF old, G, value
  <2>3. /\ IsSettings(set)
        /\ \A f \in Fields :
              set[f] = IF f = option THEN Converted(option, value) ELSE old[f]
    <3>1. IsSettings(With(old, option, value))
      BY <1>2, <2>1, WithIs
    <3>2. ASSUME NEW f \in Fields
          PROVE  With(old, option, value)[f] = IF f = option THEN Converted(option, value) ELSE old[f]
      BY <1>2, <2>1, WithIs
    <3> QED
      BY <2>2, <3>1, <3>2
  <2>4. \A f \in Fields : set[f] = new[f]
    BY <1>3, <1>4, <1>5, <2>0, <2>3
  <2>5. set = [f \in Fields |-> set[f]] /\ new = [f \in Fields |-> new[f]]
    BY <1>2, <2>3 DEF IsSettings
  <2>6. set = new
    BY <2>4, <2>5
  <2> QED
    BY <1>1, <1>5, <2>0, <2>2, <2>6 DEF old, value
<1>6. CASE i % 2 # 1
  <2> HIDE DEF old, G, value
  <2>1. \A f \in Fields : old[f] = new[f]
    BY <1>3, <1>4, <1>6
  <2>2. old = [f \in Fields |-> old[f]] /\ new = [f \in Fields |-> new[f]]
    BY <1>2 DEF IsSettings
  <2>3. old = new
    BY <2>1, <2>2
  <2> QED
    BY <1>1, <1>6, <2>3 DEF old
<1> QED
  BY <1>5, <1>6

Wanted(argv, i) == IF i % 2 = 1 THEN Option[argv[i]] ELSE ""

\* What the second pass has come to after i words.
Reached(pass, base, argv, i) ==
    IF AcceptedTo(argv, i)
    THEN pass = [ok |-> TRUE, wants |-> Wanted(argv, i), cfg |-> FromOptions(base, argv, i)]
    ELSE pass.ok = FALSE

\* One more word takes it on.
LEMMA OneWord ==
    ASSUME NEW base, NEW argv \in Seq(STRING), NEW i \in Nat, i + 1 =< Len(argv),
           NEW pass, Reached(pass, base, argv, i)
    PROVE  Reached(SecondWord(pass, argv[i + 1]), base, argv, i + 1)
<1> DEFINE n == Len(argv)
<1>1. PICK next : next = SecondWord(pass, argv[i + 1])
  OBVIOUS
<1>2. n \in Nat /\ DOMAIN argv = 1 .. n /\ i + 1 \in 1 .. n
  BY WordsAre
<1>3. /\ (i + 1) % 2 = 1 <=> i % 2 = 0
      /\ i % 2 \in {0, 1}
  BY Parity
<1>4. AcceptedTo(argv, i + 1) <=> /\ AcceptedTo(argv, i)
                                  /\ i % 2 = 0 => argv[i + 1] \in DOMAIN Option
  <2>1. \A k \in 1 .. n : k =< i + 1 <=> k =< i \/ k = i + 1
    BY <1>2
  <2> QED
    BY <1>2, <1>3, <2>1 DEF AcceptedTo
<1>5. CASE ~AcceptedTo(argv, i)
  <2>1. next = pass /\ pass.ok = FALSE
    BY <1>1, <1>5 DEF SecondWord, Reached
  <2> QED
    BY <1>1, <1>4, <1>5, <2>1 DEF Reached
<1>6. CASE AcceptedTo(argv, i) /\ i % 2 = 1
  <2>1. i \in DOMAIN argv
    <3>1. i # 0
      BY <1>6
    <3> QED
      BY <1>2, <3>1
  <2>2. argv[i] \in DOMAIN Option /\ Option[argv[i]] # ""
    <3>1. argv[i] \in DOMAIN Option
      BY <1>6, <2>1 DEF AcceptedTo
    <3> QED
      BY <3>1, OptionIs, Zenon
  <2>3. Wanted(argv, i) = Option[argv[i]]
    BY <1>6 DEF Wanted
  <2>4. pass.ok /\ pass.wants = Option[argv[i]] /\ pass.cfg = FromOptions(base, argv, i)
    BY <1>6, <2>3 DEF Reached
  <2>5. next = [ok |-> TRUE, wants |-> "", cfg |-> With(pass.cfg, pass.wants, argv[i + 1])]
    BY <1>1, <2>2, <2>4, Zenon DEF SecondWord
  <2>6. With(FromOptions(base, argv, i), Option[argv[i]], argv[i + 1])
           = FromOptions(base, argv, i + 1)
    BY <1>6, <2>2, OneOption
  <2>7. AcceptedTo(argv, i + 1) /\ Wanted(argv, i + 1) = ""
    <3>1. ~(i % 2 = 0) /\ ~((i + 1) % 2 = 1)
      BY <1>3, <1>6
    <3> QED
      BY <1>4, <1>6, <3>1, Zenon DEF Wanted
  <2> QED
    BY <1>1, <2>4, <2>5, <2>6, <2>7 DEF Reached
<1>7. CASE AcceptedTo(argv, i) /\ i % 2 = 0
  <2>1. Wanted(argv, i) = ""
    <3>1. ~(i % 2 = 1)
      BY <1>7
    <3> QED
      BY <3>1, Zenon DEF Wanted
  <2>2. pass.ok /\ pass.wants = "" /\ pass.cfg = FromOptions(base, argv, i)
    <3>1. pass = [ok |-> TRUE, wants |-> "", cfg |-> FromOptions(base, argv, i)]
      BY <1>7, <2>1, Zenon DEF Reached
    <3> QED
      BY <3>1
  <2>3. next = IF argv[i + 1] \in DOMAIN Option
               THEN [ok |-> TRUE, wants |-> Option[argv[i + 1]], cfg |-> pass.cfg]
               ELSE [ok |-> FALSE, wants |-> "", cfg |-> pass.cfg]
    BY <1>1, <2>2 DEF SecondWord
  <2>4. FromOptions(base, argv, i) = FromOptions(base, argv, i + 1)
    <3>1. ~(i % 2 = 1)
      BY <1>7
    <3> QED
      BY <3>1, OneOption
  <2>5. Wanted(argv, i + 1) = Option[argv[i + 1]]
    BY <1>3, <1>7 DEF Wanted
  <2>6. CASE argv[i + 1] \in DOMAIN Option
    BY <1>1, <1>4, <1>7, <2>2, <2>3, <2>4, <2>5, <2>6 DEF Reached
  <2>7. CASE argv[i + 1] \notin DOMAIN Option
    <3>1. next.ok = FALSE
      BY <2>3, <2>7
    <3>2. ~AcceptedTo(argv, i + 1)
      BY <1>4, <1>7, <2>7
    <3> QED
      BY <1>1, <3>1, <3>2 DEF Reached
  <2> QED
    BY <2>6, <2>7
<1> QED
  BY <1>3, <1>5, <1>6, <1>7

\* The second pass ends as the options say, or gives up at a word that is none.
LEMMA OptionsGive ==
    ASSUME NEW base, IsSettings(base), NEW argv \in Seq(STRING)
    PROVE  /\ SecondPass(base, argv).ok <=> Accepted(argv)
           /\ Accepted(argv) =>
                 SecondPass(base, argv).cfg =
                    [field \in Fields |->
                        IF Given(field, argv) = {} THEN base[field]
                        ELSE Converted(field, argv[Max(Given(field, argv)) + 1])]
<1> DEFINE n == Len(argv)
<1>1. n \in Nat /\ DOMAIN argv = 1 .. n
  BY WordsAre
<1>2. PICK after : /\ after[0] = Begun(base)
                   /\ \A i \in 1 .. n : after[i] = SecondWord(after[i - 1], argv[i])
                   /\ SecondPass(base, argv) = after[n]
  BY <1>1, SecondTurn, Zenon
<1> DEFINE S == {i \in Nat : i =< n => Reached(after[i], base, argv, i)}
<1>3. 0 \in S
  <2>1. \A field \in Fields : Before(Given(field, argv), 0) = {}
    BY WordsAre DEF Before, Given
  <2>2. FromOptions(base, argv, 0) = [field \in Fields |-> base[field]]
    BY <2>1 DEF FromOptions
  <2>3. AcceptedTo(argv, 0)
    BY <1>1 DEF AcceptedTo
  <2>4. Wanted(argv, 0) = ""
    BY DEF Wanted
  <2>5. base = FromOptions(base, argv, 0)
    BY <2>2 DEF IsSettings
  <2>6. Reached(after[0], base, argv, 0)
    BY <1>2, <2>3, <2>4, <2>5, Zenon DEF Reached, Begun
  <2> QED
    BY <2>6
<1>4. ASSUME NEW i \in S PROVE i + 1 \in S
  <2> SUFFICES ASSUME i + 1 =< n
               PROVE  Reached(after[i + 1], base, argv, i + 1)
    OBVIOUS
  <2>1. i \in Nat /\ i =< n /\ i + 1 \in 1 .. n /\ (i + 1) - 1 = i
    BY <1>1
  <2>2. Reached(after[i], base, argv, i)
    BY <2>1
  <2>3. after[i + 1] = SecondWord(after[i], argv[i + 1])
    BY <1>2, <2>1
  <2> QED
    BY <2>1, <2>2, <2>3, OneWord
<1> HIDE DEF S
<1>5. S = Nat
  BY <1>3, <1>4, Induction DEF S
<1>6. Reached(after[n], base, argv, n)
  BY <1>1, <1>5 DEF S
<1>7. AcceptedTo(argv, n) <=> Accepted(argv)
  BY <1>1, TablesAgree DEF AcceptedTo, Accepted
<1>8. \A field \in Fields : Before(Given(field, argv), n) = Given(field, argv)
  BY WordsAre DEF Before, Given
<1>9. FromOptions(base, argv, n) =
         [field \in Fields |->
            IF Given(field, argv) = {} THEN base[field]
            ELSE Converted(field, argv[Max(Given(field, argv)) + 1])]
  BY <1>8, Zenon DEF FromOptions
<1>10. CASE Accepted(argv)
  <2>1. after[n].ok /\ after[n].cfg = FromOptions(base, argv, n)
    BY <1>6, <1>7, <1>10 DEF Reached
  <2> QED
    BY <1>2, <1>9, <1>10, <2>1
<1>11. CASE ~Accepted(argv)
  BY <1>2, <1>6, <1>7, <1>11 DEF Reached
<1> QED
  BY <1>10, <1>11

-------------------------------------------------------------------------------
(* Both. *)

\* The first pass ends with settings, whatever the words are.
LEMMA FirstPassSettings ==
    ASSUME NEW argv \in Seq(STRING)
    PROVE  IsSettings(FirstPass(argv))
<1> DEFINE n == Len(argv)
<1>1. n \in Nat
  BY WordsAre
<1>2. PICK after : /\ after[0] = [cfg |-> Default, expects |-> FALSE]
                   /\ \A i \in 1 .. n : after[i] = FirstWord(after[i - 1], argv[i])
                   /\ FirstPass(argv) = after[n].cfg
  BY <1>1, FirstTurn
<1> DEFINE S == {i \in Nat : i =< n => IsSettings(after[i].cfg)}
<1>3. 0 \in S
  <2>1. IsSettings(Default)
    BY DEF IsSettings, Fields, Default
  <2>2. after[0].cfg = Default
    BY <1>2
  <2> QED
    BY <2>1, <2>2
<1>4. ASSUME NEW i \in S PROVE i + 1 \in S
  <2> SUFFICES ASSUME i + 1 =< n PROVE IsSettings(after[i + 1].cfg)
    OBVIOUS
  <2>1. i \in Nat /\ i =< n /\ i + 1 \in 1 .. n /\ (i + 1) - 1 = i
    BY <1>1
  <2>2. IsSettings(after[i].cfg)
    BY <2>1
  <2>3. after[i + 1] = FirstWord(after[i], argv[i + 1])
    BY <1>2, <2>1
  <2>4. after[i + 1].cfg = after[i].cfg \/ after[i + 1].cfg = LoadFromFile(after[i].cfg, argv[i + 1])
    BY <2>3 DEF FirstWord
  <2>5. PICK read : read = LoadFromFile(after[i].cfg, argv[i + 1])
    OBVIOUS
  <2>6. read = [field \in Fields |->
                  IF LinesFor(field, argv[i + 1]) = {} THEN after[i].cfg[field]
                  ELSE Converted(field, LastLine(field, argv[i + 1]))]
    BY <2>2, <2>5, FileGives DEF LastLine
  <2>7. IsSettings(read)
    BY <2>6 DEF IsSettings
  <2> QED
    BY <2>2, <2>4, <2>5, <2>7
<1> HIDE DEF S
<1>5. S = Nat
  BY <1>3, <1>4, Induction DEF S
<1> QED
  BY <1>1, <1>2, <1>5 DEF S

\* What parse() makes of any command line and any files: it goes on just when every
\* other word is an option, and then with the settings that the line and the files
\* mean, if no value looks like --config.
THEOREM ParseMeans ==
    ASSUME NEW argv \in Seq(STRING)
    PROVE  /\ Parse(argv).ok <=> Accepted(argv)
           /\ Accepted(argv) /\ Plain(argv) => Parse(argv).cfg = Meaning(argv)
<1>1. PICK base : base = FirstPass(argv)
  OBVIOUS
<1>2. IsSettings(base)
  BY <1>1, FirstPassSettings
<1>3. PICK result : result = Parse(argv)
  OBVIOUS
<1>4. result = SecondPass(base, argv)
  BY <1>1, <1>3 DEF Parse
<1>5. /\ result.ok <=> Accepted(argv)
      /\ Accepted(argv) =>
            result.cfg = [field \in Fields |->
                            IF Given(field, argv) = {} THEN base[field]
                            ELSE Converted(field, argv[Max(Given(field, argv)) + 1])]
  BY <1>2, <1>4, OptionsGive
<1>6. ASSUME Accepted(argv), Plain(argv) PROVE result.cfg = Meaning(argv)
  <2>1. base = [field \in Fields |->
                  IF FilesFor(field, argv) = {} THEN Default[field]
                  ELSE Converted(field, LastLine(field, argv[Max(FilesFor(field, argv)) + 1]))]
    BY <1>1, <1>6, FilesGive
  <2>2. Meaning(argv) = [field \in Fields |->
                            IF Given(field, argv) # {}
                            THEN Converted(field, argv[Max(Given(field, argv)) + 1])
                            ELSE IF FilesFor(field, argv) # {}
                                 THEN Converted(field, LastLine(field, argv[Max(FilesFor(field, argv)) + 1]))
                            ELSE Default[field]]
    BY Zenon DEF Meaning, Fields, Given, FilesFor, LastLine
  <2>3. ASSUME NEW field \in Fields
        PROVE  (IF Given(field, argv) = {} THEN base[field]
                ELSE Converted(field, argv[Max(Given(field, argv)) + 1]))
               = (IF Given(field, argv) # {}
                  THEN Converted(field, argv[Max(Given(field, argv)) + 1])
                  ELSE IF FilesFor(field, argv) # {}
                       THEN Converted(field, LastLine(field, argv[Max(FilesFor(field, argv)) + 1]))
                  ELSE Default[field])
    BY <2>1
  <2>4. result.cfg = [field \in Fields |->
                            IF Given(field, argv) # {}
                            THEN Converted(field, argv[Max(Given(field, argv)) + 1])
                            ELSE IF FilesFor(field, argv) # {}
                                 THEN Converted(field, LastLine(field, argv[Max(FilesFor(field, argv)) + 1]))
                            ELSE Default[field]]
    BY <1>5, <1>6, <2>3, Zenon
  <2> QED
    BY <2>2, <2>4
<1> QED
  BY <1>3, <1>5, <1>6
===============================================================================
