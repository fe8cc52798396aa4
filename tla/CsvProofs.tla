------------------------------- MODULE CsvProofs -------------------------------
(***************************************************************************)
(* Proofs about Csv, for all lines.                                        *)
(***************************************************************************)
EXTENDS Csv, SequenceTheorems, FiniteSetTheorems, WellFoundedInduction, TLAPS

Text0 == Seq(Chars \cup {NUL})

\* Elements of sequences, and sequences of which one element is replaced.
LEMMA ElementFacts ==
  ASSUME NEW S, NEW s \in Seq(S)
  PROVE  Len(s) \in Nat /\ \A k \in Nat : (k < Len(s) => s[k + 1] \in S)
  OBVIOUS

LEMMA ReplacedFacts ==
  ASSUME NEW S, NEW s \in Seq(S), NEW d \in 1..Len(s), NEW c \in S
  PROVE  /\ [s EXCEPT ![d] = c] \in Seq(S)
         /\ Len([s EXCEPT ![d] = c]) = Len(s)
         /\ \A k \in 1..Len(s) : (k # d => [s EXCEPT ![d] = c][k] = s[k])
  OBVIOUS

\* The line, its length and its characters.
LEMMA LineFacts ==
  ASSUME line \in Lines
  PROVE  /\ N \in Nat
         /\ Append(line.text, NUL) \in Text0
         /\ Len(Append(line.text, NUL)) = N + 1
         /\ Append(line.text, NUL)[N + 1] = NUL
  BY CsvAssumption DEF N, Text0

\* Both invariants, together inductive.
Inv == TypeOK /\ InPlace

LEMMA InitInv == Init => Inv
<1> SUFFICES ASSUME Init PROVE Inv
  OBVIOUS
<1>1. TypeOK
  <2>1. line \in Lines /\ str = Append(line.text, NUL) /\ original = str
    BY DEF Init
  <2>2. N \in Nat /\ str \in Seq(Chars \cup {NUL}) /\ Len(str) = N + 1
    BY <2>1, LineFacts DEF Text0
  <2>3. /\ original \in Seq(Chars \cup {NUL}) /\ Len(original) = N + 1
        /\ pc \in {"row", "ascii28", "csv", "field", "done", "crashed"}
        /\ escaped \in BOOLEAN /\ again \in BOOLEAN /\ pc # "field"
    BY <2>1, <2>2 DEF Init
  <2>4. /\ position \in 0..N /\ start \in 0..N /\ end \in 0..N
        /\ columnIndex \in Nat /\ offset \in Nat /\ quotes \in Int /\ commas \in Nat
    BY <2>2 DEF Init
  <2> QED BY <2>1, <2>2, <2>3, <2>4 DEF TypeOK
<1>2. InPlace
  BY LineFacts DEF Init, InPlace, At
<1> QED BY <1>1, <1>2 DEF Inv

\* What Inv says of the place that is read.
LEMMA PlaceFacts ==
  ASSUME Inv
  PROVE  /\ N \in Nat /\ position \in 0..N /\ At(position) \in Chars \cup {NUL}
         /\ At(position) = original[position + 1]
         /\ At(N) = NUL
         /\ (At(position) # NUL => position < N)
<1>1. N \in Nat /\ position \in 0..N
  BY LineFacts DEF Inv, TypeOK
<1>2. At(position) \in Chars \cup {NUL}
  BY <1>1, ElementFacts DEF Inv, TypeOK, At
<1>3. At(position) = original[position + 1] /\ At(N) = original[N + 1] /\ original[N + 1] = NUL
  BY <1>1 DEF Inv, InPlace
<1> QED BY <1>1, <1>2, <1>3

\* The shift replaces a character before the place that is read.
LEMMA ShiftFacts ==
  ASSUME Inv, Turn
  PROVE  /\ str' \in Seq(Chars \cup {NUL}) /\ Len(str') = N + 1
         /\ \A k \in position..N : str'[k + 1] = original[k + 1]
<1>1. CASE offset = 0
  BY <1>1 DEF Turn, Shifted, Inv, TypeOK, InPlace, At
<1>2. CASE offset # 0
  <2>1. /\ position - offset + 1 \in 1..position /\ position \in 0..N /\ N \in Nat
        /\ Len(str) = N + 1 /\ str \in Seq(Chars \cup {NUL})
    BY <1>2, PlaceFacts DEF Turn, Inv, TypeOK, InPlace
  <2>2. str' = [str EXCEPT ![position - offset + 1] = At(position)]
    BY <1>2 DEF Turn, Shifted
  <2>3. position - offset + 1 \in 1..Len(str) /\ At(position) \in Chars \cup {NUL}
    BY <2>1, PlaceFacts
  <2>4. /\ str' \in Seq(Chars \cup {NUL}) /\ Len(str') = Len(str)
        /\ \A k \in 1..Len(str) : (k # position - offset + 1 => str'[k] = str[k])
    BY <2>1, <2>2, <2>3, ReplacedFacts
  <2>5. ASSUME NEW k \in position..N
        PROVE  str'[k + 1] = original[k + 1]
    <3>1. k + 1 \in 1..Len(str) /\ k + 1 # position - offset + 1
      BY <2>1
    <3>2. str[k + 1] = original[k + 1]
      BY DEF Inv, InPlace, At
    <3> QED BY <2>4, <3>1, <3>2
  <2> QED BY <2>1, <2>4, <2>5
<1> QED BY <1>1, <1>2

\* The field that is read lies where it was, or between its quotes.
LEMMA FieldFacts ==
  ASSUME NEW s \in 0..N, NEW e \in 0..N, NEW q \in Int, N \in Nat, s <= e, EndField(s, e, q)
  PROVE  /\ start' \in 0..N /\ end' \in 0..N /\ quotes' \in Int
         /\ start' <= end' + 1 /\ end' <= e /\ pc' = "field"
<1>1. CASE Strip(s, e)
  BY <1>1 DEF EndField, Strip
<1>2. CASE ~Strip(s, e)
  BY <1>2 DEF EndField
<1> QED BY <1>1, <1>2

LEMMA CountFacts ==
  ASSUME NEW q \in Int, NEW k \in Nat, NEW c, Counted(q, k, c)
  PROVE  quotes' \in Int /\ commas' \in Nat
  BY DEF Counted, IsQuote, IsComma

-----------------------------------------------------------------------------
\* Each action keeps both.
LEMMA BeginAscii28Inv == Inv /\ BeginAscii28 => Inv'
<1> SUFFICES ASSUME Inv, BeginAscii28 PROVE Inv'
  OBVIOUS
<1>1. quotes' \in Int /\ commas' \in Nat
  BY CountFacts DEF BeginAscii28
<1>2. TypeOK'
  BY <1>1 DEF Inv, TypeOK, BeginAscii28, readVars, rowVars, N
<1>3. InPlace'
  BY PlaceFacts DEF Inv, InPlace, BeginAscii28, rowVars, At, N
<1> QED BY <1>2, <1>3 DEF Inv

LEMMA TakeAscii28Inv == Inv /\ TakeAscii28 => Inv'
<1> SUFFICES ASSUME Inv, TakeAscii28 PROVE Inv'
  OBVIOUS
<1>1. quotes' \in Int /\ commas' \in Nat
  BY CountFacts DEF Inv, TypeOK, TakeAscii28
<1>2. position < N /\ N \in Nat /\ position \in Nat /\ original[position + 1] # NUL
  BY PlaceFacts DEF TakeAscii28
<1>3. TypeOK'
  BY <1>1, <1>2 DEF Inv, TypeOK, TakeAscii28, readVars, rowVars, N
<1>4. InPlace'
  <2>1. /\ pc' = pc /\ pc = "ascii28" /\ str' = str /\ original' = original /\ start' = start
        /\ position' = position + 1 /\ line' = line
    BY DEF TakeAscii28, rowVars
  <2>2. /\ \A k \in position..N : At(k) = original[k + 1]
        /\ original[N + 1] = NUL /\ start \in Nat /\ start <= position
        /\ \A k \in 0..position - 1 : original[k + 1] # NUL
    BY <2>1 DEF Inv, InPlace, TypeOK
  <2>3. N' = N
    BY <2>1 DEF N
  <2>4. \A k \in position'..N : At(k)' = original[k + 1]
    BY <1>2, <2>1, <2>2 DEF At
  <2>5. \A k \in 0..position' - 1 : original[k + 1] # NUL
    BY <1>2, <2>1, <2>2
  <2>6. start' <= position'
    BY <1>2, <2>1, <2>2
  <2>7. /\ \A k \in position'..N' : At(k)' = original'[k + 1]
        /\ original'[N' + 1] = NUL
        /\ \A k \in 0..position' - 1 : original'[k + 1] # NUL
    BY <2>1, <2>2, <2>3, <2>4, <2>5
  <2> QED BY <2>1, <2>6, <2>7 DEF InPlace
<1> QED BY <1>3, <1>4 DEF Inv

LEMMA EndAscii28Inv == Inv /\ EndAscii28 => Inv'
<1> SUFFICES ASSUME Inv, EndAscii28 PROVE Inv'
  OBVIOUS
<1>1. /\ start' \in 0..N /\ end' \in 0..N /\ quotes' \in Int
      /\ start' <= end' + 1 /\ end' <= position /\ pc' = "field"
  BY FieldFacts, PlaceFacts DEF Inv, TypeOK, InPlace, EndAscii28
<1>2. TypeOK'
  BY <1>1 DEF Inv, TypeOK, EndAscii28, readVars, rowVars, N
<1>3. InPlace'
  BY <1>1 DEF Inv, InPlace, EndAscii28, rowVars, At, N
<1> QED BY <1>2, <1>3 DEF Inv

LEMMA EmptyCsvInv == Inv /\ EmptyCsv => Inv'
<1> SUFFICES ASSUME Inv, EmptyCsv PROVE Inv'
  OBVIOUS
<1>1. /\ start' \in 0..N /\ end' \in 0..N /\ quotes' \in Int
      /\ start' <= end' + 1 /\ end' <= position /\ pc' = "field"
  BY FieldFacts, PlaceFacts DEF EmptyCsv
<1>2. TypeOK'
  BY <1>1 DEF Inv, TypeOK, EmptyCsv, readVars, rowVars, N
<1>3. InPlace'
  BY <1>1 DEF Inv, InPlace, EmptyCsv, rowVars, At, N
<1> QED BY <1>2, <1>3 DEF Inv

LEMMA BeginCsvInv == Inv /\ BeginCsv => Inv'
<1> SUFFICES ASSUME Inv, BeginCsv PROVE Inv'
  OBVIOUS
<1>1. At(position) # NUL
  BY DEF BeginCsv, isParseDone
<1>2. position < N /\ N \in Nat /\ position \in Nat /\ original[position + 1] # NUL
  BY <1>1, PlaceFacts
<1>3. (position' = position \/ position' = position + 1) /\ start' = position' /\ pc' = "csv"
      /\ offset' = 0
  BY DEF BeginCsv
<1>4. TypeOK'
  BY <1>2, <1>3 DEF Inv, TypeOK, BeginCsv, rowVars, N
<1>5. InPlace'
  BY <1>2, <1>3 DEF Inv, InPlace, BeginCsv, rowVars, At, N
<1> QED BY <1>4, <1>5 DEF Inv

LEMMA EndCsvInv == Inv /\ EndCsv => Inv'
<1> SUFFICES ASSUME Inv, EndCsv PROVE Inv'
  OBVIOUS
<1>1. /\ position - offset \in 0..N /\ start <= position - offset
      /\ position - offset <= position /\ N \in Nat
  BY PlaceFacts DEF EndCsv, Turn, Inv, TypeOK, InPlace
<1>2. /\ start' \in 0..N /\ end' \in 0..N /\ quotes' \in Int
      /\ start' <= end' + 1 /\ end' <= position /\ pc' = "field"
  BY <1>1, FieldFacts DEF Inv, TypeOK, EndCsv
<1>3. TypeOK'
  BY <1>2, ShiftFacts DEF Inv, TypeOK, EndCsv, readVars, rowVars, N
<1>4. InPlace'
  BY <1>2, ShiftFacts DEF Inv, InPlace, EndCsv, rowVars, At, N
<1> QED BY <1>3, <1>4 DEF Inv

LEMMA SkipQuoteInv == Inv /\ SkipQuote => Inv'
<1> SUFFICES ASSUME Inv, SkipQuote PROVE Inv'
  OBVIOUS
<1>1. quotes' \in Int /\ commas' \in Nat
  BY CountFacts DEF Inv, TypeOK, SkipQuote
<1>2. /\ position \in Nat /\ N \in Nat /\ position + 1 < N
      /\ original[position + 1] # NUL /\ original[position + 2] # NUL
  <2>1. At(position) # NUL /\ At(position + 1) # NUL
    BY DEF SkipQuote, Doubled, Quote, NUL
  <2>2. position \in Nat /\ N \in Nat /\ position < N /\ original[position + 1] # NUL
    BY <2>1, PlaceFacts
  <2>3. At(position + 1) = original[position + 2] /\ At(N) = NUL
    BY <2>2, PlaceFacts DEF Inv, InPlace
  <2>4. position + 1 # N
    BY <2>1, <2>3
  <2> QED BY <2>1, <2>2, <2>3, <2>4
<1>3. position' = position + 2 /\ offset' = offset + 1 /\ start <= position - offset /\ pc = "csv"
  BY DEF SkipQuote, Turn, Inv, InPlace
<1>4. TypeOK'
  BY <1>1, <1>2, <1>3, ShiftFacts DEF Inv, TypeOK, SkipQuote, rowVars, N
<1>5. InPlace'
  <2>1. \A k \in position'..N' : (At(k) = original[k + 1])'
    BY <1>2, <1>3, ShiftFacts DEF SkipQuote, rowVars, At, N
  <2>2. \A k \in 0..position' - 1 : original'[k + 1] # NUL
    BY <1>2, <1>3 DEF Inv, InPlace, SkipQuote, rowVars
  <2> QED BY <1>2, <1>3, <2>1, <2>2 DEF Inv, TypeOK, InPlace, SkipQuote, rowVars, N
<1> QED BY <1>4, <1>5 DEF Inv

LEMMA CloseCsvInv == Inv /\ CloseCsv => Inv'
<1> SUFFICES ASSUME Inv, CloseCsv PROVE Inv'
  OBVIOUS
<1>1. /\ position - offset \in 0..N /\ start <= position - offset
      /\ position - offset <= position /\ N \in Nat
  BY PlaceFacts DEF CloseCsv, Turn, Inv, TypeOK, InPlace
<1>2. /\ start' \in 0..N /\ end' \in 0..N /\ quotes' \in Int
      /\ start' <= end' + 1 /\ end' <= position /\ pc' = "field"
  BY <1>1, FieldFacts DEF Inv, TypeOK, CloseCsv
<1>3. /\ position < N /\ position \in Nat /\ original[position + 1] # NUL
      /\ position' = position + 1
  BY PlaceFacts DEF CloseCsv, Closing, Quote, NUL
<1>4. TypeOK'
  <2>1. str' \in Seq(Chars \cup {NUL}) /\ Len(str') = N + 1
    BY ShiftFacts DEF CloseCsv
  <2>2. /\ line' \in Lines /\ original' \in Seq(Chars \cup {NUL}) /\ Len(original') = N + 1
        /\ escaped' \in BOOLEAN /\ again' \in BOOLEAN /\ N' = N
    BY DEF Inv, TypeOK, CloseCsv, readVars, rowVars, N
  <2>3. /\ position' \in 0..N /\ columnIndex' \in Nat /\ offset' \in Nat /\ commas' \in Nat
    BY <1>1, <1>3 DEF Inv, TypeOK, CloseCsv, readVars, rowVars
  <2> QED BY <1>2, <2>1, <2>2, <2>3 DEF TypeOK
<1>5. InPlace'
  <2>1. \A k \in position'..N' : (At(k) = original[k + 1])'
    BY <1>3, ShiftFacts DEF CloseCsv, rowVars, At, N
  <2>2. \A k \in 0..position' - 1 : original'[k + 1] # NUL
    BY <1>3 DEF Inv, InPlace, CloseCsv, rowVars
  <2>3. original'[N' + 1] = NUL
    BY DEF Inv, InPlace, CloseCsv, rowVars, N
  <2>4. pc' = "field" /\ end' <= position'
    BY <1>1, <1>2, <1>3
  <2> QED BY <2>1, <2>2, <2>3, <2>4 DEF InPlace
<1> QED BY <1>4, <1>5 DEF Inv

LEMMA TakeCsvInv == Inv /\ TakeCsv => Inv'
<1> SUFFICES ASSUME Inv, TakeCsv PROVE Inv'
  OBVIOUS
<1>1. quotes' \in Int /\ commas' \in Nat
  BY CountFacts DEF Inv, TypeOK, TakeCsv
<1>2. /\ position < N /\ position \in Nat /\ N \in Nat /\ original[position + 1] # NUL
      /\ position' = position + 1
  BY PlaceFacts DEF TakeCsv, EndsField
<1>3. TypeOK'
  BY <1>1, <1>2, ShiftFacts DEF Inv, TypeOK, TakeCsv, readVars, rowVars, N
<1>4. InPlace'
  <2>1. \A k \in position'..N' : (At(k) = original[k + 1])'
    BY <1>2, ShiftFacts DEF TakeCsv, rowVars, At, N
  <2>2. \A k \in 0..position' - 1 : original'[k + 1] # NUL
    BY <1>2 DEF Inv, InPlace, TakeCsv, rowVars
  <2>3. original'[N' + 1] = NUL
    BY DEF Inv, InPlace, TakeCsv, rowVars, N
  <2>4. pc' = "csv" /\ start' <= position' - offset'
    BY <1>2 DEF Inv, TypeOK, InPlace, TakeCsv, Turn, readVars
  <2> QED BY <2>1, <2>2, <2>3, <2>4 DEF InPlace
<1> QED BY <1>3, <1>4 DEF Inv

LEMMA WriteFieldInv == Inv /\ WriteField => Inv'
<1> SUFFICES ASSUME Inv, WriteField PROVE Inv'
  OBVIOUS
<1>1. CASE isParseDone(position)
  BY <1>1 DEF Inv, TypeOK, InPlace, WriteField, readVars, At, N
<1>2. CASE ~isParseDone(position)
  <2>1. /\ position < N /\ position \in Nat /\ N \in Nat /\ original[position + 1] # NUL
        /\ position' = position + 1 /\ columnIndex' = columnIndex + 1 /\ pc' = "row"
    BY <1>2, PlaceFacts DEF WriteField, isParseDone
  <2>2. TypeOK'
    BY <2>1 DEF Inv, TypeOK, WriteField, readVars, N
  <2>3. InPlace'
    <3>1. str' = str /\ original' = original /\ N' = N
      BY DEF WriteField, N
    <3>2. \A k \in position'..N : At(k)' = original[k + 1]
      <4>1. position'..N \subseteq position..N
        BY <2>1
      <4> QED BY <3>1, <4>1 DEF Inv, InPlace, At
    <3>3. \A k \in 0..position' - 1 : original[k + 1] # NUL
      <4>1. \A k \in 0..position' - 1 : k \in 0..position - 1 \/ k = position
        BY <2>1
      <4> QED BY <2>1, <4>1 DEF Inv, InPlace
    <3> QED BY <2>1, <3>1, <3>2, <3>3 DEF Inv, InPlace, At
  <2> QED BY <2>2, <2>3 DEF Inv
<1> QED BY <1>1, <1>2

LEMMA ReadAgainInv == Inv /\ ReadAgain => Inv'
<1> SUFFICES ASSUME Inv, ReadAgain PROVE Inv'
  OBVIOUS
<1>1. N \in Nat /\ At(N) = NUL
  BY PlaceFacts
<1>2. TypeOK'
  BY <1>1 DEF Inv, TypeOK, ReadAgain, readVars, N
<1>3. InPlace'
  BY <1>1 DEF Inv, InPlace, ReadAgain, At, N
<1> QED BY <1>2, <1>3 DEF Inv

LEMMA DieOfLengthInv == Inv /\ DieOfLength => Inv'
<1> SUFFICES ASSUME Inv, DieOfLength PROVE Inv'
  OBVIOUS
<1>1. TypeOK'
  BY DEF Inv, TypeOK, DieOfLength, readVars, rowVars, N
<1>2. InPlace'
  BY DEF Inv, InPlace, DieOfLength, rowVars, At, N
<1> QED BY <1>1, <1>2 DEF Inv

LEMMA StepInv == Inv /\ [Next]_vars => Inv'
<1> SUFFICES ASSUME Inv, [Next]_vars PROVE Inv'
  OBVIOUS
<1>1. CASE UNCHANGED vars
  BY <1>1 DEF vars, Inv, TypeOK, InPlace, At, N
<1> QED BY <1>1, BeginAscii28Inv, TakeAscii28Inv, EndAscii28Inv, EmptyCsvInv, BeginCsvInv,
           EndCsvInv, SkipQuoteInv, CloseCsvInv, TakeCsvInv, WriteFieldInv, ReadAgainInv,
           DieOfLengthInv
        DEF Next

LEMMA SpecInv == Spec => []Inv
BY InitInv, StepInv, PTL DEF Spec

\* Reading a line never leaves it, and every field lies within it, at most one
\* character short of being empty, whatever the line is and however often it is
\* read (csv.c:36-129).
THEOREM FieldsLieInLine == Spec => []TypeOK
<1>1. Inv => TypeOK
  BY DEF Inv
<1> QED BY <1>1, SpecInv, PTL

\* A CSV field can be unescaped in place: the rest of the line is as it was, and
\* is read up to its NUL (csv.h:36-39, csv.c:84-128).
THEOREM UnescapedInPlace == Spec => []InPlace
<1>1. Inv => InPlace
  BY DEF Inv
<1> QED BY <1>1, SpecInv, PTL

-----------------------------------------------------------------------------
(* The quotes and commas of a field are counted.                             *)

\* Where the character c is in t, after place s up to place e, and how often.
Places(t, s, e, c) == {k \in (s + 1)..e : t[k] = c}
Number(t, s, e, c) == Cardinality(Places(t, s, e, c))

LEMMA NumberFacts ==
  ASSUME NEW t, NEW s \in Nat, NEW e \in Nat, NEW c
  PROVE  /\ IsFiniteSet(Places(t, s, e, c)) /\ Number(t, s, e, c) \in Nat
         /\ Number(t, s, e, c) > 0 <=> \E k \in (s + 1)..e : t[k] = c
<1>1. IsFiniteSet((s + 1)..e)
  BY FS_Interval
<1>2. IsFiniteSet(Places(t, s, e, c))
  <2>1. Places(t, s, e, c) \subseteq (s + 1)..e
    BY DEF Places
  <2> QED BY <1>1, <2>1, FS_Subset
<1>3. Number(t, s, e, c) \in Nat /\ (Number(t, s, e, c) = 0 <=> Places(t, s, e, c) = {})
  BY <1>2, FS_CardinalityType, FS_EmptySet DEF Number
<1>4. Places(t, s, e, c) = {} <=> ~\E k \in (s + 1)..e : t[k] = c
  BY DEF Places
<1>5. Number(t, s, e, c) > 0 <=> Number(t, s, e, c) # 0
  BY <1>3
<1> QED BY <1>2, <1>3, <1>4, <1>5, Zenon

LEMMA NumberNone ==
  ASSUME NEW t, NEW s \in Nat, NEW c
  PROVE  Number(t, s, s, c) = 0
<1>1. Places(t, s, s, c) = {}
  BY DEF Places
<1> QED BY <1>1, FS_EmptySet DEF Number

LEMMA NumberMore ==
  ASSUME NEW t, NEW s \in Nat, NEW e \in Nat, s <= e, NEW c
  PROVE  Number(t, s, e + 1, c) = Number(t, s, e, c) + (IF t[e + 1] = c THEN 1 ELSE 0)
<1> DEFINE A == Places(t, s, e, c)
           B == Places(t, s, e + 1, c)
<1>1. e + 1 \notin A /\ IsFiniteSet(A) /\ Cardinality(A) \in Nat
  <2>1. e + 1 \notin A
    BY DEF Places
  <2> QED BY <2>1, NumberFacts DEF Number
<1>2. ASSUME t[e + 1] = c PROVE B = A \cup {e + 1}
  BY <1>2 DEF Places
<1>3. ASSUME t[e + 1] # c PROVE B = A
  <2>1. \A k \in (s + 1)..(e + 1) : k \in (s + 1)..e \/ k = e + 1
    OBVIOUS
  <2>2. \A k \in (s + 1)..e : k \in (s + 1)..(e + 1)
    OBVIOUS
  <2> QED BY <1>3, <2>1, <2>2 DEF Places
<1> HIDE DEF A, B
<1>4. ASSUME t[e + 1] = c PROVE Cardinality(B) = Cardinality(A) + 1
  BY <1>1, <1>2, <1>4, FS_AddElement
<1>5. ASSUME t[e + 1] # c PROVE Cardinality(B) = Cardinality(A) + 0
  BY <1>1, <1>3, <1>5
<1> QED BY <1>4, <1>5 DEF Number, A, B

\* Without the first character.
LEMMA NumberLess ==
  ASSUME NEW t, NEW s \in Nat, NEW e \in Nat, s < e, NEW c
  PROVE  Number(t, s, e, c) = Number(t, s + 1, e, c) + (IF t[s + 1] = c THEN 1 ELSE 0)
<1> DEFINE A == Places(t, s + 1, e, c)
           B == Places(t, s, e, c)
<1>1. s + 1 \notin A /\ IsFiniteSet(A) /\ Cardinality(A) \in Nat
  <2>1. s + 1 \notin A
    BY DEF Places
  <2>2. s + 1 \in Nat
    OBVIOUS
  <2>3. IsFiniteSet(A) /\ Number(t, s + 1, e, c) \in Nat
    BY <2>2, NumberFacts
  <2> QED BY <2>1, <2>3 DEF Number
<1>0. \A k \in (s + 1)..e : k \in ((s + 1) + 1)..e \/ k = s + 1
  OBVIOUS
<1>2. \A k \in ((s + 1) + 1)..e : k \in (s + 1)..e
  OBVIOUS
<1>3. s + 1 \in (s + 1)..e
  OBVIOUS
<1>4. ASSUME t[s + 1] = c PROVE B = A \cup {s + 1}
  BY <1>0, <1>2, <1>3, <1>4 DEF Places
<1>5. ASSUME t[s + 1] # c PROVE B = A
  BY <1>0, <1>2, <1>5 DEF Places
<1> HIDE DEF A, B
<1>6. ASSUME t[s + 1] = c PROVE Cardinality(B) = Cardinality(A) + 1
  BY <1>1, <1>4, <1>6, FS_AddElement
<1>7. ASSUME t[s + 1] # c PROVE Cardinality(B) = Cardinality(A) + 0
  BY <1>1, <1>5, <1>7
<1> QED BY <1>6, <1>7 DEF Number, A, B

\* The pair of quotes that is taken off a field is not of what is left of it.
LEMMA NumberStripped ==
  ASSUME NEW t, NEW s \in Nat, NEW e \in Nat, s < e, t[s + 1] = Quote, t[e] = Quote
  PROVE  /\ Number(t, s, e, Quote) > 2 <=> \E k \in (s + 2)..(e - 1) : t[k] = Quote
         /\ Number(t, s, e, Comma) > 0 <=> \E k \in (s + 2)..(e - 1) : t[k] = Comma
<1>1. PICK a \in Nat : a = s + 1 /\ a + 1 = s + 2
  OBVIOUS
<1>2. /\ Number(t, s, e, Quote) = Number(t, a, e, Quote) + 1
      /\ Number(t, s, e, Comma) = Number(t, a, e, Comma)
  <2>1. t[s + 1] # Comma
    BY DEF Quote, Comma
  <2>2. Number(t, a, e, Comma) \in Nat
    BY NumberFacts
  <2>3. Number(t, s, e, Quote) = Number(t, a, e, Quote) + (IF t[s + 1] = Quote THEN 1 ELSE 0)
    BY <1>1, NumberLess
  <2>4. Number(t, s, e, Comma) = Number(t, a, e, Comma) + (IF t[s + 1] = Comma THEN 1 ELSE 0)
    BY <1>1, NumberLess
  <2> QED BY <2>1, <2>2, <2>3, <2>4
<1>3. CASE e = a
  <2>1. Number(t, a, e, Quote) = 0 /\ Number(t, a, e, Comma) = 0
    BY <1>3, NumberNone
  <2>2. (s + 2)..(e - 1) = {}
    BY <1>1, <1>3
  <2> QED BY <1>2, <2>1, <2>2
<1>4. CASE a < e
  <2>1. PICK b \in Nat : b = e - 1 /\ b + 1 = e /\ a <= b
    BY <1>4
  <2>2. t[b + 1] = Quote /\ t[b + 1] # Comma
    BY <2>1 DEF Quote, Comma
  <2>3. /\ Number(t, a, b, Quote) \in Nat /\ Number(t, a, b, Comma) \in Nat
        /\ Number(t, a, b, Quote) > 0 <=> \E k \in (a + 1)..b : t[k] = Quote
        /\ Number(t, a, b, Comma) > 0 <=> \E k \in (a + 1)..b : t[k] = Comma
    BY NumberFacts
  <2>4. /\ Number(t, a, e, Quote) = Number(t, a, b, Quote) + 1
        /\ Number(t, a, e, Comma) = Number(t, a, b, Comma)
    <3>1. /\ Number(t, a, b + 1, Quote) = Number(t, a, b, Quote) + (IF t[b + 1] = Quote THEN 1 ELSE 0)
          /\ Number(t, a, b + 1, Comma) = Number(t, a, b, Comma) + (IF t[b + 1] = Comma THEN 1 ELSE 0)
      BY <2>1, NumberMore
    <3> QED BY <2>1, <2>2, <2>3, <3>1
  <2>5. /\ Number(t, s, e, Quote) > 2 <=> Number(t, a, b, Quote) > 0
        /\ Number(t, s, e, Comma) > 0 <=> Number(t, a, b, Comma) > 0
    BY <1>2, <2>3, <2>4
  <2>6. (a + 1)..b = (s + 2)..(e - 1)
    BY <1>1, <2>1
  <2> QED BY <2>3, <2>5, <2>6
<1> QED BY <1>1, <1>3, <1>4

\* The counts are those of the characters between the positions.
Held(c) == \E k \in (start + 1)..end : str[k] = c
Counts ==
  /\ pc = "csv" => /\ quotes = Number(str, start, position - offset, Quote)
                   /\ commas = Number(str, start, position - offset, Comma)
  /\ pc = "ascii28" => /\ quotes = Number(str, start, position + 1, Quote)
                       /\ commas = Number(str, start, position + 1, Comma)
  /\ pc = "field" => (quotes > 0 <=> Held(Quote)) /\ (commas > 0 <=> Held(Comma))

LEMMA FieldCounts ==
  ASSUME NEW s \in Nat, NEW e \in Nat, s <= e, NEW q, NEW m, EndField(s, e, q),
         q = Number(str', s, e, Quote), m = Number(str', s, e, Comma), commas' = m
  PROVE  pc' = "field" /\ (quotes' > 0 <=> Held(Quote)') /\ (commas' > 0 <=> Held(Comma)')
<1>1. /\ q \in Nat /\ m \in Nat
      /\ q > 0 <=> \E k \in (s + 1)..e : str'[k] = Quote
      /\ m > 0 <=> \E k \in (s + 1)..e : str'[k] = Comma
  BY NumberFacts
<1>2. CASE Strip(s, e)
  <2>1. s < e /\ str'[s + 1] = Quote /\ str'[e] = Quote
    BY <1>2 DEF Strip
  <2>2. start' = s + 1 /\ end' = e - 1 /\ quotes' = q - 2 /\ pc' = "field"
    BY <1>2 DEF EndField
  <2>3. /\ q > 2 <=> \E k \in (s + 2)..(e - 1) : str'[k] = Quote
        /\ m > 0 <=> \E k \in (s + 2)..(e - 1) : str'[k] = Comma
    BY <2>1, NumberStripped
  <2>4. (q - 2 > 0 <=> q > 2) /\ (start' + 1)..end' = (s + 2)..(e - 1)
    BY <1>1, <2>2
  <2> QED BY <2>2, <2>3, <2>4 DEF Held
<1>3. CASE ~Strip(s, e)
  <2>1. start' = s /\ end' = e /\ quotes' = q /\ pc' = "field"
    BY <1>3 DEF EndField
  <2> QED BY <1>1, <2>1 DEF Held
<1> QED BY <1>2, <1>3

\* The shift leaves what was read of the field, and adds the character that is read.
LEMMA ShiftText ==
  ASSUME Inv, Turn
  PROVE  /\ start \in Nat /\ position \in Nat /\ offset \in Nat /\ position - offset \in Nat
         /\ start <= position - offset
         /\ \A k \in 1..(position - offset) : str'[k] = str[k]
         /\ str'[position - offset + 1] = At(position)
<1>1. /\ start \in Nat /\ position \in Nat /\ offset \in Nat /\ position - offset \in Nat
      /\ start <= position - offset /\ position <= N /\ N \in Nat
  BY PlaceFacts DEF Turn, Inv, TypeOK, InPlace
<1>2. Len(str) = N + 1 /\ str \in Seq(Chars \cup {NUL}) /\ At(position) \in Chars \cup {NUL}
  BY PlaceFacts DEF Inv, TypeOK
<1>3. (\A k \in 1..(position - offset) : str'[k] = str[k]) /\ str'[position - offset + 1] = At(position)
  <2>1. CASE offset = 0
    <3>1. str' = str /\ position - offset + 1 = position + 1
      BY <1>1, <2>1 DEF Turn, Shifted
    <3> QED BY <3>1 DEF At
  <2>2. CASE offset # 0
    <3>1. PICK p \in Nat : p = position - offset + 1 /\ p \in 1..Len(str)
      BY <1>1, <1>2
    <3>2. str' = [str EXCEPT ![p] = At(position)]
      BY <2>2, <3>1 DEF Turn, Shifted
    <3>3. \A k \in 1..Len(str) : (k # p => str'[k] = str[k])
      BY <1>2, <3>1, <3>2, ReplacedFacts
    <3>4. str'[p] = At(position)
      BY <1>2, <3>1, <3>2
    <3>5. \A k \in 1..(position - offset) : k \in 1..Len(str) /\ k # p
      BY <1>1, <1>2, <3>1
    <3> QED BY <3>1, <3>3, <3>4, <3>5
  <2> QED BY <2>1, <2>2
<1> QED BY <1>1, <1>3

LEMMA ShiftCounts ==
  ASSUME Inv, Turn, Counts
  PROVE  /\ start \in Nat /\ position \in Nat /\ offset \in Nat /\ position - offset \in Nat
         /\ start <= position - offset
         /\ quotes = Number(str', start, position - offset, Quote)
         /\ commas = Number(str', start, position - offset, Comma)
         /\ str'[position - offset + 1] = At(position)
<1>1. /\ start \in Nat /\ position \in Nat /\ offset \in Nat /\ position - offset \in Nat
      /\ start <= position - offset
      /\ \A k \in 1..(position - offset) : str'[k] = str[k]
      /\ str'[position - offset + 1] = At(position)
  BY ShiftText
<1>4. PICK e \in Nat : e = position - offset
  BY <1>1
<1>5. \A k \in (start + 1)..e : str'[k] = str[k]
  BY <1>1, <1>4
<1>6. \A c : Number(str', start, e, c) = Number(str, start, e, c)
  <2>1. ASSUME NEW c PROVE Number(str', start, e, c) = Number(str, start, e, c)
    <3>1. Places(str', start, e, c) = Places(str, start, e, c)
      BY <1>5 DEF Places
    <3> QED BY <3>1 DEF Number
  <2> QED BY <2>1
<1> QED BY <1>1, <1>4, <1>6 DEF Counts, Turn

LEMMA CountsStep == Inv /\ Counts /\ [Next]_vars => Counts'
<1> SUFFICES ASSUME Inv, Counts, [Next]_vars PROVE Counts'
  OBVIOUS
<1>1. CASE BeginAscii28
  <2>1. PICK p \in Nat : p = position
    BY PlaceFacts
  <2>2. \A c : Number(str, p, p + 1, c) = IF str[p + 1] = c THEN 1 ELSE 0
    <3>1. ASSUME NEW c PROVE Number(str, p, p + 1, c) = IF str[p + 1] = c THEN 1 ELSE 0
      <4>1. Number(str, p, p, c) = 0
        BY NumberNone
      <4>2. Number(str, p, p + 1, c) = Number(str, p, p, c) + (IF str[p + 1] = c THEN 1 ELSE 0)
        BY NumberMore
      <4> QED BY <4>1, <4>2
    <3> QED BY <3>1
  <2>3. /\ str' = str /\ position' = p /\ start' = p /\ pc' = "ascii28"
        /\ quotes' = 0 + IsQuote(str[p + 1]) /\ commas' = 0 + IsComma(str[p + 1])
    BY <1>1, <2>1 DEF BeginAscii28, Counted, At
  <2> QED BY <2>2, <2>3 DEF Counts, IsQuote, IsComma
<1>2. CASE TakeAscii28
  <2>1. PICK s \in Nat, e \in Nat : s = start /\ e = position + 1 /\ s <= e
    BY <1>2, PlaceFacts DEF Inv, TypeOK, InPlace, TakeAscii28
  <2>2. \A c : Number(str, s, e + 1, c) = Number(str, s, e, c) + (IF str[e + 1] = c THEN 1 ELSE 0)
    BY <2>1, NumberMore
  <2>3. /\ str' = str /\ position' + 1 = e + 1 /\ start' = s /\ pc' = "ascii28" /\ pc = "ascii28"
        /\ quotes' = quotes + IsQuote(str[e + 1]) /\ commas' = commas + IsComma(str[e + 1])
    BY <1>2, <2>1 DEF TakeAscii28, Counted, At
  <2> QED BY <2>1, <2>2, <2>3 DEF Counts, IsQuote, IsComma
<1>3. CASE EndAscii28
  <2>1. PICK s \in Nat, e \in Nat : s = start /\ e = position /\ s <= e /\ pc = "ascii28"
    BY <1>3, PlaceFacts DEF Inv, TypeOK, InPlace, EndAscii28
  <2>2. str' = str /\ EndField(s, e, quotes) /\ commas' = commas
    BY <1>3, <2>1 DEF EndAscii28
  <2>3. str[e + 1] # Quote /\ str[e + 1] # Comma
    BY <1>3, <2>1 DEF EndAscii28, At, NUL, Separator, Newline, Quote, Comma
  <2>4. quotes = Number(str', s, e, Quote) /\ commas = Number(str', s, e, Comma)
    <3>1. quotes = Number(str, s, e + 1, Quote) /\ commas = Number(str, s, e + 1, Comma)
      BY <2>1 DEF Counts
    <3>2. Number(str, s, e, Quote) \in Nat /\ Number(str, s, e, Comma) \in Nat
      BY NumberFacts
    <3>3. /\ Number(str, s, e + 1, Quote) = Number(str, s, e, Quote) + 0
          /\ Number(str, s, e + 1, Comma) = Number(str, s, e, Comma) + 0
      BY <2>1, <2>3, NumberMore
    <3> QED BY <2>2, <3>1, <3>2, <3>3
  <2> QED BY <2>1, <2>2, <2>4, FieldCounts DEF Counts
<1>4. CASE EmptyCsv
  <2>1. PICK s \in Nat : s = position
    BY PlaceFacts
  <2>2. EndField(s, s, 0) /\ commas' = 0
    BY <1>4, <2>1 DEF EmptyCsv
  <2>3. Number(str', s, s, Quote) = 0 /\ Number(str', s, s, Comma) = 0
    BY NumberNone
  <2> QED BY <2>2, <2>3, FieldCounts DEF Counts
<1>5. CASE BeginCsv
  <2>1. PICK p \in Nat : p = position'
    BY <1>5, PlaceFacts DEF BeginCsv
  <2>2. /\ start' = p /\ offset' = 0 /\ quotes' = 0 /\ commas' = 0 /\ pc' = "csv"
        /\ position' - offset' = p
    BY <1>5, <2>1 DEF BeginCsv
  <2>3. Number(str', p, p, Quote) = 0 /\ Number(str', p, p, Comma) = 0
    BY NumberNone
  <2> QED BY <2>2, <2>3 DEF Counts
<1>6. CASE EndCsv \/ CloseCsv
  <2>1. PICK s \in Nat, e \in Nat : s = start /\ e = position - offset /\ s <= e
    BY <1>6, ShiftCounts DEF EndCsv, CloseCsv
  <2>2. EndField(s, e, quotes) /\ commas' = commas
    BY <1>6, <2>1 DEF EndCsv, CloseCsv
  <2>3. quotes = Number(str', s, e, Quote) /\ commas = Number(str', s, e, Comma)
    BY <1>6, <2>1, ShiftCounts DEF EndCsv, CloseCsv
  <2> QED BY <2>1, <2>2, <2>3, FieldCounts DEF Counts
<1>7. CASE SkipQuote \/ TakeCsv
  <2>1. PICK s \in Nat, e \in Nat : /\ s = start /\ e = position - offset /\ s <= e
                                    /\ position \in Nat /\ offset \in Nat
    BY <1>7, ShiftCounts DEF SkipQuote, TakeCsv
  <2>2. /\ start' = s /\ position' - offset' = e + 1 /\ pc' = "csv"
        /\ quotes' = quotes + IsQuote(At(position)) /\ commas' = commas + IsComma(At(position))
    <3>1. CASE SkipQuote
      BY <2>1, <3>1 DEF SkipQuote, Turn, Counted, Doubled
    <3>2. CASE TakeCsv
      BY <2>1, <3>2 DEF TakeCsv, Turn, Counted, readVars
    <3> QED BY <1>7, <3>1, <3>2
  <2>3. /\ quotes = Number(str', s, e, Quote) /\ commas = Number(str', s, e, Comma)
        /\ str'[e + 1] = At(position)
    BY <1>7, <2>1, ShiftCounts DEF SkipQuote, TakeCsv
  <2>4. \A c : Number(str', s, e + 1, c) = Number(str', s, e, c) + (IF str'[e + 1] = c THEN 1 ELSE 0)
    BY <2>1, NumberMore
  <2> QED BY <2>2, <2>3, <2>4 DEF Counts, IsQuote, IsComma
<1>8. CASE WriteField \/ ReadAgain \/ DieOfLength
  BY <1>8 DEF Counts, WriteField, ReadAgain, DieOfLength
<1>9. CASE UNCHANGED vars
  BY <1>9 DEF Counts, Held, vars
<1> QED BY <1>1, <1>2, <1>3, <1>4, <1>5, <1>6, <1>7, <1>8, <1>9 DEF Next

-----------------------------------------------------------------------------
(* FlattenSeq, which is defined by recursion: by induction, in the form of the *)
(* first-order theorems on well-founded relations, its recursion has a         *)
(* solution, and two sequences that begin alike have solutions that do.        *)

LEMMA SetInduction ==
  ASSUME NEW S, 0 \in S, \A k \in Nat : k \in S => k + 1 \in S
  PROVE  Nat \subseteq S
<1> SUFFICES ASSUME Nat \ S # {} PROVE FALSE
  OBVIOUS
<1> DEFINE R == OpToRel(<, Nat)
<1>1. PICK m \in Nat \ S : \A k \in Nat \ S : ~(<<k, m>> \in R)
  <2>1. IsWellFoundedOn(R, Nat)
    BY NatLessThanWellFounded
  <2> HIDE DEF R
  <2> QED
    BY <2>1, WFMin
<1>2. m # 0 /\ m - 1 \in Nat
  OBVIOUS
<1>3. m - 1 \in S
  <2>1. <<m - 1, m>> \in R
    BY <1>2 DEF OpToRel
  <2> QED
    BY <1>1, <1>2, <2>1
<1> QED
  BY <1>2, <1>3

\* all[k] is the concatenation of the first k elements of t.
Partial(t, m, all) == all = [k \in 1..m |-> IF k = 1 THEN t[k] ELSE all[k-1] \o t[k]]

LEMMA PartialMore ==
  ASSUME NEW t, NEW m \in Nat, NEW all, Partial(t, m, all)
  PROVE  \E more : Partial(t, m + 1, more)
<1> DEFINE x == IF m = 0 THEN t[1] ELSE all[m] \o t[m + 1]
           more == [k \in 1..(m + 1) |-> IF k = m + 1 THEN x ELSE all[k]]
           next == [k \in 1..(m + 1) |-> IF k = 1 THEN t[k] ELSE more[k-1] \o t[k]]
<1>1. ASSUME NEW k \in 1..(m + 1) PROVE more[k] = next[k]
  <2>1. CASE k = m + 1 /\ m = 0
    BY <2>1
  <2>2. CASE k = m + 1 /\ m # 0
    <3>1. m \in 1..(m + 1) /\ m + 1 \in 1..(m + 1) /\ m # m + 1
      BY <2>2
    <3>2. more[m] = all[m] /\ more[m + 1] = x
      <4> HIDE DEF x
      <4> QED
        BY <3>1
    <3>3. x = all[m] \o t[m + 1]
      BY <2>2
    <3>4. m + 1 # 1 /\ (m + 1) - 1 = m /\ m + 1 \in 1..(m + 1)
      BY <2>2
    <3> HIDE DEF more, x
    <3>5. next[m + 1] = more[m] \o t[m + 1]
      BY <3>4
    <3> QED
      BY <2>2, <3>2, <3>3, <3>5
  <2>3. CASE k \in 1..m
    <3>1. more[k] = all[k] /\ (k # 1 => more[k-1] = all[k-1])
      BY <2>3
    <3>2. all[k] = IF k = 1 THEN t[k] ELSE all[k-1] \o t[k]
      BY <2>3 DEF Partial
    <3> QED
      BY <2>3, <3>1, <3>2
  <2> QED
    BY <2>1, <2>2, <2>3
<1>2. more = next
  BY <1>1
<1>3. Partial(t, m + 1, more)
  <2> HIDE DEF more
  <2> QED
    BY <1>2 DEF Partial
<1> QED
  BY <1>3

LEMMA PartialExists == ASSUME NEW t, NEW m \in Nat PROVE \E all : Partial(t, m, all)
<1> DEFINE D == {k \in Nat : \E all : Partial(t, k, all)}
<1>1. 0 \in D
  <2>1. Partial(t, 0, [k \in 1..0 |-> 0])
    BY DEF Partial
  <2> QED
    BY <2>1
<1>2. ASSUME NEW k \in Nat, k \in D PROVE k + 1 \in D
  BY <1>2, PartialMore
<1> HIDE DEF D
<1>3. Nat \subseteq D
  BY <1>1, <1>2, SetInduction
<1> QED
  BY <1>3 DEF D

LEMMA PartialFirst ==
  ASSUME NEW t, NEW m \in Nat, m # 0, NEW all, Partial(t, m, all)
  PROVE  all[1] = t[1]
<1> DEFINE h == [k \in 1..m |-> IF k = 1 THEN t[k] ELSE all[k-1] \o t[k]]
<1>1. all = h
  BY DEF Partial
<1>2. h[1] = t[1]
  OBVIOUS
<1> HIDE DEF h
<1> QED
  BY <1>1, <1>2

LEMMA PartialNext ==
  ASSUME NEW t, NEW m \in Nat, NEW all, Partial(t, m, all)
  PROVE  \A j \in 2..m : all[j] = all[j - 1] \o t[j]
<1> DEFINE h == [k \in 1..m |-> IF k = 1 THEN t[k] ELSE all[k-1] \o t[k]]
<1>1. all = h
  BY DEF Partial
<1>2. ASSUME NEW j \in 2..m PROVE h[j] = all[j - 1] \o t[j]
  <2>1. j \in 1..m /\ j # 1
    OBVIOUS
  <2> QED
    BY <2>1
<1> HIDE DEF h
<1> QED
  BY <1>1, <1>2

LEMMA PartialSame ==
  ASSUME NEW t, NEW u, NEW m \in Nat, NEW p \in Nat, NEW f, NEW g,
         Partial(t, m, f), Partial(u, p, g),
         NEW k \in Nat, k <= m, k <= p, \A e \in 1..k : t[e] = u[e]
  PROVE  \A e \in 1..k : f[e] = g[e]
<1> DEFINE D == {j \in Nat : j \in 1..k => f[j] = g[j]}
<1>1. 0 \in D
  OBVIOUS
<1>2. ASSUME NEW j \in Nat, j \in D PROVE j + 1 \in D
  <2>1. PICK q \in Nat : q = j + 1
    OBVIOUS
  <2>2. CASE q \in 1..k /\ j # 0
    <3>1. q \in 2..m /\ q \in 2..p /\ j = q - 1
      BY <2>1, <2>2
    <3>2. f[q] = f[j] \o t[q]
      <4>1. \A e \in 2..m : f[e] = f[e - 1] \o t[e]
        BY PartialNext
      <4> QED
        BY <3>1, <4>1
    <3>3. g[q] = g[j] \o u[q]
      <4>1. \A e \in 2..p : g[e] = g[e - 1] \o u[e]
        BY PartialNext
      <4> QED
        BY <3>1, <4>1
    <3>4. f[j] = g[j] /\ t[q] = u[q]
      BY <1>2, <2>1, <2>2
    <3> QED
      BY <2>1, <3>2, <3>3, <3>4
  <2>3. CASE q \in 1..k /\ j = 0
    <3>1. m # 0 /\ p # 0 /\ 1 \in 1..k
      BY <2>1, <2>3
    <3>2. f[1] = t[1]
      BY <3>1, PartialFirst
    <3>3. g[1] = u[1]
      BY <3>1, PartialFirst
    <3> QED
      BY <2>1, <2>3, <3>1, <3>2, <3>3
  <2> QED
    BY <2>1, <2>2, <2>3
<1> HIDE DEF D
<1>3. Nat \subseteq D
  BY <1>1, <1>2, SetInduction
<1> QED
  BY <1>3 DEF D

\* FlattenSeq(t) is the last of the concatenations.
LEMMA FlattenIs ==
  ASSUME NEW t, NEW m \in Nat, m = Len(t), m # 0
  PROVE  \E all : Partial(t, m, all) /\ FlattenSeq(t) = all[m]
<1> DEFINE flatten[k \in 1..Len(t)] == IF k = 1 THEN t[k] ELSE flatten[k-1] \o t[k]
<1>1. \E all : all = [k \in 1..Len(t) |-> IF k = 1 THEN t[k] ELSE all[k-1] \o t[k]]
  BY PartialExists DEF Partial
<1>2. flatten = [k \in 1..Len(t) |-> IF k = 1 THEN t[k] ELSE flatten[k-1] \o t[k]]
  BY <1>1, Zenon
<1>3. FlattenSeq(t) = flatten[Len(t)]
  <2>1. Len(t) # 0
    OBVIOUS
  <2> QED
    BY <2>1, Zenon DEF FlattenSeq
<1> HIDE DEF flatten
<1>4. Partial(t, Len(t), flatten)
  BY <1>2, Zenon DEF Partial
<1> QED
  BY <1>3, <1>4

Alike(t, u, m) == \A e \in 1..m : t[e] = u[e]

LEMMA PartialLast ==
  ASSUME NEW t, NEW u, NEW m \in Nat, NEW k \in Nat, m <= k, NEW f, NEW g,
         Partial(t, m, f), Partial(u, k, g), Alike(t, u, m)
  PROVE  Alike(f, g, m)
<1>1. m <= m
  OBVIOUS
<1> QED
  BY <1>1, PartialSame DEF Alike

LEMMA FlattenMore ==
  ASSUME NEW t, NEW u, NEW m \in Nat, NEW k \in Nat, Len(t) = m, Len(u) = k, k = m + 1,
         \A e \in 1..m : t[e] = u[e]
  PROVE  FlattenSeq(u) = IF m = 0 THEN u[k] ELSE FlattenSeq(t) \o u[k]
<1>1. PICK g : Partial(u, k, g) /\ FlattenSeq(u) = g[k]
  BY FlattenIs
<1>2. CASE m = 0
  <2>1. g[1] = u[1]
    BY <1>1, <1>2, PartialFirst
  <2> QED
    BY <1>1, <1>2, <2>1
<1>3. CASE m # 0
  <2>1. PICK f : Partial(t, m, f) /\ FlattenSeq(t) = f[m]
    BY <1>3, FlattenIs
  <2>2. m <= k /\ m <= m /\ m \in 1..m /\ k \in 2..k /\ m = k - 1
    BY <1>3
  <2>3. \A e \in 1..m : f[e] = g[e]
    <3>1. Partial(t, m, f) /\ Partial(u, k, g) /\ m <= k /\ Alike(t, u, m)
      BY <1>1, <2>1, <2>2 DEF Alike
    <3>2. Alike(f, g, m)
      BY <3>1, PartialLast
    <3> QED
      BY <3>2 DEF Alike
  <2>4. \A e \in 2..k : g[e] = g[e - 1] \o u[e]
    BY <1>1, PartialNext
  <2>5. g[k] = g[m] \o u[k]
    BY <2>2, <2>4
  <2> QED
    BY <1>1, <1>3, <2>1, <2>2, <2>3, <2>5
<1> QED
  BY <1>2, <1>3

LEMMA FlattenEmpty == FlattenSeq(<<>>) = <<>>
<1>1. Len(<<>>) = 0
  OBVIOUS
<1> QED
  BY <1>1 DEF FlattenSeq

LEMMA FlattenAppend ==
  ASSUME NEW S, NEW t \in Seq(Seq(S)), NEW x \in Seq(S)
  PROVE  FlattenSeq(Append(t, x)) = FlattenSeq(t) \o x
<1>1. PICK u : u = Append(t, x)
  OBVIOUS
<1>2. PICK m \in Nat, k \in Nat : /\ m = Len(t) /\ k = Len(u) /\ k = m + 1 /\ u[k] = x
                                  /\ \A e \in 1..m : t[e] = u[e]
  BY <1>1
<1>3. FlattenSeq(u) = IF m = 0 THEN u[k] ELSE FlattenSeq(t) \o u[k]
  BY <1>2, FlattenMore
<1>4. CASE m = 0
  <2>1. t = <<>>
    <3>1. Len(t) = 0
      BY <1>2, <1>4
    <3> QED
      BY <3>1
  <2>2. FlattenSeq(t) = <<>>
    BY <2>1, FlattenEmpty
  <2>3. <<>> \o x = x
    OBVIOUS
  <2> QED
    BY <1>1, <1>2, <1>3, <1>4, <2>2, <2>3
<1> QED
  BY <1>1, <1>2, <1>3, <1>4

\* A concatenation of sequences over S is one.
LEMMA FlattenType ==
  ASSUME NEW S, NEW t \in Seq(Seq(S))
  PROVE  FlattenSeq(t) \in Seq(S)
<1>1. CASE Len(t) = 0
  <2>1. t = <<>>
    BY <1>1
  <2>2. FlattenSeq(t) = <<>>
    BY <2>1, FlattenEmpty
  <2> QED
    BY <2>2
<1>2. CASE Len(t) # 0
  <2>1. PICK m \in Nat : m = Len(t) /\ m # 0 /\ \A e \in 1..m : t[e] \in Seq(S)
    BY <1>2
  <2>2. PICK all : Partial(t, m, all) /\ FlattenSeq(t) = all[m]
    BY <2>1, FlattenIs
  <2> DEFINE D == {j \in Nat : j \in 1..m => all[j] \in Seq(S)}
  <2>3. 0 \in D
    OBVIOUS
  <2>4. ASSUME NEW j \in Nat, j \in D PROVE j + 1 \in D
    <3>1. PICK q \in Nat : q = j + 1
      OBVIOUS
    <3>2. CASE q \in 1..m /\ j # 0
      <4>1. \A e \in 2..m : all[e] = all[e - 1] \o t[e]
        BY <2>2, PartialNext
      <4>2. all[q] = all[j] \o t[q]
        <5>1. q \in 2..m /\ j = q - 1
          BY <3>1, <3>2
        <5> QED
          BY <4>1, <5>1
      <4>3. all[j] \in Seq(S) /\ t[q] \in Seq(S)
        BY <2>1, <2>4, <3>1, <3>2
      <4>4. all[j] \o t[q] \in Seq(S)
        BY <4>3
      <4> QED
        BY <3>1, <4>2, <4>4
    <3>3. CASE q \in 1..m /\ j = 0
      <4>1. all[1] = t[1]
        BY <2>1, <2>2, PartialFirst
      <4> QED
        BY <2>1, <3>1, <3>3, <4>1
    <3> QED
      BY <3>1, <3>2, <3>3
  <2> HIDE DEF D
  <2>5. Nat \subseteq D
    BY <2>3, <2>4, SetInduction
  <2> QED
    BY <2>1, <2>2, <2>5 DEF D
<1> QED
  BY <1>1, <1>2

\* The first j elements of t, concatenated.
Flat(t, j) == FlattenSeq([k \in 1..j |-> t[k]])

LEMMA FlatNone == ASSUME NEW t PROVE Flat(t, 0) = <<>>
<1>1. [k \in 1..0 |-> t[k]] = <<>>
  OBVIOUS
<1> QED BY <1>1, FlattenEmpty DEF Flat

LEMMA FlatMore ==
  ASSUME NEW S, NEW t \in Seq(Seq(S)), NEW j \in Nat, j < Len(t)
  PROVE  Flat(t, j) \in Seq(S) /\ t[j + 1] \in Seq(S) /\ Flat(t, j + 1) = Flat(t, j) \o t[j + 1]
<1> DEFINE a == [k \in 1..j |-> t[k]]
           b == [k \in 1..(j + 1) |-> t[k]]
<1>1. t[j + 1] \in Seq(S)
  BY ElementFacts
<1>2. a \in Seq(Seq(S)) /\ Len(a) = j
  <2>1. \A k \in 1..j : t[k] \in Seq(S)
    <3>1. \A k \in 1..j : k \in 1..Len(t)
      OBVIOUS
    <3>2. \A k \in 1..Len(t) : t[k] \in Seq(S)
      OBVIOUS
    <3> QED BY <3>1, <3>2
  <2> QED BY <2>1, IsASeq
<1>3. Len(b) = j + 1 /\ b[j + 1] = t[j + 1] /\ \A k \in 1..j : a[k] = b[k]
  OBVIOUS
<1> HIDE DEF a, b
<1>4. PICK m \in Nat : m = j + 1
  OBVIOUS
<1>5. FlattenSeq(b) = IF j = 0 THEN b[m] ELSE FlattenSeq(a) \o b[m]
  <2>1. Len(a) = j /\ Len(b) = m /\ m = j + 1 /\ \A k \in 1..j : a[k] = b[k]
    BY <1>2, <1>3, <1>4
  <2> QED BY <2>1, FlattenMore
<1>6. FlattenSeq(a) \in Seq(S)
  BY <1>2, FlattenType
<1>7. CASE j = 0
  <2>1. FlattenSeq(a) = <<>>
    <3>1. a = <<>>
      BY <1>2, <1>7
    <3> QED BY <3>1, FlattenEmpty
  <2>2. <<>> \o t[j + 1] = t[j + 1]
    BY <1>1
  <2> QED BY <1>1, <1>3, <1>4, <1>5, <1>6, <1>7, <2>1, <2>2 DEF Flat, a, b
<1>8. CASE j # 0
  BY <1>1, <1>3, <1>4, <1>5, <1>6, <1>8 DEF Flat, a, b
<1> QED BY <1>7, <1>8

LEMMA FlatAll ==
  ASSUME NEW S, NEW t \in Seq(S)
  PROVE  Flat(t, Len(t)) = FlattenSeq(t)
<1>1. t = [k \in 1..Len(t) |-> t[k]]
  OBVIOUS
<1> QED BY <1>1 DEF Flat

-----------------------------------------------------------------------------
(* The row is the CSV of the fields.                                         *)

Signs == Chars \cup {NUL, Quote, Comma, "-"}

\* What is written of each character between quotes.
Twins(v) == [k \in DOMAIN v |-> IF v[k] = Quote THEN <<Quote, Quote>> ELSE <<v[k]>>]

LEMMA TwinsType ==
  ASSUME NEW S, Quote \in S, NEW v \in Seq(S)
  PROVE  /\ Len(v) \in Nat /\ Twins(v) \in Seq(Seq(S)) /\ Len(Twins(v)) = Len(v)
         /\ \A k \in 1..Len(v) : Twins(v)[k] = IF v[k] = Quote THEN <<Quote, Quote>> ELSE <<v[k]>>
<1>1. DOMAIN v = 1..Len(v) /\ Len(v) \in Nat
  OBVIOUS
<1>2. ASSUME NEW k \in 1..Len(v)
      PROVE  (IF v[k] = Quote THEN <<Quote, Quote>> ELSE <<v[k]>>) \in Seq(S)
  <2>1. v[k] \in S
    OBVIOUS
  <2>2. <<Quote, Quote>> \in Seq(S) /\ <<v[k]>> \in Seq(S)
    BY <2>1
  <2> QED BY <2>2
<1>3. Twins(v) = [k \in 1..Len(v) |-> IF v[k] = Quote THEN <<Quote, Quote>> ELSE <<v[k]>>]
  BY <1>1 DEF Twins
<1>4. Twins(v) \in Seq(Seq(S))
  BY <1>1, <1>2, <1>3, IsASeq
<1>5. Len(Twins(v)) = Len(v)
  BY <1>1, <1>3, <1>4
<1> QED BY <1>1, <1>3, <1>4, <1>5

LEMMA TwicePlain ==
  ASSUME NEW S, Quote \in S, NEW v \in Seq(S), ~Has(v, Quote)
  PROVE  Twice(v) = v
<1> DEFINE t == Twins(v)
           D == {j \in Nat : j <= Len(v) => Flat(t, j) = SubSeq(v, 1, j)}
<1>1. /\ Len(v) \in Nat /\ t \in Seq(Seq(S)) /\ Len(t) = Len(v)
      /\ \A k \in 1..Len(v) : t[k] = IF v[k] = Quote THEN <<Quote, Quote>> ELSE <<v[k]>>
  BY TwinsType
<1>2. \A k \in 1..Len(v) : t[k] = <<v[k]>>
  <2>1. \A k \in 1..Len(v) : v[k] # Quote
    BY DEF Has
  <2> QED BY <1>1, <2>1
<1> HIDE DEF t
<1>3. 0 \in D
  <2>1. SubSeq(v, 1, 0) = <<>>
    OBVIOUS
  <2> QED BY <2>1, FlatNone
<1>4. ASSUME NEW j \in Nat, j \in D PROVE j + 1 \in D
  <2> SUFFICES ASSUME j + 1 <= Len(v) PROVE Flat(t, j + 1) = SubSeq(v, 1, j + 1)
    OBVIOUS
  <2>1. Flat(t, j) = SubSeq(v, 1, j) /\ j + 1 \in 1..Len(v) /\ j < Len(t)
    BY <1>1, <1>4
  <2>2. Flat(t, j + 1) = Flat(t, j) \o t[j + 1]
    BY <1>1, <2>1, FlatMore
  <2>3. SubSeq(v, 1, j + 1) = SubSeq(v, 1, j) \o <<v[j + 1]>>
    <3>1. PICK m \in 1..Len(v) : m = j + 1 /\ m - 1 = j
      BY <2>1
    <3>2. 1 \in 1..Len(v) /\ m \in 1..Len(v)
      BY <1>1, <3>1
    <3>3. SubSeq(v, 1, m) = SubSeq(v, 1, m - 1) \o <<v[m]>>
      BY <3>2, SubSeqRecursiveSecond
    <3> QED BY <3>1, <3>3
  <2> QED BY <1>2, <2>1, <2>2, <2>3
<1>5. Len(v) \in D
  <2> HIDE DEF D
  <2>1. Nat \subseteq D
    BY <1>3, <1>4, SetInduction
  <2> QED BY <1>1, <2>1
<1>6. Flat(t, Len(v)) = v
  <2>1. Flat(t, Len(v)) = SubSeq(v, 1, Len(v))
    BY <1>1, <1>5
  <2>2. SubSeq(v, 1, Len(v)) = v
    BY SubSeqFull
  <2> QED BY <2>1, <2>2
<1>7. Flat(t, Len(v)) = FlattenSeq(t)
  BY <1>1, FlatAll
<1> QED BY <1>6, <1>7 DEF Twice, Twins, t

LEMMA TwiceType ==
  ASSUME NEW S, Quote \in S, NEW v \in Seq(S)
  PROVE  Twice(v) \in Seq(S) /\ InQuotes(v) \in Seq(S)
<1>1. FlattenSeq(Twins(v)) \in Seq(S)
  BY TwinsType, FlattenType
<1>2. Twice(v) \in Seq(S)
  BY <1>1 DEF Twice, Twins
<1> QED BY <1>2 DEF InQuotes

\* A field is written as the CSV of its text.
LEMMA FieldIs ==
  ASSUME NEW t \in Seq(Signs), quotes > 0 <=> Has(t, Quote), commas > 0 <=> Has(t, Comma)
  PROVE  Field(t) = Canonical(t) /\ Canonical(t) \in Seq(Signs)
<1>1. Quote \in Signs
  BY DEF Signs
<1>2. Double(t) = Twice(t)
  BY DEF Double, Twice
<1>3. ~Has(t, Quote) => Twice(t) = t
  BY <1>1, TwicePlain
<1>4. Field(t) = Canonical(t)
  BY <1>2, <1>3 DEF Field, Escaped, Canonical, InQuotes
<1> QED BY <1>1, <1>4, TwiceType DEF Canonical

LEMMA BareIs == ASSUME ~(quotes > 0), ~(commas > 0), NEW t PROVE Field(t) = t
BY DEF Field, Escaped

\* The least and the greatest of a set of places.
LEMMA Ends ==
  ASSUME NEW m \in Nat, NEW S, S \subseteq 1..m, S # {}
  PROVE  (\E k \in S : \A j \in S : k <= j) /\ (\E k \in S : \A j \in S : k >= j)
<1>1. PICK e \in S : TRUE
  OBVIOUS
<1>2. \E k \in S : \A j \in S : k <= j
  <2> DEFINE D == {j \in Nat : \A e1 \in S : e1 > j}
  <2> SUFFICES ASSUME \A k \in S : \E j \in S : ~(k <= j) PROVE FALSE
    OBVIOUS
  <2>1. 0 \in D
    OBVIOUS
  <2>2. ASSUME NEW j \in Nat, j \in D PROVE j + 1 \in D
    <3>1. \A k \in S : k \in Nat /\ k > j
      BY <2>2
    <3>2. ASSUME NEW k \in S PROVE k > j + 1
      <4>1. PICK l \in S : ~(k <= l)
        OBVIOUS
      <4> QED BY <3>1, <4>1
    <3> QED BY <3>2
  <2>3. e \in D
    <3> HIDE DEF D
    <3>1. Nat \subseteq D
      BY <2>1, <2>2, SetInduction
    <3> QED BY <3>1
  <2> QED BY <2>3
<1>3. \E k \in S : \A j \in S : k >= j
  <2> DEFINE D == {j \in Nat : \A e1 \in S : e1 + j <= m}
  <2> SUFFICES ASSUME \A k \in S : \E j \in S : ~(k >= j) PROVE FALSE
    OBVIOUS
  <2>1. 0 \in D
    OBVIOUS
  <2>2. ASSUME NEW j \in Nat, j \in D PROVE j + 1 \in D
    <3>1. \A k \in S : k \in Nat /\ k + j <= m
      BY <2>2
    <3>2. ASSUME NEW k \in S PROVE k + (j + 1) <= m
      <4>1. PICK l \in S : ~(k >= l)
        OBVIOUS
      <4> QED BY <3>1, <4>1
    <3> QED BY <3>2
  <2>3. m \in D
    <3> HIDE DEF D
    <3>1. Nat \subseteq D
      BY <2>1, <2>2, SetInduction
    <3> QED BY <3>1
  <2>4. e + m <= m /\ e \in 1..m
    BY <2>3
  <2> QED BY <2>4
<1> QED BY <1>2, <1>3

LEMMA StrippedType ==
  ASSUME NEW S, NEW t \in Seq(S)
  PROVE  Stripped(t) \in Seq(S)
<1> DEFINE kept == {k \in 1..Len(t) : t[k] \notin Whitespace}
           first == CHOOSE k \in kept : \A j \in kept : k <= j
           last == CHOOSE k \in kept : \A j \in kept : k >= j
<1>1. Stripped(t) = IF kept = {} THEN <<>> ELSE SubSeq(t, first, last)
  BY DEF Stripped
<1>2. CASE kept # {}
  <2>1. Len(t) \in Nat /\ kept \subseteq 1..Len(t)
    OBVIOUS
  <2> HIDE DEF kept
  <2>2. first \in kept /\ last \in kept
    BY <1>2, <2>1, Ends
  <2> HIDE DEF first, last
  <2>3. first \in Int /\ last \in Int /\ \A i \in first..last : t[i] \in S
    <3>1. first \in 1..Len(t) /\ last \in 1..Len(t)
      BY <2>1, <2>2
    <3>2. \A i \in first..last : i \in 1..Len(t)
      BY <2>1, <3>1
    <3>3. \A i \in 1..Len(t) : t[i] \in S
      OBVIOUS
    <3> QED BY <3>1, <3>2, <3>3
  <2>4. SubSeq(t, first, last) \in Seq(S)
    BY <2>3, SubSeqProperties
  <2> QED BY <1>1, <1>2, <2>4
<1>3. CASE kept = {}
  <2>1. <<>> \in Seq(S)
    OBVIOUS
  <2> QED BY <1>1, <1>3, <2>1
<1> QED BY <1>2, <1>3

\* The text of the field, and what it holds.
LEMMA TextIs ==
  ASSUME Inv, pc = "field"
  PROVE  /\ Text(start, end) \in Seq(Chars \cup {NUL}) /\ Text(start, end) \in Seq(Signs)
         /\ \A c : Has(Text(start, end), c) <=> Held(c)
<1> DEFINE t == Text(start, end)
<1>1. /\ start \in Nat /\ end \in Nat /\ end <= N /\ N \in Nat /\ start <= end + 1
      /\ str \in Seq(Chars \cup {NUL}) /\ Len(str) = N + 1
  BY PlaceFacts DEF Inv, TypeOK
<1>2. \A k \in (start + 1)..end : str[k] \in Chars \cup {NUL}
  <2>1. \A k \in (start + 1)..end : k \in 1..Len(str)
    BY <1>1
  <2>2. \A k \in 1..Len(str) : str[k] \in Chars \cup {NUL}
    BY <1>1
  <2> QED BY <2>1, <2>2
<1>3. PICK m \in Int, e \in Int : m = start + 1 /\ e = end
  BY <1>1
<1>4. /\ t \in Seq(Chars \cup {NUL}) /\ Len(t) = IF m <= e THEN e - m + 1 ELSE 0
      /\ \A i \in 1..e - m + 1 : t[i] = str[m + i - 1]
  BY <1>2, <1>3, SubSeqProperties DEF Text
<1> HIDE DEF t
<1>5. DOMAIN t = 1..(e - m + 1)
  <2>1. DOMAIN t = 1..Len(t)
    BY <1>4
  <2> QED BY <1>4, <2>1
<1>6. ASSUME NEW c PROVE Has(t, c) <=> Held(c)
  <2>1. ASSUME NEW k \in 1..(e - m + 1) PROVE m + k - 1 \in (start + 1)..end
    BY <1>1, <1>3
  <2>2. ASSUME NEW k \in (start + 1)..end
        PROVE  \E i \in 1..(e - m + 1) : k = m + i - 1
    <3>1. k - m + 1 \in 1..(e - m + 1) /\ k = m + (k - m + 1) - 1
      BY <1>1, <1>3
    <3> QED BY <3>1
  <2>3. ASSUME Has(t, c) PROVE Held(c)
    <3>1. PICK i \in 1..(e - m + 1) : t[i] = c
      BY <1>5, <2>3 DEF Has
    <3>2. m + i - 1 \in (start + 1)..end /\ str[m + i - 1] = c
      BY <1>4, <2>1, <3>1
    <3> QED BY <3>2 DEF Held
  <2>4. ASSUME Held(c) PROVE Has(t, c)
    <3>1. PICK k \in (start + 1)..end : str[k] = c
      BY <2>4 DEF Held
    <3>2. PICK i \in 1..(e - m + 1) : k = m + i - 1
      BY <2>2
    <3>3. t[i] = c
      BY <1>4, <3>1, <3>2
    <3> QED BY <1>5, <3>3 DEF Has
  <2> QED BY <2>3, <2>4
<1>7. t \in Seq(Signs)
  <2>1. Chars \cup {NUL} \subseteq Signs
    BY DEF Signs
  <2> QED BY <1>4, <2>1
<1> QED BY <1>4, <1>6, <1>7 DEF t

\* What the row shows of the field t, which is the k-th.
InDate(k, t) == (k - 1) \in DateColumns /\ Len(t) = 8
Shown(k, t) == IF k = 1 THEN Stripped(t) ELSE IF InDate(k, t) THEN Dashed(t) ELSE Canonical(t)

LEMMA WrittenIs ==
  ASSUME Inv, Counts, pc = "field", NEW t, t = Text(start, end),
         NEW k, k = columnIndex + 1, InDate(k, t) => Plain(t)
  PROVE  IF columnIndex = 0 THEN Written(t) = Shown(k, t) /\ Written(t) \in Seq(Signs)
                            ELSE Written(t) = <<Comma>> \o Shown(k, t)
<1>1. /\ t \in Seq(Signs) /\ (quotes > 0 <=> Has(t, Quote)) /\ (commas > 0 <=> Has(t, Comma))
  BY TextIs DEF Counts
<1>2. columnIndex \in Nat
  BY DEF Inv, TypeOK
<1>3. CASE columnIndex = 0
  <2>1. Written(t) = Stripped(t) /\ k = 1
    BY <1>3 DEF Written
  <2> QED BY <1>1, <1>3, <2>1, StrippedType DEF Shown
<1>4. CASE columnIndex # 0
  <2>1. k # 1 /\ k - 1 = columnIndex
    BY <1>2, <1>4
  <2>2. Written(t) = <<Comma>> \o (IF columnIndex \in DateColumns THEN DateField(t) ELSE Field(t))
    BY <1>4 DEF Written
  <2>3. Field(t) = Canonical(t)
    BY <1>1, FieldIs
  <2>4. ASSUME columnIndex \in DateColumns, Len(t) = 8 PROVE DateField(t) = Dashed(t)
    <3>1. Plain(t)
      BY <2>1, <2>4 DEF InDate
    <3>2. ~(quotes > 0) /\ ~(commas > 0)
      BY <1>1, <3>1 DEF Plain
    <3>3. /\ Field(SubSeq(t, 1, 4)) = SubSeq(t, 1, 4)
          /\ Field(SubSeq(t, 5, 6)) = SubSeq(t, 5, 6)
          /\ Field(SubSeq(t, 7, 8)) = SubSeq(t, 7, 8)
      BY <3>2, BareIs
    <3> QED BY <2>4, <3>3 DEF DateField, Dashed
  <2>5. ASSUME Len(t) # 8 PROVE DateField(t) = Canonical(t)
    <3>1. Canonical(<<>>) = <<>>
      BY DEF Canonical, Has
    <3> QED BY <2>3, <2>5, <3>1 DEF DateField
  <2> QED BY <1>4, <2>1, <2>2, <2>3, <2>4, <2>5 DEF Shown, InDate
<1> QED BY <1>3, <1>4

\* The row of the fields fs.
RowOf(fs) == Joined([k \in DOMAIN fs |-> Shown(k, fs[k])], Comma)

LEMMA RowOfNone == RowOf(<<>>) = <<>>
<1> DEFINE c == [k \in DOMAIN <<>> |-> Shown(k, <<>>[k])]
           p == [k \in DOMAIN c |-> IF k = 1 THEN c[k] ELSE <<Comma>> \o c[k]]
<1>1. DOMAIN <<>> = {}
  OBVIOUS
<1>2. DOMAIN c = {}
  BY <1>1
<1> HIDE DEF c
<1>3. p = <<>>
  BY <1>2
<1>4. RowOf(<<>>) = FlattenSeq(p)
  BY DEF RowOf, Joined, c
<1> QED BY <1>3, <1>4, FlattenEmpty

LEMMA RowOfMore ==
  ASSUME NEW S, NEW fs \in Seq(S), NEW t \in S
  PROVE  RowOf(Append(fs, t)) =
           IF Len(fs) = 0 THEN Shown(1, t) ELSE RowOf(fs) \o (<<Comma>> \o Shown(Len(fs) + 1, t))
<1> DEFINE gs == Append(fs, t)
           c == [k \in DOMAIN fs |-> Shown(k, fs[k])]
           d == [k \in DOMAIN gs |-> Shown(k, gs[k])]
           p == [k \in DOMAIN c |-> IF k = 1 THEN c[k] ELSE <<Comma>> \o c[k]]
           q == [k \in DOMAIN d |-> IF k = 1 THEN d[k] ELSE <<Comma>> \o d[k]]
<1>1. PICK m \in Nat, e \in Nat : m = Len(fs) /\ e = m + 1 /\ e - 1 = m
  BY ElementFacts
<1>2. /\ DOMAIN fs = 1..m /\ DOMAIN gs = 1..e /\ gs[e] = t
      /\ \A k \in 1..m : gs[k] = fs[k]
  BY <1>1
<1> HIDE DEF gs
<1>3. DOMAIN c = 1..m /\ DOMAIN d = 1..e
  BY <1>2
<1>4. d[e] = Shown(e, t) /\ \A k \in 1..m : d[k] = c[k]
  BY <1>1, <1>2
<1> HIDE DEF c, d
<1>5. /\ Len(p) = m /\ Len(q) = e
      /\ q[e] = (IF e = 1 THEN Shown(e, t) ELSE <<Comma>> \o Shown(e, t))
      /\ \A k \in 1..m : p[k] = q[k]
  <2>1. DOMAIN p = 1..m /\ DOMAIN q = 1..e
    BY <1>3
  <2>2. Len(p) = m /\ Len(q) = e
    BY <1>3, LenProperties
  <2>3. e \in 1..e /\ \A k \in 1..m : k \in 1..e
    BY <1>1
  <2> QED BY <1>3, <1>4, <2>2, <2>3
<1> HIDE DEF p, q
<1>6. FlattenSeq(q) = IF m = 0 THEN q[e] ELSE FlattenSeq(p) \o q[e]
  BY <1>1, <1>5, FlattenMore
<1>7. RowOf(fs) = FlattenSeq(p) /\ RowOf(Append(fs, t)) = FlattenSeq(q)
  BY DEF RowOf, Joined, p, q, c, d, gs
<1> QED BY <1>1, <1>5, <1>6, <1>7

\* The row so far is that of the fields so far.
FieldTexts == Seq(Chars \cup {NUL})
RowInv ==
  /\ fields \in Seq(FieldTexts)
  /\ IF pc = "done" THEN columnIndex + 1 = Len(fields) ELSE columnIndex = Len(fields)
  /\ (\A k \in DOMAIN fields : InDate(k, fields[k]) => Plain(fields[k])) => row = RowOf(fields)

LEMMA RowStep == Inv /\ Counts /\ RowInv /\ [Next]_vars => RowInv'
<1> SUFFICES ASSUME Inv, Counts, RowInv, [Next]_vars PROVE RowInv'
  OBVIOUS
<1>1. CASE WriteField
  <2> DEFINE t == Text(start, end)
             more == Append(fields, t)
  <2>1. /\ pc = "field" /\ row' = row \o Written(t) /\ fields' = more
        /\ columnIndex' = IF pc' = "done" THEN columnIndex ELSE columnIndex + 1
    BY <1>1 DEF WriteField
  <2>2. t \in FieldTexts /\ fields \in Seq(FieldTexts)
    BY <2>1, TextIs DEF RowInv, FieldTexts
  <2> HIDE DEF t
  <2>3. PICK m \in Nat, e \in Nat : m = Len(fields) /\ e = m + 1 /\ columnIndex = m
    BY <2>1, ElementFacts DEF RowInv
  <2>4. /\ more \in Seq(FieldTexts) /\ Len(more) = e /\ DOMAIN more = 1..e /\ more[e] = t
        /\ DOMAIN fields = 1..m /\ \A k \in 1..m : more[k] = fields[k]
    BY <2>2, <2>3
  <2> HIDE DEF more
  <2>5. ASSUME \A k \in DOMAIN more : InDate(k, more[k]) => Plain(more[k])
        PROVE  row \o Written(t) = RowOf(more)
    <3>1. /\ \A k \in 1..m : InDate(k, fields[k]) => Plain(fields[k])
          /\ InDate(e, t) => Plain(t)
      <4>1. e \in 1..e /\ \A k \in 1..m : k \in 1..e
        BY <2>3
      <4> QED BY <2>4, <2>5, <4>1
    <3>2. row = RowOf(fields)
      BY <2>4, <3>1 DEF RowInv
    <3>3. IF m = 0 THEN Written(t) = Shown(e, t) /\ Written(t) \in Seq(Signs)
                   ELSE Written(t) = <<Comma>> \o Shown(e, t)
      BY <2>1, <2>3, <3>1, WrittenIs DEF t
    <3>4. RowOf(more) = IF m = 0 THEN Shown(1, t) ELSE RowOf(fields) \o (<<Comma>> \o Shown(e, t))
      BY <2>2, <2>3, RowOfMore DEF more
    <3>5. CASE m = 0
      <4>1. fields = <<>> /\ e = 1
        <5>1. Len(fields) = 0
          BY <2>3, <3>5
        <5> QED BY <2>2, <2>3, <3>5, <5>1
      <4>2. row = <<>>
        BY <3>2, <4>1, RowOfNone
      <4>3. <<>> \o Written(t) = Written(t)
        BY <3>3, <3>5
      <4> QED BY <3>3, <3>4, <3>5, <4>1, <4>2, <4>3
    <3>6. CASE m # 0
      BY <3>2, <3>3, <3>4, <3>6
    <3> QED BY <3>5, <3>6
  <2>6. IF pc' = "done" THEN columnIndex' + 1 = Len(fields') ELSE columnIndex' = Len(fields')
    BY <2>1, <2>3, <2>4
  <2> QED BY <2>1, <2>4, <2>5, <2>6 DEF RowInv
<1>2. CASE ReadAgain
  <2>1. fields' = <<>> /\ row' = <<>> /\ columnIndex' = 0 /\ pc' = "row"
    BY <1>2 DEF ReadAgain
  <2> QED BY <2>1, RowOfNone DEF RowInv
<1>3. CASE BeginAscii28 \/ TakeAscii28 \/ EndAscii28 \/ EmptyCsv \/ BeginCsv \/ EndCsv \/ SkipQuote
           \/ CloseCsv \/ TakeCsv \/ DieOfLength
  <2>1. UNCHANGED rowVars /\ pc # "done" /\ pc' # "done"
    BY <1>3 DEF BeginAscii28, TakeAscii28, EndAscii28, EmptyCsv, BeginCsv, EndCsv, SkipQuote,
                CloseCsv, TakeCsv, DieOfLength, Turn, EndField
  <2> QED BY <2>1 DEF RowInv, rowVars
<1>4. CASE UNCHANGED vars
  BY <1>4 DEF RowInv, vars
<1> QED BY <1>1, <1>2, <1>3, <1>4 DEF Next

LEMMA SpecRow == Spec => [](Inv /\ Counts /\ RowInv)
<1>1. Init => Counts
  BY DEF Init, Counts
<1>2. Init => RowInv
  <2> SUFFICES ASSUME Init PROVE RowInv
    OBVIOUS
  <2>1. fields = <<>> /\ row = <<>> /\ columnIndex = 0 /\ pc = "row"
    BY DEF Init
  <2> QED BY <2>1, RowOfNone DEF RowInv
<1> QED BY <1>1, <1>2, InitInv, StepInv, CountsStep, RowStep, PTL DEF Spec

\* A row reads back as the fields it was written from: every quote in it is doubled,
\* and every field with a quote or a comma is between quotes, whatever the line, the
\* quotes that were taken off its fields and those that were shifted in place
\* (csv.c:36-129, csv.c:137-177).
THEOREM RowIsCsv == Spec => []RowReadsBack
<1>1. RowInv => RowReadsBack
  <2> SUFFICES ASSUME RowInv,
                      \A k \in DOMAIN fields : ~Has(fields[k], Newline) /\ (IsDate(k) => Plain(fields[k]))
               PROVE  row = Joined([k \in DOMAIN fields |->
                              IF k = 1 THEN Stripped(fields[k])
                              ELSE IF IsDate(k) THEN Dashed(fields[k]) ELSE Canonical(fields[k])], Comma)
    BY DEF RowReadsBack
  <2>1. \A k : IsDate(k) <=> InDate(k, fields[k])
    BY DEF IsDate, InDate
  <2>2. row = RowOf(fields)
    BY <2>1 DEF RowInv
  <2>3. [k \in DOMAIN fields |-> Shown(k, fields[k])] =
          [k \in DOMAIN fields |->
             IF k = 1 THEN Stripped(fields[k])
             ELSE IF IsDate(k) THEN Dashed(fields[k]) ELSE Canonical(fields[k])]
    BY <2>1 DEF Shown
  <2> QED BY <2>2, <2>3 DEF RowOf
<1> QED BY <1>1, SpecRow, PTL

-----------------------------------------------------------------------------
(* Where the cells lie in the line that was made from them.                  *)

LEMMA JoinFacts ==
  ASSUME NEW S, NEW s \in Seq(S), NEW x \in Seq(S)
  PROVE  /\ s \o x \in Seq(S) /\ Len(s \o x) = Len(s) + Len(x)
         /\ \A k \in 1..Len(s) : (s \o x)[k] = s[k]
         /\ \A k \in 1..Len(x) : (s \o x)[Len(s) + k] = x[k]
OBVIOUS

\* A concatenation begins with that of the first elements.
LEMMA FlatPrefix ==
  ASSUME NEW S, NEW t \in Seq(Seq(S)), NEW i \in Nat, i <= Len(t)
  PROVE  \A j \in Nat : i + j <= Len(t) =>
           /\ Flat(t, i + j) \in Seq(S) /\ Len(Flat(t, i)) <= Len(Flat(t, i + j))
           /\ \A e \in 1..Len(Flat(t, i)) : Flat(t, i + j)[e] = Flat(t, i)[e]
<1> DEFINE Begins(u) == /\ u \in Seq(S) /\ Len(Flat(t, i)) <= Len(u)
                        /\ \A e \in 1..Len(Flat(t, i)) : u[e] = Flat(t, i)[e]
           D == {j \in Nat : i + j <= Len(t) => Begins(Flat(t, i + j))}
<1>1. Len(t) \in Nat
  BY ElementFacts
<1>2. Flat(t, i) \in Seq(S)
  <2>1. CASE i < Len(t)
    BY <2>1, FlatMore
  <2>2. CASE i = Len(t)
    BY <2>2, FlatAll, FlattenType
  <2> QED BY <1>1, <2>1, <2>2
<1>3. 0 \in D
  <2>1. Begins(Flat(t, i))
    BY <1>2
  <2>2. i + 0 = i
    OBVIOUS
  <2> QED BY <2>1, <2>2
<1>4. ASSUME NEW j \in Nat, j \in D PROVE j + 1 \in D
  <2> SUFFICES ASSUME i + (j + 1) <= Len(t) PROVE Begins(Flat(t, i + (j + 1)))
    OBVIOUS
  <2>1. PICK m \in Nat : m = i + j /\ m + 1 = i + (j + 1) /\ m < Len(t) /\ i + j <= Len(t)
    BY <1>1
  <2>2. Begins(Flat(t, m))
    BY <1>4, <2>1
  <2>3. /\ Flat(t, m) \in Seq(S) /\ t[m + 1] \in Seq(S)
        /\ Flat(t, m + 1) = Flat(t, m) \o t[m + 1]
    BY <2>1, FlatMore
  <2>4. /\ Flat(t, m + 1) \in Seq(S) /\ Len(Flat(t, m + 1)) = Len(Flat(t, m)) + Len(t[m + 1])
        /\ \A e \in 1..Len(Flat(t, m)) : Flat(t, m + 1)[e] = Flat(t, m)[e]
    <3> DEFINE u == Flat(t, m) \o t[m + 1]
    <3>1. /\ u \in Seq(S) /\ Len(u) = Len(Flat(t, m)) + Len(t[m + 1])
          /\ \A e \in 1..Len(Flat(t, m)) : u[e] = Flat(t, m)[e]
      BY <2>3, JoinFacts
    <3>2. u = Flat(t, m + 1)
      BY <2>3
    <3> HIDE DEF u
    <3> QED BY <3>1, <3>2
  <2>5. Len(Flat(t, i)) \in Nat /\ Len(Flat(t, m)) \in Nat /\ Len(t[m + 1]) \in Nat
    BY <1>2, <2>3, ElementFacts
  <2>6. Begins(Flat(t, m + 1))
    <3>1. \A e \in 1..Len(Flat(t, i)) : e \in 1..Len(Flat(t, m))
      BY <2>2, <2>5
    <3>2. Len(Flat(t, i)) <= Len(Flat(t, m + 1))
      BY <2>2, <2>4, <2>5
    <3> QED BY <2>2, <2>4, <3>1, <3>2
  <2> QED BY <2>1, <2>6
<1>5. Nat \subseteq D
  <2> HIDE DEF D
  <2> QED BY <1>3, <1>4, SetInduction
<1>6. ASSUME NEW j \in Nat, i + j <= Len(t) PROVE Begins(Flat(t, i + j))
  BY <1>5, <1>6
<1> QED BY <1>6

\* Where an element lies in the concatenation.
LEMMA FlatElement ==
  ASSUME NEW S, NEW t \in Seq(Seq(S)), NEW m \in Nat, m < Len(t)
  PROVE  /\ FlattenSeq(t) \in Seq(S) /\ t[m + 1] \in Seq(S)
         /\ Len(Flat(t, m)) \in Nat
         /\ Len(Flat(t, m + 1)) = Len(Flat(t, m)) + Len(t[m + 1])
         /\ Len(Flat(t, m + 1)) <= Len(FlattenSeq(t))
         /\ \A e \in 1..Len(t[m + 1]) : FlattenSeq(t)[Len(Flat(t, m)) + e] = t[m + 1][e]
<1> DEFINE x == t[m + 1]
           a == Flat(t, m)
           b == Flat(t, m + 1)
           u == FlattenSeq(t)
<1>1. a \in Seq(S) /\ x \in Seq(S) /\ b = a \o x
  BY FlatMore
<1>2. u \in Seq(S)
  BY FlattenType
<1>3. Len(b) <= Len(u) /\ \A e \in 1..Len(b) : u[e] = b[e]
  <2>1. PICK i \in Nat, j \in Nat : i = m + 1 /\ i + j = Len(t) /\ i <= Len(t)
    <3>1. PICK n \in Nat : n = Len(t) /\ m < n
      BY ElementFacts
    <3>2. PICK i \in Nat : i = m + 1
      OBVIOUS
    <3>3. n - i \in Nat /\ i + (n - i) = n /\ i <= n
      BY <3>1, <3>2
    <3>4. PICK j \in Nat : j = n - i
      BY <3>3
    <3>5. i + j = Len(t) /\ i <= Len(t)
      BY <3>1, <3>3, <3>4
    <3> QED BY <3>2, <3>5
  <2>2. /\ Len(Flat(t, i)) <= Len(Flat(t, i + j))
        /\ \A e \in 1..Len(Flat(t, i)) : Flat(t, i + j)[e] = Flat(t, i)[e]
    <3>1. \A j1 \in Nat : i + j1 <= Len(t) =>
            /\ Flat(t, i + j1) \in Seq(S) /\ Len(Flat(t, i)) <= Len(Flat(t, i + j1))
            /\ \A e \in 1..Len(Flat(t, i)) : Flat(t, i + j1)[e] = Flat(t, i)[e]
      <4>1. i \in Nat /\ i <= Len(t)
        BY <2>1
      <4> QED BY <4>1, FlatPrefix
    <3>2. i + j <= Len(t)
      BY <2>1, ElementFacts
    <3> QED BY <3>1, <3>2
  <2>3. Flat(t, i + j) = u
    BY <2>1, FlatAll
  <2> QED BY <2>1, <2>2, <2>3
<1> HIDE DEF a, b, u, x
<1>4. /\ Len(a) \in Nat /\ Len(x) \in Nat /\ Len(b) = Len(a) + Len(x)
      /\ \A e \in 1..Len(x) : b[Len(a) + e] = x[e]
  BY <1>1, JoinFacts, ElementFacts
<1>5. ASSUME NEW e \in 1..Len(x) PROVE u[Len(a) + e] = x[e]
  <2>1. Len(a) + e \in 1..Len(b)
    BY <1>4
  <2> QED BY <1>3, <1>4, <2>1
<1> QED BY <1>1, <1>2, <1>3, <1>4, <1>5 DEF a, b, u, x

\* The pieces of a line: cells, and the delimiters before them.
Pieces(l) == [k \in DOMAIN l.cells |->
                IF k = 1 THEN CellText(l.cells[k])
                ELSE <<Delimiter(l.ascii28)>> \o CellText(l.cells[k])]
Source(l) == Append(l.text, NUL)

\* The places before the first character of the k-th cell, and after its last one.
From(l, k) == IF k = 1 THEN 0 ELSE Len(Flat(Pieces(l), k - 1)) + 1
To(l, k) == Len(Flat(Pieces(l), k))

Glyphs == Chars \cup {Quote, Comma, Separator}
Cells == [value : Seq(Chars), quoted : BOOLEAN]

LEMMA CellType ==
  ASSUME NEW c \in Cells
  PROVE  CellText(c) \in Seq(Glyphs)
<1>1. c.value \in Seq(Glyphs) /\ Quote \in Glyphs
  BY DEF Cells, Glyphs
<1> QED BY <1>1, TwiceType DEF CellText

LEMMA PiecesType ==
  ASSUME NEW l \in Lines, l.known
  PROVE  /\ l.cells \in Seq(Cells) /\ Len(l.cells) \in Nat /\ Len(l.cells) > 0
         /\ Pieces(l) \in Seq(Seq(Glyphs)) /\ Len(Pieces(l)) = Len(l.cells)
         /\ \A k \in 1..Len(l.cells) :
              /\ l.cells[k] \in Cells /\ IsCell(l.cells[k], l.ascii28)
              /\ Pieces(l)[k] = IF k = 1 THEN CellText(l.cells[k])
                                ELSE <<Delimiter(l.ascii28)>> \o CellText(l.cells[k])
         /\ \E ending \in {<<>>, <<Newline>>} : l.text = FlattenSeq(Pieces(l)) \o ending
<1> DEFINE cs == l.cells
           d == Delimiter(l.ascii28)
           p == Pieces(l)
<1>1. IsMade(l)
  BY CsvAssumption
<1>2. cs \in Seq(Cells) /\ cs # <<>> /\ \A k \in DOMAIN cs : IsCell(cs[k], l.ascii28)
  BY <1>1 DEF IsMade, Cells
<1>3. d \in Glyphs
  BY DEF Delimiter, Glyphs
<1>4. FlattenSeq(p) = TextOf(cs, l.ascii28)
  <2> DEFINE C == [k \in DOMAIN cs |-> CellText(cs[k])]
  <2>1. DOMAIN C = DOMAIN cs /\ \A k \in DOMAIN cs : C[k] = CellText(cs[k])
    OBVIOUS
  <2> HIDE DEF C
  <2>2. [k \in DOMAIN C |-> IF k = 1 THEN C[k] ELSE <<d>> \o C[k]] = p
    BY <2>1 DEF Pieces
  <2> QED BY <2>2 DEF TextOf, Joined, C
<1>5. \E ending \in {<<>>, <<Newline>>} : l.text = FlattenSeq(p) \o ending
  BY <1>1, <1>4 DEF IsMade
<1>6. p = [k \in DOMAIN cs |-> IF k = 1 THEN CellText(cs[k]) ELSE <<d>> \o CellText(cs[k])]
  BY DEF Pieces
<1> HIDE DEF cs, d, p
<1>7. DOMAIN cs = 1..Len(cs) /\ Len(cs) \in Nat /\ Len(cs) > 0
  BY <1>2
<1>8. ASSUME NEW k \in 1..Len(cs)
      PROVE  /\ cs[k] \in Cells /\ IsCell(cs[k], l.ascii28)
             /\ (IF k = 1 THEN CellText(cs[k]) ELSE <<d>> \o CellText(cs[k])) \in Seq(Glyphs)
  <2>1. cs[k] \in Cells
    BY <1>2
  <2>2. CellText(cs[k]) \in Seq(Glyphs)
    BY <2>1, CellType
  <2>3. <<d>> \in Seq(Glyphs)
    BY <1>3
  <2>4. <<d>> \o CellText(cs[k]) \in Seq(Glyphs)
    BY <2>2, <2>3, JoinFacts
  <2> QED BY <1>2, <1>7, <2>1, <2>2, <2>4
<1>9. p \in Seq(Seq(Glyphs)) /\ Len(p) = Len(cs)
  <2>1. p \in Seq(Seq(Glyphs))
    BY <1>6, <1>7, <1>8, IsASeq
  <2> QED BY <1>6, <1>7, <2>1
<1> QED BY <1>2, <1>5, <1>6, <1>7, <1>8, <1>9 DEF cs, d, p

LEMMA Layout ==
  ASSUME NEW l \in Lines, l.known, NEW k \in 1..Len(l.cells)
  PROVE  /\ From(l, k) \in Nat /\ To(l, k) = From(l, k) + Len(CellText(l.cells[k]))
         /\ Len(CellText(l.cells[k])) \in Nat /\ To(l, k) <= Len(l.text)
         /\ \A i \in 1..Len(CellText(l.cells[k])) :
              Source(l)[From(l, k) + i] = CellText(l.cells[k])[i]
         /\ k < Len(l.cells) => /\ From(l, k + 1) = To(l, k) + 1
                                /\ Source(l)[To(l, k) + 1] = Delimiter(l.ascii28)
         /\ k = Len(l.cells) => Source(l)[To(l, k) + 1] \in {Newline, NUL}
<1> DEFINE p == Pieces(l)
           u == FlattenSeq(p)
           x == CellText(l.cells[k])
           d == Delimiter(l.ascii28)
           y == CellText(l.cells[k + 1])
<1>1. /\ Len(l.cells) \in Nat /\ p \in Seq(Seq(Glyphs)) /\ Len(p) = Len(l.cells)
      /\ p[k] = IF k = 1 THEN x ELSE <<d>> \o x
      /\ l.cells[k] \in Cells
  BY PiecesType
<1>2. x \in Seq(Glyphs) /\ <<d>> \in Seq(Glyphs) /\ Len(<<d>>) = 1 /\ <<d>>[1] = d
  <2>1. d \in Glyphs
    BY DEF Delimiter, Glyphs
  <2> QED BY <1>1, <2>1, CellType
<1>3. PICK ending \in {<<>>, <<Newline>>} : l.text = u \o ending
  BY PiecesType
<1>4. PICK m \in Nat : m = k - 1 /\ m + 1 = k /\ m < Len(p)
  BY <1>1
<1>5. /\ u \in Seq(Glyphs) /\ p[k] \in Seq(Glyphs) /\ Len(Flat(p, m)) \in Nat
      /\ To(l, k) = Len(Flat(p, m)) + Len(p[k]) /\ To(l, k) <= Len(u)
      /\ \A e \in 1..Len(p[k]) : u[Len(Flat(p, m)) + e] = p[k][e]
  <2> HIDE DEF p
  <2>1. /\ u \in Seq(Glyphs) /\ p[m + 1] \in Seq(Glyphs) /\ Len(Flat(p, m)) \in Nat
        /\ Len(Flat(p, m + 1)) = Len(Flat(p, m)) + Len(p[m + 1]) /\ Len(Flat(p, m + 1)) <= Len(u)
        /\ \A e \in 1..Len(p[m + 1]) : u[Len(Flat(p, m)) + e] = p[m + 1][e]
    BY <1>1, <1>4, FlatElement
  <2> HIDE DEF u
  <2> QED BY <1>4, <2>1 DEF To, p
<1>6. /\ l.text \in Seq(Glyphs \cup {Newline}) /\ Len(u) \in Nat /\ Len(u) <= Len(l.text)
      /\ \A e \in 1..Len(u) : l.text[e] = u[e]
      /\ Len(l.text) \in Nat
      /\ l.text = u \/ (Len(l.text) = Len(u) + 1 /\ l.text[Len(u) + 1] = Newline)
  <2> HIDE DEF u
  <2>1. ending = <<>> \/ ending = <<Newline>>
    BY <1>3
  <2>2. CASE ending = <<>>
    <3>1. l.text = u
      BY <1>3, <1>5, <2>2
    <3> QED BY <1>5, <3>1, ElementFacts
  <2>3. CASE ending = <<Newline>>
    BY <1>3, <1>5, <2>3
  <2> QED BY <2>1, <2>2, <2>3
<1>7. /\ \A e \in 1..Len(u) : Source(l)[e] = u[e]
      /\ Source(l)[Len(u) + 1] \in {Newline, NUL}
  <2>1. /\ Source(l)[Len(l.text) + 1] = NUL
        /\ \A e \in 1..Len(l.text) : Source(l)[e] = l.text[e]
    <3>1. l.text \in Seq(Chars)
      BY CsvAssumption
    <3> QED BY <3>1 DEF Source
  <2> HIDE DEF u
  <2>2. \A e \in 1..Len(u) : e \in 1..Len(l.text)
    BY <1>6
  <2>3. CASE l.text = u
    BY <2>1, <2>3
  <2>4. CASE Len(l.text) = Len(u) + 1 /\ l.text[Len(u) + 1] = Newline
    <3>1. Len(u) + 1 \in 1..Len(l.text)
      BY <1>6, <2>4
    <3> QED BY <1>6, <2>1, <2>2, <2>4, <3>1
  <2> QED BY <1>6, <2>3, <2>4
<1>8. /\ From(l, k) \in Nat /\ Len(x) \in Nat /\ To(l, k) = From(l, k) + Len(x)
      /\ \A i \in 1..Len(x) : u[From(l, k) + i] = x[i]
  <2>1. CASE k = 1
    <3>1. m = 0 /\ Flat(p, 0) = <<>>
      BY <1>4, <2>1, FlatNone
    <3>2. From(l, k) = 0 /\ Len(Flat(p, m)) = 0 /\ p[k] = x
      BY <1>1, <2>1, <3>1 DEF From
    <3> HIDE DEF p, u, x
    <3> QED BY <1>2, <1>5, <3>2, ElementFacts
  <2>2. CASE k # 1
    <3>1. From(l, k) = Len(Flat(p, m)) + 1 /\ p[k] = <<d>> \o x
      BY <1>1, <1>4, <2>2 DEF From
    <3> DEFINE z == <<d>>
    <3>2. z \in Seq(Glyphs) /\ Len(z) = 1
      BY <1>2
    <3>3. p[k] = z \o x
      BY <3>1
    <3> HIDE DEF p, u, x, d, z
    <3>4. Len(p[k]) = 1 + Len(x) /\ Len(x) \in Nat /\ \A i \in 1..Len(x) : p[k][1 + i] = x[i]
      <4>1. /\ Len(p[k]) = Len(z) + Len(x)
            /\ \A i \in 1..Len(x) : p[k][Len(z) + i] = x[i]
        <5>1. x \in Seq(Glyphs) /\ z \in Seq(Glyphs)
          BY <1>2, <3>2
        <5>2. /\ Len(z \o x) = Len(z) + Len(x)
              /\ \A i \in 1..Len(x) : (z \o x)[Len(z) + i] = x[i]
          BY <5>1, JoinFacts
        <5> QED BY <3>3, <5>2, Zenon
      <4> QED BY <1>2, <3>2, <4>1, ElementFacts
    <3>5. ASSUME NEW i \in 1..Len(x) PROVE u[From(l, k) + i] = x[i]
      <4>1. PICK e \in 1..Len(p[k]) : e = 1 + i
        BY <3>4
      <4>2. Len(Flat(p, m)) + e = From(l, k) + i
        BY <1>5, <3>1, <4>1
      <4> QED BY <1>5, <3>4, <4>1, <4>2
    <3> QED BY <1>5, <3>1, <3>4, <3>5
  <2> QED BY <2>1, <2>2
<1>9. \A i \in 1..Len(x) : Source(l)[From(l, k) + i] = x[i]
  <2> HIDE DEF u, x
  <2>1. \A i \in 1..Len(x) : From(l, k) + i \in 1..Len(u)
    BY <1>5, <1>6, <1>8
  <2> QED BY <1>7, <1>8, <2>1
<1>10. ASSUME k < Len(l.cells)
       PROVE  From(l, k + 1) = To(l, k) + 1 /\ Source(l)[To(l, k) + 1] = d
  <2>1. k + 1 \in 1..Len(l.cells) /\ k + 1 # 1 /\ k \in Nat /\ k < Len(p) /\ (k + 1) - 1 = k
    BY <1>1, <1>10
  <2>2. p[k + 1] = <<d>> \o y /\ l.cells[k + 1] \in Cells
    BY <2>1, PiecesType
  <2>3. From(l, k + 1) = To(l, k) + 1
    BY <2>1 DEF From, To
  <2>4. 1 \in 1..Len(p[k + 1]) /\ p[k + 1][1] = d
    <3>1. y \in Seq(Glyphs)
      BY <2>2, CellType
    <3> HIDE DEF y, d
    <3> QED BY <1>2, <2>2, <3>1
  <2>5. /\ Len(Flat(p, k)) \in Nat /\ Len(Flat(p, k + 1)) <= Len(u)
        /\ Len(Flat(p, k + 1)) = Len(Flat(p, k)) + Len(p[k + 1])
        /\ \A e \in 1..Len(p[k + 1]) : u[Len(Flat(p, k)) + e] = p[k + 1][e]
    BY <1>1, <2>1, FlatElement
  <2>6. p[k + 1] \in Seq(Glyphs)
    BY <1>1, <2>1, FlatElement
  <2> HIDE DEF u, p, d
  <2>7. To(l, k) + 1 \in 1..Len(u) /\ u[To(l, k) + 1] = d
    <3>1. To(l, k) = Len(Flat(p, k))
      BY DEF To, p
    <3>2. Len(p[k + 1]) \in Nat /\ Len(p[k + 1]) >= 1
      BY <2>4, <2>6, ElementFacts
    <3> QED BY <1>6, <2>4, <2>5, <3>1, <3>2
  <2> QED BY <1>7, <2>3, <2>7
<1>11. ASSUME k = Len(l.cells) PROVE Source(l)[To(l, k) + 1] \in {Newline, NUL}
  <2>1. To(l, k) = Len(u)
    BY <1>1, <1>11, FlatAll DEF To
  <2> QED BY <1>7, <2>1
<1>12. To(l, k) <= Len(l.text)
  <2> HIDE DEF u, x
  <2> QED BY <1>5, <1>6, <1>8
<1> QED BY <1>8, <1>9, <1>10, <1>11, <1>12

-----------------------------------------------------------------------------
(* The cells of a line are read to their values.                             *)

\* The quote before a value, and what its first j characters take in the line.
Lead(c) == IF c.quoted THEN 1 ELSE 0
Width(c, j) == IF c.quoted THEN Len(Flat(Twins(c.value), j)) ELSE j

\* The first j characters of the cell c, which begins at b, are read: they lie at
\* start, where those after them will be shifted to.
Partly(c, b, j) ==
  /\ start = b + Lead(c) /\ position = start + Width(c, j)
  /\ pc = "csv" => position - offset = start + j
  /\ \A i \in 1..j : str[start + i] = c.value[i]

\* The k-th cell is read, or the first part of it.
Part(k) == \E j \in 0..Len(line.cells[k].value) : Partly(line.cells[k], From(line, k), j)
Reading(k) ==
  /\ pc = "row" => position = From(line, k)
  /\ pc = "ascii28" => line.ascii28 /\ Part(k)
  /\ pc = "csv" => ~line.ascii28 /\ escaped = line.cells[k].quoted /\ Part(k)
  /\ pc = "field" => /\ position = To(line, k) /\ Text(start, end) = StripOuter(line.cells[k].value)
                     /\ end < start => line.cells[k].value = <<Quote>>
  /\ pc = "crashed" => line.cells[k].value = <<Quote>>

\* An empty cell at the end of a line is not read.
IsRead(k) == k = Len(line.cells) => CellText(line.cells[k]) # <<>>

\* The first reading shifts a quote of one of the cells the version may be in.
Spoilt == ~line.ascii28 /\ \E k \in DOMAIN line.cells :
                             k <= 3 /\ line.cells[k].quoted /\ Has(line.cells[k].value, Quote)

Reads ==
  line.known /\ ~(again /\ Spoilt) =>
    /\ original = Source(line)
    /\ Len(fields) <= Len(line.cells)
    /\ \A i \in 1..Len(fields) : fields[i] = StripOuter(line.cells[i].value)
    /\ IF pc = "done" THEN Len(fields) = Len(line.cells) /\ IsRead(Len(fields))
       ELSE /\ Len(fields) < Len(line.cells) /\ Reading(Len(fields) + 1)
            /\ pc # "row" => IsRead(Len(fields) + 1)

\* As long as no cell with a quote in it is read, nothing is shifted.
Whole(m) == line.ascii28 \/ \A k \in DOMAIN line.cells :
                              k <= m /\ line.cells[k].quoted => ~Has(line.cells[k].value, Quote)
Unshifted ==
  line.known /\ ~again /\ Whole(Len(fields) + 1) =>
    str = Source(line) /\ (pc = "csv" => offset = 0)

\* What a cell is made of, at the place after the first j characters of its value.
LEMMA CellFacts ==
  ASSUME NEW c \in Cells, NEW j \in Nat, j <= Len(c.value)
  PROVE  /\ Width(c, j) \in Nat /\ Width(c, 0) = 0 /\ Lead(c) \in 0..1
         /\ Len(CellText(c)) \in Nat
         /\ (c.quoted => Len(CellText(c)) > 0 /\ CellText(c)[1] = Quote)
         /\ j < Len(c.value) =>
              /\ Lead(c) + Width(c, j) < Len(CellText(c))
              /\ CellText(c)[Lead(c) + Width(c, j) + 1] = c.value[j + 1]
              /\ IF c.quoted /\ c.value[j + 1] = Quote
                   THEN /\ Lead(c) + Width(c, j) + 1 < Len(CellText(c))
                        /\ CellText(c)[Lead(c) + Width(c, j) + 2] = Quote
                        /\ Width(c, j + 1) = Width(c, j) + 2
                   ELSE Width(c, j + 1) = Width(c, j) + 1
         /\ j = Len(c.value) =>
              IF c.quoted THEN /\ Lead(c) + Width(c, j) + 1 = Len(CellText(c))
                               /\ CellText(c)[Lead(c) + Width(c, j) + 1] = Quote
                          ELSE Lead(c) + Width(c, j) = Len(CellText(c))
<1> DEFINE v == c.value
           x == CellText(c)
<1>1. v \in Seq(Chars) /\ v \in Seq(Glyphs) /\ Quote \in Glyphs /\ c.quoted \in BOOLEAN /\ Len(v) \in Nat
  BY DEF Cells, Glyphs
<1>2. CASE ~c.quoted
  <2>1. x = v /\ Lead(c) = 0 /\ Width(c, 0) = 0 /\ Width(c, j) = j /\ Width(c, j + 1) = j + 1
    BY <1>2 DEF CellText, Lead, Width
  <2> QED BY <1>1, <1>2, <2>1
<1>3. CASE c.quoted
  <2> DEFINE q == <<Quote>>
             u == Twins(v)
             t == FlattenSeq(u)
             y == q \o t
             w == Len(Flat(u, j))
  <2>1. /\ u \in Seq(Seq(Glyphs)) /\ Len(u) = Len(v)
        /\ \A k \in 1..Len(v) : u[k] = IF v[k] = Quote THEN <<Quote, Quote>> ELSE <<v[k]>>
    BY <1>1, TwinsType
  <2>2. t \in Seq(Glyphs) /\ Flat(u, Len(v)) = t
    <3> HIDE DEF u
    <3>1. Flat(u, Len(u)) = t
      BY <2>1, FlatAll
    <3> QED BY <2>1, <3>1, FlattenType
  <2>3. /\ Lead(c) = 1 /\ Width(c, j) = w /\ Width(c, j + 1) = Len(Flat(u, j + 1))
        /\ Width(c, 0) = Len(Flat(u, 0)) /\ x = q \o t \o q
    <3>1. x = InQuotes(v) /\ t = Twice(v)
      BY <1>3 DEF CellText, Twice, Twins
    <3> QED BY <1>3, <3>1 DEF Lead, Width, InQuotes
  <2>4. Len(Flat(u, 0)) = 0
    BY FlatNone
  <2>5. q \in Seq(Glyphs) /\ Len(q) = 1 /\ q[1] = Quote
    BY <1>1
  <2> HIDE DEF u, t, q
  <2>6. /\ y \in Seq(Glyphs) /\ Len(y) = 1 + Len(t) /\ y[1] = Quote /\ Len(t) \in Nat
        /\ \A i \in 1..Len(t) : y[1 + i] = t[i]
    <3>1. /\ y \in Seq(Glyphs) /\ Len(y) = Len(q) + Len(t)
          /\ \A i \in 1..Len(q) : y[i] = q[i]
          /\ \A i \in 1..Len(t) : y[Len(q) + i] = t[i]
      <4>1. q \in Seq(Glyphs) /\ t \in Seq(Glyphs)
        BY <2>2, <2>5
      <4> QED BY <4>1, JoinFacts
    <3> HIDE DEF y
    <3> QED BY <2>2, <2>5, <3>1, ElementFacts
  <2>7. x = y \o q
    BY <2>3
  <2> HIDE DEF x, y
  <2>8. /\ Len(x) = Len(t) + 2 /\ x[1] = Quote /\ x[Len(t) + 2] = Quote
        /\ \A i \in 1..Len(t) : x[1 + i] = t[i]
    <3>1. /\ Len(x) = Len(y) + Len(q)
          /\ \A i \in 1..Len(y) : x[i] = y[i]
          /\ \A i \in 1..Len(q) : x[Len(y) + i] = q[i]
      <4>1. y \in Seq(Glyphs) /\ q \in Seq(Glyphs)
        BY <2>5, <2>6
      <4> QED BY <2>7, <4>1, JoinFacts
    <3>2. 1 \in 1..Len(y) /\ 1 \in 1..Len(q) /\ Len(y) + 1 = Len(t) + 2
          /\ \A i \in 1..Len(t) : 1 + i \in 1..Len(y)
      BY <2>5, <2>6
    <3>3. Len(x) = Len(t) + 2
      BY <2>5, <2>6, <3>1
    <3>4. x[1] = Quote /\ x[Len(t) + 2] = Quote
      BY <2>5, <2>6, <3>1, <3>2
    <3>5. ASSUME NEW i \in 1..Len(t) PROVE x[1 + i] = t[i]
      BY <2>6, <3>1, <3>2
    <3> QED BY <3>3, <3>4, <3>5
  <2>9. ASSUME j < Len(v)
        PROVE  /\ w \in Nat /\ w + 1 <= Len(t) /\ x[w + 2] = v[j + 1]
               /\ IF v[j + 1] = Quote
                    THEN w + 2 <= Len(t) /\ x[w + 3] = Quote /\ Len(Flat(u, j + 1)) = w + 2
                    ELSE Len(Flat(u, j + 1)) = w + 1
    <3> DEFINE g == u[j + 1]
    <3>1. /\ w \in Nat /\ Len(Flat(u, j + 1)) = w + Len(g) /\ Len(Flat(u, j + 1)) <= Len(t)
          /\ \A e \in 1..Len(g) : t[w + e] = g[e]
      BY <2>1, <2>9, FlatElement DEF t
    <3>2. g = IF v[j + 1] = Quote THEN <<Quote, Quote>> ELSE <<v[j + 1]>>
      <4>1. j + 1 \in 1..Len(v)
        BY <1>1, <2>9
      <4> QED BY <2>1, <4>1
    <3> HIDE DEF g, w
    <3>3. CASE v[j + 1] = Quote
      <4>1. Len(g) = 2 /\ g[1] = Quote /\ g[2] = Quote
        BY <3>2, <3>3
      <4>2. w + 2 <= Len(t) /\ Len(Flat(u, j + 1)) = w + 2
        BY <3>1, <4>1
      <4>3. t[w + 1] = Quote /\ t[w + 2] = Quote
        BY <3>1, <4>1
      <4>4. w + 1 \in 1..Len(t) /\ w + 2 \in 1..Len(t) /\ 1 + (w + 1) = w + 2 /\ 1 + (w + 2) = w + 3
        BY <2>6, <3>1, <4>2
      <4>5. x[1 + (w + 1)] = Quote /\ x[1 + (w + 2)] = Quote
        BY <2>8, <4>3, <4>4
      <4> QED BY <3>1, <3>3, <4>2, <4>4, <4>5
    <3>4. CASE v[j + 1] # Quote
      <4>1. Len(g) = 1 /\ g[1] = v[j + 1]
        BY <3>2, <3>4
      <4>2. w + 1 <= Len(t) /\ Len(Flat(u, j + 1)) = w + 1 /\ t[w + 1] = v[j + 1]
        BY <3>1, <4>1
      <4>3. w + 1 \in 1..Len(t) /\ 1 + (w + 1) = w + 2
        BY <2>6, <3>1, <4>2
      <4>4. x[1 + (w + 1)] = v[j + 1]
        BY <2>8, <4>2, <4>3
      <4> QED BY <3>1, <3>4, <4>2, <4>3, <4>4
    <3> QED BY <3>3, <3>4
  <2>10. ASSUME j = Len(v) PROVE w = Len(t)
    BY <2>2, <2>10
  <2> HIDE DEF w, v
  <2>11. w \in Nat
    BY <1>1, <2>6, <2>9, <2>10 DEF v
  <2>12. ASSUME j < Len(v)
         PROVE  /\ 1 + w < Len(x) /\ x[1 + w + 1] = v[j + 1]
                /\ IF v[j + 1] = Quote
                    THEN 1 + w + 1 < Len(x) /\ x[1 + w + 2] = Quote /\ Len(Flat(u, j + 1)) = w + 2
                    ELSE Len(Flat(u, j + 1)) = w + 1
    <3>1. 1 + w + 1 = w + 2 /\ 1 + w + 2 = w + 3
      BY <2>11
    <3>2. 1 + w < Len(x) /\ (w + 2 <= Len(t) => 1 + w + 1 < Len(x))
      BY <2>6, <2>8, <2>9, <2>11, <2>12
    <3> QED BY <2>9, <2>12, <3>1, <3>2
  <2>13. ASSUME j = Len(v) PROVE 1 + w + 1 = Len(x) /\ x[1 + w + 1] = Quote
    <3>1. 1 + w + 1 = Len(t) + 2
      BY <2>6, <2>10, <2>13
    <3> QED BY <2>8, <3>1
  <2>14. Len(x) \in Nat /\ Len(x) > 0 /\ x[1] = Quote
    BY <2>6, <2>8
  <2>15. Lead(c) + Width(c, j) = 1 + w /\ Lead(c) \in 0..1
    BY <2>3
  <2>16. ASSUME j < Len(v)
         PROVE  /\ Lead(c) + Width(c, j) < Len(x) /\ x[Lead(c) + Width(c, j) + 1] = v[j + 1]
                /\ IF v[j + 1] = Quote
                    THEN /\ Lead(c) + Width(c, j) + 1 < Len(x) /\ x[Lead(c) + Width(c, j) + 2] = Quote
                         /\ Width(c, j + 1) = Width(c, j) + 2
                    ELSE Width(c, j + 1) = Width(c, j) + 1
    BY <2>3, <2>12, <2>15, <2>16
  <2>17. ASSUME j = Len(v)
         PROVE  Lead(c) + Width(c, j) + 1 = Len(x) /\ x[Lead(c) + Width(c, j) + 1] = Quote
    BY <2>13, <2>15, <2>17
  <2> QED BY <1>3, <2>3, <2>4, <2>11, <2>14, <2>15, <2>16, <2>17 DEF v, x
<1> QED BY <1>1, <1>2, <1>3

LEMMA PartFacts ==
  ASSUME NEW S, NEW t, NEW g \in Int, NEW h \in Int, \A i \in g..h : t[i] \in S
  PROVE  /\ SubSeq(t, g, h) \in Seq(S) /\ Len(SubSeq(t, g, h)) = IF g <= h THEN h - g + 1 ELSE 0
         /\ \A i \in 1..h - g + 1 : SubSeq(t, g, h)[i] = t[g + i - 1]
BY SubSeqProperties

\* Two parts of sequences that hold the same.
LEMMA SamePart ==
  ASSUME NEW S, NEW t \in Seq(S), NEW a \in Nat, NEW v \in Seq(S), NEW m \in Nat, NEW n \in Nat,
         m <= 1, n <= Len(v), a + Len(v) <= Len(t), \A i \in 1..Len(v) : t[a + i] = v[i]
  PROVE  SubSeq(t, a + m + 1, a + n) = SubSeq(v, m + 1, n)
<1>1. PICK g \in Int, h \in Int, e \in Int :
        /\ g = a + m + 1 /\ h = a + n /\ e = m + 1
        /\ h - g + 1 = n - e + 1 /\ (g <= h <=> e <= n)
  OBVIOUS
<1>2. \A i \in e..n : i \in 1..Len(v) /\ v[i] \in S
  BY <1>1, ElementFacts
<1>3. \A i \in g..h : t[i] \in S
  <2>1. ASSUME NEW i \in g..h PROVE i \in 1..Len(t)
    BY <1>1, ElementFacts
  <2> QED BY <2>1
<1>4. /\ SubSeq(t, g, h) \in Seq(S) /\ Len(SubSeq(t, g, h)) = IF g <= h THEN h - g + 1 ELSE 0
      /\ \A i \in 1..h - g + 1 : SubSeq(t, g, h)[i] = t[g + i - 1]
  <2>1. g \in Int /\ h \in Int /\ \A i \in g..h : t[i] \in S
    BY <1>1, <1>3
  <2> QED BY <2>1, PartFacts
<1>5. /\ SubSeq(v, e, n) \in Seq(S) /\ Len(SubSeq(v, e, n)) = IF e <= n THEN n - e + 1 ELSE 0
      /\ \A i \in 1..n - e + 1 : SubSeq(v, e, n)[i] = v[e + i - 1]
  <2>1. \A i \in e..n : v[i] \in S
    BY <1>2
  <2> QED BY <2>1, PartFacts
<1> DEFINE p == SubSeq(t, g, h)
           q == SubSeq(v, e, n)
<1>6. ASSUME NEW i \in 1..(n - e + 1) PROVE p[i] = q[i]
  <2>1. e + i - 1 \in 1..Len(v) /\ g + i - 1 = a + (e + i - 1)
    BY <1>1
  <2>2. t[g + i - 1] = v[e + i - 1]
    BY <2>1
  <2>3. p[i] = t[g + i - 1] /\ q[i] = v[e + i - 1]
    BY <1>1, <1>4, <1>5
  <2> QED BY <2>2, <2>3
<1>7. p \in Seq(S) /\ q \in Seq(S) /\ Len(p) = Len(q) /\ 1..Len(p) \subseteq 1..(n - e + 1)
  BY <1>1, <1>4, <1>5
<1> HIDE DEF p, q
<1>8. p = q
  BY <1>6, <1>7, SeqEqual
<1> QED BY <1>1, <1>8 DEF p, q

\* A field that holds v is what is left of it without a pair of quotes, and ends
\* before it starts only if v is one quote.
LEMMA TextRead ==
  ASSUME Inv, Inv', line' = line, NEW v \in Seq(Chars), NEW s \in Nat, NEW e \in Nat, NEW q,
         e = s + Len(v), e <= N, \A i \in 1..Len(v) : str'[s + i] = v[i], EndField(s, e, q)
  PROVE  Text(start, end)' = StripOuter(v) /\ (end' < start' => v = <<Quote>>)
<1> DEFINE S == Chars \cup {NUL}
<1>1. /\ N \in Nat /\ str' \in Seq(S) /\ Len(str') = N + 1 /\ v \in Seq(S) /\ Len(v) \in Nat
  <2>1. N' = N
    BY DEF N
  <2>2. str' \in Seq(S) /\ Len(str') = N' + 1
    BY DEF Inv, TypeOK
  <2>3. v \in Seq(S) /\ Len(v) \in Nat
    OBVIOUS
  <2>4. N \in Nat
    BY PlaceFacts
  <2> QED BY <2>1, <2>2, <2>3, <2>4
<1>2. PICK t : t = str'
  OBVIOUS
<1>3. t \in Seq(S) /\ s + Len(v) <= Len(t) /\ \A i \in 1..Len(v) : t[s + i] = v[i]
  BY <1>1, <1>2
<1>4. Text(start, end)' = SubSeq(t, start' + 1, end')
  BY <1>2 DEF Text
<1> HIDE DEF S
<1>5. PICK n \in Nat : n = Len(v)
  BY <1>1
<1>6. v # <<>> <=> n # 0
  BY <1>5
<1>7. Strip(s, e) <=> v # <<>> /\ v[1] = Quote /\ v[Len(v)] = Quote
  <2>1. n # 0 => t[s + 1] = v[1] /\ t[e] = v[n]
    <3> SUFFICES ASSUME n # 0 PROVE t[s + 1] = v[1] /\ t[e] = v[n]
      OBVIOUS
    <3>1. 1 \in 1..Len(v) /\ n \in 1..Len(v) /\ s + n = e
      BY <1>5
    <3> QED BY <1>3, <3>1
  <2>2. s # e <=> n # 0
    BY <1>5
  <2> QED BY <1>2, <1>5, <1>6, <2>1, <2>2 DEF Strip
<1>8. StripOuter(v) = IF v # <<>> /\ v[1] = Quote /\ v[Len(v)] = Quote
                      THEN SubSeq(v, 2, Len(v) - 1) ELSE v
  BY DEF StripOuter, Last
<1>9. CASE Strip(s, e)
  <2>1. start' = s + 1 /\ end' = e - 1
    BY <1>9 DEF EndField
  <2>2. PICK k \in Nat : k = n - 1 /\ k <= Len(v) /\ e - 1 = s + k
    <3>1. n # 0
      BY <1>6, <1>7, <1>9
    <3>2. n - 1 \in Nat /\ n - 1 <= Len(v) /\ e - 1 = s + (n - 1)
      BY <1>5, <3>1
    <3> QED BY <3>2
  <2>3. SubSeq(t, s + 1 + 1, s + k) = SubSeq(v, 1 + 1, k)
    BY <1>1, <1>3, <2>2, SamePart
  <2>4. start' + 1 = s + 1 + 1 /\ end' = s + k /\ 1 + 1 = 2 /\ k = Len(v) - 1
    BY <1>5, <2>1, <2>2
  <2>5. ASSUME end' < start' PROVE v = <<Quote>>
    <3>1. Len(v) = 1
      BY <1>5, <1>6, <1>7, <1>9, <2>1, <2>5
    <3>2. v[1] = Quote
      BY <1>7, <1>9
    <3> QED BY <3>1, <3>2
  <2> QED BY <1>4, <1>7, <1>8, <1>9, <2>3, <2>4, <2>5
<1>10. CASE ~Strip(s, e)
  <2>1. start' = s /\ end' = e
    BY <1>10 DEF EndField
  <2>2. SubSeq(t, s + 0 + 1, s + n) = SubSeq(v, 0 + 1, n)
    BY <1>1, <1>3, <1>5, SamePart
  <2>3. start' + 1 = s + 0 + 1 /\ end' = s + n /\ 0 + 1 = 1
    BY <1>5, <2>1
  <2>4. SubSeq(v, 1, Len(v)) = v
    BY <1>1, SubSeqFull
  <2>5. ~(end' < start')
    BY <1>5, <2>1
  <2> QED BY <1>4, <1>5, <1>7, <1>8, <1>10, <2>2, <2>3, <2>4, <2>5
<1> QED BY <1>9, <1>10

\* What follows a place in a cell: the rest of the cell, and the end of the field.
Follows(l) == {Delimiter(l.ascii28), Newline, NUL}

\* Places in a text of m characters behind b others, of r in all, n of them passed.
PlacesAhead(b, n, m, r, p) ==
  /\ n < m => n + 1 \in 1..m /\ p \in p..r /\ p + 1 = b + (n + 1)
  /\ n + 1 < m => n + 2 \in 1..m /\ p + 1 \in p..r /\ (p + 1) + 1 = b + (n + 2)
  /\ n <= m => b + m \in p..r
  /\ n + 1 = m => m \in 1..m /\ p \in p..r /\ p + 1 = b + m

LEMMA PlaceAhead ==
  ASSUME NEW b \in Nat, NEW n \in Nat, NEW m \in Nat, NEW r \in Nat, NEW p \in Nat,
         p = b + n, b + m <= r
  PROVE  PlacesAhead(b, n, m, r, p)
BY DEF PlacesAhead

\* Of a cell read to its j-th character: what comes next.
Ahead(c, b, k, j) ==
  /\ c \in Cells /\ IsCell(c, line.ascii28) /\ b \in Nat /\ To(line, k) \in 0..N
  /\ Len(c.value) \in Nat /\ start \in Nat /\ Width(c, j) \in Nat
  /\ j < Len(c.value) =>
       /\ At(position) = c.value[j + 1] /\ At(position) \in Chars
       /\ IF c.quoted /\ c.value[j + 1] = Quote
            THEN At(position + 1) = Quote /\ Width(c, j + 1) = Width(c, j) + 2
            ELSE Width(c, j + 1) = Width(c, j) + 1
  /\ j = Len(c.value) =>
       IF c.quoted
         THEN /\ At(position) = Quote /\ position + 1 = To(line, k)
              /\ At(position + 1) \in Follows(line)
         ELSE position = To(line, k) /\ At(position) \in Follows(line)

LEMMA NextChar ==
  ASSUME Inv, line.known, original = Source(line), NEW k \in 1..Len(line.cells),
         NEW c, c = line.cells[k], NEW b, b = From(line, k),
         NEW j \in 0..Len(c.value), Partly(c, b, j)
  PROVE  Ahead(c, b, k, j)
<1> DEFINE x == CellText(c)
           v == c.value
           e == To(line, k)
<1>1. c \in Cells /\ IsCell(c, line.ascii28) /\ v \in Seq(Chars) /\ Len(v) \in Nat
  <2>1. line \in Lines
    BY DEF Inv, TypeOK
  <2>2. c \in Cells /\ IsCell(c, line.ascii28)
    BY <2>1, PiecesType
  <2>3. v \in Seq(Chars)
    BY <2>2 DEF Cells
  <2> QED BY <2>2, <2>3
<1>2. /\ b \in Nat /\ Len(x) \in Nat /\ e = b + Len(x) /\ e <= N /\ N \in Nat
      /\ \A i \in 1..Len(x) : original[b + i] = x[i]
      /\ original[e + 1] \in Follows(line)
  <2>1. line \in Lines /\ N \in Nat
    BY PlaceFacts DEF Inv, TypeOK
  <2>2. /\ b \in Nat /\ Len(x) \in Nat /\ e = b + Len(x) /\ e <= N
        /\ \A i \in 1..Len(x) : original[b + i] = x[i]
    BY <2>1, Layout DEF N
  <2>3. k < Len(line.cells) \/ k = Len(line.cells)
    BY <2>1, PiecesType
  <2>4. original[e + 1] \in Follows(line)
    BY <2>1, <2>3, Layout DEF Follows
  <2> QED BY <2>1, <2>2, <2>4
<1>3. \A p \in position..N : At(p) = original[p + 1]
  BY DEF Inv, InPlace
<1>4. PICK h \in Nat, w \in Nat : h = Lead(c) /\ w = Width(c, j)
  <2>1. j \in Nat /\ j <= Len(c.value)
    BY <1>1
  <2>2. Lead(c) \in 0..1 /\ Width(c, j) \in Nat
    BY <1>1, <2>1, CellFacts
  <2> QED BY <2>2
<1>5. PICK n \in Nat : n = h + w /\ position = b + n /\ start = b + h
  <2>1. h + w \in Nat /\ start = b + h /\ position = start + w
    BY <1>4 DEF Partly
  <2>2. position = b + (h + w)
    BY <1>2, <2>1
  <2> QED BY <2>1, <2>2
<1>6. /\ j < Len(v) =>
           /\ n < Len(x) /\ x[n + 1] = v[j + 1]
           /\ IF c.quoted /\ v[j + 1] = Quote
                THEN n + 1 < Len(x) /\ x[n + 2] = Quote /\ Width(c, j + 1) = w + 2
                ELSE Width(c, j + 1) = w + 1
      /\ j = Len(v) => IF c.quoted THEN n + 1 = Len(x) /\ x[n + 1] = Quote ELSE n = Len(x)
  <2>1. j \in Nat /\ j <= Len(c.value)
    BY <1>1
  <2> HIDE DEF x, v
  <2>2. /\ j < Len(c.value) =>
              /\ Lead(c) + Width(c, j) < Len(CellText(c))
              /\ CellText(c)[Lead(c) + Width(c, j) + 1] = c.value[j + 1]
              /\ IF c.quoted /\ c.value[j + 1] = Quote
                   THEN /\ Lead(c) + Width(c, j) + 1 < Len(CellText(c))
                        /\ CellText(c)[Lead(c) + Width(c, j) + 2] = Quote
                        /\ Width(c, j + 1) = Width(c, j) + 2
                   ELSE Width(c, j + 1) = Width(c, j) + 1
        /\ j = Len(c.value) =>
              IF c.quoted THEN /\ Lead(c) + Width(c, j) + 1 = Len(CellText(c))
                               /\ CellText(c)[Lead(c) + Width(c, j) + 1] = Quote
                          ELSE Lead(c) + Width(c, j) = Len(CellText(c))
    BY <1>1, <2>1, CellFacts
  <2>3. Lead(c) + Width(c, j) = n
    BY <1>4, <1>5
  <2> QED BY <1>4, <2>2, <2>3, Zenon DEF x, v
<1> HIDE DEF x, v, e
<1>7. PICK m \in Nat, p \in Nat, r \in Nat : /\ m = Len(x) /\ p = position /\ p = b + n
                                               /\ r = N /\ b + m <= r /\ e = b + m
  <2>1. b + n \in Nat
    BY <1>2
  <2> QED BY <1>2, <1>5, <2>1
<1>7a. /\ n < m => n + 1 \in 1..m /\ p \in p..r /\ p + 1 = b + (n + 1)
       /\ n + 1 < m => n + 2 \in 1..m /\ p + 1 \in p..r /\ (p + 1) + 1 = b + (n + 2)
       /\ n <= m => b + m \in p..r
       /\ n + 1 = m => m \in 1..m /\ p \in p..r /\ p + 1 = b + m
  <2>1. /\ b \in Nat /\ n \in Nat /\ m \in Nat /\ r \in Nat /\ p \in Nat
        /\ p = b + n /\ b + m <= r
    BY <1>2, <1>5, <1>7
  <2>2. PlacesAhead(b, n, m, r, p)
    BY <2>1, PlaceAhead
  <2> QED BY <2>2 DEF PlacesAhead
<1>8. ASSUME j < Len(v)
      PROVE  /\ At(position) = v[j + 1] /\ At(position) \in Chars
             /\ IF c.quoted /\ v[j + 1] = Quote
                  THEN At(position + 1) = Quote /\ Width(c, j + 1) = w + 2
                  ELSE Width(c, j + 1) = w + 1
  <2>1. /\ n < Len(x) /\ x[n + 1] = v[j + 1]
        /\ IF c.quoted /\ v[j + 1] = Quote
             THEN n + 1 < Len(x) /\ x[n + 2] = Quote /\ Width(c, j + 1) = w + 2
             ELSE Width(c, j + 1) = w + 1
    BY <1>6, <1>8
  <2>2. At(position) = v[j + 1]
    <3>1. n < m
      BY <1>7, <2>1
    <3>2. n + 1 \in 1..m /\ p \in p..r /\ p + 1 = b + (n + 1)
      BY <1>7a, <3>1
    <3>3. x[n + 1] = v[j + 1]
      BY <2>1
    <3>4. original[b + (n + 1)] = x[n + 1]
      BY <1>2, <1>7, <3>2
    <3>5. At(p) = original[p + 1]
      BY <1>3, <1>7, <3>2
    <3> QED BY <1>7, <3>2, <3>3, <3>4, <3>5
  <2>3. v[j + 1] \in Chars
    BY <1>1, <1>8, ElementFacts DEF v
  <2>4. ASSUME n + 1 < Len(x) PROVE At(position + 1) = x[n + 2]
    <3>1. n + 1 < m
      BY <1>7, <2>4
    <3>2. n + 2 \in 1..m /\ p + 1 \in p..r /\ (p + 1) + 1 = b + (n + 2)
      BY <1>7a, <3>1
    <3>3. original[b + (n + 2)] = x[n + 2]
      BY <1>2, <1>7, <3>2
    <3>4. At(p + 1) = original[(p + 1) + 1]
      BY <1>3, <1>7, <3>2
    <3> QED BY <1>7, <3>2, <3>3, <3>4
  <2> QED BY <2>1, <2>2, <2>3, <2>4
<1>9. ASSUME j = Len(v)
      PROVE  IF c.quoted
               THEN At(position) = Quote /\ position + 1 = e /\ At(position + 1) \in Follows(line)
               ELSE position = e /\ At(position) \in Follows(line)
  <2>1. IF c.quoted THEN n + 1 = Len(x) /\ x[n + 1] = Quote ELSE n = Len(x)
    BY <1>6, <1>9
  <2>2. At(e) \in Follows(line)
    <3>1. n <= m
      <4>1. n + 1 = m \/ n = m
        BY <1>7, <2>1
      <4> QED BY <1>7, <4>1
    <3>2. e \in position..N
      BY <1>7, <1>7a, <3>1
    <3> QED BY <1>2, <1>3, <3>2
  <2>3. CASE c.quoted
    <3>1. n + 1 = m /\ x[m] = Quote
      BY <1>7, <2>1, <2>3
    <3>2. m \in 1..m /\ p \in p..r /\ p + 1 = b + m /\ p + 1 = e
      BY <1>7, <1>7a, <3>1
    <3>3. At(p) = original[p + 1]
      BY <1>3, <1>7, <3>2
    <3>4. original[b + m] = x[m]
      BY <1>2, <1>7, <3>2
    <3>5. At(position) = Quote
      BY <1>7, <3>1, <3>2, <3>3, <3>4
    <3> QED BY <1>7, <2>2, <2>3, <3>2, <3>5
  <2>4. CASE ~c.quoted
    <3>1. n = m
      BY <1>7, <2>1, <2>4
    <3>2. position = e
      BY <1>7, <3>1
    <3> QED BY <2>2, <2>4, <3>2
  <2> QED BY <2>3, <2>4
<1>10. start \in Nat /\ e \in 0..N
  <2>1. b + h \in Nat /\ b + m \in 0..r
    <3>1. b \in Nat /\ b + m <= r
      BY <1>2, <1>7
    <3> QED BY <3>1
  <2> QED BY <1>5, <1>7, <2>1
<1>11. j < Len(c.value) =>
         /\ At(position) = c.value[j + 1] /\ At(position) \in Chars
         /\ IF c.quoted /\ c.value[j + 1] = Quote
              THEN At(position + 1) = Quote /\ Width(c, j + 1) = Width(c, j) + 2
              ELSE Width(c, j + 1) = Width(c, j) + 1
  BY <1>4, <1>8, Zenon DEF v
<1>12. j = Len(c.value) =>
         IF c.quoted
           THEN /\ At(position) = Quote /\ position + 1 = To(line, k)
                /\ At(position + 1) \in Follows(line)
           ELSE position = To(line, k) /\ At(position) \in Follows(line)
  BY <1>9, Zenon DEF v, e
<1>13. /\ c \in Cells /\ IsCell(c, line.ascii28) /\ b \in Nat /\ To(line, k) \in 0..N
       /\ Len(c.value) \in Nat /\ start \in Nat /\ Width(c, j) \in Nat
  BY <1>1, <1>2, <1>4, <1>10, Zenon DEF v, e
<1> QED BY <1>11, <1>12, <1>13, Zenon DEF Ahead

\* What a cell begins with.
LEMMA FirstChar ==
  ASSUME Inv, line.known, original = Source(line), NEW k \in 1..Len(line.cells),
         NEW c, c = line.cells[k], position = From(line, k)
  PROVE  /\ CellText(c) = <<>> => /\ c.value = <<>> /\ ~c.quoted /\ position = To(line, k)
                                  /\ IF k < Len(line.cells) THEN At(position) = Delimiter(line.ascii28)
                                                            ELSE isParseDone(position)
         /\ CellText(c) # <<>> => /\ ~isParseDone(position)
                                  /\ IF c.quoted THEN At(position) = Quote
                                     ELSE c.value # <<>> /\ At(position) = c.value[1]
<1> DEFINE x == CellText(c)
           e == To(line, k)
<1>1. /\ c \in Cells /\ IsCell(c, line.ascii28) /\ line \in Lines /\ Len(line.cells) \in Nat
      /\ c.value \in Seq(Chars) /\ c.quoted \in BOOLEAN /\ Len(c.value) \in Nat
  <2>1. line \in Lines
    BY DEF Inv, TypeOK
  <2>2. c \in Cells /\ IsCell(c, line.ascii28) /\ Len(line.cells) \in Nat
    BY <2>1, PiecesType
  <2>3. c.value \in Seq(Chars) /\ c.quoted \in BOOLEAN
    BY <2>2 DEF Cells
  <2> QED BY <2>1, <2>2, <2>3
<1>2. /\ position \in Nat /\ Len(x) \in Nat /\ e = position + Len(x) /\ e <= N /\ N \in Nat
      /\ \A i \in 1..Len(x) : original[position + i] = x[i]
  <2>1. N \in Nat
    BY PlaceFacts
  <2> QED BY <1>1, <2>1, Layout DEF N
<1>3. At(position) = original[position + 1]
  BY PlaceFacts
<1>4. x \in Seq(Glyphs) /\ (x = <<>> <=> Len(x) = 0)
  <2>1. x \in Seq(Glyphs)
    BY <1>1, CellType
  <2> HIDE DEF x
  <2> QED BY <2>1
<1>5. c.quoted => x # <<>> /\ x[1] = Quote
  <2>1. 0 <= Len(c.value) /\ 0 \in Nat
    BY <1>1
  <2>2. c.quoted => Len(x) > 0 /\ x[1] = Quote
    BY <1>1, <2>1, CellFacts
  <2> HIDE DEF x
  <2> QED BY <1>2, <1>4, <2>2
<1>6. ~c.quoted => x = c.value
  BY DEF CellText
<1> HIDE DEF x, e
<1>7. CASE x = <<>>
  <2>1. c.value = <<>> /\ ~c.quoted
    BY <1>5, <1>6, <1>7
  <2>2. position = e
    BY <1>2, <1>4, <1>7
  <2>3. IF k < Len(line.cells) THEN original[e + 1] = Delimiter(line.ascii28)
                               ELSE original[e + 1] \in {NUL, Newline}
    <3>1. k < Len(line.cells) \/ k = Len(line.cells)
      BY <1>1
    <3> QED BY <1>1, <3>1, Layout DEF e
  <2> QED BY <1>3, <1>7, <2>1, <2>2, <2>3 DEF e, x, isParseDone
<1>8. CASE x # <<>>
  <2>1. At(position) = x[1]
    <3>1. 1 \in 1..Len(x)
      BY <1>2, <1>4, <1>8
    <3> QED BY <1>2, <1>3, <3>1
  <2>2. CASE c.quoted
    BY <1>5, <1>8, <2>1, <2>2 DEF isParseDone, NUL, Newline, Quote, x
  <2>3. CASE ~c.quoted
    <3>1. x = c.value /\ c.value # <<>> /\ ~Has(c.value, Newline)
      BY <1>1, <1>6, <1>8, <2>3 DEF IsCell, MayBeBare
    <3>2. 1 \in DOMAIN c.value /\ c.value[1] \in Chars
      BY <1>1, <3>1
    <3>3. At(position) # NUL /\ At(position) # Newline
      BY <2>1, <3>1, <3>2, CsvAssumption DEF Has
    <3> QED BY <1>8, <2>1, <2>3, <3>1, <3>3 DEF isParseDone, x
  <2> QED BY <2>2, <2>3
<1> QED BY <1>7, <1>8 DEF x

-----------------------------------------------------------------------------
\* A cell that is read is read to its end: no action leaves it before.
LEMMA ReadingPart ==
  ASSUME NEW k, pc \in {"ascii28", "csv"}, Reading(k)
  PROVE  /\ Part(k)
         /\ pc = "ascii28" => line.ascii28
         /\ pc = "csv" => ~line.ascii28 /\ escaped = line.cells[k].quoted
BY DEF Reading

LEMMA PartReading ==
  ASSUME NEW k, pc' \in {"ascii28", "csv"}, Part(k)', pc' = "ascii28" => line'.ascii28,
         pc' = "csv" => ~line'.ascii28 /\ escaped' = line'.cells[k].quoted
  PROVE  Reading(k)'
BY DEF Reading

LEMMA Grown ==
  ASSUME NEW c, NEW b, NEW j \in Nat, NEW s \in Nat, s = b + Lead(c), start' = s,
         position' = s + Width(c, j + 1), pc' = "csv" => position' - offset' = s + (j + 1),
         \A i \in 1..j : str'[s + i] = c.value[i], str'[s + (j + 1)] = c.value[j + 1]
  PROVE  Partly(c, b, j + 1)'
<1>1. ASSUME NEW i \in 1..(j + 1) PROVE str'[s + i] = c.value[i]
  <2>1. i \in 1..j \/ i = j + 1
    OBVIOUS
  <2> QED BY <2>1
<1> QED BY <1>1 DEF Partly

LEMMA TakeReads ==
  ASSUME Inv, line.known, original = Source(line), NEW k \in 1..Len(line.cells), Reading(k),
         TakeAscii28 \/ SkipQuote \/ TakeCsv
  PROVE  Reading(k)'
<1>1. /\ pc' = pc /\ line' = line /\ start' = start /\ escaped' = escaped
      /\ pc = IF TakeAscii28 THEN "ascii28" ELSE "csv"
  BY DEF TakeAscii28, SkipQuote, TakeCsv, Turn, readVars
<1>2. PICK c, b : c = line.cells[k] /\ b = From(line, k)
  OBVIOUS
<1>3. /\ pc \in {"ascii28", "csv"} /\ Part(k)
      /\ pc = "ascii28" => line.ascii28
      /\ pc = "csv" => ~line.ascii28 /\ escaped = c.quoted
  BY <1>1, <1>2, ReadingPart
<1>4. PICK j \in 0..Len(c.value) : Partly(c, b, j)
  BY <1>2, <1>3 DEF Part
<1>5. /\ IsCell(c, line.ascii28) /\ Len(c.value) \in Nat /\ start \in Nat /\ Width(c, j) \in Nat
      /\ j < Len(c.value) =>
           /\ At(position) = c.value[j + 1]
           /\ IF c.quoted /\ c.value[j + 1] = Quote
                THEN Width(c, j + 1) = Width(c, j) + 2
                ELSE Width(c, j + 1) = Width(c, j) + 1
      /\ j = Len(c.value) =>
           IF c.quoted THEN At(position) = Quote /\ At(position + 1) \in Follows(line)
                       ELSE At(position) \in Follows(line)
  <2>1. Ahead(c, b, k, j)
    BY <1>2, <1>4, NextChar
  <2> QED BY <2>1 DEF Ahead
<1>6. /\ start = b + Lead(c) /\ position = start + Width(c, j)
      /\ pc = "csv" => position - offset = start + j
      /\ \A i \in 1..j : str[start + i] = c.value[i]
  BY <1>4 DEF Partly
<1>7. PICK s \in Nat, w \in Nat : s = start /\ w = Width(c, j)
  BY <1>5
<1>8. j \in Nat /\ j + 1 \in Nat /\ (j < Len(c.value) => j + 1 \in 0..Len(c.value))
      /\ (j < Len(c.value) \/ j = Len(c.value))
  BY <1>5
<1>9. ASSUME j < Len(c.value), Partly(c, b, j + 1)' PROVE Reading(k)'
  <2>1. Part(k)'
    BY <1>1, <1>2, <1>8, <1>9 DEF Part
  <2> QED BY <1>1, <1>2, <1>3, <2>1, PartReading
<1>10. CASE TakeAscii28
  <2>1. /\ At(position) \notin {NUL, Separator, Newline} /\ str' = str /\ position' = position + 1
        /\ pc = "ascii28" /\ pc' # "csv"
    BY <1>1, <1>10 DEF TakeAscii28
  <2>2. line.ascii28 /\ ~c.quoted
    BY <1>3, <1>5, <2>1 DEF IsCell
  <2>3. j < Len(c.value)
    BY <1>5, <1>8, <2>1, <2>2 DEF Follows, Delimiter
  <2>4. Width(c, j + 1) = w + 1 /\ w = j /\ At(position) = c.value[j + 1]
    <3>1. Width(c, j) = j
      BY <2>2 DEF Width
    <3> QED BY <1>5, <1>7, <2>2, <2>3, <3>1
  <2>5. position' = s + Width(c, j + 1) /\ position = s + j /\ position + 1 = s + (j + 1)
    BY <1>6, <1>7, <1>8, <2>1, <2>4
  <2>6. str'[s + (j + 1)] = c.value[j + 1]
    BY <2>1, <2>4, <2>5 DEF At
  <2>7. Partly(c, b, j + 1)'
    BY <1>1, <1>6, <1>7, <1>8, <2>1, <2>5, <2>6, Grown
  <2> QED BY <1>9, <2>3, <2>7
<1>11. CASE SkipQuote \/ TakeCsv
  <2>1. Turn /\ pc = "csv"
    BY <1>11 DEF SkipQuote, TakeCsv, Turn
  <2>2. /\ position \in Nat /\ offset \in Nat /\ position - offset = s + j
        /\ \A i \in 1..(position - offset) : str'[i] = str[i]
        /\ str'[position - offset + 1] = At(position)
    BY <1>6, <1>7, <2>1, ShiftText
  <2>3. \A i \in 1..j : str'[s + i] = c.value[i]
    <3>1. \A i \in 1..j : s + i \in 1..(s + j)
      BY <1>7, <1>8
    <3> QED BY <1>6, <1>7, <2>2, <3>1
  <2>4. j < Len(c.value) /\ At(position) = c.value[j + 1]
        /\ (SkipQuote => c.quoted /\ c.value[j + 1] = Quote)
        /\ (~SkipQuote => ~(c.quoted /\ c.value[j + 1] = Quote))
    <3>1. CASE SkipQuote
      <4>1. c.quoted /\ At(position) = Quote /\ At(position + 1) = Quote
        BY <1>3, <2>1, <3>1 DEF SkipQuote, Doubled
      <4>2. ~line.ascii28
        BY <1>3, <2>1
      <4>3. Quote \notin Follows(line)
        BY <4>2 DEF Follows, Delimiter, Quote, Comma, Newline, NUL
      <4> QED BY <1>5, <1>8, <3>1, <4>1, <4>3
    <3>2. CASE TakeCsv /\ ~SkipQuote
      <4>1. ~EndsField(At(position)) /\ ~(c.quoted /\ At(position) = Quote) /\ escaped = c.quoted
        BY <1>3, <2>1, <3>2 DEF TakeCsv
      <4>2. ~line.ascii28
        BY <1>3, <2>1
      <4>3. At(position) \in Follows(line) => c.quoted
        BY <4>1, <4>2 DEF EndsField, Follows, Delimiter
      <4>4. j # Len(c.value)
        BY <1>5, <4>1, <4>3
      <4> QED BY <1>5, <1>8, <3>2, <4>1, <4>4
    <3> QED BY <1>11, <3>1, <3>2
  <2>5. position' = position + (IF SkipQuote THEN 2 ELSE 1)
        /\ offset' = offset + (IF SkipQuote THEN 1 ELSE 0)
    <3>1. CASE SkipQuote
      BY <3>1 DEF SkipQuote
    <3>2. CASE ~SkipQuote
      BY <1>11, <2>2, <3>2 DEF TakeCsv, readVars
    <3> QED BY <3>1, <3>2
  <2>6. Width(c, j + 1) = w + (IF SkipQuote THEN 2 ELSE 1)
    BY <1>5, <1>7, <2>4
  <2>7. position' = s + Width(c, j + 1) /\ position' - offset' = s + (j + 1)
    <3>1. position = s + w
      BY <1>6, <1>7
    <3>2. CASE SkipQuote
      <4>1. position' = position + 2 /\ offset' = offset + 1 /\ Width(c, j + 1) = w + 2
        BY <2>5, <2>6, <3>2
      <4>2. PICK p \in Nat, o \in Nat : p = position /\ o = offset /\ p - o = s + j
        BY <2>2
      <4>3. p = s + w /\ p + 2 = s + (w + 2) /\ (p + 2) - (o + 1) = s + (j + 1)
        BY <1>8, <3>1, <4>2
      <4> QED BY <4>1, <4>2, <4>3
    <3>3. CASE ~SkipQuote
      <4>1. position' = position + 1 /\ offset' = offset /\ Width(c, j + 1) = w + 1
        BY <2>2, <2>5, <2>6, <3>3
      <4>2. PICK p \in Nat, o \in Nat : p = position /\ o = offset /\ p - o = s + j
        BY <2>2
      <4>3. p = s + w /\ p + 1 = s + (w + 1) /\ (p + 1) - o = s + (j + 1)
        BY <1>8, <3>1, <4>2
      <4> QED BY <4>1, <4>2, <4>3
    <3> QED BY <3>2, <3>3
  <2>8. str'[s + (j + 1)] = c.value[j + 1]
    <3>1. position - offset + 1 = s + (j + 1)
      BY <1>7, <1>8, <2>2
    <3> QED BY <2>2, <2>4, <3>1
  <2>9. Partly(c, b, j + 1)'
    BY <1>1, <1>6, <1>7, <1>8, <2>3, <2>7, <2>8, Grown
  <2> QED BY <1>9, <2>4, <2>9
<1> QED BY <1>10, <1>11

LEMMA BeginReads ==
  ASSUME Inv, line.known, original = Source(line), NEW k \in 1..Len(line.cells), Reading(k),
         BeginAscii28 \/ BeginCsv
  PROVE  Reading(k)' /\ IsRead(k)
<1>1. PICK c, b : c = line.cells[k] /\ b = From(line, k)
  OBVIOUS
<1>2. pc = "row" /\ position = b /\ ~isParseDone(position) /\ line' = line /\ str' = str
  BY <1>1 DEF Reading, BeginAscii28, BeginCsv
<1>3. /\ c \in Cells /\ IsCell(c, line.ascii28) /\ Len(c.value) \in Nat /\ c.value \in Seq(Chars)
      /\ Len(line.cells) \in Nat /\ line \in Lines
  <2>1. line \in Lines
    BY DEF Inv, TypeOK
  <2>2. c \in Cells /\ IsCell(c, line.ascii28) /\ Len(line.cells) \in Nat
    BY <1>1, <2>1, PiecesType
  <2> QED BY <2>1, <2>2 DEF Cells
<1>4. /\ CellText(c) = <<>> => ~c.quoted /\ IF k < Len(line.cells) THEN At(position) = Delimiter(line.ascii28)
                                                                 ELSE isParseDone(position)
      /\ CellText(c) # <<>> => IF c.quoted THEN At(position) = Quote
                               ELSE c.value # <<>> /\ At(position) = c.value[1]
  BY <1>1, <1>2, FirstChar
<1>5. IsRead(k)
  BY <1>1, <1>2, <1>3, <1>4 DEF IsRead
<1>6. b \in Nat /\ Width(c, 0) = 0 /\ 0 \in 0..Len(c.value)
  BY <1>2, <1>3, PlaceFacts, CellFacts
<1>7. ASSUME start' = b + Lead(c), position' = start', pc' = "csv" => offset' = 0 PROVE Part(k)'
  <2>1. Lead(c) \in Nat
    BY DEF Lead
  <2>2. position' = start' + Width(c, 0) /\ (pc' = "csv" => position' - offset' = start' + 0)
    BY <1>6, <1>7, <2>1
  <2>3. Partly(c, b, 0)'
    BY <1>7, <2>2 DEF Partly
  <2> QED BY <1>1, <1>2, <1>6, <2>3 DEF Part
<1>8. CASE BeginAscii28
  <2>1. line.ascii28 /\ start' = position /\ position' = position /\ pc' = "ascii28"
    BY <1>8 DEF BeginAscii28
  <2>2. Lead(c) = 0
    BY <1>3, <2>1 DEF IsCell, Lead
  <2>3. Part(k)'
    BY <1>2, <1>6, <1>7, <2>1, <2>2
  <2> QED BY <1>2, <1>5, <2>1, <2>3, PartReading
<1>9. CASE BeginCsv
  <2>1. /\ ~line.ascii28 /\ At(position) # Comma /\ escaped' = (At(position) = Quote)
        /\ position' = (IF escaped' THEN position + 1 ELSE position)
        /\ start' = position' /\ pc' = "csv" /\ offset' = 0
    BY <1>9 DEF BeginCsv
  <2>2. escaped' = c.quoted /\ c.quoted \in BOOLEAN
    <3>1. c.quoted \in BOOLEAN
      BY <1>3 DEF Cells
    <3>2. CellText(c) # <<>>
      BY <1>2, <1>4, <2>1 DEF Delimiter
    <3>3. ~c.quoted => At(position) # Quote
      BY <1>3, <1>4, <2>1, <3>2 DEF IsCell, MayBeBare
    <3> QED BY <1>4, <2>1, <3>1, <3>2, <3>3
  <2>3. start' = b + Lead(c)
    <3>1. CASE c.quoted
      BY <1>2, <2>1, <2>2, <3>1 DEF Lead
    <3>2. CASE ~c.quoted
      BY <1>2, <1>6, <2>1, <2>2, <3>2 DEF Lead
    <3> QED BY <3>1, <3>2
  <2>4. Part(k)'
    BY <1>7, <2>1, <2>3
  <2> QED BY <1>1, <1>2, <1>5, <2>1, <2>2, <2>4, PartReading
<1> QED BY <1>8, <1>9

\* What is read of a cell at its end is its value.
LEMMA EndReads ==
  ASSUME Inv, Inv', line.known, original = Source(line), NEW k \in 1..Len(line.cells), Reading(k),
         EndAscii28 \/ EndCsv \/ CloseCsv
  PROVE  Reading(k)'
<1>1. /\ line' = line /\ pc' = "field"
      /\ pc = IF EndAscii28 THEN "ascii28" ELSE "csv"
  BY DEF EndAscii28, EndCsv, CloseCsv, Turn, EndField
<1>2. PICK c, b : c = line.cells[k] /\ b = From(line, k)
  OBVIOUS
<1>3. /\ pc \in {"ascii28", "csv"} /\ Part(k)
      /\ pc = "ascii28" => line.ascii28
      /\ pc = "csv" => ~line.ascii28 /\ escaped = c.quoted
  BY <1>1, <1>2, ReadingPart
<1>4. PICK j \in 0..Len(c.value) : Partly(c, b, j)
  BY <1>2, <1>3 DEF Part
<1>5. /\ c \in Cells /\ IsCell(c, line.ascii28) /\ Len(c.value) \in Nat /\ start \in Nat
      /\ To(line, k) \in 0..N
      /\ j < Len(c.value) =>
           /\ At(position) = c.value[j + 1] /\ At(position) \in Chars
           /\ c.quoted /\ c.value[j + 1] = Quote => At(position + 1) = Quote
      /\ j = Len(c.value) =>
           IF c.quoted THEN At(position) = Quote /\ position + 1 = To(line, k)
                       ELSE position = To(line, k)
  <2>1. Ahead(c, b, k, j)
    BY <1>2, <1>4, NextChar
  <2> QED BY <2>1 DEF Ahead
<1>6. /\ start = b + Lead(c) /\ position = start + Width(c, j)
      /\ pc = "csv" => position - offset = start + j
      /\ \A i \in 1..j : str[start + i] = c.value[i]
  BY <1>4 DEF Partly
<1>7. PICK s \in Nat, e \in Nat : s = start /\ e = s + j
  BY <1>5
<1>8. (j < Len(c.value) \/ j = Len(c.value)) /\ c.value \in Seq(Chars) /\ c.quoted \in BOOLEAN
  BY <1>5 DEF Cells
<1>9. \A i \in DOMAIN c.value : i \in 1..Len(c.value)
  BY <1>8
<1>10. ASSUME j = Len(c.value), e <= N, EndField(s, e, quotes), \A i \in 1..j : str'[s + i] = c.value[i],
              position' = To(line, k)
       PROVE  Reading(k)'
  <2>1. Text(start, end)' = StripOuter(c.value) /\ (end' < start' => c.value = <<Quote>>)
    BY <1>1, <1>7, <1>8, <1>10, TextRead
  <2> QED BY <1>1, <1>2, <1>10, <2>1 DEF Reading
<1>11. CASE EndAscii28
  <2>1. /\ At(position) \in {NUL, Separator, Newline} /\ str' = str /\ position' = position
        /\ pc = "ascii28" /\ EndField(s, position, quotes)
    BY <1>1, <1>7, <1>11 DEF EndAscii28
  <2>2. line.ascii28 /\ ~c.quoted /\ ~Has(c.value, Separator) /\ ~Has(c.value, Newline)
    BY <1>3, <1>5, <2>1 DEF IsCell
  <2>3. j = Len(c.value)
    <3>1. j < Len(c.value) => j + 1 \in DOMAIN c.value
      BY <1>8
    <3> QED BY <1>5, <1>8, <2>1, <2>2, <3>1, CsvAssumption DEF Has
  <2>4. position = e
    <3>1. Width(c, j) = j
      BY <2>2 DEF Width
    <3> QED BY <1>6, <1>7, <3>1
  <2>5. e <= N
    BY <2>4, PlaceFacts
  <2>6. EndField(s, e, quotes) /\ position' = To(line, k)
    BY <1>5, <2>1, <2>2, <2>3, <2>4
  <2>7. \A i \in 1..j : str'[s + i] = c.value[i]
    BY <1>6, <1>7, <2>1
  <2> QED BY <1>10, <2>3, <2>5, <2>6, <2>7
<1>12. CASE EndCsv \/ CloseCsv
  <2>1. Turn /\ pc = "csv" /\ ~line.ascii28 /\ escaped = c.quoted
    <3>1. Turn /\ pc = "csv"
      BY <1>12 DEF EndCsv, CloseCsv, Turn
    <3> QED BY <1>3, <3>1
  <2>2. /\ position \in Nat /\ offset \in Nat /\ position - offset = e
        /\ \A i \in 1..(position - offset) : str'[i] = str[i]
    BY <1>6, <1>7, <2>1, ShiftText
  <2>3. e <= N
    BY <2>2, PlaceFacts
  <2>4. \A i \in 1..j : str'[s + i] = c.value[i]
    <3>1. \A i \in 1..j : s + i \in 1..e
      BY <1>7
    <3> QED BY <1>6, <1>7, <2>2, <3>1
  <2>5. EndField(s, e, quotes)
    BY <1>7, <1>12, <2>2 DEF EndCsv, CloseCsv
  <2>6. CASE EndCsv
    <3>1. EndsField(At(position)) /\ position' = position
      BY <2>6 DEF EndCsv
    <3>2. j = Len(c.value) /\ ~c.quoted
      <4>1. ASSUME j < Len(c.value) PROVE FALSE
        <5>1. At(position) # NUL
          BY <1>5, <4>1, CsvAssumption
        <5>2. ~c.quoted /\ At(position) \in {Comma, Newline}
          BY <2>1, <3>1, <5>1 DEF EndsField
        <5>3. ~Has(c.value, Comma) /\ ~Has(c.value, Newline)
          BY <1>5, <2>1, <5>2 DEF IsCell, MayBeBare
        <5>4. j + 1 \in DOMAIN c.value
          BY <1>8, <4>1
        <5> QED BY <1>5, <4>1, <5>2, <5>3, <5>4 DEF Has
      <4>2. j = Len(c.value)
        BY <1>8, <4>1
      <4>3. c.quoted => At(position) = Quote
        BY <1>5, <4>2
      <4> QED BY <2>1, <3>1, <4>2, <4>3 DEF EndsField, Quote, NUL
    <3> QED BY <1>5, <1>10, <2>3, <2>4, <2>5, <3>1, <3>2
  <2>7. CASE CloseCsv
    <3>1. c.quoted /\ At(position) = Quote /\ At(position + 1) # Quote /\ position' = position + 1
      BY <2>1, <2>7 DEF CloseCsv, Closing
    <3>2. j = Len(c.value)
      <4>1. j < Len(c.value) => At(position + 1) = Quote
        BY <1>5, <3>1
      <4> QED BY <1>8, <3>1, <4>1
    <3>3. position' = To(line, k)
      BY <1>5, <3>1, <3>2
    <3> QED BY <1>10, <2>3, <2>4, <2>5, <3>2, <3>3
  <2> QED BY <1>12, <2>6, <2>7
<1> QED BY <1>11, <1>12

LEMMA EmptyReads ==
  ASSUME Inv, Inv', line.known, original = Source(line), NEW k \in 1..Len(line.cells), Reading(k), EmptyCsv
  PROVE  Reading(k)' /\ IsRead(k)
<1>1. PICK c, b : c = line.cells[k] /\ b = From(line, k)
  OBVIOUS
<1>2. /\ pc = "row" /\ position = b /\ ~isParseDone(position) /\ line' = line /\ str' = str
      /\ ~line.ascii28 /\ At(position) = Comma /\ EndField(position, position, 0) /\ position' = position
      /\ pc' = "field"
  BY <1>1 DEF Reading, EmptyCsv, EndField
<1>3. c \in Cells /\ IsCell(c, line.ascii28) /\ Len(line.cells) \in Nat
  <2>1. line \in Lines
    BY DEF Inv, TypeOK
  <2> QED BY <1>1, <2>1, PiecesType
<1>4. /\ CellText(c) = <<>> => /\ c.value = <<>> /\ position = To(line, k)
                               /\ k < Len(line.cells) \/ isParseDone(position)
      /\ CellText(c) # <<>> => IF c.quoted THEN At(position) = Quote
                               ELSE c.value # <<>> /\ At(position) = c.value[1]
  BY <1>1, <1>2, FirstChar
<1>5. CellText(c) = <<>>
  <2>1. c.quoted => At(position) # Quote
    BY <1>2 DEF Comma, Quote
  <2>2. ~c.quoted /\ c.value # <<>> => At(position) # c.value[1]
    <3> SUFFICES ASSUME ~c.quoted, c.value # <<>>, c.value[1] = Comma PROVE FALSE
      BY <1>2
    <3>1. ~Has(c.value, Comma)
      BY <1>2, <1>3 DEF IsCell, MayBeBare
    <3>2. 1 \in DOMAIN c.value
      <4>1. c.value \in Seq(Chars)
        BY <1>3 DEF Cells
      <4> QED BY <4>1
    <3> QED BY <3>1, <3>2 DEF Has
  <2> QED BY <1>4, <2>1, <2>2
<1>6. IsRead(k)
  BY <1>1, <1>2, <1>3, <1>4, <1>5 DEF IsRead
<1>7. Text(start, end)' = StripOuter(c.value) /\ (end' < start' => c.value = <<Quote>>)
  <2>1. PICK p \in Nat : p = position /\ p <= N
    BY PlaceFacts
  <2>2. c.value \in Seq(Chars) /\ Len(c.value) = 0
    <3>1. c.value = <<>>
      BY <1>4, <1>5
    <3>2. c.value \in Seq(Chars)
      BY <1>3 DEF Cells
    <3> QED BY <3>1, <3>2
  <2>3. p = p + Len(c.value) /\ \A i \in 1..Len(c.value) : str'[p + i] = c.value[i]
    BY <2>2
  <2> QED BY <1>2, <2>1, <2>2, <2>3, TextRead
<1> QED BY <1>1, <1>2, <1>4, <1>5, <1>6, <1>7 DEF Reading

-----------------------------------------------------------------------------
\* Every action keeps what was read, and shifts nothing before a quote is read.
Reader == \/ BeginAscii28 \/ TakeAscii28 \/ EndAscii28
          \/ EmptyCsv \/ BeginCsv \/ EndCsv \/ SkipQuote \/ CloseCsv \/ TakeCsv

LEMMA ReaderFacts ==
  ASSUME Reader
  PROVE  /\ line' = line /\ again' = again /\ original' = original /\ fields' = fields
         /\ pc # "done" /\ pc' # "done" /\ pc' # "row"
         /\ pc = "row" <=> BeginAscii28 \/ EmptyCsv \/ BeginCsv
<1>1. line' = line /\ UNCHANGED rowVars
  BY DEF Reader, BeginAscii28, TakeAscii28, EndAscii28, EmptyCsv, BeginCsv, EndCsv, SkipQuote,
         CloseCsv, TakeCsv
<1>2. CASE BeginAscii28 \/ EmptyCsv \/ BeginCsv
  <2>1. pc = "row" /\ pc' # "done" /\ pc' # "row"
    BY <1>2 DEF BeginAscii28, EmptyCsv, BeginCsv, EndField
  <2> QED BY <1>1, <1>2, <2>1 DEF rowVars
<1>3. CASE TakeAscii28 \/ EndAscii28
  <2>1. pc = "ascii28" /\ pc' # "done" /\ pc' # "row"
    BY <1>3 DEF TakeAscii28, EndAscii28, EndField
  <2>2. ~(BeginAscii28 \/ EmptyCsv \/ BeginCsv)
    BY <2>1 DEF BeginAscii28, EmptyCsv, BeginCsv
  <2> QED BY <1>1, <2>1, <2>2 DEF rowVars
<1>4. CASE EndCsv \/ SkipQuote \/ CloseCsv \/ TakeCsv
  <2>1. pc = "csv" /\ pc' # "done" /\ pc' # "row"
    BY <1>4 DEF EndCsv, SkipQuote, CloseCsv, TakeCsv, Turn, EndField
  <2>2. ~(BeginAscii28 \/ EmptyCsv \/ BeginCsv)
    BY <2>1 DEF BeginAscii28, EmptyCsv, BeginCsv
  <2> QED BY <1>1, <2>1, <2>2 DEF rowVars
<1> QED BY <1>2, <1>3, <1>4 DEF Reader

LEMMA ReaderReads ==
  ASSUME Inv, Inv', line.known, original = Source(line), NEW k \in 1..Len(line.cells), Reading(k),
         pc # "row" => IsRead(k), Reader
  PROVE  Reading(k)' /\ IsRead(k)
<1>1. pc = "row" <=> BeginAscii28 \/ EmptyCsv \/ BeginCsv
  BY ReaderFacts
<1> QED BY <1>1, BeginReads, TakeReads, EndReads, EmptyReads DEF Reader

LEMMA ReadsStep == Inv /\ Inv' /\ RowInv /\ Reads /\ Unshifted /\ [Next]_vars => Reads'
<1> SUFFICES ASSUME Inv, Inv', RowInv, Reads, Unshifted, [Next]_vars,
                    line'.known, ~(again' /\ Spoilt')
             PROVE  /\ original' = Source(line')
                    /\ Len(fields') <= Len(line'.cells)
                    /\ \A i \in 1..Len(fields') : fields'[i] = StripOuter(line'.cells[i].value)
                    /\ IF pc' = "done" THEN Len(fields') = Len(line'.cells) /\ IsRead(Len(fields))'
                       ELSE /\ Len(fields') < Len(line'.cells) /\ Reading(Len(fields) + 1)'
                            /\ pc' # "row" => IsRead(Len(fields) + 1)'
  BY DEF Reads
<1>1. Reader \/ WriteField \/ ReadAgain \/ DieOfLength \/ UNCHANGED vars
  BY DEF Next, Reader
<1>2. line' = line /\ (again => again')
  BY <1>1, ReaderFacts DEF WriteField, ReadAgain, DieOfLength, rowVars, vars
<1>3. /\ line.known /\ original = Source(line)
      /\ \A i \in 1..Len(fields) : fields[i] = StripOuter(line.cells[i].value)
      /\ IF pc = "done" THEN Len(fields) = Len(line.cells) /\ IsRead(Len(fields))
         ELSE /\ Len(fields) < Len(line.cells) /\ Reading(Len(fields) + 1)
              /\ pc # "row" => IsRead(Len(fields) + 1)
  <2>1. Spoilt' = Spoilt
    BY <1>2 DEF Spoilt
  <2> QED BY <1>2, <2>1 DEF Reads
<1>4. line \in Lines /\ fields \in Seq(FieldTexts)
  BY DEF Inv, TypeOK, RowInv
<1>5. PICK m \in Nat, k \in Nat, M \in Nat : m = Len(fields) /\ k = m + 1 /\ M = Len(line.cells) /\ M > 0
  <2>1. Len(fields) \in Nat
    BY <1>4, ElementFacts
  <2>2. Len(line.cells) \in Nat /\ Len(line.cells) > 0
    BY <1>3, <1>4, PiecesType
  <2>3. Len(fields) + 1 \in Nat
    BY <2>1
  <2> QED BY <2>1, <2>2, <2>3, Zenon
<1>6. pc # "done" => k \in 1..Len(line.cells) /\ Reading(k) /\ (pc # "row" => IsRead(k)) /\ m < M
  BY <1>3, <1>5
<1>7. CASE Reader
  <2>1. /\ original' = original /\ fields' = fields /\ pc # "done" /\ pc' # "done" /\ pc' # "row"
    BY <1>7, ReaderFacts
  <2>2. Reading(k)' /\ IsRead(k)
    BY <1>3, <1>6, <1>7, <2>1, ReaderReads
  <2>3. IsRead(k)'
    BY <1>2, <2>2 DEF IsRead
  <2>4. Len(fields') = m /\ Len(line'.cells) = M /\ m < M /\ m <= M
    BY <1>2, <1>5, <1>6, <2>1
  <2>5. Reading(Len(fields) + 1)' /\ IsRead(Len(fields) + 1)'
    BY <1>5, <2>1, <2>2, <2>3
  <2> QED BY <1>2, <1>3, <2>1, <2>4, <2>5
<1>8. CASE WriteField
  <2> DEFINE t == Text(start, end)
             more == Append(fields, t)
  <2>1. /\ pc = "field" /\ fields' = more /\ original' = original /\ pc # "done" /\ pc # "row"
        /\ IF isParseDone(position) THEN pc' = "done"
                                    ELSE pc' = "row" /\ position' = position + 1
    BY <1>8 DEF WriteField
  <2>2. k \in 1..Len(line.cells) /\ Reading(k) /\ IsRead(k) /\ m < M
    BY <1>6, <2>1
  <2>3. position = To(line, k) /\ t = StripOuter(line.cells[k].value)
    BY <2>1, <2>2 DEF Reading
  <2>4. t \in FieldTexts
    BY <2>1, TextIs DEF FieldTexts
  <2> HIDE DEF t
  <2>5. Len(more) = k /\ more[k] = t /\ \A i \in 1..m : more[i] = fields[i]
    BY <1>4, <1>5, <2>4
  <2> HIDE DEF more
  <2>6. ASSUME NEW i \in 1..k PROVE more[i] = StripOuter(line.cells[i].value)
    <3>1. i \in 1..m \/ i = k
      BY <1>5
    <3> QED BY <1>3, <1>5, <2>3, <2>5, <3>1
  <2>7. original' = Source(line') /\ Len(fields') <= Len(line'.cells)
        /\ \A i \in 1..Len(fields') : fields'[i] = StripOuter(line'.cells[i].value)
    <3>1. k <= M
      BY <1>5, <2>2
    <3> QED BY <1>2, <1>3, <1>5, <2>1, <2>5, <2>6, <3>1
  <2>8. At(position) = original[To(line, k) + 1]
    BY <2>3, PlaceFacts
  <2>9. CASE k < M
    <3>1. From(line, k + 1) = To(line, k) + 1 /\ At(position) = Delimiter(line.ascii28)
      BY <1>3, <1>4, <1>5, <2>2, <2>8, <2>9, Layout
    <3>2. ~isParseDone(position)
      BY <3>1 DEF isParseDone, Delimiter, NUL, Newline, Separator, Comma
    <3>3. pc' = "row" /\ position' = From(line, k + 1)
      BY <2>1, <2>3, <3>1, <3>2
    <3>4. Reading(k + 1)'
      BY <1>2, <3>3 DEF Reading
    <3>5. Len(fields') < Len(line'.cells) /\ Reading(Len(fields) + 1)'
      BY <1>2, <1>5, <2>1, <2>5, <2>9, <3>4
    <3> QED BY <2>7, <3>3, <3>5
  <2>10. CASE k = M
    <3>1. At(position) \in {Newline, NUL}
      BY <1>3, <1>4, <1>5, <2>2, <2>8, <2>10, Layout
    <3>2. pc' = "done"
      BY <2>1, <3>1 DEF isParseDone
    <3>3. Len(fields') = Len(line'.cells) /\ IsRead(Len(fields))'
      BY <1>2, <1>5, <2>1, <2>2, <2>5, <2>10 DEF IsRead
    <3> QED BY <2>7, <3>2, <3>3
  <2> QED BY <1>5, <2>2, <2>9, <2>10
<1>9. CASE ReadAgain
  <2>1. /\ pc = "field" /\ columnIndex \in {1, 2} /\ ~again /\ again' /\ original' = str /\ pc' = "row"
        /\ position' = 0 /\ fields' = <<>>
    BY <1>9 DEF ReadAgain
  <2>2. m \in {1, 2}
    BY <1>5, <2>1 DEF RowInv
  <2>3. Whole(Len(fields) + 1)
    <3>1. ~Spoilt
      BY <1>2, <2>1 DEF Spoilt
    <3>2. k <= 3 /\ k = Len(fields) + 1
      <4>1. m = 1 \/ m = 2
        BY <2>2
      <4>2. k = m + 1
        BY <1>5
      <4>3. k <= 3
        <5>1. CASE m = 1
          BY <4>2, <5>1
        <5>2. CASE m = 2
          BY <4>2, <5>2
        <5> QED BY <4>1, <5>1, <5>2
      <4>4. k = Len(fields) + 1
        BY <1>5
      <4> QED BY <4>3, <4>4
    <3>3. DOMAIN line.cells = 1..M
      BY <1>3, <1>4, <1>5, PiecesType
    <3>4. \A i \in DOMAIN line.cells : i <= k => i <= 3
      BY <1>5, <3>2, <3>3
    <3> QED BY <3>1, <3>2, <3>4 DEF Whole, Spoilt
  <2>4. original' = Source(line')
    BY <1>2, <1>3, <2>1, <2>3 DEF Unshifted
  <2>5. Len(fields') = 0 /\ Len(fields') < Len(line'.cells)
    BY <1>2, <1>5, <2>1
  <2>6. Reading(1)'
    <3>1. position' = From(line', 1)
      BY <2>1 DEF From
    <3> QED BY <2>1, <3>1 DEF Reading
  <2>7. Reading(Len(fields) + 1)'
    BY <2>5, <2>6
  <2> QED BY <1>2, <1>5, <2>1, <2>4, <2>5, <2>7
<1>10. CASE UNCHANGED vars
  <2>1. \A i : (Reading(i)' <=> Reading(i)) /\ (IsRead(i)' <=> IsRead(i))
    BY <1>10 DEF vars, Reading, Part, IsRead, Partly, Text
  <2>2. fields' = fields /\ original' = original /\ pc' = pc
    BY <1>10 DEF vars
  <2>3. Len(fields) <= Len(line.cells)
    BY <1>3, <1>5
  <2> QED BY <1>2, <1>3, <2>1, <2>2, <2>3
<1>11. CASE DieOfLength
  <2>1. /\ pc = "field" /\ end < start /\ pc' = "crashed" /\ pc # "done" /\ pc # "row"
        /\ fields' = fields /\ original' = original
    BY <1>11 DEF DieOfLength, rowVars
  <2>2. Reading(k) /\ IsRead(k) /\ m < M
    BY <1>6, <2>1
  <2>3. Reading(k)' /\ IsRead(k)'
    <3>1. line.cells[k].value = <<Quote>>
      BY <2>1, <2>2 DEF Reading
    <3> QED BY <1>2, <2>1, <2>2, <3>1 DEF Reading, IsRead
  <2>4. Len(fields') = m /\ Len(line'.cells) = M /\ m < M /\ m <= M
    BY <1>2, <1>5, <2>1, <2>2
  <2>5. Reading(Len(fields) + 1)' /\ IsRead(Len(fields) + 1)'
    BY <1>5, <2>1, <2>3
  <2> QED BY <1>2, <1>3, <2>1, <2>4, <2>5
<1> QED BY <1>1, <1>7, <1>8, <1>9, <1>10, <1>11

LEMMA UnshiftedStep == Inv /\ RowInv /\ Reads /\ Unshifted /\ [Next]_vars => Unshifted'
<1> SUFFICES ASSUME Inv, RowInv, Reads, Unshifted, [Next]_vars,
                    line'.known, ~again', Whole(Len(fields) + 1)'
             PROVE  str' = Source(line') /\ (pc' = "csv" => offset' = 0)
  BY DEF Unshifted
<1>1. Reader \/ WriteField \/ ReadAgain \/ DieOfLength \/ UNCHANGED vars
  BY DEF Next, Reader
<1>2. line' = line /\ ~again /\ ~ReadAgain
  BY <1>1, ReaderFacts DEF WriteField, ReadAgain, DieOfLength, rowVars, vars
<1>3. line \in Lines /\ fields \in Seq(FieldTexts)
  BY DEF Inv, TypeOK, RowInv
<1>4. PICK m \in Nat, k \in Nat, M \in Nat : /\ m = Len(fields) /\ k = m + 1 /\ M = Len(line.cells)
                                             /\ DOMAIN line.cells = 1..M
  <2>1. Len(fields) \in Nat
    BY <1>3, ElementFacts
  <2>2. Len(line.cells) \in Nat /\ DOMAIN line.cells = 1..Len(line.cells)
    BY <1>2, <1>3, PiecesType
  <2>3. Len(fields) + 1 \in Nat
    BY <2>1
  <2> QED BY <2>1, <2>2, <2>3, Zenon
<1>5. CASE WriteField
  <2>1. /\ fields' = Append(fields, Text(start, end)) /\ str' = str /\ pc' # "csv"
    BY <1>5 DEF WriteField
  <2>2. Text(start, end) \in FieldTexts
    BY <1>5, TextIs DEF FieldTexts, WriteField
  <2>3. Len(fields') = k
    BY <1>3, <1>4, <2>1, <2>2
  <2>4. Whole(k + 1)
    BY <1>2, <2>3 DEF Whole
  <2>5. Whole(Len(fields) + 1)
    <3>1. \A i \in DOMAIN line.cells : i <= k => i <= k + 1
      BY <1>4
    <3> QED BY <1>4, <2>4, <3>1 DEF Whole
  <2> QED BY <1>2, <2>1, <2>5 DEF Unshifted
<1>6. CASE DieOfLength \/ UNCHANGED vars
  <2>1. /\ fields' = fields /\ str' = str /\ offset' = offset
        /\ pc' = pc \/ pc' = "crashed"
    BY <1>6 DEF DieOfLength, rowVars, readVars, vars
  <2>2. Whole(Len(fields) + 1)
    BY <1>2, <2>1 DEF Whole
  <2> QED BY <1>2, <2>1, <2>2 DEF Unshifted
<1>7. CASE Reader
  <2>1. fields' = fields
    BY <1>7, ReaderFacts
  <2>2. Whole(k) /\ Whole(Len(fields) + 1)
    BY <1>2, <1>4, <2>1 DEF Whole
  <2>3. str = Source(line) /\ (pc = "csv" => offset = 0)
    BY <1>2, <2>2 DEF Unshifted
  <2>4. CASE TakeAscii28 \/ EndAscii28 \/ BeginAscii28 \/ EmptyCsv \/ BeginCsv
    <3>1. str' = str /\ (pc' = "csv" => offset' = 0)
      BY <2>4 DEF TakeAscii28, EndAscii28, BeginAscii28, EmptyCsv, BeginCsv, EndField
    <3> QED BY <1>2, <2>3, <3>1
  <2>5. CASE EndCsv \/ CloseCsv \/ TakeCsv
    <3>1. pc = "csv" /\ str' = Shifted /\ offset' = offset
      BY <2>5 DEF EndCsv, CloseCsv, TakeCsv, Turn, readVars
    <3> QED BY <1>2, <2>3, <3>1 DEF Shifted
  <2>6. CASE SkipQuote
    <3>1. Turn /\ pc = "csv" /\ escaped /\ At(position) = Quote /\ At(position + 1) = Quote
      BY <2>6 DEF SkipQuote, Turn, Doubled
    <3>2. original = Source(line) /\ k \in 1..Len(line.cells) /\ Reading(k)
      BY <1>2, <1>4, <3>1 DEF Reads
    <3>3. Part(k) /\ ~line.ascii28 /\ line.cells[k].quoted
      <4>1. pc \in {"ascii28", "csv"} /\ Reading(k)
        BY <3>1, <3>2
      <4>2. Part(k) /\ (pc = "csv" => ~line.ascii28 /\ escaped = line.cells[k].quoted)
        BY <4>1, ReadingPart
      <4> QED BY <3>1, <4>2
    <3>4. PICK c, b : c = line.cells[k] /\ b = From(line, k)
      OBVIOUS
    <3>5. PICK j \in 0..Len(c.value) : Partly(c, b, j)
      BY <3>3, <3>4 DEF Part
    <3>6. /\ c \in Cells /\ Len(c.value) \in Nat
          /\ j < Len(c.value) => At(position) = c.value[j + 1]
          /\ j = Len(c.value) => At(position + 1) \in Follows(line)
      <4>1. Ahead(c, b, k, j)
        BY <1>2, <3>2, <3>4, <3>5, NextChar
      <4> QED BY <3>3, <3>4, <4>1 DEF Ahead
    <3>7. Quote \notin Follows(line)
      BY <3>3 DEF Follows, Delimiter, Quote, Comma, Newline, NUL
    <3>8. j + 1 \in DOMAIN c.value /\ c.value[j + 1] = Quote
      <4>1. j < Len(c.value)
        BY <3>1, <3>6, <3>7
      <4>2. c.value \in Seq(Chars)
        BY <3>6 DEF Cells
      <4> QED BY <3>1, <3>6, <4>1, <4>2
    <3>9. Has(line.cells[k].value, Quote)
      BY <3>4, <3>8 DEF Has
    <3>10. k \in DOMAIN line.cells /\ k <= k
      BY <1>4, <3>2
    <3> QED BY <2>2, <3>3, <3>9, <3>10 DEF Whole
  <2> QED BY <1>7, <2>4, <2>5, <2>6 DEF Reader
<1> QED BY <1>1, <1>2, <1>5, <1>6, <1>7

LEMMA InitReads == Init => Reads /\ Unshifted
<1> SUFFICES ASSUME Init PROVE Reads /\ Unshifted
  OBVIOUS
<1>1. /\ line \in Lines /\ str = Source(line) /\ original = Source(line) /\ fields = <<>>
      /\ pc = "row" /\ position = 0
  BY DEF Init, Source
<1>2. Unshifted
  BY <1>1 DEF Unshifted
<1>3. Reads
  <2> SUFFICES ASSUME line.known PROVE Len(line.cells) \in Nat /\ Len(line.cells) > 0 /\ Reading(1)
    <3>1. Len(fields) = 0
      BY <1>1
    <3> QED BY <1>1, <3>1 DEF Reads
  <2>1. Len(line.cells) \in Nat /\ Len(line.cells) > 0
    BY <1>1, PiecesType
  <2>2. Reading(1)
    BY <1>1 DEF Reading, From
  <2> QED BY <2>1, <2>2
<1> QED BY <1>2, <1>3

LEMMA ReadsAtEnd == Inv /\ RowInv /\ Reads => FieldsRead
<1> SUFFICES ASSUME Inv, RowInv, Reads, AtEnd, line.known, ~(again /\ Spoilt)
             PROVE  fields = Expected
  BY DEF FieldsRead, ShiftedBefore, Spoilt
<1>1. /\ original = Source(line)
      /\ \A i \in 1..Len(fields) : fields[i] = StripOuter(line.cells[i].value)
      /\ IF pc = "done" THEN Len(fields) = Len(line.cells) /\ IsRead(Len(fields))
         ELSE Len(fields) < Len(line.cells) /\ Reading(Len(fields) + 1)
  BY DEF Reads
<1>2. PICK cs : cs = line.cells
  OBVIOUS
<1>3. line \in Lines /\ fields \in Seq(FieldTexts) /\ cs \in Seq(Cells)
  <2>1. line \in Lines /\ fields \in Seq(FieldTexts)
    BY DEF Inv, TypeOK, RowInv
  <2> QED BY <1>2, <2>1, PiecesType
<1>4. PICK m \in Nat, M \in Nat : m = Len(fields) /\ M = Len(cs) /\ M > 0
  BY <1>2, <1>3, PiecesType, ElementFacts
<1> DEFINE read == IF CellText(cs[M]) = <<>> THEN Front(cs) ELSE cs
<1>5. Len(read) = m /\ read \in Seq(Cells) /\ \A i \in 1..m : read[i] = cs[i]
  <2>1. CASE pc = "done"
    <3>1. m = M /\ CellText(cs[M]) # <<>>
      BY <1>1, <1>2, <1>4, <2>1 DEF IsRead
    <3>2. read = cs
      BY <3>1
    <3> QED BY <1>3, <1>4, <3>1, <3>2
  <2>2. CASE pc # "done"
    <3>1. pc = "row" /\ isParseDone(position)
      BY <2>2 DEF AtEnd
    <3>2. PICK k \in 1..Len(line.cells) : k = m + 1 /\ k = Len(fields) + 1
      BY <1>1, <1>2, <1>4, <2>2
    <3>3. position = From(line, k)
      BY <1>1, <2>2, <3>1, <3>2 DEF Reading
    <3>4. /\ CellText(cs[k]) = <<>>
          /\ k < M => At(position) = Delimiter(line.ascii28)
      BY <1>1, <1>2, <1>4, <3>1, <3>3, FirstChar
    <3>5. k = M
      <4>1. Delimiter(line.ascii28) \notin {NUL, Newline}
        BY DEF Delimiter, NUL, Newline, Separator, Comma
      <4>2. ~(k < M)
        BY <3>1, <3>4, <4>1 DEF isParseDone
      <4> QED BY <1>2, <1>4, <4>2
    <3>6. read = SubSeq(cs, 1, m)
      <4>1. Len(cs) - 1 = m
        BY <1>4, <3>2, <3>5
      <4> QED BY <3>4, <3>5, <4>1 DEF Front
    <3>7. m < Len(cs)
      BY <1>4, <3>2, <3>5
    <3>8. /\ SubSeq(cs, 1, m) \in Seq(Cells) /\ Len(SubSeq(cs, 1, m)) = m
          /\ \A i \in 1..m : SubSeq(cs, 1, m)[i] = cs[i]
      BY <1>3, <3>7
    <3> HIDE DEF read
    <3> QED BY <3>6, <3>8
  <2> QED BY <2>1, <2>2
<1>6. Expected = [i \in DOMAIN read |-> StripOuter(read[i].value)]
  BY <1>2, <1>4 DEF Expected
<1> HIDE DEF read
<1>7. DOMAIN read = 1..m /\ DOMAIN fields = 1..m
  BY <1>3, <1>4, <1>5
<1>8. \A i \in 1..m : fields[i] = StripOuter(read[i].value)
  BY <1>1, <1>2, <1>4, <1>5
<1>9. fields = [i \in 1..m |-> fields[i]]
  BY <1>3, <1>7
<1> QED BY <1>6, <1>7, <1>8, <1>9

\* A line that was made from cells is read to their values, for any cells: quotes
\* inside a value that were doubled count once again, delimiters and line ends
\* between quotes are part of the value, and no character is lost or read twice
\* (csv.c:36-135, csv_test.c:77-88).  The second reading of a header line may
\* differ, but only where the first has shifted a doubled quote (fec.c:814).
THEOREM LineIsRead == Spec => []FieldsRead
<1> DEFINE I == Inv /\ Counts /\ RowInv
<1>1. Spec => []I
  BY SpecRow
<1>2. I /\ I' /\ (Reads /\ Unshifted) /\ [Next]_vars => (Reads /\ Unshifted)'
  BY ReadsStep, UnshiftedStep
<1>3. I /\ (Reads /\ Unshifted) => FieldsRead
  BY ReadsAtEnd
<1> HIDE DEF I
<1> QED BY <1>1, <1>2, <1>3, InitReads, PTL DEF Spec

-----------------------------------------------------------------------------
\* A field that ends before it starts was one quote, which has been stripped.
Alone == pc \in {"field", "crashed"} =>
           /\ end < start => start = end + 1 /\ At(end) = Quote
           /\ pc = "crashed" => end < start

LEMMA StripsAlone ==
  ASSUME Inv, NEW s \in Nat, NEW e \in Nat, NEW q, s <= e, EndField(s, e, q)
  PROVE  Alone'
<1>1. pc' = "field"
  BY DEF EndField
<1>2. CASE Strip(s, e)
  <2>1. start' = s + 1 /\ end' = e - 1 /\ s # e /\ str'[s + 1] = Quote
    BY <1>2 DEF EndField, Strip
  <2>2. end' < start' => e = s + 1 /\ end' = s
    BY <2>1
  <2> QED BY <1>1, <2>1, <2>2 DEF Alone, At
<1>3. CASE ~Strip(s, e)
  <2>1. start' = s /\ end' = e
    BY <1>3 DEF EndField
  <2> QED BY <1>1, <2>1 DEF Alone
<1> QED BY <1>2, <1>3

LEMMA AloneStep == Inv /\ Alone /\ [Next]_vars => Alone'
<1> SUFFICES ASSUME Inv, Alone, [Next]_vars PROVE Alone'
  OBVIOUS
<1>1. /\ position \in Nat /\ start \in Nat /\ offset \in Nat
      /\ pc = "ascii28" => start <= position
      /\ pc = "csv" => start <= position - offset
  BY PlaceFacts DEF Inv, TypeOK, InPlace
<1>2. CASE EndAscii28
  <2>1. start <= position /\ EndField(start, position, quotes)
    BY <1>1, <1>2 DEF EndAscii28
  <2> QED BY <1>1, <2>1, StripsAlone
<1>3. CASE EmptyCsv
  <2>1. EndField(position, position, 0)
    BY <1>3 DEF EmptyCsv
  <2> QED BY <1>1, <2>1, StripsAlone
<1>4. CASE EndCsv \/ CloseCsv
  <2>1. start <= position - offset /\ EndField(start, position - offset, quotes)
    BY <1>1, <1>4 DEF EndCsv, CloseCsv, Turn
  <2>2. position - offset \in Nat
    BY <1>1, <2>1
  <2> QED BY <1>1, <2>1, <2>2, StripsAlone
<1>5. CASE BeginAscii28 \/ TakeAscii28 \/ BeginCsv \/ SkipQuote \/ TakeCsv \/ WriteField \/ ReadAgain
  <2>1. pc' \notin {"field", "crashed"}
    BY <1>5 DEF BeginAscii28, TakeAscii28, BeginCsv, SkipQuote, TakeCsv, Turn, WriteField, ReadAgain
  <2> QED BY <2>1 DEF Alone
<1>6. CASE DieOfLength
  BY <1>6 DEF DieOfLength, Alone, At
<1>7. CASE UNCHANGED vars
  BY <1>7 DEF vars, Alone, At
<1> QED BY <1>2, <1>3, <1>4, <1>5, <1>6, <1>7 DEF Next

\* A field of length -1, the size of a copy that goes past all memory
\* (writer.c:303-311, fec.c:106-108, fec.c:664-670), is left of one quote by
\* stripQuotes (csv.c:36-48) and of nothing else, for every line; and for a line
\* made from cells there is then a cell whose value is one quote.
THEOREM OnlyOneQuoteKills == Spec => []DiesOfOneQuote
<1> DEFINE I == Inv /\ Counts /\ RowInv
<1>1. Spec => []I
  BY SpecRow
<1>2. I /\ I' /\ (Reads /\ Unshifted /\ Alone) /\ [Next]_vars => (Reads /\ Unshifted /\ Alone)'
  BY ReadsStep, UnshiftedStep, AloneStep
<1>3. Reads /\ Alone => DiesOfOneQuote
  <2> SUFFICES ASSUME Reads, Alone, pc = "crashed" PROVE DiesOfOneQuote
    BY DEF DiesOfOneQuote
  <2>1. start = end + 1 /\ At(end) = Quote
    BY DEF Alone
  <2>2. line.known /\ ~(again /\ Spoilt) => line.cells[Len(fields) + 1].value = <<Quote>>
    BY DEF Reads, Reading
  <2> QED BY <2>1, <2>2 DEF DiesOfOneQuote, ShiftedBefore, Spoilt
<1>4. Init => Alone
  BY DEF Init, Alone
<1> HIDE DEF I
<1> QED BY <1>1, <1>2, <1>3, <1>4, InitReads, PTL DEF Spec
=============================================================================
