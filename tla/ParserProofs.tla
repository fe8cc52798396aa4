----------------------------- MODULE ParserProofs -----------------------------
(***************************************************************************)
(* Proofs about Parser, for all form types, mappings, lines and filings.   *)
(***************************************************************************)
EXTENDS Parser, SequenceTheorems, WellFoundedInduction, TLAPS

AllLines == FirstLines \cup InputLines

\* Sequences: their elements, and what Append and \o make of them.
LEMMA ElementFacts ==
  ASSUME NEW S, NEW s \in Seq(S)
  PROVE  /\ Len(s) \in Nat /\ DOMAIN s = 1..Len(s)
         /\ \A i \in 1..Len(s) : s[i] \in S
  OBVIOUS

LEMMA AppendFacts ==
  ASSUME NEW S, NEW s \in Seq(S), NEW x \in S
  PROVE  /\ Append(s, x) \in Seq(S) /\ Len(Append(s, x)) = Len(s) + 1
         /\ Append(s, x)[Len(s) + 1] = x
         /\ \A i \in 1..Len(s) : Append(s, x)[i] = s[i]
  OBVIOUS

LEMMA JoinFacts ==
  ASSUME NEW S, NEW s \in Seq(S), NEW t \in Seq(S)
  PROVE  /\ s \o t \in Seq(S) /\ Len(s \o t) = Len(s) + Len(t)
         /\ \A i \in 1..Len(s) : (s \o t)[i] = s[i]
         /\ \A i \in 1..Len(t) : (s \o t)[Len(s) + i] = t[i]
  OBVIOUS

LEMMA WiderFacts ==
  ASSUME NEW S, NEW T, S \subseteq T, NEW s \in Seq(S)
  PROVE  s \in Seq(T)
  OBVIOUS

LEMMA OneStored ==
  ASSUME NEW D, NEW S, NEW f \in [D -> S], NEW d \in D, NEW c \in S
  PROVE  /\ [f EXCEPT ![d] = c] \in [D -> S]
         /\ [f EXCEPT ![d] = c][d] = c
         /\ \A e \in D : (e # d => [f EXCEPT ![d] = c][e] = f[e])
  OBVIOUS

-----------------------------------------------------------------------------
(* The output: what a write and the end of a line leave.                    *)

LEMMA FieldFacts ==
  ASSUME NEW o \in Outputs
  PROVE  /\ o.files \in [Names -> Seq(Tokens)] /\ o.opened \subseteq Names
         /\ o.lastname \in Names \cup {None}
         /\ o.buffer \in Seq(Tokens) /\ o.lines \in Seq([name : Names, text : Seq(Tokens)])
  BY DEF Outputs

LEMMA StoredFacts ==
  ASSUME NEW o \in Outputs
  PROVE  /\ \A x \in [Names -> Seq(Tokens)] : [o EXCEPT !.files = x] \in Outputs
         /\ \A x \in SUBSET Names : [o EXCEPT !.opened = x] \in Outputs
         /\ \A x \in Names : [o EXCEPT !.lastname = x] \in Outputs
         /\ \A x \in Seq(Tokens) : [o EXCEPT !.buffer = x] \in Outputs
         /\ \A x \in Seq([name : Names, text : Seq(Tokens)]) : [o EXCEPT !.lines = x] \in Outputs
<1>1. ASSUME NEW x \in [Names -> Seq(Tokens)]
      PROVE  [o EXCEPT !.files = x] \in Outputs
  BY DEF Outputs
<1>2. ASSUME NEW x \in SUBSET Names
      PROVE  [o EXCEPT !.opened = x] \in Outputs
  BY DEF Outputs
<1>3. ASSUME NEW x \in Names
      PROVE  [o EXCEPT !.lastname = x] \in Outputs
  BY DEF Outputs
<1>4. ASSUME NEW x \in Seq(Tokens)
      PROVE  [o EXCEPT !.buffer = x] \in Outputs
  BY DEF Outputs
<1>5. ASSUME NEW x \in Seq([name : Names, text : Seq(Tokens)])
      PROVE  [o EXCEPT !.lines = x] \in Outputs
  BY DEF Outputs
<1> QED BY <1>1, <1>2, <1>3, <1>4, <1>5

LEMMA WriteFacts ==
  ASSUME NEW o \in Outputs, NEW f \in Names, NEW ts \in Seq(Tokens)
  PROVE  /\ Write(o, f, ts) \in Outputs
         /\ Write(o, f, ts).files[f] = o.files[f] \o ts
         /\ \A g \in Names : (g # f => Write(o, f, ts).files[g] = o.files[g])
         /\ Write(o, f, ts).opened = o.opened \cup {f}
         /\ Write(o, f, ts).lastname = f
         /\ Write(o, f, ts).lines = o.lines
<1> DEFINE fs == [o.files EXCEPT ![f] = o.files[f] \o ts]
           bs == o.buffer \o ts
           ns == o.opened \cup {f}
           o1 == [o EXCEPT !.files = fs]
           o2 == [o1 EXCEPT !.opened = ns]
           o3 == [o2 EXCEPT !.lastname = f]
           o4 == [o3 EXCEPT !.buffer = bs]
<1>1. o.files[f] \o ts \in Seq(Tokens) /\ bs \in Seq(Tokens) /\ ns \in SUBSET Names
  BY FieldFacts, JoinFacts
<1>2. /\ fs \in [Names -> Seq(Tokens)] /\ fs[f] = o.files[f] \o ts
      /\ \A g \in Names : (g # f => fs[g] = o.files[g])
  BY <1>1, FieldFacts, OneStored
<1>3. Write(o, f, ts) = o4
  BY DEF Write, Outputs
<1>4. /\ Write(o, f, ts).files = fs /\ Write(o, f, ts).opened = ns
      /\ Write(o, f, ts).lastname = f /\ Write(o, f, ts).lines = o.lines
  BY DEF Write, Outputs
<1> HIDE DEF fs, bs, ns
<1>5. o1 \in Outputs
  BY <1>2, StoredFacts
<1> HIDE DEF o1
<1>6. o2 \in Outputs
  BY <1>1, <1>5, StoredFacts
<1> HIDE DEF o2
<1>7. o3 \in Outputs
  BY <1>6, StoredFacts
<1> HIDE DEF o3
<1>8. o4 \in Outputs
  BY <1>1, <1>7, StoredFacts
<1> HIDE DEF o4
<1> QED BY <1>2, <1>3, <1>4, <1>8 DEF ns

LEMMA EndLineFacts ==
  ASSUME NEW o \in Outputs, o.lastname \in Names
  PROVE  /\ EndLine(o) \in Outputs
         /\ EndLine(o).files = o.files /\ EndLine(o).opened = o.opened
         /\ EndLine(o).lastname = o.lastname /\ EndLine(o).buffer = <<>>
<1> DEFINE l == [name |-> o.lastname, text |-> o.buffer]
           ls == Append(o.lines, l)
           o1 == [o EXCEPT !.lines = ls]
           o2 == [o1 EXCEPT !.buffer = <<>>]
<1>1. l \in [name : Names, text : Seq(Tokens)]
  BY FieldFacts
<1>2. EndLine(o) = o2
  BY DEF EndLine, Outputs
<1>3. /\ EndLine(o).files = o.files /\ EndLine(o).opened = o.opened
      /\ EndLine(o).lastname = o.lastname /\ EndLine(o).buffer = <<>>
  BY DEF EndLine, Outputs
<1> HIDE DEF l
<1>4. ls \in Seq([name : Names, text : Seq(Tokens)])
  BY <1>1, FieldFacts, AppendFacts
<1> HIDE DEF ls
<1>5. o1 \in Outputs
  BY <1>4, StoredFacts
<1> HIDE DEF o1
<1>6. <<>> \in Seq(Tokens)
  OBVIOUS
<1>7. o2 \in Outputs
  BY <1>5, <1>6, StoredFacts
<1> QED BY <1>2, <1>3, <1>7

LEMMA MarkFacts ==
  ASSUME NEW w \in {"id", "comma", "quote", "newline"}
  PROVE  Mark(w) \in Seq(Tokens) /\ Len(Mark(w)) = 1 /\ Mark(w)[1].what = w
  BY DEF Mark, Token, Tokens

LEMMA WriteLineFacts ==
  ASSUME NEW o \in Outputs, NEW f \in Names, NEW ts \in Seq(Tokens)
  PROVE  /\ WriteLine(o, f, ts) \in Outputs
         /\ WriteLine(o, f, ts).files[f] = o.files[f] \o (ts \o Mark("newline"))
         /\ \A g \in Names : (g # f => WriteLine(o, f, ts).files[g] = o.files[g])
         /\ WriteLine(o, f, ts).opened = o.opened \cup {f}
         /\ WriteLine(o, f, ts).buffer = <<>>
<1> DEFINE u == ts \o Mark("newline")
           w == Write(o, f, u)
<1>1. u \in Seq(Tokens)
  BY MarkFacts, JoinFacts
<1>2. WriteLine(o, f, ts) = EndLine(w)
  BY DEF WriteLine
<1> HIDE DEF u
<1>3. /\ w \in Outputs /\ w.lastname = f
      /\ w.files[f] = o.files[f] \o u
      /\ \A g \in Names : (g # f => w.files[g] = o.files[g])
      /\ w.opened = o.opened \cup {f}
  BY <1>1, WriteFacts
<1> HIDE DEF w
<1>4. /\ EndLine(w) \in Outputs /\ EndLine(w).files = w.files
      /\ EndLine(w).opened = w.opened /\ EndLine(w).buffer = <<>>
  BY <1>3, EndLineFacts
<1> QED BY <1>2, <1>3, <1>4 DEF u

LEMMA EndRowFacts ==
  ASSUME NEW o, NEW f, NEW ts
  PROVE  EndRow(o, f, ts) = WriteLine(o, f, ts)
  BY DEF EndRow

-----------------------------------------------------------------------------
(* The cache, and the types of what each action changes.                    *)

Early == {"start", "header", "version", "legacy"}

\* Until the header is read nothing is cached, parsed, used up or written but to
\* the header's file.
Phases == /\ (pc \in Early => /\ formType = None /\ mapping = None
                             /\ parsed = <<>> /\ taken = {} /\ out.opened \subseteq {Header})
          /\ (pc \in {"header", "version"} => n = 1 /\ out = Empty)
          /\ (pc = "start" => n = 0 /\ out = Empty)
          /\ (pc = "version" => body = 1)
          /\ (pc = "parse" => body < n)

InvA == TypeOK /\ Phases /\ CacheTrue

LEMMA NamesFacts ==
  /\ Header \in Names /\ Forms \subseteq Names /\ Header \notin Forms
  /\ None \notin Names /\ None \notin Versions
BY ParserAssumption DEF Names

LEMMA HeaderLineFacts ==
  ASSUME NEW o \in Outputs, NEW ts \in Seq(Tokens)
  PROVE  /\ WriteLine(o, Header, ts) \in Outputs
         /\ WriteLine(o, Header, ts).opened = o.opened \cup {Header}
         /\ \A g \in Names :
              (g # Header => WriteLine(o, Header, ts).files[g] = o.files[g])
<1>1. Header \in Names
  BY NamesFacts
<1> QED BY <1>1, WriteLineFacts

LEMMA EmptyFacts ==
  /\ Empty \in Outputs /\ Empty.opened = {} /\ Empty.buffer = <<>>
  /\ \A f \in Names : Empty.files[f] = <<>>
<1>1. [f \in Names |-> <<>>] \in [Names -> Seq(Tokens)]
  OBVIOUS
<1> QED BY <1>1 DEF Empty, Outputs

LEMMA LineFacts ==
  ASSUME TypeOK
  PROVE  /\ n \in Nat /\ (n > 0 => line \in AllLines)
         /\ (n > 0 => /\ line.form \in Forms /\ line.last \in Nat /\ line.read \in Nat
                      /\ line.read \in {line.last, line.last + 1})
<1>1. seen \in Seq(AllLines) /\ n \in Nat
  BY DEF TypeOK, AllLines, n
<1>2. n > 0 => line \in AllLines
  BY <1>1, ElementFacts DEF line, n
<1> QED BY <1>1, <1>2, ParserAssumption DEF AllLines

LEMMA GrabFacts ==
  ASSUME TypeOK, NEW l \in AllLines, Grab(l)
  PROVE  /\ seen' \in Seq(AllLines) /\ n' = n + 1 /\ n \in Nat
         /\ \A i \in 1..n : seen'[i] = seen[i]
         /\ ended' \in BOOLEAN
  BY AppendFacts DEF TypeOK, AllLines, n, Grab

LEMMA GrabNothingFacts ==
  ASSUME TypeOK, GrabNothing
  PROVE  seen' = seen /\ n' = n /\ n \in Nat /\ ended' \in BOOLEAN
  BY DEF TypeOK, n, GrabNothing

LEMMA CacheFacts ==
  ASSUME TypeOK, CacheTrue, n > 0
  PROVE  /\ formNow \in Forms \cup {None} /\ mappingNow \in Forms \cup {None}
         /\ (line.read > 0 => formNow \in Forms /\ line.form \in Begins[formNow])
         /\ (formNow # None /\ Mapped(formNow) => mappingNow = formNow)
         /\ (mappingNow # None => Mapped(mappingNow))
<1>1. line.form \in Forms /\ line.read \in Nat
  BY LineFacts
<1>2. /\ formType \in Forms \cup {None} /\ mapping \in Forms \cup {None}
      /\ (formType # None /\ Mapped(formType) => mapping = formType)
      /\ (mapping # None => Mapped(mapping))
  BY DEF TypeOK, CacheTrue
<1>3. CASE line.read = 0 \/ Cached
  <2>1. formNow = formType /\ mappingNow = mapping
    BY <1>3 DEF formNow, mappingNow
  <2>2. line.read > 0 => formType \in Forms /\ line.form \in Begins[formType]
    BY <1>2, <1>3 DEF Cached
  <2> QED BY <1>2, <2>1, <2>2
<1>4. CASE line.read # 0 /\ ~Cached
  <2>1. formNow = line.form /\ line.form # None /\ line.form \in Begins[line.form]
    BY <1>1, <1>4, ParserAssumption DEF formNow
  <2>2. mappingNow = IF Mapped(line.form) THEN line.form ELSE mapping
    BY <1>4 DEF mappingNow, Found
  <2> QED BY <1>1, <1>2, <2>1, <2>2
<1> QED BY <1>3, <1>4

LEMMA LookupFacts ==
  ASSUME InvA, n > 0, LookupMappings, UNCHANGED version
  PROVE  /\ formType' \in Forms \cup {None} /\ mapping' \in Forms \cup {None}
         /\ CacheTrue'
<1>1. formType' = formNow /\ mapping' = mappingNow
  BY DEF LookupMappings
<1> QED BY <1>1, CacheFacts DEF InvA, CacheTrue, Mapped

\* Tokens that are neither headers nor of a row, and those of the current row.
PlainTokens == {t \in Tokens : t.what \notin {"headers", "form", "cell"}}
RowSet == {t \in Tokens : /\ t.what # "headers"
                          /\ (t.what = "form" => t.row = n /\ t.as = formNow)
                          /\ (t.what = "cell" => t.as = mappingNow)}

LEMMA PlainFacts ==
  /\ PlainTokens \subseteq Tokens
  /\ \A w \in {"id", "comma", "quote", "newline"} :
       Mark(w) \in Seq(PlainTokens) /\ Len(Mark(w)) = 1 /\ Mark(w)[1].what = w
  /\ RowStart \in Seq(PlainTokens)
<1>1. \A w \in {"id", "comma", "quote", "newline"} : Token(w, 0, None) \in PlainTokens
  BY DEF Token, Tokens, PlainTokens
<1>2. \A w \in {"id", "comma", "quote", "newline"} :
        Mark(w) \in Seq(PlainTokens) /\ Len(Mark(w)) = 1 /\ Mark(w)[1].what = w
  BY <1>1 DEF Mark, Token
<1> QED BY <1>2 DEF PlainTokens, RowStart

LEMMA RowFacts ==
  ASSUME TypeOK, CacheTrue, n > 0, line.read >= 1
  PROVE  /\ RowTokens \in Seq(RowSet) /\ Len(RowTokens) \in Nat
         /\ RowSet \subseteq Tokens /\ PlainTokens \subseteq RowSet
<1>1. /\ n \in Nat /\ line.read - 1 \in Nat
      /\ formNow \in Forms \cup {None} /\ mappingNow \in Forms \cup {None}
  BY LineFacts, CacheFacts
<1>2. /\ Token("form", n, formNow) \in RowSet /\ Token("cell", n, mappingNow) \in RowSet
      /\ RowSet \subseteq Tokens /\ PlainTokens \subseteq RowSet
  BY <1>1 DEF Token, Tokens, RowSet, PlainTokens
<1> DEFINE form == <<Token("form", n, formNow)>>
           cells == [c \in 1..(line.read - 1) |-> Token("cell", n, mappingNow)]
<1>3. form \in Seq(RowSet) /\ cells \in Seq(RowSet)
  BY <1>1, <1>2
<1>4. RowStart \in Seq(RowSet)
  BY <1>2, PlainFacts, WiderFacts
<1>5. RowTokens = RowStart \o form \o cells
  BY DEF RowTokens
<1> HIDE DEF form, cells
<1>6. RowTokens \in Seq(RowSet)
  BY <1>3, <1>4, <1>5, JoinFacts
<1> QED BY <1>2, <1>6, ElementFacts

\* The header row of a file.
HeaderLine == (RowStart \o <<Token("headers", 0, mappingNow)>>) \o Mark("newline")
HeadOf(f) == IF IsNew(f) THEN HeaderLine ELSE <<>>

LEMMA HeadFacts ==
  ASSUME TypeOK, CacheTrue, n > 0
  PROVE  RowStart \o <<Token("headers", 0, mappingNow)>> \in Seq(Tokens)
<1>1. Token("headers", 0, mappingNow) \in Tokens
  BY CacheFacts DEF Token, Tokens
<1>2. <<Token("headers", 0, mappingNow)>> \in Seq(Tokens) /\ RowStart \in Seq(Tokens)
  BY <1>1, PlainFacts, WiderFacts
<1> HIDE DEF Token
<1> QED BY <1>2, JoinFacts

\* What is written to the file of a row.
Wrote(f, o, ts) ==
  /\ o \in Outputs
  /\ o.files[f] = (out.files[f] \o HeadOf(f)) \o ts
  /\ \A g \in Names : (g # f => o.files[g] = out.files[g])
  /\ o.opened = out.opened \cup {f}

LEMMA WithRowFacts ==
  ASSUME TypeOK, CacheTrue, n > 0, line.read >= 1, NEW f \in Names
  PROVE  Wrote(f, WithRow(f), RowTokens) /\ WithRow(f).lastname = f
<1> DEFINE o == WithHeaders(f)
<1>1. /\ o \in Outputs /\ o.files[f] = out.files[f] \o HeadOf(f)
      /\ \A g \in Names : (g # f => o.files[g] = out.files[g])
      /\ o.opened \cup {f} = out.opened \cup {f}
  <2>1. CASE IsNew(f)
    <3> DEFINE h == RowStart \o <<Token("headers", 0, mappingNow)>>
    <3>1. h \in Seq(Tokens) /\ out \in Outputs
      BY HeadFacts DEF TypeOK
    <3>2. o = WriteLine(out, f, h) /\ HeadOf(f) = h \o Mark("newline")
      BY <2>1 DEF WithHeaders, HeadOf, HeaderLine
    <3> HIDE DEF h, o
    <3>3. /\ o \in Outputs /\ o.files[f] = out.files[f] \o (h \o Mark("newline"))
          /\ (\A g \in Names : (g # f => o.files[g] = out.files[g]))
          /\ o.opened = out.opened \cup {f}
      <4>1. WriteLine(out, f, h) \in Outputs
        BY <3>1, WriteLineFacts
      <4>2. /\ WriteLine(out, f, h).files[f] = out.files[f] \o (h \o Mark("newline"))
            /\ WriteLine(out, f, h).opened = out.opened \cup {f}
        BY <3>1, WriteLineFacts
      <4>3. \A g \in Names : (g # f => WriteLine(out, f, h).files[g] = out.files[g])
        BY <3>1, WriteLineFacts
      <4> QED BY <3>2, <4>1, <4>2, <4>3
    <3> QED BY <3>2, <3>3
  <2>2. CASE ~IsNew(f)
    <3>1. o = out /\ HeadOf(f) = <<>> /\ out \in Outputs
      BY <2>2 DEF WithHeaders, HeadOf, TypeOK
    <3>2. out.files[f] \in Seq(Tokens)
      BY <3>1, FieldFacts
    <3>3. out.files[f] \o <<>> = out.files[f]
      BY <3>2
    <3> HIDE DEF o
    <3> QED BY <3>1, <3>3
  <2> QED BY <2>1, <2>2
<1>2. RowTokens \in Seq(Tokens)
  BY RowFacts, WiderFacts
<1>3. WithRow(f) = Write(o, f, RowTokens)
  BY DEF WithRow
<1> HIDE DEF o
<1>4. /\ WithRow(f) \in Outputs /\ WithRow(f).files[f] = o.files[f] \o RowTokens
      /\ (\A g \in Names : (g # f => WithRow(f).files[g] = o.files[g]))
      /\ WithRow(f).opened = o.opened \cup {f} /\ WithRow(f).lastname = f
  <2> o \in Outputs
    BY <1>1
  <2> RowTokens \in Seq(Tokens)
    BY <1>2
  <2>1. Write(o, f, RowTokens) \in Outputs
    BY WriteFacts
  <2>2. Write(o, f, RowTokens).files[f] = o.files[f] \o RowTokens
    BY WriteFacts
  <2>3. /\ Write(o, f, RowTokens).opened = o.opened \cup {f}
        /\ Write(o, f, RowTokens).lastname = f
    BY WriteFacts
  <2>4. \A g \in Names : (g # f => Write(o, f, RowTokens).files[g] = o.files[g])
    BY WriteFacts
  <2> QED BY <1>3, <2>1, <2>2, <2>3, <2>4
<1> QED BY <1>1, <1>4 DEF Wrote

LEMMA FullRowFacts ==
  ASSUME TypeOK, CacheTrue, n > 0, line.read >= 1, NEW f \in Names
  PROVE  /\ Wrote(f, EndRow(WithRow(f), f, <<>>), RowTokens \o Mark("newline"))
         /\ EndRow(WithRow(f), f, <<>>).buffer = <<>>
<1> DEFINE o == WithRow(f)
           r == EndRow(o, f, <<>>)
           a == out.files[f] \o HeadOf(f)
           m == Mark("newline")
<1>1. o \in Outputs /\ o.files[f] = a \o RowTokens
      /\ (\A g \in Names : (g # f => o.files[g] = out.files[g]))
      /\ o.opened = out.opened \cup {f}
  BY WithRowFacts DEF Wrote
<1>2. <<>> \in Seq(Tokens) /\ m \in Seq(Tokens) /\ RowTokens \in Seq(Tokens)
  BY MarkFacts, RowFacts, WiderFacts
<1>3. a \in Seq(Tokens)
  <2>1. HeadOf(f) \in Seq(Tokens)
    BY HeadFacts, MarkFacts, JoinFacts DEF HeadOf, HeaderLine
  <2>2. out.files[f] \in Seq(Tokens)
    BY FieldFacts DEF TypeOK
  <2> QED BY <2>1, <2>2, JoinFacts
<1> HIDE DEF o, a, m
<1> DEFINE z == <<>>
<1>6. z \in Seq(Tokens)
  BY <1>2
<1> HIDE DEF z
<1>4. /\ r \in Outputs /\ r.files[f] = o.files[f] \o (z \o Mark("newline"))
      /\ (\A g \in Names : (g # f => r.files[g] = o.files[g]))
      /\ r.opened = o.opened \cup {f} /\ r.buffer = <<>>
  <2>1. r = WriteLine(o, f, z)
    BY EndRowFacts DEF z
  <2> HIDE DEF r
  <2> o \in Outputs
    BY <1>1
  <2> z \in Seq(Tokens)
    BY <1>6
  <2>2. WriteLine(o, f, z) \in Outputs
    BY WriteLineFacts
  <2>3. WriteLine(o, f, z).files[f] = o.files[f] \o (z \o Mark("newline"))
    BY WriteLineFacts
  <2>4. /\ WriteLine(o, f, z).opened = o.opened \cup {f}
        /\ WriteLine(o, f, z).buffer = <<>>
    BY WriteLineFacts
  <2>5. \A g \in Names : (g # f => WriteLine(o, f, z).files[g] = o.files[g])
    BY WriteLineFacts
  <2> QED BY <2>1, <2>2, <2>3, <2>4, <2>5
<1>5. z \o m = m /\ (a \o RowTokens) \o m = a \o (RowTokens \o m)
  BY <1>2, <1>3 DEF z
<1> QED BY <1>1, <1>4, <1>5 DEF Wrote, a, m, o, z

-----------------------------------------------------------------------------
(* Every action keeps InvA.                                                  *)

\* What the last line grabbed does to the bounds of the histories.
LEMMA InputFacts ==
  ASSUME TypeOK, GrabNothing \/ (\E l \in AllLines : Grab(l)) \/ UNCHANGED inputVars
  PROVE  /\ seen' \in Seq(AllLines) /\ ended' \in BOOLEAN
         /\ n \in Nat /\ n' \in Nat /\ n' \in {n, n + 1}
         /\ body \in 0..n' /\ parsed \in Seq(1..n') /\ taken \subseteq 1..n'
<1>1. /\ seen' \in Seq(AllLines) /\ ended' \in BOOLEAN
      /\ n \in Nat /\ n' \in Nat /\ n' \in {n, n + 1}
  <2>1. CASE GrabNothing
    BY <2>1, GrabNothingFacts DEF TypeOK, AllLines
  <2>2. CASE \E l \in AllLines : Grab(l)
    BY <2>2, GrabFacts
  <2>3. CASE UNCHANGED inputVars
    BY <2>3 DEF TypeOK, AllLines, inputVars, n
  <2> QED BY <2>1, <2>2, <2>3
<1>2. body \in 0..n /\ parsed \in Seq(1..n) /\ taken \subseteq 1..n
  BY DEF TypeOK
<1>3. 1..n \subseteq 1..n' /\ 0..n \subseteq 0..n'
  BY <1>1
<1>4. parsed \in Seq(1..n')
  BY <1>2, <1>3, WiderFacts
<1> QED BY <1>1, <1>2, <1>3, <1>4

LEMMA SameCache ==
  ASSUME CacheTrue, UNCHANGED cacheVars
  PROVE  CacheTrue'
BY DEF CacheTrue, Mapped, cacheVars

\* The file of a row is that of a form type, or the one given.
LEMMA FileFacts ==
  ASSUME TypeOK, CacheTrue, n > 0, line.read > 0
  PROVE  /\ File(None) = formNow /\ formNow \in Forms /\ formNow \in Names
         /\ formNow # None /\ File(Header) = Header
BY CacheFacts, NamesFacts DEF File

LEMMA InvAInit == Init => InvA
<1> SUFFICES ASSUME Init PROVE InvA
  OBVIOUS
<1>1. out \in Outputs /\ out.opened = {} /\ out = Empty
  BY EmptyFacts DEF Init
<1>2. n = 0 /\ seen \in Seq(FirstLines \cup InputLines)
  BY DEF Init, n
<1> HIDE DEF n
<1>5. parsed \in Seq(1..n) /\ keys \in Seq(Tokens) /\ body \in 0..n /\ taken \subseteq 1..n
  BY <1>2 DEF Init
<1>3. TypeOK
  BY <1>1, <1>2, <1>5 DEF Init, TypeOK
<1>4. Phases /\ CacheTrue
  BY <1>1, <1>2 DEF Init, Phases, Early, CacheTrue
<1> QED BY <1>3, <1>4 DEF InvA

LEMMA InvAGrabFirst == ASSUME InvA, GrabFirst PROVE InvA'
<1>1. CacheTrue'
  BY SameCache DEF InvA, GrabFirst
<1>2. /\ seen' \in Seq(AllLines) /\ ended' \in BOOLEAN
      /\ n \in Nat /\ n' \in Nat /\ n' \in {n, n + 1}
      /\ body \in 0..n' /\ parsed \in Seq(1..n') /\ taken \subseteq 1..n'
  BY InputFacts DEF InvA, GrabFirst, AllLines
<1>3. pc' \in {"header", "failed"} /\ (pc' = "header" => n' = n + 1)
  BY GrabFacts DEF InvA, GrabFirst, AllLines
<1>4. TypeOK'
  BY <1>2, <1>3 DEF InvA, GrabFirst, TypeOK, AllLines, cacheVars, f99Vars, history
<1>5. Phases'
  BY <1>2, <1>3 DEF InvA, GrabFirst, Phases, Early, cacheVars, f99Vars, history
<1> QED BY <1>1, <1>4, <1>5 DEF InvA

LEMMA InvAHeaderVersion == ASSUME InvA, HeaderVersion PROVE InvA'
<1>1. n = 1 /\ n' = n /\ seen' = seen /\ out' = Empty /\ out = Empty
  BY DEF InvA, HeaderVersion, Phases, n, inputVars
<1>2. TypeOK'
  BY <1>1 DEF InvA, HeaderVersion, TypeOK, inputVars, f99Vars
<1>3. CacheTrue'
  BY DEF InvA, HeaderVersion, Phases, Early, CacheTrue
<1>4. Phases'
  BY <1>1 DEF InvA, HeaderVersion, Phases, Early
<1> QED BY <1>2, <1>3, <1>4 DEF InvA

LEMMA InvAHeaderRow == ASSUME InvA, HeaderRow PROVE InvA'
<1>1. n = 1 /\ n' = n /\ seen' = seen
  BY DEF InvA, HeaderRow, Phases, n, inputVars
<1>2. line.read \in Nat /\ line.last \in Nat /\ line.read \in {line.last, line.last + 1}
  BY <1>1, LineFacts DEF InvA
<1>3. out' \in Outputs
  <2>1. CASE ParseUnmapped
    BY <2>1 DEF InvA, TypeOK, ParseUnmapped
  <2>2. CASE ParseTwo(Header)
    <3>1. out' = WithRow(Header) /\ line.read >= 1
      BY <1>1, <1>2, <2>2, FileFacts DEF ParseTwo, InvA
    <3> QED BY <1>1, <3>1, WithRowFacts, NamesFacts DEF Wrote, InvA
  <2>3. CASE ParseFull(Header, TRUE)
    <3>1. out' = EndRow(WithRow(Header), Header, <<>>) /\ line.read >= 1
      BY <1>1, <1>2, <2>3, FileFacts DEF ParseFull, InvA
    <3>2. Wrote(Header, EndRow(WithRow(Header), Header, <<>>), RowTokens \o Mark("newline"))
      BY <1>1, <3>1, FullRowFacts, NamesFacts DEF InvA
    <3> QED BY <3>1, <3>2 DEF Wrote
  <2> QED BY <2>1, <2>2, <2>3 DEF HeaderRow
<1>4. /\ formType' \in Forms \cup {None} /\ mapping' \in Forms \cup {None}
      /\ CacheTrue'
  BY <1>1, LookupFacts DEF HeaderRow
<1>5. pc' \in {"loop", "failed"}
  BY DEF HeaderRow
<1>6. TypeOK'
  BY <1>1, <1>3, <1>4, <1>5 DEF InvA, HeaderRow, TypeOK, inputVars, f99Vars, history
<1>7. Phases'
  BY <1>5 DEF Phases, Early
<1> QED BY <1>4, <1>6, <1>7 DEF InvA

LEMMA InvALegacyHeader == ASSUME InvA, LegacyHeader PROVE InvA'
<1>1. n = 1 /\ n' = n /\ seen' = seen
  BY DEF InvA, LegacyHeader, Phases, n, inputVars
<1>2. CacheTrue'
  BY SameCache DEF InvA, LegacyHeader
<1>3. out' \in Outputs /\ out'.opened \subseteq {Header}
  <2>1. RowStart \in Seq(Tokens) /\ out \in Outputs /\ out.opened \subseteq {Header}
    BY PlainFacts, WiderFacts DEF InvA, TypeOK, Phases, Early, LegacyHeader
  <2>2. /\ Write(out, Header, RowStart) \in Outputs
        /\ Write(out, Header, RowStart).opened = out.opened \cup {Header}
    BY <2>1, WriteFacts, NamesFacts
  <2> QED BY <2>1, <2>2 DEF LegacyHeader
<1>4. TypeOK'
  BY <1>1, <1>3 DEF InvA, LegacyHeader, TypeOK, inputVars, cacheVars, f99Vars, history
<1>5. Phases'
  BY <1>3 DEF InvA, LegacyHeader, Phases, Early, cacheVars, history
<1> QED BY <1>2, <1>4, <1>5 DEF InvA

LEMMA InvALegacyKey == ASSUME InvA, LegacyKey PROVE InvA'
<1>1. /\ seen' \in Seq(AllLines) /\ ended' \in BOOLEAN
      /\ n \in Nat /\ n' \in Nat /\ n' = n + 1
      /\ body \in 0..n' /\ parsed \in Seq(1..n') /\ taken \subseteq 1..n'
  BY InputFacts, GrabFacts DEF InvA, LegacyKey, AllLines
<1>2. /\ <<Token("key", n + 1, None)>> \in Seq(Tokens)
      /\ Token("value", n + 1, None) \in Tokens
  BY <1>1 DEF Token, Tokens
<1>3. keys' \in Seq(Tokens)
  BY <1>2, AppendFacts DEF InvA, TypeOK, LegacyKey
<1> HIDE DEF Token
<1>4. out' \in Outputs /\ out'.opened \subseteq {Header}
  <2>1. out \in Outputs /\ out.opened \subseteq {Header}
    BY DEF InvA, TypeOK, Phases, Early, LegacyKey
  <2> DEFINE k == <<Token("key", n + 1, None)>>
  <2>2. k \in Seq(Tokens) /\ out' = Write(out, Header, k)
    BY <1>2 DEF LegacyKey
  <2> HIDE DEF k
  <2>3. /\ Write(out, Header, k) \in Outputs
        /\ Write(out, Header, k).opened = out.opened \cup {Header}
    BY <2>1, <2>2, WriteFacts, NamesFacts
  <2> QED BY <2>1, <2>2, <2>3
<1>5. CacheTrue'
  BY DEF InvA, LegacyKey, Phases, Early, CacheTrue
<1>6. TypeOK'
  BY <1>1, <1>3, <1>4 DEF InvA, LegacyKey, TypeOK, AllLines, f99Vars, history
<1>7. Phases'
  BY <1>4 DEF InvA, LegacyKey, Phases, Early, history
<1> QED BY <1>5, <1>6, <1>7 DEF InvA

LEMMA InvALegacyCounts == ASSUME InvA, LegacyCounts PROVE InvA'
<1>1. /\ seen' \in Seq(AllLines) /\ ended' \in BOOLEAN
      /\ n \in Nat /\ n' \in Nat /\ n' = n + 1
      /\ body \in 0..n' /\ parsed \in Seq(1..n') /\ taken \subseteq 1..n'
  BY InputFacts, GrabFacts DEF InvA, LegacyCounts, AllLines
<1>2. CacheTrue'
  BY SameCache DEF InvA, LegacyCounts
<1>3. TypeOK'
  BY <1>1 DEF InvA, LegacyCounts, TypeOK, AllLines, cacheVars, f99Vars, history
<1>4. Phases'
  BY DEF InvA, LegacyCounts, Phases, Early, cacheVars, history
<1> QED BY <1>2, <1>3, <1>4 DEF InvA

LEMMA InvALegacyEnd == ASSUME InvA, LegacyEnd PROVE InvA'
<1>1. /\ seen' \in Seq(AllLines) /\ ended' \in BOOLEAN
      /\ n \in Nat /\ n' \in Nat /\ n' \in {n, n + 1} /\ n > 0
      /\ body \in 0..n' /\ parsed \in Seq(1..n') /\ taken \subseteq 1..n'
  <2>1. GrabNothing \/ (\E l \in AllLines : Grab(l))
    BY DEF LegacyEnd, AllLines
  <2>2. n > 0
    BY DEF InvA, TypeOK, LegacyEnd
  <2> QED BY <2>1, <2>2, InputFacts DEF InvA
<1>2. CacheTrue'
  BY SameCache DEF InvA, LegacyEnd
<1>3. out' \in Outputs
  <2>1. out \in Outputs /\ <<>> \in Seq(Tokens) /\ RowStart \o keys \in Seq(Tokens)
    BY PlainFacts, WiderFacts, JoinFacts DEF InvA, TypeOK
  <2>2. WriteLine(out, Header, <<>>) \in Outputs
    BY <2>1, WriteLineFacts, NamesFacts
  <2>3. WriteLine(WriteLine(out, Header, <<>>), Header, RowStart \o keys) \in Outputs
    BY <2>1, <2>2, WriteLineFacts, NamesFacts
  <2> QED BY <2>3 DEF LegacyEnd
<1>4. body' = n'
  BY DEF LegacyEnd, n
<1>5. TypeOK'
  BY <1>1, <1>3, <1>4 DEF InvA, LegacyEnd, TypeOK, AllLines, cacheVars, f99Vars
<1>6. Phases'
  BY DEF InvA, LegacyEnd, Phases, Early
<1> QED BY <1>2, <1>5, <1>6 DEF InvA

LEMMA InvAGrabLine == ASSUME InvA, GrabLine PROVE InvA'
<1>1. /\ seen' \in Seq(AllLines) /\ ended' \in BOOLEAN
      /\ n \in Nat /\ n' \in Nat /\ n' \in {n, n + 1} /\ n > 0
      /\ body \in 0..n' /\ parsed \in Seq(1..n') /\ taken \subseteq 1..n'
  <2>1. GrabNothing \/ (\E l \in AllLines : Grab(l))
    BY DEF GrabLine, AllLines
  <2>2. n > 0
    BY DEF InvA, TypeOK, GrabLine
  <2> QED BY <2>1, <2>2, InputFacts DEF InvA
<1>2. pc' \in {"parse", "done"} /\ (pc' = "parse" => n' = n + 1)
  BY GrabFacts DEF InvA, GrabLine, AllLines, AtEndOfInput
<1>3. CacheTrue'
  BY SameCache DEF InvA, GrabLine
<1>4. TypeOK'
  BY <1>1, <1>2 DEF InvA, GrabLine, TypeOK, AllLines, cacheVars, f99Vars, history
<1>5. body' = body /\ body \in 0..n
  BY DEF InvA, TypeOK, GrabLine, history
<1>6. Phases'
  BY <1>1, <1>2, <1>5 DEF Phases, Early
<1> QED BY <1>3, <1>4, <1>6 DEF InvA
\* What a row that is written leaves: whole, ended or not.
Row(f, ts) ==
  /\ f \in Names /\ Found /\ ~(mappingNow = None /\ IsNew(f))
  /\ ts \in {RowTokens, RowTokens \o Mark("newline")}
  /\ Wrote(f, out', ts)

LEMMA RowWritten ==
  ASSUME TypeOK, CacheTrue, n > 0, NEW f \in {None, Header}, NEW b \in BOOLEAN,
         ParseTwo(f) \/ ParseFull(f, b) \/ ParseMismatched(f)
  PROVE  /\ line.read >= 2
         /\ (ParseTwo(f) \/ ParseMismatched(f) => Row(File(f), RowTokens))
         /\ (ParseFull(f, b) =>
               Row(File(f), RowTokens \o Mark("newline")) /\ out'.buffer = <<>>)
<1> DEFINE g == File(f)
<1>1. line.read >= 2 /\ line.read > 0 /\ line.read >= 1
  BY LineFacts DEF ParseTwo, ParseFull, ParseMismatched
<1>2. g \in Names
  BY <1>1, FileFacts, NamesFacts
<1>3. Found /\ ~(mappingNow = None /\ IsNew(g))
  BY DEF ParseTwo, ParseFull, ParseMismatched, NoHeaders
<1>4. Wrote(g, WithRow(g), RowTokens)
  BY <1>1, <1>2, WithRowFacts
<1>5. /\ Wrote(g, EndRow(WithRow(g), g, <<>>), RowTokens \o Mark("newline"))
      /\ EndRow(WithRow(g), g, <<>>).buffer = <<>>
  BY <1>1, <1>2, FullRowFacts
<1>6. ParseTwo(f) \/ ParseMismatched(f) => out' = WithRow(g)
  BY DEF ParseTwo, ParseMismatched
<1>7. ParseFull(f, b) => out' = EndRow(WithRow(g), g, <<>>)
  BY DEF ParseFull
<1> HIDE DEF g
<1>8. ParseTwo(f) \/ ParseMismatched(f) => Row(g, RowTokens)
  BY <1>2, <1>3, <1>4, <1>6 DEF Row
<1>9. ParseFull(f, b) => Row(g, RowTokens \o Mark("newline")) /\ out'.buffer = <<>>
  BY <1>2, <1>3, <1>5, <1>7 DEF Row
<1> QED BY <1>1, <1>8, <1>9 DEF g

\* The ways parseFec goes on after a line.
LEMMA ParseLineCases ==
  ASSUME InvA, ParseLine
  PROVE  /\ n > 0 /\ n' = n /\ seen' = seen
         /\ \/ /\ out' = out
               /\ pc' \in {"loop", "crashed"} /\ UNCHANGED f99Vars
            \/ /\ line.read = 2 /\ line.last = 1
               /\ Row(File(None), RowTokens)
               /\ pc' = "loop" /\ UNCHANGED f99Vars
            \/ /\ line.read >= 2
               /\ Row(File(None), RowTokens \o Mark("newline")) /\ out'.buffer = <<>>
               /\ pc' = "loop" /\ UNCHANGED f99Vars
            \/ /\ line.read >= 2
               /\ Row(File(None), RowTokens)
               /\ rowFile' = File(None) /\ pc' = "f99"
               /\ f99Mode' = FALSE /\ first' = TRUE
<1>1. n > 0 /\ n' = n /\ seen' = seen
  BY DEF InvA, TypeOK, ParseLine, n, inputVars
<1>2. CASE ParseEmpty \/ ParseUnmapped \/ ParseShort
  <2>1. out' = out
    BY <1>2 DEF ParseEmpty, ParseUnmapped, ParseShort
  <2>2. pc' \in {"loop", "crashed"} /\ UNCHANGED f99Vars
    <3>1. ~ParseMismatched(None)
      BY <1>1, <1>2, LineFacts
         DEF InvA, ParseEmpty, ParseUnmapped, ParseShort, ParseMismatched
    <3> QED BY <3>1 DEF ParseLine
  <2> QED BY <1>1, <2>1, <2>2
<1>3. CASE ParseTwo(None)
  <2>1. line.read = 2 /\ line.last = 1 /\ Row(File(None), RowTokens)
    BY <1>1, <1>3, RowWritten DEF InvA, ParseTwo
  <2>2. pc' = "loop" /\ UNCHANGED f99Vars
    <3>1. ~ParseMismatched(None) /\ ~ParseCrash(None)
      BY <1>3 DEF ParseTwo, ParseCrash, ParseMismatched
    <3> QED BY <3>1 DEF ParseLine
  <2> QED BY <1>1, <2>1, <2>2
<1>4. CASE ParseFull(None, FALSE)
  <2>1. /\ line.read >= 2 /\ out'.buffer = <<>>
        /\ Row(File(None), RowTokens \o Mark("newline"))
    BY <1>1, <1>4, RowWritten DEF InvA
  <2>2. pc' = "loop" /\ UNCHANGED f99Vars
    BY <1>4 DEF ParseLine, ParseFull, ParseCrash, ParseMismatched
  <2> QED BY <1>1, <2>1, <2>2
<1>5. CASE ParseCrash(None) /\ pc' = "crashed" /\ UNCHANGED f99Vars
  BY <1>1, <1>5 DEF ParseCrash
<1>6. CASE /\ ParseMismatched(None)
           /\ rowFile' = File(None) /\ f99Mode' = FALSE /\ first' = TRUE
           /\ pc' = "f99"
  BY <1>1, <1>6, RowWritten DEF InvA
<1> QED BY <1>2, <1>3, <1>4, <1>5, <1>6 DEF ParseLine

LEMMA InvAParseLine == ASSUME InvA, ParseLine PROVE InvA'
<1>1. n > 0 /\ n' = n /\ seen' = seen /\ n \in Nat
  BY ParseLineCases, LineFacts DEF InvA
<1>2. line.read >= 2 => File(None) \in Forms /\ File(None) # None
  BY <1>1, LineFacts, FileFacts DEF InvA
<1>3. /\ out' \in Outputs
      /\ pc' \in {"loop", "crashed", "f99"}
      /\ rowFile' \in Forms \cup {None} /\ f99Mode' \in BOOLEAN /\ first' \in BOOLEAN
      /\ (pc' = "f99" => rowFile' # None)
  <2>1. CASE out' = out /\ pc' \in {"loop", "crashed"} /\ UNCHANGED f99Vars
    BY <2>1 DEF InvA, TypeOK, f99Vars
  <2>2. CASE /\ line.read >= 2
             /\ (Row(File(None), RowTokens) \/ Row(File(None), RowTokens \o Mark("newline")))
             /\ \/ pc' = "loop" /\ UNCHANGED f99Vars
                \/ /\ rowFile' = File(None) /\ pc' = "f99"
                   /\ f99Mode' = FALSE /\ first' = TRUE
    <3>1. out' \in Outputs
      BY <2>2 DEF Row, Wrote
    <3>2. CASE pc' = "loop" /\ UNCHANGED f99Vars
      BY <3>1, <3>2 DEF InvA, TypeOK, f99Vars
    <3>3. CASE rowFile' = File(None) /\ pc' = "f99" /\ f99Mode' = FALSE /\ first' = TRUE
      BY <1>2, <2>2, <3>1, <3>3
    <3> QED BY <2>2, <3>2, <3>3
  <2>3. line.read = 2 => line.read >= 2
    OBVIOUS
  <2>4. \/ out' = out /\ pc' \in {"loop", "crashed"} /\ UNCHANGED f99Vars
        \/ /\ line.read >= 2
           /\ (Row(File(None), RowTokens) \/ Row(File(None), RowTokens \o Mark("newline")))
           /\ \/ pc' = "loop" /\ UNCHANGED f99Vars
              \/ /\ rowFile' = File(None) /\ pc' = "f99"
                 /\ f99Mode' = FALSE /\ first' = TRUE
    BY <2>3, ParseLineCases, Zenon
  <2> QED BY <2>1, <2>2, <2>4
<1>4. /\ formType' \in Forms \cup {None} /\ mapping' \in Forms \cup {None}
      /\ CacheTrue'
  BY <1>1, LookupFacts DEF ParseLine
<1>5. parsed' \in Seq(1..n) /\ body' \in 0..n /\ taken' \subseteq 1..n
  <2>1. parsed \in Seq(1..n) /\ n \in 1..n
    BY <1>1 DEF InvA, TypeOK
  <2>2. parsed' = Append(parsed, n)
    BY DEF ParseLine
  <2> QED BY <2>1, <2>2, AppendFacts DEF InvA, TypeOK, ParseLine
<1>6. TypeOK'
  BY <1>1, <1>3, <1>4, <1>5 DEF InvA, ParseLine, TypeOK, inputVars
<1>7. Phases'
  BY <1>3 DEF Phases, Early
<1> QED BY <1>4, <1>6, <1>7 DEF InvA

\* What parseF99Text writes, to the file of the row.
F99Written(ts) ==
  /\ rowFile \in Forms /\ rowFile \in Names
  /\ out' \in Outputs
  /\ out'.files[rowFile] = out.files[rowFile] \o ts
  /\ \A g \in Names : (g # rowFile => out'.files[g] = out.files[g])
  /\ out'.opened = out.opened \cup {rowFile}

LEMMA F99Ends ==
  ASSUME InvA, pc = "f99", NEW ts \in Seq(PlainTokens), out' = EndRow(out, rowFile, ts)
  PROVE  F99Written(ts \o Mark("newline")) /\ out'.buffer = <<>>
<1>1. rowFile \in Forms /\ rowFile \in Names /\ out \in Outputs
  BY NamesFacts DEF InvA, TypeOK
<1>2. ts \in Seq(Tokens) /\ out' = WriteLine(out, rowFile, ts)
  BY PlainFacts, WiderFacts, EndRowFacts
<1>3. WriteLine(out, rowFile, ts).files[rowFile] = out.files[rowFile] \o (ts \o Mark("newline"))
  BY <1>1, <1>2, WriteLineFacts
<1>4. /\ WriteLine(out, rowFile, ts) \in Outputs
      /\ WriteLine(out, rowFile, ts).opened = out.opened \cup {rowFile}
      /\ WriteLine(out, rowFile, ts).buffer = <<>>
  BY <1>1, <1>2, WriteLineFacts
<1>5. \A g \in Names : (g # rowFile => WriteLine(out, rowFile, ts).files[g] = out.files[g])
  BY <1>1, <1>2, WriteLineFacts
<1> QED BY <1>1, <1>2, <1>3, <1>4, <1>5 DEF F99Written

LEMMA F99Writes ==
  ASSUME InvA, pc = "f99", NEW ts \in Seq(PlainTokens), out' = Write(out, rowFile, ts)
  PROVE  F99Written(ts)
<1>1. rowFile \in Forms /\ rowFile \in Names /\ out \in Outputs
  BY NamesFacts DEF InvA, TypeOK
<1>2. ts \in Seq(Tokens)
  BY PlainFacts, WiderFacts
<1>3. Write(out, rowFile, ts).files[rowFile] = out.files[rowFile] \o ts
  BY <1>1, <1>2, WriteFacts
<1>4. /\ Write(out, rowFile, ts) \in Outputs
      /\ Write(out, rowFile, ts).opened = out.opened \cup {rowFile}
  BY <1>1, <1>2, WriteFacts
<1>5. \A g \in Names : (g # rowFile => Write(out, rowFile, ts).files[g] = out.files[g])
  BY <1>1, <1>2, WriteFacts
<1> QED BY <1>1, <1>3, <1>4, <1>5 DEF F99Written

F99Step == F99AtEnd \/ F99Blank \/ F99Begin \/ F99Invalid \/ F99Text \/ F99End

\* A step of parseF99Text: what it grabs, and what it writes.
LEMMA F99Cases ==
  ASSUME InvA, F99Step
  PROVE  /\ pc = "f99" /\ pc' \in {"f99", "loop", "parse"}
         /\ GrabNothing \/ (\E l \in AllLines : Grab(l))
         /\ \/ pc' = "parse" /\ n' = n + 1 /\ taken' = taken
            \/ pc' # "parse" /\ n' = n /\ taken' = taken
            \/ pc' # "parse" /\ n' = n + 1 /\ taken' = taken \cup {n + 1}
         /\ UNCHANGED <<cacheVars, rowFile, keys, body, parsed>>
         /\ f99Mode' \in BOOLEAN /\ first' \in BOOLEAN
         /\ \/ pc' = "f99" /\ out' = out
            \/ pc' = "f99" /\ \E ts \in Seq(PlainTokens) : F99Written(ts)
            \/ /\ pc' # "f99" /\ out'.buffer = <<>>
               /\ \E ts \in Seq(PlainTokens) : F99Written(ts \o Mark("newline"))
<1>1. <<>> \in Seq(PlainTokens) /\ Mark("quote") \in Seq(PlainTokens) /\ n \in Nat
  BY PlainFacts, LineFacts DEF InvA
<1>2. f99Mode \in BOOLEAN /\ first \in BOOLEAN
  BY DEF InvA, TypeOK
<1>3. CASE F99AtEnd
  <2>1. F99Written(<<>> \o Mark("newline")) /\ out'.buffer = <<>>
    BY <1>1, <1>3, F99Ends DEF F99AtEnd
  <2>2. /\ pc = "f99" /\ pc' = "loop" /\ GrabNothing /\ taken' = taken
        /\ UNCHANGED <<cacheVars, rowFile, keys, body, parsed>>
        /\ f99Mode' = f99Mode /\ first' = first
    BY <1>3 DEF F99AtEnd, f99Vars, history
  <2>3. pc' # "f99" /\ \E ts \in Seq(PlainTokens) : F99Written(ts \o Mark("newline"))
    BY <1>1, <2>1, <2>2
  <2>4. /\ pc' \in {"f99", "loop", "parse"} /\ pc' # "parse" /\ n' = n
        /\ f99Mode' \in BOOLEAN /\ first' \in BOOLEAN
    BY <1>2, <2>2, GrabNothingFacts DEF InvA
  <2> QED BY <2>1, <2>2, <2>3, <2>4
<1>4. CASE F99Blank
  <2>1. \E l \in AllLines : Grab(l)
    BY <1>4 DEF F99Blank, AllLines
  <2>2. n' = n + 1
    BY <2>1, GrabFacts DEF InvA
  <2>3. /\ pc = "f99" /\ pc' = "f99" /\ taken' = taken \cup {n + 1}
        /\ UNCHANGED <<cacheVars, rowFile, keys, body, parsed>>
        /\ f99Mode' = f99Mode /\ first' = first /\ out' = out
    BY <1>4 DEF F99Blank, f99Vars
  <2> QED BY <1>2, <2>1, <2>2, <2>3
<1>5. CASE F99Begin
  <2>1. \E l \in AllLines : Grab(l)
    BY <1>5 DEF F99Begin, AllLines
  <2>2. n' = n + 1
    BY <2>1, GrabFacts DEF InvA
  <2>3. /\ pc = "f99" /\ pc' = "f99" /\ taken' = taken \cup {n + 1}
        /\ UNCHANGED <<cacheVars, rowFile, keys, body, parsed>>
        /\ f99Mode' = TRUE /\ first' = first /\ out' = out
    BY <1>5 DEF F99Begin
  <2> QED BY <1>2, <2>1, <2>2, <2>3
<1>6. CASE F99Invalid
  <2>1. \E l \in AllLines : Grab(l)
    BY <1>6 DEF F99Invalid, AllLines
  <2>2. n' = n + 1
    BY <2>1, GrabFacts DEF InvA
  <2>3. F99Written(<<>> \o Mark("newline")) /\ out'.buffer = <<>>
    BY <1>1, <1>6, F99Ends DEF F99Invalid
  <2>4. /\ pc = "f99" /\ pc' = "parse" /\ taken' = taken
        /\ UNCHANGED <<cacheVars, rowFile, keys, body, parsed>>
        /\ f99Mode' = f99Mode /\ first' = first
    BY <1>6 DEF F99Invalid, AfterInvalid, f99Vars, history
  <2> QED BY <1>1, <1>2, <2>1, <2>2, <2>3, <2>4
<1>7. CASE F99Text
  <2>1. \E l \in AllLines : Grab(l)
    BY <1>7 DEF F99Text, AllLines
  <2>2. n' = n + 1
    BY <2>1, GrabFacts DEF InvA
  <2> DEFINE t == <<Token("text", n + 1, None)>>
  <2>3. t \in Seq(PlainTokens)
    <3>1. Token("text", n + 1, None) \in PlainTokens
      BY <1>1 DEF Token, Tokens, PlainTokens
    <3> QED BY <3>1
  <2>4. out' = Write(out, rowFile, Opening \o t)
    BY <1>7 DEF F99Text
  <2> HIDE DEF t
  <2>5. Opening \in Seq(PlainTokens)
    BY <1>1, PlainFacts, JoinFacts DEF Opening
  <2>6. Opening \o t \in Seq(PlainTokens)
    BY <2>3, <2>5, JoinFacts
  <2>7. pc = "f99"
    BY <1>7 DEF F99Text
  <2>8. F99Written(Opening \o t)
    BY <2>4, <2>6, <2>7, F99Writes
  <2>9. /\ pc' = "f99" /\ taken' = taken \cup {n + 1}
        /\ UNCHANGED <<cacheVars, rowFile, keys, body, parsed>>
        /\ f99Mode' = f99Mode /\ first' = FALSE
    BY <1>7 DEF F99Text
  <2> QED BY <1>2, <2>1, <2>2, <2>6, <2>7, <2>8, <2>9
<1>8. CASE F99End
  <2>1. \E l \in AllLines : Grab(l)
    BY <1>8 DEF F99End, AllLines
  <2>2. n' = n + 1
    BY <2>1, GrabFacts DEF InvA
  <2>3. F99Written(Mark("quote") \o Mark("newline")) /\ out'.buffer = <<>>
    BY <1>1, <1>8, F99Ends DEF F99End
  <2>4. /\ pc = "f99" /\ pc' = "loop" /\ taken' = taken \cup {n + 1}
        /\ UNCHANGED <<cacheVars, rowFile, keys, body, parsed>>
        /\ f99Mode' = FALSE /\ first' = first
    BY <1>8 DEF F99End
  <2> QED BY <1>1, <1>2, <2>1, <2>2, <2>3, <2>4
<1> QED BY <1>3, <1>4, <1>5, <1>6, <1>7, <1>8 DEF F99Step

LEMMA InvAF99 == ASSUME InvA, F99Step PROVE InvA'
<1>1. /\ seen' \in Seq(AllLines) /\ ended' \in BOOLEAN
      /\ n \in Nat /\ n' \in Nat /\ n' \in {n, n + 1} /\ n > 0
      /\ body \in 0..n /\ body \in 0..n' /\ parsed \in Seq(1..n') /\ taken \subseteq 1..n'
  BY F99Cases, InputFacts DEF InvA, TypeOK
<1>2. /\ pc = "f99" /\ pc' \in {"f99", "loop", "parse"}
      /\ (pc' = "parse" => n' = n + 1)
      /\ UNCHANGED <<cacheVars, rowFile, keys, body, parsed>>
      /\ f99Mode' \in BOOLEAN /\ first' \in BOOLEAN
      /\ (taken' = taken \/ (taken' = taken \cup {n + 1} /\ n' = n + 1))
  BY F99Cases
<1>3. out' \in Outputs
  BY F99Cases DEF F99Written, InvA, TypeOK
<1>4. taken' \subseteq 1..n'
  <2>1. n' = n + 1 => n + 1 \in 1..n'
    BY <1>1
  <2> QED BY <1>1, <1>2, <2>1
<1>5. TypeOK'
  BY <1>1, <1>2, <1>3, <1>4 DEF InvA, TypeOK, AllLines, cacheVars
<1>6. CacheTrue'
  BY <1>2, SameCache DEF InvA
<1>7. Phases'
  BY <1>1, <1>2 DEF Phases, Early
<1> QED BY <1>5, <1>6, <1>7 DEF InvA

LEMMA InvAStutter == ASSUME InvA, UNCHANGED vars PROVE InvA'
<1>1. n' = n
  BY DEF vars, n
<1>2. TypeOK'
  BY <1>1 DEF InvA, TypeOK, vars
<1>3. Phases'
  BY <1>1 DEF InvA, Phases, vars
<1>4. CacheTrue'
  BY SameCache DEF InvA, vars, cacheVars
<1> QED BY <1>2, <1>3, <1>4 DEF InvA

LEMMA InvAStep == ASSUME InvA, [Next]_vars PROVE InvA'
<1>1. CASE Next
  BY <1>1, InvAGrabFirst, InvAHeaderVersion, InvAHeaderRow, InvALegacyHeader,
     InvALegacyKey, InvALegacyCounts, InvALegacyEnd, InvAGrabLine, InvAParseLine,
     InvAF99 DEF Next, F99Step
<1>2. CASE UNCHANGED vars
  BY <1>2, InvAStutter
<1> QED BY <1>1, <1>2

\* In every filing the variables keep their types, and the headers and types in
\* use are those of the cached form type (fec.c:94-194).
THEOREM ParserTyped == Spec => []TypeOK
<1>1. Spec => []InvA
  BY InvAInit, InvAStep, PTL DEF Spec
<1> QED BY <1>1, PTL DEF InvA

\* The mapping in use is that of the cached form type, or what an unmapped type
\* left of an earlier one (fec.c:94-110).
THEOREM CacheStaysTrue == Spec => []CacheTrue
<1>1. Spec => []InvA
  BY InvAInit, InvAStep, PTL DEF Spec
<1> QED BY <1>1, PTL DEF InvA

-----------------------------------------------------------------------------
(* Every line is handled once.                                               *)

Parsed == {parsed[i] : i \in DOMAIN parsed}

Handled ==
  /\ \A i, j \in DOMAIN parsed : (i < j => parsed[i] < parsed[j])
  /\ \A i \in DOMAIN parsed : (parsed[i] > body /\ parsed[i] \notin taken)
  /\ (pc \in {"loop", "f99", "done", "crashed"} => (body + 1)..n = taken \cup Parsed)
  /\ (pc = "parse" => (body + 1)..(n - 1) = taken \cup Parsed)

LEMMA HandledIsLinesHandled == Handled <=> LinesHandled
BY DEF Handled, LinesHandled, Parsed

\* parsed, taken and body are natural numbers, within the lines grabbed.
LEMMA HistoryFacts ==
  ASSUME InvA
  PROVE  /\ n \in Nat /\ body \in Nat /\ body <= n
         /\ taken \subseteq 1..n /\ Parsed \subseteq 1..n
         /\ DOMAIN parsed = 1..Len(parsed) /\ Len(parsed) \in Nat
<1>1. n \in Nat /\ body \in 0..n /\ taken \subseteq 1..n /\ parsed \in Seq(1..n)
  BY LineFacts DEF InvA, TypeOK
<1>2. Parsed \subseteq 1..n /\ DOMAIN parsed = 1..Len(parsed) /\ Len(parsed) \in Nat
  BY <1>1, ElementFacts DEF Parsed
<1> QED BY <1>1, <1>2

\* Before the loop the histories are empty.
LEMMA HandledEarly ==
  ASSUME InvA, pc \in Early, UNCHANGED <<parsed, taken>>,
         (pc' \in {"loop", "f99", "done", "crashed"} => body' = n'), pc' # "parse",
         n' \in Nat
  PROVE  Handled'
<1>1. parsed' = <<>> /\ taken' = {}
  BY DEF InvA, Phases
<1>2. Parsed' = {} /\ DOMAIN parsed' = {}
  BY <1>1 DEF Parsed
<1>3. pc' \in {"loop", "f99", "done", "crashed"} => (body' + 1)..n' = {}
  OBVIOUS
<1> QED BY <1>1, <1>2, <1>3 DEF Handled

LEMMA HandledGrabLine ==
  ASSUME InvA, Handled, GrabLine
  PROVE  Handled'
<1>1. /\ pc = "loop" /\ UNCHANGED <<body, parsed, taken>>
      /\ \/ pc' = "parse" /\ n' = n + 1
         \/ pc' = "done" /\ n' = n
  BY GrabFacts, GrabNothingFacts DEF InvA, GrabLine, history, AtEndOfInput, AllLines
<1>2. Parsed' = Parsed /\ n \in Nat
  BY <1>1, HistoryFacts DEF Parsed
<1>3. pc' = "parse" => n' - 1 = n
  BY <1>1, <1>2
<1> QED BY <1>1, <1>2, <1>3 DEF Handled

LEMMA HandledParseLine ==
  ASSUME InvA, Handled, ParseLine
  PROVE  Handled'
<1>1. /\ n > 0 /\ n' = n /\ pc = "parse" /\ pc' \in {"loop", "crashed", "f99"}
      /\ parsed' = Append(parsed, n) /\ UNCHANGED <<body, taken>>
  BY ParseLineCases DEF ParseLine
<1>2. /\ n \in Nat /\ body \in Nat /\ body < n
      /\ DOMAIN parsed = 1..Len(parsed) /\ Len(parsed) \in Nat
  BY <1>1, HistoryFacts DEF InvA, Phases
<1>3. (body + 1)..(n - 1) = taken \cup Parsed
  BY <1>1 DEF Handled
<1>4. n \notin taken /\ \A i \in DOMAIN parsed : (parsed[i] \in Nat /\ parsed[i] < n)
  <2>1. \A k \in taken \cup Parsed : (k \in Nat /\ k < n)
    BY <1>2, <1>3
  <2>2. n \notin taken
    BY <1>2, <2>1
  <2>3. \A i \in DOMAIN parsed : parsed[i] \in Parsed
    BY DEF Parsed
  <2> QED BY <2>1, <2>2, <2>3
<1>5. /\ DOMAIN parsed' = 1..(Len(parsed) + 1) /\ parsed'[Len(parsed) + 1] = n
      /\ \A i \in 1..Len(parsed) : parsed'[i] = parsed[i]
  <2>1. parsed \in Seq(1..n) /\ n \in 1..n
    BY <1>1, <1>2 DEF InvA, TypeOK
  <2>2. /\ parsed' \in Seq(1..n) /\ Len(parsed') = Len(parsed) + 1
        /\ parsed'[Len(parsed) + 1] = n
        /\ \A i \in 1..Len(parsed) : parsed'[i] = parsed[i]
    BY <1>1, <2>1, AppendFacts
  <2> QED BY <2>2, ElementFacts
<1>6. \A i, j \in DOMAIN parsed' : (i < j => parsed'[i] < parsed'[j])
  <2> SUFFICES ASSUME NEW i \in DOMAIN parsed', NEW j \in DOMAIN parsed', i < j
               PROVE  parsed'[i] < parsed'[j]
    OBVIOUS
  <2>1. i \in 1..Len(parsed)
    BY <1>2, <1>5
  <2>2. CASE j \in 1..Len(parsed)
    BY <1>2, <1>5, <2>1, <2>2 DEF Handled
  <2>3. CASE j = Len(parsed) + 1
    BY <1>2, <1>4, <1>5, <2>1, <2>3
  <2> QED BY <1>2, <1>5, <2>2, <2>3
<1>7. \A i \in DOMAIN parsed' : (parsed'[i] > body /\ parsed'[i] \notin taken)
  <2> SUFFICES ASSUME NEW i \in DOMAIN parsed'
               PROVE  parsed'[i] > body /\ parsed'[i] \notin taken
    OBVIOUS
  <2>1. CASE i \in 1..Len(parsed)
    BY <1>2, <1>5, <2>1 DEF Handled
  <2>2. CASE i = Len(parsed) + 1
    BY <1>2, <1>4, <1>5, <2>2
  <2> QED BY <1>2, <1>5, <2>1, <2>2
<1>8. Parsed' = Parsed \cup {n}
  BY <1>2, <1>5 DEF Parsed
<1>9. (body + 1)..n = ((body + 1)..(n - 1)) \cup {n}
  BY <1>2
<1> QED BY <1>1, <1>3, <1>6, <1>7, <1>8, <1>9 DEF Handled

LEMMA HandledF99 ==
  ASSUME InvA, Handled, F99Step
  PROVE  Handled'
<1>1. /\ pc = "f99" /\ pc' \in {"f99", "loop", "parse"} /\ UNCHANGED <<body, parsed>>
      /\ \/ pc' = "parse" /\ n' = n + 1 /\ taken' = taken
         \/ pc' # "parse" /\ n' = n /\ taken' = taken
         \/ pc' # "parse" /\ n' = n + 1 /\ taken' = taken \cup {n + 1}
  BY F99Cases
<1>2. /\ n \in Nat /\ body \in Nat /\ body <= n /\ Parsed \subseteq 1..n
      /\ (body + 1)..n = taken \cup Parsed
  BY <1>1, HistoryFacts DEF Handled
<1>3. Parsed' = Parsed /\ DOMAIN parsed' = DOMAIN parsed
  BY <1>1 DEF Parsed
<1>4. \A i \in DOMAIN parsed : parsed[i] # n + 1
  BY <1>2 DEF Parsed
<1>5. (body + 1)..(n + 1) = ((body + 1)..n) \cup {n + 1} /\ (n + 1) - 1 = n
  BY <1>2
<1>6. \A i \in DOMAIN parsed' : (parsed'[i] > body' /\ parsed'[i] \notin taken')
  BY <1>1, <1>3, <1>4 DEF Handled
<1>7. /\ (pc' \in {"loop", "f99", "done", "crashed"} => (body' + 1)..n' = taken' \cup Parsed')
      /\ (pc' = "parse" => (body' + 1)..(n' - 1) = taken' \cup Parsed')
  <2>1. CASE pc' = "parse" /\ n' = n + 1 /\ taken' = taken
    BY <1>1, <1>2, <1>3, <1>5, <2>1
  <2>2. CASE pc' # "parse" /\ n' = n /\ taken' = taken
    BY <1>1, <1>2, <1>3, <2>2
  <2>3. CASE pc' # "parse" /\ n' = n + 1 /\ taken' = taken \cup {n + 1}
    BY <1>1, <1>2, <1>3, <1>5, <2>3
  <2> QED BY <1>1, <2>1, <2>2, <2>3
<1> QED BY <1>1, <1>3, <1>6, <1>7 DEF Handled

EarlyStep == \/ GrabFirst \/ HeaderVersion \/ HeaderRow
             \/ LegacyHeader \/ LegacyKey \/ LegacyCounts \/ LegacyEnd

\* The steps of parseHeader; where they lead to the loop, all is header so far.
LEMMA EarlyCases ==
  ASSUME InvA, EarlyStep
  PROVE  /\ pc \in Early /\ pc' \in Early \cup {"loop", "failed"} /\ n' \in Nat
         /\ UNCHANGED <<parsed, taken>>
         /\ (pc' = "loop" => body' = n')
<1>1. InvA'
  BY InvAGrabFirst, InvAHeaderVersion, InvAHeaderRow, InvALegacyHeader, InvALegacyKey,
     InvALegacyCounts, InvALegacyEnd DEF EarlyStep
<1>2. n' \in Nat
  BY <1>1 DEF InvA, TypeOK, n
<1>3. /\ pc \in Early /\ pc' \in Early \cup {"loop", "failed"}
      /\ UNCHANGED <<parsed, taken>>
  BY DEF EarlyStep, GrabFirst, HeaderVersion, HeaderRow, LegacyHeader, LegacyKey,
         LegacyCounts, LegacyEnd, Early, history
<1>4. pc' = "loop" => body' = n'
  <2>1. CASE HeaderVersion
    BY <2>1 DEF InvA, HeaderVersion, Phases, n, inputVars
  <2>2. CASE HeaderRow
    BY <2>2 DEF InvA, HeaderRow, Phases, n, inputVars, history
  <2>3. CASE LegacyEnd
    BY <2>3 DEF LegacyEnd, n
  <2>4. CASE GrabFirst \/ LegacyHeader \/ LegacyKey \/ LegacyCounts
    BY <2>4 DEF GrabFirst, LegacyHeader, LegacyKey, LegacyCounts
  <2> QED BY <2>1, <2>2, <2>3, <2>4 DEF EarlyStep
<1> QED BY <1>2, <1>3, <1>4

\* Next, by the part of the parser that takes the step.
LEMMA NextCases ==
  ASSUME [Next]_vars
  PROVE  EarlyStep \/ GrabLine \/ ParseLine \/ F99Step \/ UNCHANGED vars
BY DEF Next, EarlyStep, F99Step

LEMMA HandledStep == ASSUME InvA, Handled, [Next]_vars PROVE Handled'
<1>1. CASE EarlyStep
  <2>1. /\ pc \in Early /\ UNCHANGED <<parsed, taken>> /\ n' \in Nat /\ pc' # "parse"
        /\ (pc' \in {"loop", "f99", "done", "crashed"} => body' = n')
    BY <1>1, EarlyCases DEF Early
  <2> QED BY <2>1, HandledEarly
<1>2. CASE UNCHANGED vars
  BY <1>2 DEF Handled, Parsed, vars, n
<1> QED BY <1>1, <1>2, NextCases, HandledGrabLine, HandledParseLine, HandledF99

\* In every filing each line after the header is parsed as a row or used up as
\* F99 text, one or the other, once and in order (fec.c:854-868).
THEOREM LinesHandledOnce == Spec => []LinesHandled
<1>1. Init => Handled
  <2> SUFFICES ASSUME Init PROVE Handled
    OBVIOUS
  <2>1. DOMAIN parsed = {} /\ pc = "start"
    BY DEF Init
  <2> QED BY <2>1 DEF Handled
<1>2. Spec => [](InvA /\ Handled)
  BY <1>1, InvAInit, InvAStep, HandledStep, PTL DEF Spec
<1> QED BY <1>2, HandledIsLinesHandled, PTL

-----------------------------------------------------------------------------
(* What the file of a form type holds.                                       *)

\* The tokens that may be in the file of f.
Good(f) == {t \in Tokens :
              /\ (t.what = "form" =>
                    t.as = f /\ t.row \in 1..n /\ seen[t.row].form \in Begins[f])
              /\ (Mapped(f) /\ t.what \in {"headers", "form", "cell"} => t.as = f)}

\* One header row, the first.
Headed(s) ==
  /\ Len(RowStart) + 1 \in 1..Len(s)
  /\ \A i \in 1..Len(s) : (s[i].what = "headers" <=> i = Len(RowStart) + 1)

\* The files of the form types are good, and the F99 text goes to one that is open.
FormFiles == /\ \A f \in Forms : out.files[f] \in Seq(Good(f))
             /\ \A f \in Forms : (f \notin out.opened => out.files[f] = <<>>)
             /\ \A f \in Forms : (f \in out.opened => Headed(out.files[f]))
             /\ (pc = "f99" => rowFile \in out.opened)

LEMMA HeadedJoin ==
  ASSUME NEW s \in Seq(Tokens), Headed(s), NEW S, S \subseteq Tokens,
         \A x \in S : x.what # "headers", NEW t \in Seq(S)
  PROVE  Headed(s \o t)
<1> DEFINE h == Len(RowStart) + 1
<1>1. t \in Seq(Tokens)
  BY WiderFacts
<1>2. /\ Len(s) \in Nat /\ Len(t) \in Nat /\ Len(s \o t) = Len(s) + Len(t)
      /\ \A i \in 1..Len(s) : (s \o t)[i] = s[i]
      /\ \A i \in 1..Len(t) : (s \o t)[Len(s) + i] = t[i]
  BY <1>1, JoinFacts, ElementFacts
<1>3. \A i \in 1..Len(t) : t[i].what # "headers"
  BY ElementFacts
<1>4. h \in 1..Len(s) /\ \A i \in 1..Len(s) : (s[i].what = "headers" <=> i = h)
  BY DEF Headed
<1> HIDE DEF h
<1>5. h \in 1..Len(s \o t)
  BY <1>2, <1>4
<1>6. ASSUME NEW i \in 1..Len(s \o t)
      PROVE  (s \o t)[i].what = "headers" <=> i = h
  <2>1. CASE i \in 1..Len(s)
    BY <1>2, <1>4, <2>1
  <2>2. CASE i \notin 1..Len(s)
    <3>1. i - Len(s) \in 1..Len(t) /\ i = Len(s) + (i - Len(s)) /\ i # h
      BY <1>2, <1>4, <2>2
    <3>2. (s \o t)[i] = t[i - Len(s)]
      BY <1>2, <3>1
    <3> QED BY <1>3, <3>1, <3>2
  <2> QED BY <2>1, <2>2
<1> QED BY <1>5, <1>6 DEF Headed, h

LEMMA HeaderLineHeaded ==
  ASSUME TypeOK, CacheTrue, n > 0
  PROVE  HeaderLine \in Seq(Tokens) /\ Headed(HeaderLine)
<1> DEFINE t == Token("headers", 0, mappingNow)
           a == RowStart \o <<t>>
           m == Mark("newline")
<1>1. t \in Tokens /\ t.what = "headers"
  BY CacheFacts DEF Token, Tokens
<1>2. /\ m \in Seq(PlainTokens) /\ RowStart \in Seq(PlainTokens)
      /\ PlainTokens \subseteq Tokens /\ \A x \in PlainTokens : x.what # "headers"
  BY PlainFacts DEF PlainTokens
<1> HIDE DEF t, m
<1>3. RowStart \in Seq(Tokens) /\ <<t>> \in Seq(Tokens) /\ Len(<<t>>) = 1 /\ <<t>>[1] = t
  BY <1>1, <1>2, WiderFacts
<1>4. /\ a \in Seq(Tokens) /\ Len(a) = Len(RowStart) + 1 /\ Len(RowStart) \in Nat
      /\ \A i \in 1..Len(RowStart) : a[i] = RowStart[i]
      /\ a[Len(RowStart) + 1] = t
  BY <1>3, JoinFacts, ElementFacts
<1>5. \A i \in 1..Len(RowStart) : RowStart[i].what # "headers"
  BY <1>2, ElementFacts
<1> HIDE DEF a
<1>6. Headed(a)
  <2>1. ASSUME NEW i \in 1..Len(a)
        PROVE  a[i].what = "headers" <=> i = Len(RowStart) + 1
    <3>1. i \in 1..Len(RowStart) \/ i = Len(RowStart) + 1
      BY <1>4
    <3>2. Len(RowStart) + 1 \notin 1..Len(RowStart)
      BY <1>4
    <3> QED BY <1>1, <1>4, <1>5, <3>1, <3>2
  <2> QED BY <1>4, <2>1 DEF Headed
<1>7. Headed(a \o m) /\ a \o m \in Seq(Tokens)
  BY <1>2, <1>4, <1>6, HeadedJoin, JoinFacts, WiderFacts
<1> QED BY <1>7 DEF HeaderLine, a, m, t

\* The tokens of the current row, and of its header row, are good in its file.
LEMMA RowIsGood ==
  ASSUME TypeOK, CacheTrue, n > 0, line.read > 0
  PROVE  /\ RowSet \subseteq Good(formNow) /\ PlainTokens \subseteq Good(formNow)
         /\ HeaderLine \in Seq(Good(formNow))
<1>1. /\ n \in 1..n /\ line = seen[n] /\ line.form \in Begins[formNow]
      /\ (Mapped(formNow) => mappingNow = formNow)
  BY LineFacts, CacheFacts, FileFacts DEF line
<1>2. RowSet \subseteq Good(formNow)
  BY <1>1 DEF RowSet, Good
<1>3. \A f : PlainTokens \subseteq Good(f)
  BY DEF PlainTokens, Good
<1>4. Token("headers", 0, mappingNow) \in Good(formNow)
  BY <1>1, CacheFacts DEF Token, Tokens, Good
<1>5. /\ RowStart \in Seq(Good(formNow)) /\ Mark("newline") \in Seq(Good(formNow))
      /\ <<Token("headers", 0, mappingNow)>> \in Seq(Good(formNow))
  BY <1>3, <1>4, PlainFacts, WiderFacts
<1> HIDE DEF Token
<1> QED BY <1>2, <1>3, <1>5, JoinFacts DEF HeaderLine

\* What is good stays good while lines are grabbed and the version is the same.
LEMMA GoodGrows ==
  ASSUME TypeOK, version' = version, NEW f \in Forms,
         GrabNothing \/ (\E l \in AllLines : Grab(l)) \/ UNCHANGED inputVars
  PROVE  Good(f) \subseteq Good(f)'
<1>1. n \in Nat /\ n' \in Nat /\ n' \in {n, n + 1} /\ \A i \in 1..n : seen'[i] = seen[i]
  BY InputFacts, GrabFacts, GrabNothingFacts DEF inputVars
<1>2. Mapped(f)' <=> Mapped(f)
  BY DEF Mapped
<1>3. 1..n \subseteq 1..n'
  BY <1>1
<1> QED BY <1>1, <1>2, <1>3 DEF Good

-----------------------------------------------------------------------------
\* parseHeader writes to the header's file only.
LEMMA EarlyOut ==
  ASSUME InvA, EarlyStep
  PROVE  /\ \A f \in Forms : out'.files[f] = out.files[f]
         /\ out.opened \subseteq {Header} /\ out'.opened \subseteq {Header}
<1>1. out.opened \subseteq {Header} /\ out \in Outputs
  BY EarlyCases DEF InvA, Phases, TypeOK
<1>2. \A f \in Forms : f \in Names /\ f # Header
  BY NamesFacts
<1>3. CASE out' = out
  BY <1>1, <1>3
<1>4. CASE HeaderRow
  <2>1. n = 1 /\ Header \in {None, Header} /\ TRUE \in BOOLEAN /\ n > 0
    BY <1>4 DEF InvA, HeaderRow, Phases
  <2>2. CASE ParseUnmapped
    BY <1>1, <2>2 DEF ParseUnmapped
  <2>3. CASE ParseTwo(Header) \/ ParseFull(Header, TRUE)
    <3>1. line.read > 0
      BY <2>1, <2>3, LineFacts DEF InvA, ParseTwo, ParseFull
    <3>2. File(Header) = Header
      BY <2>1, <3>1, FileFacts DEF InvA
    <3>3. Row(Header, RowTokens) \/ Row(Header, RowTokens \o Mark("newline"))
      BY <2>1, <2>3, <3>2, RowWritten DEF InvA
    <3> QED BY <1>1, <1>2, <3>3 DEF Row, Wrote
  <2> QED BY <1>4, <2>2, <2>3 DEF HeaderRow
<1>5. CASE LegacyHeader
  <2>1. RowStart \in Seq(Tokens)
    BY PlainFacts, WiderFacts
  <2>2. /\ Write(out, Header, RowStart).opened = out.opened \cup {Header}
        /\ \A g \in Names : (g # Header => Write(out, Header, RowStart).files[g] = out.files[g])
    BY <1>1, <2>1, WriteFacts, NamesFacts
  <2> QED BY <1>1, <1>2, <1>5, <2>2 DEF LegacyHeader
<1>6. CASE LegacyKey
  <2> DEFINE k == <<Token("key", n + 1, None)>>
  <2>1. k \in Seq(Tokens)
    <3>1. Token("key", n + 1, None) \in Tokens
      BY LineFacts DEF InvA, Token, Tokens
    <3> QED BY <3>1
  <2>2. out' = Write(out, Header, k)
    BY <1>6 DEF LegacyKey
  <2> HIDE DEF k
  <2>3. /\ Write(out, Header, k).opened = out.opened \cup {Header}
        /\ \A g \in Names : (g # Header => Write(out, Header, k).files[g] = out.files[g])
    BY <1>1, <2>1, WriteFacts, NamesFacts
  <2> QED BY <1>1, <1>2, <2>2, <2>3
<1>7. CASE LegacyEnd
  <2> DEFINE z == <<>>
             o == WriteLine(out, Header, z)
             k == RowStart \o keys
  <2>1. z \in Seq(Tokens) /\ k \in Seq(Tokens)
    BY PlainFacts, WiderFacts, JoinFacts DEF InvA, TypeOK
  <2>2. out' = WriteLine(o, Header, k)
    BY <1>7 DEF LegacyEnd
  <2> HIDE DEF z, k
  <2>3. /\ o \in Outputs /\ o.opened = out.opened \cup {Header}
        /\ \A g \in Names : (g # Header => o.files[g] = out.files[g])
    BY <1>1, <2>1, HeaderLineFacts, Zenon
  <2> HIDE DEF o
  <2>4. /\ WriteLine(o, Header, k).opened = o.opened \cup {Header}
        /\ \A g \in Names : (g # Header => WriteLine(o, Header, k).files[g] = o.files[g])
    BY <2>1, <2>3, HeaderLineFacts, Zenon
  <2> QED BY <1>1, <1>2, <2>2, <2>3, <2>4
<1> QED BY <1>3, <1>4, <1>5, <1>6, <1>7 DEF EarlyStep, GrabFirst, HeaderVersion, LegacyCounts

LEMMA FormFilesEarly == ASSUME InvA, FormFiles, EarlyStep PROVE FormFiles'
<1>1. pc' # "f99"
  BY EarlyCases DEF Early
<1>2. ASSUME NEW f \in Forms
      PROVE  f \notin out'.opened /\ out'.files[f] = <<>>
  BY EarlyOut, NamesFacts DEF FormFiles
<1>3. \A f \in Forms : <<>> \in Seq(Good(f)')
  OBVIOUS
<1> QED BY <1>1, <1>2, <1>3 DEF FormFiles

LEMMA FormFilesGrabLine == ASSUME InvA, FormFiles, GrabLine PROVE FormFiles'
<1>1. /\ out' = out /\ pc' # "f99" /\ version' = version
      /\ GrabNothing \/ (\E l \in AllLines : Grab(l))
  BY DEF GrabLine, AtEndOfInput, AllLines, cacheVars
<1>2. \A f \in Forms : Good(f) \subseteq Good(f)'
  BY <1>1, GoodGrows DEF InvA
<1>3. ASSUME NEW f \in Forms
      PROVE  out'.files[f] \in Seq(Good(f)')
  BY <1>1, <1>2, WiderFacts DEF FormFiles
<1> QED BY <1>1, <1>3 DEF FormFiles, Headed, RowStart

\* A row written to the file of its form type.
LEMMA FormFilesRow ==
  ASSUME InvA, FormFiles, n > 0, line.read > 0, NEW ts, Row(formNow, ts),
         UNCHANGED <<seen, version>>, (pc' = "f99" => rowFile' = formNow)
  PROVE  FormFiles'
<1> DEFINE f == formNow
           fs == out.files[f]
           h == HeadOf(f)
<1>1. /\ f \in Forms /\ f \in Names /\ out \in Outputs /\ n > 0 /\ line.read >= 1
      /\ TypeOK /\ CacheTrue
  BY FileFacts, LineFacts DEF InvA, TypeOK
<1>2. /\ out'.files[f] = (fs \o h) \o ts
      /\ (\A g \in Names : (g # f => out'.files[g] = out.files[g]))
      /\ out'.opened = out.opened \cup {f}
      /\ ts \in {RowTokens, RowTokens \o Mark("newline")}
  BY DEF Row, Wrote
<1>3. \A g \in Forms : Good(g)' = Good(g)
  BY DEF Good, Mapped, n
<1>4. ts \in Seq(RowSet) /\ RowSet \subseteq Tokens /\ \A x \in RowSet : x.what # "headers"
  <2>1. RowTokens \in Seq(RowSet) /\ PlainTokens \subseteq RowSet /\ RowSet \subseteq Tokens
    BY <1>1, RowFacts
  <2>2. Mark("newline") \in Seq(RowSet)
    BY <2>1, PlainFacts, WiderFacts
  <2>3. RowTokens \o Mark("newline") \in Seq(RowSet)
    BY <2>1, <2>2, JoinFacts
  <2> QED BY <1>2, <2>1, <2>3 DEF RowSet
<1>5. /\ RowSet \subseteq Good(f) /\ HeaderLine \in Seq(Good(f))
      /\ HeaderLine \in Seq(Tokens) /\ Headed(HeaderLine)
  BY <1>1, RowIsGood, HeaderLineHeaded
<1>6. fs \in Seq(Good(f)) /\ fs \in Seq(Tokens)
  BY <1>1, FieldFacts DEF FormFiles
<1>7. fs \o h \in Seq(Good(f)) /\ fs \o h \in Seq(Tokens) /\ Headed(fs \o h)
  <2>1. CASE IsNew(f)
    <3>1. fs = <<>> /\ h = HeaderLine
      BY <1>1, <2>1 DEF IsNew, FormFiles, HeadOf
    <3>2. fs \o h = HeaderLine
      BY <1>5, <3>1
    <3> QED BY <1>5, <3>2
  <2>2. CASE ~IsNew(f)
    <3>1. Headed(fs) /\ h = <<>>
      BY <1>1, <2>2 DEF IsNew, FormFiles, HeadOf
    <3>2. fs \o h = fs
      BY <1>6, <3>1
    <3> QED BY <1>6, <3>1, <3>2
  <2> QED BY <2>1, <2>2
<1> HIDE DEF f, fs, h
<1>8. (fs \o h) \o ts \in Seq(Good(f))
  <2>1. ts \in Seq(Good(f))
    BY <1>4, <1>5, WiderFacts
  <2> QED BY <1>7, <2>1, JoinFacts
<1>9. Headed((fs \o h) \o ts)
  BY <1>4, <1>7, HeadedJoin
<1>10. \A g \in Forms : g \in Names
  BY NamesFacts
<1>11. \A g \in Forms : out'.files[g] \in Seq(Good(g))
  BY <1>2, <1>8, <1>10 DEF FormFiles
<1>12. \A g \in Forms : (g \notin out'.opened => out'.files[g] = <<>>)
  BY <1>2, <1>10 DEF FormFiles
<1>13. \A g \in Forms : (g \in out'.opened => Headed(out'.files[g]))
  BY <1>2, <1>9, <1>10 DEF FormFiles
<1>14. pc' = "f99" => rowFile' \in out'.opened
  BY <1>2 DEF f
<1> QED BY <1>3, <1>11, <1>12, <1>13, <1>14 DEF FormFiles, Headed, RowStart

LEMMA FormFilesParseLine == ASSUME InvA, FormFiles, ParseLine PROVE FormFiles'
<1>1. n > 0 /\ seen' = seen /\ version' = version /\ n' = n
  BY ParseLineCases DEF ParseLine
<1>2. line.read >= 2 => line.read > 0 /\ File(None) = formNow
  BY <1>1, LineFacts, FileFacts DEF InvA
<1>3. CASE out' = out /\ pc' \in {"loop", "crashed"}
  <2>1. \A g \in Forms : Good(g)' = Good(g)
    BY <1>1 DEF Good, Mapped
  <2> QED BY <1>3, <2>1 DEF FormFiles, Headed, RowStart
<1>4. CASE /\ line.read >= 2 /\ (pc' = "f99" => rowFile' = File(None))
           /\ Row(File(None), RowTokens) \/ Row(File(None), RowTokens \o Mark("newline"))
  BY <1>1, <1>2, <1>4, FormFilesRow
<1>5. line.read = 2 => line.read >= 2
  OBVIOUS
<1>6. \/ out' = out /\ pc' \in {"loop", "crashed"}
      \/ /\ line.read >= 2 /\ (pc' = "f99" => rowFile' = File(None))
         /\ Row(File(None), RowTokens) \/ Row(File(None), RowTokens \o Mark("newline"))
  BY <1>5, ParseLineCases
<1> QED BY <1>3, <1>4, <1>6

LEMMA FormFilesF99 == ASSUME InvA, FormFiles, F99Step PROVE FormFiles'
<1>1. /\ pc = "f99" /\ rowFile \in out.opened /\ UNCHANGED <<cacheVars, rowFile>>
      /\ GrabNothing \/ (\E l \in AllLines : Grab(l))
  BY F99Cases DEF FormFiles
<1>2. \A g \in Forms : Good(g) \subseteq Good(g)'
  BY <1>1, GoodGrows DEF InvA, cacheVars
<1>3. CASE out' = out
  <2>1. ASSUME NEW g \in Forms
        PROVE  out'.files[g] \in Seq(Good(g)')
    BY <1>2, <1>3, WiderFacts DEF FormFiles
  <2> QED BY <1>1, <1>3, <2>1 DEF FormFiles, Headed, RowStart
<1>4. CASE \E ts \in Seq(PlainTokens) : F99Written(ts)
  <2>1. PICK ts \in Seq(PlainTokens) : F99Written(ts)
    BY <1>4
  <2> DEFINE f == rowFile
             fs == out.files[f]
  <2>2. /\ f \in Forms /\ f \in Names /\ out'.files[f] = fs \o ts
        /\ (\A g \in Names : (g # f => out'.files[g] = out.files[g]))
        /\ out'.opened = out.opened
    BY <1>1, <2>1 DEF F99Written
  <2>3. /\ PlainTokens \subseteq Good(f) /\ PlainTokens \subseteq Tokens
        /\ \A x \in PlainTokens : x.what # "headers"
    BY DEF PlainTokens, Good
  <2>4. fs \in Seq(Good(f)) /\ fs \in Seq(Tokens) /\ Headed(fs)
    BY <1>1, <2>2, FieldFacts DEF InvA, TypeOK, FormFiles
  <2>5. \A g \in Forms : g \in Names
    BY NamesFacts
  <2> HIDE DEF fs, f
  <2>6. fs \o ts \in Seq(Good(f))
    BY <2>3, <2>4, WiderFacts, JoinFacts
  <2>7. Headed(fs \o ts)
    BY <2>3, <2>4, HeadedJoin
  <2>8. \A g \in Forms : out'.files[g] \in Seq(Good(g))
    BY <2>2, <2>5, <2>6 DEF FormFiles
  <2>9. ASSUME NEW g \in Forms
        PROVE  out'.files[g] \in Seq(Good(g)')
    BY <1>2, <2>8, WiderFacts
  <2>10. \A g \in Forms : (g \notin out'.opened => out'.files[g] = <<>>)
    BY <1>1, <2>2, <2>5 DEF FormFiles, f
  <2>11. \A g \in Forms : (g \in out'.opened => Headed(out'.files[g]))
    BY <2>2, <2>5, <2>7 DEF FormFiles
  <2>12. rowFile' \in out'.opened
    BY <1>1, <2>2
  <2> QED BY <2>9, <2>10, <2>11, <2>12 DEF FormFiles, Headed, RowStart
<1>5. CASE \E ts \in Seq(PlainTokens) : F99Written(ts \o Mark("newline"))
  <2>1. PICK ts \in Seq(PlainTokens) : F99Written(ts \o Mark("newline"))
    BY <1>5
  <2>2. ts \o Mark("newline") \in Seq(PlainTokens)
    BY <2>1, PlainFacts, JoinFacts
  <2> QED BY <1>4, <2>1, <2>2
<1> QED BY <1>3, <1>4, <1>5, F99Cases
LEMMA FormFilesInit == Init => FormFiles
<1> SUFFICES ASSUME Init PROVE FormFiles
  OBVIOUS
<1>1. out = Empty /\ pc = "start"
  BY DEF Init
<1>2. \A f \in Forms : out.files[f] = <<>> /\ f \notin out.opened
  BY <1>1, EmptyFacts, NamesFacts
<1>3. \A f \in Forms : <<>> \in Seq(Good(f))
  OBVIOUS
<1> QED BY <1>1, <1>2, <1>3 DEF FormFiles

LEMMA FormFilesStep == ASSUME InvA, FormFiles, [Next]_vars PROVE FormFiles'
<1>1. CASE UNCHANGED vars
  <2>1. \A g \in Forms : Good(g)' = Good(g)
    BY <1>1 DEF Good, Mapped, n, vars
  <2> QED BY <1>1, <2>1 DEF FormFiles, Headed, RowStart, vars
<1> QED BY <1>1, NextCases, FormFilesEarly, FormFilesGrabLine, FormFilesParseLine,
           FormFilesF99

LEMMA FormFilesMatch == InvA /\ FormFiles => RowsMatchHeader /\ RowsKeepPrefix
<1> SUFFICES ASSUME InvA, FormFiles PROVE RowsMatchHeader /\ RowsKeepPrefix
  OBVIOUS
<1>1. ASSUME NEW f \in Forms
      PROVE  /\ out.files[f] \in Seq(Good(f))
             /\ DOMAIN out.files[f] = 1..Len(out.files[f])
             /\ \A i \in DOMAIN out.files[f] : out.files[f][i] \in Good(f)
  <2>1. out.files[f] \in Seq(Good(f))
    BY DEF FormFiles
  <2> QED BY <2>1, ElementFacts
<1>2. RowsMatchHeader
  <2> SUFFICES ASSUME NEW f \in Forms \cap out.opened
               PROVE  /\ About(f, "headers") = {Len(RowStart) + 1}
                      /\ Mapped(f) => \A i \in DOMAIN out.files[f] :
                           out.files[f][i].what \in {"headers", "form", "cell"} =>
                             out.files[f][i].as = f
    BY DEF RowsMatchHeader
  <2>1. Headed(out.files[f])
    BY DEF FormFiles
  <2>2. About(f, "headers") = {Len(RowStart) + 1}
    BY <1>1, <2>1 DEF About, Headed
  <2> QED BY <1>1, <2>2 DEF Good
<1>3. RowsKeepPrefix
  BY <1>1 DEF RowsKeepPrefix, About, Good
<1> QED BY <1>2, <1>3

\* In every filing the file of a form type begins with one header row
\* (fec.c:563-571), and in that of a mapped type the header, the rows and the
\* types they are formatted with belong to the type.
THEOREM RowsAlwaysMatchHeader == Spec => []RowsMatchHeader
<1>1. Spec => [](InvA /\ FormFiles)
  BY InvAInit, InvAStep, FormFilesInit, FormFilesStep, PTL DEF Spec
<1> QED BY <1>1, FormFilesMatch, PTL

\* In every filing a row goes to the file of its own form type, or of one that
\* begins with it (fec.c:94-110).
THEOREM RowsAlwaysKeepPrefix == Spec => []RowsKeepPrefix
<1>1. Spec => [](InvA /\ FormFiles)
  BY InvAInit, InvAStep, FormFilesInit, FormFilesStep, PTL DEF Spec
<1> QED BY <1>1, FormFilesMatch, PTL

-----------------------------------------------------------------------------
(* When no line has exactly two fields, rows are whole.                      *)

LastEnded(s) == s[Len(s)].what = "newline"

\* The files are ended but that of the row parseF99Text is to end.
Whole ==
  /\ NoTwoFieldLine
  => /\ (pc \in {"loop", "parse", "done"} =>
           out.buffer = <<>> /\ \A f \in out.opened : LastEnded(out.files[f]))
     /\ (pc = "f99" => \A f \in out.opened : (f # rowFile => LastEnded(out.files[f])))

LEMMA LastOfJoin ==
  ASSUME NEW S, NEW s \in Seq(S), NEW t \in Seq(S), Len(t) > 0
  PROVE  /\ s \o t \in Seq(S) /\ Len(s \o t) > 0
         /\ (s \o t)[Len(s \o t)] = t[Len(t)]
<1>1. Len(s) \in Nat /\ Len(t) \in Nat /\ Len(t) \in 1..Len(t)
  BY ElementFacts
<1>2. s \o t \in Seq(S) /\ Len(s \o t) = Len(s) + Len(t)
  BY JoinFacts
<1>3. \A i \in 1..Len(t) : (s \o t)[Len(s) + i] = t[i]
  BY JoinFacts
<1> QED BY <1>1, <1>2, <1>3

LEMMA EndedJoin ==
  ASSUME NEW s \in Seq(Tokens), NEW t \in Seq(Tokens)
  PROVE  LastEnded(s \o (t \o Mark("newline")))
<1>1. /\ Mark("newline") \in Seq(Tokens) /\ Len(Mark("newline")) > 0
      /\ Mark("newline")[Len(Mark("newline"))].what = "newline"
  BY MarkFacts
<1> DEFINE m == Mark("newline")
<1> HIDE DEF m
<1>2. m \in Seq(Tokens) /\ Len(m) > 0 /\ m[Len(m)].what = "newline"
  BY <1>1 DEF m
<1>3. t \o m \in Seq(Tokens) /\ Len(t \o m) > 0 /\ (t \o m)[Len(t \o m)] = m[Len(m)]
  BY <1>2, LastOfJoin
<1> DEFINE u == t \o m
<1> HIDE DEF u
<1>4. u \in Seq(Tokens) /\ Len(u) > 0 /\ u[Len(u)] = m[Len(m)]
  BY <1>3 DEF u
<1>5. (s \o u)[Len(s \o u)] = u[Len(u)]
  BY <1>4, LastOfJoin
<1> QED BY <1>2, <1>4, <1>5 DEF LastEnded, u, m

\* A line with exactly two fields is not forgotten.
LEMMA NoTwoGrows ==
  ASSUME TypeOK, NoTwoFieldLine',
         GrabNothing \/ (\E l \in AllLines : Grab(l)) \/ UNCHANGED inputVars
  PROVE  NoTwoFieldLine
<1>1. n \in Nat /\ n' \in {n, n + 1} /\ \A i \in 1..n : seen'[i] = seen[i]
  BY InputFacts, GrabFacts, GrabNothingFacts DEF inputVars
<1>2. 1..n \subseteq 1..n'
  BY <1>1
<1> QED BY <1>1, <1>2 DEF NoTwoFieldLine
LEMMA WholeEarly == ASSUME InvA, EarlyStep, NoTwoFieldLine' PROVE Whole'
<1>1. pc' \in Early \cup {"loop", "failed"} /\ out \in Outputs
  BY EarlyCases DEF InvA, TypeOK
<1>2. CASE pc' # "loop"
  BY <1>1, <1>2 DEF Whole, Early
<1>3. CASE pc' = "loop"
  <2>1. CASE HeaderVersion
    <3>1. out' = Empty
      BY <2>1 DEF InvA, Phases, HeaderVersion
    <3> QED BY <1>3, <3>1, EmptyFacts DEF Whole
  <2>2. CASE HeaderRow
    <3>1. n = 1 /\ n' = n /\ seen' = seen /\ out.opened = {} /\ line = seen[n]
      BY <2>2, EmptyFacts DEF InvA, Phases, HeaderRow, n, inputVars, line
    <3>2. ~ParseTwo(Header)
      BY <3>1 DEF NoTwoFieldLine, ParseTwo
    <3>3. ParseFull(Header, TRUE)
      BY <1>3, <2>2, <3>2 DEF HeaderRow
    <3>4. line.read > 0 /\ line.read >= 1
      BY <3>1, <3>3, LineFacts DEF InvA, ParseFull
    <3>5. Row(Header, RowTokens \o Mark("newline")) /\ out'.buffer = <<>>
      <4>1. File(Header) = Header /\ n > 0
        BY <3>1, <3>4, FileFacts DEF InvA
      <4>2. Row(File(Header), RowTokens \o Mark("newline")) /\ out'.buffer = <<>>
        BY <3>3, <4>1, RowWritten DEF InvA
      <4> QED BY <4>1, <4>2
    <3> DEFINE a == out.files[Header] \o HeadOf(Header)
    <3>6. /\ out'.files[Header] = a \o (RowTokens \o Mark("newline"))
          /\ out'.opened = {Header}
      BY <3>1, <3>5 DEF Row, Wrote
    <3>7. a \in Seq(Tokens) /\ RowTokens \in Seq(Tokens)
      <4>1. HeadOf(Header) \in Seq(Tokens)
        BY <3>1, HeaderLineHeaded DEF InvA, HeadOf
      <4>2. out.files[Header] \in Seq(Tokens)
        BY FieldFacts, NamesFacts, <1>1
      <4>3. RowTokens \in Seq(Tokens)
        BY <3>1, <3>4, RowFacts, WiderFacts DEF InvA
      <4> QED BY <4>1, <4>2, <4>3, JoinFacts
    <3> HIDE DEF a
    <3>8. LastEnded(out'.files[Header])
      BY <3>6, <3>7, EndedJoin
    <3> QED BY <1>3, <3>5, <3>6, <3>8 DEF Whole
  <2>3. CASE LegacyEnd
    <3> DEFINE z == <<>>
               o == WriteLine(out, Header, z)
               k == RowStart \o keys
    <3>1. z \in Seq(Tokens) /\ k \in Seq(Tokens)
      BY PlainFacts, WiderFacts, JoinFacts DEF InvA, TypeOK
    <3>2. out' = WriteLine(o, Header, k)
      BY <2>3 DEF LegacyEnd
    <3> HIDE DEF z, k
    <3>3. o \in Outputs
      BY <1>1, <3>1, WriteLineFacts, NamesFacts
    <3> HIDE DEF o
    <3>4. WriteLine(o, Header, k).files[Header] = o.files[Header] \o (k \o Mark("newline"))
      BY <3>1, <3>3, WriteLineFacts, NamesFacts
    <3>5. WriteLine(o, Header, k).buffer = <<>>
      BY <3>1, <3>3, WriteLineFacts, NamesFacts
    <3>6. o.files[Header] \in Seq(Tokens)
      BY <3>3, FieldFacts, NamesFacts
    <3>7. LastEnded(out'.files[Header])
      BY <3>1, <3>2, <3>4, <3>6, EndedJoin
    <3>8. out'.opened \subseteq {Header}
      BY EarlyOut
    <3> QED BY <1>3, <3>2, <3>5, <3>7, <3>8 DEF Whole
  <2>4. ~(GrabFirst \/ LegacyHeader \/ LegacyKey \/ LegacyCounts)
    BY <1>3 DEF GrabFirst, LegacyHeader, LegacyKey, LegacyCounts
  <2> QED BY <2>1, <2>2, <2>3, <2>4 DEF EarlyStep
<1> QED BY <1>2, <1>3

LEMMA WholeParseLine ==
  ASSUME InvA, Whole, NoTwoFieldLine, ParseLine
  PROVE  Whole'
<1>1. n > 0 /\ out \in Outputs /\ n \in 1..n /\ line = seen[n] /\ pc = "parse"
  BY ParseLineCases, LineFacts DEF InvA, TypeOK, ParseLine, line
<1>2. /\ out.buffer = <<>>
      /\ \A f \in out.opened : LastEnded(out.files[f])
  BY <1>1 DEF Whole
<1>3. CASE out' = out /\ pc' \in {"loop", "crashed"}
  BY <1>2, <1>3 DEF Whole
<1>4. ~(line.read = 2 /\ line.last = 1)
  BY <1>1 DEF NoTwoFieldLine
<1>5. ASSUME line.read >= 2
      PROVE  File(None) \in Names /\ out.opened \subseteq Names
  BY <1>1, <1>5, LineFacts, FileFacts, FieldFacts DEF InvA
<1>6. CASE /\ line.read >= 2 /\ pc' = "loop"
           /\ Row(File(None), RowTokens \o Mark("newline")) /\ out'.buffer = <<>>
  <2> DEFINE f == File(None)
             a == out.files[f] \o HeadOf(f)
  <2>1. /\ out'.files[f] = a \o (RowTokens \o Mark("newline"))
        /\ (\A g \in Names : (g # f => out'.files[g] = out.files[g]))
        /\ out'.opened = out.opened \cup {f}
    BY <1>6 DEF Row, Wrote
  <2>2. a \in Seq(Tokens) /\ RowTokens \in Seq(Tokens)
    <3>1. line.read >= 1
      BY <1>1, <1>6, LineFacts DEF InvA
    <3>2. HeadOf(f) \in Seq(Tokens)
      BY <1>1, HeaderLineHeaded DEF InvA, HeadOf
    <3>3. out.files[f] \in Seq(Tokens)
      BY <1>1, <1>5, <1>6, FieldFacts
    <3>4. RowTokens \in Seq(Tokens)
      BY <1>1, <3>1, RowFacts, WiderFacts DEF InvA
    <3> QED BY <3>2, <3>3, <3>4, JoinFacts
  <2>3. f \in Names /\ out.opened \subseteq Names
    BY <1>5, <1>6
  <2> HIDE DEF a, f
  <2>4. LastEnded(out'.files[f])
    BY <2>1, <2>2, EndedJoin
  <2>5. \A g \in out'.opened : LastEnded(out'.files[g])
    BY <1>2, <2>1, <2>3, <2>4
  <2> QED BY <1>6, <2>5 DEF Whole
<1>7. CASE /\ line.read >= 2 /\ pc' = "f99" /\ rowFile' = File(None)
           /\ Row(File(None), RowTokens)
  <2>1. /\ (\A g \in Names : (g # File(None) => out'.files[g] = out.files[g]))
        /\ out'.opened = out.opened \cup {File(None)}
    BY <1>7 DEF Row, Wrote
  <2>2. \A g \in out'.opened : (g # rowFile' => LastEnded(out'.files[g]))
    BY <1>2, <1>5, <1>7, <2>1
  <2> QED BY <1>7, <2>2 DEF Whole
<1> QED BY <1>3, <1>4, <1>6, <1>7, ParseLineCases

LEMMA WholeF99 == ASSUME InvA, Whole, NoTwoFieldLine, F99Step PROVE Whole'
<1>1. pc = "f99" /\ rowFile' = rowFile /\ out \in Outputs
  BY F99Cases DEF InvA, TypeOK
<1>2. \A f \in out.opened : (f # rowFile => LastEnded(out.files[f]))
  BY <1>1 DEF Whole
<1>3. out.opened \subseteq Names
  BY <1>1, FieldFacts
<1>4. CASE pc' = "f99" /\ out' = out
  BY <1>1, <1>2, <1>4 DEF Whole
<1>5. CASE pc' = "f99" /\ \E ts \in Seq(PlainTokens) : F99Written(ts)
  <2>1. PICK ts \in Seq(PlainTokens) : F99Written(ts)
    BY <1>5
  <2>2. \A f \in out'.opened : (f # rowFile' => LastEnded(out'.files[f]))
    BY <1>1, <1>2, <1>3, <2>1 DEF F99Written
  <2> QED BY <1>5, <2>2 DEF Whole
<1>6. CASE /\ pc' # "f99" /\ out'.buffer = <<>>
           /\ \E ts \in Seq(PlainTokens) : F99Written(ts \o Mark("newline"))
  <2>1. PICK ts \in Seq(PlainTokens) : F99Written(ts \o Mark("newline"))
    BY <1>6
  <2>2. /\ out'.files[rowFile] = out.files[rowFile] \o (ts \o Mark("newline"))
        /\ \A g \in Names : (g # rowFile => out'.files[g] = out.files[g])
        /\ out'.opened = out.opened \cup {rowFile} /\ rowFile \in Names
    BY <2>1 DEF F99Written
  <2>3. out.files[rowFile] \in Seq(Tokens) /\ ts \in Seq(Tokens)
    BY <1>1, <2>2, FieldFacts, PlainFacts, WiderFacts
  <2>4. LastEnded(out'.files[rowFile])
    BY <2>2, <2>3, EndedJoin
  <2>5. \A f \in out'.opened : LastEnded(out'.files[f])
    BY <1>2, <1>3, <2>2, <2>4
  <2> QED BY <1>6, <2>5 DEF Whole
<1> QED BY <1>4, <1>5, <1>6, F99Cases

LEMMA WholeStep == ASSUME InvA, Whole, [Next]_vars PROVE Whole'
<1> SUFFICES ASSUME NoTwoFieldLine' PROVE Whole'
  BY DEF Whole
<1>1. CASE EarlyStep
  BY <1>1, WholeEarly
<1>2. CASE GrabLine
  <2>1. /\ pc = "loop" /\ pc' \in {"parse", "done"} /\ out' = out
        /\ GrabNothing \/ (\E l \in AllLines : Grab(l))
    BY <1>2 DEF GrabLine, AtEndOfInput, AllLines
  <2>2. NoTwoFieldLine
    BY <2>1, NoTwoGrows DEF InvA
  <2> QED BY <2>1, <2>2 DEF Whole
<1>3. CASE ParseLine
  <2>1. NoTwoFieldLine
    BY <1>3, NoTwoGrows DEF InvA, ParseLine
  <2> QED BY <1>3, <2>1, WholeParseLine
<1>4. CASE F99Step
  <2>1. NoTwoFieldLine
    BY <1>4, F99Cases, NoTwoGrows DEF InvA
  <2> QED BY <1>4, <2>1, WholeF99
<1>5. CASE UNCHANGED vars
  BY <1>5 DEF Whole, NoTwoFieldLine, n, vars
<1> QED BY <1>1, <1>2, <1>3, <1>4, <1>5, NextCases

\* In every filing none of whose lines has exactly two fields, a row begun is a
\* row ended before the next line is parsed (fec.c:642-659).
THEOREM RowsAlwaysWhole == Spec => []RowsWhole
<1>1. Init => Whole
  BY DEF Init, Whole
<1>2. Spec => [](InvA /\ Whole)
  BY <1>1, InvAInit, InvAStep, WholeStep, PTL DEF Spec
<1>3. Whole => RowsWhole
  BY DEF Whole, RowsWhole, AllEnded, LastEnded
<1> QED BY <1>2, <1>3, PTL

-----------------------------------------------------------------------------
(* FlattenSeq, which is defined by recursion: by induction, in the form of the *)
(* first-order theorems on well-founded relations, its recursion has a         *)
(* solution, and two sequences that begin alike have solutions that do.        *)

LEMMA SetInduction ==
  ASSUME NEW S, 0 \in S, \A k \in Nat : k \in S => k + 1 \in S
  PROVE  Nat \subseteq S
<1> SUFFICES ASSUME Nat \ S # {} PROVE FALSE
  OBVIOUS
<1> DEFINE R == OpToRel(<, Nat)
<1>1. PICK m \in Nat \ S : \A k \in Nat \ S : ~(<<k, m>> \in R)
  <2>1. IsWellFoundedOn(R, Nat)
    BY NatLessThanWellFounded
  <2> HIDE DEF R
  <2> QED
    BY <2>1, WFMin
<1>2. m # 0 /\ m - 1 \in Nat
  OBVIOUS
<1>3. m - 1 \in S
  <2>1. <<m - 1, m>> \in R
    BY <1>2 DEF OpToRel
  <2> QED
    BY <1>1, <1>2, <2>1
<1> QED
  BY <1>2, <1>3

\* all[k] is the concatenation of the first k elements of t.
Partial(t, m, all) == all = [k \in 1..m |-> IF k = 1 THEN t[k] ELSE all[k-1] \o t[k]]

LEMMA PartialMore ==
  ASSUME NEW t, NEW m \in Nat, NEW all, Partial(t, m, all)
  PROVE  \E more : Partial(t, m + 1, more)
<1> DEFINE x == IF m = 0 THEN t[1] ELSE all[m] \o t[m + 1]
           more == [k \in 1..(m + 1) |-> IF k = m + 1 THEN x ELSE all[k]]
           next == [k \in 1..(m + 1) |-> IF k = 1 THEN t[k] ELSE more[k-1] \o t[k]]
<1>1. ASSUME NEW k \in 1..(m + 1) PROVE more[k] = next[k]
  <2>1. CASE k = m + 1 /\ m = 0
    BY <2>1
  <2>2. CASE k = m + 1 /\ m # 0
    <3>1. m \in 1..(m + 1) /\ m + 1 \in 1..(m + 1) /\ m # m + 1
      BY <2>2
    <3>2. more[m] = all[m] /\ more[m + 1] = x
      <4> HIDE DEF x
      <4> QED
        BY <3>1
    <3>3. x = all[m] \o t[m + 1]
      BY <2>2
    <3>4. m + 1 # 1 /\ (m + 1) - 1 = m /\ m + 1 \in 1..(m + 1)
      BY <2>2
    <3> HIDE DEF more, x
    <3>5. next[m + 1] = more[m] \o t[m + 1]
      BY <3>4
    <3> QED
      BY <2>2, <3>2, <3>3, <3>5
  <2>3. CASE k \in 1..m
    <3>1. more[k] = all[k] /\ (k # 1 => more[k-1] = all[k-1])
      BY <2>3
    <3>2. all[k] = IF k = 1 THEN t[k] ELSE all[k-1] \o t[k]
      BY <2>3 DEF Partial
    <3> QED
      BY <2>3, <3>1, <3>2
  <2> QED
    BY <2>1, <2>2, <2>3
<1>2. more = next
  BY <1>1
<1>3. Partial(t, m + 1, more)
  <2> HIDE DEF more
  <2> QED
    BY <1>2 DEF Partial
<1> QED
  BY <1>3

LEMMA PartialExists == ASSUME NEW t, NEW m \in Nat PROVE \E all : Partial(t, m, all)
<1> DEFINE D == {k \in Nat : \E all : Partial(t, k, all)}
<1>1. 0 \in D
  <2>1. Partial(t, 0, [k \in 1..0 |-> 0])
    BY DEF Partial
  <2> QED
    BY <2>1
<1>2. ASSUME NEW k \in Nat, k \in D PROVE k + 1 \in D
  BY <1>2, PartialMore
<1> HIDE DEF D
<1>3. Nat \subseteq D
  BY <1>1, <1>2, SetInduction
<1> QED
  BY <1>3 DEF D

LEMMA PartialFirst ==
  ASSUME NEW t, NEW m \in Nat, m # 0, NEW all, Partial(t, m, all)
  PROVE  all[1] = t[1]
<1> DEFINE h == [k \in 1..m |-> IF k = 1 THEN t[k] ELSE all[k-1] \o t[k]]
<1>1. all = h
  BY DEF Partial
<1>2. h[1] = t[1]
  OBVIOUS
<1> HIDE DEF h
<1> QED
  BY <1>1, <1>2

LEMMA PartialNext ==
  ASSUME NEW t, NEW m \in Nat, NEW all, Partial(t, m, all)
  PROVE  \A j \in 2..m : all[j] = all[j - 1] \o t[j]
<1> DEFINE h == [k \in 1..m |-> IF k = 1 THEN t[k] ELSE all[k-1] \o t[k]]
<1>1. all = h
  BY DEF Partial
<1>2. ASSUME NEW j \in 2..m PROVE h[j] = all[j - 1] \o t[j]
  <2>1. j \in 1..m /\ j # 1
    OBVIOUS
  <2> QED
    BY <2>1
<1> HIDE DEF h
<1> QED
  BY <1>1, <1>2

LEMMA PartialSame ==
  ASSUME NEW t, NEW u, NEW m \in Nat, NEW p \in Nat, NEW f, NEW g,
         Partial(t, m, f), Partial(u, p, g),
         NEW k \in Nat, k <= m, k <= p, \A e \in 1..k : t[e] = u[e]
  PROVE  \A e \in 1..k : f[e] = g[e]
<1> DEFINE D == {j \in Nat : j \in 1..k => f[j] = g[j]}
<1>1. 0 \in D
  OBVIOUS
<1>2. ASSUME NEW j \in Nat, j \in D PROVE j + 1 \in D
  <2>1. PICK q \in Nat : q = j + 1
    OBVIOUS
  <2>2. CASE q \in 1..k /\ j # 0
    <3>1. q \in 2..m /\ q \in 2..p /\ j = q - 1
      BY <2>1, <2>2
    <3>2. f[q] = f[j] \o t[q]
      <4>1. \A e \in 2..m : f[e] = f[e - 1] \o t[e]
        BY PartialNext
      <4> QED
        BY <3>1, <4>1
    <3>3. g[q] = g[j] \o u[q]
      <4>1. \A e \in 2..p : g[e] = g[e - 1] \o u[e]
        BY PartialNext
      <4> QED
        BY <3>1, <4>1
    <3>4. f[j] = g[j] /\ t[q] = u[q]
      BY <1>2, <2>1, <2>2
    <3> QED
      BY <2>1, <3>2, <3>3, <3>4
  <2>3. CASE q \in 1..k /\ j = 0
    <3>1. m # 0 /\ p # 0 /\ 1 \in 1..k
      BY <2>1, <2>3
    <3>2. f[1] = t[1]
      BY <3>1, PartialFirst
    <3>3. g[1] = u[1]
      BY <3>1, PartialFirst
    <3> QED
      BY <2>1, <2>3, <3>1, <3>2, <3>3
  <2> QED
    BY <2>1, <2>2, <2>3
<1> HIDE DEF D
<1>3. Nat \subseteq D
  BY <1>1, <1>2, SetInduction
<1> QED
  BY <1>3 DEF D

\* FlattenSeq(t) is the last of the concatenations.
LEMMA FlattenIs ==
  ASSUME NEW t, NEW m \in Nat, m = Len(t), m # 0
  PROVE  \E all : Partial(t, m, all) /\ FlattenSeq(t) = all[m]
<1> DEFINE flatten[k \in 1..Len(t)] == IF k = 1 THEN t[k] ELSE flatten[k-1] \o t[k]
<1>1. \E all : all = [k \in 1..Len(t) |-> IF k = 1 THEN t[k] ELSE all[k-1] \o t[k]]
  BY PartialExists DEF Partial
<1>2. flatten = [k \in 1..Len(t) |-> IF k = 1 THEN t[k] ELSE flatten[k-1] \o t[k]]
  BY <1>1, Zenon
<1>3. FlattenSeq(t) = flatten[Len(t)]
  <2>1. Len(t) # 0
    OBVIOUS
  <2> QED
    BY <2>1, Zenon DEF FlattenSeq
<1> HIDE DEF flatten
<1>4. Partial(t, Len(t), flatten)
  BY <1>2, Zenon DEF Partial
<1> QED
  BY <1>3, <1>4

Alike(t, u, m) == \A e \in 1..m : t[e] = u[e]

LEMMA PartialLast ==
  ASSUME NEW t, NEW u, NEW m \in Nat, NEW k \in Nat, m <= k, NEW f, NEW g,
         Partial(t, m, f), Partial(u, k, g), Alike(t, u, m)
  PROVE  Alike(f, g, m)
<1>1. m <= m
  OBVIOUS
<1> QED
  BY <1>1, PartialSame DEF Alike

LEMMA FlattenMore ==
  ASSUME NEW t, NEW u, NEW m \in Nat, NEW k \in Nat, Len(t) = m, Len(u) = k, k = m + 1,
         \A e \in 1..m : t[e] = u[e]
  PROVE  FlattenSeq(u) = IF m = 0 THEN u[k] ELSE FlattenSeq(t) \o u[k]
<1>1. PICK g : Partial(u, k, g) /\ FlattenSeq(u) = g[k]
  BY FlattenIs
<1>2. CASE m = 0
  <2>1. g[1] = u[1]
    BY <1>1, <1>2, PartialFirst
  <2> QED
    BY <1>1, <1>2, <2>1
<1>3. CASE m # 0
  <2>1. PICK f : Partial(t, m, f) /\ FlattenSeq(t) = f[m]
    BY <1>3, FlattenIs
  <2>2. m <= k /\ m <= m /\ m \in 1..m /\ k \in 2..k /\ m = k - 1
    BY <1>3
  <2>3. \A e \in 1..m : f[e] = g[e]
    <3>1. Partial(t, m, f) /\ Partial(u, k, g) /\ m <= k /\ Alike(t, u, m)
      BY <1>1, <2>1, <2>2 DEF Alike
    <3>2. Alike(f, g, m)
      BY <3>1, PartialLast
    <3> QED
      BY <3>2 DEF Alike
  <2>4. \A e \in 2..k : g[e] = g[e - 1] \o u[e]
    BY <1>1, PartialNext
  <2>5. g[k] = g[m] \o u[k]
    BY <2>2, <2>4
  <2> QED
    BY <1>1, <1>3, <2>1, <2>2, <2>3, <2>5
<1> QED
  BY <1>2, <1>3

LEMMA FlattenEmpty == FlattenSeq(<<>>) = <<>>
<1>1. Len(<<>>) = 0
  OBVIOUS
<1> QED
  BY <1>1 DEF FlattenSeq

LEMMA FlattenAppend ==
  ASSUME NEW S, NEW t \in Seq(Seq(S)), NEW x \in Seq(S)
  PROVE  FlattenSeq(Append(t, x)) = FlattenSeq(t) \o x
<1>1. PICK u : u = Append(t, x)
  OBVIOUS
<1>2. PICK m \in Nat, k \in Nat : /\ m = Len(t) /\ k = Len(u) /\ k = m + 1 /\ u[k] = x
                                  /\ \A e \in 1..m : t[e] = u[e]
  BY <1>1
<1>3. FlattenSeq(u) = IF m = 0 THEN u[k] ELSE FlattenSeq(t) \o u[k]
  BY <1>2, FlattenMore
<1>4. CASE m = 0
  <2>1. t = <<>>
    <3>1. Len(t) = 0
      BY <1>2, <1>4
    <3> QED
      BY <3>1
  <2>2. FlattenSeq(t) = <<>>
    BY <2>1, FlattenEmpty
  <2>3. <<>> \o x = x
    OBVIOUS
  <2> QED
    BY <1>1, <1>2, <1>3, <1>4, <2>2, <2>3
<1> QED
  BY <1>1, <1>2, <1>3, <1>4

\* A concatenation of sequences over S is one.
LEMMA FlattenType ==
  ASSUME NEW S, NEW t \in Seq(Seq(S))
  PROVE  FlattenSeq(t) \in Seq(S)
<1>1. CASE Len(t) = 0
  <2>1. t = <<>>
    BY <1>1
  <2>2. FlattenSeq(t) = <<>>
    BY <2>1, FlattenEmpty
  <2> QED
    BY <2>2
<1>2. CASE Len(t) # 0
  <2>1. PICK m \in Nat : m = Len(t) /\ m # 0 /\ \A e \in 1..m : t[e] \in Seq(S)
    BY <1>2
  <2>2. PICK all : Partial(t, m, all) /\ FlattenSeq(t) = all[m]
    BY <2>1, FlattenIs
  <2> DEFINE D == {j \in Nat : j \in 1..m => all[j] \in Seq(S)}
  <2>3. 0 \in D
    OBVIOUS
  <2>4. ASSUME NEW j \in Nat, j \in D PROVE j + 1 \in D
    <3>1. PICK q \in Nat : q = j + 1
      OBVIOUS
    <3>2. CASE q \in 1..m /\ j # 0
      <4>1. \A e \in 2..m : all[e] = all[e - 1] \o t[e]
        BY <2>2, PartialNext
      <4>2. all[q] = all[j] \o t[q]
        <5>1. q \in 2..m /\ j = q - 1
          BY <3>1, <3>2
        <5> QED
          BY <4>1, <5>1
      <4>3. all[j] \in Seq(S) /\ t[q] \in Seq(S)
        BY <2>1, <2>4, <3>1, <3>2
      <4>4. all[j] \o t[q] \in Seq(S)
        BY <4>3
      <4> QED
        BY <3>1, <4>2, <4>4
    <3>3. CASE q \in 1..m /\ j = 0
      <4>1. all[1] = t[1]
        BY <2>1, <2>2, PartialFirst
      <4> QED
        BY <2>1, <3>1, <3>3, <4>1
    <3> QED
      BY <3>1, <3>2, <3>3
  <2> HIDE DEF D
  <2>5. Nat \subseteq D
    BY <2>3, <2>4, SetInduction
  <2> QED
    BY <2>1, <2>2, <2>5 DEF D
<1> QED
  BY <1>1, <1>2

-----------------------------------------------------------------------------
(* The line callback gets what the files get.                                *)

OutLines == [name : Names, text : Seq(Tokens)]

LEMMA WriteLineCallback ==
  ASSUME NEW o \in Outputs, NEW f \in Names, NEW ts \in Seq(Tokens)
  PROVE  Write(o, f, ts).buffer = o.buffer \o ts /\ Write(o, f, ts).lines = o.lines
BY DEF Write, Outputs

LEMMA EndLineCallback ==
  ASSUME NEW o \in Outputs, o.lastname \in Names
  PROVE  /\ EndLine(o).lines = Append(o.lines, [name |-> o.lastname, text |-> o.buffer])
         /\ [name |-> o.lastname, text |-> o.buffer] \in OutLines
BY DEF EndLine, Outputs, OutLines

LEMMA TextsType ==
  ASSUME NEW s \in Seq(OutLines), NEW f
  PROVE  Texts(s, f) \in Seq(Seq(Tokens)) /\ Len(Texts(s, f)) = Len(s)
<1>1. DOMAIN s = 1..Len(s) /\ Len(s) \in Nat
  BY ElementFacts
<1>2. ASSUME NEW k \in 1..Len(s)
      PROVE  (IF s[k].name = f THEN s[k].text ELSE <<>>) \in Seq(Tokens)
  <2>1. s[k] \in OutLines
    BY ElementFacts
  <2> QED BY <2>1 DEF OutLines
<1>3. Texts(s, f) \in Seq(Seq(Tokens))
  BY <1>1, <1>2, IsASeq DEF Texts
<1>4. DOMAIN Texts(s, f) = 1..Len(s)
  BY <1>1 DEF Texts
<1> QED BY <1>1, <1>3, <1>4, LenProperties

LEMMA TextsAppend ==
  ASSUME NEW s \in Seq(OutLines), NEW l \in OutLines, NEW f
  PROVE  Texts(Append(s, l), f) = Append(Texts(s, f), IF l.name = f THEN l.text ELSE <<>>)
<1> DEFINE x == IF l.name = f THEN l.text ELSE <<>>
           a == Texts(Append(s, l), f)
           b == Append(Texts(s, f), x)
<1>1. /\ Append(s, l) \in Seq(OutLines) /\ Len(s) \in Nat
      /\ DOMAIN s = 1..Len(s) /\ DOMAIN Append(s, l) = 1..(Len(s) + 1)
  OBVIOUS
<1>2. x \in Seq(Tokens)
  BY DEF OutLines
<1>3. a = [k \in 1..(Len(s) + 1) |-> IF Append(s, l)[k].name = f THEN Append(s, l)[k].text ELSE <<>>]
  BY <1>1, Zenon DEF Texts
<1>4. Texts(s, f) \in Seq(Seq(Tokens)) /\ Len(Texts(s, f)) = Len(s)
  BY TextsType
<1>5. b \in Seq(Seq(Tokens)) /\ Len(b) = Len(s) + 1
  BY <1>2, <1>4, AppendProperties
<1>6. ASSUME NEW k \in 1..(Len(s) + 1) PROVE a[k] = b[k]
  <2>1. CASE k \in 1..Len(s)
    <3>1. Append(s, l)[k] = s[k]
      BY <2>1
    <3>2. Texts(s, f)[k] = IF s[k].name = f THEN s[k].text ELSE <<>>
      BY <1>1, <2>1 DEF Texts
    <3>3. b[k] = Texts(s, f)[k]
      BY <1>2, <1>4, <2>1, AppendProperties
    <3> HIDE DEF b
    <3> QED BY <1>3, <3>1, <3>2, <3>3
  <2>2. CASE k = Len(s) + 1
    <3>1. Append(s, l)[k] = l
      BY <2>2
    <3>2. b[k] = x
      BY <1>2, <1>4, <2>2, AppendProperties
    <3> HIDE DEF b
    <3> QED BY <1>3, <3>1, <3>2
  <2>3. k \in 1..Len(s) \/ k = Len(s) + 1
    BY <1>1
  <2> HIDE DEF a, b
  <2> QED BY <2>1, <2>2, <2>3
<1> HIDE DEF a, b
<1>7. a = [k \in 1..(Len(s) + 1) |-> a[k]]
  BY <1>3
<1>8. b = [k \in 1..(Len(s) + 1) |-> b[k]]
  BY <1>5
<1> QED BY <1>6, <1>7, <1>8 DEF a, b

LEMMA BalancedWrite ==
  ASSUME NEW o \in Outputs, NEW f \in Names, NEW ts \in Seq(Tokens),
         Balanced(o), o.buffer = <<>> \/ o.lastname = f
  PROVE  Balanced(Write(o, f, ts))
<1> DEFINE w == Write(o, f, ts)
<1>1. /\ w.files[f] = o.files[f] \o ts
      /\ (\A g \in Names : (g # f => w.files[g] = o.files[g]))
      /\ w.lastname = f
  BY WriteFacts
<1>2. w.buffer = o.buffer \o ts /\ w.lines = o.lines
  BY WriteLineCallback
<1> HIDE DEF w
<1>3. o.buffer \in Seq(Tokens) /\ o.lines \in Seq(OutLines)
  BY FieldFacts DEF OutLines
<1>4. ASSUME NEW g \in Names
      PROVE  HandedOver(w, g) \o (IF w.lastname = g THEN w.buffer ELSE <<>>) = w.files[g]
  <2> DEFINE h == HandedOver(o, g)
  <2>1. HandedOver(w, g) = h
    BY <1>2 DEF HandedOver
  <2>2. h \in Seq(Tokens)
    BY <1>3, TextsType, FlattenType DEF HandedOver
  <2>3. h \o (IF o.lastname = g THEN o.buffer ELSE <<>>) = o.files[g]
    BY DEF Balanced
  <2> HIDE DEF h
  <2>4. CASE g = f
    <3>1. o.files[g] = h \o o.buffer
      BY <2>3, <2>4
    <3>2. w.files[g] = (h \o o.buffer) \o ts
      BY <1>1, <2>4, <3>1
    <3>3. (h \o o.buffer) \o ts = h \o (o.buffer \o ts)
      <4>1. \A b \in Seq(Tokens) : (h \o b) \o ts = h \o (b \o ts)
        BY <2>2, ConcatAssociative
      <4> QED BY <1>3, <4>1
    <3> QED BY <1>1, <1>2, <2>1, <2>4, <3>2, <3>3
  <2>5. CASE g # f
    <3>1. o.files[g] = h \o <<>>
      BY <2>3, <2>5
    <3> QED BY <1>1, <2>1, <2>5, <3>1
  <2> QED BY <2>4, <2>5
<1> QED BY <1>4 DEF Balanced, w

LEMMA BalancedEndLine ==
  ASSUME NEW o \in Outputs, o.lastname \in Names, Balanced(o)
  PROVE  Balanced(EndLine(o))
<1> DEFINE w == EndLine(o)
           l == [name |-> o.lastname, text |-> o.buffer]
<1>1. w.files = o.files /\ w.lastname = o.lastname /\ w.buffer = <<>>
  BY EndLineFacts
<1>2. w.lines = Append(o.lines, l) /\ l \in OutLines
  BY EndLineCallback
<1>3. l.name = o.lastname /\ l.text = o.buffer
  OBVIOUS
<1> HIDE DEF w, l
<1>4. o.buffer \in Seq(Tokens) /\ o.lines \in Seq(OutLines)
  BY FieldFacts DEF OutLines
<1>5. ASSUME NEW g \in Names
      PROVE  HandedOver(w, g) \o (IF w.lastname = g THEN w.buffer ELSE <<>>) = w.files[g]
  <2> DEFINE x == IF l.name = g THEN l.text ELSE <<>>
  <2>1. Texts(w.lines, g) = Append(Texts(o.lines, g), x)
    BY <1>2, <1>4, TextsAppend
  <2>2. x \in Seq(Tokens) /\ Texts(o.lines, g) \in Seq(Seq(Tokens))
    BY <1>3, <1>4, TextsType
  <2>3. HandedOver(o, g) \o x = o.files[g]
    BY <1>3 DEF Balanced
  <2> HIDE DEF x
  <2>4. HandedOver(w, g) = HandedOver(o, g) \o x
    BY <2>1, <2>2, FlattenAppend DEF HandedOver
  <2>5. w.files[g] \in Seq(Tokens)
    BY <1>1, FieldFacts
  <2>6. w.files[g] \o <<>> = w.files[g]
    BY <2>5
  <2> QED BY <1>1, <2>3, <2>4, <2>6
<1> QED BY <1>5 DEF Balanced, w

LEMMA BalancedWriteLine ==
  ASSUME NEW o \in Outputs, NEW f \in Names, NEW ts \in Seq(Tokens),
         Balanced(o), o.buffer = <<>> \/ o.lastname = f
  PROVE  Balanced(WriteLine(o, f, ts))
<1> DEFINE u == ts \o Mark("newline")
<1>1. u \in Seq(Tokens)
  BY MarkFacts, JoinFacts
<1>2. WriteLine(o, f, ts) = EndLine(Write(o, f, u))
  BY DEF WriteLine
<1> HIDE DEF u
<1>3. Balanced(Write(o, f, u))
  BY <1>1, BalancedWrite
<1>4. Write(o, f, u) \in Outputs /\ Write(o, f, u).lastname \in Names
  BY <1>1, WriteFacts
<1> QED BY <1>2, <1>3, <1>4, BalancedEndLine

\* A row that begins when the buffer is empty.
LEMMA BalancedRow ==
  ASSUME TypeOK, CacheTrue, n > 0, line.read >= 1, NEW f \in Names,
         Balanced(out), out.buffer = <<>>
  PROVE  /\ Balanced(WithRow(f)) /\ Balanced(EndRow(WithRow(f), f, <<>>))
         /\ WithRow(f).lastname = f
<1> DEFINE o == WithHeaders(f)
<1>1. o \in Outputs /\ Balanced(o) /\ o.buffer = <<>>
  <2>1. CASE IsNew(f)
    <3> DEFINE h == RowStart \o <<Token("headers", 0, mappingNow)>>
    <3>1. h \in Seq(Tokens) /\ out \in Outputs
      BY HeadFacts DEF TypeOK
    <3>2. o = WriteLine(out, f, h)
      BY <2>1 DEF WithHeaders
    <3> HIDE DEF h, o
    <3>3. WriteLine(out, f, h) \in Outputs /\ WriteLine(out, f, h).buffer = <<>>
      BY <3>1, WriteLineFacts
    <3>4. Balanced(WriteLine(out, f, h))
      BY <3>1, BalancedWriteLine
    <3> QED BY <3>2, <3>3, <3>4
  <2>2. CASE ~IsNew(f)
    BY <2>2 DEF WithHeaders, TypeOK
  <2> QED BY <2>1, <2>2
<1>2. RowTokens \in Seq(Tokens)
  BY RowFacts, WiderFacts
<1>3. WithRow(f) = Write(o, f, RowTokens)
  BY DEF WithRow
<1> HIDE DEF o
<1>4. Balanced(WithRow(f))
  BY <1>1, <1>2, <1>3, BalancedWrite
<1>5. WithRow(f) \in Outputs /\ WithRow(f).lastname = f
  BY WithRowFacts DEF Wrote
<1>6. <<>> \in Seq(Tokens)
  OBVIOUS
<1>7. Balanced(WriteLine(WithRow(f), f, <<>>))
  BY <1>4, <1>5, <1>6, BalancedWriteLine
<1> QED BY <1>4, <1>5, <1>7, EndRowFacts

\* Whatever is in the buffer goes to the file that is written to next.
Balance ==
  NoTwoFieldLine => /\ Balanced(out)
                    /\ (pc = "legacy" => out.buffer = <<>> \/ out.lastname = Header)
                    /\ (pc = "f99" => out.lastname = rowFile)

LEMMA BalancedEmpty == Balanced(Empty)
<1>1. ASSUME NEW g \in Names
      PROVE  HandedOver(Empty, g) \o (IF Empty.lastname = g THEN Empty.buffer ELSE <<>>)
               = Empty.files[g]
  <2>1. Empty.lines = <<>> /\ Empty.buffer = <<>> /\ Empty.files[g] = <<>>
    BY DEF Empty
  <2>2. Texts(<<>>, g) = <<>>
    BY DEF Texts
  <2> QED BY <2>1, <2>2, FlattenEmpty DEF HandedOver
<1> QED BY <1>1 DEF Balanced

LEMMA BalanceEarly == ASSUME InvA, Balance, NoTwoFieldLine, EarlyStep PROVE Balance'
<1>1. out \in Outputs /\ Balanced(out) /\ Header \in Names
  BY NamesFacts DEF InvA, TypeOK, Balance
<1>2. CASE GrabFirst \/ HeaderVersion
  BY <1>1, <1>2 DEF GrabFirst, HeaderVersion, Balance
<1>3. CASE LegacyCounts
  BY <1>1, <1>3 DEF LegacyCounts, Balance
<1>4. CASE HeaderRow
  <2>1. n = 1 /\ n > 0 /\ out.buffer = <<>> /\ line = seen[n]
    BY <1>4, EmptyFacts DEF InvA, HeaderRow, Phases, line
  <2>2. pc' \in {"failed", "loop"}
    BY <1>4 DEF HeaderRow
  <2>3. CASE ParseUnmapped
    BY <1>1, <2>2, <2>3 DEF ParseUnmapped, Balance
  <2>4. CASE ParseFull(Header, TRUE)
    <3>1. line.read > 0 /\ line.read >= 1
      BY <2>1, <2>4, LineFacts DEF InvA, ParseFull
    <3>2. File(Header) = Header
      BY <2>1, <3>1, FileFacts DEF InvA
    <3>3. Balanced(EndRow(WithRow(Header), Header, <<>>))
      BY <1>1, <2>1, <3>1, BalancedRow DEF InvA
    <3>4. out' = EndRow(WithRow(Header), Header, <<>>)
      BY <2>4, <3>2 DEF ParseFull
    <3> QED BY <2>2, <3>3, <3>4 DEF Balance
  <2>5. ~ParseTwo(Header)
    BY <2>1 DEF NoTwoFieldLine, ParseTwo
  <2> QED BY <1>4, <2>3, <2>4, <2>5 DEF HeaderRow
<1>5. CASE LegacyHeader
  <2>1. out.buffer = <<>> /\ RowStart \in Seq(Tokens) /\ pc' = "legacy"
    BY <1>5, EmptyFacts, PlainFacts, WiderFacts DEF InvA, Phases, LegacyHeader
  <2>2. Balanced(Write(out, Header, RowStart)) /\ Write(out, Header, RowStart).lastname = Header
    BY <1>1, <2>1, BalancedWrite, WriteFacts
  <2> QED BY <1>1, <1>5, <2>1, <2>2 DEF LegacyHeader, Balance
<1>6. CASE LegacyKey
  <2> DEFINE k == <<Token("key", n + 1, None)>>
  <2>1. k \in Seq(Tokens)
    <3>1. Token("key", n + 1, None) \in Tokens
      BY LineFacts DEF InvA, Token, Tokens
    <3> QED BY <3>1
  <2>2. out' = Write(out, Header, k) /\ pc = "legacy" /\ pc' = pc
    BY <1>6 DEF LegacyKey
  <2>3. out.buffer = <<>> \/ out.lastname = Header
    BY <2>2 DEF Balance
  <2> HIDE DEF k
  <2>4. Balanced(Write(out, Header, k)) /\ Write(out, Header, k).lastname = Header
    BY <1>1, <2>1, <2>3, BalancedWrite, WriteFacts
  <2> QED BY <2>2, <2>4 DEF Balance
<1>7. CASE LegacyEnd
  <2> DEFINE z == <<>>
             o == WriteLine(out, Header, z)
             k == RowStart \o keys
  <2>1. z \in Seq(Tokens) /\ k \in Seq(Tokens)
    BY PlainFacts, WiderFacts, JoinFacts DEF InvA, TypeOK
  <2>2. out' = WriteLine(o, Header, k) /\ pc = "legacy" /\ pc' = "loop"
    BY <1>7 DEF LegacyEnd
  <2>3. out.buffer = <<>> \/ out.lastname = Header
    BY <2>2 DEF Balance
  <2> HIDE DEF z, k
  <2>4. o \in Outputs /\ o.buffer = <<>>
    BY <1>1, <2>1, WriteLineFacts
  <2>5. Balanced(o)
    BY <1>1, <2>1, <2>3, BalancedWriteLine
  <2> HIDE DEF o
  <2>6. Balanced(WriteLine(o, Header, k))
    BY <1>1, <2>1, <2>4, <2>5, BalancedWriteLine
  <2> QED BY <2>2, <2>6 DEF Balance
<1> QED BY <1>2, <1>3, <1>4, <1>5, <1>6, <1>7 DEF EarlyStep

LEMMA BalanceParseLine ==
  ASSUME InvA, Whole, Balance, NoTwoFieldLine, ParseLine
  PROVE  Balance'
<1>1. n > 0 /\ out \in Outputs /\ n \in 1..n /\ line = seen[n] /\ pc = "parse"
  BY ParseLineCases, LineFacts DEF InvA, TypeOK, ParseLine, line
<1>2. out.buffer = <<>> /\ Balanced(out)
  BY <1>1 DEF Whole, Balance
<1>3. ~ParseTwo(None)
  BY <1>1 DEF NoTwoFieldLine, ParseTwo
<1>4. CASE ParseFull(None, FALSE) \/ ParseMismatched(None)
  <2> DEFINE f == File(None)
  <2>1. line.read > 0 /\ line.read >= 1
    BY <1>1, <1>4, LineFacts DEF InvA, ParseFull, ParseMismatched
  <2>2. f \in Names
    BY <1>1, <2>1, FileFacts, NamesFacts DEF InvA
  <2>3. /\ Balanced(WithRow(f)) /\ Balanced(EndRow(WithRow(f), f, <<>>))
        /\ WithRow(f).lastname = f
    BY <1>1, <1>2, <2>1, <2>2, BalancedRow DEF InvA
  <2>4. CASE ParseFull(None, FALSE) /\ pc' = "loop"
    <3>1. out' = EndRow(WithRow(f), f, <<>>)
      BY <2>4 DEF ParseFull
    <3> QED BY <2>3, <2>4, <3>1 DEF Balance
  <2>5. CASE ParseMismatched(None) /\ pc' = "f99" /\ rowFile' = f
    <3>1. out' = WithRow(f)
      BY <2>5 DEF ParseMismatched
    <3> HIDE DEF f
    <3> QED BY <2>3, <2>5, <3>1 DEF Balance
  <2>6. \/ ParseFull(None, FALSE) /\ pc' = "loop"
        \/ ParseMismatched(None) /\ pc' = "f99" /\ rowFile' = f
    <3>1. line.read \in Nat /\ line.last \in Nat /\ line.read \in {line.last, line.last + 1}
      BY <1>1, LineFacts DEF InvA
    <3>2. ~(ParseEmpty \/ ParseUnmapped \/ ParseShort \/ ParseCrash(None))
      BY <1>4, <3>1 DEF ParseFull, ParseMismatched, ParseEmpty, ParseUnmapped, ParseShort,
                        ParseCrash
    <3> QED BY <1>3, <3>2 DEF ParseLine
  <2> QED BY <2>4, <2>5, <2>6
<1>5. CASE ~(ParseFull(None, FALSE) \/ ParseMismatched(None))
  <2>1. out' = out /\ pc' \in {"loop", "crashed"}
    BY <1>3, <1>5 DEF ParseLine, ParseEmpty, ParseUnmapped, ParseShort, ParseCrash
  <2> QED BY <1>2, <2>1 DEF Balance
<1> QED BY <1>4, <1>5

LEMMA BalanceF99 == ASSUME InvA, Balance, NoTwoFieldLine, F99Step PROVE Balance'
<1>1. /\ pc = "f99" /\ out \in Outputs /\ rowFile \in Names /\ rowFile' = rowFile
      /\ Balanced(out) /\ out.lastname = rowFile
  BY F99Cases, NamesFacts DEF InvA, TypeOK, Balance
<1>2. ASSUME NEW ts \in Seq(Tokens)
      PROVE  Balanced(Write(out, rowFile, ts)) /\ Balanced(EndRow(out, rowFile, ts))
  BY <1>1, BalancedWrite, BalancedWriteLine, EndRowFacts
<1>3. <<>> \in Seq(Tokens) /\ Mark("quote") \in Seq(Tokens)
  BY MarkFacts
<1>4. CASE F99AtEnd \/ F99Invalid
  <2>1. out' = EndRow(out, rowFile, <<>>) /\ pc' \in {"loop", "parse"}
    BY <1>4 DEF F99AtEnd, F99Invalid, AfterInvalid
  <2> QED BY <1>2, <1>3, <2>1 DEF Balance
<1>5. CASE F99Blank \/ F99Begin
  <2>1. out' = out /\ pc' = "f99"
    BY <1>1, <1>5 DEF F99Blank, F99Begin
  <2> QED BY <1>1, <2>1 DEF Balance
<1>6. CASE F99Text
  <2> DEFINE ts == Opening \o <<Token("text", n + 1, None)>>
  <2>1. out' = Write(out, rowFile, ts) /\ pc' = "f99"
    BY <1>1, <1>6 DEF F99Text
  <2>2. ts \in Seq(Tokens)
    <3>1. Token("text", n + 1, None) \in Tokens
      BY LineFacts DEF InvA, Token, Tokens
    <3>2. Opening \in Seq(Tokens)
      BY <1>3, MarkFacts, JoinFacts DEF Opening
    <3> HIDE DEF Token
    <3>3. <<Token("text", n + 1, None)>> \in Seq(Tokens)
      BY <3>1
    <3> QED BY <3>2, <3>3, JoinFacts
  <2> HIDE DEF ts
  <2>3. Write(out, rowFile, ts).lastname = rowFile
    BY <1>1, <2>2, WriteFacts
  <2> QED BY <1>1, <1>2, <2>1, <2>2, <2>3 DEF Balance
<1>7. CASE F99End
  <2>1. out' = EndRow(out, rowFile, Mark("quote")) /\ pc' = "loop"
    BY <1>7 DEF F99End
  <2> QED BY <1>2, <1>3, <2>1 DEF Balance
<1> QED BY <1>4, <1>5, <1>6, <1>7 DEF F99Step

LEMMA EarlyInput ==
  ASSUME EarlyStep
  PROVE  GrabNothing \/ (\E l \in AllLines : Grab(l)) \/ UNCHANGED inputVars
BY DEF EarlyStep, GrabFirst, HeaderVersion, HeaderRow, LegacyHeader, LegacyKey, LegacyCounts,
       LegacyEnd, AllLines

LEMMA BalanceStep == ASSUME InvA, Whole, Balance, [Next]_vars PROVE Balance'
<1> SUFFICES ASSUME NoTwoFieldLine' PROVE Balance'
  BY DEF Balance
<1>1. CASE EarlyStep
  <2>1. NoTwoFieldLine
    BY <1>1, EarlyInput, NoTwoGrows DEF InvA
  <2> QED BY <1>1, <2>1, BalanceEarly
<1>2. CASE GrabLine
  <2>1. /\ pc = "loop" /\ pc' \in {"parse", "done"} /\ out' = out
        /\ GrabNothing \/ (\E l \in AllLines : Grab(l))
    BY <1>2 DEF GrabLine, AtEndOfInput, AllLines
  <2>2. NoTwoFieldLine
    BY <2>1, NoTwoGrows DEF InvA
  <2> QED BY <2>1, <2>2 DEF Balance
<1>3. CASE ParseLine
  <2>1. NoTwoFieldLine
    BY <1>3, NoTwoGrows DEF InvA, ParseLine
  <2> QED BY <1>3, <2>1, BalanceParseLine
<1>4. CASE F99Step
  <2>1. NoTwoFieldLine
    BY <1>4, F99Cases, NoTwoGrows DEF InvA
  <2> QED BY <1>4, <2>1, BalanceF99
<1>5. CASE UNCHANGED vars
  BY <1>5 DEF Balance, NoTwoFieldLine, n, vars, f99Vars
<1> QED BY <1>1, <1>2, <1>3, <1>4, <1>5, NextCases

\* In every filing none of whose lines has exactly two fields, the line callback is
\* given, name by name and in order, what is written to the file of that name: a row
\* is not handed over in part, twice, or under another name (fec.c:642-659, 466-516).
THEOREM LinesAlwaysFiles == Spec => []LinesAreFiles
<1>1. Init => Whole /\ Balance
  BY BalancedEmpty DEF Init, Whole, Balance
<1>2. Spec => [](InvA /\ Whole /\ Balance)
  BY <1>1, InvAInit, InvAStep, WholeStep, BalanceStep, PTL DEF Spec
<1>3. Balance => LinesAreFiles
  BY DEF Balance, LinesAreFiles
<1> QED BY <1>2, <1>3, PTL

-----------------------------------------------------------------------------
(* The text of an F99 filing is one quoted field.                            *)

\* Tokens that are neither text nor quote.
Bare == {t \in Tokens : t.what \notin {"text", "quote"}}

\* A row to which the text can be added: it ends with a cell of a line before row m.
AfterCell(b, m) == Len(b) > 0 /\ b[Len(b)].what = "cell" /\ b[Len(b)].row < m

\* A row whose text is open, row m being the last line of it.
OpenAt(b, m, p) ==
  /\ p > 2 /\ p < Len(b)
  /\ {e \in DOMAIN b : b[e].what = "quote"} = {p}
  /\ {e \in DOMAIN b : b[e].what = "text"} = (p + 1)..Len(b)
  /\ b[p - 1].what = "comma" /\ b[p - 2].what = "cell"
  /\ \A e \in (p + 1)..Len(b) : b[e].row = b[p + 1].row + (e - p - 1)
  /\ b[p - 2].row < b[p + 1].row
  /\ b[Len(b)].row = m
OpenText(b, m) == \E p \in DOMAIN b : OpenAt(b, m, p)

Opened == Mark("comma") \o Mark("quote")
Closed == Mark("quote") \o Mark("newline")
Line(m) == <<Token("text", m, None)>>

LEMMA JoinOne ==
  ASSUME NEW S, NEW s \in Seq(S), NEW t \in Seq(S), Len(t) = 1
  PROVE  /\ s \o t \in Seq(S) /\ Len(s \o t) = Len(s) + 1
         /\ \A e \in 1..Len(s) : (s \o t)[e] = s[e]
         /\ (s \o t)[Len(s) + 1] = t[1]
<1>1. \A u \in Seq(S) :
        /\ s \o u \in Seq(S) /\ Len(s \o u) = Len(s) + Len(u)
        /\ \A e \in 1..Len(s) : (s \o u)[e] = s[e]
        /\ \A e \in 1..Len(u) : (s \o u)[Len(s) + e] = u[e]
  BY JoinFacts
<1>2. 1 \in 1..Len(t)
  OBVIOUS
<1> QED BY <1>1, <1>2

LEMMA OpenedFacts ==
  ASSUME NEW m \in Nat
  PROVE  /\ Opened \o Line(m) \in Seq(Tokens) /\ Len(Opened \o Line(m)) = 3
         /\ (Opened \o Line(m))[1].what = "comma" /\ (Opened \o Line(m))[2].what = "quote"
         /\ (Opened \o Line(m))[3].what = "text" /\ (Opened \o Line(m))[3].row = m
<1> DEFINE c == Token("comma", 0, None)
           q == Token("quote", 0, None)
           l == Token("text", m, None)
<1>1. /\ c \in Tokens /\ c.what = "comma" /\ q \in Tokens /\ q.what = "quote"
      /\ l \in Tokens /\ l.what = "text" /\ l.row = m
  BY DEF Token, Tokens
<1>2. Opened = <<c>> \o <<q>> /\ Line(m) = <<l>>
  BY DEF Opened, Mark, Line
<1> HIDE DEF c, q, l
<1> DEFINE u == <<c>> \o <<q>>
<1>3. u \in Seq(Tokens) /\ Len(u) = 2 /\ u[1] = c /\ u[2] = q
  BY <1>1
<1> HIDE DEF u
<1>4. /\ u \o <<l>> \in Seq(Tokens) /\ Len(u \o <<l>>) = 3
      /\ (u \o <<l>>)[1] = c /\ (u \o <<l>>)[2] = q /\ (u \o <<l>>)[3] = l
  <2> DEFINE v == <<l>>
  <2>1. v \in Seq(Tokens) /\ Len(v) = 1 /\ v[1] = l
    BY <1>1
  <2> HIDE DEF v
  <2>2. /\ u \o v \in Seq(Tokens) /\ Len(u \o v) = Len(u) + 1
        /\ (\A e \in 1..Len(u) : (u \o v)[e] = u[e])
        /\ (u \o v)[Len(u) + 1] = v[1]
    BY <1>3, <2>1, JoinOne
  <2>3. 1 \in 1..Len(u) /\ 2 \in 1..Len(u)
    BY <1>3
  <2>4. Len(u \o v) = 3 /\ (u \o v)[1] = c /\ (u \o v)[2] = q /\ (u \o v)[3] = l
    BY <1>3, <2>1, <2>2, <2>3
  <2> QED BY <2>2, <2>4 DEF v
<1>5. Opened \o Line(m) = u \o <<l>>
  BY <1>2 DEF u
<1> QED BY <1>1, <1>4, <1>5

LEMMA ClosedFacts ==
  /\ Closed \in Seq(Tokens) /\ Len(Closed) = 2
  /\ Closed[1].what = "quote" /\ Closed[2].what = "newline"
<1> DEFINE c == Token("quote", 0, None)
           q == Token("newline", 0, None)
<1>1. c \in Tokens /\ c.what = "quote" /\ q \in Tokens /\ q.what = "newline"
  BY DEF Token, Tokens
<1>2. Closed = <<c>> \o <<q>>
  BY DEF Closed, Mark
<1> HIDE DEF c, q
<1>3. LET u == <<c>> \o <<q>>
      IN  u \in Seq(Tokens) /\ Len(u) = 2 /\ u[1] = c /\ u[2] = q
  BY <1>1
<1> QED BY <1>1, <1>2, <1>3

LEMMA LineTokens ==
  ASSUME NEW m \in Nat
  PROVE  /\ Line(m) \in Seq(Tokens) /\ Len(Line(m)) = 1
         /\ Line(m)[1].what = "text" /\ Line(m)[1].row = m
<1> DEFINE l == Token("text", m, None)
<1>1. l \in Tokens /\ l.what = "text" /\ l.row = m
  BY DEF Token, Tokens
<1>2. Line(m) = <<l>>
  BY DEF Line
<1> HIDE DEF l
<1> QED BY <1>1, <1>2

\* The i-th token is of row m, and r the row of the one behind the h-th.
InRow(m, r, i, h) == m = r + (i - h - 1)

LEMMA RowNext ==
  ASSUME NEW m \in Int, NEW r \in Int, NEW i \in Int, NEW h \in Int, InRow(m, r, i, h)
  PROVE  InRow(m + 1, r, i + 1, h)
BY DEF InRow

\* The first line of the text.
LEMMA TextOpens ==
  ASSUME NEW b \in Seq(Bare), NEW m \in Nat, AfterCell(b, m)
  PROVE  OpenText(b \o (Opened \o Line(m)), m)
<1> DEFINE u == Opened \o Line(m)
           t == b \o u
<1>1. /\ u \in Seq(Tokens) /\ Len(u) = 3 /\ u[1].what = "comma" /\ u[2].what = "quote"
      /\ u[3].what = "text" /\ u[3].row = m
  BY OpenedFacts
<1> HIDE DEF u
<1>2. b \in Seq(Tokens) /\ Len(b) \in Nat /\ \A e \in 1..Len(b) : b[e].what \notin {"text", "quote"}
  BY ElementFacts DEF Bare
<1>3. /\ t \in Seq(Tokens) /\ Len(t) = Len(b) + 3
      /\ (\A e \in 1..Len(b) : t[e] = b[e])
      /\ (\A e \in 1..3 : t[Len(b) + e] = u[e])
  <2>1. /\ t \in Seq(Tokens) /\ Len(t) = Len(b) + Len(u)
        /\ (\A e \in 1..Len(b) : t[e] = b[e])
        /\ (\A e \in 1..Len(u) : t[Len(b) + e] = u[e])
    <3>1. b \in Seq(Tokens) /\ u \in Seq(Tokens)
      BY <1>1, <1>2
    <3> QED BY <3>1, JoinFacts
  <2> QED BY <1>1, <2>1
<1> HIDE DEF t
<1>4. PICK p \in Nat : p = Len(b) + 2
  BY <1>2
<1>5. /\ p \in 1..Len(t) /\ DOMAIN t = 1..Len(t) /\ Len(t) = p + 1 /\ p > 2
  BY <1>2, <1>3, <1>4 DEF AfterCell
<1>6. /\ t[p - 1].what = "comma" /\ t[p].what = "quote" /\ t[p + 1].what = "text"
      /\ t[p + 1].row = m
  <2>1. p - 1 = Len(b) + 1 /\ p = Len(b) + 2 /\ p + 1 = Len(b) + 3
    BY <1>2, <1>4
  <2> QED BY <1>1, <1>3, <2>1
<1>7. t[p - 2].what = "cell" /\ t[p - 2].row < t[p + 1].row
  <2>1. p - 2 = Len(b) /\ Len(b) \in 1..Len(b)
    BY <1>2, <1>4 DEF AfterCell
  <2> QED BY <1>3, <1>6, <2>1 DEF AfterCell
<1>8. ASSUME NEW e \in 1..Len(t)
      PROVE  (t[e].what = "quote" <=> e = p) /\ (t[e].what = "text" <=> e = p + 1)
  <2>1. e \in 1..Len(b) \/ e = p - 1 \/ e = p \/ e = p + 1
    BY <1>2, <1>4, <1>5
  <2>2. e \in 1..Len(b) => e # p /\ e # p + 1 /\ t[e].what \notin {"text", "quote"}
    BY <1>2, <1>3, <1>4
  <2> QED BY <1>6, <2>1, <2>2
<1>9. {e \in DOMAIN t : t[e].what = "quote"} = {p}
  BY <1>5, <1>8
<1>10. {e \in DOMAIN t : t[e].what = "text"} = (p + 1)..Len(t)
  BY <1>5, <1>8
<1>11. \A e \in (p + 1)..Len(t) : t[e].row = t[p + 1].row + (e - p - 1)
  BY <1>5, <1>6
<1>12. OpenText(t, m)
  <2>1. OpenAt(t, m, p)
    BY <1>5, <1>6, <1>7, <1>9, <1>10, <1>11 DEF OpenAt
  <2> QED BY <1>5, <2>1 DEF OpenText
<1> QED BY <1>12 DEF t, u

\* The next line of the text.
LEMMA TextGrows ==
  ASSUME NEW b \in Seq(Tokens), NEW m \in Nat, OpenText(b, m)
  PROVE  OpenText(b \o Line(m + 1), m + 1)
<1> DEFINE u == Line(m + 1)
           t == b \o u
<1>1. /\ u \in Seq(Tokens) /\ Len(u) = 1 /\ u[1].what = "text" /\ u[1].row = m + 1
  BY LineTokens
<1> HIDE DEF u
<1>2. Len(b) \in Nat /\ DOMAIN b = 1..Len(b)
  BY ElementFacts
<1>3. /\ t \in Seq(Tokens) /\ Len(t) = Len(b) + 1 /\ DOMAIN t = 1..Len(t)
      /\ (\A e \in 1..Len(b) : t[e] = b[e])
      /\ t[Len(b) + 1] = u[1]
  <2>1. /\ t \in Seq(Tokens) /\ Len(t) = Len(b) + 1
        /\ (\A e \in 1..Len(b) : t[e] = b[e])
        /\ t[Len(b) + 1] = u[1]
    BY <1>1, JoinOne
  <2>2. DOMAIN t = 1..Len(t)
    BY <2>1, ElementFacts
  <2> QED BY <2>1, <2>2
<1> HIDE DEF t
<1>4. PICK p \in DOMAIN b : OpenAt(b, m, p)
  BY DEF OpenText
<1>5. /\ p \in Nat /\ p \in 1..Len(t) /\ p < Len(t)
      /\ p - 1 \in 1..Len(b) /\ p - 2 \in 1..Len(b) /\ p + 1 \in 1..Len(b)
  BY <1>2, <1>3, <1>4 DEF OpenAt
<1>6. /\ t[p - 1].what = "comma" /\ t[p - 2].what = "cell"
      /\ t[p - 2].row < t[p + 1].row /\ t[Len(t)].row = m + 1
  BY <1>1, <1>3, <1>4, <1>5 DEF OpenAt
<1>7. ASSUME NEW e \in 1..Len(t)
      PROVE  (t[e].what = "quote" <=> e = p) /\ (t[e].what = "text" <=> e \in (p + 1)..Len(t))
  <2>1. CASE e \in 1..Len(b)
    <3>1. t[e] = b[e]
      BY <1>3, <2>1
    <3>2. b[e].what = "quote" <=> e = p
      BY <1>2, <1>4, <2>1 DEF OpenAt
    <3>3. b[e].what = "text" <=> e \in (p + 1)..Len(b)
      BY <1>2, <1>4, <2>1 DEF OpenAt
    <3>4. e \in (p + 1)..Len(b) <=> e \in (p + 1)..Len(t)
      BY <1>2, <1>3, <1>5, <2>1
    <3> QED BY <3>1, <3>2, <3>3, <3>4
  <2>2. CASE e = Len(b) + 1
    <3>1. t[e].what = "text" /\ e # p /\ e \in (p + 1)..Len(t)
      BY <1>1, <1>2, <1>3, <1>5, <2>2
    <3> QED BY <3>1
  <2> QED BY <1>2, <1>3, <2>1, <2>2
<1>8. {e \in DOMAIN t : t[e].what = "quote"} = {p}
  BY <1>3, <1>5, <1>7
<1>9. {e \in DOMAIN t : t[e].what = "text"} = (p + 1)..Len(t)
  BY <1>3, <1>5, <1>7
<1>10. ASSUME NEW e \in (p + 1)..Len(t) PROVE t[e].row = t[p + 1].row + (e - p - 1)
  <2>1. CASE e \in 1..Len(b)
    <3>1. e \in (p + 1)..Len(b)
      BY <1>2, <1>5, <2>1
    <3>2. t[e] = b[e] /\ t[p + 1] = b[p + 1]
      BY <1>3, <1>5, <2>1
    <3> QED BY <1>4, <3>1, <3>2 DEF OpenAt
  <2>2. CASE e = Len(b) + 1
    <3>1. Len(b) \in (p + 1)..Len(b)
      BY <1>2, <1>5
    <3>2. m = b[p + 1].row + (Len(b) - p - 1)
      BY <1>4, <3>1 DEF OpenAt
    <3>3. b[p + 1].row \in Nat
      <4>1. b[p + 1] \in Tokens
        BY <1>5, ElementFacts
      <4> QED BY <4>1 DEF Tokens
    <3>4. t[e].row = m + 1 /\ t[p + 1] = b[p + 1]
      BY <1>1, <1>3, <1>5, <2>2
    <3>5. m + 1 = b[p + 1].row + ((Len(b) + 1) - p - 1)
      <4>1. /\ b[p + 1].row \in Int /\ Len(b) \in Int /\ p \in Int /\ m \in Int
            /\ InRow(m, b[p + 1].row, Len(b), p)
        BY <1>2, <3>2, <3>3 DEF InRow
      <4>2. InRow(m + 1, b[p + 1].row, Len(b) + 1, p)
        BY <4>1, RowNext
      <4> QED BY <4>2 DEF InRow
    <3> QED BY <2>2, <3>4, <3>5
  <2> QED BY <1>2, <1>3, <1>5, <2>1, <2>2
<1>11. OpenText(t, m + 1)
  <2>1. OpenAt(t, m + 1, p)
    BY <1>3, <1>5, <1>6, <1>8, <1>9, <1>10 DEF OpenAt
  <2> QED BY <1>3, <1>5, <2>1 DEF OpenText
<1> QED BY <1>11 DEF t, u

\* The end of the text.
LEMMA TextCloses ==
  ASSUME NEW b \in Seq(Tokens), NEW m, OpenText(b, m)
  PROVE  Quoted(b \o Closed) /\ Has(b \o Closed, "text")
<1> DEFINE t == b \o Closed
<1>1. Len(b) \in Nat /\ DOMAIN b = 1..Len(b)
  BY ElementFacts
<1>2. /\ t \in Seq(Tokens) /\ Len(t) = Len(b) + 2 /\ DOMAIN t = 1..Len(t)
      /\ (\A e \in 1..Len(b) : t[e] = b[e])
      /\ t[Len(b) + 1].what = "quote" /\ t[Len(b) + 2].what = "newline"
  <2>1. /\ t \in Seq(Tokens) /\ Len(t) = Len(b) + Len(Closed)
        /\ (\A e \in 1..Len(b) : t[e] = b[e])
        /\ (\A e \in 1..Len(Closed) : t[Len(b) + e] = Closed[e])
    BY ClosedFacts, JoinFacts
  <2>2. 1 \in 1..Len(Closed) /\ 2 \in 1..Len(Closed)
    BY ClosedFacts
  <2>3. DOMAIN t = 1..Len(t)
    BY <2>1, ElementFacts
  <2> QED BY ClosedFacts, <2>1, <2>2, <2>3
<1> HIDE DEF t
<1>3. PICK p \in DOMAIN b : OpenAt(b, m, p)
  BY DEF OpenText
<1>4. PICK q \in Nat : q = Len(b) + 1
  BY <1>1
<1>5. /\ p \in Nat /\ p \in 1..Len(t) /\ q \in 1..Len(t) /\ p < q /\ q - 1 = Len(b)
      /\ p - 1 \in 1..Len(b) /\ p - 2 \in 1..Len(b) /\ p + 1 \in 1..Len(b)
  BY <1>1, <1>2, <1>3, <1>4 DEF OpenAt
<1>6. /\ t[p - 1].what = "comma" /\ t[p - 2].what = "cell"
      /\ t[p - 2].row < t[p + 1].row
  BY <1>2, <1>3, <1>5 DEF OpenAt
<1>7. ASSUME NEW e \in 1..Len(t)
      PROVE  (t[e].what = "quote" <=> e \in {p, q}) /\ (t[e].what = "text" <=> e \in (p + 1)..(q - 1))
  <2>1. CASE e \in 1..Len(b)
    <3>1. t[e] = b[e]
      BY <1>2, <2>1
    <3>2. b[e].what = "quote" <=> e = p
      BY <1>1, <1>3, <2>1 DEF OpenAt
    <3>3. b[e].what = "text" <=> e \in (p + 1)..Len(b)
      BY <1>1, <1>3, <2>1 DEF OpenAt
    <3>4. e # q
      BY <1>4, <2>1, <1>1
    <3> QED BY <1>5, <3>1, <3>2, <3>3, <3>4
  <2>2. CASE e = Len(b) + 1
    <3>1. t[e].what = "quote" /\ e = q /\ e \notin (p + 1)..(q - 1)
      BY <1>1, <1>2, <1>4, <2>2
    <3> QED BY <3>1
  <2>3. CASE e = Len(b) + 2
    <3>1. t[e].what = "newline" /\ e \notin {p, q} /\ e \notin (p + 1)..(q - 1)
      BY <1>1, <1>2, <1>4, <1>5, <2>3
    <3> QED BY <3>1
  <2> QED BY <1>1, <1>2, <2>1, <2>2, <2>3
<1>8. {e \in DOMAIN t : t[e].what = "quote"} = {p, q}
  BY <1>2, <1>5, <1>7
<1>9. {e \in DOMAIN t : t[e].what = "text"} = (p + 1)..(q - 1)
  <2>1. (p + 1)..(q - 1) \subseteq 1..Len(t)
    BY <1>1, <1>2, <1>5
  <2> QED BY <1>2, <1>7, <2>1
<1>10. \A e \in (p + 1)..(q - 1) : t[e].row = t[p + 1].row + (e - p - 1)
  <2>1. \A e \in (p + 1)..(q - 1) : e \in 1..Len(b) /\ e \in (p + 1)..Len(b)
    BY <1>1, <1>5
  <2> QED BY <1>2, <1>3, <1>5, <2>1 DEF OpenAt
<1>11. Quoted(t)
  <2>1. p \in DOMAIN t /\ q \in DOMAIN t /\ p > 2
    BY <1>2, <1>3, <1>5 DEF OpenAt
  <2> QED BY <1>5, <1>6, <1>8, <1>9, <1>10, <2>1, Zenon DEF Quoted
<1>12. Has(t, "text")
  <2>1. p + 1 \in (p + 1)..(q - 1)
    BY <1>1, <1>3, <1>5 DEF OpenAt
  <2>2. p + 1 \in DOMAIN t /\ t[p + 1].what = "text"
    BY <1>9, <2>1
  <2> QED BY <2>2 DEF Has
<1> QED BY <1>11, <1>12 DEF t

\* A line handed over that TextQuoted allows; e says that a text was empty.
TextLine(t, e) == /\ Has(t, "text") => Quoted(t)
                  /\ Has(t, "quote") /\ ~Has(t, "text") => e

\* The lines handed over are allowed, but for the last when the input is over.
Fine(ls, over, e) ==
  \A k \in 1..Len(ls) : ~(over /\ k = Len(ls)) => TextLine(ls[k].text, e)

LEMMA BareFacts ==
  /\ Bare \subseteq Tokens /\ \A t \in Seq(Bare) : t \in Seq(Tokens)
  /\ Mark("newline") \in Seq(Bare) /\ RowStart \in Seq(Bare) /\ <<>> \in Seq(Bare)
<1>1. Bare \subseteq Tokens
  BY DEF Bare
<1>2. \A t \in Seq(Bare) : t \in Seq(Tokens)
  BY <1>1, WiderFacts
<1>3. Token("newline", 0, None) \in Bare /\ Token("id", 0, None) \in Bare
  BY DEF Token, Tokens, Bare
<1>4. \A t \in Bare : <<t>> \in Seq(Bare)
  OBVIOUS
<1>5. Mark("newline") \in Seq(Bare) /\ Mark("id") \in Seq(Bare)
  BY <1>3, <1>4 DEF Mark
<1>6. <<>> \in Seq(Bare)
  OBVIOUS
<1> QED BY <1>1, <1>2, <1>5, <1>6 DEF RowStart

LEMMA BareLine ==
  ASSUME NEW t \in Seq(Bare), NEW e
  PROVE  ~Has(t, "text") /\ ~Has(t, "quote") /\ TextLine(t, e)
<1>1. \A k \in DOMAIN t : t[k].what \notin {"text", "quote"}
  BY ElementFacts DEF Bare
<1>2. ~Has(t, "text") /\ ~Has(t, "quote")
  BY <1>1 DEF Has
<1> QED BY <1>2 DEF TextLine

LEMMA FineMore ==
  ASSUME NEW ls, NEW over \in BOOLEAN, NEW e \in BOOLEAN, NEW more \in BOOLEAN, NEW g \in BOOLEAN,
         Fine(ls, over, e), over => more, e => g
  PROVE  Fine(ls, more, g)
<1>1. \A t : TextLine(t, e) => TextLine(t, g)
  BY Zenon DEF TextLine
<1> QED BY <1>1, Zenon DEF Fine

LEMMA FineAppend ==
  ASSUME NEW ls \in Seq(OutLines), NEW l \in OutLines, NEW over \in BOOLEAN, NEW e \in BOOLEAN,
         Fine(ls, FALSE, e), over \/ TextLine(l.text, e)
  PROVE  Fine(Append(ls, l), over, e)
<1> DEFINE u == Append(ls, l)
<1>1. /\ Len(ls) \in Nat /\ Len(u) = Len(ls) + 1 /\ u[Len(ls) + 1] = l
      /\ \A k \in 1..Len(ls) : u[k] = ls[k]
  BY AppendFacts
<1> HIDE DEF u
<1>2. ASSUME NEW k \in 1..Len(u), ~(over /\ k = Len(u)) PROVE TextLine(u[k].text, e)
  <2>1. CASE k \in 1..Len(ls)
    <3>1. u[k] = ls[k]
      BY <1>1, <2>1
    <3>2. TextLine(ls[k].text, e)
      BY <2>1, Zenon DEF Fine
    <3> QED BY <3>1, <3>2
  <2>2. CASE k = Len(u)
    <3>1. u[k] = l /\ ~over
      BY <1>1, <1>2, <2>2
    <3> QED BY <3>1
  <2>3. k \in 1..Len(ls) \/ k = Len(u)
    BY <1>1
  <2> QED BY <2>1, <2>2, <2>3
<1>3. Fine(u, over, e)
  BY <1>2, Zenon DEF Fine
<1> QED BY <1>3 DEF u

\* The line that ends a row.
LEMMA LineHanded ==
  ASSUME NEW o \in Outputs, NEW f \in Names, NEW ts \in Seq(Tokens)
  PROVE  \E l \in OutLines : /\ WriteLine(o, f, ts).lines = Append(o.lines, l)
                             /\ l.text = o.buffer \o (ts \o Mark("newline"))
<1> DEFINE u == ts \o Mark("newline")
           w == Write(o, f, u)
           l == [name |-> w.lastname, text |-> w.buffer]
<1>1. u \in Seq(Tokens)
  BY MarkFacts, JoinFacts
<1> HIDE DEF u
<1>2. w \in Outputs /\ w.lastname \in Names
  BY <1>1, WriteFacts
<1>3. w.buffer = o.buffer \o u /\ w.lines = o.lines
  BY <1>1, WriteLineCallback
<1> HIDE DEF w
<1>4. EndLine(w).lines = Append(w.lines, l) /\ l \in OutLines
  BY <1>2, EndLineCallback
<1>5. l.text = w.buffer
  OBVIOUS
<1> HIDE DEF l
<1>6. WriteLine(o, f, ts) = EndLine(w)
  BY DEF WriteLine, w, u
<1> QED BY <1>3, <1>4, <1>5, <1>6 DEF u

\* A row of no text ends.
LEMMA BareLineHanded ==
  ASSUME NEW o \in Outputs, NEW f \in Names, NEW ts \in Seq(Bare), NEW e \in BOOLEAN,
         o.buffer \in Seq(Bare), Fine(o.lines, FALSE, e)
  PROVE  /\ Fine(WriteLine(o, f, ts).lines, FALSE, e)
         /\ WriteLine(o, f, ts) \in Outputs /\ WriteLine(o, f, ts).buffer = <<>>
         /\ WriteLine(o, f, ts).buffer \in Seq(Bare)
<1>1. ts \in Seq(Tokens) /\ o.lines \in Seq(OutLines)
  BY BareFacts, FieldFacts DEF OutLines
<1>2. PICK l \in OutLines : /\ WriteLine(o, f, ts).lines = Append(o.lines, l)
                            /\ l.text = o.buffer \o (ts \o Mark("newline"))
  BY <1>1, LineHanded
<1>3. l.text \in Seq(Bare)
  <2>1. ts \o Mark("newline") \in Seq(Bare)
    BY BareFacts, JoinFacts
  <2> QED BY <1>2, <2>1, JoinFacts
<1>4. Fine(WriteLine(o, f, ts).lines, FALSE, e)
  BY <1>1, <1>2, <1>3, BareLine, FineAppend
<1>5. WriteLine(o, f, ts) \in Outputs /\ WriteLine(o, f, ts).buffer = <<>>
  BY <1>1, WriteLineFacts
<1>6. <<>> \in Seq(Bare)
  OBVIOUS
<1> QED BY <1>4, <1>5, <1>6

\* A row is bare, and ends with a cell when it has two fields or more.
LEMMA BareRow ==
  ASSUME TypeOK, CacheTrue, n > 0, line.read >= 2
  PROVE  /\ RowTokens \in Seq(Bare) /\ AfterCell(RowTokens, n + 1)
<1>1. /\ n \in Nat /\ line.read - 1 \in Nat /\ line.read - 1 >= 1
      /\ formNow \in Forms \cup {None} /\ mappingNow \in Forms \cup {None}
  BY LineFacts, CacheFacts
<1>2. /\ Token("form", n, formNow) \in Bare /\ Token("cell", n, mappingNow) \in Bare
      /\ Token("cell", n, mappingNow).what = "cell" /\ Token("cell", n, mappingNow).row = n
  BY <1>1 DEF Token, Tokens, Bare
<1> DEFINE form == <<Token("form", n, formNow)>>
           cells == [c \in 1..(line.read - 1) |-> Token("cell", n, mappingNow)]
<1>3. form \in Seq(Bare) /\ cells \in Seq(Bare)
  BY <1>1, <1>2
<1>4. /\ Len(cells) = line.read - 1
      /\ \A c \in 1..Len(cells) : cells[c].what = "cell" /\ cells[c].row = n
  BY <1>1, <1>2
<1>5. RowTokens = (RowStart \o form) \o cells
  BY DEF RowTokens
<1> HIDE DEF form, cells
<1> DEFINE s == RowStart \o form
<1>6. s \in Seq(Bare) /\ Len(s) \in Nat
  BY <1>3, BareFacts, JoinFacts, ElementFacts
<1> HIDE DEF s
<1>7. /\ s \o cells \in Seq(Bare) /\ Len(s \o cells) = Len(s) + Len(cells)
      /\ \A c \in 1..Len(cells) : (s \o cells)[Len(s) + c] = cells[c]
  BY <1>3, <1>6, JoinFacts
<1>8. Len(cells) \in 1..Len(cells) /\ Len(s) + Len(cells) > 0
  BY <1>1, <1>4, <1>6
<1>9. AfterCell(s \o cells, n + 1)
  BY <1>1, <1>4, <1>7, <1>8 DEF AfterCell
<1> QED BY <1>5, <1>7, <1>9 DEF s

LEMMA BareWithRow ==
  ASSUME TypeOK, CacheTrue, n > 0, line.read >= 2, NEW f \in Names, NEW e \in BOOLEAN,
         out.buffer \in Seq(Bare), Fine(out.lines, FALSE, e)
  PROVE  /\ Fine(WithRow(f).lines, FALSE, e)
         /\ WithRow(f).buffer \in Seq(Bare) /\ AfterCell(WithRow(f).buffer, n + 1)
         /\ Fine(EndRow(WithRow(f), f, <<>>).lines, FALSE, e)
         /\ EndRow(WithRow(f), f, <<>>).buffer \in Seq(Bare)
<1> DEFINE o == WithHeaders(f)
<1>1. out \in Outputs /\ n \in Nat
  BY LineFacts DEF TypeOK
<1>2. o \in Outputs /\ o.buffer \in Seq(Bare) /\ Fine(o.lines, FALSE, e)
  <2>1. CASE IsNew(f)
    <3> DEFINE h == RowStart \o <<Token("headers", 0, mappingNow)>>
    <3>1. Token("headers", 0, mappingNow) \in Bare
      BY CacheFacts DEF Token, Tokens, Bare
    <3>2. <<Token("headers", 0, mappingNow)>> \in Seq(Bare)
      BY <3>1
    <3>3. h \in Seq(Bare)
      BY <3>2, BareFacts, JoinFacts
    <3>4. o = WriteLine(out, f, h)
      BY <2>1 DEF WithHeaders
    <3> HIDE DEF h, o
    <3> QED BY <1>1, <3>3, <3>4, BareLineHanded
  <2>2. CASE ~IsNew(f)
    BY <1>1, <2>2 DEF WithHeaders
  <2> QED BY <2>1, <2>2
<1>3. WithRow(f) = Write(o, f, RowTokens)
  BY DEF WithRow
<1> HIDE DEF o
<1>4. RowTokens \in Seq(Bare) /\ RowTokens \in Seq(Tokens) /\ AfterCell(RowTokens, n + 1)
  BY BareRow, BareFacts
<1>5. WithRow(f).buffer = o.buffer \o RowTokens /\ WithRow(f).lines = o.lines
  BY <1>2, <1>3, <1>4, WriteLineCallback
<1>6. /\ o.buffer \o RowTokens \in Seq(Bare)
      /\ Len(o.buffer \o RowTokens) = Len(o.buffer) + Len(RowTokens)
      /\ \A c \in 1..Len(RowTokens) : (o.buffer \o RowTokens)[Len(o.buffer) + c] = RowTokens[c]
  BY <1>2, <1>4, JoinFacts
<1>7. AfterCell(o.buffer \o RowTokens, n + 1)
  <2>1. Len(RowTokens) \in 1..Len(RowTokens) /\ Len(o.buffer) \in Nat
    BY <1>2, <1>4, ElementFacts DEF AfterCell
  <2>2. Len(o.buffer) + Len(RowTokens) > 0
    BY <2>1
  <2>3. (o.buffer \o RowTokens)[Len(o.buffer \o RowTokens)] = RowTokens[Len(RowTokens)]
    BY <1>6, <2>1
  <2> QED BY <1>4, <1>6, <2>2, <2>3 DEF AfterCell
<1>8. WithRow(f) \in Outputs
  <2>1. line.read >= 1
    BY LineFacts
  <2> QED BY <2>1, WithRowFacts DEF Wrote
<1>9. /\ Fine(WriteLine(WithRow(f), f, <<>>).lines, FALSE, e)
      /\ WriteLine(WithRow(f), f, <<>>).buffer \in Seq(Bare)
  BY <1>2, <1>5, <1>6, <1>8, BareFacts, BareLineHanded
<1> QED BY <1>2, <1>5, <1>6, <1>7, <1>9, EndRowFacts

\* Where the text stands while parseF99Text runs.
TextState ==
  \/ first /\ out.buffer \in Seq(Bare) /\ AfterCell(out.buffer, n + 1)
       /\ (f99Mode => seen[n].kind = "begin")
  \/ f99Mode /\ ~first /\ OpenText(out.buffer, n)

TextInv ==
  /\ keys \in Seq(Bare)
  /\ pc \in {"header", "version", "legacy", "parse", "f99"} => ~ended
  /\ Fine(out.lines, ended, EmptyText)
  /\ pc # "f99" => out.buffer \in Seq(Bare)
  /\ pc = "f99" => TextState

LEMMA EmptyGrows ==
  ASSUME TypeOK, GrabNothing \/ (\E l \in AllLines : Grab(l)) \/ UNCHANGED inputVars
  PROVE  /\ EmptyText \in BOOLEAN /\ EmptyText' \in BOOLEAN /\ (EmptyText => EmptyText')
         /\ ended \in BOOLEAN /\ ended' \in BOOLEAN /\ (ended => ended')
<1>1. n \in Nat /\ n' \in Nat /\ n' \in {n, n + 1}
  BY InputFacts
<1>2. \A k \in 1..n : seen'[k] = seen[k]
  BY GrabFacts, GrabNothingFacts DEF inputVars
<1>3. ASSUME NEW k \in 1..(n - 1), seen[k].kind = "begin", seen[k + 1].kind = "end"
      PROVE  k \in 1..(n' - 1) /\ seen'[k].kind = "begin" /\ seen'[k + 1].kind = "end"
  <2>1. PICK m \in Nat, h \in Nat : m = n /\ h = n' /\ h \in {m, m + 1}
    BY <1>1
  <2>2. k \in 1..(m - 1)
    BY <2>1
  <2>3. k \in 1..m /\ k + 1 \in 1..m /\ k \in 1..(h - 1)
    <3>1. h >= m
      BY <2>1
    <3> QED BY <2>2, <3>1
  <2>4. k \in 1..n /\ k + 1 \in 1..n /\ k \in 1..(n' - 1)
    BY <2>1, <2>3
  <2> QED BY <1>2, <1>3, <2>4
<1>4. EmptyText => EmptyText'
  BY <1>3 DEF EmptyText
<1>5. EmptyText \in BOOLEAN /\ EmptyText' \in BOOLEAN
  BY DEF EmptyText
<1>6. ended \in BOOLEAN /\ ended' \in BOOLEAN /\ (ended => ended')
  BY InputFacts DEF TypeOK, Grab, GrabNothing, inputVars
<1> QED BY <1>4, <1>5, <1>6

LEMMA TextInit == Init => TextInv
<1> SUFFICES ASSUME Init PROVE TextInv
  OBVIOUS
<1>1. out.lines = <<>> /\ out.buffer = <<>> /\ keys = <<>> /\ pc = "start"
  BY DEF Init, Empty
<1>2. Fine(<<>>, ended, EmptyText)
  BY DEF Fine
<1> QED BY <1>1, <1>2, BareFacts DEF TextInv

LEMMA TextEarly == ASSUME InvA, TextInv, EarlyStep PROVE TextInv'
<1>1. /\ out \in Outputs /\ Header \in Names /\ keys \in Seq(Bare)
      /\ out.buffer \in Seq(Bare) /\ Fine(out.lines, ended, EmptyText)
  BY NamesFacts DEF InvA, TypeOK, TextInv, EarlyStep, GrabFirst, HeaderVersion, HeaderRow,
     LegacyHeader, LegacyKey, LegacyCounts, LegacyEnd
<1>2. /\ EmptyText \in BOOLEAN /\ EmptyText' \in BOOLEAN /\ (EmptyText => EmptyText')
      /\ ended \in BOOLEAN /\ ended' \in BOOLEAN /\ (ended => ended')
  BY EarlyInput, EmptyGrows DEF InvA
<1>3. Fine(out.lines, ended', EmptyText')
  BY <1>1, <1>2, FineMore
<1>4. CASE GrabFirst \/ HeaderVersion \/ LegacyCounts
  <2>1. out' = out /\ keys' = keys /\ pc' # "f99" /\ pc' # "parse"
    BY <1>4 DEF GrabFirst, HeaderVersion, LegacyCounts, TextInv
  <2>2. pc' \in {"header", "version", "legacy"} => ~ended'
    BY <1>4 DEF GrabFirst, HeaderVersion, LegacyCounts, TextInv, Grab, inputVars
  <2> QED BY <1>1, <1>3, <2>1, <2>2 DEF TextInv
<1>5. CASE HeaderRow
  <2>1. n > 0 /\ ~ended /\ ended' = ended /\ keys' = keys /\ pc' \in {"failed", "loop"}
    BY <1>5 DEF InvA, TypeOK, HeaderRow, TextInv, inputVars
  <2>2. CASE ParseUnmapped
    <3>1. out' = out
      BY <2>2 DEF ParseUnmapped
    <3> QED BY <1>1, <1>3, <2>1, <3>1 DEF TextInv
  <2>3. CASE ParseTwo(Header) \/ ParseFull(Header, TRUE)
    <3>1. line.read >= 2 /\ line.read > 0
      BY <2>1, <2>3, LineFacts DEF InvA, ParseFull, ParseTwo
    <3>2. File(Header) = Header
      BY <2>1, <3>1, FileFacts DEF InvA
    <3>3. Fine(out.lines, FALSE, EmptyText')
      BY <1>2, <1>3, <2>1, FineMore
    <3>4. /\ Fine(WithRow(Header).lines, FALSE, EmptyText')
          /\ WithRow(Header).buffer \in Seq(Bare)
          /\ Fine(EndRow(WithRow(Header), Header, <<>>).lines, FALSE, EmptyText')
          /\ EndRow(WithRow(Header), Header, <<>>).buffer \in Seq(Bare)
      BY <1>1, <1>2, <2>1, <3>1, <3>3, BareWithRow DEF InvA
    <3>5. out' \in {WithRow(Header), EndRow(WithRow(Header), Header, <<>>)}
      BY <2>3, <3>2 DEF ParseTwo, ParseFull
    <3>6. Fine(out'.lines, FALSE, EmptyText') /\ out'.buffer \in Seq(Bare)
      BY <3>4, <3>5
    <3>7. Fine(out'.lines, ended', EmptyText')
      BY <1>2, <3>6, FineMore
    <3> QED BY <1>1, <2>1, <3>6, <3>7 DEF TextInv
  <2> QED BY <1>5, <2>2, <2>3 DEF HeaderRow
<1>6. CASE LegacyHeader
  <2>1. RowStart \in Seq(Bare) /\ RowStart \in Seq(Tokens)
    BY BareFacts
  <2>2. pc' = "legacy" /\ ~ended' /\ keys' = keys
    BY <1>6 DEF LegacyHeader, TextInv, inputVars
  <2>3. /\ Write(out, Header, RowStart).lines = out.lines
        /\ Write(out, Header, RowStart).buffer \in Seq(Bare)
    BY <1>1, <2>1, WriteLineCallback, JoinFacts
  <2>4. out'.lines = out.lines /\ out'.buffer \in Seq(Bare)
    BY <1>1, <1>6, <2>3 DEF LegacyHeader
  <2> QED BY <1>1, <1>3, <2>2, <2>4 DEF TextInv
<1>7. CASE LegacyKey
  <2> DEFINE key == Token("key", n + 1, None)
             val == Token("value", n + 1, None)
  <2>1. key \in Bare /\ val \in Bare
    BY LineFacts DEF InvA, Token, Tokens, Bare
  <2>2. out' = Write(out, Header, <<key>>) /\ keys' = Append(keys, val)
    BY <1>7 DEF LegacyKey
  <2>3. pc' = "legacy" /\ ~ended'
    BY <1>7 DEF LegacyKey, Grab
  <2> HIDE DEF key, val
  <2>4. <<key>> \in Seq(Bare) /\ <<key>> \in Seq(Tokens)
    BY <2>1, BareFacts
  <2>5. Append(keys, val) \in Seq(Bare)
    BY <1>1, <2>1, AppendFacts
  <2> DEFINE k == <<key>>
  <2> HIDE DEF k
  <2>6. /\ Write(out, Header, k).lines = out.lines
        /\ Write(out, Header, k).buffer \in Seq(Bare)
    <3>1. k \in Seq(Bare) /\ k \in Seq(Tokens)
      BY <2>4 DEF k
    <3> QED BY <1>1, <3>1, WriteLineCallback, JoinFacts
  <2>7. out' = Write(out, Header, k)
    BY <2>2 DEF k
  <2> QED BY <1>3, <2>2, <2>3, <2>5, <2>6, <2>7 DEF TextInv
<1>8. CASE LegacyEnd
  <2> DEFINE z == <<>>
             o == WriteLine(out, Header, z)
             k == RowStart \o keys
  <2>1. z \in Seq(Bare) /\ k \in Seq(Bare)
    BY <1>1, BareFacts, JoinFacts
  <2>2. out' = WriteLine(o, Header, k) /\ pc' = "loop" /\ keys' = keys /\ ~ended
    BY <1>8 DEF LegacyEnd, TextInv
  <2> HIDE DEF z, k
  <2>3. Fine(out.lines, FALSE, EmptyText)
    BY <1>1, <1>2, <2>2, FineMore
  <2>4. o \in Outputs /\ o.buffer \in Seq(Bare) /\ Fine(o.lines, FALSE, EmptyText)
    BY <1>1, <1>2, <2>1, <2>3, BareLineHanded
  <2> HIDE DEF o
  <2>5. Fine(out'.lines, FALSE, EmptyText) /\ out'.buffer \in Seq(Bare)
    BY <1>1, <1>2, <2>1, <2>2, <2>4, BareLineHanded
  <2>6. Fine(out'.lines, ended', EmptyText')
    BY <1>2, <2>5, FineMore
  <2> QED BY <1>1, <2>2, <2>5, <2>6 DEF TextInv
<1> QED BY <1>4, <1>5, <1>6, <1>7, <1>8 DEF EarlyStep

LEMMA TextParseLine == ASSUME InvA, TextInv, ParseLine PROVE TextInv'
<1>1. /\ n > 0 /\ n \in Nat /\ out \in Outputs /\ n' = n /\ pc = "parse"
      /\ ended' = ended /\ seen' = seen /\ keys' = keys
  BY ParseLineCases, LineFacts DEF InvA, TypeOK, ParseLine, inputVars
<1>2. /\ keys \in Seq(Bare) /\ ~ended /\ out.buffer \in Seq(Bare)
      /\ Fine(out.lines, ended, EmptyText)
  BY <1>1 DEF TextInv
<1>3. /\ EmptyText \in BOOLEAN /\ EmptyText' \in BOOLEAN /\ (EmptyText => EmptyText')
      /\ ended \in BOOLEAN /\ ended' \in BOOLEAN /\ (ended => ended')
  BY <1>1, EmptyGrows DEF InvA, inputVars
<1>4. Fine(out.lines, ended', EmptyText') /\ Fine(out.lines, FALSE, EmptyText')
  BY <1>2, <1>3, FineMore
<1>5. CASE ParseTwo(None) \/ ParseFull(None, FALSE) \/ ParseMismatched(None)
  <2> DEFINE f == File(None)
  <2>1. line.read >= 2 /\ line.read > 0
    BY <1>1, <1>5, LineFacts DEF InvA, ParseTwo, ParseFull, ParseMismatched
  <2>2. f \in Names
    BY <1>1, <2>1, FileFacts DEF InvA
  <2>3. /\ out' \in {WithRow(f), EndRow(WithRow(f), f, <<>>)}
        /\ pc' \in {"loop", "f99"}
        /\ pc' = "f99" => out' = WithRow(f) /\ ~f99Mode' /\ first'
    <3>1. ~(ParseEmpty \/ ParseUnmapped \/ ParseShort \/ ParseCrash(None))
      <4>1. line.read \in Nat /\ line.last \in Nat /\ line.read \in {line.last, line.last + 1}
        BY <1>1, LineFacts DEF InvA
      <4> QED BY <1>5, <2>1, <4>1 DEF ParseTwo, ParseFull, ParseMismatched, ParseEmpty,
                     ParseUnmapped, ParseShort, ParseCrash
    <3>2. CASE ParseTwo(None) /\ pc' = "loop"
      BY <3>2 DEF ParseTwo
    <3>3. CASE ParseFull(None, FALSE) /\ pc' = "loop"
      BY <3>3 DEF ParseFull
    <3>4. CASE ParseMismatched(None) /\ pc' = "f99" /\ f99Mode' = FALSE /\ first' = TRUE
      BY <3>4 DEF ParseMismatched
    <3> HIDE DEF f
    <3> QED BY <3>1, <3>2, <3>3, <3>4 DEF ParseLine
  <2> HIDE DEF f
  <2>4. /\ Fine(WithRow(f).lines, FALSE, EmptyText')
        /\ WithRow(f).buffer \in Seq(Bare) /\ AfterCell(WithRow(f).buffer, n + 1)
        /\ Fine(EndRow(WithRow(f), f, <<>>).lines, FALSE, EmptyText')
        /\ EndRow(WithRow(f), f, <<>>).buffer \in Seq(Bare)
    BY <1>1, <1>2, <1>3, <1>4, <2>1, <2>2, BareWithRow DEF InvA
  <2>5. Fine(out'.lines, FALSE, EmptyText') /\ out'.buffer \in Seq(Bare)
    BY <2>3, <2>4
  <2>6. Fine(out'.lines, ended', EmptyText')
    BY <1>3, <2>5, FineMore
  <2>7. pc' = "f99" => TextState'
    BY <1>1, <2>3, <2>4 DEF TextState
  <2> QED BY <1>1, <1>2, <2>5, <2>6, <2>7 DEF TextInv
<1>6. CASE ~(ParseTwo(None) \/ ParseFull(None, FALSE) \/ ParseMismatched(None))
  <2>1. out' = out /\ pc' \in {"loop", "crashed"}
    BY <1>6 DEF ParseLine, ParseEmpty, ParseUnmapped, ParseShort, ParseCrash
  <2> QED BY <1>1, <1>2, <1>4, <2>1 DEF TextInv
<1> QED BY <1>5, <1>6

LEMMA F99Input ==
  ASSUME InvA, F99Step
  PROVE  /\ pc = "f99" /\ out \in Outputs /\ rowFile \in Names /\ rowFile' = rowFile
         /\ keys' = keys /\ n \in Nat /\ n > 0
         /\ GrabNothing \/ (\E l \in AllLines : Grab(l))
<1>1. keys' = keys
  BY DEF F99Step, F99AtEnd, F99Blank, F99Begin, F99Invalid, F99Text, F99End
<1> QED BY <1>1, F99Cases, NamesFacts, LineFacts DEF InvA, TypeOK

\* The end of a row without a text, or of one whose text is over.
LEMMA TextF99Ends ==
  ASSUME InvA, TextInv, F99AtEnd \/ F99Invalid \/ F99End
  PROVE  TextInv'
<1>1. F99Step
  BY DEF F99Step
<1>2. /\ pc = "f99" /\ out \in Outputs /\ rowFile \in Names /\ keys' = keys
      /\ n \in Nat /\ n > 0 /\ pc' \in {"loop", "parse"}
  BY <1>1, F99Input DEF F99AtEnd, F99Invalid, F99End, AfterInvalid
<1>3. /\ keys \in Seq(Bare) /\ ~ended /\ TextState /\ Fine(out.lines, ended, EmptyText)
  BY <1>2 DEF TextInv
<1>4. /\ EmptyText \in BOOLEAN /\ EmptyText' \in BOOLEAN /\ (EmptyText => EmptyText')
      /\ ended \in BOOLEAN /\ ended' \in BOOLEAN /\ (ended => ended')
  BY <1>1, F99Input, EmptyGrows DEF InvA
<1>5. Fine(out.lines, FALSE, EmptyText')
  BY <1>3, <1>4, FineMore
<1>6. out.buffer \in Seq(Tokens) /\ out.lines \in Seq(OutLines)
  BY <1>2, FieldFacts DEF OutLines
<1>7. CASE F99AtEnd
  <2> DEFINE z == <<>>
  <2>1. out' = WriteLine(out, rowFile, z) /\ ended' /\ pc' = "loop"
    BY <1>7, EndRowFacts DEF F99AtEnd, GrabNothing
  <2>2. z \in Seq(Tokens)
    OBVIOUS
  <2> HIDE DEF z
  <2>3. PICK l \in OutLines : out'.lines = Append(out.lines, l)
    BY <1>2, <2>1, <2>2, LineHanded
  <2>4. Fine(Append(out.lines, l), ended', EmptyText')
    BY <1>4, <1>5, <1>6, <2>1, FineAppend
  <2>5. out'.buffer = <<>>
    BY <1>2, <2>1, <2>2, WriteLineFacts
  <2> QED BY <1>2, <1>3, <2>1, <2>3, <2>4, <2>5, BareFacts DEF TextInv
<1>8. CASE F99Invalid
  <2> DEFINE z == <<>>
  <2>1. out' = WriteLine(out, rowFile, z) /\ ~ended' /\ pc' = "parse" /\ ~f99Mode
    BY <1>8, EndRowFacts DEF F99Invalid, Grab, AfterInvalid
  <2>2. z \in Seq(Bare)
    BY BareFacts
  <2> HIDE DEF z
  <2>3. out.buffer \in Seq(Bare)
    BY <1>3, <2>1 DEF TextState
  <2>4. /\ Fine(out'.lines, FALSE, EmptyText') /\ out'.buffer \in Seq(Bare)
    BY <1>2, <1>4, <1>5, <2>1, <2>2, <2>3, BareLineHanded
  <2>5. Fine(out'.lines, ended', EmptyText')
    BY <1>4, <2>4, FineMore
  <2> QED BY <1>2, <1>3, <2>1, <2>4, <2>5 DEF TextInv
<1>9. CASE F99End
  <2> DEFINE q == Mark("quote")
  <2>1. out' = WriteLine(out, rowFile, q) /\ ~ended' /\ pc' = "loop" /\ f99Mode
    BY <1>9, EndRowFacts DEF F99End, Grab
  <2>2. q \in Seq(Tokens) /\ q \o Mark("newline") = Closed
    BY MarkFacts DEF Closed
  <2> HIDE DEF q
  <2>3. PICK l \in OutLines : /\ out'.lines = Append(out.lines, l)
                              /\ l.text = out.buffer \o Closed
    BY <1>2, <2>1, <2>2, LineHanded
  <2>4. ASSUME first PROVE TextLine(l.text, EmptyText')
    <3>1. out.buffer \in Seq(Bare) /\ seen[n].kind = "begin"
      BY <1>3, <2>1, <2>4 DEF TextState
    <3>2. EmptyText'
      <4>1. PICK x \in AllLines : x.kind = "end" /\ Grab(x)
        BY <1>9 DEF F99End, AllLines
      <4>2. seen' = Append(seen, x) /\ n' = n + 1 /\ (\A k \in 1..n : seen'[k] = seen[k])
        BY <4>1, GrabFacts DEF InvA, Grab
      <4>3. seen'[n + 1] = x
        BY <4>2, AppendFacts DEF InvA, TypeOK, AllLines, n
      <4>4. n \in 1..n /\ n \in 1..(n' - 1)
        <5>1. PICK m \in Nat : m = n /\ m > 0
          BY <1>2
        <5>2. m \in 1..m /\ m \in 1..((m + 1) - 1)
          BY <5>1
        <5> QED BY <4>2, <5>1, <5>2
      <4> QED BY <3>1, <4>1, <4>2, <4>3, <4>4 DEF EmptyText
    <3>3. ~Has(l.text, "text")
      <4>1. \A e \in 1..Len(out.buffer) : out.buffer[e].what \notin {"text", "quote"}
        BY <3>1, ElementFacts DEF Bare
      <4>2. /\ DOMAIN l.text = 1..(Len(out.buffer) + 2) /\ Len(out.buffer) \in Nat
            /\ \A e \in 1..Len(out.buffer) : l.text[e] = out.buffer[e]
            /\ l.text[Len(out.buffer) + 1] = Closed[1]
            /\ l.text[Len(out.buffer) + 2] = Closed[2]
        <5> DEFINE u == out.buffer \o Closed
        <5>1. /\ u \in Seq(Tokens) /\ Len(u) = Len(out.buffer) + Len(Closed)
              /\ (\A e \in 1..Len(out.buffer) : u[e] = out.buffer[e])
              /\ (\A e \in 1..Len(Closed) : u[Len(out.buffer) + e] = Closed[e])
          BY <1>6, ClosedFacts, JoinFacts
        <5>2. Len(Closed) = 2 /\ 1 \in 1..Len(Closed) /\ 2 \in 1..Len(Closed)
          BY ClosedFacts
        <5> HIDE DEF u
        <5>3. DOMAIN u = 1..Len(u) /\ Len(out.buffer) \in Nat
          BY <1>6, <5>1, ElementFacts
        <5>4. l.text = u
          BY <2>3 DEF u
        <5> QED BY <5>1, <5>2, <5>3, <5>4
      <4>3. ASSUME NEW e \in DOMAIN l.text PROVE l.text[e].what # "text"
        <5>1. e \in 1..Len(out.buffer) \/ e = Len(out.buffer) + 1 \/ e = Len(out.buffer) + 2
          BY <4>2
        <5> QED BY <4>1, <4>2, <5>1, ClosedFacts
      <4> QED BY <4>3 DEF Has
    <3> QED BY <3>2, <3>3, Zenon DEF TextLine
  <2>5. ASSUME ~first PROVE TextLine(l.text, EmptyText')
    <3>1. OpenText(out.buffer, n)
      BY <1>3, <2>5 DEF TextState
    <3>2. Quoted(l.text) /\ Has(l.text, "text")
      BY <1>6, <2>3, <3>1, TextCloses
    <3> QED BY <3>2, Zenon DEF TextLine
  <2>6. TextLine(l.text, EmptyText')
    BY <2>4, <2>5
  <2>7. Fine(out'.lines, ended', EmptyText')
    BY <1>4, <1>5, <1>6, <2>3, <2>6, FineAppend
  <2>8. out'.buffer = <<>>
    BY <1>2, <2>1, <2>2, WriteLineFacts
  <2> QED BY <1>2, <1>3, <2>1, <2>7, <2>8, BareFacts DEF TextInv
<1> QED BY <1>7, <1>8, <1>9

\* A line read on behalf of the row.
LEMMA TextF99Goes ==
  ASSUME InvA, TextInv, F99Blank \/ F99Begin \/ F99Text
  PROVE  TextInv'
<1>1. F99Step
  BY DEF F99Step
<1>2. /\ pc = "f99" /\ out \in Outputs /\ rowFile \in Names /\ keys' = keys
      /\ n \in Nat /\ n > 0 /\ pc' = "f99" /\ ~ended' /\ n' = n + 1
  <2>1. n' = n + 1
    BY GrabFacts DEF InvA, F99Blank, F99Begin, F99Text, AllLines
  <2> QED BY <1>1, <2>1, F99Input DEF F99Blank, F99Begin, F99Text, Grab
<1>3. /\ keys \in Seq(Bare) /\ ~ended /\ TextState /\ Fine(out.lines, ended, EmptyText)
  BY <1>2 DEF TextInv
<1>4. /\ EmptyText \in BOOLEAN /\ EmptyText' \in BOOLEAN /\ (EmptyText => EmptyText')
      /\ ended \in BOOLEAN /\ ended' \in BOOLEAN /\ (ended => ended')
  BY <1>1, F99Input, EmptyGrows DEF InvA
<1>5. Fine(out.lines, ended', EmptyText')
  BY <1>3, <1>4, FineMore
<1>6. out.buffer \in Seq(Tokens)
  BY <1>2, FieldFacts
<1>7. AfterCell(out.buffer, n + 1) => AfterCell(out.buffer, (n + 1) + 1)
  <2> DEFINE b == out.buffer
             x == b[Len(b)]
  <2>1. ASSUME Len(b) > 0 PROVE x.row \in Nat
    <3>1. x \in Tokens
      BY <1>6, <2>1, ElementFacts
    <3> HIDE DEF x
    <3> QED BY <3>1 DEF Tokens
  <2> HIDE DEF x
  <2>2. Len(b) > 0 /\ x.row < n + 1 => x.row < (n + 1) + 1
    BY <1>2, <2>1
  <2> QED BY <2>2 DEF AfterCell, x
<1>8. CASE F99Blank
  <2>1. out' = out /\ f99Mode' = f99Mode /\ first' = first /\ ~f99Mode
    BY <1>8 DEF F99Blank, f99Vars
  <2>2. TextState'
    BY <1>2, <1>3, <1>7, <2>1 DEF TextState
  <2> QED BY <1>2, <1>3, <1>5, <2>1, <2>2 DEF TextInv
<1>9. CASE F99Begin
  <2>1. out' = out /\ f99Mode' /\ first' = first /\ ~f99Mode
    BY <1>9 DEF F99Begin
  <2>2. seen'[n'].kind = "begin"
    <3>1. PICK x \in AllLines : x.kind = "begin" /\ Grab(x)
      BY <1>9 DEF F99Begin, AllLines
    <3>2. seen'[n + 1] = x
      BY <3>1, AppendFacts DEF InvA, TypeOK, AllLines, n, Grab
    <3> QED BY <1>2, <3>1, <3>2
  <2>3. TextState'
    BY <1>2, <1>3, <1>7, <2>1, <2>2 DEF TextState
  <2> QED BY <1>2, <1>3, <1>5, <2>1, <2>3 DEF TextInv
<1>10. CASE F99Text
  <2> DEFINE ts == Opening \o <<Token("text", n + 1, None)>>
  <2>1. out' = Write(out, rowFile, ts) /\ f99Mode' = f99Mode /\ first' = FALSE /\ f99Mode
    BY <1>10 DEF F99Text
  <2>2. /\ ts \in Seq(Tokens)
        /\ (first => ts = Opened \o Line(n + 1)) /\ (~first => ts = Line(n + 1))
    <3>1. CASE first
      <4>1. ts = Opened \o Line(n + 1)
        BY <3>1 DEF Opening, Opened, Line
      <4> HIDE DEF ts
      <4> QED BY <1>2, <3>1, <4>1, OpenedFacts
    <3>2. CASE ~first
      <4>1. ts = <<>> \o Line(n + 1)
        BY <3>2 DEF Opening, Line
      <4>2. Line(n + 1) \in Seq(Tokens)
        BY <1>2, LineTokens
      <4> HIDE DEF ts
      <4> QED BY <3>2, <4>1, <4>2
    <3> QED BY <3>1, <3>2
  <2> HIDE DEF ts
  <2>3. out'.buffer = out.buffer \o ts /\ out'.lines = out.lines
    BY <1>2, <2>1, <2>2, WriteLineCallback
  <2>4. OpenText(out.buffer \o ts, n + 1)
    <3>1. CASE first
      <4>1. out.buffer \in Seq(Bare) /\ AfterCell(out.buffer, n + 1)
        BY <1>3, <3>1 DEF TextState
      <4>2. PICK m \in Nat : m = n + 1
        BY <1>2
      <4>3. OpenText(out.buffer \o (Opened \o Line(m)), m)
        BY <4>1, <4>2, TextOpens
      <4> QED BY <2>2, <3>1, <4>2, <4>3
    <3>2. CASE ~first
      <4>1. OpenText(out.buffer, n)
        BY <1>3, <3>2 DEF TextState
      <4> QED BY <1>2, <1>6, <2>2, <3>2, <4>1, TextGrows
    <3> QED BY <3>1, <3>2
  <2>5. TextState'
    BY <1>2, <2>1, <2>3, <2>4 DEF TextState
  <2> QED BY <1>2, <1>3, <1>5, <2>3, <2>5 DEF TextInv
<1> QED BY <1>8, <1>9, <1>10

LEMMA TextStep == ASSUME InvA, TextInv, [Next]_vars PROVE TextInv'
<1>1. CASE GrabLine
  <2>1. /\ pc = "loop" /\ pc' \in {"parse", "done"} /\ out' = out /\ keys' = keys
        /\ GrabNothing \/ (\E l \in AllLines : Grab(l))
        /\ (pc' = "parse" => ~ended')
    BY <1>1 DEF GrabLine, AtEndOfInput, AllLines, Grab
  <2>2. /\ EmptyText \in BOOLEAN /\ EmptyText' \in BOOLEAN /\ (EmptyText => EmptyText')
        /\ ended \in BOOLEAN /\ ended' \in BOOLEAN /\ (ended => ended')
    BY <2>1, EmptyGrows DEF InvA
  <2>3. Fine(out.lines, ended', EmptyText')
    BY <2>2, FineMore DEF TextInv
  <2> QED BY <2>1, <2>3 DEF TextInv
<1>2. CASE UNCHANGED vars
  <2>1. /\ out' = out /\ keys' = keys /\ pc' = pc /\ ended' = ended /\ seen' = seen
        /\ f99Mode' = f99Mode /\ first' = first
    BY <1>2 DEF vars, f99Vars
  <2>2. EmptyText' = EmptyText /\ n' = n
    BY <2>1 DEF EmptyText, n
  <2> QED BY <2>1, <2>2 DEF TextInv, TextState
<1>3. CASE F99Step
  BY <1>3, TextF99Ends, TextF99Goes DEF F99Step
<1> QED BY <1>1, <1>2, <1>3, NextCases, TextEarly, TextParseLine

\* In every filing a text of any number of lines is one quoted field at the end of
\* the row it follows, with all its lines and nothing else between the quotes: no
\* line handed over but the last, cut by the end of the input, has an open quote, a
\* second one, or text outside (fec.c:466-516).
THEOREM TextAlwaysQuoted == Spec => []TextQuoted
<1>1. Spec => [](InvA /\ TextInv)
  BY InvAInit, TextInit, InvAStep, TextStep, PTL DEF Spec
<1>2. InvA /\ TextInv => TextQuoted
  <2> SUFFICES ASSUME InvA, TextInv PROVE TextQuoted
    OBVIOUS
  <2>1. DOMAIN out.lines = 1..Len(out.lines)
    <3>1. out.lines \in Seq(OutLines)
      BY FieldFacts DEF InvA, TypeOK, OutLines
    <3> QED BY <3>1, ElementFacts
  <2> QED BY <2>1, Zenon DEF TextInv, Fine, TextLine, TextQuoted
<1> QED BY <1>1, <1>2, PTL
=============================================================================
