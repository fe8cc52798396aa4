------------------------------- MODULE Parser -------------------------------
(***************************************************************************)
(* Parsing a filing (src/fec.c): the header, then line after line, each    *)
(* looked up by its form type, written as a row of the CSV file of that    *)
(* type, and handed to the line callback.  A row whose number of fields    *)
(* is not the mapped one may be followed by the text of an F99 filing; to  *)
(* find out, the parser grabs the next lines, and what turns out not to be *)
(* text is the line to parse next.                                         *)
(*                                                                         *)
(* A line is a record: what the parser can tell of it.                     *)
(*   kind   "row"; "begin" and "end", the F99 boundaries; "bracket", any   *)
(*          other line that starts with [; "blank"; "legacy", a line that  *)
(*          starts with /*                                                 *)
(*   form   its first field, without whitespace                            *)
(*   last   the columnIndex at which parsing the line ends                 *)
(*   read   how many fields are read: last + 1, or last when the line ends *)
(*          with a delimiter (there is no character left to read a field   *)
(*          from), or 0 for an empty line                                  *)
(* The output is a sequence of tokens per file.  A token has the number of *)
(* the input line it comes from (0 for a header row) and, in "as", the     *)
(* form type written, or the one whose headers or types are used.  How the *)
(* characters of a field are quoted or converted is left out.              *)
(*                                                                         *)
(* An operator written just before another with a similar name, and used   *)
(* nowhere, is a slip the properties must notice.                          *)
(***************************************************************************)
EXTENDS Integers, SequencesExt

CONSTANTS Forms,        \* form types
          Begins,       \* Begins[t]: the form types t begins with, t included
          Versions,     \* FEC versions
          Fields,       \* Fields[v]: number of fields of every type mapped in v
          FirstLines,   \* the lines a filing starts with
          InputLines,   \* the lines it goes on with
          Header,       \* the name of the header's file
          IncludeFilingId,
          Continues(_, _), \* bound: Continues(s, l), line l may follow the lines s
          None          \* NULL

Kinds == {"row", "begin", "end", "bracket", "blank", "legacy"}

ASSUME ParserAssumption ==
  /\ None \notin Forms \cup {Header} \cup Versions
  /\ Header \notin Forms
  /\ Begins \in [Forms -> SUBSET Forms] /\ \A t \in Forms : t \in Begins[t]
  /\ \A v \in Versions : /\ DOMAIN Fields[v] \subseteq Forms
                         /\ \A t \in DOMAIN Fields[v] : Fields[v][t] \in Nat \ {0}
  /\ FirstLines \cup InputLines
       \subseteq [kind : Kinds, form : Forms, last : Nat, read : Nat]
  /\ \A l \in FirstLines \cup InputLines : l.read \in {l.last, l.last + 1}
  /\ IncludeFilingId \in BOOLEAN

VARIABLES seen,     \* the lines grabbed so far; the last one is ctx->line
          ended,    \* the input is over
          pc,
          version,  \* ctx->version
          formType, \* ctx->formType, the key of the cache
          mapping,  \* the type that ctx->headers, types and numFields are for
          rowFile,  \* parseF99Text: the file of the row the text belongs to
          f99Mode, first,
          out,      \* the output: files, and lines of the line callback
          keys,     \* parseHeader: the values kept for the legacy header
          body,     \* history: how many lines the header took
          parsed,   \* history: the lines given to parseLine by parseFec
          taken     \* history: the lines used up by parseF99Text

vars == <<seen, ended, pc, version, formType, mapping, rowFile, f99Mode, first,
          out, keys, body, parsed, taken>>
inputVars == <<seen, ended>>
cacheVars == <<version, formType, mapping>>
f99Vars == <<rowFile, f99Mode, first>>
history == <<body, parsed, taken>>

Names == Forms \cup {Header}
Empty == [files |-> [f \in Names |-> <<>>], opened |-> {}, lastname |-> None,
          buffer |-> <<>>, lines |-> <<>>]

Init == /\ seen = <<>> /\ ended = FALSE
        /\ pc = "start"
        /\ version = None /\ formType = None /\ mapping = None
        /\ rowFile = None /\ f99Mode = FALSE /\ first = TRUE
        /\ out = Empty
        /\ keys = <<>>
        /\ body = 0 /\ parsed = <<>> /\ taken = {}

-----------------------------------------------------------------------------
(* The write context as its client sees it (Writer models its insides).      *)
Token(what, row, as) == [what |-> what, row |-> row, as |-> as]
Mark(what) == <<Token(what, 0, None)>>

Write(o, f, tokens) ==
  [o EXCEPT !.files[f] = @ \o tokens, !.opened = @ \cup {f}, !.lastname = f,
            !.buffer = @ \o tokens]

EndLineKeep(o) ==
  [o EXCEPT !.lines = Append(@, [name |-> o.lastname, text |-> o.buffer])]
EndLine(o) == [o EXCEPT !.lines = Append(@, [name |-> o.lastname, text |-> o.buffer]),
                        !.buffer = <<>>]

WriteLine(o, f, tokens) == EndLine(Write(o, f, tokens \o Mark("newline")))

\* startHeaderRow and startDataRow.
RowStart == IF IncludeFilingId THEN Mark("id") ELSE <<>>

-----------------------------------------------------------------------------
n == Len(seen)
line == seen[n]

Grab(l) == ~ended /\ Continues(seen, l) /\ seen' = Append(seen, l) /\ UNCHANGED ended
GrabNothing == ended' = TRUE /\ UNCHANGED seen

(***************************************************************************)
(* lookupMappings: strncmp over the length of the line's form type, so the *)
(* cache answers for every type the cached one begins with.  A type looked *)
(* up in vain is cached all the same, and the headers stay what they were. *)
(***************************************************************************)
CachedAlways == formType # None
Cached == formType # None /\ line.form \in Begins[formType]

Mapped(t) == version # None /\ t \in DOMAIN Fields[version]
Found == Cached \/ Mapped(line.form)

\* The form type and the headers that the current line leaves in the cache.
formNow == IF line.read = 0 \/ Cached THEN formType ELSE line.form
mappingNowOld == mapping
mappingNow == IF line.read = 0 \/ ~Found \/ Cached THEN mapping ELSE line.form
LookupMappings == formType' = formNow /\ mapping' = mappingNow

numFields == IF mappingNow = None THEN 0 ELSE Fields[version][mappingNow]

(***************************************************************************)
(* parseLine.  The row goes to the file named f, or to that of its form    *)
(* type if f is NULL.  It is begun when a second field is read, and left   *)
(* as it is, without a newline, if there is no third.                      *)
(***************************************************************************)
FileAsGiven(f) == f
File(f) == IF f = None THEN formNow ELSE f

IsNewAlways(f) == TRUE
IsNew(f) == f \notin out.opened

\* A file just opened gets its header row first.
WithHeaders(f) ==
  IF IsNew(f) THEN WriteLine(out, f, RowStart \o <<Token("headers", 0, mappingNow)>>)
              ELSE out

RowTokens == RowStart \o <<Token("form", n, formNow)>>
                      \o [c \in 1..(line.read - 1) |-> Token("cell", n, mappingNow)]

WithRow(f) == Write(WithHeaders(f), f, RowTokens)
EndRowOnly(o, f, tokens) == Write(o, f, tokens \o Mark("newline"))
EndRow(o, f, tokens) == WriteLine(o, f, tokens)

\* No headers were ever loaded and a file needs them: strlen(NULL).
NoHeaders(f) == mappingNow = None /\ IsNew(File(f))

ParseEmpty == line.read = 0 /\ UNCHANGED out
ParseUnmapped == line.read > 0 /\ ~Found /\ UNCHANGED out
ParseShort == line.read = 1 /\ Found /\ UNCHANGED out
ParseCrash(f) == line.read >= 2 /\ Found /\ NoHeaders(f) /\ UNCHANGED out
ParseTwo(f) == /\ line.read = 2 /\ line.last = 1
               /\ Found /\ ~NoHeaders(f)
               /\ out' = WithRow(File(f))
ParseFull(f, headerRow) ==
  /\ line.last >= 2
  /\ Found /\ ~NoHeaders(f)
  /\ line.last + 1 = numFields \/ headerRow
  /\ out' = EndRow(WithRow(File(f)), File(f), <<>>)
ParseMismatched(f) ==
  /\ line.last >= 2
  /\ Found /\ ~NoHeaders(f)
  /\ line.last + 1 # numFields
  /\ out' = WithRow(File(f))

-----------------------------------------------------------------------------
(* parseHeader.                                                              *)
GrabFirst == /\ pc = "start"
             /\ \/ \E l \in FirstLines : Grab(l) /\ pc' = "header"
                \/ GrabNothing /\ pc' = "failed"
             /\ UNCHANGED <<cacheVars, f99Vars, out, keys, history>>

\* The version is in the second field, or in the third if the second is "FEC".
HeaderVersion ==
  /\ pc = "header" /\ line.kind # "legacy"
  /\ \/ line.read <= 2 /\ UNCHANGED version /\ pc' = "loop"
     \/ line.read >= 2 /\ version' \in Versions /\ pc' = "version"
  /\ body' = 1
  /\ UNCHANGED <<inputVars, formType, mapping, f99Vars, out, keys, parsed, taken>>

\* With the version known the header line is parsed as a row.
HeaderRow ==
  /\ pc = "version"
  /\ LookupMappings
  /\ \/ ParseUnmapped /\ pc' = "failed"
     \/ (ParseTwo(Header) \/ ParseFull(Header, TRUE)) /\ pc' = "loop"
  /\ UNCHANGED <<inputVars, version, f99Vars, keys, history>>

LegacyHeader ==
  /\ pc = "header" /\ line.kind = "legacy"
  /\ out' = IF IncludeFilingId THEN Write(out, Header, RowStart) ELSE out
  /\ pc' = "legacy"
  /\ UNCHANGED <<inputVars, cacheVars, f99Vars, keys, history>>

\* A key=value line; the key may be that of the version.
LegacyKey ==
  /\ pc = "legacy"
  /\ \E l \in InputLines : l.kind # "legacy" /\ Grab(l)
  /\ out' = Write(out, Header, <<Token("key", n + 1, None)>>)
  /\ keys' = Append(keys, Token("value", n + 1, None))
  /\ version' \in Versions \cup {version}
  /\ UNCHANGED <<formType, mapping, f99Vars, pc, history>>

\* A schedule_counts line only changes the prefix of the keys that follow.
LegacyCounts ==
  /\ pc = "legacy"
  /\ \E l \in InputLines : l.kind = "row" /\ Grab(l)
  /\ UNCHANGED <<cacheVars, f99Vars, pc, out, keys, history>>

LegacyEnd ==
  /\ pc = "legacy"
  /\ (\E l \in InputLines : l.kind = "legacy" /\ Grab(l)) \/ GrabNothing
  /\ out' = WriteLine(WriteLine(out, Header, <<>>), Header, RowStart \o keys)
  /\ body' = Len(seen')
  /\ pc' = "loop"
  /\ UNCHANGED <<cacheVars, f99Vars, keys, parsed, taken>>

-----------------------------------------------------------------------------
(* parseFec: the loop over the lines.                                        *)
AtEndOfInputAgain == "loop"
AtEndOfInput == "done"

GrabLine == /\ pc = "loop"
            /\ \/ \E l \in InputLines : Grab(l) /\ pc' = "parse"
               \/ GrabNothing /\ pc' = AtEndOfInput
            /\ UNCHANGED <<cacheVars, f99Vars, out, keys, history>>

ParseLine ==
  /\ pc = "parse"
  /\ LookupMappings
  /\ \/ /\ ParseEmpty \/ ParseUnmapped \/ ParseShort \/ ParseTwo(None)
           \/ ParseFull(None, FALSE)
        /\ pc' = "loop"
        /\ UNCHANGED f99Vars
     \/ ParseCrash(None) /\ pc' = "crashed" /\ UNCHANGED f99Vars
     \/ /\ ParseMismatched(None)
        /\ rowFile' = File(None) /\ f99Mode' = FALSE /\ first' = TRUE
        /\ pc' = "f99"
  /\ parsed' = Append(parsed, n)
  /\ UNCHANGED <<inputVars, version, keys, body, taken>>

-----------------------------------------------------------------------------
(* parseF99Text, called for a row with an unexpected number of fields.       *)
F99AtEnd ==
  /\ pc = "f99"
  /\ GrabNothing
  /\ out' = EndRow(out, rowFile, <<>>)
  /\ pc' = "loop"
  /\ UNCHANGED <<cacheVars, f99Vars, keys, history>>

F99Blank ==
  /\ pc = "f99" /\ ~f99Mode
  /\ \E l \in InputLines : l.kind = "blank" /\ Grab(l)
  /\ taken' = taken \cup {n + 1}
  /\ UNCHANGED <<cacheVars, f99Vars, pc, out, keys, body, parsed>>

F99Begin ==
  /\ pc = "f99" /\ ~f99Mode
  /\ \E l \in InputLines : l.kind = "begin" /\ Grab(l)
  /\ f99Mode' = TRUE
  /\ taken' = taken \cup {n + 1}
  /\ UNCHANGED <<cacheVars, rowFile, first, pc, out, keys, body, parsed>>

\* Not a text: the row ends, and the line just grabbed is parsed next.
AfterInvalidGrab == "loop"
AfterInvalid == "parse"

F99Invalid ==
  /\ pc = "f99" /\ ~f99Mode
  /\ \E l \in InputLines : l.kind \notin {"blank", "begin"} /\ Grab(l)
  /\ out' = EndRow(out, rowFile, <<>>)
  /\ pc' = AfterInvalid
  /\ UNCHANGED <<cacheVars, f99Vars, keys, history>>

OpeningAlways == Mark("comma") \o Mark("quote")
Opening == IF first THEN Mark("comma") \o Mark("quote") ELSE <<>>

F99Text ==
  /\ pc = "f99" /\ f99Mode
  /\ \E l \in InputLines : l.kind # "end" /\ Grab(l)
  /\ out' = Write(out, rowFile, Opening \o <<Token("text", n + 1, None)>>)
  /\ first' = FALSE
  /\ taken' = taken \cup {n + 1}
  /\ UNCHANGED <<cacheVars, rowFile, f99Mode, pc, keys, body, parsed>>

F99End ==
  /\ pc = "f99" /\ f99Mode
  /\ \E l \in InputLines : l.kind = "end" /\ Grab(l)
  /\ out' = EndRow(out, rowFile, Mark("quote"))
  /\ f99Mode' = FALSE
  /\ taken' = taken \cup {n + 1}
  /\ pc' = "loop"
  /\ UNCHANGED <<cacheVars, rowFile, first, keys, body, parsed>>

Next == \/ GrabFirst \/ HeaderVersion \/ HeaderRow
        \/ LegacyHeader \/ LegacyKey \/ LegacyCounts \/ LegacyEnd
        \/ GrabLine \/ ParseLine
        \/ F99AtEnd \/ F99Blank \/ F99Begin \/ F99Invalid \/ F99Text \/ F99End

Spec == Init /\ [][Next]_vars
\* The parser never waits but for its input, which is finite.
FairSpec == Spec /\ WF_vars(Next)
-----------------------------------------------------------------------------
Tokens == [what : {"id", "headers", "form", "cell", "key", "value", "comma",
                   "quote", "text", "newline"},
           row : Nat, as : Forms \cup {None}]

Outputs == [files : [Names -> Seq(Tokens)], opened : SUBSET Names,
            lastname : Names \cup {None}, buffer : Seq(Tokens),
            lines : Seq([name : Names, text : Seq(Tokens)])]

\* Every variable has its type.
TypeOK ==
  /\ seen \in Seq(FirstLines \cup InputLines) /\ ended \in BOOLEAN
  /\ pc \in {"start", "header", "version", "legacy", "loop", "parse", "f99",
             "done", "failed", "crashed"}
  /\ version \in Versions \cup {None}
  /\ formType \in Forms \cup {None} /\ mapping \in Forms \cup {None}
  /\ rowFile \in Forms \cup {None} /\ f99Mode \in BOOLEAN /\ first \in BOOLEAN
  /\ out \in Outputs
  /\ keys \in Seq(Tokens)
  /\ body \in 0..n /\ parsed \in Seq(1..n) /\ taken \subseteq 1..n
  /\ pc \notin {"start", "failed"} => n > 0
  /\ pc = "f99" => rowFile # None

\* Every line after the header is parsed as a row or used up as F99 text, one
\* or the other, once and in order: the line grabbed in vain by parseF99Text is
\* the next to be parsed, and no other is parsed twice (fec.c:854-868).
LinesHandled ==
  /\ \A i, j \in DOMAIN parsed : i < j => parsed[i] < parsed[j]
  /\ \A i \in DOMAIN parsed : parsed[i] > body /\ parsed[i] \notin taken
  /\ pc \in {"loop", "f99", "done", "crashed"} =>
       (body + 1)..n = taken \cup {parsed[i] : i \in DOMAIN parsed}
  /\ pc = "parse" =>
       (body + 1)..(n - 1) = taken \cup {parsed[i] : i \in DOMAIN parsed}

\* The headers and types in use are those of the cached form type, unless that
\* type has none of its own (fec.c:94-194).
CacheTrue == /\ formType # None /\ Mapped(formType) => mapping = formType
             /\ mapping # None => Mapped(mapping)

About(f, what) == {i \in DOMAIN out.files[f] : out.files[f][i].what = what}

\* A file of form rows starts with one header row (fec.c:563-571), and in the
\* file of a mapped type the header, the rows and the types that format them
\* all belong to that type.
RowsMatchHeader ==
  \A f \in Forms \cap out.opened :
    /\ About(f, "headers") = {Len(RowStart) + 1}
    /\ Mapped(f) => \A i \in DOMAIN out.files[f] :
                      out.files[f][i].what \in {"headers", "form", "cell"} =>
                        out.files[f][i].as = f

\* A row is written under its own form type or one that begins with it.
RowsKeepPrefix ==
  \A f \in Forms : \A i \in About(f, "form") :
    LET t == out.files[f][i] IN seen[t.row].form \in Begins[t.as] /\ t.as = f

NoTwoFieldLine == \A i \in 1..n : ~(seen[i].read = 2 /\ seen[i].last = 1)
AllEnded == pc \in {"loop", "parse", "done"} =>
              /\ out.buffer = <<>>
              /\ \A f \in out.opened : LET s == out.files[f]
                                       IN  s[Len(s)].what = "newline"

\* When no line has exactly two fields, a row begun is a row ended before the
\* next line is parsed: nothing of it waits in the line callback's buffer.
RowsWhole == NoTwoFieldLine => AllEnded

Texts(s, f) == [i \in DOMAIN s |-> IF s[i].name = f THEN s[i].text ELSE <<>>]
HandedOver(o, f) == FlattenSeq(Texts(o.lines, f))
Balanced(o) ==
  \A f \in Names :
    HandedOver(o, f) \o (IF o.lastname = f THEN o.buffer ELSE <<>>) = o.files[f]

\* When no line has exactly two fields, the lines handed to the line callback
\* under a name are the file of that name, the row being written apart.
LinesAreFiles == NoTwoFieldLine => Balanced(out)

Quoted(t) ==
  \E p, q \in DOMAIN t :
    /\ p < q
    /\ {i \in DOMAIN t : t[i].what = "quote"} = {p, q}
    /\ {i \in DOMAIN t : t[i].what = "text"} = (p + 1)..(q - 1)
    /\ p > 2 /\ t[p - 1].what = "comma" /\ t[p - 2].what = "cell"
    /\ \A i \in (p + 1)..(q - 1) : t[i].row = t[p + 1].row + (i - p - 1)
    /\ t[p - 2].row < t[p + 1].row

Has(t, what) == \E i \in DOMAIN t : t[i].what = what
EmptyText == \E k \in 1..(n - 1) : seen[k].kind = "begin" /\ seen[k + 1].kind = "end"

\* An F99 text is one quoted field at the end of the row it follows: all its
\* lines, consecutive, and nothing else (fec.c:466-516).  Only the last line handed
\* over before the end of the input, which may come within a text, may be cut.  A
\* quote without a text comes only of an empty one: its end boundary closes a
\* quote that no line has opened (fec.c:514).
TextQuoted ==
  \A i \in DOMAIN out.lines :
    ~(ended /\ i = Len(out.lines)) =>
       LET t == out.lines[i].text
       IN  /\ Has(t, "text") => Quoted(t)
           /\ Has(t, "quote") /\ ~Has(t, "text") => EmptyText

\* The parser comes to an end on every filing.
ParseEnds == <>(pc \in {"done", "failed", "crashed"})

-----------------------------------------------------------------------------
(* What comments of the code say and the code does not do.                   *)

\* fec.c:96, "Type mappings are unchanged from before": the cache answers with the
\* mappings of the form type it is asked for, so a row is written under its own form
\* type and by that type's mappings.  There are two ways to break it: a type that
\* the cached one begins with is taken for it (fec.c:94), and a type looked up in
\* vain is cached all the same, with the mappings of another (fec.c:106), against
\* fec.c:523, "Return 3 if we encountered a mappings error".
RowsKeepForm ==
  \A f \in Forms : \A i \in About(f, "form") \cup About(f, "cell") :
    LET t == out.files[f][i] IN t.as = seen[t.row].form

\* fec.c:559, "the line is fully specified, so write": a row that is begun is
\* ended.
RowsEnded == AllEnded
=============================================================================
