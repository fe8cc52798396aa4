---------------------------------- MODULE Csv ----------------------------------
(***************************************************************************)
(* The fields of a line (src/csv.c), as parseLine of src/fec.c reads them  *)
(* and writes them to a row of CSV.  A field of a line with separators of  *)
(* ASCII 28 is what lies between two of them; a CSV field is unescaped in  *)
(* place, the characters after a doubled quote shifted to the left while   *)
(* the rest of the line is still to be read.  parseHeader reads the header *)
(* line until it knows the version and has parseLine read it again.        *)
(*                                                                         *)
(* A character is a string; those not named below are data.  What form     *)
(* types and the number of fields lead to is in Parser; float fields are   *)
(* left to the C library and not modelled.                                 *)
(*                                                                         *)
(* An operator written just before another with a similar name, and used   *)
(* nowhere, is a slip the properties must notice.                          *)
(***************************************************************************)
EXTENDS Integers, SequencesExt

CONSTANTS Chars,       \* the characters lines are made of
          Lines,       \* the lines: records with text and ascii28, and, when they
                       \* are known, the cells the text was made from
          DateColumns  \* the columns of type d

NUL == "NUL"
Newline == "newline"
Separator == "28"
Quote == "quote"
Comma == "comma"
Blank == "blank"

(* A line is made of cells: values, each between quotes or bare, joined by     *)
(* delimiters as RFC 4180 says, or, with separators of ASCII 28, as they are.  *)
Has(t, c) == \E k \in DOMAIN t : t[k] = c
Twice(v) == FlattenSeq([k \in DOMAIN v |-> IF v[k] = Quote THEN <<Quote, Quote>> ELSE <<v[k]>>])
InQuotes(v) == <<Quote>> \o Twice(v) \o <<Quote>>
MayBeBare(v) == ~Has(v, Comma) /\ ~Has(v, Newline) /\ (v = <<>> \/ v[1] # Quote)

Cell(v, q) == [value |-> v, quoted |-> q]
CellText(c) == IF c.quoted THEN InQuotes(c.value) ELSE c.value
IsCell(c, ascii28) ==
  IF ascii28 THEN ~c.quoted /\ ~Has(c.value, Separator) /\ ~Has(c.value, Newline)
             ELSE c.quoted \/ MayBeBare(c.value)

Joined(cells, delimiter) ==
  FlattenSeq([k \in DOMAIN cells |-> IF k = 1 THEN cells[k] ELSE <<delimiter>> \o cells[k]])
Delimiter(ascii28) == IF ascii28 THEN Separator ELSE Comma
TextOf(cells, ascii28) ==
  Joined([k \in DOMAIN cells |-> CellText(cells[k])], Delimiter(ascii28))

IsMade(l) ==
  /\ l.cells \in Seq([value : Seq(Chars), quoted : BOOLEAN]) /\ l.cells # <<>>
  /\ \A k \in DOMAIN l.cells : IsCell(l.cells[k], l.ascii28)
  /\ \E ending \in {<<>>, <<Newline>>} : l.text = TextOf(l.cells, l.ascii28) \o ending

ASSUME CsvAssumption ==
  /\ NUL \notin Chars
  /\ \A l \in Lines : /\ l.text \in Seq(Chars) /\ l.ascii28 \in BOOLEAN
                      /\ l.known \in BOOLEAN /\ (l.known => IsMade(l))
  /\ DateColumns \subseteq Nat \ {0}

VARIABLES line,      \* the line that is read
          str,       \* line->str: its characters, with the NUL
          pc,        \* the function that reads or writes
          position, start, end, columnIndex, \* of PARSE_CONTEXT
          escaped, offset,                   \* of readCsvSubfield
          quotes, commas,                    \* FIELD_INFO
          row,       \* the row of CSV, from its form type on
          again,     \* the line is read for the second time
          original,  \* history: str when this reading began
          fields     \* history: the texts of the fields read

vars == <<line, str, pc, position, start, end, columnIndex, escaped, offset,
          quotes, commas, row, again, original, fields>>
readVars == <<escaped, offset>>
rowVars == <<columnIndex, row, again, original, fields>>

Init == /\ line \in Lines
        /\ str = Append(line.text, NUL) /\ original = str
        /\ pc = "row"
        /\ position = 0 /\ start = 0 /\ end = 0 /\ columnIndex = 0
        /\ escaped = FALSE /\ offset = 0 /\ quotes = 0 /\ commas = 0
        /\ row = <<>> /\ again = FALSE /\ fields = <<>>

At(k) == str[k + 1]
Text(s, e) == SubSeq(str, s + 1, e)
isParseDone(p) == At(p) \in {NUL, Newline}

\* processFieldChar.
IsQuote(c) == IF c = Quote THEN 1 ELSE 0
IsComma(c) == IF c = Comma THEN 1 ELSE 0
Counted(q, k, c) == quotes' = q + IsQuote(c) /\ commas' = k + IsComma(c)

(***************************************************************************)
(* A field is read: stripQuotes takes a pair of quotes off it.  A field of *)
(* one quote is both ends of a pair, and ends before it starts: its length *)
(* is -1 (see DieOfLength).                                                *)
(***************************************************************************)
StripAlways(s, e) == str'[s + 1] = Quote /\ str'[e] = Quote
Strip(s, e) == s # e /\ str'[s + 1] = Quote /\ str'[e] = Quote
EndField(s, e, q) ==
  /\ start' = IF Strip(s, e) THEN s + 1 ELSE s
  /\ end' = IF Strip(s, e) THEN e - 1 ELSE e
  /\ quotes' = IF Strip(s, e) THEN q - 2 ELSE q
  /\ pc' = "field"

-----------------------------------------------------------------------------
\* readAscii28Field: its head, a turn of its loop, its end.
BeginAscii28 == /\ pc = "row" /\ ~isParseDone(position) /\ line.ascii28
                /\ start' = position
                /\ Counted(0, 0, At(position))
                /\ pc' = "ascii28"
                /\ UNCHANGED <<line, str, position, end, readVars, rowVars>>

TakeAscii28 == /\ pc = "ascii28"
               /\ At(position) \notin {NUL, Separator, Newline}
               /\ position' = position + 1
               /\ Counted(quotes, commas, At(position + 1))
               /\ UNCHANGED <<line, str, pc, start, end, readVars, rowVars>>

EndAscii28 == /\ pc = "ascii28"
              /\ At(position) \in {NUL, Separator, Newline}
              /\ UNCHANGED str
              /\ EndField(start, position, quotes)
              /\ UNCHANGED <<line, position, commas, readVars, rowVars>>

-----------------------------------------------------------------------------
\* readCsvSubfield: an empty field, or the head of another one.
EmptyCsv == /\ pc = "row" /\ ~isParseDone(position) /\ ~line.ascii28
            /\ At(position) = Comma
            /\ UNCHANGED str
            /\ EndField(position, position, 0)
            /\ commas' = 0
            /\ UNCHANGED <<line, position, readVars, rowVars>>

BeginCsv == /\ pc = "row" /\ ~isParseDone(position) /\ ~line.ascii28
            /\ At(position) # Comma
            /\ escaped' = (At(position) = Quote)
            /\ position' = IF escaped' THEN position + 1 ELSE position
            /\ start' = position'
            /\ offset' = 0 /\ quotes' = 0 /\ commas' = 0
            /\ pc' = "csv"
            /\ UNCHANGED <<line, str, end, rowVars>>

(***************************************************************************)
(* A turn of the loop of readCsvSubfield begins with the shift.            *)
(***************************************************************************)
ShiftedAhead == [str EXCEPT ![position + offset + 1] = At(position)]
Shifted == IF offset = 0 THEN str
           ELSE [str EXCEPT ![position - offset + 1] = At(position)]

Turn == pc = "csv" /\ str' = Shifted

EndsField(c) == c = NUL \/ (~escaped /\ c \in {Comma, Newline})
Doubled == escaped /\ At(position) = Quote /\ At(position + 1) = Quote
ClosingAny == escaped /\ At(position) = Quote
Closing == escaped /\ At(position) = Quote /\ At(position + 1) # Quote

EndCsv == /\ Turn
          /\ EndsField(At(position))
          /\ EndField(start, position - offset, quotes)
          /\ UNCHANGED <<line, position, commas, readVars, rowVars>>

\* A doubled quote counts once.
SkipQuote == /\ Turn /\ Doubled
             /\ Counted(quotes, commas, Quote)
             /\ position' = position + 2
             /\ offset' = offset + 1
             /\ UNCHANGED <<line, pc, start, end, escaped, rowVars>>

\* The trailing quote is not counted.
CloseCsv == /\ Turn /\ Closing
            /\ EndField(start, position - offset, quotes)
            /\ position' = position + 1
            /\ UNCHANGED <<line, commas, readVars, rowVars>>

TakeCsv == /\ Turn /\ ~EndsField(At(position)) /\ ~(escaped /\ At(position) = Quote)
           /\ Counted(quotes, commas, At(position))
           /\ position' = position + 1
           /\ UNCHANGED <<line, pc, start, end, readVars, rowVars>>

-----------------------------------------------------------------------------
(***************************************************************************)
(* writeField and writeDateField: the text of a field, escaped if it holds *)
(* a comma or a quote.  The form type has its whitespace stripped and is   *)
(* written as it is.  The text of a field of length -1 is empty here: a    *)
(* file gets nothing of it (the loop at writer.c:269 does not turn).       *)
(***************************************************************************)
Double(t) == FlattenSeq([k \in DOMAIN t |-> IF t[k] = Quote THEN <<Quote, Quote>> ELSE <<t[k]>>])

EscapedCommas == commas > 0
Escaped == commas > 0 \/ quotes > 0
Field(t) == LET inside == IF quotes > 0 THEN Double(t) ELSE t
            IN  IF Escaped THEN <<Quote>> \o inside \o <<Quote>> ELSE inside

DateField(t) ==
  IF Len(t) # 8 THEN IF t = <<>> THEN <<>> ELSE Field(t)
  ELSE Field(SubSeq(t, 1, 4)) \o <<"-">> \o Field(SubSeq(t, 5, 6)) \o <<"-">>
         \o Field(SubSeq(t, 7, 8))

\* stripWhitespace.
Whitespace == {Blank, "tab", Newline}
Stripped(t) ==
  LET kept == {k \in 1..Len(t) : t[k] \notin Whitespace}
      first == CHOOSE k \in kept : \A j \in kept : k <= j
      last == CHOOSE k \in kept : \A j \in kept : k >= j
  IN  IF kept = {} THEN <<>> ELSE SubSeq(t, first, last)

Written(t) == IF columnIndex = 0 THEN Stripped(t)
              ELSE <<Comma>> \o (IF columnIndex \in DateColumns THEN DateField(t) ELSE Field(t))

\* A field is written, and advanceField passes the delimiter.  One of length -1
\* comes through where nothing takes its length for a size: in the first reading
\* of parseHeader, or with no line callback.
WriteField == /\ pc = "field"
              /\ row' = row \o Written(Text(start, end))
              /\ fields' = Append(fields, Text(start, end))
              /\ IF isParseDone(position)
                   THEN pc' = "done" /\ UNCHANGED <<position, columnIndex>>
                   ELSE /\ pc' = "row"
                        /\ position' = position + 1
                        /\ columnIndex' = columnIndex + 1
              /\ UNCHANGED <<line, str, start, end, quotes, commas, readVars, again, original>>

\* parseHeader has found the version in the second or third column, and calls
\* parseLine, which reads the line as the first reading left it.  (The first
\* reading may then go on to the end of the line; nothing is written from it.)
ReadAgain == /\ pc = "field" /\ columnIndex \in {1, 2} /\ ~again
             /\ start <= end
             /\ again' = TRUE
             /\ original' = str
             /\ pc' = "row"
             /\ position' = 0 /\ start' = 0 /\ end' = 0 /\ columnIndex' = 0
             /\ row' = <<>> /\ fields' = <<>>
             /\ UNCHANGED <<line, str, quotes, commas, readVars>>

\* The length of a field of one quote, -1, is the size of a copy: of the form type
\* in lookupMappings (fec.c:108), of the version in setVersion (fec.c:667), of the
\* text in the buffer of the line callback (writer.c:309).  The copy is of all
\* memory, and the program ends.
DieOfLength == /\ pc = "field" /\ end < start
               /\ pc' = "crashed"
               /\ UNCHANGED <<line, str, position, start, end, quotes, commas, readVars, rowVars>>

Next == \/ BeginAscii28 \/ TakeAscii28 \/ EndAscii28
        \/ EmptyCsv \/ BeginCsv \/ EndCsv \/ SkipQuote \/ CloseCsv \/ TakeCsv
        \/ WriteField \/ ReadAgain \/ DieOfLength

Spec == Init /\ [][Next]_vars

-----------------------------------------------------------------------------
\* Types, with the bounds of all positions: reading stays on the line, and a
\* field ends at its start or later, but for the field of one quote.
N == Len(line.text)
TypeOK == /\ line \in Lines /\ str \in Seq(Chars \cup {NUL}) /\ Len(str) = N + 1
          /\ original \in Seq(Chars \cup {NUL}) /\ Len(original) = N + 1
          /\ pc \in {"row", "ascii28", "csv", "field", "done", "crashed"}
          /\ position \in 0..N /\ start \in 0..N /\ end \in 0..N
          /\ (pc = "field" => start <= end + 1)
          /\ columnIndex \in Nat /\ offset \in Nat /\ quotes \in Int /\ commas \in Nat
          /\ escaped \in BOOLEAN /\ again \in BOOLEAN

\* "Since CSV fields are always longer escaped than not, this will always work
\* in-place" (csv.h:38-39): what is shifted goes to characters already read, so
\* the rest of the line is read as it was, no further than its first NUL, and the
\* field lies before it.
InPlace == /\ \A k \in position..N : At(k) = original[k + 1]
           /\ original[N + 1] = NUL
           /\ \A k \in 0..position - 1 : original[k + 1] # NUL
           /\ (pc = "csv" => start <= position - offset)
           /\ (pc = "ascii28" => start <= position)
           /\ (pc = "field" => end <= position)

-----------------------------------------------------------------------------
\* What a field of a value is: its outer quotes are not part of it, and one quote
\* is nothing.
StripOuter(v) == IF v # <<>> /\ Head(v) = Quote /\ Last(v) = Quote
                 THEN SubSeq(v, 2, Len(v) - 1) ELSE v

\* Nothing is read after the last delimiter when nothing follows it.
Expected == LET cells == line.cells
                last == cells[Len(cells)]
                read == IF CellText(last) = <<>> THEN Front(cells) ELSE cells
            IN  [k \in DOMAIN read |-> StripOuter(read[k].value)]

AtEnd == pc = "done" \/ (pc = "row" /\ isParseDone(position))

\* A line is read to its values: a field of a line with separators of ASCII 28
\* is what lies between two of them, one of a CSV line what RFC 4180 says, and one
\* pair of quotes around it is dropped (csv_test.c:77-88).  A second reading gives
\* the same, unless the first has shifted a doubled quote (fec.c:814).
ShiftedBefore == /\ again /\ ~line.ascii28
                 /\ \E k \in DOMAIN line.cells :
                      k <= 3 /\ line.cells[k].quoted /\ Has(line.cells[k].value, Quote)
FieldsRead == AtEnd /\ line.known => fields = Expected \/ ShiftedBefore

\* No text kills the program but one quote alone: a field that ends before it
\* starts was left of one quote, and in a line made of values it is the field of a
\* value that is one quote (csv.c:38).
DiesOfOneQuote ==
  pc = "crashed" => /\ start = end + 1 /\ At(end) = Quote
                    /\ line.known /\ ~ShiftedBefore =>
                         line.cells[Len(fields) + 1].value = <<Quote>>

\* The CSV of a text.
Canonical(t) == IF Has(t, Comma) \/ Has(t, Quote) THEN InQuotes(t) ELSE t
Dashed(t) == SubSeq(t, 1, 4) \o <<"-">> \o SubSeq(t, 5, 6) \o <<"-">> \o SubSeq(t, 7, 8)
IsDate(k) == (k - 1) \in DateColumns /\ Len(fields[k]) = 8
Plain(t) == ~Has(t, Comma) /\ ~Has(t, Quote)

\* The row is the CSV of the fields that were read, so that it reads back as
\* them, whatever quotes and commas they hold: the counts kept while reading are
\* those of the text between the positions.  A field of one quote is written as
\* an empty one, where it is written at all.  Three things are written as they
\* are, and may break the row: the form type, a newline inside a field without a
\* closing quote (csv.c:90), and the parts of a date (fec.c:243).
RowReadsBack ==
  AtEnd /\ fields # <<>> /\ Plain(fields[1])
    /\ (\A k \in DOMAIN fields : ~Has(fields[k], Newline) /\ (IsDate(k) => Plain(fields[k]))) =>
    row = Joined([k \in DOMAIN fields |->
                    IF k = 1 THEN Stripped(fields[k])
                    ELSE IF IsDate(k) THEN Dashed(fields[k]) ELSE Canonical(fields[k])], Comma)
=============================================================================
