--------------------------------- MODULE MCCsv ---------------------------------
(* Small instances of Csv: lines made from values, and lines of any characters.  *)
EXTENDS Csv

MCChars == {"x", Quote, Comma, Separator, Newline, Blank, "tab"}

Line(cells, ascii28, ending) ==
  [text |-> TextOf(cells, ascii28) \o ending, ascii28 |-> ascii28, cells |-> cells, known |-> TRUE]

Values(most) == BoundedSeq({"x", Quote, Comma}, most)
CsvCells(most) == {Cell(v, TRUE) : v \in Values(most)}
                    \cup {Cell(v, FALSE) : v \in {u \in Values(most) : MayBeBare(u)}}
AsciiCells(most) == {Cell(v, FALSE) : v \in Values(most)}
Special == {<<Blank, "x", "tab">>, <<Blank>>, <<"x", Newline>>,
            [k \in 1..8 |-> "x"], [k \in 1..8 |-> IF k = 5 THEN Comma ELSE "x"]}

\* Up to two cells of up to two characters, up to three of one, three special ones.
Lists(S, most) == {s \in BoundedSeq(S, most) : s # <<>>}
Ended(L, ascii28) == {Line(cells, ascii28, e) : cells \in L, e \in {<<>>, <<Newline>>}}
KnownLines ==
  Ended(Lists(CsvCells(2), 2) \cup Lists(CsvCells(1), 3), FALSE)
    \cup Ended(Lists(AsciiCells(2), 2) \cup Lists(AsciiCells(1), 3), TRUE)
    \cup Ended([1..3 -> {Cell(v, TRUE) : v \in Special}], FALSE)
AnyLines ==
  {[text |-> t, ascii28 |-> a, cells |-> <<>>, known |-> FALSE] :
     t \in BoundedSeq({"x", Quote, Comma, Newline}, 5), a \in BOOLEAN}
MCLines == KnownLines \cup AnyLines
=============================================================================
