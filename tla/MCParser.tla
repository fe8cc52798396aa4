------------------------------ MODULE MCParser ------------------------------
(* Small instances of Parser.  A and AI are mapped form types, AI begins with *)
(* A; U is mapped in no version; B is the first field of a boundary or legacy *)
(* line; E is the empty form type, of a line of blanks or of a line that      *)
(* starts with a delimiter.                                                   *)
EXTENDS Parser, TLC

CONSTANTS H, A, AI, U, B, E, new, old

MCForms == {H, A, AI, U, B, E}
MCBegins == [t \in MCForms |-> {t, E} \cup (IF t = AI THEN {A} ELSE {})]
\* Version old is known to the header only.
MCFields == new :> (H :> 3 @@ A :> 3 @@ AI :> 3) @@ old :> (H :> 3)

Row(t, k) == [kind |-> "row", form |-> t, last |-> k - 1, read |-> k]
\* A row whose last field is empty.
RowOpen(t, k) == [kind |-> "row", form |-> t, last |-> k, read |-> k]
Special(k, t) == [kind |-> k, form |-> t, last |-> 0, read |-> 1]
Nothing == [kind |-> "blank", form |-> E, last |-> 0, read |-> 0]

\* Header lines: with a version or without, of two fields or one, legacy.
MCFirst == {Row(H, 3), Row(H, 2), Row(H, 1), Special("legacy", B), Nothing}
Plain == {Row(H, 3)}

\* Every kind of line, rows shorter than, as long as and longer than mapped.
MCLines == {Row(A, 3), Row(A, 4), Row(AI, 3), Row(A, 2), Row(U, 3), Row(E, 3),
            RowOpen(A, 2), Special("begin", B), Special("end", B),
            Special("bracket", B), Special("blank", E), Nothing,
            Special("legacy", B)}

\* The lines of an F99 filing: a form too short, its text, and other rows.
F99Lines == {Row(A, 4), Row(AI, 3), Special("begin", B), Special("end", B),
             Special("blank", E)}

\* Rows of a few form types.
RowLines == {Row(A, 3), Row(A, 2), Row(AI, 3), Row(U, 3)}

\* Filings of up to four lines; of up to five with a plain header or a legacy one;
\* of up to seven when the header is plain and the others are F99 lines.
UpToFour(s, l) == Len(s) < 4
F99UpToSeven(s, l) == \/ UpToFour(s, l)
                      \/ Len(s) = 4 /\ s[1] \in Plain \cup {Special("legacy", B)}
                      \/ /\ Len(s) \in 5..6
                         /\ s[1] \in Plain /\ l \in F99Lines
                         /\ \A i \in 2..Len(s) : s[i] \in F99Lines
=============================================================================
