------------------------------ MODULE MCEncoding ------------------------------
(* Small instances of Encoding.                                               *)
EXTENDS Encoding

Ended(texts) == texts \cup {Append(t, Newline) : t \in texts}
NonEmpty(S, most) == BoundedSeq(S, most) \ {<<>>}

\* An earlier line; then one over the boundaries of the classes of utf8d, with
\* the characters of four bytes and their neighbours.
Earlier == Ended(NonEmpty({97, 233}, 2))
Boundaries == {28, 127, 143, 159, 160, 193, 194, 224, 237, 239, 240, 243, 244, 245}
LongChars == {<<lead>> \o rest : lead \in {239, 240, 243, 244, 245},
                                 rest \in [1..3 -> {127, 143, 159, 160}]}
MCLines == <<Earlier, Ended(NonEmpty(Boundaries, 3) \cup LongChars)>>
===============================================================================
