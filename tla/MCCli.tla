--------------------------------- MODULE MCCli ---------------------------------
(* A number, two names with a number, one of them with its directory, one      *)
(* without; directories with and without a separator, and an empty one.        *)
EXTENDS Cli

CONSTANTS num, file, bare, seven, dir, dirSlash, empty, slash, other

MCTexts == {num, file, bare, seven, dir, dirSlash, empty, slash, other}
MCNumberOf == [t \in MCTexts |-> CASE t = num -> num [] t = file -> seven
                                   [] t = seven -> seven [] OTHER -> None]
MCSeparators == [t \in MCTexts |-> CASE t = dir -> {dirSlash}
                                     [] t = empty -> {empty, slash}
                                     [] OTHER -> {t}]

Options == {[flags |-> s, known |-> TRUE] :
              s \in {{"i"}, {"s", "w"}, {"x"}, {"p"}, {"p", "x"}, {"p", "i"}, {}}}
             \cup {[flags |-> {"i"}, known |-> FALSE]}
MCFlagLists == {<<>>} \cup {<<o>> : o \in Options} \cup {<<o, q>> : o, q \in Options}

Firsts == {num, file, bare}
Seconds == {dir, dirSlash, empty}
MCTextLists == {<<>>} \cup {<<t>> : t \in Firsts} \cup {<<t, d>> : t \in Firsts, d \in Seconds}
                 \cup {<<t, d, other>> : t \in Firsts, d \in Seconds}

\* Zeroed memory, garbage everywhere, and garbage in one pointer.
MCJunks == {[f \in Fields |-> IF f \in wild THEN Wild ELSE Null] :
              wild \in {{}, Fields} \cup {{f} : f \in Fields}}
=============================================================================
