------------------------------- MODULE Encoding -------------------------------
(***************************************************************************)
(* decodeLine (src/encoding.c): scan a raw line with a UTF-8 automaton,    *)
(* and copy it to persistentMemory->line as it is, or as the Latin-1 it    *)
(* then must be.  The string it goes to is kept from line to line          *)
(* (src/memory.c): it grows and is never cleared, so memory holds what     *)
(* earlier lines left behind the end of the current one.                   *)
(*                                                                         *)
(* A byte is a number; a raw line has no NUL and, in memory, one after it. *)
(* readLine never returns an empty one, and ends it at its first newline.  *)
(* asciiOnly of LINE_INFO, which nothing reads, is left out.               *)
(*                                                                         *)
(* An operator written just before another with a similar name, and used   *)
(* nowhere, is a slip the properties must notice.                          *)
(***************************************************************************)
EXTENDS Integers, SequencesExt

CONSTANTS Lines,       \* bound: Lines[k] are the raw lines that may come k-th
          StringSize,  \* DEFAULT_STRING_SIZE
          MaxSize,     \* bound: the size of the raw line's string
          Junk         \* what malloc and realloc leave in new memory

Newline == 10

ASSUME EncodingAssumption ==
  /\ Lines \in Seq(SUBSET Seq(1..255))
  /\ \A k \in DOMAIN Lines : \A l \in Lines[k] :
       Len(l) > 0 /\ \A p \in 1..(Len(l) - 1) : l[p] # Newline
  /\ StringSize \in Nat \ {0} /\ MaxSize \in Nat
  /\ Junk \notin 0..255

VARIABLES pc,      \* where decodeLine is
          in, inN, \* rawLine: its text and its size
          memory, n, \* line: what lies in it and its size
          i,       \* the position in the raw line
          state,   \* of the automaton
          info,    \* LINE_INFO
          w,       \* the position in the converted line
          length,  \* what decodeLine returns
          decoded  \* lines decoded so far

vars == <<pc, in, inN, memory, n, i, state, info, w, length, decoded>>

NUL == 0
Accept == 0
Reject == 1

Fresh == [ascii28 |-> FALSE, validUtf8 |-> TRUE, length |-> 0]

Init == /\ pc = "idle"
        /\ in = <<>> /\ inN = StringSize
        /\ memory = [k \in 0..StringSize - 1 |-> Junk] /\ n = StringSize
        /\ i = 0 /\ state = Accept /\ info = Fresh
        /\ w = 0 /\ length = 0
        /\ decoded = 0

-----------------------------------------------------------------------------
\* utf8d: the type of a byte, and the state that a state and a type lead to.
Type(b) == CASE b \in 0..127            -> 0
             [] b \in 128..143          -> 1
             [] b \in 144..159          -> 9
             [] b \in 160..191          -> 7
             [] b \in 194..223          -> 2
             [] b = 224                 -> 10
             [] b = 237                 -> 4
             [] b \in (225..239) \ {237} -> 3
             [] b = 240                 -> 11
             [] b \in 241..243          -> 6
             [] b = 244                 -> 5
             [] OTHER                   -> 8

Target(e) ==
  CASE e \in {<<0, 0>>} \cup ({2} \X {1, 7, 9})                          -> 0
    [] e \in {<<0, 2>>, <<4, 7>>} \cup ({3} \X {1, 7, 9}) \cup ({5} \X {1, 9}) -> 2
    [] e \in {<<0, 3>>, <<8, 1>>} \cup ({6} \X {7, 9}) \cup ({7} \X {1, 7, 9}) -> 3
    [] e = <<0, 10>> -> 4
    [] e = <<0, 4>>  -> 5
    [] e = <<0, 11>> -> 6
    [] e = <<0, 6>>  -> 7
    [] e = <<0, 5>>  -> 8
    [] OTHER         -> Reject

StateAfterNoSurrogates(s, b) == IF b = 237 THEN Reject ELSE Target(<<s, Type(b)>>)
StateAfterAscii(s, b) == IF b < 128 THEN Accept ELSE Target(<<s, Type(b)>>)
StateAfter(s, b) == Target(<<s, Type(b)>>)

\* growStringTo: new memory holds junk.
GrownTo(size) ==
  [k \in 0..size - 1 |-> IF k < n THEN memory[k] ELSE Junk]
Larger(size) == IF size > n THEN size ELSE n

-----------------------------------------------------------------------------
\* readLine doubles the string of the raw line, some time, for some line.
GrowString == /\ pc = "idle" /\ 2 * inN <= MaxSize
              /\ inN' = 2 * inN
              /\ UNCHANGED <<pc, in, memory, n, i, state, info, w, length, decoded>>

InfoAtStart == Fresh

\* grabLine: a line is read, and decodeLine begins.
GrabLine == /\ pc = "idle" /\ decoded < Len(Lines)
            /\ \E l \in Lines[decoded + 1] : Len(l) < inN /\ in' = l
            /\ pc' = "scan"
            /\ i' = 0 /\ state' = Accept /\ info' = InfoAtStart
            /\ UNCHANGED <<inN, memory, n, w, length, decoded>>

\* One turn of the loop of collectLineInfo.
Scan == /\ pc = "scan" /\ i < Len(in)
        /\ LET c == in[i + 1]
               s == StateAfter(state, c)
           IN /\ state' = s
              /\ info' = [ascii28 |-> info.ascii28 \/ c = 28,
                          validUtf8 |-> info.validUtf8 /\ s # Reject,
                          length |-> info.length + 1]
        /\ i' = i + 1
        /\ UNCHANGED <<pc, in, inN, memory, n, w, length, decoded>>

CopiedBare(k) == IF k < Len(in) THEN in[k + 1] ELSE GrownTo(n')[k]
Copied(k) == IF k < Len(in) THEN in[k + 1]
             ELSE IF k = Len(in) THEN NUL ELSE GrownTo(n')[k]

\* copyString: strcpy takes the text and its NUL.
CopyString == /\ pc = "scan" /\ i = Len(in) /\ info.validUtf8
              /\ n' = Larger(inN + 1)
              /\ memory' = [k \in 0..n' - 1 |-> Copied(k)]
              /\ length' = info.length
              /\ pc' = "idle" /\ decoded' = decoded + 1
              /\ UNCHANGED <<in, inN, i, state, info, w>>

\* iso_8859_1_to_utf_8 up to its loop, a turn of the loop, and its end.
LengthAtStartKept == length
LengthAtStart == 0
RoomHalf == inN + 1
Room == inN * 2 + 1
BeginLatin1 == /\ pc = "scan" /\ i = Len(in) /\ ~info.validUtf8
               /\ n' = Larger(Room)
               /\ memory' = GrownTo(n')
               /\ pc' = "convert"
               /\ i' = 0 /\ w' = 0 /\ length' = LengthAtStart
               /\ UNCHANGED <<in, inN, state, info, decoded>>

Lead(b) == IF b > 191 THEN 195 ELSE 194
Trail(b) == (b % 64) + 128
Convert == /\ pc = "convert" /\ i < Len(in)
           /\ LET c == in[i + 1] IN
                IF c < 128
                  THEN /\ memory' = [memory EXCEPT ![w] = c]
                       /\ w' = w + 1
                       /\ UNCHANGED length
                  ELSE /\ memory' = [memory EXCEPT ![w] = Lead(c), ![w + 1] = Trail(c)]
                       /\ w' = w + 2
                       /\ length' = length + 2
           /\ i' = i + 1
           /\ UNCHANGED <<pc, in, inN, n, state, info, decoded>>

EndLatin1 == /\ pc = "convert" /\ i = Len(in)
             /\ pc' = "idle" /\ decoded' = decoded + 1
             /\ UNCHANGED <<in, inN, memory, n, i, state, info, w, length>>

Next == \/ GrowString \/ GrabLine
        \/ Scan \/ CopyString \/ BeginLatin1 \/ Convert \/ EndLatin1
Spec == Init /\ [][Next]_vars

-----------------------------------------------------------------------------
\* Types, with the states of the automaton and the bounds of both positions.
TypeOK == /\ pc \in {"idle", "scan", "convert"}
          /\ in \in Seq(1..255) /\ inN \in Nat /\ n \in Nat
          /\ memory \in [0..n - 1 -> 0..255 \cup {Junk}]
          /\ i \in 0..Len(in) /\ state \in 0..8
          /\ info \in [ascii28 : BOOLEAN, validUtf8 : BOOLEAN, length : 0..Len(in)]
          /\ (pc = "scan" => info.length = i)
          /\ w \in Nat /\ length \in Nat /\ decoded \in Nat

\* What is decoded fits: the raw line in its string with a NUL, and, while a
\* line is converted, two bytes for each one that is left, so that no write of
\* iso_8859_1_to_utf_8 (or strcpy) is past the string that was grown for it
\* ("Ensure the output buffer is twice as long as the input").
Fits == /\ Len(in) < inN
        /\ (pc = "convert" => w + 2 * (Len(in) - i) < n)

\* A line that is not UTF-8 stays so: the automaton never leaves the state of
\* rejection, so the flag that collectLineInfo clears is the state at the end.
RejectIsFinal == pc = "scan" => (info.validUtf8 <=> state # Reject)

-----------------------------------------------------------------------------
(* RFC 3629, section 4. *)
Tails == 128..191

\* The first two bytes of a character of three or of four.
TwoOfThree(a, b) == \/ a = 224 /\ b \in 160..191
                    \/ a \in (225..239) \ {237} /\ b \in Tails
                    \/ a = 237 /\ b \in 128..159
TwoOfFour(a, b) == \/ a = 240 /\ b \in 144..191
                   \/ a \in 241..243 /\ b \in Tails
                   \/ a = 244 /\ b \in 128..143

\* The bytes of s from first to last are a character.
IsChar(s, first, last) ==
  \/ last = first /\ s[first] \in 0..127
  \/ last = first + 1 /\ s[first] \in 194..223 /\ s[last] \in Tails
  \/ last = first + 2 /\ TwoOfThree(s[first], s[first + 1]) /\ s[last] \in Tails
  \/ last = first + 3 /\ TwoOfFour(s[first], s[first + 1])
                      /\ s[first + 2] \in Tails /\ s[last] \in Tails

\* s is a sequence of characters: every byte is one of a character.  (Characters do
\* not overlap: the first byte of one is no tail, and says how many follow.)
WellFormed(s) ==
  \A k \in 1..Len(s) : \E first \in 1..k, last \in k..Len(s) : IsChar(s, first, last)

\* s may be the beginning of such a sequence: up to three bytes complete it (80, 90
\* and A0 stand for all tails).
Completable(s) ==
  \E size \in 0..3 : \E rest \in [1..size -> {128, 144, 160}] : WellFormed(s \o rest)

\* The text of the raw line, in UTF-8.
Utf8(b) == IF b < 128 THEN <<b>> ELSE <<192 + (b \div 64), 128 + (b % 64)>>
Text == IF info.validUtf8 THEN in ELSE FlattenSeq([k \in 1..Len(in) |-> Utf8(in[k])])

AfterLine == pc = "idle" /\ decoded > 0
MemoryText(size) == [k \in 1..size |-> memory[k - 1]]

\* The automaton of utf8d, with the flag that collectLineInfo keeps beside it, is
\* the definition of UTF-8: when a line (and every beginning of it is another one)
\* is scanned, the flag says that it may begin a text, and the state that it is one.
Recognised ==
  pc = "scan" /\ i = Len(in) => /\ (info.validUtf8 <=> Completable(in))
                                /\ (info.validUtf8 => (state = Accept <=> WellFormed(in)))

\* Where the fields of the line end: at its newline or NUL.
FieldsEnd(k) == k \in DOMAIN memory /\ memory[k] \in {NUL, Newline}
HasEnd == info.validUtf8 \/ in[Len(in)] = Newline

\* Whatever was in the string before, the text of the line begins it when
\* decodeLine returns: a line of UTF-8 unchanged, any other as its characters.  And
\* isParseDone, which looks for a newline or a NUL in the string, finds that of this
\* line and not of an earlier one: a line of UTF-8 has its NUL.  A converted line
\* has none (encoding.c:91), and needs its newline for that.  This is not so of what
\* comes after a converted line: the last line of a file may have no newline, and
\* readers that stop at a NUL only (a quoted field, csv.c:93, and the fields of a
\* legacy header, fec.c:738) pass the newline; both go on in an earlier line.
LineDecoded ==
  AfterLine =>
    /\ Len(Text) <= n /\ MemoryText(Len(Text)) = Text
    /\ HasEnd => LET last == IF in[Len(in)] = Newline THEN Len(Text) - 1 ELSE Len(Text)
                 IN  FieldsEnd(last) /\ \A k \in 0..last - 1 : ~FieldsEnd(k)

\* A line with its newline is decoded to UTF-8 ("Ensure the passed in line is
\* encoded in UTF-8", encoding.h:20), since a newline in the middle of a character
\* makes the automaton reject.  Without one, a character may be cut at the end.
EndedLinesAreUtf8 == AfterLine /\ in[Len(in)] = Newline => WellFormed(MemoryText(Len(Text)))

\* "Return the length of the resulting line" (encoding.h:23).
LengthOfLine == AfterLine => length = Len(Text)

\* What does hold beside LengthOfLine: the length of a line of UTF-8 is returned, and
\* of one that was converted never more than its length, so that parseF99Text, which
\* writes as many bytes (fec.c:450-452), writes none an earlier line has left in the
\* string.
LengthWithin == AfterLine => /\ length <= Len(Text)
                             /\ (info.validUtf8 => length = Len(Text))
=============================================================================
