---------------------------- MODULE EncodingProofs ----------------------------
(***************************************************************************)
(* Proofs about Encoding, for all lines and sizes.                         *)
(***************************************************************************)
EXTENDS Encoding, SequenceTheorems, WellFoundedInduction, TLAPS

\* Elements of sequences, and functions of which some values are replaced.
LEMMA ElementFacts ==
  ASSUME NEW S, NEW s \in Seq(S)
  PROVE  Len(s) \in Nat /\ \A k \in Nat : (k < Len(s) => s[k + 1] \in S)
  OBVIOUS

LEMMA OneStored ==
  ASSUME NEW D, NEW S, NEW f \in [D -> S], NEW d, NEW c \in S
  PROVE  [f EXCEPT ![d] = c] \in [D -> S]
  OBVIOUS

\* The table names nine states, and has no way out of rejection.
LEMMA StateAfterFacts ==
  ASSUME NEW s \in 0..8, NEW b \in 1..255
  PROVE  StateAfter(s, b) \in 0..8 /\ (s = Reject => StateAfter(s, b) = Reject)
<1>1. ASSUME NEW t
      PROVE  Target(<<s, t>>) \in 0..8 /\ (s = 1 => Target(<<s, t>>) = Reject)
  BY DEF Target, Reject
<1> QED BY <1>1 DEF StateAfter, Reject

\* Bytes stored in new memory are bytes, wherever they come from.
LEMMA GrownFacts ==
  ASSUME TypeOK, NEW m \in Nat
  PROVE  /\ Larger(m) \in Nat /\ Larger(m) >= m /\ Larger(m) >= n
         /\ GrownTo(Larger(m)) \in [0..Larger(m) - 1 -> 0..255 \cup {Junk}]
  BY DEF TypeOK, GrownTo, Larger

\* The two bytes of a character of Latin-1.
LEMMA Latin1Facts ==
  ASSUME NEW b \in 1..255
  PROVE  Lead(b) \in 0..255 /\ Trail(b) \in 0..255
  BY DEF Lead, Trail

-----------------------------------------------------------------------------
(* The three invariants, together inductive.                                *)
Inv == TypeOK /\ Fits /\ RejectIsFinal

LEMMA InitInv == Init => Inv
<1> SUFFICES ASSUME Init PROVE Inv
  OBVIOUS
<1>1. TypeOK
  BY EncodingAssumption DEF Init, TypeOK, Fresh, Accept
<1>2. Fits /\ RejectIsFinal
  BY EncodingAssumption DEF Init, Fits, RejectIsFinal
<1> QED BY <1>1, <1>2 DEF Inv

LEMMA GrowStringInv == Inv /\ GrowString => Inv'
<1> SUFFICES ASSUME Inv, GrowString PROVE Inv'
  OBVIOUS
<1>1. TypeOK'
  BY DEF Inv, TypeOK, GrowString
<1>2. Fits' /\ RejectIsFinal'
  BY DEF Inv, TypeOK, Fits, RejectIsFinal, GrowString
<1> QED BY <1>1, <1>2 DEF Inv

LEMMA GrabLineInv == Inv /\ GrabLine => Inv'
<1> SUFFICES ASSUME Inv, GrabLine PROVE Inv'
  OBVIOUS
<1>1. PICK l \in Lines[decoded + 1] : Len(l) < inN /\ in' = l
  BY DEF GrabLine
<1>2. in' \in Seq(1..255) /\ Len(in') \in Nat
  <2>1. Lines[decoded + 1] \in SUBSET Seq(1..255)
    <3>1. decoded \in Nat /\ decoded < Len(Lines)
      BY DEF Inv, TypeOK, GrabLine
    <3> QED BY <3>1, ElementFacts, EncodingAssumption
  <2>2. in' \in Seq(1..255)
    BY <1>1, <2>1, Zenon
  <2> QED BY <2>2, ElementFacts
<1>3. info' = Fresh /\ i' = 0 /\ state' = 0 /\ pc' = "scan"
  BY DEF GrabLine, InfoAtStart, Accept
<1>4. TypeOK'
  BY <1>2, <1>3 DEF Inv, TypeOK, GrabLine, Fresh
<1>5. Fits' /\ RejectIsFinal'
  BY <1>1, <1>3 DEF Fits, RejectIsFinal, Fresh, Reject, GrabLine
<1> QED BY <1>4, <1>5 DEF Inv

LEMMA ScanInv == Inv /\ Scan => Inv'
<1> SUFFICES ASSUME Inv, Scan PROVE Inv'
  OBVIOUS
<1> DEFINE s == StateAfter(state, in[i + 1])
<1>1. i \in 0..Len(in) /\ i < Len(in) /\ Len(in) \in Nat /\ in \in Seq(1..255)
  BY DEF Inv, TypeOK, Scan
<1>2. in[i + 1] \in 1..255
  <2>1. i \in Nat
    BY <1>1
  <2> QED BY <2>1, <1>1, ElementFacts
<1>3. s \in 0..8 /\ (state = Reject => s = Reject)
  BY <1>2, StateAfterFacts DEF Inv, TypeOK
<1>4. /\ state' = s /\ i' = i + 1
      /\ info'.validUtf8 = (info.validUtf8 /\ s # Reject)
      /\ info'.length = i + 1
      /\ info' \in [ascii28 : BOOLEAN, validUtf8 : BOOLEAN, length : 0..Len(in)]
  <2>1. info.length = i /\ info.ascii28 \in BOOLEAN /\ info.validUtf8 \in BOOLEAN
    BY DEF Inv, TypeOK, Scan
  <2>2. info' = [ascii28 |-> info.ascii28 \/ in[i + 1] = 28,
                 validUtf8 |-> info.validUtf8 /\ s # Reject, length |-> info.length + 1]
    BY DEF Scan
  <2>3. info.length + 1 \in 0..Len(in)
    BY <2>1, <1>1
  <2> QED BY <2>1, <2>2, <2>3 DEF Scan
<1> HIDE DEF s
<1>5. TypeOK'
  BY <1>1, <1>3, <1>4 DEF Inv, TypeOK, Scan
<1>6. Fits'
  BY DEF Inv, Fits, Scan
<1>7. RejectIsFinal'
  BY <1>3, <1>4, Zenon DEF Inv, RejectIsFinal, Scan
<1> QED BY <1>5, <1>6, <1>7 DEF Inv

LEMMA CopyStringInv == Inv /\ CopyString => Inv'
<1> SUFFICES ASSUME Inv, CopyString PROVE Inv'
  OBVIOUS
<1>1. inN + 1 \in Nat /\ in \in Seq(1..255) /\ info.length \in Nat /\ Len(in) < inN
  BY DEF Inv, TypeOK, Fits
<1>2. n' \in Nat /\ GrownTo(n') \in [0..n' - 1 -> 0..255 \cup {Junk}]
  BY <1>1, GrownFacts DEF Inv, CopyString
<1>3. memory' \in [0..n' - 1 -> 0..255 \cup {Junk}]
  <2>1. \A k \in 0..n' - 1 : k < Len(in) => in[k + 1] \in 1..255
    <3>1. \A m \in Nat : 0..m - 1 \subseteq Nat
      OBVIOUS
    <3> QED BY <3>1, <1>1, <1>2, ElementFacts
  <2>2. \A k \in 0..n' - 1 : Copied(k) \in 0..255 \cup {Junk}
    <3> SUFFICES ASSUME NEW k \in 0..n' - 1 PROVE Copied(k) \in 0..255 \cup {Junk}
      OBVIOUS
    <3>1. GrownTo(n')[k] \in 0..255 \cup {Junk}
      BY <1>2
    <3>2. \A b \in 1..255 : b \in 0..255
      OBVIOUS
    <3>3. NUL \in 0..255
      BY DEF NUL
    <3> QED BY <2>1, <3>1, <3>2, <3>3 DEF Copied
  <2>3. memory' = [k \in 0..n' - 1 |-> Copied(k)]
    BY DEF CopyString
  <2> QED BY <2>2, <2>3
<1>4. TypeOK'
  BY <1>1, <1>2, <1>3 DEF Inv, TypeOK, CopyString
<1>5. Fits' /\ RejectIsFinal'
  BY <1>1 DEF Fits, RejectIsFinal, CopyString
<1> QED BY <1>4, <1>5 DEF Inv

LEMMA BeginLatin1Inv == Inv /\ BeginLatin1 => Inv'
<1> SUFFICES ASSUME Inv, BeginLatin1 PROVE Inv'
  OBVIOUS
<1>1. Room \in Nat /\ inN \in Nat /\ Len(in) \in Nat /\ Len(in) < inN
  BY DEF Inv, TypeOK, Fits, Room
<1>2. n' \in Nat /\ n' >= Room /\ memory' \in [0..n' - 1 -> 0..255 \cup {Junk}]
  BY <1>1, GrownFacts DEF Inv, BeginLatin1
<1>3. TypeOK'
  BY <1>1, <1>2 DEF Inv, TypeOK, BeginLatin1, LengthAtStart
<1>4. Fits' /\ RejectIsFinal'
  BY <1>1, <1>2 DEF Fits, RejectIsFinal, BeginLatin1, Room
<1> QED BY <1>3, <1>4 DEF Inv

LEMMA ConvertInv == Inv /\ Convert => Inv'
<1> SUFFICES ASSUME Inv, Convert PROVE Inv'
  OBVIOUS
<1>1. /\ i \in 0..Len(in) /\ i < Len(in) /\ Len(in) \in Nat /\ in \in Seq(1..255)
      /\ w \in Nat /\ n \in Nat /\ length \in Nat
      /\ w + 2 * (Len(in) - i) < n /\ Len(in) < inN /\ pc = "convert"
  BY DEF Inv, TypeOK, Fits, Convert
<1>2. in[i + 1] \in 1..255
  <2>1. i \in Nat
    BY <1>1
  <2> QED BY <2>1, <1>1, ElementFacts
<1>3. w \in 0..n - 1 /\ w + 1 \in 0..n - 1 /\ i + 1 \in 0..Len(in)
  BY <1>1
<1>4. /\ memory' \in [0..n - 1 -> 0..255 \cup {Junk}]
      /\ w' \in {w + 1, w + 2} /\ length' \in Nat
  <2>1. memory \in [0..n - 1 -> 0..255 \cup {Junk}]
    BY DEF Inv, TypeOK
  <2> DEFINE c == in[i + 1]
             Cells == [0..n - 1 -> 0..255 \cup {Junk}]
  <2>2. c \in 0..255 /\ Lead(c) \in 0..255 /\ Trail(c) \in 0..255
    <3>1. \A b \in 1..255 : b \in 0..255
      OBVIOUS
    <3> QED BY <1>2, <3>1, Latin1Facts
  <2>3. /\ [memory EXCEPT ![w] = c] \in Cells
        /\ [memory EXCEPT ![w] = Lead(c), ![w + 1] = Trail(c)] \in Cells
    <3> HIDE DEF c
    <3>1. \A f \in Cells : \A d : \A b \in 0..255 : [f EXCEPT ![d] = b] \in Cells
      BY OneStored
    <3>2. [memory EXCEPT ![w] = c] \in Cells
      BY <2>1, <2>2, <3>1
    <3>3. [memory EXCEPT ![w] = Lead(c)] \in Cells
      BY <2>1, <2>2, <3>1
    <3>4. [[memory EXCEPT ![w] = Lead(c)] EXCEPT ![w + 1] = Trail(c)] \in Cells
      BY <2>2, <3>1, <3>3
    <3> QED BY <3>2, <3>4
  <2>4. \/ memory' = [memory EXCEPT ![w] = c] /\ w' = w + 1 /\ length' = length
        \/ /\ memory' = [memory EXCEPT ![w] = Lead(c), ![w + 1] = Trail(c)]
           /\ w' = w + 2 /\ length' = length + 2
    BY DEF Convert
  <2>5. length + 2 \in Nat
    BY <1>1
  <2> QED BY <2>3, <2>4, <2>5, <1>1
<1>5. TypeOK'
  <2>1. /\ pc = "convert" /\ i < Len(in) /\ i' = i + 1
        /\ UNCHANGED <<pc, in, inN, n, state, info, decoded>>
    BY DEF Convert
  <2>2. i \in 0..Len(in) /\ Len(in) \in Nat
    BY DEF Inv, TypeOK
  <2>3. i' \in 0..Len(in)
    BY <2>1, <2>2
  <2> QED BY <1>1, <1>3, <1>4, <2>1, <2>3 DEF Inv, TypeOK
<1>6. Fits' /\ RejectIsFinal'
  BY <1>1, <1>4 DEF Fits, RejectIsFinal, Convert
<1> QED BY <1>5, <1>6 DEF Inv

LEMMA EndLatin1Inv == Inv /\ EndLatin1 => Inv'
<1> SUFFICES ASSUME Inv, EndLatin1 PROVE Inv'
  OBVIOUS
<1>1. TypeOK'
  BY DEF Inv, TypeOK, EndLatin1
<1>2. Fits' /\ RejectIsFinal'
  BY DEF Inv, Fits, RejectIsFinal, EndLatin1
<1> QED BY <1>1, <1>2 DEF Inv

LEMMA NextInv == Inv /\ [Next]_vars => Inv'
<1>1. Inv /\ UNCHANGED vars => Inv'
  BY DEF Inv, TypeOK, Fits, RejectIsFinal, vars
<1> QED
  BY <1>1, GrowStringInv, GrabLineInv, ScanInv, CopyStringInv, BeginLatin1Inv,
     ConvertInv, EndLatin1Inv DEF Next

LEMMA Invariance == Spec => []Inv
BY InitInv, NextInv, PTL DEF Spec

\* decodeLine keeps the types of all it works on, whatever the lines and sizes.
THEOREM DecodeType == Spec => []TypeOK
<1>1. Inv => TypeOK
  BY DEF Inv
<1> QED BY <1>1, Invariance, PTL

\* decodeLine never writes past the string it has grown, whatever the mixture of
\* ASCII and other bytes, and however large the string was before.
THEOREM DecodeFits == Spec => []Fits
<1>1. Inv => Fits
  BY DEF Inv
<1> QED BY <1>1, Invariance, PTL

\* The automaton stays in rejection, so its last state says whether the line is
\* to be converted.
THEOREM DecodeRejects == Spec => []RejectIsFinal
<1>1. Inv => RejectIsFinal
  BY DEF Inv
<1> QED BY <1>1, Invariance, PTL

-----------------------------------------------------------------------------
(* The automaton, byte by byte.                                              *)

\* In state s, the byte b leads to r: the lines of the table that do not reject.
Leads(s, b, r) ==
  \/ s = 0 /\ r = 0 /\ b \in 0..127
  \/ s = 0 /\ r = 2 /\ b \in 194..223
  \/ s = 0 /\ r = 3 /\ b \in (225..239) \ {237}
  \/ s = 0 /\ r = 4 /\ b = 224
  \/ s = 0 /\ r = 5 /\ b = 237
  \/ s = 0 /\ r = 6 /\ b = 240
  \/ s = 0 /\ r = 7 /\ b \in 241..243
  \/ s = 0 /\ r = 8 /\ b = 244
  \/ s = 2 /\ r = 0 /\ b \in Tails
  \/ s = 3 /\ r = 2 /\ b \in Tails
  \/ s = 4 /\ r = 2 /\ b \in 160..191
  \/ s = 5 /\ r = 2 /\ b \in 128..159
  \/ s = 6 /\ r = 3 /\ b \in 144..191
  \/ s = 7 /\ r = 3 /\ b \in Tails
  \/ s = 8 /\ r = 3 /\ b \in 128..143

\* The types of bytes, and the states that states and types lead to.
TypeIs(b, t) ==
  /\ t \in 0..11
  /\ t = 0 <=> b \in 0..127
  /\ t = 1 <=> b \in 128..143
  /\ t = 9 <=> b \in 144..159
  /\ t = 7 <=> b \in 160..191
  /\ t = 2 <=> b \in 194..223
  /\ t = 10 <=> b = 224
  /\ t = 3 <=> b \in (225..239) \ {237}
  /\ t = 4 <=> b = 237
  /\ t = 11 <=> b = 240
  /\ t = 6 <=> b \in 241..243
  /\ t = 5 <=> b = 244

TargetIs(s, t, r) ==
  /\ r \in 0..8
  /\ r = 0 <=> (s = 0 /\ t = 0) \/ (s = 2 /\ t \in {1, 7, 9})
  /\ r = 2 <=> \/ s = 0 /\ t = 2
               \/ s = 4 /\ t = 7
               \/ s = 3 /\ t \in {1, 7, 9}
               \/ s = 5 /\ t \in {1, 9}
  /\ r = 3 <=> \/ s = 0 /\ t = 3
               \/ s = 8 /\ t = 1
               \/ s = 6 /\ t \in {7, 9}
               \/ s = 7 /\ t \in {1, 7, 9}
  /\ r = 4 <=> s = 0 /\ t = 10
  /\ r = 5 <=> s = 0 /\ t = 4
  /\ r = 6 <=> s = 0 /\ t = 11
  /\ r = 7 <=> s = 0 /\ t = 6
  /\ r = 8 <=> s = 0 /\ t = 5

LEMMA TypeFacts == ASSUME NEW b \in 1..255 PROVE TypeIs(b, Type(b))
<1> DEFINE t == Type(b)
<1>1. /\ b \in 0..127 => t = 0
      /\ b \in 128..143 => t = 1
      /\ b \in 144..159 => t = 9
      /\ b \in 160..191 => t = 7
  BY DEF Type
<1>2. /\ b \in 194..223 => t = 2
      /\ b = 224 => t = 10
      /\ b = 237 => t = 4
      /\ b \in (225..239) \ {237} => t = 3
  BY DEF Type
<1>3. ASSUME b = 240 PROVE t = 11
  BY <1>3 DEF Type
<1>4. ASSUME b \in 241..243 PROVE t = 6
  BY <1>4 DEF Type
<1>5. ASSUME b = 244 PROVE t = 5
  BY <1>5 DEF Type
<1>6. ASSUME b \in {192, 193} \/ b > 244 PROVE t = 8
  BY <1>6 DEF Type
<1> HIDE DEF t
<1>7. TypeIs(b, t)
  BY <1>1, <1>2, <1>3, <1>4, <1>5, <1>6 DEF TypeIs
<1> QED BY <1>7 DEF t

LEMMA TargetFacts ==
  ASSUME NEW s \in 0..8, NEW t \in 0..11
  PROVE  TargetIs(s, t, Target(<<s, t>>))
BY DEF TargetIs, Target, Reject

LEMMA TableFacts ==
  ASSUME NEW s \in 0..8, NEW b \in 1..255
  PROVE  /\ \A r : Leads(s, b, r) => StateAfter(s, b) = r
         /\ StateAfter(s, b) # Reject => Leads(s, b, StateAfter(s, b))
<1> DEFINE t == Type(b)
           a == Target(<<s, t>>)
<1>1. a = StateAfter(s, b)
  BY DEF StateAfter
<1>2. TypeIs(b, t)
  BY TypeFacts
<1> HIDE DEF t
<1>3. TargetIs(s, t, a)
  <2>1. t \in 0..11
    BY <1>2 DEF TypeIs
  <2> QED BY <2>1, TargetFacts
<1> HIDE DEF a
<1>4. \A r : Leads(s, b, r) => a = r
  BY <1>2, <1>3 DEF Leads, Tails, TypeIs, TargetIs
<1>5. a # 1 => Leads(s, b, a)
  BY <1>2, <1>3 DEF Leads, Tails, TypeIs, TargetIs
<1> QED BY <1>1, <1>4, <1>5 DEF Reject

\* In state s after j bytes of t, a character is open since byte g; in the state of
\* acceptance none is.
Open(t, g, j, s) ==
  \/ s = 0 /\ g = j + 1
  \/ s = 2 /\ g = j /\ t[g] \in 194..223
  \/ s = 2 /\ g + 1 = j /\ TwoOfThree(t[g], t[g + 1])
  \/ s = 2 /\ g + 2 = j /\ TwoOfFour(t[g], t[g + 1]) /\ t[g + 2] \in Tails
  \/ s = 3 /\ g = j /\ t[g] \in (225..239) \ {237}
  \/ s = 3 /\ g + 1 = j /\ TwoOfFour(t[g], t[g + 1])
  \/ s = 4 /\ g = j /\ t[g] = 224
  \/ s = 5 /\ g = j /\ t[g] = 237
  \/ s = 6 /\ g = j /\ t[g] = 240
  \/ s = 7 /\ g = j /\ t[g] \in 241..243
  \/ s = 8 /\ g = j /\ t[g] = 244

LEMMA OpenStep ==
  ASSUME NEW t, NEW g \in Nat, NEW j \in Nat, NEW s, NEW r,
         Open(t, g, j, s), Leads(s, t[j + 1], r)
  PROVE  IF r = 0 THEN IsChar(t, g, j + 1) /\ g <= j + 1 ELSE Open(t, g, j + 1, r)
<1>1. CASE s = 0
  BY <1>1 DEF Open, Leads, IsChar
<1>2. CASE s = 2
  <2>1. r = 0 /\ t[j + 1] \in Tails
    BY <1>2 DEF Leads
  <2>2. CASE g = j
    BY <1>2, <2>1, <2>2 DEF Open, IsChar
  <2>3. CASE g + 1 = j
    BY <1>2, <2>1, <2>3 DEF Open, IsChar
  <2>4. CASE g + 2 = j
    BY <1>2, <2>1, <2>4 DEF Open, IsChar
  <2> QED BY <1>2, <2>2, <2>3, <2>4 DEF Open
<1>3. CASE s = 3
  <2>1. r = 2 /\ t[j + 1] \in Tails
    BY <1>3 DEF Leads
  <2>2. CASE g = j
    BY <1>3, <2>1, <2>2 DEF Open, TwoOfThree, Tails
  <2>3. CASE g + 1 = j
    BY <1>3, <2>1, <2>3 DEF Open
  <2> QED BY <1>3, <2>2, <2>3 DEF Open
<1>4. CASE s \in {4, 5}
  BY <1>4 DEF Open, Leads, TwoOfThree
<1>5. CASE s \in {6, 7, 8}
  BY <1>5 DEF Open, Leads, TwoOfFour, Tails
<1> QED BY <1>1, <1>2, <1>3, <1>4, <1>5 DEF Open

\* A character that starts where one is open goes on with the next byte.
LEMMA OpenChar ==
  ASSUME NEW t, NEW g \in Nat, NEW j \in Nat, NEW l \in Nat, NEW s,
         Open(t, g, j, s), IsChar(t, g, l)
  PROVE  l > j /\ \E r \in {0, 2, 3, 4, 5, 6, 7, 8} : Leads(s, t[j + 1], r)
<1>1. CASE s = 0
  BY <1>1 DEF Open, Leads, IsChar, TwoOfThree, TwoOfFour
<1>2. CASE s = 2
  BY <1>2 DEF Open, Leads, IsChar, TwoOfThree, TwoOfFour, Tails
<1>3. CASE s = 3
  BY <1>3 DEF Open, Leads, IsChar, TwoOfThree, TwoOfFour, Tails
<1>4. CASE s \in {4, 5}
  BY <1>4 DEF Open, Leads, IsChar, TwoOfThree, TwoOfFour, Tails
<1>5. CASE s \in {6, 7, 8}
  BY <1>5 DEF Open, Leads, IsChar, TwoOfThree, TwoOfFour, Tails
<1> QED BY <1>1, <1>2, <1>3, <1>4, <1>5 DEF Open

-----------------------------------------------------------------------------
(* Characters do not overlap.                                                *)

\* Every byte up to byte m is one of a character that ends there or before.
Covered(t, m) == \A k \in 1..m : \E f \in 1..k, l \in k..m : IsChar(t, f, l)

LEMMA CharBytes ==
  ASSUME NEW t, NEW f \in Nat, NEW l \in Nat, IsChar(t, f, l)
  PROVE  f <= l /\ t[f] \notin Tails /\ \A k \in (f + 1)..l : t[k] \in Tails
<1>1. CASE l = f \/ l = f + 1
  BY <1>1 DEF IsChar, TwoOfThree, TwoOfFour, Tails
<1>2. CASE l = f + 2
  <2>1. TwoOfThree(t[f], t[f + 1]) /\ t[l] \in Tails
    BY <1>2 DEF IsChar
  <2>2. t[f] \notin Tails /\ t[f + 1] \in Tails
    BY <2>1 DEF TwoOfThree, Tails
  <2>3. \A k \in (f + 1)..l : k = f + 1 \/ k = l
    BY <1>2
  <2> QED BY <1>2, <2>1, <2>2, <2>3
<1>3. CASE l = f + 3
  <2>1. TwoOfFour(t[f], t[f + 1]) /\ t[f + 2] \in Tails /\ t[l] \in Tails
    BY <1>3 DEF IsChar
  <2>2. t[f] \notin Tails /\ t[f + 1] \in Tails
    BY <2>1 DEF TwoOfFour, Tails
  <2>3. \A k \in (f + 1)..l : k = f + 1 \/ k = f + 2 \/ k = l
    BY <1>3
  <2> QED BY <1>3, <2>1, <2>2, <2>3
<1> QED BY <1>1, <1>2, <1>3 DEF IsChar

LEMMA CharSize ==
  ASSUME NEW t, NEW f \in Nat, NEW l \in Nat, NEW m \in Nat, IsChar(t, f, l), IsChar(t, f, m)
  PROVE  l = m
<1>1. /\ t[f] \in 0..127 => l = f
      /\ t[f] \in 194..223 => l = f + 1
      /\ t[f] \in 224..239 => l = f + 2
      /\ t[f] \in 240..244 => l = f + 3
  BY DEF IsChar, TwoOfThree, TwoOfFour
<1>2. /\ l = f => t[f] \in 0..127
      /\ l = f + 1 => t[f] \in 194..223
      /\ l = f + 2 => t[f] \in 224..239
      /\ l = f + 3 => t[f] \in 240..244
  BY DEF IsChar, TwoOfThree, TwoOfFour
<1>3. /\ t[f] \in 0..127 => m = f
      /\ t[f] \in 194..223 => m = f + 1
      /\ t[f] \in 224..239 => m = f + 2
      /\ t[f] \in 240..244 => m = f + 3
  BY DEF IsChar, TwoOfThree, TwoOfFour
<1>4. l \in {f, f + 1, f + 2, f + 3}
  BY DEF IsChar
<1> QED BY <1>2, <1>3, <1>4

LEMMA CharsApart ==
  ASSUME NEW t, NEW f \in Nat, NEW l \in Nat, NEW g \in Nat, NEW m \in Nat,
         IsChar(t, f, l), IsChar(t, g, m), NEW k \in Nat, k \in f..l, k \in g..m
  PROVE  f = g /\ l = m
<1>1. f = g
  <2>1. /\ t[f] \notin Tails /\ t[g] \notin Tails
        /\ (\A e \in (f + 1)..l : t[e] \in Tails)
        /\ (\A e \in (g + 1)..m : t[e] \in Tails)
    BY CharBytes
  <2>2. f < g => g \in (f + 1)..l
    OBVIOUS
  <2>3. g < f => f \in (g + 1)..m
    OBVIOUS
  <2> QED BY <2>1, <2>2, <2>3
<1> QED BY <1>1, CharSize

\* In a text, a character starts wherever the characters before it end.
LEMMA CharHere ==
  ASSUME NEW t, NEW m \in Nat, NEW g \in 1..m, Covered(t, m), Covered(t, g - 1)
  PROVE  \E l \in g..m : IsChar(t, g, l)
<1>1. PICK f \in 1..g, l \in g..m : IsChar(t, f, l)
  BY DEF Covered
<1>2. f \in Nat /\ l \in Nat /\ g \in Nat /\ f <= g /\ g <= l
  OBVIOUS
<1>3. CASE f = g
  BY <1>1, <1>3
<1>4. CASE f < g
  <2>1. f \in 1..(g - 1)
    BY <1>2, <1>4
  <2>2. PICK a \in 1..f, b \in f..(g - 1) : IsChar(t, a, b)
    BY <2>1 DEF Covered
  <2>3. a \in Nat /\ b \in Nat /\ f \in a..b /\ f \in f..l /\ b < g
    BY <1>2, <2>1, <2>2
  <2>4. b = l
    BY <1>1, <1>2, <2>2, <2>3, CharsApart
  <2> QED BY <1>2, <2>3, <2>4
<1> QED BY <1>2, <1>3, <1>4

LEMMA CoveredMore ==
  ASSUME NEW t, NEW g \in Nat, NEW m \in Nat, g >= 1, g <= m, Covered(t, g - 1), IsChar(t, g, m)
  PROVE  Covered(t, m)
<1>1. ASSUME NEW k \in 1..m PROVE \E f \in 1..k, l \in k..m : IsChar(t, f, l)
  <2>1. CASE k < g
    <3>1. k \in 1..(g - 1)
      BY <2>1
    <3>2. PICK f \in 1..k, l \in k..(g - 1) : IsChar(t, f, l)
      BY <3>1 DEF Covered
    <3>3. l \in k..m
      BY <3>1
    <3> QED BY <3>2, <3>3
  <2>2. CASE k >= g
    <3>1. g \in 1..k /\ m \in k..m
      BY <2>2
    <3> QED BY <3>1
  <2> QED BY <2>1, <2>2
<1> QED BY <1>1 DEF Covered

\* A character, or one that is open, is the same in a text with the same bytes.
LEMMA CharSame ==
  ASSUME NEW t, NEW u, NEW j \in Nat, \A k \in 1..j : u[k] = t[k],
         NEW f \in 1..j, NEW l \in 1..j, f <= l, IsChar(t, f, l)
  PROVE  IsChar(u, f, l)
<1>1. u[f] = t[f] /\ u[l] = t[l]
  OBVIOUS
<1>2. CASE l = f \/ l = f + 1
  BY <1>1, <1>2 DEF IsChar
<1>3. CASE l = f + 2 \/ l = f + 3
  <2>1. f + 1 \in 1..j
    BY <1>3
  <2>2. l = f + 3 => f + 2 \in 1..j
    OBVIOUS
  <2> QED BY <1>1, <1>3, <2>1, <2>2 DEF IsChar
<1> QED BY <1>2, <1>3 DEF IsChar
-----------------------------------------------------------------------------
(* FlattenSeq, which is defined by recursion: by induction, in the form of the *)
(* first-order theorems on well-founded relations, its recursion has a         *)
(* solution, and two sequences that begin alike have solutions that do.        *)

LEMMA SetInduction ==
  ASSUME NEW S, 0 \in S, \A k \in Nat : k \in S => k + 1 \in S
  PROVE  Nat \subseteq S
<1> SUFFICES ASSUME Nat \ S # {} PROVE FALSE
  OBVIOUS
<1> DEFINE R == OpToRel(<, Nat)
<1>1. PICK m \in Nat \ S : \A k \in Nat \ S : ~(<<k, m>> \in R)
  <2>1. IsWellFoundedOn(R, Nat)
    BY NatLessThanWellFounded
  <2> HIDE DEF R
  <2> QED
    BY <2>1, WFMin
<1>2. m # 0 /\ m - 1 \in Nat
  OBVIOUS
<1>3. m - 1 \in S
  <2>1. <<m - 1, m>> \in R
    BY <1>2 DEF OpToRel
  <2> QED
    BY <1>1, <1>2, <2>1
<1> QED
  BY <1>2, <1>3

\* all[k] is the concatenation of the first k elements of t.
Partial(t, m, all) == all = [k \in 1..m |-> IF k = 1 THEN t[k] ELSE all[k-1] \o t[k]]

LEMMA PartialMore ==
  ASSUME NEW t, NEW m \in Nat, NEW all, Partial(t, m, all)
  PROVE  \E more : Partial(t, m + 1, more)
<1> DEFINE x == IF m = 0 THEN t[1] ELSE all[m] \o t[m + 1]
           more == [k \in 1..(m + 1) |-> IF k = m + 1 THEN x ELSE all[k]]
           next == [k \in 1..(m + 1) |-> IF k = 1 THEN t[k] ELSE more[k-1] \o t[k]]
<1>1. ASSUME NEW k \in 1..(m + 1) PROVE more[k] = next[k]
  <2>1. CASE k = m + 1 /\ m = 0
    BY <2>1
  <2>2. CASE k = m + 1 /\ m # 0
    <3>1. m \in 1..(m + 1) /\ m + 1 \in 1..(m + 1) /\ m # m + 1
      BY <2>2
    <3>2. more[m] = all[m] /\ more[m + 1] = x
      <4> HIDE DEF x
      <4> QED
        BY <3>1
    <3>3. x = all[m] \o t[m + 1]
      BY <2>2
    <3>4. m + 1 # 1 /\ (m + 1) - 1 = m /\ m + 1 \in 1..(m + 1)
      BY <2>2
    <3> HIDE DEF more, x
    <3>5. next[m + 1] = more[m] \o t[m + 1]
      BY <3>4
    <3> QED
      BY <2>2, <3>2, <3>3, <3>5
  <2>3. CASE k \in 1..m
    <3>1. more[k] = all[k] /\ (k # 1 => more[k-1] = all[k-1])
      BY <2>3
    <3>2. all[k] = IF k = 1 THEN t[k] ELSE all[k-1] \o t[k]
      BY <2>3 DEF Partial
    <3> QED
      BY <2>3, <3>1, <3>2
  <2> QED
    BY <2>1, <2>2, <2>3
<1>2. more = next
  BY <1>1
<1>3. Partial(t, m + 1, more)
  <2> HIDE DEF more
  <2> QED
    BY <1>2 DEF Partial
<1> QED
  BY <1>3

LEMMA PartialExists == ASSUME NEW t, NEW m \in Nat PROVE \E all : Partial(t, m, all)
<1> DEFINE D == {k \in Nat : \E all : Partial(t, k, all)}
<1>1. 0 \in D
  <2>1. Partial(t, 0, [k \in 1..0 |-> 0])
    BY DEF Partial
  <2> QED
    BY <2>1
<1>2. ASSUME NEW k \in Nat, k \in D PROVE k + 1 \in D
  BY <1>2, PartialMore
<1> HIDE DEF D
<1>3. Nat \subseteq D
  BY <1>1, <1>2, SetInduction
<1> QED
  BY <1>3 DEF D

LEMMA PartialFirst ==
  ASSUME NEW t, NEW m \in Nat, m # 0, NEW all, Partial(t, m, all)
  PROVE  all[1] = t[1]
<1> DEFINE h == [k \in 1..m |-> IF k = 1 THEN t[k] ELSE all[k-1] \o t[k]]
<1>1. all = h
  BY DEF Partial
<1>2. h[1] = t[1]
  OBVIOUS
<1> HIDE DEF h
<1> QED
  BY <1>1, <1>2

LEMMA PartialNext ==
  ASSUME NEW t, NEW m \in Nat, NEW all, Partial(t, m, all)
  PROVE  \A j \in 2..m : all[j] = all[j - 1] \o t[j]
<1> DEFINE h == [k \in 1..m |-> IF k = 1 THEN t[k] ELSE all[k-1] \o t[k]]
<1>1. all = h
  BY DEF Partial
<1>2. ASSUME NEW j \in 2..m PROVE h[j] = all[j - 1] \o t[j]
  <2>1. j \in 1..m /\ j # 1
    OBVIOUS
  <2> QED
    BY <2>1
<1> HIDE DEF h
<1> QED
  BY <1>1, <1>2

LEMMA PartialSame ==
  ASSUME NEW t, NEW u, NEW m \in Nat, NEW p \in Nat, NEW f, NEW g,
         Partial(t, m, f), Partial(u, p, g),
         NEW k \in Nat, k <= m, k <= p, \A e \in 1..k : t[e] = u[e]
  PROVE  \A e \in 1..k : f[e] = g[e]
<1> DEFINE D == {j \in Nat : j \in 1..k => f[j] = g[j]}
<1>1. 0 \in D
  OBVIOUS
<1>2. ASSUME NEW j \in Nat, j \in D PROVE j + 1 \in D
  <2>1. PICK q \in Nat : q = j + 1
    OBVIOUS
  <2>2. CASE q \in 1..k /\ j # 0
    <3>1. q \in 2..m /\ q \in 2..p /\ j = q - 1
      BY <2>1, <2>2
    <3>2. f[q] = f[j] \o t[q]
      <4>1. \A e \in 2..m : f[e] = f[e - 1] \o t[e]
        BY PartialNext
      <4> QED
        BY <3>1, <4>1
    <3>3. g[q] = g[j] \o u[q]
      <4>1. \A e \in 2..p : g[e] = g[e - 1] \o u[e]
        BY PartialNext
      <4> QED
        BY <3>1, <4>1
    <3>4. f[j] = g[j] /\ t[q] = u[q]
      BY <1>2, <2>1, <2>2
    <3> QED
      BY <2>1, <3>2, <3>3, <3>4
  <2>3. CASE q \in 1..k /\ j = 0
    <3>1. m # 0 /\ p # 0 /\ 1 \in 1..k
      BY <2>1, <2>3
    <3>2. f[1] = t[1]
      BY <3>1, PartialFirst
    <3>3. g[1] = u[1]
      BY <3>1, PartialFirst
    <3> QED
      BY <2>1, <2>3, <3>1, <3>2, <3>3
  <2> QED
    BY <2>1, <2>2, <2>3
<1> HIDE DEF D
<1>3. Nat \subseteq D
  BY <1>1, <1>2, SetInduction
<1> QED
  BY <1>3 DEF D

\* FlattenSeq(t) is the last of the concatenations.
LEMMA FlattenIs ==
  ASSUME NEW t, NEW m \in Nat, m = Len(t), m # 0
  PROVE  \E all : Partial(t, m, all) /\ FlattenSeq(t) = all[m]
<1> DEFINE flatten[k \in 1..Len(t)] == IF k = 1 THEN t[k] ELSE flatten[k-1] \o t[k]
<1>1. \E all : all = [k \in 1..Len(t) |-> IF k = 1 THEN t[k] ELSE all[k-1] \o t[k]]
  BY PartialExists DEF Partial
<1>2. flatten = [k \in 1..Len(t) |-> IF k = 1 THEN t[k] ELSE flatten[k-1] \o t[k]]
  BY <1>1, Zenon
<1>3. FlattenSeq(t) = flatten[Len(t)]
  <2>1. Len(t) # 0
    OBVIOUS
  <2> QED
    BY <2>1, Zenon DEF FlattenSeq
<1> HIDE DEF flatten
<1>4. Partial(t, Len(t), flatten)
  BY <1>2, Zenon DEF Partial
<1> QED
  BY <1>3, <1>4

Alike(t, u, m) == \A e \in 1..m : t[e] = u[e]

LEMMA PartialLast ==
  ASSUME NEW t, NEW u, NEW m \in Nat, NEW k \in Nat, m <= k, NEW f, NEW g,
         Partial(t, m, f), Partial(u, k, g), Alike(t, u, m)
  PROVE  Alike(f, g, m)
<1>1. m <= m
  OBVIOUS
<1> QED
  BY <1>1, PartialSame DEF Alike

LEMMA FlattenMore ==
  ASSUME NEW t, NEW u, NEW m \in Nat, NEW k \in Nat, Len(t) = m, Len(u) = k, k = m + 1,
         \A e \in 1..m : t[e] = u[e]
  PROVE  FlattenSeq(u) = IF m = 0 THEN u[k] ELSE FlattenSeq(t) \o u[k]
<1>1. PICK g : Partial(u, k, g) /\ FlattenSeq(u) = g[k]
  BY FlattenIs
<1>2. CASE m = 0
  <2>1. g[1] = u[1]
    BY <1>1, <1>2, PartialFirst
  <2> QED
    BY <1>1, <1>2, <2>1
<1>3. CASE m # 0
  <2>1. PICK f : Partial(t, m, f) /\ FlattenSeq(t) = f[m]
    BY <1>3, FlattenIs
  <2>2. m <= k /\ m <= m /\ m \in 1..m /\ k \in 2..k /\ m = k - 1
    BY <1>3
  <2>3. \A e \in 1..m : f[e] = g[e]
    <3>1. Partial(t, m, f) /\ Partial(u, k, g) /\ m <= k /\ Alike(t, u, m)
      BY <1>1, <2>1, <2>2 DEF Alike
    <3>2. Alike(f, g, m)
      BY <3>1, PartialLast
    <3> QED
      BY <3>2 DEF Alike
  <2>4. \A e \in 2..k : g[e] = g[e - 1] \o u[e]
    BY <1>1, PartialNext
  <2>5. g[k] = g[m] \o u[k]
    BY <2>2, <2>4
  <2> QED
    BY <1>1, <1>3, <2>1, <2>2, <2>3, <2>5
<1> QED
  BY <1>2, <1>3

LEMMA FlattenEmpty == FlattenSeq(<<>>) = <<>>
<1>1. Len(<<>>) = 0
  OBVIOUS
<1> QED
  BY <1>1 DEF FlattenSeq

LEMMA FlattenAppend ==
  ASSUME NEW S, NEW t \in Seq(Seq(S)), NEW x \in Seq(S)
  PROVE  FlattenSeq(Append(t, x)) = FlattenSeq(t) \o x
<1>1. PICK u : u = Append(t, x)
  OBVIOUS
<1>2. PICK m \in Nat, k \in Nat : /\ m = Len(t) /\ k = Len(u) /\ k = m + 1 /\ u[k] = x
                                  /\ \A e \in 1..m : t[e] = u[e]
  BY <1>1
<1>3. FlattenSeq(u) = IF m = 0 THEN u[k] ELSE FlattenSeq(t) \o u[k]
  BY <1>2, FlattenMore
<1>4. CASE m = 0
  <2>1. t = <<>>
    <3>1. Len(t) = 0
      BY <1>2, <1>4
    <3> QED
      BY <3>1
  <2>2. FlattenSeq(t) = <<>>
    BY <2>1, FlattenEmpty
  <2>3. <<>> \o x = x
    OBVIOUS
  <2> QED
    BY <1>1, <1>2, <1>3, <1>4, <2>2, <2>3
<1> QED
  BY <1>1, <1>2, <1>3, <1>4

\* A concatenation of sequences over S is one.
LEMMA FlattenType ==
  ASSUME NEW S, NEW t \in Seq(Seq(S))
  PROVE  FlattenSeq(t) \in Seq(S)
<1>1. CASE Len(t) = 0
  <2>1. t = <<>>
    BY <1>1
  <2>2. FlattenSeq(t) = <<>>
    BY <2>1, FlattenEmpty
  <2> QED
    BY <2>2
<1>2. CASE Len(t) # 0
  <2>1. PICK m \in Nat : m = Len(t) /\ m # 0 /\ \A e \in 1..m : t[e] \in Seq(S)
    BY <1>2
  <2>2. PICK all : Partial(t, m, all) /\ FlattenSeq(t) = all[m]
    BY <2>1, FlattenIs
  <2> DEFINE D == {j \in Nat : j \in 1..m => all[j] \in Seq(S)}
  <2>3. 0 \in D
    OBVIOUS
  <2>4. ASSUME NEW j \in Nat, j \in D PROVE j + 1 \in D
    <3>1. PICK q \in Nat : q = j + 1
      OBVIOUS
    <3>2. CASE q \in 1..m /\ j # 0
      <4>1. \A e \in 2..m : all[e] = all[e - 1] \o t[e]
        BY <2>2, PartialNext
      <4>2. all[q] = all[j] \o t[q]
        <5>1. q \in 2..m /\ j = q - 1
          BY <3>1, <3>2
        <5> QED
          BY <4>1, <5>1
      <4>3. all[j] \in Seq(S) /\ t[q] \in Seq(S)
        BY <2>1, <2>4, <3>1, <3>2
      <4>4. all[j] \o t[q] \in Seq(S)
        BY <4>3
      <4> QED
        BY <3>1, <4>2, <4>4
    <3>3. CASE q \in 1..m /\ j = 0
      <4>1. all[1] = t[1]
        BY <2>1, <2>2, PartialFirst
      <4> QED
        BY <2>1, <3>1, <3>3, <4>1
    <3> QED
      BY <3>1, <3>2, <3>3
  <2> HIDE DEF D
  <2>5. Nat \subseteq D
    BY <2>3, <2>4, SetInduction
  <2> QED
    BY <2>1, <2>2, <2>5 DEF D
<1> QED
  BY <1>1, <1>2

-----------------------------------------------------------------------------
(* The automaton recognises UTF-8.                                           *)

\* After j bytes of t, which are characters and the open one of state s.
Pending(t, j, s) == \E g \in 1..(j + 1) : Covered(t, g - 1) /\ Open(t, g, j, s)

LEMMA PendingStart == ASSUME NEW t PROVE Pending(t, 0, 0)
<1>1. Covered(t, 1 - 1) /\ Open(t, 1, 0, 0)
  BY DEF Covered, Open
<1> QED BY <1>1 DEF Pending

LEMMA PendingStep ==
  ASSUME NEW t, NEW j \in Nat, NEW s, NEW r, Pending(t, j, s), Leads(s, t[j + 1], r)
  PROVE  Pending(t, j + 1, r)
<1>1. PICK g \in 1..(j + 1) : Covered(t, g - 1) /\ Open(t, g, j, s)
  BY DEF Pending
<1>2. IF r = 0 THEN IsChar(t, g, j + 1) /\ g <= j + 1 ELSE Open(t, g, j + 1, r)
  BY <1>1, OpenStep
<1>3. PICK m \in Nat : m = j + 1
  OBVIOUS
<1>4. CASE r = 0
  <2>1. Covered(t, m)
    BY <1>1, <1>2, <1>3, <1>4, CoveredMore
  <2>2. PICK h \in 1..(m + 1) : h = m + 1 /\ h - 1 = m
    BY <1>3
  <2>3. Open(t, h, m, 0) /\ Covered(t, h - 1)
    BY <2>1, <2>2 DEF Open
  <2> QED BY <1>3, <1>4, <2>3 DEF Pending
<1>5. CASE r # 0
  <2>1. g \in 1..(m + 1)
    BY <1>3
  <2> QED BY <1>1, <1>2, <1>3, <1>5, <2>1 DEF Pending
<1> QED BY <1>4, <1>5

LEMMA PendingSame ==
  ASSUME NEW t, NEW u, NEW j \in Nat, NEW s, \A k \in 1..j : u[k] = t[k], Pending(t, j, s)
  PROVE  Pending(u, j, s)
<1>1. PICK g \in 1..(j + 1) : Covered(t, g - 1) /\ Open(t, g, j, s)
  BY DEF Pending
<1>2. Covered(u, g - 1)
  <2>1. ASSUME NEW k \in 1..(g - 1) PROVE \E f \in 1..k, l \in k..(g - 1) : IsChar(u, f, l)
    <3>1. PICK f \in 1..k, l \in k..(g - 1) : IsChar(t, f, l)
      BY <1>1 DEF Covered
    <3>2. f \in 1..j /\ l \in 1..j /\ f <= l
      BY <2>1
    <3>3. IsChar(u, f, l)
      BY <3>1, <3>2, CharSame
    <3> QED BY <3>3
  <2> QED BY <2>1 DEF Covered
<1>3. Open(u, g, j, s)
  <2>1. CASE g = j + 1
    BY <1>1, <2>1 DEF Open
  <2>2. CASE g <= j
    <3>1. u[g] = t[g]
      BY <2>2
    <3>2. CASE g = j
      BY <1>1, <3>1, <3>2 DEF Open
    <3>3. CASE g + 1 = j
      <4>1. u[g + 1] = t[g + 1]
        BY <3>3
      <4> QED BY <1>1, <3>1, <3>3, <4>1 DEF Open
    <3>4. CASE g + 2 = j
      <4>1. u[g + 1] = t[g + 1] /\ u[g + 2] = t[g + 2]
        BY <3>4
      <4> QED BY <1>1, <3>1, <3>4, <4>1 DEF Open
    <3> QED BY <1>1, <2>2, <3>2, <3>3, <3>4 DEF Open
  <2> QED BY <2>1, <2>2
<1> QED BY <1>2, <1>3 DEF Pending

\* The bytes of a text never lead to rejection.
LEMMA TextGoesOn ==
  ASSUME NEW u, Len(u) \in Nat, NEW j \in Nat, j < Len(u), NEW s, WellFormed(u), Pending(u, j, s)
  PROVE  \E r \in {0, 2, 3, 4, 5, 6, 7, 8} : Leads(s, u[j + 1], r)
<1>1. PICK g \in 1..(j + 1) : Covered(u, g - 1) /\ Open(u, g, j, s)
  BY DEF Pending
<1>2. g \in 1..Len(u) /\ Covered(u, Len(u))
  BY DEF WellFormed, Covered
<1>3. PICK l \in g..Len(u) : IsChar(u, g, l)
  BY <1>1, <1>2, CharHere
<1>4. g \in Nat /\ l \in Nat
  BY <1>2
<1> QED BY <1>1, <1>3, <1>4, OpenChar

\* No character is open at the end of a text, and only there.
LEMMA TextEnds ==
  ASSUME NEW u, Len(u) \in Nat, NEW s, Pending(u, Len(u), s)
  PROVE  s = 0 <=> WellFormed(u)
<1>1. PICK g \in 1..(Len(u) + 1) : Covered(u, g - 1) /\ Open(u, g, Len(u), s)
  BY DEF Pending
<1>2. ASSUME s = 0 PROVE WellFormed(u)
  <2>1. g - 1 = Len(u)
    BY <1>1, <1>2 DEF Open
  <2> QED BY <1>1, <2>1 DEF WellFormed, Covered
<1>3. ASSUME s # 0, WellFormed(u) PROVE FALSE
  <2>1. g \in 1..Len(u) /\ Covered(u, Len(u))
    BY <1>1, <1>3 DEF Open, WellFormed, Covered
  <2>2. PICK l \in g..Len(u) : IsChar(u, g, l)
    BY <1>1, <2>1, CharHere
  <2>3. g \in Nat /\ l \in Nat /\ l <= Len(u)
    BY <2>1
  <2>4. l > Len(u)
    BY <1>1, <2>2, <2>3, OpenChar
  <2> QED BY <2>3, <2>4
<1> QED BY <1>2, <1>3

\* An open character is completed by tails.
LEMMA OpenCompleted ==
  ASSUME NEW t, NEW g \in Nat, NEW j \in Nat, NEW s, s # 0, Open(t, g, j, s)
  PROVE  \E size \in 1..3 : \E rest \in [1..size -> {128, 144, 160}] :
           \A u : (\A k \in g..j : u[k] = t[k]) /\ (\A k \in 1..size : u[j + k] = rest[k])
                    => IsChar(u, g, j + size)
<1>1. CASE s = 2
  <2> DEFINE rest == [k \in 1..1 |-> 128]
  <2>1. rest \in [1..1 -> {128, 144, 160}] /\ rest[1] = 128
    OBVIOUS
  <2> HIDE DEF rest
  <2>2. ASSUME NEW u, \A k \in g..j : u[k] = t[k], \A k \in 1..1 : u[j + k] = rest[k]
        PROVE  IsChar(u, g, j + 1)
    <3>1. u[j + 1] \in Tails
      BY <2>1, <2>2 DEF Tails
    <3>2. Open(u, g, j, s) /\ g <= j
      BY <1>1, <2>2 DEF Open
    <3>3. Leads(s, u[j + 1], 0)
      BY <1>1, <3>1 DEF Leads
    <3> QED BY <3>2, <3>3, OpenStep
  <2> QED BY <2>1, <2>2
<1>2. CASE s \in {3, 4, 5}
  <2> DEFINE rest == [k \in 1..2 |-> IF k = 1 /\ s = 4 THEN 160 ELSE 128]
  <2>1. /\ rest \in [1..2 -> {128, 144, 160}] /\ rest[2] = 128
        /\ rest[1] = IF s = 4 THEN 160 ELSE 128
    OBVIOUS
  <2> HIDE DEF rest
  <2>2. ASSUME NEW u, \A k \in g..j : u[k] = t[k], \A k \in 1..2 : u[j + k] = rest[k]
        PROVE  IsChar(u, g, j + 2)
    <3>1. u[j + 1] = rest[1] /\ u[j + 2] = 128
      BY <2>1, <2>2
    <3>2. Open(u, g, j, s) /\ g <= j
      BY <1>2, <2>2 DEF Open
    <3>3. Leads(s, u[j + 1], 2)
      BY <1>2, <2>1, <3>1 DEF Leads, Tails
    <3>4. Open(u, g, j + 1, 2)
      BY <3>2, <3>3, OpenStep
    <3>5. PICK m \in Nat : m = j + 1 /\ m + 1 = j + 2
      OBVIOUS
    <3>6. Leads(2, u[m + 1], 0)
      BY <3>1, <3>5 DEF Leads, Tails
    <3>7. IsChar(u, g, m + 1)
      BY <3>4, <3>5, <3>6, OpenStep
    <3> QED BY <3>5, <3>7
  <2> QED BY <2>1, <2>2
<1>3. CASE s \in {6, 7, 8}
  <2> DEFINE rest == [k \in 1..3 |-> IF k = 1 /\ s = 6 THEN 144 ELSE 128]
  <2>1. /\ rest \in [1..3 -> {128, 144, 160}] /\ rest[2] = 128 /\ rest[3] = 128
        /\ rest[1] = IF s = 6 THEN 144 ELSE 128
    OBVIOUS
  <2> HIDE DEF rest
  <2>2. ASSUME NEW u, \A k \in g..j : u[k] = t[k], \A k \in 1..3 : u[j + k] = rest[k]
        PROVE  IsChar(u, g, j + 3)
    <3>1. g = j /\ u[g] = t[g]
      BY <1>3, <2>2 DEF Open
    <3>2. u[j + 1] = rest[1] /\ u[j + 2] = 128 /\ u[j + 3] = 128
      BY <2>1, <2>2
    <3>3. TwoOfFour(u[g], u[j + 1])
      BY <1>3, <2>1, <3>1, <3>2 DEF Open, TwoOfFour, Tails
    <3> QED BY <3>1, <3>2, <3>3 DEF IsChar, Tails
  <2> QED BY <2>1, <2>2
<1> QED BY <1>1, <1>2, <1>3 DEF Open

LEMMA PendingCompletes ==
  ASSUME NEW t \in Seq(0..255), NEW s, Pending(t, Len(t), s)
  PROVE  Completable(t)
<1>1. Len(t) \in Nat
  BY ElementFacts
<1>2. PICK g \in 1..(Len(t) + 1) : Covered(t, g - 1) /\ Open(t, g, Len(t), s)
  BY DEF Pending
<1>3. CASE s = 0
  <2>1. WellFormed(t)
    BY <1>1, <1>3, TextEnds
  <2> DEFINE rest == [k \in 1..0 |-> 128]
  <2>2. rest \in [1..0 -> {128, 144, 160}]
    OBVIOUS
  <2>3. t \o rest = t
    <3>1. rest = <<>>
      OBVIOUS
    <3> QED BY <3>1
  <2> HIDE DEF rest
  <2>4. 0 \in 0..3 /\ WellFormed(t \o rest)
    BY <2>1, <2>3
  <2> QED BY <2>2, <2>4 DEF Completable
<1>4. CASE s # 0
  <2> DEFINE Ends(size, rest) ==
               \A u : (\A k \in g..Len(t) : u[k] = t[k])
                        /\ (\A k \in 1..size : u[Len(t) + k] = rest[k])
                      => IsChar(u, g, Len(t) + size)
  <2>0. PICK size \in 1..3 : \E rest \in [1..size -> {128, 144, 160}] : Ends(size, rest)
    BY <1>1, <1>2, <1>4, OpenCompleted
  <2>1. PICK rest \in [1..size -> {128, 144, 160}] : Ends(size, rest)
    BY <2>0
  <2> DEFINE u == t \o rest
  <2>2. rest \in Seq(0..255) /\ Len(rest) = size
    OBVIOUS
  <2>3. /\ Len(u) = Len(t) + size
        /\ \A k \in 1..Len(t) : u[k] = t[k]
        /\ \A k \in 1..size : u[Len(t) + k] = rest[k]
    BY <2>2
  <2> HIDE DEF u
  <2>4. IsChar(u, g, Len(t) + size)
    <3>1. \A k \in g..Len(t) : k \in 1..Len(t)
      BY <1>1
    <3> QED BY <2>1, <2>3, <3>1
  <2>5. Covered(u, g - 1)
    <3>1. ASSUME NEW k \in 1..(g - 1) PROVE \E f \in 1..k, l \in k..(g - 1) : IsChar(u, f, l)
      <4>1. PICK f \in 1..k, l \in k..(g - 1) : IsChar(t, f, l)
        BY <1>2 DEF Covered
      <4>2. f \in 1..Len(t) /\ l \in 1..Len(t) /\ f <= l
        BY <1>1, <3>1
      <4>3. IsChar(u, f, l)
        BY <1>1, <2>3, <4>1, <4>2, CharSame
      <4> QED BY <4>3
    <3> QED BY <3>1 DEF Covered
  <2>6. Covered(u, Len(t) + size)
    <3>1. g \in Nat /\ g >= 1 /\ Len(t) + size \in Nat /\ g <= Len(t) + size
      BY <1>1
    <3> QED BY <2>4, <2>5, <3>1, CoveredMore
  <2>7. WellFormed(u)
    BY <2>3, <2>6 DEF WellFormed, Covered
  <2>8. size \in 0..3
    OBVIOUS
  <2> QED BY <2>7, <2>8 DEF Completable, u
<1> QED BY <1>3, <1>4

\* No text begins with the first j bytes of t.
NoText(t, j) ==
  \A u \in Seq(0..255) : Len(u) >= j /\ (\A k \in 1..j : u[k] = t[k]) => ~WellFormed(u)

\* The line is one: not empty, with no newline but at its end.
IsLine == pc # "idle" \/ decoded > 0 =>
            Len(in) > 0 /\ \A k \in 1..(Len(in) - 1) : in[k] # Newline

\* What the automaton knows of the bytes it has read.
Knows == pc = "scan" => IF info.validUtf8 THEN Pending(in, i, state) ELSE NoText(in, i)

LEMMA LineStep == Inv /\ IsLine /\ [Next]_vars => IsLine'
<1> SUFFICES ASSUME Inv, IsLine, [Next]_vars PROVE IsLine'
  OBVIOUS
<1>1. CASE GrabLine
  <2>1. PICK l \in Lines[decoded + 1] : in' = l
    BY <1>1 DEF GrabLine
  <2>2. decoded + 1 \in DOMAIN Lines
    <3>1. decoded \in Nat /\ decoded < Len(Lines) /\ DOMAIN Lines = 1..Len(Lines)
      BY <1>1, EncodingAssumption DEF Inv, TypeOK, GrabLine
    <3> QED BY <3>1
  <2>3. Len(l) > 0 /\ \A k \in 1..(Len(l) - 1) : l[k] # Newline
    BY <2>2, EncodingAssumption, Zenon
  <2> QED BY <2>1, <2>3 DEF IsLine
<1>2. CASE GrowString \/ Scan \/ BeginLatin1 \/ Convert
  BY <1>2 DEF IsLine, GrowString, Scan, BeginLatin1, Convert
<1>3. CASE CopyString \/ EndLatin1
  BY <1>3 DEF IsLine, CopyString, EndLatin1
<1>4. CASE UNCHANGED vars
  BY <1>4 DEF IsLine, vars
<1> QED BY <1>1, <1>2, <1>3, <1>4 DEF Next

LEMMA KnowsScan == Inv /\ Knows /\ Scan => Knows'
<1> SUFFICES ASSUME Inv, Knows, Scan PROVE Knows'
  OBVIOUS
<1> DEFINE c == in[i + 1]
           s == StateAfter(state, c)
<1>1. /\ i \in Nat /\ i < Len(in) /\ Len(in) \in Nat /\ in \in Seq(1..255) /\ state \in 0..8
      /\ info.validUtf8 \in BOOLEAN
  BY DEF Inv, TypeOK, Scan
<1>2. c \in 1..255
  BY <1>1, ElementFacts
<1>3. /\ in' = in /\ i' = i + 1 /\ state' = s /\ pc = "scan"
      /\ info'.validUtf8 = (info.validUtf8 /\ s # Reject)
  BY DEF Scan
<1>4. CASE ~info.validUtf8
  <2>1. NoText(in, i)
    BY <1>3, <1>4 DEF Knows
  <2>2. NoText(in, i + 1)
    <3>1. ASSUME NEW u \in Seq(0..255), Len(u) >= i + 1, \A k \in 1..(i + 1) : u[k] = in[k]
          PROVE  ~WellFormed(u)
      <4>1. Len(u) >= i /\ \A k \in 1..i : u[k] = in[k]
        <5>1. Len(u) \in Nat
          BY ElementFacts
        <5> QED BY <1>1, <3>1, <5>1
      <4> QED BY <2>1, <4>1 DEF NoText
    <3> QED BY <3>1 DEF NoText
  <2>3. ~info'.validUtf8
    BY <1>3, <1>4, Zenon
  <2> QED BY <1>3, <2>2, <2>3 DEF Knows
<1>5. CASE info.validUtf8 /\ s # Reject
  <2>1. Leads(state, c, s)
    BY <1>1, <1>2, <1>5, TableFacts
  <2>2. Pending(in, i, state)
    BY <1>3, <1>5 DEF Knows
  <2> HIDE DEF s
  <2>3. Pending(in, i + 1, s)
    BY <1>1, <2>1, <2>2, PendingStep
  <2>4. info'.validUtf8
    BY <1>3, <1>5, Zenon
  <2> QED BY <1>3, <2>3, <2>4 DEF Knows
<1>6. CASE info.validUtf8 /\ s = Reject
  <2>1. Pending(in, i, state)
    BY <1>3, <1>6 DEF Knows
  <2>2. NoText(in, i + 1)
    <3>1. ASSUME NEW u \in Seq(0..255), Len(u) >= i + 1, \A k \in 1..(i + 1) : u[k] = in[k],
                 WellFormed(u)
          PROVE  FALSE
      <4>1. /\ Len(u) \in Nat /\ i < Len(u) /\ u[i + 1] = c
            /\ \A k \in 1..i : u[k] = in[k]
        <5>1. Len(u) \in Nat
          BY ElementFacts
        <5> QED BY <1>1, <3>1, <5>1
      <4>2. Pending(u, i, state)
        BY <1>1, <2>1, <4>1, PendingSame
      <4>3. PICK r \in {0, 2, 3, 4, 5, 6, 7, 8} : Leads(state, c, r)
        BY <1>1, <3>1, <4>1, <4>2, TextGoesOn
      <4>4. s = r
        BY <1>1, <1>2, <4>3, TableFacts
      <4> QED BY <1>6, <4>4 DEF Reject
    <3> QED BY <3>1 DEF NoText
  <2>3. ~info'.validUtf8
    BY <1>3, <1>6, Zenon
  <2> QED BY <1>3, <2>2, <2>3 DEF Knows
<1> QED BY <1>1, <1>4, <1>5, <1>6

LEMMA KnowsStep == Inv /\ Knows /\ [Next]_vars => Knows'
<1> SUFFICES ASSUME Inv, Knows, [Next]_vars PROVE Knows'
  OBVIOUS
<1>1. CASE GrabLine
  <2>1. i' = 0 /\ state' = 0 /\ info'.validUtf8
    BY <1>1 DEF GrabLine, InfoAtStart, Fresh, Accept
  <2> QED BY <2>1, PendingStart DEF Knows
<1>2. CASE Scan
  BY <1>2, KnowsScan
<1>3. CASE GrowString \/ CopyString \/ BeginLatin1 \/ Convert \/ EndLatin1
  BY <1>3 DEF Knows, GrowString, CopyString, BeginLatin1, Convert, EndLatin1
<1>4. CASE UNCHANGED vars
  BY <1>4 DEF Knows, vars
<1> QED BY <1>1, <1>2, <1>3, <1>4 DEF Next

LEMMA ScanInvariance == Spec => [](Inv /\ IsLine /\ Knows)
<1>1. Init => IsLine /\ Knows
  BY DEF Init, IsLine, Knows
<1> QED BY <1>1, InitInv, NextInv, LineStep, KnowsStep, PTL DEF Spec

\* The flag and the state that collectLineInfo ends with are right for every line, of
\* any length: it is rejected if and only if no text in UTF-8 begins with it, and its
\* state is that of acceptance if and only if it is one.
THEOREM DecodeRecognises == Spec => []Recognised
<1>1. Inv /\ Knows => Recognised
  <2> SUFFICES ASSUME Inv, Knows, pc = "scan", i = Len(in)
               PROVE  /\ (info.validUtf8 <=> Completable(in))
                      /\ (info.validUtf8 => (state = Accept <=> WellFormed(in)))
    BY DEF Recognised
  <2>1. Len(in) \in Nat /\ in \in Seq(0..255)
    <3>1. in \in Seq(1..255)
      BY DEF Inv, TypeOK
    <3> QED BY <3>1
  <2>2. ASSUME info.validUtf8
        PROVE  Completable(in) /\ (state = Accept <=> WellFormed(in))
    <3>1. Pending(in, Len(in), state)
      BY <2>2 DEF Knows
    <3> QED BY <2>1, <3>1, PendingCompletes, TextEnds DEF Accept
  <2>3. ASSUME ~info.validUtf8 PROVE ~Completable(in)
    <3>1. NoText(in, Len(in))
      BY <2>3 DEF Knows
    <3>2. ASSUME NEW size \in 0..3, NEW rest \in [1..size -> {128, 144, 160}]
          PROVE  ~WellFormed(in \o rest)
      <4>1. rest \in Seq(0..255) /\ Len(rest) = size
        OBVIOUS
      <4> DEFINE u == in \o rest
      <4>2. u \in Seq(0..255) /\ Len(u) >= Len(in) /\ \A k \in 1..Len(in) : u[k] = in[k]
        BY <2>1, <4>1
      <4> HIDE DEF u
      <4>3. ~WellFormed(u)
        BY <3>1, <4>2 DEF NoText
      <4> QED BY <4>3 DEF u
    <3> QED BY <3>2 DEF Completable
  <2> QED BY <2>2, <2>3
<1> QED BY <1>1, ScanInvariance, PTL

\* A line is only taken for Latin-1 when no text in UTF-8 begins with it, whatever
\* bytes would follow: not only tails.
THEOREM DecodeRejectsRightly == Spec => [](pc = "scan" /\ ~info.validUtf8 => NoText(in, i))
<1>1. Knows => (pc = "scan" /\ ~info.validUtf8 => NoText(in, i))
  BY DEF Knows
<1> QED BY <1>1, ScanInvariance, PTL

-----------------------------------------------------------------------------
(* The conversion of Latin-1.                                                *)

\* The first j bytes of t as text in UTF-8.
Converted(t, j) == FlattenSeq([k \in 1..j |-> Utf8(t[k])])

LEMMA ElementAt == ASSUME NEW S, NEW s \in Seq(S), NEW k \in 1..Len(s) PROVE s[k] \in S
OBVIOUS

LEMMA JoinFacts ==
  ASSUME NEW S, NEW s \in Seq(S), NEW x \in Seq(S)
  PROVE  /\ s \o x \in Seq(S) /\ Len(s \o x) = Len(s) + Len(x)
         /\ \A k \in 1..Len(s) : (s \o x)[k] = s[k]
         /\ \A k \in 1..Len(x) : (s \o x)[Len(s) + k] = x[k]
OBVIOUS

LEMMA Utf8Facts ==
  ASSUME NEW b \in 1..255
  PROVE  /\ b < 128 => Utf8(b) = <<b>>
         /\ b >= 128 => /\ Utf8(b) = <<Lead(b), Trail(b)>>
                        /\ Lead(b) \in 194..195 /\ Trail(b) \in Tails
<1>1. ASSUME b < 128 PROVE Utf8(b) = <<b>>
  BY <1>1 DEF Utf8
<1>2. ASSUME b >= 128
      PROVE  /\ Utf8(b) = <<Lead(b), Trail(b)>>
             /\ Lead(b) \in 194..195 /\ Trail(b) \in Tails
  <2>1. Lead(b) = 192 + (b \div 64) /\ Lead(b) \in 194..195
    BY <1>2 DEF Lead
  <2>2. Trail(b) = 128 + (b % 64) /\ Trail(b) \in Tails
    BY <1>2 DEF Trail, Tails
  <2>3. Utf8(b) = <<192 + (b \div 64), 128 + (b % 64)>>
    BY <1>2 DEF Utf8
  <2> QED BY <2>1, <2>2, <2>3
<1> QED BY <1>1, <1>2

LEMMA Utf8Type == ASSUME NEW b \in 1..255 PROVE Utf8(b) \in Seq(1..255)
<1>1. CASE b < 128
  <2>1. Utf8(b) = <<b>>
    BY <1>1, Utf8Facts
  <2> QED BY <2>1
<1>2. CASE b >= 128
  <2>1. Utf8(b) = <<Lead(b), Trail(b)>> /\ Lead(b) \in 194..195 /\ Trail(b) \in Tails
    BY <1>2, Utf8Facts
  <2>2. Lead(b) \in 1..255 /\ Trail(b) \in 1..255
    BY <2>1 DEF Tails
  <2> QED BY <2>1, <2>2
<1> QED BY <1>1, <1>2

LEMMA ConvertedNone == ASSUME NEW t PROVE Converted(t, 0) = <<>>
<1>1. [k \in 1..0 |-> Utf8(t[k])] = <<>>
  OBVIOUS
<1> QED BY <1>1, FlattenEmpty DEF Converted

LEMMA ConvertedMore ==
  ASSUME NEW r \in Seq(1..255), NEW j \in Nat, j < Len(r)
  PROVE  /\ Converted(r, j) \in Seq(1..255)
         /\ Converted(r, j + 1) = Converted(r, j) \o Utf8(r[j + 1])
<1> DEFINE t == [k \in 1..j |-> Utf8(r[k])]
           u == [k \in 1..(j + 1) |-> Utf8(r[k])]
           x == Utf8(r[j + 1])
<1>1. \A k \in 1..(j + 1) : Utf8(r[k]) \in Seq(1..255)
  <2>1. ASSUME NEW k \in 1..(j + 1) PROVE Utf8(r[k]) \in Seq(1..255)
    <3>1. k \in 1..Len(r)
      OBVIOUS
    <3>2. r[k] \in 1..255
      BY <3>1, ElementAt
    <3> QED BY <3>2, Utf8Type
  <2> QED BY <2>1
<1>2. t \in Seq(Seq(1..255)) /\ x \in Seq(1..255)
  <2>1. \A k \in 1..j : k \in 1..(j + 1)
    OBVIOUS
  <2>2. j + 1 \in 1..(j + 1)
    OBVIOUS
  <2> QED BY <1>1, <2>1, <2>2, IsASeq
<1>3. u = Append(t, x)
  <2> DEFINE a == Append(t, x)
  <2>1. Len(t) = j
    OBVIOUS
  <2>2. /\ a \in Seq(Seq(1..255)) /\ Len(a) = j + 1 /\ a[j + 1] = x
        /\ \A k \in 1..j : a[k] = t[k]
    BY <1>2, <2>1, AppendProperties
  <2>3. \A k \in 1..j : t[k] = Utf8(r[k])
    OBVIOUS
  <2> HIDE DEF t, a
  <2>4. ASSUME NEW k \in 1..(j + 1) PROVE a[k] = Utf8(r[k])
    <3>1. k \in 1..j \/ k = j + 1
      OBVIOUS
    <3> QED BY <2>2, <2>3, <3>1
  <2>5. a = [k \in 1..(j + 1) |-> a[k]]
    BY <2>2
  <2> QED BY <2>4, <2>5 DEF a
<1> HIDE DEF t, u, x
<1>4. FlattenSeq(u) = FlattenSeq(t) \o x /\ FlattenSeq(t) \in Seq(1..255)
  BY <1>2, <1>3, FlattenAppend, FlattenType
<1> QED BY <1>4 DEF Converted, t, u, x

\* A character added to a text.
LEMMA TextMore ==
  ASSUME NEW s \in Seq(1..255), NEW x \in Seq(1..255), Len(x) > 0, WellFormed(s),
         IsChar(s \o x, Len(s) + 1, Len(s) + Len(x))
  PROVE  WellFormed(s \o x)
<1> DEFINE u == s \o x
<1>1. /\ Len(s) \in Nat /\ Len(x) \in Nat /\ Len(u) = Len(s) + Len(x)
      /\ \A k \in 1..Len(s) : u[k] = s[k]
  OBVIOUS
<1> HIDE DEF u
<1>2. PICK g \in Nat, m \in Nat : g = Len(s) + 1 /\ m = Len(u) /\ g - 1 = Len(s) /\ g <= m
  BY <1>1
<1>3. Covered(u, g - 1)
  <2>1. ASSUME NEW k \in 1..Len(s) PROVE \E f \in 1..k, l \in k..Len(s) : IsChar(u, f, l)
    <3>1. PICK f \in 1..k, l \in k..Len(s) : IsChar(s, f, l)
      BY DEF WellFormed
    <3>2. f \in 1..Len(s) /\ l \in 1..Len(s) /\ f <= l
      BY <1>1
    <3>3. IsChar(u, f, l)
      BY <1>1, <3>1, <3>2, CharSame
    <3> QED BY <3>3
  <2> QED BY <1>2, <2>1 DEF Covered
<1>4. IsChar(u, g, m)
  BY <1>1, <1>2 DEF u
<1>5. Covered(u, m)
  <2>1. g >= 1
    BY <1>1, <1>2
  <2> QED BY <1>2, <1>3, <1>4, <2>1, CoveredMore
<1>6. WellFormed(u)
  BY <1>2, <1>5 DEF WellFormed, Covered
<1> QED BY <1>6 DEF u

\* A text of bytes none of which is a newline, or the last one only.
NoNewline(s) == \A k \in 1..Len(s) : s[k] # Newline
NewlineLast(s) == /\ Len(s) > 0 /\ s[Len(s)] = Newline
                  /\ \A k \in 1..(Len(s) - 1) : s[k] # Newline

LEMMA AsciiMore ==
  ASSUME NEW s \in Seq(1..255), WellFormed(s), NoNewline(s), NEW c \in 1..127
  PROVE  /\ WellFormed(s \o <<c>>)
         /\ IF c = Newline THEN NewlineLast(s \o <<c>>) ELSE NoNewline(s \o <<c>>)
<1> DEFINE x == <<c>>
           u == s \o x
<1>1. Len(x) = 1 /\ x[1] = c /\ 1 \in 1..Len(x)
  OBVIOUS
<1>0. x \in Seq(1..255)
  OBVIOUS
<1> HIDE DEF x
<1>2. /\ Len(s) \in Nat /\ Len(u) = Len(s) + Len(x) /\ u[Len(s) + 1] = c
      /\ \A k \in 1..Len(s) : u[k] = s[k]
  <2>1. /\ Len(u) = Len(s) + Len(x)
        /\ \A k \in 1..Len(s) : u[k] = s[k]
        /\ \A k \in 1..Len(x) : u[Len(s) + k] = x[k]
    BY <1>0, JoinFacts
  <2> HIDE DEF u
  <2> QED BY <1>1, <2>1, ElementFacts
<1> HIDE DEF u
<1>3. PICK m \in Nat : m = Len(s) + 1 /\ m = Len(u) /\ m > 0 /\ m - 1 = Len(s) /\ u[m] = c
  BY <1>1, <1>2
<1>4. WellFormed(u)
  <2>0. u[m] \in 0..127
    <3>1. c \in 0..127
      OBVIOUS
    <3> QED BY <1>3, <3>1
  <2>1. IsChar(u, m, m)
    BY <2>0 DEF IsChar
  <2>2. m = Len(s) + 1 /\ m = Len(s) + Len(x) /\ Len(x) > 0
    BY <1>1, <1>3
  <2> QED BY <1>0, <2>1, <2>2, TextMore DEF u
<1>5. \A k \in 1..(m - 1) : u[k] # Newline
  BY <1>2, <1>3 DEF NoNewline
<1>6. ASSUME c = Newline PROVE NewlineLast(u)
  BY <1>3, <1>5, <1>6 DEF NewlineLast
<1>7. ASSUME c # Newline PROVE NoNewline(u)
  <2>1. \A k \in 1..m : k \in 1..(m - 1) \/ k = m
    OBVIOUS
  <2> QED BY <1>3, <1>5, <1>7, <2>1 DEF NoNewline
<1> QED BY <1>4, <1>6, <1>7 DEF u, x

LEMMA LatinMore ==
  ASSUME NEW s \in Seq(1..255), WellFormed(s), NoNewline(s),
         NEW a \in 194..195, NEW b \in Tails
  PROVE  WellFormed(s \o <<a, b>>) /\ NoNewline(s \o <<a, b>>)
<1> DEFINE x == <<a, b>>
           u == s \o x
<1>1. Len(x) = 2 /\ x[1] = a /\ x[2] = b /\ 1 \in 1..Len(x) /\ 2 \in 1..Len(x)
  OBVIOUS
<1>0. x \in Seq(1..255)
  BY DEF Tails
<1> HIDE DEF x
<1>2. /\ Len(s) \in Nat /\ Len(u) = Len(s) + Len(x) /\ u[Len(s) + 1] = a /\ u[Len(s) + 2] = b
      /\ \A k \in 1..Len(s) : u[k] = s[k]
  <2>1. /\ Len(u) = Len(s) + Len(x)
        /\ \A k \in 1..Len(s) : u[k] = s[k]
        /\ \A k \in 1..Len(x) : u[Len(s) + k] = x[k]
    BY <1>0, JoinFacts
  <2> HIDE DEF u
  <2> QED BY <1>1, <2>1, ElementFacts
<1> HIDE DEF u
<1>3. PICK m \in Nat : /\ m = Len(s) + 1 /\ m + 1 = Len(u) /\ m - 1 = Len(s)
                       /\ m + 1 = Len(s) + 2 /\ u[m] = a /\ u[m + 1] = b
  BY <1>1, <1>2
<1>4. WellFormed(u)
  <2>1. u[m] \in 194..223 /\ u[m + 1] \in Tails
    BY <1>3
  <2>2. IsChar(u, m, m + 1)
    BY <2>1 DEF IsChar
  <2>3. m = Len(s) + 1 /\ m + 1 = Len(s) + Len(x) /\ Len(x) > 0
    BY <1>1, <1>3
  <2> QED BY <1>0, <2>2, <2>3, TextMore DEF u
<1>5. NoNewline(u)
  <2>1. \A k \in 1..(m + 1) : k \in 1..(m - 1) \/ k = m \/ k = m + 1
    OBVIOUS
  <2>2. \A k \in 1..(m - 1) : u[k] # Newline
    BY <1>2, <1>3 DEF NoNewline
  <2>3. a # Newline /\ b # Newline
    BY DEF Newline, Tails
  <2> QED BY <1>3, <2>1, <2>2, <2>3 DEF NoNewline
<1> QED BY <1>4, <1>5 DEF u, x

-----------------------------------------------------------------------------
(* What the line holds when decodeLine returns.                              *)

\* The last byte is not ASCII when a character is open.
LEMMA OpenLast ==
  ASSUME NEW t, NEW g \in Nat, NEW j \in Nat, NEW s, s # 0, Open(t, g, j, s)
  PROVE  t[j] \in 128..244
<1>1. CASE g = j
  BY <1>1 DEF Open
<1>2. CASE g + 1 = j
  <2>1. t[g + 1] \in Tails
    BY <1>2 DEF Open, TwoOfThree, TwoOfFour, Tails
  <2> QED BY <1>2, <2>1 DEF Tails
<1>3. CASE g + 2 = j
  <2>1. t[g + 2] \in Tails
    BY <1>3 DEF Open
  <2> QED BY <1>3, <2>1 DEF Tails
<1> QED BY <1>1, <1>2, <1>3 DEF Open

\* The text s begins what f holds.
Holds(f, s) == \A k \in 1..Len(s) : f[k - 1] = s[k]

LEMMA HoldsMore ==
  ASSUME NEW s \in Seq(1..255), NEW x \in Seq(1..255), NEW f, NEW g, Holds(f, s),
         \A k \in 0..(Len(s) - 1) : g[k] = f[k],
         \A k \in 1..Len(x) : g[Len(s) + k - 1] = x[k]
  PROVE  Holds(g, s \o x)
<1> DEFINE u == s \o x
<1>1. /\ Len(s) \in Nat /\ Len(x) \in Nat /\ Len(u) = Len(s) + Len(x)
      /\ (\A k \in 1..Len(s) : u[k] = s[k])
      /\ \A k \in 1..Len(x) : u[Len(s) + k] = x[k]
  BY JoinFacts, ElementFacts
<1> HIDE DEF u
<1>2. ASSUME NEW k \in 1..Len(u) PROVE g[k - 1] = u[k]
  <2>1. CASE k \in 1..Len(s)
    <3>1. k - 1 \in 0..(Len(s) - 1)
      BY <1>1, <2>1
    <3> QED BY <1>1, <2>1, <3>1 DEF Holds
  <2>2. CASE k > Len(s)
    <3>1. PICK e \in 1..Len(x) : Len(s) + e = k /\ Len(s) + e - 1 = k - 1
      <4>1. PICK e \in 1..Len(x) : e = k - Len(s)
        <5>1. k - Len(s) \in 1..Len(x)
          BY <1>1, <2>2
        <5> QED BY <5>1
      <4>2. Len(s) + e = k /\ Len(s) + e - 1 = k - 1
        BY <1>1, <4>1
      <4> QED BY <4>2
    <3>2. u[Len(s) + e] = x[e] /\ g[Len(s) + e - 1] = x[e]
      BY <1>1
    <3> QED BY <3>1, <3>2
  <2> QED BY <1>1, <2>1, <2>2
<1> QED BY <1>2 DEF Holds, u

\* The line converted so far, or as it was left.
LatinText(s) ==
  /\ s \in Seq(1..255) /\ w = Len(s) /\ length <= w
  /\ Holds(memory, s) /\ WellFormed(s)
  /\ IF i = Len(in) /\ in[Len(in)] = Newline THEN NewlineLast(s) ELSE NoNewline(s)

Latin ==
  pc = "convert" \/ (AfterLine /\ ~info.validUtf8) =>
    /\ ~info.validUtf8 /\ LatinText(Converted(in, i))
    /\ pc = "idle" => i = Len(in) /\ w < n

\* The line copied.
Kept ==
  AfterLine /\ info.validUtf8 =>
    /\ Len(in) < n /\ length = Len(in)
    /\ Holds(memory, in) /\ memory[Len(in)] = NUL
    /\ in[Len(in)] = Newline => WellFormed(in)

LEMMA KeptCopyString == Inv /\ IsLine /\ Knows /\ CopyString => Kept' /\ Latin'
<1> SUFFICES ASSUME Inv, IsLine, Knows, CopyString PROVE Kept' /\ Latin'
  OBVIOUS
<1>1. /\ inN \in Nat /\ in \in Seq(1..255) /\ Len(in) \in Nat /\ Len(in) < inN
      /\ pc = "scan" /\ i = Len(in) /\ info.validUtf8 /\ info.length = Len(in)
      /\ in' = in /\ info' = info /\ Len(in) > 0
  BY DEF Inv, TypeOK, Fits, CopyString, IsLine
<1>2. PICK z \in Nat : n' = z /\ z >= inN + 1 /\ memory' = [k \in 0..z - 1 |-> Copied(k)]
  <2>1. inN + 1 \in Nat
    BY <1>1
  <2> QED BY <2>1, GrownFacts DEF Inv, CopyString
<1>3. Len(in) < n' /\ length' = Len(in)
  BY <1>1, <1>2 DEF CopyString
<1>4. Holds(memory', in)
  <2>1. ASSUME NEW k \in 1..Len(in) PROVE memory'[k - 1] = in[k]
    <3>1. PICK m \in Nat : m = k - 1
      BY <1>1
    <3>2. m + 1 = k /\ m < Len(in) /\ m \in 0..z - 1
      BY <1>1, <1>2, <3>1
    <3>3. memory'[m] = Copied(m)
      BY <1>2, <3>2
    <3>4. Copied(m) = in[m + 1]
      BY <3>2 DEF Copied
    <3> QED BY <3>1, <3>2, <3>3, <3>4
  <2> QED BY <2>1 DEF Holds
<1>5. memory'[Len(in)] = NUL
  <2>1. Len(in) \in 0..z - 1 /\ ~(Len(in) < Len(in))
    BY <1>1, <1>2
  <2>2. memory'[Len(in)] = Copied(Len(in))
    BY <1>2, <2>1
  <2> QED BY <2>1, <2>2 DEF Copied
<1>6. ASSUME in[Len(in)] = Newline PROVE WellFormed(in)
  <2>1. Pending(in, Len(in), state)
    BY <1>1 DEF Knows
  <2>2. PICK g \in 1..(Len(in) + 1) : Open(in, g, Len(in), state)
    BY <2>1 DEF Pending
  <2>3. in[Len(in)] \notin 128..244
    BY <1>6 DEF Newline
  <2>4. ASSUME state # 0 PROVE FALSE
    <3>1. g \in Nat
      BY <1>1
    <3>2. in[Len(in)] \in 128..244
      BY <1>1, <2>2, <2>4, <3>1, OpenLast
    <3> QED BY <2>3, <3>2
  <2> QED BY <1>1, <2>1, <2>4, TextEnds
<1>7. Kept'
  BY <1>1, <1>3, <1>4, <1>5, <1>6 DEF Kept
<1>8. pc' = "idle" /\ info'.validUtf8
  BY <1>1 DEF CopyString
<1> QED BY <1>7, <1>8 DEF Latin, AfterLine

LEMMA LatinBegin == Inv /\ IsLine /\ BeginLatin1 => Kept' /\ Latin'
<1> SUFFICES ASSUME Inv, IsLine, BeginLatin1 PROVE Kept' /\ Latin'
  OBVIOUS
<1>1. /\ Len(in) \in Nat /\ Len(in) > 0 /\ in' = in /\ info' = info /\ ~info.validUtf8
      /\ i' = 0 /\ w' = 0 /\ length' = 0 /\ pc' = "convert"
  BY DEF Inv, TypeOK, BeginLatin1, IsLine, LengthAtStart
<1>2. PICK s \in Seq(1..255) : s = Converted(in, 0) /\ Len(s) = 0
  <2>1. <<>> \in Seq(1..255) /\ Len(<<>>) = 0
    OBVIOUS
  <2> QED BY <2>1, ConvertedNone
<1>3. Holds(memory', s) /\ WellFormed(s) /\ NoNewline(s)
  BY <1>2 DEF Holds, WellFormed, NoNewline
<1>4. LatinText(s)'
  BY <1>1, <1>2, <1>3 DEF LatinText
<1>5. Latin'
  BY <1>1, <1>2, <1>4 DEF Latin, LatinText
<1> QED BY <1>1, <1>5 DEF Kept, AfterLine

LEMMA LatinConvert == Inv /\ IsLine /\ Latin /\ Convert => Kept' /\ Latin'
<1> SUFFICES ASSUME Inv, IsLine, Latin, Convert PROVE Kept' /\ Latin'
  OBVIOUS
<1>1. /\ i \in Nat /\ Len(in) \in Nat /\ i < Len(in) /\ in \in Seq(1..255)
      /\ w \in Nat /\ n \in Nat /\ length \in Nat /\ pc = "convert" /\ pc' = "convert"
      /\ in' = in /\ info' = info /\ i' = i + 1 /\ n' = n
  BY DEF Inv, TypeOK, Convert
<1>2. PICK c \in 1..255 : c = in[i + 1]
  BY <1>1, ElementFacts
<1>3. PICK s \in Seq(1..255) :
        s = Converted(in, i) /\ LatinText(s) /\ NoNewline(s) /\ Len(s) = w /\ ~info.validUtf8
  BY <1>1 DEF Latin, LatinText
<1>4. w \in 0..n - 1 /\ w + 1 \in 0..n - 1 /\ DOMAIN memory = 0..n - 1 /\ length <= w
  BY <1>1, <1>3 DEF Inv, TypeOK, Fits, LatinText
<1>5. Converted(in, i + 1) = s \o Utf8(c)
  BY <1>1, <1>2, <1>3, ConvertedMore
<1>6. c = Newline <=> i + 1 = Len(in) /\ in[Len(in)] = Newline
  <2>1. i + 1 \in 1..(Len(in) - 1) => c # Newline
    BY <1>1, <1>2 DEF IsLine
  <2> QED BY <1>1, <1>2, <2>1
<1>7. PICK x \in Seq(1..255) : x = Utf8(c)
  BY Utf8Type
<1>8. \A k \in 0..(w - 1) : k \in 0..n - 1 /\ k # w /\ k # w + 1
  BY <1>1, <1>4
<1>9. LatinText(s \o x)'
  <2> DEFINE u == s \o x
  <2>1. u \in Seq(1..255) /\ Len(u) = Len(s) + Len(x)
    BY JoinFacts
  <2>2. CASE c < 128
    <3>1. x = <<c>> /\ Len(x) = 1 /\ x[1] = c
      <4>1. Utf8(c) = <<c>>
        BY <2>2, Utf8Facts
      <4> QED BY <1>7, <4>1
    <3>2. w' = w + 1 /\ length' = length /\ memory' = [memory EXCEPT ![w] = c]
      BY <1>2, <2>2 DEF Convert
    <3>3. memory'[w] = c /\ \A k \in 0..(w - 1) : memory'[k] = memory[k]
      BY <1>4, <1>8, <3>2
    <3>4. \A k \in 1..Len(x) : memory'[Len(s) + k - 1] = x[k]
      <4>1. \A k \in 1..1 : k = 1 /\ w + k - 1 = w
        BY <1>1
      <4> QED BY <1>3, <3>1, <3>3, <4>1
    <3>5. Holds(memory', u)
      BY <1>3, <3>3, <3>4, HoldsMore DEF LatinText
    <3>6. /\ WellFormed(u)
          /\ IF c = Newline THEN NewlineLast(u) ELSE NoNewline(u)
      <4>1. c \in 1..127
        BY <2>2
      <4> QED BY <1>3, <3>1, <4>1, AsciiMore DEF LatinText
    <3> HIDE DEF u
    <3>7. Len(u) = w' /\ length' <= w'
      BY <1>1, <1>3, <1>4, <2>1, <3>1, <3>2
    <3>8. LatinText(u)'
      BY <1>1, <1>6, <2>1, <3>5, <3>6, <3>7 DEF LatinText
    <3> QED BY <3>8 DEF u
  <2>3. CASE c >= 128
    <3>1. PICK a \in 194..195, b \in Tails : a = Lead(c) /\ b = Trail(c)
      BY <2>3, Utf8Facts
    <3>2. x = <<a, b>> /\ Len(x) = 2 /\ x[1] = a /\ x[2] = b
      <4>1. Utf8(c) = <<a, b>>
        BY <2>3, <3>1, Utf8Facts
      <4> QED BY <1>7, <4>1
    <3>3. w' = w + 2 /\ length' = length + 2 /\ memory' = [memory EXCEPT ![w] = a, ![w + 1] = b]
      <4>1. ~(c < 128)
        BY <2>3
      <4> QED BY <1>2, <3>1, <4>1 DEF Convert
    <3>4. /\ memory'[w] = a /\ memory'[w + 1] = b
          /\ \A k \in 0..(w - 1) : memory'[k] = memory[k]
      BY <1>1, <1>4, <1>8, <3>3
    <3>5. \A k \in 1..Len(x) : memory'[Len(s) + k - 1] = x[k]
      <4>1. \A k \in 1..2 : (k = 1 /\ w + k - 1 = w) \/ (k = 2 /\ w + k - 1 = w + 1)
        BY <1>1
      <4> QED BY <1>3, <3>2, <3>4, <4>1
    <3>6. Holds(memory', u)
      BY <1>3, <3>4, <3>5, HoldsMore DEF LatinText
    <3>7. WellFormed(u) /\ NoNewline(u) /\ c # Newline
      BY <1>3, <2>3, <3>2, LatinMore DEF LatinText, Newline
    <3> HIDE DEF u
    <3>8. Len(u) = w' /\ length' <= w'
      BY <1>1, <1>3, <1>4, <2>1, <3>2, <3>3
    <3>9. LatinText(u)'
      BY <1>1, <1>6, <2>1, <3>6, <3>7, <3>8 DEF LatinText
    <3> QED BY <3>9 DEF u
  <2> QED BY <2>2, <2>3
<1>10. LatinText(Converted(in, i))'
  BY <1>1, <1>5, <1>7, <1>9 DEF LatinText
<1>11. Latin'
  BY <1>1, <1>3, <1>10 DEF Latin
<1> QED BY <1>1, <1>11 DEF Kept, AfterLine

LEMMA LatinEnd == Inv /\ Latin /\ EndLatin1 => Kept' /\ Latin'
<1> SUFFICES ASSUME Inv, Latin, EndLatin1 PROVE Kept' /\ Latin'
  OBVIOUS
<1>1. /\ pc = "convert" /\ pc' = "idle" /\ i = Len(in)
      /\ UNCHANGED <<in, memory, n, i, info, w, length>>
  BY DEF EndLatin1
<1>2. ~info.validUtf8 /\ LatinText(Converted(in, i))
  BY <1>1 DEF Latin
<1>3. w < n
  BY <1>1 DEF Inv, TypeOK, Fits
<1>4. LatinText(Converted(in, i))'
  BY <1>1, <1>2 DEF LatinText
<1>5. Latin'
  BY <1>1, <1>2, <1>3, <1>4 DEF Latin
<1> QED BY <1>1, <1>2, <1>5 DEF Kept

LEMMA TextStep == Inv /\ IsLine /\ Knows /\ Kept /\ Latin /\ [Next]_vars => Kept' /\ Latin'
<1> SUFFICES ASSUME Inv, IsLine, Knows, Kept, Latin, [Next]_vars PROVE Kept' /\ Latin'
  OBVIOUS
<1>1. CASE GrabLine \/ Scan
  <2>1. pc' = "scan"
    BY <1>1 DEF GrabLine, Scan
  <2> QED BY <2>1 DEF Kept, Latin, AfterLine
<1>2. CASE GrowString \/ UNCHANGED vars
  <2>1. UNCHANGED <<pc, in, memory, n, i, info, w, length, decoded>>
    BY <1>2 DEF GrowString, vars
  <2> QED BY <2>1 DEF Kept, Latin, LatinText, AfterLine
<1> QED BY <1>1, <1>2, KeptCopyString, LatinBegin, LatinConvert, LatinEnd DEF Next

LEMMA DecodedInvariance == Spec => [](Inv /\ IsLine /\ Kept /\ Latin)
<1>1. Init => Kept /\ Latin
  BY DEF Init, Kept, Latin, AfterLine
<1>2. Init => IsLine /\ Knows
  BY DEF Init, IsLine, Knows
<1> QED BY <1>1, <1>2, InitInv, NextInv, LineStep, KnowsStep, TextStep, PTL DEF Spec

\* A line decoded: its text, and what the string holds.
LEMMA TextHeld ==
  ASSUME Inv, IsLine, Kept, Latin, AfterLine
  PROVE  /\ Text \in Seq(1..255) /\ Holds(memory, Text)
         /\ Len(Text) < n /\ length <= Len(Text)
         /\ info.validUtf8 => length = Len(Text) /\ Text = in /\ memory[Len(Text)] = NUL
         /\ in[Len(in)] = Newline => NewlineLast(Text) /\ WellFormed(Text)
         /\ in[Len(in)] # Newline => NoNewline(Text)
<1>1. in \in Seq(1..255) /\ Len(in) \in Nat /\ n \in Nat
  BY DEF Inv, TypeOK
<1>2. CASE info.validUtf8
  <2>1. Text = in
    BY <1>2 DEF Text
  <2>2. Len(in) > 0 /\ \A k \in 1..(Len(in) - 1) : in[k] # Newline
    BY DEF IsLine, AfterLine
  <2>3. IF in[Len(in)] = Newline THEN NewlineLast(in) ELSE NoNewline(in)
    <3>1. \A k \in 1..Len(in) : k \in 1..(Len(in) - 1) \/ k = Len(in)
      BY <1>1
    <3> QED BY <2>2, <3>1 DEF NewlineLast, NoNewline
  <2> QED BY <1>1, <1>2, <2>1, <2>3 DEF Kept
<1>3. CASE ~info.validUtf8
  <2>1. Text = Converted(in, Len(in))
    BY <1>3 DEF Text, Converted
  <2>2. LatinText(Text) /\ i = Len(in) /\ w < n
    BY <1>3, <2>1 DEF Latin, AfterLine
  <2> HIDE DEF Text
  <2> QED BY <1>1, <1>3, <2>2 DEF LatinText
<1> QED BY <1>2, <1>3

\* The string holds the text of the line from its beginning, and the end of the line
\* is found where it is and no earlier, for every line that has one: what an earlier
\* line left in the string is not read.
THEOREM DecodeKeepsText == Spec => []LineDecoded
<1>1. Inv /\ IsLine /\ Kept /\ Latin => LineDecoded
  <2> SUFFICES ASSUME Inv, IsLine, Kept, Latin, AfterLine
               PROVE  /\ Len(Text) <= n /\ MemoryText(Len(Text)) = Text
                      /\ HasEnd => LET last == IF in[Len(in)] = Newline
                                               THEN Len(Text) - 1 ELSE Len(Text)
                                   IN  FieldsEnd(last) /\ \A k \in 0..last - 1 : ~FieldsEnd(k)
    BY DEF LineDecoded
  <2>1. PICK t \in Seq(1..255) : t = Text
    BY TextHeld
  <2>2. /\ Holds(memory, t) /\ Len(t) < n
        /\ info.validUtf8 => memory[Len(t)] = NUL
        /\ in[Len(in)] = Newline => NewlineLast(t)
        /\ in[Len(in)] # Newline => NoNewline(t)
    BY <2>1, TextHeld
  <2>3. Len(t) \in Nat /\ n \in Nat /\ DOMAIN memory = 0..n - 1
    BY DEF Inv, TypeOK
  <2>4. MemoryText(Len(t)) = t
    <3>1. \A k \in 1..Len(t) : memory[k - 1] = t[k]
      BY <2>2 DEF Holds
    <3>2. t = [k \in 1..Len(t) |-> t[k]]
      OBVIOUS
    <3> QED BY <3>1, <3>2 DEF MemoryText
  <2>5. ASSUME NEW k \in Nat, k + 1 \in 1..Len(t), t[k + 1] # Newline PROVE ~FieldsEnd(k)
    <3>1. PICK e \in 1..Len(t) : e = k + 1 /\ e - 1 = k
      BY <2>5
    <3>2. memory[k] = t[e]
      BY <2>2, <3>1 DEF Holds
    <3>3. t[e] \in 1..255
      BY ElementAt
    <3>4. memory[k] # 0 /\ memory[k] # Newline
      <4>1. t[e] # Newline
        BY <2>5, <3>1
      <4>2. t[e] # 0
        <5>1. \A b \in 1..255 : b # 0
          OBVIOUS
        <5> QED BY <3>3, <5>1
      <4> QED BY <3>2, <4>1, <4>2
    <3> QED BY <3>4 DEF FieldsEnd, NUL
  <2>6. CASE in[Len(in)] = Newline
    <3>1. Len(t) > 0 /\ t[Len(t)] = Newline /\ \A k \in 1..(Len(t) - 1) : t[k] # Newline
      BY <2>2, <2>6 DEF NewlineLast
    <3>2. PICK last \in Nat : last = Len(t) - 1 /\ last + 1 = Len(t)
      <4>1. Len(t) - 1 \in Nat /\ (Len(t) - 1) + 1 = Len(t)
        BY <2>3, <3>1
      <4> QED BY <4>1
    <3>3. FieldsEnd(last)
      <4>1. last \in 0..n - 1
        BY <2>2, <2>3, <3>2
      <4>2. memory[last] = t[Len(t)]
        BY <2>2, <2>3, <3>1, <3>2 DEF Holds
      <4> QED BY <2>3, <3>1, <4>1, <4>2 DEF FieldsEnd
    <3>4. ASSUME NEW k \in 0..last - 1 PROVE ~FieldsEnd(k)
      <4>1. k \in Nat /\ k + 1 \in 1..Len(t) /\ k + 1 \in 1..(Len(t) - 1)
        BY <2>3, <3>2
      <4> QED BY <2>5, <3>1, <4>1
    <3> QED BY <2>1, <2>2, <2>3, <2>4, <2>6, <3>2, <3>3, <3>4
  <2>7. CASE in[Len(in)] # Newline
    <3>1. ASSUME HasEnd PROVE FieldsEnd(Len(t))
      <4>1. info.validUtf8
        BY <2>7, <3>1 DEF HasEnd
      <4>2. Len(t) \in 0..n - 1
        BY <2>2, <2>3
      <4> QED BY <2>2, <2>3, <4>1, <4>2 DEF FieldsEnd
    <3>2. ASSUME NEW k \in 0..Len(t) - 1 PROVE ~FieldsEnd(k)
      <4>1. k \in Nat /\ k + 1 \in 1..Len(t)
        BY <2>3
      <4> QED BY <2>2, <2>5, <2>7, <4>1 DEF NoNewline
    <3> QED BY <2>1, <2>2, <2>3, <2>4, <2>7, <3>1, <3>2
  <2> QED BY <2>6, <2>7
<1> QED BY <1>1, DecodedInvariance, PTL

\* Every line that ends with a newline is UTF-8 in the string, whatever its bytes.
THEOREM DecodeEncodes == Spec => []EndedLinesAreUtf8
<1>1. Inv /\ IsLine /\ Kept /\ Latin => EndedLinesAreUtf8
  <2> SUFFICES ASSUME Inv, IsLine, Kept, Latin, AfterLine, in[Len(in)] = Newline
               PROVE  WellFormed(MemoryText(Len(Text)))
    BY DEF EndedLinesAreUtf8
  <2>1. PICK t \in Seq(1..255) : t = Text /\ Holds(memory, t) /\ WellFormed(t)
    BY TextHeld
  <2>2. MemoryText(Len(t)) = t
    <3>1. \A k \in 1..Len(t) : memory[k - 1] = t[k]
      BY <2>1 DEF Holds
    <3>2. t = [k \in 1..Len(t) |-> t[k]]
      OBVIOUS
    <3> QED BY <3>1, <3>2 DEF MemoryText
  <2> QED BY <2>1, <2>2
<1> QED BY <1>1, DecodedInvariance, PTL

\* The length that decodeLine returns is that of a line of UTF-8, and never reaches
\* past the text of a line that was converted, of which it counts the characters that
\* are not ASCII only (encoding.c:72-92): parseF99Text writes no stale bytes.
THEOREM DecodeLength == Spec => []LengthWithin
<1>1. Inv /\ IsLine /\ Kept /\ Latin => LengthWithin
  BY TextHeld DEF LengthWithin
<1> QED BY <1>1, DecodedInvariance, PTL
=============================================================================
