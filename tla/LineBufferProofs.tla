-------------------------- MODULE LineBufferProofs --------------------------
(***************************************************************************)
(* Proofs about LineBuffer, for every input, chunking, buffer size and     *)
(* initial capacity: types, the accounting of BufferInv, and that the      *)
(* caller gets the lines of the input (LineSource).                        *)
(***************************************************************************)
EXTENDS LineBuffer, TLAPS

IInv == TypeOK /\ BufferInv

-----------------------------------------------------------------------------
\* The bytes m + 1 to q of a sequence: their number, and each of them.
LEMMA SliceFacts ==
  ASSUME NEW s \in Seq(Bytes), NEW m \in Nat, NEW q \in Nat,
         m <= q, q <= Len(s) \/ m = q
  PROVE  /\ SubSeq(s, m + 1, q) \in Seq(Bytes)
         /\ Len(SubSeq(s, m + 1, q)) = q - m
         /\ \A i \in 1..(q - m) : SubSeq(s, m + 1, q)[i] = s[m + i]
<1>1. CASE m = q
  <2>1. Len(SubSeq(s, m + 1, q)) = 0  BY <1>1
  <2>2. SubSeq(s, m + 1, q) = <<>>  BY <1>1
  <2> QED  BY <1>1, <2>1, <2>2
<1>2. CASE m < q
  <2>1. q <= Len(s)  BY <1>2
  <2>2. \A i \in (m + 1)..q : s[i] \in Bytes  BY <2>1
  <2> QED  BY <1>2, <2>1, <2>2
<1> QED  BY <1>1, <1>2

\* Appending: the length, the old bytes and the new ones.
LEMMA AppendFacts ==
  ASSUME NEW s \in Seq(Bytes), NEW t \in Seq(Bytes)
  PROVE  /\ s \o t \in Seq(Bytes)
         /\ Len(s \o t) = Len(s) + Len(t)
         /\ \A i \in 1..Len(s) : (s \o t)[i] = s[i]
         /\ \A i \in 1..Len(t) : (s \o t)[Len(s) + i] = t[i]
OBVIOUS

\* Where a line of m bytes that ends at q begins.
LEMMA PastTheStart ==
  ASSUME NEW r \in Nat, NEW m \in Nat \ {0}, NEW q \in Nat, NEW top \in Nat,
         q = r + m, q <= top
  PROVE  /\ q \in (r + 1)..top /\ r < top
         /\ \A i \in (r + 1)..(q - 1) : i - r \in 1..(m - 1) /\ r + (i - r) = i
OBVIOUS

\* A string that agrees byte by byte with a part of another is that part.
LEMMA SameSlice ==
  ASSUME NEW s \in Seq(Bytes), NEW t \in Seq(Bytes),
         NEW m \in Nat, m + Len(t) <= Len(s),
         \A i \in 1..Len(t) : t[i] = s[m + i]
  PROVE  t = SubSeq(s, m + 1, m + Len(t))
<1> DEFINE u == SubSeq(s, m + 1, m + Len(t))
<1>1. /\ u \in Seq(Bytes) /\ Len(u) = Len(t)
      /\ \A i \in 1..Len(t) : u[i] = s[m + i]
  BY SliceFacts
<1>2. \A i \in 1..Len(t) : u[i] = t[i]  BY <1>1
<1> HIDE DEF u
<1>3. u = t  BY <1>1, <1>2
<1> QED  BY <1>3 DEF u

-----------------------------------------------------------------------------
\* The bytes received follow those received before.
LEMMA FillFacts ==
  ASSUME TypeOK, NEW k \in 0..bufferSize, FillBuffer(k)
  PROVE  /\ k \in Nat
         /\ buffer' \in Seq(Bytes) /\ Len(buffer') = k
         /\ bufferSize' = k /\ offset' = offset + k /\ offset' \in 0..Len(input)
         /\ \A p \in 1..k : buffer'[p] = input[offset + p]
         /\ k = 0 => bufferSize = 0 \/ offset = Len(input)
<1>1. k \in Nat /\ offset \in Nat /\ offset + k <= Len(input) /\ input \in Seq(Bytes)
  BY DEF TypeOK, FillBuffer
<1>2. /\ SubSeq(input, offset + 1, offset + k) \in Seq(Bytes)
      /\ Len(SubSeq(input, offset + 1, offset + k)) = k
      /\ \A p \in 1..k : SubSeq(input, offset + 1, offset + k)[p] = input[offset + p]
  BY <1>1, SliceFacts
<1> QED  BY <1>1, <1>2 DEF FillBuffer

\* In the loop the chunk from start to q is there to be copied, q at most the
\* number of bytes in the buffer.
LEMMA ChunkFacts ==
  ASSUME TypeOK, BufferInv, pc # "idle", NEW q \in Nat, start <= q,
         q <= Len(buffer) \/ q = start
  PROVE  /\ Chunk(start, q) \in Seq(Bytes)
         /\ Len(Chunk(start, q)) = q - start
         /\ \A i \in 1..(q - start) : Chunk(start, q)[i] = buffer[start + i]
         /\ text \o Chunk(start, q) \in Seq(Bytes)
         /\ Len(text \o Chunk(start, q)) = Len(text) + (q - start)
         /\ \A i \in 1..Len(text) : (text \o Chunk(start, q))[i] = text[i]
         /\ \A i \in 1..(q - start) :
               (text \o Chunk(start, q))[Len(text) + i] = buffer[start + i]
<1>1. start \in Nat /\ buffer \in Seq(Bytes) /\ text \in Seq(Bytes)
  BY DEF TypeOK
<1>2. /\ Chunk(start, q) \in Seq(Bytes)
      /\ Len(Chunk(start, q)) = q - start
      /\ \A i \in 1..(q - start) : Chunk(start, q)[i] = buffer[start + i]
  BY <1>1, SliceFacts DEF Chunk
<1> DEFINE c == Chunk(start, q)
<1>3. text \in Seq(Bytes) /\ c \in Seq(Bytes) /\ Len(c) = q - start
  BY <1>1, <1>2
<1> HIDE DEF c
<1>4. /\ text \o c \in Seq(Bytes)
      /\ Len(text \o c) = Len(text) + Len(c)
      /\ \A i \in 1..Len(text) : (text \o c)[i] = text[i]
      /\ \A i \in 1..Len(c) : (text \o c)[Len(text) + i] = c[i]
  BY <1>3, AppendFacts
<1>5. \A i \in 1..(q - start) : (text \o c)[Len(text) + i] = c[i]
  BY <1>3, <1>4
<1> QED  BY <1>1, <1>2, <1>3, <1>4, <1>5 DEF c

-----------------------------------------------------------------------------
\* The numbers and sequences of TypeOK, and its flags, apart for the provers.
Numbers == /\ input \in Seq(Bytes) /\ offset \in 0..Len(input)
           /\ buffer \in Seq(Bytes) /\ bufferSize \in Nat /\ bufferPos \in Nat
           /\ text \in Seq(Bytes) /\ capacity \in Nat \ {0}
           /\ n \in Nat /\ start \in Nat
           /\ returned \in 0..Len(input)
Flags == /\ started \in BOOLEAN /\ eof \in BOOLEAN /\ ended \in BOOLEAN
         /\ pc \in {"idle", "loop", "take"}

LEMMA TypeParts == TypeOK <=> Numbers /\ Flags
BY DEF TypeOK, Numbers, Flags

LEMMA InitIInv == Init => IInv
<1> SUFFICES ASSUME Init PROVE IInv
  OBVIOUS
<1>1. input \in Seq(Bytes)
  BY LineBufferAssumption DEF Init
<1>2. TypeOK
  <2>1. Len(input) \in Nat
    BY <1>1
  <2>2. offset \in 0..Len(input) /\ returned \in 0..Len(input)
    BY <2>1 DEF Init
  <2>3. buffer \in Seq(Bytes) /\ text \in Seq(Bytes)
    BY DEF Init
  <2>4. bufferSize \in Nat /\ capacity \in Nat \ {0}
    BY LineBufferAssumption DEF Init
  <2>5. bufferPos \in Nat /\ n \in Nat /\ start \in Nat
    BY DEF Init
  <2>6. started \in BOOLEAN /\ eof \in BOOLEAN /\ ended \in BOOLEAN
    BY DEF Init
  <2>7. pc \in {"idle", "loop", "take"}
    BY DEF Init
  <2> QED  BY <1>1, <2>2, <2>3, <2>4, <2>5, <2>6, <2>7 DEF TypeOK
<1>3. BufferInv
  BY <1>1, LineBufferAssumption
     DEF Init, BufferInv, Loaded, Accounted, AtTheEnd, LineSoFar, Fits, Used
<1> QED  BY <1>2, <1>3 DEF IInv

LEMMA BeginInv == ASSUME IInv, Begin PROVE IInv'
<1> USE DEF IInv
<1>1. CASE ~started
  <2>1. PICK k \in 0..bufferSize : FillBuffer(k) /\ eof' = (k = 0)
    BY <1>1 DEF Begin
  <2>2. /\ k \in Nat
        /\ buffer' \in Seq(Bytes) /\ Len(buffer') = k
        /\ bufferSize' = k /\ offset' = offset + k /\ offset' \in 0..Len(input)
        /\ \A p \in 1..k : buffer'[p] = input[offset + p]
        /\ k = 0 => bufferSize = 0 \/ offset = Len(input)
    BY <2>1, FillFacts
  <2>3. bufferPos' = 0 /\ offset = 0 /\ returned = 0 /\ bufferSize > 0
    BY <1>1 DEF Begin, BufferInv, Loaded
  <2>4. TypeOK'
    BY <2>1, <2>2, <2>3 DEF Begin, TypeOK
  <2>5. Loaded' /\ Accounted'
    BY <2>1, <2>2, <2>3 DEF Begin, TypeOK, Loaded, Accounted, Used
  <2>5a. AtTheEnd'
    BY <2>1, <2>2, <2>3 DEF Begin, TypeOK, AtTheEnd
  <2>6. LineSoFar' /\ Fits'
    BY <2>2, <2>3 DEF Begin, TypeOK, LineSoFar, Fits
  <2> QED  BY <2>4, <2>5, <2>5a, <2>6 DEF BufferInv
<1>2. CASE started
  <2>1. UNCHANGED <<offset, buffer, bufferSize, bufferPos>> /\ eof' = FALSE
    BY <1>2 DEF Begin
  <2>2. TypeOK'
    <3>1. Numbers'
      BY <2>1, TypeParts DEF Begin, Numbers
    <3>2. Flags'
      BY <2>1, TypeParts DEF Begin, Flags
    <3> QED  BY <3>1, <3>2 DEF TypeOK, Numbers, Flags
  <2>3. Loaded' /\ Accounted' /\ AtTheEnd'
    BY <1>2, <2>1 DEF Begin, TypeOK, BufferInv, Loaded, Accounted, AtTheEnd, Used
  <2>4. LineSoFar' /\ Fits'
    BY <2>1 DEF Begin, TypeOK, LineSoFar, Fits
  <2> QED  BY <2>2, <2>3, <2>4 DEF BufferInv
<1> QED  BY <1>1, <1>2

LEMMA RefillInv == ASSUME IInv, Refill PROVE IInv'
<1> USE DEF IInv
<1>1. PICK k \in 0..bufferSize : FillBuffer(k) /\ eof' = (eof \/ k = 0)
  BY DEF Refill
<1>2. /\ k \in Nat
      /\ buffer' \in Seq(Bytes) /\ Len(buffer') = k
      /\ bufferSize' = k /\ offset' = offset + k /\ offset' \in 0..Len(input)
      /\ \A p \in 1..k : buffer'[p] = input[offset + p]
      /\ k = 0 => bufferSize = 0 \/ offset = Len(input)
  BY <1>1, FillFacts
<1>3. /\ pc = "loop" /\ started /\ Len(buffer) = bufferSize
      /\ start <= bufferPos /\ bufferPos \in Nat /\ bufferPos >= bufferSize
      /\ bufferPos > bufferSize => /\ bufferSize = 0 /\ offset = Len(input)
                                  /\ start = bufferPos
      /\ returned + n = offset
      /\ n = Len(text) + (bufferPos - start)
      /\ start \in Nat /\ n \in Nat /\ returned \in Nat
  <2>1. /\ start \in Nat /\ n \in Nat /\ returned \in Nat /\ bufferPos \in Nat
        /\ bufferSize \in Nat /\ buffer \in Seq(Bytes) /\ offset \in Nat
    BY DEF TypeOK
  <2>2. pc = "loop" /\ bufferPos >= bufferSize
    BY DEF Refill
  <2>3. started /\ Len(buffer) = bufferSize
    BY <2>2 DEF BufferInv, Loaded
  <2>4. /\ start <= bufferPos /\ n = Len(text) + (bufferPos - start)
        /\ bufferPos > bufferSize => start = bufferPos
    BY <2>2 DEF BufferInv, LineSoFar
  <2>5. bufferPos > bufferSize => bufferSize = 0 /\ offset = Len(input)
    BY DEF BufferInv, AtTheEnd
  <2>6. returned + n = offset
    BY <2>1, <2>2, <2>3 DEF BufferInv, Accounted, Used
  <2> QED  BY <2>1, <2>2, <2>3, <2>4, <2>5, <2>6
<1>4. /\ text' = text \o Chunk(start, bufferPos)
      /\ bufferPos' = 0 /\ start' = 0 /\ pc' = "take"
      /\ UNCHANGED <<input, started, capacity, n, returned, ended>>
  BY DEF Refill, FlushedChunk
<1>5. bufferPos <= Len(buffer) \/ bufferPos = start
  BY <1>3 DEF TypeOK
<1>6. /\ text' \in Seq(Bytes)
      /\ Len(text') = n
      /\ \A i \in 1..Len(text) : text'[i] = text[i]
      /\ \A i \in 1..(bufferPos - start) : text'[Len(text) + i] = buffer[start + i]
  <2>1. /\ text' \in Seq(Bytes)
        /\ Len(text') = Len(text) + (bufferPos - start)
        /\ \A i \in 1..Len(text) : text'[i] = text[i]
        /\ \A i \in 1..(bufferPos - start) : text'[Len(text) + i] = buffer[start + i]
    BY <1>3, <1>4, <1>5, ChunkFacts
  <2> QED  BY <1>3, <2>1
<1>7. TypeOK'
  <2>1. Numbers'
    BY <1>2, <1>4, <1>6, TypeParts DEF Numbers
  <2>2. Flags'
    BY <1>1, <1>4, TypeParts DEF Flags
  <2> QED  BY <2>1, <2>2 DEF TypeOK, Numbers, Flags
<1>8. Loaded'
  BY <1>2, <1>3, <1>4 DEF TypeOK, Loaded
<1>9. Accounted'
  BY <1>2, <1>3, <1>4 DEF TypeOK, Accounted, Used
<1>10. eof => offset = Len(input) /\ bufferSize = 0
  BY DEF BufferInv, AtTheEnd
<1>11. bufferSize = 0 => offset = Len(input)
  BY <1>3 DEF BufferInv, AtTheEnd
<1>12. AtTheEnd'
  <2>1. k = 0 => offset' = Len(input)
    BY <1>2, <1>11 DEF TypeOK
  <2>2. eof => offset' = Len(input) /\ k = 0
    BY <1>2, <1>10 DEF TypeOK
  <2>3. eof' => eof \/ k = 0
    BY <1>1
  <2>4. ~eof' => k # 0
    BY <1>1
  <2> QED  BY <1>2, <1>4, <2>1, <2>2, <2>3, <2>4 DEF AtTheEnd
<1>13. \A i \in 1..n : text'[i] = input[returned + i]
  <2> SUFFICES ASSUME NEW i \in 1..n PROVE text'[i] = input[returned + i]
    OBVIOUS
  <2>1. CASE i <= Len(text)
    <3>1. i \in 1..Len(text)
      BY <2>1 DEF TypeOK
    <3>2. text'[i] = text[i]
      BY <1>6, <3>1
    <3>3. text[i] = input[returned + i]
      BY <1>3, <3>1 DEF BufferInv, LineSoFar
    <3> QED  BY <3>2, <3>3
  <2>2. CASE i > Len(text)
    <3> DEFINE j == i - Len(text)
    <3>1. j \in 1..(bufferPos - start) /\ i = Len(text) + j
      BY <1>3, <2>2 DEF TypeOK
    <3> HIDE DEF j
    <3>2. text'[i] = buffer[start + j]
      BY <1>6, <3>1
    <3>3. start + j \in 1..Len(buffer)
      BY <1>3, <1>5, <3>1 DEF TypeOK
    <3>4. buffer[start + j] = input[offset - Len(buffer) + (start + j)]
      BY <3>3 DEF BufferInv, Loaded
    <3>5. offset - Len(buffer) + (start + j) = returned + i
      <4>1. bufferPos = bufferSize /\ Len(text) \in Nat /\ bufferSize \in Nat
        BY <1>3, <3>1 DEF TypeOK
      <4> QED  BY <1>3, <3>1, <4>1
    <3> QED  BY <3>2, <3>4, <3>5
  <2>3. Len(text) \in Nat /\ n \in Nat
    BY <1>3 DEF TypeOK
  <2> QED  BY <2>1, <2>2, <2>3
<1>14. LineSoFar'
  <2>1. \A i \in 1..n : input[returned + i] # Newline
    BY <1>3 DEF BufferInv, LineSoFar
  <2>2. \A i \in 1..Len(text') : text'[i] = input'[returned' + i]
    BY <1>4, <1>6, <1>13
  <2>3. \A i \in 1..n' : input'[returned' + i] # Newline
    BY <1>4, <2>1
  <2>4. n' = Len(text') + (bufferPos' - start') /\ ~(bufferPos' > bufferSize')
    BY <1>2, <1>3, <1>4, <1>6
  <2> QED  BY <1>4, <2>2, <2>3, <2>4 DEF LineSoFar
<1>15. Fits'
  BY <1>4 DEF BufferInv, Fits
<1> QED  BY <1>7, <1>8, <1>9, <1>12, <1>14, <1>15 DEF BufferInv

LEMMA GrowStringInv == ASSUME IInv, GrowString PROVE IInv'
BY DEF IInv, TypeOK, BufferInv, Loaded, Accounted, AtTheEnd, LineSoFar, Fits, Used, GrowString,
       bufferVars

\* The byte at bufferPos follows those already looked at.
LEMMA NextByte ==
  ASSUME IInv, MayTake, ~eof
  PROVE  /\ bufferPos < bufferSize /\ Len(buffer) = bufferSize /\ started
         /\ pc # "idle"
         /\ returned + n + 1 <= Len(input)
         /\ buffer[bufferPos + 1] = input[returned + n + 1]
<1>1. bufferPos < bufferSize /\ started /\ Len(buffer) = bufferSize /\ pc # "idle"
  BY DEF IInv, TypeOK, BufferInv, Loaded, Accounted, AtTheEnd, MayTake
<1>2. returned + n = offset - Len(buffer) + bufferPos
  BY <1>1 DEF IInv, TypeOK, BufferInv, Loaded, Accounted, AtTheEnd, Used
<1>3. bufferPos + 1 \in 1..Len(buffer)
  BY <1>1 DEF IInv, TypeOK
<1>4. buffer[bufferPos + 1] = input[offset - Len(buffer) + (bufferPos + 1)]
  BY <1>3 DEF IInv, BufferInv, Loaded
<1>5. offset - Len(buffer) + (bufferPos + 1) = returned + n + 1
  BY <1>2 DEF IInv, TypeOK
<1>6. returned + n + 1 <= Len(input)
  BY <1>1, <1>2 DEF IInv, TypeOK
<1> QED  BY <1>1, <1>4, <1>5, <1>6

LEMMA TakeByteInv == ASSUME IInv, TakeByte PROVE IInv'
<1>1. /\ bufferPos < bufferSize /\ Len(buffer) = bufferSize /\ started
      /\ pc # "idle"
      /\ returned + n + 1 <= Len(input)
      /\ buffer[bufferPos + 1] = input[returned + n + 1]
  BY NextByte DEF TakeByte
<1>2. buffer[bufferPos + 1] # Newline /\ ~eof
  BY DEF TakeByte, AtNewline
<1>3. /\ bufferPos' = bufferPos + 1 /\ n' = n + 1 /\ pc' = "loop"
      /\ n + 2 <= capacity
      /\ UNCHANGED <<input, offset, buffer, bufferSize, started, text, capacity,
                     start, eof, returned, ended>>
  BY DEF TakeByte, bufferVars, Needed
<1>4. TypeOK'
  <2>1. Numbers'
    BY <1>3, TypeParts DEF IInv, Numbers
  <2>2. Flags'
    BY <1>3, TypeParts DEF IInv, Flags
  <2> QED  BY <2>1, <2>2 DEF TypeOK, Numbers, Flags
<1>5. Loaded'
  BY <1>1, <1>3 DEF IInv, BufferInv, Loaded
<1>6. Accounted'
  BY <1>1, <1>3 DEF IInv, TypeOK, BufferInv, Accounted, Used
<1>7. AtTheEnd'
  BY <1>1, <1>2, <1>3 DEF IInv, TypeOK, BufferInv, AtTheEnd
<1>8. LineSoFar'
  <2>1. /\ start <= bufferPos
        /\ n = Len(text) + (bufferPos - start)
        /\ \A i \in 1..Len(text) : text[i] = input[returned + i]
        /\ \A i \in 1..n : input[returned + i] # Newline
    BY <1>1 DEF IInv, BufferInv, LineSoFar
  <2>2. \A i \in 1..(n + 1) : input[returned + i] # Newline
    <3> SUFFICES ASSUME NEW i \in 1..(n + 1) PROVE input[returned + i] # Newline
      OBVIOUS
    <3>1. n \in Nat /\ returned \in Nat
      BY DEF IInv, TypeOK
    <3>2. CASE i \in 1..n
      BY <2>1, <3>2
    <3>3. CASE i = n + 1
      <4>1. returned + i = returned + n + 1
        BY <3>1, <3>3
      <4> QED  BY <1>1, <1>2, <4>1
    <3> QED  BY <3>1, <3>2, <3>3
  <2>3. start \in Nat /\ bufferPos \in Nat /\ n \in Nat
    BY DEF IInv, TypeOK
  <2> QED  BY <1>1, <1>3, <2>1, <2>2, <2>3 DEF LineSoFar
<1>9. Fits'
  BY <1>3 DEF IInv, TypeOK, Fits
<1> QED  BY <1>4, <1>5, <1>6, <1>7, <1>8, <1>9 DEF IInv, BufferInv

\* What readLine returns: the bytes after those returned before, through the
\* newline or to the end of the input; nothing only at the end.
LEMMA EndLineFacts ==
  ASSUME IInv, EndLine
  PROVE  /\ text' \in Seq(Bytes) /\ Len(text') = n' /\ n' \in Nat /\ n' < capacity
         /\ returned' = returned + n' /\ returned' \in 0..Len(input)
         /\ \A i \in 1..n' : text'[i] = input[returned + i]
         /\ \A i \in 1..(n' - 1) : input[returned + i] # Newline
         /\ returned' = Len(input) \/ input[returned'] = Newline
         /\ n' = 0 => returned = Len(input)
         /\ returned' = offset - bufferSize + Used'
         /\ bufferPos' > bufferSize => bufferSize = 0
<1>1. /\ bufferPos' = bufferPos + 1 /\ n' = LineLength /\ n + 2 <= capacity
      /\ text' = text \o LastChunk /\ returned' = returned + n'
      /\ MayTake /\ (eof \/ AtNewline)
      /\ UNCHANGED <<offset, buffer, bufferSize, capacity>>
  BY DEF EndLine, bufferVars, Needed
<1>2. /\ pc # "idle" /\ started /\ Len(buffer) = bufferSize
  BY DEF IInv, BufferInv, Loaded, EndLine, MayTake
<1>3. /\ n \in Nat /\ returned \in Nat /\ offset \in Nat /\ offset <= Len(input)
      /\ start \in Nat /\ bufferPos \in Nat /\ bufferSize \in Nat
      /\ Len(input) \in Nat /\ Len(text) \in Nat /\ capacity \in Nat
  BY DEF IInv, TypeOK
<1>4. /\ start <= bufferPos /\ n = Len(text) + (bufferPos - start)
      /\ \A i \in 1..Len(text) : text[i] = input[returned + i]
      /\ \A i \in 1..n : input[returned + i] # Newline
  BY <1>2 DEF IInv, BufferInv, LineSoFar
<1>5. returned + n = offset - bufferSize + Used
  BY <1>2 DEF IInv, BufferInv, Accounted
<1>6. CASE AtNewline
  <2>1. /\ ~eof /\ bufferPos < bufferSize /\ returned + n + 1 <= Len(input)
        /\ buffer[bufferPos + 1] = input[returned + n + 1]
    BY <1>1, <1>6, NextByte DEF AtNewline
  <2>2. n' = n + 1 /\ LastChunk = Chunk(start, bufferPos + 1)
    BY <1>1, <1>6 DEF LineLength, LastChunk
  <2>3. input[returned + n + 1] = Newline
    BY <1>6, <2>1 DEF AtNewline
  <2>4. /\ bufferPos + 1 \in Nat /\ start <= bufferPos + 1
        /\ bufferPos + 1 <= Len(buffer)
    BY <1>2, <1>3, <1>4, <2>1
  <2>5. /\ text' \in Seq(Bytes)
        /\ Len(text') = Len(text) + (bufferPos + 1 - start)
        /\ \A i \in 1..Len(text) : text'[i] = text[i]
        /\ \A i \in 1..(bufferPos + 1 - start) : text'[Len(text) + i] = buffer[start + i]
    <3>1. PICK q \in Nat : q = bufferPos + 1
      BY <2>4
    <3>2. text' = text \o Chunk(start, q)
      BY <1>1, <2>2, <3>1
    <3>3. start <= q /\ (q <= Len(buffer) \/ q = start)
      BY <2>4, <3>1
    <3>4. /\ text' \in Seq(Bytes)
          /\ Len(text') = Len(text) + (q - start)
          /\ \A i \in 1..Len(text) : text'[i] = text[i]
          /\ \A i \in 1..(q - start) : text'[Len(text) + i] = buffer[start + i]
      BY <1>2, <3>2, <3>3, ChunkFacts DEF IInv
    <3>5. q - start = bufferPos + 1 - start
      BY <1>3, <3>1
    <3> QED  BY <3>4, <3>5, Zenon
  <2>6. Len(text') = n'
    BY <1>3, <1>4, <2>2, <2>5
  <2>7. returned + n = offset - bufferSize + bufferPos
    BY <1>3, <1>5, <2>1 DEF Used
  <2>8. returned' = offset - bufferSize + Used'
    BY <1>1, <1>3, <2>1, <2>2, <2>7 DEF Used
  <2>9. \A i \in 1..n' : text'[i] = input[returned + i]
    <3> SUFFICES ASSUME NEW i \in 1..n' PROVE text'[i] = input[returned + i]
      OBVIOUS
    <3>1. CASE i <= Len(text)
      <4>1. i \in 1..Len(text)
        BY <1>3, <2>2, <3>1
      <4> QED  BY <1>4, <2>5, <4>1
    <3>2. CASE i > Len(text)
      <4> DEFINE j == i - Len(text)
      <4>1. j \in 1..(bufferPos + 1 - start) /\ i = Len(text) + j
        BY <1>3, <1>4, <2>2, <3>2
      <4> HIDE DEF j
      <4>2. text'[i] = buffer[start + j]
        BY <2>5, <4>1
      <4>3. start + j \in 1..Len(buffer)
        BY <1>2, <1>3, <2>4, <4>1
      <4>4. buffer[start + j] = input[offset - Len(buffer) + (start + j)]
        BY <4>3 DEF IInv, BufferInv, Loaded
      <4>5. offset - Len(buffer) + (start + j) = returned + i
        <5>1. j \in Int /\ i = Len(text) + j /\ n = Len(text) + (bufferPos - start)
          BY <1>4, <4>1
        <5> QED  BY <1>2, <1>3, <2>7, <5>1
      <4> QED  BY <4>2, <4>4, <4>5
    <3> QED  BY <1>3, <2>2, <3>1, <3>2
  <2>10. \A i \in 1..(n' - 1) : input[returned + i] # Newline
    BY <1>3, <1>4, <2>2
  <2>11. input[returned'] = Newline
    <3>1. returned' = returned + n + 1
      BY <1>1, <1>3, <2>2
    <3> QED  BY <2>3, <3>1
  <2>12. /\ n' \in Nat /\ n' < capacity /\ n' # 0
         /\ returned' = returned + n' /\ returned' \in 0..Len(input)
         /\ ~(bufferPos' > bufferSize)
    BY <1>1, <1>3, <2>1, <2>2
  <2> QED  BY <2>5, <2>6, <2>8, <2>9, <2>10, <2>11, <2>12
<1>7. CASE ~AtNewline
  <2>1. eof
    BY <1>1, <1>7
  <2>2. bufferSize = 0 /\ offset = Len(input)
    BY <2>1 DEF IInv, BufferInv, AtTheEnd
  <2>3. bufferPos = 0 /\ start = 0
    BY <1>1, <1>3, <2>2 DEF MayTake, IInv, BufferInv, AtTheEnd
  <2>4. n' = n /\ LastChunk = Chunk(start, bufferPos)
    BY <1>1, <1>7 DEF LineLength, LastChunk
  <2>5. /\ text' \in Seq(Bytes)
        /\ Len(text') = Len(text) + (bufferPos - start)
        /\ \A i \in 1..Len(text) : text'[i] = text[i]
    BY <1>1, <1>2, <1>3, <1>4, <2>3, <2>4, ChunkFacts DEF IInv
  <2>6. Len(text') = n' /\ n = Len(text)
    BY <1>3, <1>4, <2>3, <2>4, <2>5
  <2>7. returned + n = Len(input)
    BY <1>3, <1>5, <2>2, <2>3 DEF Used
  <2>8. returned' = offset - bufferSize + Used'
    BY <1>1, <1>3, <2>2, <2>3, <2>4, <2>7 DEF Used
  <2>9. \A i \in 1..n' : text'[i] = input[returned + i]
    BY <1>4, <2>4, <2>5, <2>6
  <2>10. \A i \in 1..(n' - 1) : input[returned + i] # Newline
    BY <1>3, <1>4, <2>4
  <2> QED  BY <1>1, <1>3, <2>2, <2>4, <2>5, <2>6, <2>7, <2>8, <2>9, <2>10
<1> QED  BY <1>6, <1>7

LEMMA EndLineInv == ASSUME IInv, EndLine PROVE IInv'
<1>1. /\ bufferPos' = bufferPos + 1
      /\ ended' = (ended \/ n' = 0) /\ pc' = "idle" /\ MayTake
      /\ UNCHANGED <<input, offset, buffer, bufferSize, started, capacity, start, eof>>
  BY DEF EndLine, bufferVars
<1>2. started /\ Len(buffer) = bufferSize
  BY DEF IInv, BufferInv, Loaded, EndLine, MayTake
<1>3. /\ text' \in Seq(Bytes) /\ n' \in Nat /\ n' < capacity
      /\ returned' \in 0..Len(input)
      /\ returned' = offset - bufferSize + Used'
      /\ bufferPos' > bufferSize => bufferSize = 0
  BY EndLineFacts
<1>4. TypeOK'
  <2>1. Numbers'
    BY <1>1, <1>3, TypeParts DEF IInv, Numbers
  <2>2. Flags'
    BY <1>1, TypeParts DEF IInv, Flags
  <2> QED  BY <2>1, <2>2 DEF TypeOK, Numbers, Flags
<1>5. Loaded'
  BY <1>1, <1>2 DEF IInv, BufferInv, Loaded
<1>6. Accounted'
  BY <1>1, <1>2, <1>3 DEF Accounted
<1>7. AtTheEnd'
  BY <1>1, <1>2, <1>3 DEF IInv, BufferInv, AtTheEnd
<1>8. LineSoFar' /\ Fits'
  BY <1>1, <1>3 DEF LineSoFar, Fits
<1> QED  BY <1>4, <1>5, <1>6, <1>7, <1>8 DEF IInv, BufferInv

LEMMA StepIInv == IInv /\ [Next]_vars => IInv'
<1> SUFFICES ASSUME IInv, [Next]_vars PROVE IInv'
  OBVIOUS
<1>1. CASE UNCHANGED vars
  <2>1. TypeOK'
    BY <1>1 DEF IInv, TypeOK, vars
  <2>2. BufferInv'
    BY <1>1 DEF IInv, BufferInv, Loaded, Accounted, AtTheEnd, LineSoFar, Fits, Used,
                vars
  <2> QED  BY <2>1, <2>2 DEF IInv
<1> QED  BY <1>1, BeginInv, RefillInv, GrowStringInv, TakeByteInv, EndLineInv DEF Next

-----------------------------------------------------------------------------
\* Every variable of the line buffer has its type; the bytes returned are
\* never more than the input has.
THEOREM TypeCorrect == Spec => []TypeOK
<1>1. Spec => []IInv
  BY InitIInv, StepIInv, PTL DEF Spec
<1>2. IInv => TypeOK
  BY DEF IInv
<1> QED  BY <1>1, <1>2, PTL

\* Between any two steps of readLine the buffer, the string and the counts
\* agree with the input, and the line so far fits the string (buffer.c:53-93).
THEOREM Accounting == Spec => []BufferInv
<1>1. Spec => []IInv
  BY InitIInv, StepIInv, PTL DEF Spec
<1>2. IInv => BufferInv
  BY DEF IInv
<1> QED  BY <1>1, <1>2, PTL

-----------------------------------------------------------------------------
LEMMA InitSource == Init => Source!SourceInit
BY DEF Init, Source!SourceInit

LEMMA StepSource ==
  IInv /\ [Next]_vars => [Source!SourceNext]_Source!sourceVars
<1> SUFFICES ASSUME IInv, [Next]_vars
             PROVE  [Source!SourceNext]_Source!sourceVars
  OBVIOUS
<1>1. CASE Begin
  <2>1. UNCHANGED <<input, returned, ended>> /\ pc' = "loop"
    BY <1>1 DEF Begin
  <2> QED  BY <2>1 DEF Source!SourceNext, Source!Reset
<1>2. CASE Refill \/ GrowString \/ TakeByte
  <2>1. UNCHANGED <<input, returned, ended>> /\ pc # "idle" /\ pc' # "idle"
    BY <1>2 DEF Refill, GrowString, TakeByte, MayTake
  <2> QED  BY <2>1 DEF Source!sourceVars
<1>3. CASE EndLine
  <2>1. /\ text' \in Seq(Bytes) /\ Len(text') = n' /\ n' \in Nat
        /\ returned' = returned + n' /\ returned' \in 0..Len(input)
    BY <1>3, EndLineFacts
  <2>6. /\ \A i \in 1..n' : text'[i] = input[returned + i]
        /\ \A i \in 1..(n' - 1) : input[returned + i] # Newline
        /\ returned' = Len(input) \/ input[returned'] = Newline
        /\ n' = 0 => returned = Len(input)
    BY <1>3, EndLineFacts
  <2>2. /\ pc # "idle" /\ pc' = "idle" /\ ended' = (ended \/ n' = 0) /\ input' = input
    BY <1>3 DEF EndLine, MayTake
  <2>3. input \in Seq(Bytes) /\ returned \in Nat /\ ended \in BOOLEAN
    BY DEF IInv, TypeOK
  <2>4. CASE n' = 0
    <3>1. text' = <<>> /\ returned' = returned /\ ended' = TRUE
      <4>1. text' = <<>>
        BY <2>1, <2>4
      <4>2. returned' = returned
        BY <2>1, <2>3, <2>4
      <4> QED  BY <2>2, <2>4, <4>1, <4>2
    <3> QED  BY <2>6, <2>2, <2>4, <3>1 DEF Source!SourceNext, Source!ReportEnd
  <2>5. CASE n' # 0
    <3>0. /\ returned \in Nat /\ n' \in Nat \ {0} /\ returned' \in Nat
          /\ Len(input) \in Nat /\ returned' = returned + n'
          /\ returned' <= Len(input)
      <4>1. Len(input) \in Nat /\ returned \in Nat
        BY <2>3
      <4>2. returned' \in 0..Len(input)
        BY <2>1
      <4>4. returned' \in Nat /\ returned' <= Len(input)
        BY <4>1, <4>2
      <4>3. n' \in Nat \ {0} /\ returned' = returned + n'
        BY <2>1, <2>5
      <4> QED  BY <4>1, <4>4, <4>3, Zenon
    <3>1. ended' = ended
      BY <2>2, <2>3, <2>5
    <3>2. text' = SubSeq(input, returned + 1, returned + Len(text'))
      <4>1. \A i \in 1..Len(text') : text'[i] = input[returned + i]
        BY <2>1, <2>6
      <4>2. returned + Len(text') <= Len(input)
        BY <2>1
      <4> QED  BY <2>1, <2>3, <4>1, <4>2, SameSlice
    <3>3. returned' \in (returned + 1)..Len(input) /\ returned < Len(input)
      BY <3>0, PastTheStart
    <3>4. \A i \in (returned + 1)..(returned' - 1) : input[i] # Newline
      <4> SUFFICES ASSUME NEW i \in (returned + 1)..(returned' - 1)
                   PROVE  input[i] # Newline
        OBVIOUS
      <4>1. i - returned \in 1..(n' - 1) /\ returned + (i - returned) = i
        BY <3>0, PastTheStart
      <4> QED  BY <2>6, <4>1
    <3>5. text' = SubSeq(input, returned + 1, returned')
      BY <2>1, <3>2
    <3> QED  BY <2>6, <2>2, <3>1, <3>5, <3>3, <3>4
             DEF Source!SourceNext, Source!ReturnLine
  <2> QED  BY <2>4, <2>5
<1>4. CASE UNCHANGED vars
  BY <1>4 DEF vars, Source!sourceVars
<1> QED  BY <1>1, <1>2, <1>3, <1>4 DEF Next

\* Whatever the chunks the input comes in, readLine returns its lines, one per
\* call and in order, and reports the end when they have all been returned.
THEOREM LineRefinement == Spec => ImplementsLineSource
<1>1. Spec => []IInv
  BY InitIInv, StepIInv, PTL DEF Spec
<1> QED  BY <1>1, InitSource, StepSource, PTL
         DEF Spec, ImplementsLineSource, Source!SourceSpec
=============================================================================
