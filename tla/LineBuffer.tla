----------------------------- MODULE LineBuffer -----------------------------
(***************************************************************************)
(* Reading lines (src/buffer.c) into a growing string (src/memory.c).      *)
(*                                                                         *)
(* The input arrives in chunks of any size up to the one asked for, as the *)
(* read callback pleases (fread, or read() of a Python stream).  A chunk   *)
(* shorter than the buffer makes the buffer smaller for good, because      *)
(* fillBuffer stores the number of bytes received as the size to ask for   *)
(* next.  readLine scans the buffer byte by byte; n counts the bytes of    *)
(* the line while their copying lags behind, one memcpy per chunk, so the  *)
(* string must already be large enough when the memcpy comes.              *)
(*                                                                         *)
(* Positions are counted from 0 as in the code: byte p of the buffer is    *)
(* buffer[p + 1].  The caller calls readLine again and again, after        *)
(* the end of the input too, as parseFec does after an F99 text cut short. *)
(***************************************************************************)
EXTENDS Integers, Sequences

CONSTANTS Bytes, Newline,
          Inputs,            \* the inputs to read
          InputBufferSize,   \* the size the buffer is created with
          InitialCapacity    \* the size of the string (DEFAULT_STRING_SIZE)

ASSUME LineBufferAssumption == /\ Newline \in Bytes
                               /\ Inputs \subseteq Seq(Bytes)
                               /\ InputBufferSize \in Nat \ {0}
                               /\ InitialCapacity \in Nat \ {0}

VARIABLES input,      \* the whole input
          offset,     \* how many bytes the read callback has delivered
          buffer,     \* the bytes of the last chunk
          bufferSize, \* the size asked for next
          bufferPos,  \* the next position of the buffer to look at
          started,    \* streamStarted
          text,       \* the bytes copied to the string; its length is stringStart
          capacity,   \* string->n
          n, start, eof,  \* the locals of readLine
          pc,         \* "idle", "loop" (top of the loop) or "take"
          returned,   \* history: the bytes returned in earlier lines
          ended       \* a call of readLine has returned 0

vars == <<input, offset, buffer, bufferSize, bufferPos, started, text, capacity,
          n, start, eof, pc, returned, ended>>
bufferVars == <<offset, buffer, bufferSize>>

Init == /\ input \in Inputs
        /\ offset = 0
        /\ buffer = <<>> /\ bufferSize = InputBufferSize /\ bufferPos = 0
        /\ started = FALSE
        /\ text = <<>> /\ capacity = InitialCapacity
        /\ n = 0 /\ start = 0 /\ eof = FALSE
        /\ pc = "idle"
        /\ returned = 0 /\ ended = FALSE

(***************************************************************************)
(* fillBuffer receives k bytes: at least one, unless the input is over or  *)
(* nothing is asked for.                                                   *)
(***************************************************************************)
FillBuffer(k) ==
  /\ k \in 0..bufferSize /\ k <= Len(input) - offset
  /\ k = 0 => bufferSize = 0 \/ offset = Len(input)
  /\ buffer' = SubSeq(input, offset + 1, offset + k)
  /\ offset' = offset + k
  /\ bufferSize' = k

\* The bytes of the buffer from position p up to position q.
Chunk(p, q) == SubSeq(buffer, p + 1, q)

\* readLine up to its loop: the stream is started by the first call.
Begin ==
  /\ pc = "idle"
  /\ \/ /\ ~started
        /\ \E k \in 0..bufferSize : FillBuffer(k) /\ eof' = (k = 0)
        /\ bufferPos' = 0
     \/ /\ started
        /\ eof' = FALSE
        /\ UNCHANGED <<offset, buffer, bufferSize, bufferPos>>
  /\ started' = TRUE
  /\ n' = 0 /\ start' = bufferPos' /\ text' = <<>>
  /\ pc' = "loop"
  /\ UNCHANGED <<input, capacity, returned, ended>>

\* The buffer is used up: copy what it held of the line, and fill it again.
FlushedChunk == Chunk(start, bufferPos)

Refill ==
  /\ pc = "loop"
  /\ bufferPos >= bufferSize
  /\ text' = text \o FlushedChunk
  /\ \E k \in 0..bufferSize : FillBuffer(k) /\ eof' = (eof \/ k = 0)
  /\ bufferPos' = 0 /\ start' = 0
  /\ pc' = "take"
  /\ UNCHANGED <<input, started, capacity, n, returned, ended>>

\* growString: the string is doubled until the terminated line would fit.
NeededLate == n + 1
Needed == n + 2

MayTake == pc = "take" \/ (pc = "loop" /\ bufferPos < bufferSize)

GrowString ==
  /\ MayTake
  /\ Needed > capacity
  /\ capacity' = 2 * capacity
  /\ UNCHANGED <<input, bufferVars, bufferPos, started, text, n, start, eof, pc,
                 returned, ended>>

(***************************************************************************)
(* The rest of one turn: look at the next byte.  At a newline or at the    *)
(* end of the input the line is terminated at n, its last chunk is copied  *)
(* in front of the terminator, and its length is returned.                 *)
(***************************************************************************)
AtNewline == ~eof /\ buffer[bufferPos + 1] = Newline

LastChunkNoNewline == Chunk(start, bufferPos)
LastChunk == Chunk(start, IF AtNewline THEN bufferPos + 1 ELSE bufferPos)

LineLengthTerminated == n + 1
LineLengthBare == n
LineLength == IF AtNewline THEN n + 1 ELSE n

TakeByte ==
  /\ MayTake /\ Needed <= capacity
  /\ ~eof /\ ~AtNewline
  /\ bufferPos' = bufferPos + 1
  /\ n' = n + 1
  /\ pc' = "loop"
  /\ UNCHANGED <<input, bufferVars, started, text, capacity, start, eof, returned,
                 ended>>

EndLine ==
  /\ MayTake /\ Needed <= capacity
  /\ eof \/ AtNewline
  /\ bufferPos' = bufferPos + 1
  /\ n' = LineLength
  /\ text' = text \o LastChunk
  /\ returned' = returned + n'
  /\ ended' = (ended \/ n' = 0)
  /\ pc' = "idle"
  /\ UNCHANGED <<input, bufferVars, started, capacity, start, eof>>

Next == Begin \/ Refill \/ GrowString \/ TakeByte \/ EndLine

Spec == Init /\ [][Next]_vars
\* The reader runs without waiting for anything but the read callback.
FairSpec == Spec /\ WF_vars(Next)

-----------------------------------------------------------------------------
TypeOK == /\ input \in Seq(Bytes) /\ offset \in 0..Len(input)
          /\ buffer \in Seq(Bytes) /\ bufferSize \in Nat /\ bufferPos \in Nat
          /\ started \in BOOLEAN /\ eof \in BOOLEAN /\ ended \in BOOLEAN
          /\ text \in Seq(Bytes) /\ capacity \in Nat \ {0}
          /\ n \in Nat /\ start \in Nat
          /\ pc \in {"idle", "loop", "take"}
          /\ returned \in 0..Len(input)

Used == IF bufferPos <= bufferSize THEN bufferPos ELSE bufferSize

\* The buffer holds the bytes of the input just before the offset.
Loaded ==
  /\ started => Len(buffer) = bufferSize
  /\ ~started => /\ bufferPos = 0 /\ pc = "idle" /\ buffer = <<>> /\ offset = 0
                 /\ returned = 0 /\ bufferSize > 0
  /\ Len(buffer) <= offset
  /\ \A p \in 1..Len(buffer) : buffer[p] = input[offset - Len(buffer) + p]

\* The bytes returned, with those of the line so far, are the ones looked at.
Accounted ==
  /\ pc = "idle" => returned = offset - Len(buffer) + (IF started THEN Used ELSE 0)
  /\ pc # "idle" => returned + n = offset - Len(buffer) + Used

\* The position runs past the buffer only at the end of the input, and the end
\* is noticed only there.
AtTheEnd ==
  /\ bufferPos > bufferSize => /\ offset = Len(input) /\ bufferSize = 0
                               /\ pc # "take"
  /\ started /\ bufferSize = 0 => offset = Len(input)
  /\ eof => offset = Len(input) /\ bufferSize = 0
  /\ pc = "take" => bufferPos = 0 /\ start = 0
  /\ pc = "take" /\ ~eof => bufferSize > 0

\* While a line is read its bytes are, in this order, the text already copied
\* and the chunk from start on; none is a newline, and they are the bytes of
\* the input that follow those returned.
LineSoFar ==
  /\ pc # "idle" =>
       /\ start <= bufferPos
       /\ bufferPos > bufferSize => start = bufferPos
       /\ n = Len(text) + (bufferPos - start)
       /\ \A i \in 1..Len(text) : text[i] = input[returned + i]
       /\ \A i \in 1..n : input[returned + i] # Newline

\* Every byte counted fits, with the terminator, before it is copied.
Fits == n < capacity

BufferInv == Loaded /\ Accounted /\ AtTheEnd /\ LineSoFar /\ Fits

Source == INSTANCE LineSource WITH at <- returned,
            line <- IF pc = "idle" THEN text ELSE <<>>

\* Whatever the sizes of the chunks, the caller gets the lines of the input.
ImplementsLineSource == Source!SourceSpec

\* The end is reported in the end, and not before the whole input is read.
ReadsAll == <>(ended /\ returned = Len(input))
=============================================================================
