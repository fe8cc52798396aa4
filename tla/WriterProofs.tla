---------------------------- MODULE WriterProofs ----------------------------
(***************************************************************************)
(* Proofs about Writer, for all names, contents and buffer sizes.          *)
(***************************************************************************)
EXTENDS Writer, SequenceTheorems, WellFoundedInduction, TLAPS

-----------------------------------------------------------------------------
(* Facts about the sequences of the model.                                  *)

\* A chunk and what is left of a write are the write.
LEMMA SplitSeq ==
  ASSUME NEW S, NEW s \in Seq(S), NEW n \in 0..Len(s)
  PROVE  /\ SubSeq(s, 1, n) \in Seq(S)
         /\ Len(SubSeq(s, 1, n)) = n
         /\ SubSeq(s, n + 1, Len(s)) \in Seq(S)
         /\ SubSeq(s, 1, n) \o SubSeq(s, n + 1, Len(s)) = s
<1>1. SubSeq(s, 1, n) \in Seq(S) /\ Len(SubSeq(s, 1, n)) = n
  BY SubSeqProperties
<1>2. SubSeq(s, n + 1, Len(s)) \in Seq(S)
  BY SubSeqProperties
<1>3. /\ 1 \in 1..(Len(s) + 1)
      /\ n \in (1 - 1)..Len(s)
      /\ Len(s) \in n..Len(s)
  OBVIOUS
<1>4. SubSeq(s, 1, n) \o SubSeq(s, n + 1, Len(s)) = SubSeq(s, 1, Len(s))
  BY <1>3, ConcatAdjacentSubSeq, Zenon
<1> QED
  BY <1>1, <1>2, <1>4, SubSeqFull

\* Replacing one element of a sequence.
LEMMA SeqWithOneReplaced ==
  ASSUME NEW S, NEW s \in Seq(S), NEW i \in 1..Len(s), NEW e \in S
  PROVE  /\ [s EXCEPT ![i] = e] \in Seq(S)
         /\ Len([s EXCEPT ![i] = e]) = Len(s)
         /\ \A j \in 1..Len(s) : [s EXCEPT ![i] = e][j] = IF j = i THEN e ELSE s[j]
  OBVIOUS

LEMMA SmallerIsSmaller ==
  ASSUME NEW m \in Nat \ {0}, NEW n \in Nat \ {0}
  PROVE  Smaller(m, n) \in 1..m /\ Smaller(m, n) <= n
BY DEF Smaller

\* The first n bytes of a job can be copied: n fits the job and the buffer.
LEMMA ChunkSize ==
  ASSUME TypeOK, RoomLeft, CacheCoherent, pc = "copying", job.rest # <<>>,
         NEW n, n = Smaller(Len(job.rest), BufferSize - Len(buffers[lastBuffer]))
  PROVE  /\ n \in 1..Len(job.rest)
         /\ Len(buffers[lastBuffer]) + n <= BufferSize
         /\ lastBuffer \in 1..nfiles /\ lastfile = lastBuffer
         /\ filenames[lastBuffer] = job.name
<1>1. /\ lastBuffer \in 1..nfiles /\ lastfile = lastBuffer
      /\ filenames[lastBuffer] = job.name
  BY DEF CacheCoherent
<1>2. Len(buffers[lastBuffer]) \in Nat /\ Len(buffers[lastBuffer]) < BufferSize
  BY <1>1 DEF TypeOK, RoomLeft
<1>3. job.rest \in Seq(Bytes)
  BY DEF TypeOK, Jobs
<1>4. Len(job.rest) \in Nat \ {0}
  BY <1>3
<1>5. BufferSize \in Nat
  BY WriterAssumption
<1>6. BufferSize - Len(buffers[lastBuffer]) \in Nat \ {0}
  BY <1>2, <1>5
<1>7. n \in 1..Len(job.rest) /\ n <= BufferSize - Len(buffers[lastBuffer])
  BY <1>4, <1>6, SmallerIsSmaller
<1>8. Len(buffers[lastBuffer]) + n <= BufferSize
  BY <1>2, <1>4, <1>5, <1>7
<1> QED
  BY <1>1, <1>7, <1>8

-----------------------------------------------------------------------------
(* Type correctness.                                                        *)

LEMMA InitType == Init => TypeOK
BY WriterAssumption DEF Init, TypeOK, nfiles, Idle, Jobs, Phases

\* The cases of getFile keep the table well formed.
LEMMA GetFileType ==
  ASSUME TypeOK, NEW f \in Names, GetFile(f)
  PROVE  /\ filenames' \in Seq(Names)
         /\ buffers' \in Seq(Seq(Bytes)) /\ Len(buffers') = Len(filenames')
         /\ streams' \in Seq(Seq(Bytes)) /\ Len(streams') = Len(filenames')
         /\ lastname' \in Names \cup {None}
         /\ lastBuffer' \in 0..Len(filenames')
         /\ lastfile' \in 0..Len(filenames')
         /\ Len(filenames) \in Nat /\ Len(filenames') \in Nat
         /\ Len(filenames) <= Len(filenames')
<1> USE DEF TypeOK, nfiles
<1>1. CASE lastname = f /\ UNCHANGED <<filenames, buffers, streams, lastname,
                                       lastBuffer, lastfile>>
  BY <1>1
<1>2. CASE /\ \E i \in 1..nfiles : UseFile(f, i)
           /\ UNCHANGED <<filenames, buffers, streams>>
  BY <1>2 DEF UseFile
<1>3. CASE /\ filenames' = Append(filenames, f)
           /\ buffers' = Append(buffers, <<>>)
           /\ streams' = Append(streams, <<>>)
           /\ UseFile(f, nfiles + 1)
  <2>1. <<>> \in Seq(Bytes)
    OBVIOUS
  <2>2. Len(filenames') = Len(filenames) + 1 /\ filenames' \in Seq(Names)
    BY <1>3
  <2>3. Len(buffers') = Len(filenames) + 1 /\ buffers' \in Seq(Seq(Bytes))
    BY <1>3, <2>1, AppendProperties
  <2>4. Len(streams') = Len(filenames) + 1 /\ streams' \in Seq(Seq(Bytes))
    BY <1>3, <2>1, AppendProperties
  <2> QED
    BY <1>3, <2>2, <2>3, <2>4 DEF UseFile
<1> QED
  BY <1>1, <1>2, <1>3 DEF GetFile

\* So does a flush.
LEMMA FlushType ==
  ASSUME TypeOK, NEW f \in Names, NEW i \in 1..nfiles, NEW j \in 1..nfiles,
         NEW data \in Seq(Bytes), Flush(f, i, j, data)
  PROVE  /\ buffers' \in Seq(Seq(Bytes)) /\ Len(buffers') = nfiles
         /\ streams' \in Seq(Seq(Bytes)) /\ Len(streams') = nfiles
         /\ custom' \in [Names -> Seq(Bytes)]
<1> USE DEF TypeOK
<1>1. buffers' \in Seq(Seq(Bytes)) /\ Len(buffers') = nfiles
  BY SeqWithOneReplaced DEF Flush
<1>2. streams[j] \o data \in Seq(Bytes)
  OBVIOUS
<1>3. streams' \in Seq(Seq(Bytes)) /\ Len(streams') = nfiles
  BY <1>2, SeqWithOneReplaced DEF Flush
<1>4. custom' \in [Names -> Seq(Bytes)]
  <2>1. custom[f] \o data \in Seq(Bytes)
    OBVIOUS
  <2>2. [custom EXCEPT ![f] = custom[f] \o data] \in [Names -> Seq(Bytes)]
    BY <2>1
  <2> QED
    BY <2>2 DEF Flush
<1> QED
  BY <1>1, <1>3, <1>4

LEMMA NextType == TypeOK /\ WriterInv /\ [Next]_vars => TypeOK'
<1> SUFFICES ASSUME TypeOK, WriterInv, [Next]_vars PROVE TypeOK'
  OBVIOUS
<1>1. ASSUME NEW f \in Names, NEW s \in Contents, WriteN(f, s) PROVE TypeOK'
  <2>1. s \in Seq(Bytes)
    BY WriterAssumption
  <2>2. GetFile(f)
    BY <1>1 DEF WriteN
  <2>3. job' \in Jobs
    BY <1>1, <2>1 DEF WriteN, Jobs
  <2>4. written' \in [Names -> Seq(Bytes)]
    BY <1>1, <2>1 DEF WriteN, TypeOK
  <2>5. nfreed' \in 0..Len(filenames')
    <3>1. /\ Len(filenames) \in Nat /\ Len(filenames') \in Nat
          /\ Len(filenames) <= Len(filenames')
      BY <2>2, GetFileType
    <3>2. nfreed' \in 0..Len(filenames)
      BY <1>1 DEF WriteN, TypeOK, nfiles
    <3> QED
      BY <3>1, <3>2
  <2>6. ncalls' \in Nat /\ owners' \subseteq Names /\ pc' \in Phases
    BY <1>1 DEF WriteN, TypeOK, Phases
  <2>7. /\ custom' \in [Names -> Seq(Bytes)] /\ lineBuffer' \in Seq(Bytes)
        /\ lines' \in Seq(Lines)
    BY <1>1 DEF WriteN, TypeOK
  <2> QED
    BY <2>2, <2>3, <2>4, <2>5, <2>6, <2>7, GetFileType DEF TypeOK, nfiles
<1>2. CASE EndLine
  <2>1. [name |-> lastname, text |-> lineBuffer, from |-> owners] \in Lines
    BY <1>2 DEF EndLine, TypeOK, Lines
  <2>2. lines' \in Seq(Lines)
    BY <1>2, <2>1, AppendProperties DEF EndLine, TypeOK
  <2> QED
    BY <1>2, <2>2 DEF EndLine, TypeOK, nfiles
<1>3. CASE BeginFree
  BY <1>3 DEF BeginFree, TypeOK, nfiles, Phases
<1>4. CASE CopyChunk
  <2> DEFINE n == Smaller(Len(job.rest), BufferSize - Len(buffers[lastBuffer]))
             data == buffers[lastBuffer] \o SubSeq(job.rest, 1, n)
  <2>1. /\ n \in 1..Len(job.rest) /\ lastBuffer \in 1..nfiles
        /\ lastfile = lastBuffer /\ job.rest \in Seq(Bytes)
        /\ job.name \in Names
    BY <1>4, ChunkSize DEF CopyChunk, BytesToWrite, IsFull, WriterInv, TypeOK, Jobs, nfiles
  <2>2. /\ SubSeq(job.rest, 1, n) \in Seq(Bytes)
        /\ SubSeq(job.rest, n + 1, Len(job.rest)) \in Seq(Bytes)
    BY <2>1, SplitSeq
  <2>3. buffers[lastBuffer] \in Seq(Bytes) /\ data \in Seq(Bytes)
    BY <2>1, <2>2, ConcatProperties DEF TypeOK
  <2>4. job' \in Jobs
    <3>1. job' = [job EXCEPT !.rest = SubSeq(job.rest, n + 1, Len(job.rest))]
      BY <1>4 DEF CopyChunk, BytesToWrite, IsFull
    <3> QED
      BY <3>1, <2>2 DEF TypeOK, Jobs
  <2>5. /\ buffers' \in Seq(Seq(Bytes)) /\ Len(buffers') = nfiles
        /\ streams' \in Seq(Seq(Bytes)) /\ Len(streams') = nfiles
        /\ custom' \in [Names -> Seq(Bytes)]
    <3>1. CASE Flush(job.name, lastBuffer, lastfile, data)
      <4> HIDE DEF data
      <4> QED
        BY <2>1, <2>3, <3>1, FlushType
    <3>2. CASE /\ buffers' = [buffers EXCEPT ![lastBuffer] = data]
               /\ UNCHANGED <<custom, streams>>
      <4> HIDE DEF data
      <4> QED
        BY <2>1, <2>3, <3>2, SeqWithOneReplaced DEF TypeOK
    <3> QED
      BY <1>4, <3>1, <3>2 DEF CopyChunk, BytesToWrite, IsFull
  <2> QED
    BY <1>4, <2>4, <2>5 DEF CopyChunk, BytesToWrite, IsFull, TypeOK, nfiles
<1>5. CASE EndWrite
  <2>1. job' \in Jobs
    BY <1>5 DEF EndWrite, Idle, Jobs
  <2>2. lineBuffer' \in Seq(Bytes)
    BY <1>5 DEF EndWrite, TypeOK, Jobs
  <2> QED
    BY <1>5, <2>1, <2>2 DEF EndWrite, TypeOK, nfiles, Phases
<1>6. CASE FreeFile
  <2>1. nfreed' \in 1..nfiles
    BY <1>6 DEF FreeFile, MoreToFree, TypeOK, nfiles
  <2>2. filenames[nfreed'] \in Names /\ buffers[nfreed'] \in Seq(Bytes)
    BY <2>1 DEF TypeOK, nfiles
  <2>3. Flush(filenames[nfreed'], nfreed', nfreed', buffers[nfreed'])
    BY <1>6 DEF FreeFile, MoreToFree
  <2>4. /\ buffers' \in Seq(Seq(Bytes)) /\ Len(buffers') = nfiles
        /\ streams' \in Seq(Seq(Bytes)) /\ Len(streams') = nfiles
        /\ custom' \in [Names -> Seq(Bytes)]
    BY <2>1, <2>2, <2>3, FlushType
  <2>5. nfreed' \in 0..nfiles
    BY <2>1 DEF TypeOK, nfiles
  <2> QED
    BY <1>6, <2>4, <2>5 DEF FreeFile, MoreToFree, TypeOK, nfiles
<1>7. CASE EndFree
  BY <1>7 DEF EndFree, TypeOK, nfiles, Phases
<1>8. CASE UNCHANGED vars
  BY <1>8 DEF vars, TypeOK, nfiles
<1> QED
  BY <1>1, <1>2, <1>3, <1>4, <1>5, <1>6, <1>7, <1>8 DEF Next, Steps

-----------------------------------------------------------------------------
(* Conservation of every byte.                                              *)

\* Concatenation under a name of its own: the SMT backend replaces \o by its
\* definition, which hides the algebra that is needed here.
Cat(s, t) == s \o t

LEMMA CatAssociative ==
  ASSUME NEW c \in Seq(Bytes), NEW h \in Seq(Bytes), NEW p \in Seq(Bytes)
  PROVE  Cat(Cat(c, h), p) = Cat(c, Cat(h, p))
BY ConcatAssociative DEF Cat

LEMMA Regroup ==
  ASSUME NEW c \in Seq(Bytes), NEW h \in Seq(Bytes), NEW p \in Seq(Bytes),
         NEW q \in Seq(Bytes)
  PROVE  Cat(Cat(c, h), Cat(p, q)) = Cat(Cat(c, Cat(h, p)), q)
<1> DEFINE a == Cat(c, h)
<1>1. a \in Seq(Bytes)
  BY ConcatProperties DEF Cat
<1> HIDE DEF a
<1>2. Cat(Cat(a, p), q) = Cat(a, Cat(p, q))
  BY <1>1, CatAssociative
<1>3. Cat(a, p) = Cat(c, Cat(h, p))
  BY CatAssociative DEF a
<1> QED
  BY <1>2, <1>3 DEF a

LEMMA TableType ==
  ASSUME TypeOK, NEW i \in 1..nfiles
  PROVE  /\ filenames[i] \in Names /\ buffers[i] \in Seq(Bytes)
         /\ streams[i] \in Seq(Bytes)
<1>1. filenames[i] \in Names
  BY DEF TypeOK, nfiles
<1>2. buffers[i] \in Seq(Bytes)
  BY DEF TypeOK
<1>3. streams[i] \in Seq(Bytes)
  BY DEF TypeOK
<1> QED
  BY <1>1, <1>2, <1>3

\* What getFile does to the table: it keeps the open files as they are, adds at
\* most one, empty, and leaves the cache on the file that was asked for.
LEMMA GetFileTable ==
  ASSUME TypeOK, WriterInv, NEW f \in Names, GetFile(f)
  PROVE  /\ \A i \in 1..nfiles : /\ filenames'[i] = filenames[i]
                                 /\ buffers'[i] = buffers[i]
                                 /\ streams'[i] = streams[i]
         /\ \/ nfiles' = nfiles
            \/ /\ nfiles' = nfiles + 1 /\ ~IsOpen(f)
               /\ filenames'[nfiles'] = f
               /\ buffers'[nfiles'] = <<>> /\ streams'[nfiles'] = <<>>
         /\ lastname' = f
         /\ lastBuffer' = lastfile' /\ lastBuffer' \in 1..nfiles'
         /\ filenames'[lastBuffer'] = f
         /\ nfiles \in Nat
<1> USE DEF TypeOK, nfiles
<1>0. f # None
  BY WriterAssumption
<1>1. CASE lastname = f /\ UNCHANGED <<filenames, buffers, streams, lastname,
                                       lastBuffer, lastfile>>
  BY <1>0, <1>1 DEF WriterInv, CacheCoherent
<1>2. CASE /\ \E i \in 1..nfiles : filenames[i] = f /\ UseFile(f, i)
           /\ UNCHANGED <<filenames, buffers, streams>>
  BY <1>2 DEF UseFile
<1>3. CASE /\ ~IsOpen(f)
           /\ filenames' = Append(filenames, f)
           /\ buffers' = Append(buffers, <<>>)
           /\ streams' = Append(streams, <<>>)
           /\ UseFile(f, nfiles + 1)
  <2>1. <<>> \in Seq(Bytes)
    OBVIOUS
  <2>2. nfiles \in Nat
    OBVIOUS
  <2>3. /\ nfiles' = nfiles + 1 /\ filenames'[nfiles + 1] = f
        /\ \A i \in 1..nfiles : filenames'[i] = filenames[i]
    BY <1>3, AppendProperties
  <2>4. /\ buffers'[nfiles + 1] = <<>>
        /\ \A i \in 1..nfiles : buffers'[i] = buffers[i]
    BY <1>3, <2>1, AppendProperties
  <2>5. /\ streams'[nfiles + 1] = <<>>
        /\ \A i \in 1..nfiles : streams'[i] = streams[i]
    BY <1>3, <2>1, AppendProperties
  <2>6. lastname' = f /\ lastBuffer' = nfiles + 1 /\ lastfile' = nfiles + 1
    BY <1>3 DEF UseFile
  <2> HIDE DEF TypeOK, nfiles
  <2>7. \A i \in 1..nfiles : /\ filenames'[i] = filenames[i]
                            /\ buffers'[i] = buffers[i]
                            /\ streams'[i] = streams[i]
    BY <2>3, <2>4, <2>5
  <2>8. /\ nfiles' = nfiles + 1 /\ ~IsOpen(f)
        /\ filenames'[nfiles'] = f
        /\ buffers'[nfiles'] = <<>> /\ streams'[nfiles'] = <<>>
    BY <1>3, <2>3, <2>4, <2>5
  <2>9. /\ lastname' = f
        /\ lastBuffer' = lastfile' /\ lastBuffer' \in 1..nfiles'
        /\ filenames'[lastBuffer'] = f
    BY <2>2, <2>3, <2>6
  <2> QED
    BY <2>2, <2>7, <2>8, <2>9
<1> QED
  BY <1>1, <1>2, <1>3 DEF GetFile

LEMMA InitInv == Init => WriterInv
BY WriterAssumption
   DEF Init, WriterInv, OpenedOnce, CacheCoherent, RoomLeft, Drained,
       CustomConserved, StreamConserved, IsOpen, nfiles, Idle

LEMMA WriteNInv ==
  ASSUME TypeOK, WriterInv, NEW f \in Names, NEW s \in Contents, WriteN(f, s)
  PROVE  WriterInv'
<1>1. /\ \A i \in 1..nfiles : /\ filenames'[i] = filenames[i]
                              /\ buffers'[i] = buffers[i]
                              /\ streams'[i] = streams[i]
      /\ \/ nfiles' = nfiles
         \/ /\ nfiles' = nfiles + 1 /\ ~IsOpen(f)
            /\ filenames'[nfiles'] = f
            /\ buffers'[nfiles'] = <<>> /\ streams'[nfiles'] = <<>>
      /\ lastname' = f
      /\ lastBuffer' = lastfile' /\ lastBuffer' \in 1..nfiles'
      /\ filenames'[lastBuffer'] = f
      /\ nfiles \in Nat
  BY GetFileTable DEF WriteN
<1>2. /\ pc = "ready" /\ pc' = "copying" /\ custom' = custom
      /\ job' = [name |-> f, all |-> s, rest |-> s] /\ nfreed' = nfreed
      /\ written' = [written EXCEPT ![f] = @ \o s]
  BY DEF WriteN
<1>3. /\ \A h \in Names : Pending(h) = <<>>
      /\ \A i : Pending(filenames[i])' = IF filenames'[i] = f THEN s ELSE <<>>
  BY <1>2 DEF Pending
<1>4. s \in Seq(Bytes)
  BY WriterAssumption
<1>5. \A i \in 1..nfiles : filenames[i] \in Names /\ buffers[i] \in Seq(Bytes)
                          /\ streams[i] \in Seq(Bytes)
  BY TableType
<1>6. written \in [Names -> Seq(Bytes)] /\ custom \in [Names -> Seq(Bytes)]
  BY DEF TypeOK
<1>7. OpenedOnce'
  <2>1. OpenedOnce
    BY DEF WriterInv
  <2> QED
    BY <1>1, <2>1 DEF OpenedOnce, IsOpen
<1>8. CacheCoherent'
  BY <1>1, <1>2, WriterAssumption DEF CacheCoherent
<1>9. RoomLeft'
  <2>1. BufferSize > 0 /\ Len(<<>>) = 0
    BY WriterAssumption
  <2>2. \A i \in 1..nfiles : Len(buffers[i]) < BufferSize
    BY DEF WriterInv, RoomLeft
  <2> QED
    BY <1>1, <2>1, <2>2 DEF RoomLeft
<1>10. Drained'
  <2>1. nfreed = 0
    BY <1>2 DEF WriterInv, Drained
  <2> QED
    BY <1>2, <2>1 DEF Drained
<1>11. \A h \in Names : IsOpen(h)' <=> IsOpen(h) \/ h = f
  BY <1>1 DEF IsOpen
<1>12. CustomConserved'
  <2> SUFFICES ASSUME UseCustomWrite PROVE CustomConserved'
    BY DEF CustomConserved
  <2>1. /\ \A i \in 1..nfiles : (custom[filenames[i]] \o buffers[i]) \o <<>>
                                = written[filenames[i]]
        /\ \A h \in Names : ~IsOpen(h) => custom[h] = written[h]
    BY <1>3, <1>5 DEF WriterInv, CustomConserved
  <2>2. ASSUME NEW i \in 1..nfiles'
        PROVE  custom'[filenames'[i]] \o buffers'[i] \o Pending(filenames[i])'
                 = written'[filenames'[i]]
    <3>1. CASE i \in 1..nfiles
      <4> DEFINE h == filenames[i]
      <4>1. /\ filenames'[i] = h /\ h \in Names /\ buffers'[i] = buffers[i]
            /\ custom[h] \in Seq(Bytes)
            /\ custom[h] \o buffers[i] \in Seq(Bytes)
        BY <1>1, <1>5, <1>6, <3>1, ConcatProperties
      <4>2. custom[h] \o buffers[i] = written[h]
        BY <2>1, <3>1, <4>1, ConcatEmptySeq
      <4>3. CASE h = f
        BY <1>2, <1>3, <1>6, <4>1, <4>2, <4>3
      <4>4. CASE h # f
        BY <1>2, <1>3, <1>6, <2>1, <3>1, <4>1, <4>4
      <4> QED
        BY <4>3, <4>4
    <3>2. CASE i = nfiles + 1 /\ nfiles' = nfiles + 1
      <4>1. ~IsOpen(f) /\ filenames'[i] = f /\ buffers'[i] = <<>>
        BY <1>1, <3>2
      <4>2. custom[f] = written[f] /\ custom[f] \in Seq(Bytes)
        BY <1>6, <2>1, <4>1
      <4>3. custom[f] \o <<>> = written[f]
        BY <4>2, ConcatEmptySeq
      <4> QED
        BY <1>2, <1>3, <1>6, <4>1, <4>3
    <3>3. i \in 1..nfiles \/ (i = nfiles + 1 /\ nfiles' = nfiles + 1)
      BY <1>1, <2>2
    <3> QED
      BY <3>1, <3>2, <3>3
  <2>3. ASSUME NEW h \in Names, ~IsOpen(h)' PROVE custom'[h] = written'[h]
    BY <1>2, <1>6, <1>11, <2>1, <2>3
  <2> QED
    BY <2>2, <2>3 DEF CustomConserved
<1>13. StreamConserved'
  <2> SUFFICES ASSUME WriteToFile PROVE StreamConserved'
    BY DEF StreamConserved
  <2>1. /\ \A i \in 1..nfiles : (streams[i] \o buffers[i]) \o <<>>
                                = written[filenames[i]]
        /\ \A h \in Names : ~IsOpen(h) => written[h] = <<>>
    BY <1>3, <1>5 DEF WriterInv, StreamConserved
  <2>2. ASSUME NEW i \in 1..nfiles'
        PROVE  streams'[i] \o buffers'[i] \o Pending(filenames[i])'
                 = written'[filenames'[i]]
    <3>1. CASE i \in 1..nfiles
      <4> DEFINE h == filenames[i]
      <4>1. /\ filenames'[i] = h /\ h \in Names /\ buffers'[i] = buffers[i]
            /\ streams'[i] = streams[i]
            /\ streams[i] \o buffers[i] \in Seq(Bytes)
        BY <1>1, <1>5, <3>1, ConcatProperties
      <4>2. streams[i] \o buffers[i] = written[h]
        BY <2>1, <3>1, <4>1, ConcatEmptySeq
      <4>3. CASE h = f
        BY <1>2, <1>3, <1>6, <4>1, <4>2, <4>3
      <4>4. CASE h # f
        BY <1>2, <1>3, <1>6, <2>1, <3>1, <4>1, <4>4
      <4> QED
        BY <4>3, <4>4
    <3>2. CASE i = nfiles + 1 /\ nfiles' = nfiles + 1
      <4>1. /\ ~IsOpen(f) /\ filenames'[i] = f
            /\ buffers'[i] = <<>> /\ streams'[i] = <<>>
        BY <1>1, <3>2
      <4>2. written[f] = <<>>
        BY <2>1, <4>1
      <4> QED
        BY <1>2, <1>3, <1>6, <4>1, <4>2
    <3>3. i \in 1..nfiles \/ (i = nfiles + 1 /\ nfiles' = nfiles + 1)
      BY <1>1, <2>2
    <3> QED
      BY <3>1, <3>2, <3>3
  <2>3. ASSUME NEW h \in Names, ~IsOpen(h)' PROVE written'[h] = <<>>
    BY <1>2, <1>6, <1>11, <2>1, <2>3
  <2> QED
    BY <2>2, <2>3 DEF StreamConserved
<1> QED
  BY <1>7, <1>8, <1>9, <1>10, <1>12, <1>13 DEF WriterInv

\* Flushing buffer i, with nothing waiting after it, keeps the sinks complete.
LEMMA FlushSinks ==
  ASSUME TypeOK, OpenedOnce, NEW i \in 1..nfiles, NEW data \in Seq(Bytes),
         Flush(filenames[i], i, i, data)
  PROVE  /\ buffers'[i] = <<>>
         /\ \A j \in 1..nfiles : j # i => /\ buffers'[j] = buffers[j]
                                       /\ streams'[j] = streams[j]
                                       /\ custom'[filenames[j]]
                                            = custom[filenames[j]]
         /\ UseCustomWrite => custom'[filenames[i]] = custom[filenames[i]] \o data
         /\ WriteToFile => streams'[i] = streams[i] \o data
         /\ \A h \in Names : h # filenames[i] => custom'[h] = custom[h]
<1>1. /\ filenames[i] \in Names /\ streams[i] \in Seq(Bytes)
      /\ custom \in [Names -> Seq(Bytes)]
  BY TableType DEF TypeOK
<1>2. custom[filenames[i]] \in Seq(Bytes)
  BY <1>1
<1>3. buffers'[i] = <<>> /\ \A j \in 1..nfiles : j # i => buffers'[j] = buffers[j]
  BY SeqWithOneReplaced DEF Flush, TypeOK
<1>4. streams[i] \o data \in Seq(Bytes)
  BY <1>1, ConcatProperties
<1>5. \A j \in 1..nfiles : j # i => streams'[j] = streams[j]
  BY <1>4, SeqWithOneReplaced DEF Flush, TypeOK
<1>6. WriteToFile => streams'[i] = streams[i] \o data
  <2>1. CASE data = <<>>
    <3>1. streams[i] \o <<>> = streams[i]
      BY <1>1, ConcatEmptySeq
    <3> QED
      BY <2>1, <3>1 DEF Flush
  <2>2. CASE data # <<>>
    <3>1. streams \in Seq(Seq(Bytes)) /\ i \in 1..Len(streams)
      BY DEF TypeOK
    <3>2. [streams EXCEPT ![i] = streams[i] \o data][i] = streams[i] \o data
      BY <1>4, <3>1, SeqWithOneReplaced
    <3> QED
      BY <2>2, <3>2 DEF Flush
  <2> QED
    BY <2>1, <2>2
<1>7. UseCustomWrite => custom'[filenames[i]] = custom[filenames[i]] \o data
  <2>1. CASE data = <<>>
    <3>1. custom[filenames[i]] \o <<>> = custom[filenames[i]]
      BY <1>2, ConcatEmptySeq
    <3> QED
      BY <2>1, <3>1 DEF Flush
  <2>2. CASE data # <<>>
    BY <1>1, <2>2 DEF Flush
  <2> QED
    BY <2>1, <2>2
<1>8. \A h \in Names : h # filenames[i] => custom'[h] = custom[h]
  BY <1>1 DEF Flush
<1>9. \A j \in 1..nfiles : j # i => /\ filenames[j] # filenames[i]
                                   /\ filenames[j] \in Names
  BY TableType DEF OpenedOnce
<1> QED
  BY <1>3, <1>5, <1>6, <1>7, <1>8, <1>9

\* A step that leaves the table's names and the history alone keeps the sinks
\* complete if it does so for file k and does not touch the other files.
LEMMA OneFile ==
  ASSUME TypeOK, WriterInv, NEW k \in 1..nfiles,
         UNCHANGED <<filenames, written>>,
         \A j \in 1..nfiles : j # k =>
            /\ buffers'[j] = buffers[j] /\ streams'[j] = streams[j]
            /\ custom'[filenames[j]] = custom[filenames[j]]
            /\ Pending(filenames[j])' = Pending(filenames[j]),
         \A h \in Names : ~IsOpen(h) => custom'[h] = custom[h],
         UseCustomWrite =>
            Cat(Cat(custom'[filenames[k]], buffers'[k]), Pending(filenames[k])')
              = written[filenames[k]],
         WriteToFile =>
            Cat(Cat(streams'[k], buffers'[k]), Pending(filenames[k])')
              = written[filenames[k]]
  PROVE  OpenedOnce' /\ CustomConserved' /\ StreamConserved'
<1>1. nfiles' = nfiles /\ \A h : IsOpen(h)' <=> IsOpen(h)
  BY DEF nfiles, IsOpen
<1>2. OpenedOnce'
  BY <1>1 DEF WriterInv, OpenedOnce
<1>3. CustomConserved'
  BY <1>1 DEF WriterInv, CustomConserved, Cat
<1>4. StreamConserved'
  BY <1>1 DEF WriterInv, StreamConserved, Cat
<1> QED
  BY <1>2, <1>3, <1>4

LEMMA CopyChunkInv ==
  ASSUME TypeOK, WriterInv, CopyChunk
  PROVE  WriterInv'
<1>0. PICK i \in 1..nfiles : i = lastBuffer
  BY ChunkSize DEF CopyChunk, BytesToWrite, IsFull, WriterInv
<1> DEFINE held == buffers[i]
           n == Smaller(Len(job.rest), BufferSize - Len(held))
           head == SubSeq(job.rest, 1, n)
           tail == SubSeq(job.rest, n + 1, Len(job.rest))
           data == held \o head
<1>1. /\ pc = "copying" /\ pc' = "copying" /\ job.rest # <<>>
      /\ job' = [job EXCEPT !.rest = tail]
      /\ UNCHANGED <<filenames, lastname, lastBuffer, lastfile, nfreed, written>>
      /\ \/ /\ Len(data) >= BufferSize
            /\ Flush(job.name, i, lastfile, data)
         \/ /\ Len(data) < BufferSize
            /\ buffers' = [buffers EXCEPT ![i] = data]
            /\ UNCHANGED <<custom, streams>>
  <2>2. job.rest \in Seq(Bytes)
    BY DEF TypeOK, Jobs
  <2>3. n \in 1..Len(job.rest)
    BY <1>0, ChunkSize DEF CopyChunk, BytesToWrite, IsFull, WriterInv
  <2>4. data \in Seq(Bytes)
    BY <2>2, <2>3, SplitSeq, TableType, ConcatProperties
  <2>5. Len(data) \in Nat
    BY <2>4
  <2>6. ~(Len(data) >= BufferSize) <=> Len(data) < BufferSize
    <3> HIDE DEF data
    <3> QED
      BY <2>5, WriterAssumption
  <2> QED
    BY <1>0, <2>6 DEF CopyChunk, BytesToWrite, IsFull
<1>2. /\ n \in 1..Len(job.rest) /\ Len(held) + n <= BufferSize
      /\ i \in 1..nfiles /\ lastfile = i /\ filenames[i] = job.name
  BY <1>0, <1>1, ChunkSize DEF WriterInv
<1>3. /\ job.rest \in Seq(Bytes) /\ job \in Jobs
      /\ held \in Seq(Bytes) /\ streams[i] \in Seq(Bytes)
      /\ custom[filenames[i]] \in Seq(Bytes) /\ Len(held) \in Nat
  <2>1. job.rest \in Seq(Bytes) /\ job \in Jobs
    BY DEF TypeOK, Jobs
  <2>2. held \in Seq(Bytes) /\ streams[i] \in Seq(Bytes) /\ filenames[i] \in Names
    BY TableType
  <2>3. custom[filenames[i]] \in Seq(Bytes)
    BY <2>2 DEF TypeOK
  <2> QED
    BY <2>1, <2>2, <2>3
<1>4. /\ head \in Seq(Bytes) /\ tail \in Seq(Bytes) /\ Len(head) = n
      /\ head \o tail = job.rest
  <2>1. n \in 0..Len(job.rest)
    BY <1>2
  <2> HIDE DEF n
  <2> QED
    BY <1>3, <2>1, SplitSeq
<1>5. data \in Seq(Bytes) /\ Len(data) = Len(held) + n
  BY <1>3, <1>4, ConcatProperties
<1>6. /\ job'.name = job.name /\ job'.rest = tail
  BY <1>1, <1>3 DEF Jobs
<1>7. /\ Pending(filenames[i]) = job.rest
      /\ Pending(filenames[i])' = tail
      /\ \A j \in 1..nfiles : j # i => /\ Pending(filenames[j]) = <<>>
                                   /\ Pending(filenames[j])' = <<>>
  BY <1>1, <1>2, <1>6 DEF Pending, WriterInv, OpenedOnce
<1> HIDE DEF held, n, head, tail, data
<1>8. /\ \A j \in 1..nfiles : j # i => /\ buffers'[j] = buffers[j]
                                    /\ streams'[j] = streams[j]
                                    /\ custom'[filenames[j]]
                                         = custom[filenames[j]]
      /\ \A h \in Names : h # filenames[i] => custom'[h] = custom[h]
      /\ Len(buffers'[i]) < BufferSize
      /\ UseCustomWrite =>
           custom'[filenames[i]] \o buffers'[i] = custom[filenames[i]] \o data
      /\ WriteToFile => streams'[i] \o buffers'[i] = streams[i] \o data
  <2>1. CASE Flush(filenames[i], i, i, data)
    <3>1. /\ custom[filenames[i]] \o data \in Seq(Bytes)
          /\ streams[i] \o data \in Seq(Bytes)
      BY <1>3, <1>5, ConcatProperties
    <3>2. /\ (custom[filenames[i]] \o data) \o <<>> = custom[filenames[i]] \o data
          /\ (streams[i] \o data) \o <<>> = streams[i] \o data
      BY <3>1, ConcatEmptySeq
    <3>3. OpenedOnce
      BY DEF WriterInv
    <3>4. Len(<<>>) < BufferSize
      BY WriterAssumption
    <3> QED
      BY <1>2, <1>5, <2>1, <3>2, <3>3, <3>4, FlushSinks
  <2>2. CASE /\ Len(data) < BufferSize
             /\ buffers' = [buffers EXCEPT ![i] = data]
             /\ UNCHANGED <<custom, streams>>
    <3>1. /\ buffers'[i] = data
          /\ \A j \in 1..nfiles : j # i => buffers'[j] = buffers[j]
      BY <1>2, <1>5, <2>2, SeqWithOneReplaced DEF TypeOK
    <3> QED
      BY <2>2, <3>1
  <2> QED
    BY <1>1, <1>2, <2>1, <2>2
<1>9. OpenedOnce' /\ CustomConserved' /\ StreamConserved'
  <2>1. /\ custom[filenames[i]] \o held \o (head \o tail)
             = (custom[filenames[i]] \o data) \o tail
        /\ streams[i] \o held \o (head \o tail) = (streams[i] \o data) \o tail
    <3>0. /\ held \in Seq(Bytes) /\ head \in Seq(Bytes) /\ tail \in Seq(Bytes)
          /\ custom[filenames[i]] \in Seq(Bytes) /\ streams[i] \in Seq(Bytes)
      BY <1>3, <1>4
    <3>1. custom[filenames[i]] \o held \o (head \o tail)
            = (custom[filenames[i]] \o (held \o head)) \o tail
      <4>1. Cat(Cat(custom[filenames[i]], held), Cat(head, tail))
              = Cat(Cat(custom[filenames[i]], Cat(held, head)), tail)
        BY <3>0, Regroup
      <4> QED
        BY <4>1, Zenon DEF Cat
    <3>2. streams[i] \o held \o (head \o tail)
            = (streams[i] \o (held \o head)) \o tail
      <4>1. Cat(Cat(streams[i], held), Cat(head, tail))
              = Cat(Cat(streams[i], Cat(held, head)), tail)
        BY <3>0, Regroup
      <4> QED
        BY <4>1, Zenon DEF Cat
    <3> QED
      BY <3>1, <3>2 DEF data
  <2>2. UseCustomWrite =>
          Cat(Cat(custom'[filenames[i]], buffers'[i]), Pending(filenames[i])')
            = written[filenames[i]]
    <3>1. UseCustomWrite => custom[filenames[i]] \o held \o Pending(filenames[i])
                              = written[filenames[i]]
      BY <1>2 DEF WriterInv, CustomConserved, held
    <3> QED
      BY <1>4, <1>7, <1>8, <2>1, <3>1 DEF Cat
  <2>3. WriteToFile =>
          Cat(Cat(streams'[i], buffers'[i]), Pending(filenames[i])')
            = written[filenames[i]]
    <3>1. WriteToFile => streams[i] \o held \o Pending(filenames[i])
                           = written[filenames[i]]
      BY <1>2 DEF WriterInv, StreamConserved, held
    <3> QED
      BY <1>4, <1>7, <1>8, <2>1, <3>1 DEF Cat
  <2>4. \A h \in Names : ~IsOpen(h) => custom'[h] = custom[h]
    BY <1>2, <1>8 DEF IsOpen
  <2>5. \A j \in 1..nfiles : j # i =>
          /\ buffers'[j] = buffers[j] /\ streams'[j] = streams[j]
          /\ custom'[filenames[j]] = custom[filenames[j]]
          /\ Pending(filenames[j])' = Pending(filenames[j])
    BY <1>7, <1>8
  <2>6. UNCHANGED <<filenames, written>> /\ i \in 1..nfiles
    BY <1>1, <1>2
  <2> QED
    BY <2>2, <2>3, <2>4, <2>5, <2>6, OneFile DEF Pending
<1>10. RoomLeft'
  BY <1>1, <1>8 DEF WriterInv, RoomLeft, nfiles
<1>11. CacheCoherent'
  BY <1>1, <1>6 DEF WriterInv, CacheCoherent, nfiles
<1>12. Drained'
  BY <1>1 DEF WriterInv, Drained
<1> QED
  BY <1>9, <1>10, <1>11, <1>12 DEF WriterInv

\* A step that moves no byte.
LEMMA NothingMoves ==
  ASSUME TypeOK, WriterInv,
         UNCHANGED <<filenames, buffers, streams, custom, written>>,
         \A j \in 1..nfiles : Pending(filenames[j])' = Pending(filenames[j])
  PROVE  OpenedOnce' /\ RoomLeft' /\ CustomConserved' /\ StreamConserved'
<1>1. nfiles' = nfiles /\ \A h : IsOpen(h)' <=> IsOpen(h)
  BY DEF nfiles, IsOpen
<1>2. OpenedOnce' /\ RoomLeft'
  BY <1>1 DEF WriterInv, OpenedOnce, RoomLeft
<1>3. CustomConserved'
  BY <1>1 DEF WriterInv, CustomConserved
<1>4. StreamConserved'
  BY <1>1 DEF WriterInv, StreamConserved
<1> QED
  BY <1>2, <1>3, <1>4

LEMMA FreeFileInv ==
  ASSUME TypeOK, WriterInv, FreeFile
  PROVE  WriterInv'
<1>0. PICK i \in 1..nfiles : i = nfreed + 1
  BY DEF FreeFile, MoreToFree, TypeOK, nfiles
<1> DEFINE held == buffers[i]
<1>1. /\ pc = "freeing" /\ nfreed' = i
      /\ Flush(filenames[i], i, i, held)
      /\ UNCHANGED <<filenames, lastname, lastBuffer, lastfile, job, pc, written>>
  BY <1>0 DEF FreeFile, MoreToFree
<1>2. /\ held \in Seq(Bytes) /\ streams[i] \in Seq(Bytes)
      /\ filenames[i] \in Names /\ custom[filenames[i]] \in Seq(Bytes)
  BY TableType DEF TypeOK
<1>3. \A j : Pending(filenames[j]) = <<>> /\ Pending(filenames[j])' = <<>>
  BY <1>1 DEF Pending
<1> HIDE DEF held
<1>4. OpenedOnce
  BY DEF WriterInv
<1>5. /\ buffers'[i] = <<>>
      /\ \A j \in 1..nfiles : j # i => /\ buffers'[j] = buffers[j]
                                    /\ streams'[j] = streams[j]
                                    /\ custom'[filenames[j]]
                                         = custom[filenames[j]]
      /\ UseCustomWrite => custom'[filenames[i]] = Cat(custom[filenames[i]], held)
      /\ WriteToFile => streams'[i] = Cat(streams[i], held)
      /\ \A h \in Names : h # filenames[i] => custom'[h] = custom[h]
  BY <1>1, <1>2, <1>4, FlushSinks DEF Cat
<1>6. \A s \in Seq(Bytes) : Cat(s, <<>>) = s
  BY ConcatEmptySeq DEF Cat
<1>7. /\ Cat(custom[filenames[i]], held) \in Seq(Bytes)
      /\ Cat(streams[i], held) \in Seq(Bytes)
  BY <1>2, ConcatProperties DEF Cat
<1>8. /\ UseCustomWrite =>
           Cat(Cat(custom[filenames[i]], held), <<>>) = written[filenames[i]]
      /\ WriteToFile => Cat(Cat(streams[i], held), <<>>) = written[filenames[i]]
  BY <1>3 DEF WriterInv, CustomConserved, StreamConserved, held, Cat
<1>9. /\ UseCustomWrite =>
           Cat(Cat(custom'[filenames[i]], buffers'[i]), Pending(filenames[i])')
             = written[filenames[i]]
      /\ WriteToFile =>
           Cat(Cat(streams'[i], buffers'[i]), Pending(filenames[i])')
             = written[filenames[i]]
  BY <1>3, <1>5, <1>6, <1>7, <1>8
<1>10. \A h \in Names : ~IsOpen(h) => custom'[h] = custom[h]
  BY <1>5 DEF IsOpen
<1>11. \A j \in 1..nfiles : j # i =>
          /\ buffers'[j] = buffers[j] /\ streams'[j] = streams[j]
          /\ custom'[filenames[j]] = custom[filenames[j]]
          /\ Pending(filenames[j])' = Pending(filenames[j])
  BY <1>3, <1>5
<1>12. UNCHANGED <<filenames, written>>
  BY <1>1
<1>13. OpenedOnce' /\ CustomConserved' /\ StreamConserved'
  BY <1>9, <1>10, <1>11, <1>12, OneFile DEF Pending
<1>14. RoomLeft'
  <2>1. Len(<<>>) < BufferSize
    BY WriterAssumption
  <2> QED
    BY <1>1, <1>5, <2>1 DEF WriterInv, RoomLeft, nfiles
<1>15. CacheCoherent'
  BY <1>1 DEF WriterInv, CacheCoherent, nfiles
<1>16. Drained'
  <2>1. \A j \in 1..nfreed : j \in 1..nfiles /\ j # i
    BY <1>0 DEF TypeOK
  <2>2. \A j \in 1..i : j = i \/ j \in 1..nfreed
    BY <1>0 DEF TypeOK, nfiles
  <2> QED
    BY <1>1, <1>5, <2>1, <2>2 DEF WriterInv, Drained
<1> QED
  BY <1>13, <1>14, <1>15, <1>16 DEF WriterInv

LEMMA NextInv == TypeOK /\ WriterInv /\ [Next]_vars => WriterInv'
<1> SUFFICES ASSUME TypeOK, WriterInv, [Next]_vars PROVE WriterInv'
  OBVIOUS
<1>1. ASSUME NEW f \in Names, NEW s \in Contents, WriteN(f, s) PROVE WriterInv'
  BY <1>1, WriteNInv
<1>2. CASE EndLine
  <2>1. \A j \in 1..nfiles : Pending(filenames[j])' = Pending(filenames[j])
    BY <1>2 DEF EndLine, Pending
  <2>2. OpenedOnce' /\ RoomLeft' /\ CustomConserved' /\ StreamConserved'
    BY <1>2, <2>1, NothingMoves DEF EndLine
  <2>3. CacheCoherent' /\ Drained'
    BY <1>2 DEF EndLine, WriterInv, CacheCoherent, Drained, nfiles
  <2> QED
    BY <2>2, <2>3 DEF WriterInv
<1>3. CASE BeginFree
  <2>1. \A j \in 1..nfiles : Pending(filenames[j])' = Pending(filenames[j])
    BY <1>3 DEF BeginFree, Pending
  <2>2. OpenedOnce' /\ RoomLeft' /\ CustomConserved' /\ StreamConserved'
    BY <1>3, <2>1, NothingMoves DEF BeginFree
  <2>3. CacheCoherent' /\ Drained'
    BY <1>3 DEF BeginFree, WriterInv, CacheCoherent, Drained, nfiles
  <2> QED
    BY <2>2, <2>3 DEF WriterInv
<1>4. CASE CopyChunk
  BY <1>4, CopyChunkInv
<1>5. CASE EndWrite
  <2>1. \A j \in 1..nfiles : Pending(filenames[j])' = Pending(filenames[j])
    BY <1>5 DEF EndWrite, Pending
  <2>2. OpenedOnce' /\ RoomLeft' /\ CustomConserved' /\ StreamConserved'
    BY <1>5, <2>1, NothingMoves DEF EndWrite
  <2>3. CacheCoherent' /\ Drained'
    BY <1>5 DEF EndWrite, WriterInv, CacheCoherent, Drained, nfiles
  <2> QED
    BY <2>2, <2>3 DEF WriterInv
<1>6. CASE FreeFile
  BY <1>6, FreeFileInv
<1>7. CASE EndFree
  <2>1. \A j \in 1..nfiles : Pending(filenames[j])' = Pending(filenames[j])
    BY <1>7 DEF EndFree, Pending
  <2>2. OpenedOnce' /\ RoomLeft' /\ CustomConserved' /\ StreamConserved'
    BY <1>7, <2>1, NothingMoves DEF EndFree
  <2>3. nfreed = nfiles
    BY <1>7 DEF EndFree, MoreToFree, TypeOK, nfiles
  <2>4. CacheCoherent' /\ Drained'
    BY <1>7, <2>3 DEF EndFree, WriterInv, CacheCoherent, Drained, nfiles
  <2> QED
    BY <2>2, <2>4 DEF WriterInv
<1>8. CASE UNCHANGED vars
  <2>1. \A j \in 1..nfiles : Pending(filenames[j])' = Pending(filenames[j])
    BY <1>8 DEF vars, Pending
  <2>2. OpenedOnce' /\ RoomLeft' /\ CustomConserved' /\ StreamConserved'
    BY <1>8, <2>1, NothingMoves DEF vars
  <2>3. CacheCoherent' /\ Drained'
    BY <1>8 DEF vars, WriterInv, CacheCoherent, Drained, nfiles
  <2> QED
    BY <2>2, <2>3 DEF WriterInv
<1> QED
  BY <1>1, <1>2, <1>3, <1>4, <1>5, <1>6, <1>7, <1>8 DEF Next, Steps

-----------------------------------------------------------------------------
(* The theorems.                                                            *)

\* The table, the cache, the buffers and the sinks keep their types, and the
\* three arrays of the table keep one length (getFile grows all of them).
THEOREM TypeCorrect == Spec => []TypeOK
<1>1. Init => TypeOK /\ WriterInv
  BY InitType, InitInv
<1>2. TypeOK /\ WriterInv /\ [Next]_vars => (TypeOK /\ WriterInv)'
  BY NextType, NextInv
<1> QED
  BY <1>1, <1>2, PTL DEF Spec

\* However writes are cut into chunks and spread over files, no byte is lost,
\* repeated, reordered or sent to another file (bufferWrite, bufferFlush).
THEOREM Conservation == Spec => []WriterInv
<1>1. Init => TypeOK /\ WriterInv
  BY InitType, InitInv
<1>2. TypeOK /\ WriterInv /\ [Next]_vars => (TypeOK /\ WriterInv)'
  BY NextType, NextInv
<1> QED
  BY <1>1, <1>2, PTL DEF Spec

-----------------------------------------------------------------------------
(* For the write callback, the context implements a log per file.           *)

LEMMA PrefixOfCat ==
  ASSUME NEW s \in Seq(Bytes), NEW t \in Seq(Bytes)
  PROVE  CustomLog!Prefix(s, s \o t)
BY ConcatProperties DEF CustomLog!Prefix

\* What the callback has got of an open file is a prefix of the file.
CallbackPrefix == \A i \in 1..nfiles :
  CustomLog!Prefix(custom[filenames[i]], written[filenames[i]])

LEMMA CallbackHasPrefix ==
  UseCustomWrite /\ TypeOK /\ WriterInv => CallbackPrefix
<1> SUFFICES ASSUME UseCustomWrite, TypeOK, WriterInv, NEW i \in 1..nfiles
             PROVE  CustomLog!Prefix(custom[filenames[i]], written[filenames[i]])
  BY DEF CallbackPrefix
<1> DEFINE f == filenames[i]
           rest == Cat(buffers[i], Pending(f))
<1>1. /\ f \in Names /\ custom[f] \in Seq(Bytes)
      /\ buffers[i] \in Seq(Bytes) /\ Pending(f) \in Seq(Bytes)
  <2>1. f \in Names /\ buffers[i] \in Seq(Bytes)
    BY TableType
  <2>2. custom[f] \in Seq(Bytes)
    BY <2>1 DEF TypeOK
  <2>3. job.rest \in Seq(Bytes) /\ <<>> \in Seq(Bytes)
    BY DEF TypeOK, Jobs
  <2> QED
    BY <2>1, <2>2, <2>3 DEF Pending
<1>2. rest \in Seq(Bytes)
  BY <1>1, ConcatProperties DEF Cat
<1>3. Cat(custom[f], rest) = Cat(Cat(custom[f], buffers[i]), Pending(f))
  BY <1>1, CatAssociative
<1>4. Cat(Cat(custom[f], buffers[i]), Pending(f)) = written[f]
  BY DEF WriterInv, CustomConserved, Cat
<1> HIDE DEF rest
<1>5. CustomLog!Prefix(custom[f], Cat(custom[f], rest))
  BY <1>1, <1>2, PrefixOfCat DEF Cat
<1> QED
  BY <1>3, <1>4, <1>5

\* A flush of buffer i delivers to the file of that buffer, or nothing.
LEMMA FlushDelivers ==
  ASSUME UseCustomWrite, TypeOK, TypeOK', WriterInv', pc # "freed", pc' # "freed",
         NEW i \in 1..nfiles, NEW data \in Seq(Bytes), NEW j,
         Flush(filenames[i], i, j, data), UNCHANGED <<filenames, written>>
  PROVE  CustomLog!Deliver(filenames[i]) \/ UNCHANGED CustomLog!logVars
<1> DEFINE f == filenames[i]
<1>1. f \in Names /\ custom[f] \in Seq(Bytes) /\ custom \in [Names -> Seq(Bytes)]
  BY TableType DEF TypeOK
<1>2. CASE data = <<>>
  BY <1>2 DEF Flush, CustomLog!logVars
<1>3. CASE data # <<>>
  <2>1. custom' = [custom EXCEPT ![f] = custom[f] \o data]
    BY <1>3 DEF Flush
  <2>2. custom'[f] = custom[f] \o data
    BY <1>1, <2>1
  <2>3. custom' = [custom EXCEPT ![f] = custom'[f]]
    BY <2>1, <2>2, Zenon
  <2>4. CustomLog!Prefix(custom[f], custom'[f])
    BY <1>1, <2>2, PrefixOfCat
  <2>5. CustomLog!Prefix(custom'[f], written[f])
    <3>1. i \in 1..Len(filenames')
      BY DEF nfiles
    <3>2. CallbackPrefix'
      BY CallbackHasPrefix, PTL
    <3> QED
      BY <3>1, <3>2 DEF CallbackPrefix, nfiles
  <2> QED
    BY <2>3, <2>4, <2>5 DEF CustomLog!Deliver, CustomLog!Grows
<1> QED
  BY <1>2, <1>3

LEMMA InitRefines == Init => CustomLog!LogInit
BY DEF Init, CustomLog!LogInit

LEMMA NextRefines ==
  ASSUME UseCustomWrite, TypeOK, WriterInv, TypeOK', WriterInv', [Next]_vars
  PROVE  [CustomLog!LogNext]_(CustomLog!logVars)
<1> USE DEF CustomLog!logVars
<1>1. ASSUME NEW f \in Names, NEW s \in Contents, WriteN(f, s)
      PROVE  CustomLog!Accept(f)
  <2>1. /\ s \in Seq(Bytes) /\ written[f] \in Seq(Bytes)
        /\ written \in [Names -> Seq(Bytes)]
    BY WriterAssumption DEF TypeOK
  <2>2. written' = [written EXCEPT ![f] = written[f] \o s]
    BY <1>1 DEF WriteN
  <2>3. written'[f] = written[f] \o s
    BY <2>1, <2>2
  <2>4. written' = [written EXCEPT ![f] = written'[f]]
    BY <2>2, <2>3, Zenon
  <2>5. CustomLog!Prefix(written[f], written'[f])
    BY <2>1, <2>3, PrefixOfCat
  <2> QED
    BY <1>1, <2>4, <2>5 DEF WriteN, CustomLog!Accept, CustomLog!Grows
<1>2. CASE CopyChunk
  <2>0. PICK i \in 1..nfiles : i = lastBuffer /\ filenames[i] = job.name
    BY <1>2, ChunkSize DEF CopyChunk, BytesToWrite, IsFull, WriterInv
  <2> DEFINE n == Smaller(Len(job.rest), BufferSize - Len(buffers[i]))
             data == buffers[i] \o SubSeq(job.rest, 1, n)
  <2>1. n \in 0..Len(job.rest) /\ job.rest \in Seq(Bytes)
    <3>1. job.rest \in Seq(Bytes)
      BY DEF TypeOK, Jobs
    <3>2. n \in 1..Len(job.rest)
      BY <1>2, <2>0, ChunkSize DEF CopyChunk, BytesToWrite, IsFull, WriterInv
    <3> QED
      BY <3>1, <3>2
  <2>2. data \in Seq(Bytes)
    <3>1. SubSeq(job.rest, 1, n) \in Seq(Bytes)
      BY <2>1, SplitSeq
    <3> QED
      BY <3>1, TableType, ConcatProperties
  <2>3. CASE Flush(job.name, i, lastfile, data)
    <3> HIDE DEF data
    <3>1. /\ pc # "freed" /\ pc' # "freed" /\ UNCHANGED <<filenames, written>>
          /\ filenames[i] \in Names
      BY <1>2, TableType DEF CopyChunk, BytesToWrite, IsFull
    <3>2. Flush(filenames[i], i, lastfile, data)
      BY <2>0, <2>3
    <3>3. \A j : Flush(filenames[i], i, j, data) =>
             CustomLog!Deliver(filenames[i]) \/ UNCHANGED CustomLog!logVars
      BY <2>2, <3>1, FlushDelivers
    <3> QED
      BY <3>1, <3>2, <3>3 DEF CustomLog!LogNext
  <2>4. CASE UNCHANGED custom
    BY <1>2, <2>4 DEF CopyChunk, BytesToWrite, IsFull
  <2> QED
    BY <1>2, <2>0, <2>3, <2>4 DEF CopyChunk, BytesToWrite, IsFull
<1>3. CASE FreeFile
  <2>0. PICK i \in 1..nfiles : i = nfreed'
    BY <1>3 DEF FreeFile, MoreToFree, TypeOK, nfiles
  <2>1. /\ Flush(filenames[i], i, i, buffers[i]) /\ buffers[i] \in Seq(Bytes)
        /\ pc # "freed" /\ pc' # "freed" /\ UNCHANGED <<filenames, written>>
        /\ filenames[i] \in Names
    BY <1>3, <2>0, TableType DEF FreeFile, MoreToFree
  <2>2. CustomLog!Deliver(filenames[i]) \/ UNCHANGED CustomLog!logVars
    BY <2>1, FlushDelivers
  <2> QED
    BY <2>1, <2>2 DEF CustomLog!LogNext
<1>4. CASE EndFree
  <2>0. nfreed = nfiles
    BY <1>4 DEF EndFree, MoreToFree, TypeOK, nfiles
  <2>1. pc = "freeing" /\ pc' = "freed" /\ UNCHANGED <<custom, written>>
    BY <1>4 DEF EndFree
  <2>2. \A f \in Names : custom[f] = written[f]
    <3>1. ASSUME NEW i \in 1..nfiles PROVE custom[filenames[i]] = written[filenames[i]]
      <4>1. buffers[i] = <<>> /\ Pending(filenames[i]) = <<>>
        BY <1>4, <2>1, <2>0 DEF WriterInv, Drained, Pending
      <4>2. custom[filenames[i]] \in Seq(Bytes)
        BY TableType DEF TypeOK
      <4>3. (custom[filenames[i]] \o <<>>) \o <<>> = written[filenames[i]]
        BY <4>1 DEF WriterInv, CustomConserved
      <4>4. (custom[filenames[i]] \o <<>>) \o <<>> = custom[filenames[i]]
        BY <4>2, ConcatEmptySeq
      <4> QED
        BY <4>3, <4>4, Zenon
    <3>2. ASSUME NEW f \in Names, ~IsOpen(f) PROVE custom[f] = written[f]
      BY <3>2 DEF WriterInv, CustomConserved
    <3> QED
      BY <3>1, <3>2 DEF IsOpen
  <2>3. custom = written
    BY <2>2 DEF TypeOK
  <2> QED
    BY <2>1, <2>3 DEF CustomLog!LogNext, CustomLog!Close
<1>5. CASE EndLine \/ BeginFree \/ EndWrite \/ UNCHANGED vars
  BY <1>5 DEF EndLine, BeginFree, EndWrite, vars
<1> QED
  BY <1>1, <1>2, <1>3, <1>4, <1>5 DEF Next, Steps, CustomLog!LogNext

\* What reaches the write callback under a name is, at every moment, a prefix of
\* what was written to that file, it only grows at its end, and it is the whole
\* file once the context is freed.
THEOREM CallbackRefinement ==
  ASSUME UseCustomWrite PROVE Spec => ImplementsCustomLog
<1>1. Init => CustomLog!LogInit
  BY InitRefines
<1>2. TypeOK /\ WriterInv /\ TypeOK' /\ WriterInv' /\ [Next]_vars
        => [CustomLog!LogNext]_(CustomLog!logVars)
  BY NextRefines
<1> QED
  BY <1>1, <1>2, TypeCorrect, Conservation, PTL
     DEF Spec, ImplementsCustomLog, CustomLog!LogSpec

-----------------------------------------------------------------------------
(* For the streams, the context implements a log per file.                  *)

\* What the streams have got, by the name of the file.
disk == [f \in Names |-> StreamOf(f)]

StreamsFound == \A i \in 1..nfiles : IsOpen(filenames[i]) /\ StreamOf(filenames[i]) = streams[i]

LEMMA StreamAt == TypeOK /\ OpenedOnce => StreamsFound
BY DEF StreamsFound, StreamOf, IsOpen, OpenedOnce

LEMMA StreamOfNone == ASSUME NEW f, ~IsOpen(f) PROVE StreamOf(f) = <<>>
BY DEF StreamOf

LEMMA DiskType == TypeOK /\ OpenedOnce => disk \in [Names -> Seq(Bytes)]
<1> SUFFICES ASSUME TypeOK, OpenedOnce, NEW f \in Names PROVE StreamOf(f) \in Seq(Bytes)
  BY DEF disk
<1>1. CASE ~IsOpen(f)
  <2>1. StreamOf(f) = <<>>
    BY <1>1, StreamOfNone
  <2> QED
    BY <2>1
<1>2. CASE IsOpen(f)
  <2>1. PICK i \in 1..nfiles : filenames[i] = f
    BY <1>2 DEF IsOpen
  <2> QED
    BY <2>1, StreamAt, TableType DEF StreamsFound
<1> QED
  BY <1>1, <1>2

\* What the stream of an open file has got is a prefix of the file.
StreamPrefix == \A i \in 1..nfiles :
  DiskLog!Prefix(streams[i], written[filenames[i]])

LEMMA PrefixOnDisk ==
  ASSUME NEW s \in Seq(Bytes), NEW t \in Seq(Bytes)
  PROVE  DiskLog!Prefix(s, s \o t)
BY ConcatProperties DEF DiskLog!Prefix

LEMMA StreamHasPrefix == WriteToFile /\ TypeOK /\ WriterInv => StreamPrefix
<1> SUFFICES ASSUME WriteToFile, TypeOK, WriterInv, NEW i \in 1..nfiles
             PROVE  DiskLog!Prefix(streams[i], written[filenames[i]])
  BY DEF StreamPrefix
<1> DEFINE f == filenames[i]
           rest == Cat(buffers[i], Pending(f))
<1>1. /\ streams[i] \in Seq(Bytes)
      /\ buffers[i] \in Seq(Bytes) /\ Pending(f) \in Seq(Bytes)
  BY TableType DEF TypeOK, Pending, Jobs
<1>2. rest \in Seq(Bytes)
  BY <1>1, ConcatProperties DEF Cat
<1>3. Cat(streams[i], rest) = Cat(Cat(streams[i], buffers[i]), Pending(f))
  BY <1>1, CatAssociative
<1>4. Cat(Cat(streams[i], buffers[i]), Pending(f)) = written[f]
  BY DEF WriterInv, StreamConserved, Cat
<1> HIDE DEF rest
<1>5. DiskLog!Prefix(streams[i], Cat(streams[i], rest))
  BY <1>1, <1>2, PrefixOnDisk DEF Cat
<1> QED
  BY <1>3, <1>4, <1>5

\* Opening a file leaves all that the streams have got as it is.
LEMMA OpeningKeepsDisk ==
  ASSUME TypeOK, TypeOK', OpenedOnce, OpenedOnce', NEW f \in Names, GetFile(f)
  PROVE  disk' = disk
<1>1. CASE UNCHANGED <<filenames, streams>>
  BY <1>1 DEF disk, StreamOf, IsOpen, nfiles
<1>2. CASE ~IsOpen(f) /\ filenames' = Append(filenames, f) /\ streams' = Append(streams, <<>>)
  <2> SUFFICES ASSUME NEW h \in Names PROVE StreamOf(h)' = StreamOf(h)
    BY DEF disk
  <2>1. /\ Len(filenames) \in Nat /\ nfiles' = nfiles + 1 /\ nfiles = Len(filenames)
        /\ \A i \in 1..nfiles : filenames'[i] = filenames[i] /\ streams'[i] = streams[i]
        /\ filenames'[nfiles + 1] = f /\ streams'[nfiles + 1] = <<>>
    <3>1. <<>> \in Seq(Bytes) /\ streams \in Seq(Seq(Bytes)) /\ Len(streams) = nfiles
      BY DEF TypeOK
    <3>2. /\ \A i \in 1..nfiles : streams'[i] = streams[i]
          /\ streams'[nfiles + 1] = <<>>
      BY <1>2, <3>1, AppendProperties
    <3>3. /\ Len(filenames) \in Nat /\ nfiles' = nfiles + 1 /\ nfiles = Len(filenames)
          /\ \A i \in 1..nfiles : filenames'[i] = filenames[i]
          /\ filenames'[nfiles + 1] = f
      BY <1>2, AppendProperties DEF TypeOK, nfiles
    <3> QED
      BY <3>2, <3>3
  <2>2. CASE IsOpen(h)
    <3>1. PICK i \in 1..nfiles : filenames[i] = h
      BY <2>2 DEF IsOpen
    <3>2. StreamOf(h) = streams[i]
      BY <3>1, StreamAt DEF StreamsFound
    <3>3. i \in 1..nfiles' /\ filenames'[i] = h
      BY <2>1, <3>1
    <3>4. StreamsFound'
      BY StreamAt, PTL
    <3> QED
      BY <2>1, <3>2, <3>3, <3>4 DEF StreamsFound
  <2>3. CASE ~IsOpen(h) /\ h # f
    <3>1. ~IsOpen(h)'
      BY <2>1, <2>3 DEF IsOpen
    <3> QED
      BY <2>3, <3>1 DEF StreamOf
  <2>4. CASE ~IsOpen(h) /\ h = f
    <3>1. StreamOf(h) = <<>>
      BY <2>4, StreamOfNone
    <3>2. StreamsFound'
      BY StreamAt, PTL
    <3>3. nfiles + 1 \in 1..nfiles'
      BY <2>1
    <3> QED
      BY <2>1, <2>4, <3>1, <3>2, <3>3 DEF StreamsFound
  <2> QED
    BY <2>2, <2>3, <2>4
<1> QED
  BY <1>1, <1>2 DEF GetFile

\* A flush of buffer i, to its own stream, delivers to its file, or nothing.
LEMMA FlushToDisk ==
  ASSUME WriteToFile, TypeOK, TypeOK', WriterInv, WriterInv', pc # "freed", pc' # "freed",
         NEW i \in 1..nfiles, NEW data \in Seq(Bytes),
         Flush(filenames[i], i, i, data), UNCHANGED <<filenames, written>>
  PROVE  DiskLog!Deliver(filenames[i]) \/ (disk' = disk /\ UNCHANGED <<written, pc = "freed">>)
<1> DEFINE f == filenames[i]
<1>0. OpenedOnce
  BY DEF WriterInv
<1>1. f \in Names /\ streams[i] \in Seq(Bytes) /\ disk \in [Names -> Seq(Bytes)]
  BY <1>0, TableType, DiskType
<1>2. CASE data = <<>>
  <2>1. streams' = streams
    BY <1>2 DEF Flush
  <2> QED
    BY <2>1 DEF disk, StreamOf, IsOpen, nfiles
<1>3. CASE data # <<>>
  <2>1. streams' = [streams EXCEPT ![i] = streams[i] \o data]
    BY <1>3 DEF Flush
  <2>2. i \in 1..Len(streams) /\ streams \in Seq(Seq(Bytes)) /\ streams[i] \o data \in Seq(Bytes)
    BY <1>1 DEF TypeOK
  <2>3. /\ streams'[i] = streams[i] \o data
        /\ \A k \in 1..Len(streams) : k # i => streams'[k] = streams[k]
    BY <2>1, <2>2, SeqWithOneReplaced
  <2>4. \A h \in Names : StreamOf(h)' = IF h = f THEN streams'[i] ELSE StreamOf(h)
    <3> SUFFICES ASSUME NEW h \in Names
                 PROVE  StreamOf(h)' = IF h = f THEN streams'[i] ELSE StreamOf(h)
      OBVIOUS
    <3>1. CASE ~IsOpen(h)
      <4>1. ~IsOpen(h)' /\ h # f
        BY <3>1 DEF IsOpen, nfiles
      <4> QED
        BY <3>1, <4>1 DEF StreamOf
    <3>2. CASE IsOpen(h)
      <4>1. PICK k \in 1..nfiles : filenames[k] = h
        BY <3>2 DEF IsOpen
      <4>2. StreamOf(h) = streams[k]
        BY <1>0, <4>1, StreamAt DEF StreamsFound
      <4>3. OpenedOnce'
        BY DEF WriterInv
      <4>30. StreamsFound'
        BY <4>3, StreamAt, PTL
      <4>4. StreamOf(h)' = streams'[k]
        BY <4>1, <4>30 DEF StreamsFound, nfiles
      <4>5. (k = i) <=> (h = f)
        BY <1>0, <4>1 DEF OpenedOnce
      <4>6. k # i => streams'[k] = streams[k]
        BY <2>3, <4>1 DEF TypeOK
      <4> QED
        BY <4>2, <4>4, <4>5, <4>6
    <3> QED
      BY <3>1, <3>2
  <2>5. disk' = [disk EXCEPT ![f] = streams'[i]] /\ disk'[f] = streams'[i]
    BY <1>1, <2>4 DEF disk
  <2>6. disk[f] = streams[i]
    BY <1>0, <1>1, StreamAt DEF disk, StreamsFound
  <2>7. DiskLog!Prefix(disk[f], disk'[f])
    BY <1>1, <2>3, <2>5, <2>6, PrefixOnDisk
  <2>8. DiskLog!Prefix(disk'[f], written[f])
    <3>1. i \in 1..nfiles'
      BY DEF nfiles
    <3>2. StreamPrefix'
      BY StreamHasPrefix, PTL
    <3> QED
      BY <2>5, <3>1, <3>2 DEF StreamPrefix
  <2>9. disk' = [disk EXCEPT ![f] = disk'[f]]
    BY <2>5
  <2> QED
    BY <2>7, <2>8, <2>9 DEF DiskLog!Deliver, DiskLog!Grows, disk
<1> QED
  BY <1>2, <1>3

LEMMA InitOnDisk == Init => DiskLog!LogInit
BY DEF Init, DiskLog!LogInit, StreamOf, IsOpen, nfiles

LEMMA NextOnDisk ==
  ASSUME WriteToFile, TypeOK, WriterInv, TypeOK', WriterInv', [Next]_vars
  PROVE  [DiskLog!LogNext]_(DiskLog!logVars)
<1>0. OpenedOnce /\ OpenedOnce'
  BY DEF WriterInv
<1>1. ASSUME NEW f \in Names, NEW s \in Contents, WriteN(f, s)
      PROVE  DiskLog!Accept(f)
  <2>1. /\ s \in Seq(Bytes) /\ written[f] \in Seq(Bytes)
        /\ written \in [Names -> Seq(Bytes)]
    BY WriterAssumption DEF TypeOK
  <2>2. written' = [written EXCEPT ![f] = written[f] \o s]
    BY <1>1 DEF WriteN
  <2>3. written'[f] = written[f] \o s
    BY <2>1, <2>2
  <2>4. written' = [written EXCEPT ![f] = written'[f]]
    BY <2>2, <2>3, Zenon
  <2>5. DiskLog!Prefix(written[f], written'[f])
    BY <2>1, <2>3, PrefixOnDisk
  <2>6. disk' = disk
    BY <1>0, <1>1, OpeningKeepsDisk DEF WriteN
  <2> QED
    BY <1>1, <2>4, <2>5, <2>6 DEF WriteN, DiskLog!Accept, DiskLog!Grows, disk
<1>2. CASE CopyChunk
  <2>0. PICK i \in 1..nfiles : i = lastBuffer /\ i = lastfile /\ filenames[i] = job.name
    BY <1>2, ChunkSize DEF CopyChunk, BytesToWrite, IsFull, WriterInv
  <2> DEFINE n == Smaller(Len(job.rest), BufferSize - Len(buffers[i]))
             data == buffers[i] \o SubSeq(job.rest, 1, n)
  <2>1. n \in 0..Len(job.rest) /\ job.rest \in Seq(Bytes)
    <3>1. job.rest \in Seq(Bytes)
      BY DEF TypeOK, Jobs
    <3>2. n \in 1..Len(job.rest)
      BY <1>2, <2>0, ChunkSize DEF CopyChunk, BytesToWrite, IsFull, WriterInv
    <3> QED
      BY <3>1, <3>2
  <2>2. data \in Seq(Bytes)
    <3>1. SubSeq(job.rest, 1, n) \in Seq(Bytes)
      BY <2>1, SplitSeq
    <3> QED
      BY <3>1, TableType, ConcatProperties
  <2>3. CASE Flush(job.name, i, i, data)
    <3> HIDE DEF data
    <3>1. /\ pc # "freed" /\ pc' # "freed" /\ UNCHANGED <<filenames, written>>
          /\ filenames[i] \in Names
      BY <1>2, TableType DEF CopyChunk, BytesToWrite, IsFull
    <3>2. Flush(filenames[i], i, i, data)
      BY <2>0, <2>3
    <3>3. DiskLog!Deliver(filenames[i]) \/ (disk' = disk /\ UNCHANGED <<written, pc = "freed">>)
      BY <2>2, <3>1, <3>2, FlushToDisk
    <3> QED
      BY <3>1, <3>3 DEF DiskLog!LogNext, DiskLog!logVars, disk
  <2>4. CASE UNCHANGED streams
    <3>1. UNCHANGED <<filenames, written>> /\ pc # "freed" /\ pc' # "freed"
      BY <1>2 DEF CopyChunk, BytesToWrite, IsFull
    <3> QED
      BY <2>4, <3>1 DEF DiskLog!logVars, StreamOf, IsOpen, nfiles
  <2> QED
    BY <1>2, <2>0, <2>3, <2>4 DEF CopyChunk, BytesToWrite, IsFull
<1>3. CASE FreeFile
  <2>0. PICK i \in 1..nfiles : i = nfreed'
    BY <1>3 DEF FreeFile, MoreToFree, TypeOK, nfiles
  <2>1. /\ Flush(filenames[i], i, i, buffers[i]) /\ buffers[i] \in Seq(Bytes)
        /\ pc # "freed" /\ pc' # "freed" /\ UNCHANGED <<filenames, written>>
        /\ filenames[i] \in Names
    BY <1>3, <2>0, TableType DEF FreeFile, MoreToFree
  <2>2. DiskLog!Deliver(filenames[i]) \/ (disk' = disk /\ UNCHANGED <<written, pc = "freed">>)
    BY <2>1, FlushToDisk
  <2> QED
    BY <2>1, <2>2 DEF DiskLog!LogNext, DiskLog!logVars, disk
<1>4. CASE EndFree
  <2>0. nfreed = nfiles
    BY <1>4 DEF EndFree, MoreToFree, TypeOK, nfiles
  <2>1. pc = "freeing" /\ pc' = "freed" /\ UNCHANGED <<filenames, streams, written>>
    BY <1>4 DEF EndFree
  <2>2. \A f \in Names : StreamOf(f) = written[f]
    <3>1. ASSUME NEW i \in 1..nfiles PROVE streams[i] = written[filenames[i]]
      <4>1. buffers[i] = <<>> /\ Pending(filenames[i]) = <<>>
        BY <1>4, <2>1, <2>0 DEF WriterInv, Drained, Pending
      <4>2. streams[i] \in Seq(Bytes)
        BY TableType
      <4>3. (streams[i] \o <<>>) \o <<>> = written[filenames[i]]
        BY <4>1 DEF WriterInv, StreamConserved
      <4>4. (streams[i] \o <<>>) \o <<>> = streams[i]
        BY <4>2, ConcatEmptySeq
      <4> QED
        BY <4>3, <4>4, Zenon
    <3>2. ASSUME NEW f \in Names, ~IsOpen(f) PROVE StreamOf(f) = written[f]
      BY <3>2, StreamOfNone DEF WriterInv, StreamConserved
    <3>3. ASSUME NEW i \in 1..nfiles PROVE StreamOf(filenames[i]) = written[filenames[i]]
      BY <1>0, <3>1, StreamAt DEF StreamsFound
    <3> QED
      BY <3>2, <3>3 DEF IsOpen
  <2>3. disk = written
    BY <2>2 DEF TypeOK, disk
  <2>4. disk' = disk
    BY <2>1 DEF disk, StreamOf, IsOpen, nfiles
  <2> QED
    BY <2>1, <2>3, <2>4 DEF DiskLog!LogNext, DiskLog!Close, disk
<1>5. CASE EndLine \/ BeginFree \/ EndWrite \/ UNCHANGED vars
  <2>1. UNCHANGED <<filenames, streams, written, pc = "freed">>
    BY <1>5 DEF EndLine, BeginFree, EndWrite, vars
  <2> QED
    BY <2>1 DEF DiskLog!logVars, StreamOf, IsOpen, nfiles
<1> QED
  BY <1>1, <1>2, <1>3, <1>4, <1>5 DEF Next, Steps, DiskLog!LogNext

\* What the streams have been given of a file is, at every moment, a prefix of
\* what was written to it, it only grows at its end, and it is the whole file
\* once the context is freed (bufferFlush, freeWriteContext).
THEOREM DiskRefinement ==
  ASSUME WriteToFile PROVE Spec => ImplementsDiskLog
<1>1. Init => DiskLog!LogInit
  BY InitOnDisk
<1>2. TypeOK /\ WriterInv /\ TypeOK' /\ WriterInv' /\ [Next]_vars
        => [DiskLog!LogNext]_(DiskLog!logVars)
  BY NextOnDisk
<1> QED
  BY <1>1, <1>2, TypeCorrect, Conservation, PTL
     DEF Spec, ImplementsDiskLog, DiskLog!LogSpec

-----------------------------------------------------------------------------
(* FlattenSeq, which is defined by recursion: by induction, in the form of the *)
(* first-order theorems on well-founded relations, its recursion has a         *)
(* solution, and two sequences that begin alike have solutions that do.        *)

LEMMA SetInduction ==
  ASSUME NEW S, 0 \in S, \A k \in Nat : k \in S => k + 1 \in S
  PROVE  Nat \subseteq S
<1> SUFFICES ASSUME Nat \ S # {} PROVE FALSE
  OBVIOUS
<1> DEFINE R == OpToRel(<, Nat)
<1>1. PICK m \in Nat \ S : \A k \in Nat \ S : ~(<<k, m>> \in R)
  <2>1. IsWellFoundedOn(R, Nat)
    BY NatLessThanWellFounded
  <2> HIDE DEF R
  <2> QED
    BY <2>1, WFMin
<1>2. m # 0 /\ m - 1 \in Nat
  OBVIOUS
<1>3. m - 1 \in S
  <2>1. <<m - 1, m>> \in R
    BY <1>2 DEF OpToRel
  <2> QED
    BY <1>1, <1>2, <2>1
<1> QED
  BY <1>2, <1>3

\* all[k] is the concatenation of the first k elements of t.
Partial(t, m, all) == all = [k \in 1..m |-> IF k = 1 THEN t[k] ELSE all[k-1] \o t[k]]

LEMMA PartialMore ==
  ASSUME NEW t, NEW m \in Nat, NEW all, Partial(t, m, all)
  PROVE  \E more : Partial(t, m + 1, more)
<1> DEFINE x == IF m = 0 THEN t[1] ELSE all[m] \o t[m + 1]
           more == [k \in 1..(m + 1) |-> IF k = m + 1 THEN x ELSE all[k]]
           next == [k \in 1..(m + 1) |-> IF k = 1 THEN t[k] ELSE more[k-1] \o t[k]]
<1>1. ASSUME NEW k \in 1..(m + 1) PROVE more[k] = next[k]
  <2>1. CASE k = m + 1 /\ m = 0
    BY <2>1
  <2>2. CASE k = m + 1 /\ m # 0
    <3>1. m \in 1..(m + 1) /\ m + 1 \in 1..(m + 1) /\ m # m + 1
      BY <2>2
    <3>2. more[m] = all[m] /\ more[m + 1] = x
      <4> HIDE DEF x
      <4> QED
        BY <3>1
    <3>3. x = all[m] \o t[m + 1]
      BY <2>2
    <3>4. m + 1 # 1 /\ (m + 1) - 1 = m /\ m + 1 \in 1..(m + 1)
      BY <2>2
    <3> HIDE DEF more, x
    <3>5. next[m + 1] = more[m] \o t[m + 1]
      BY <3>4
    <3> QED
      BY <2>2, <3>2, <3>3, <3>5
  <2>3. CASE k \in 1..m
    <3>1. more[k] = all[k] /\ (k # 1 => more[k-1] = all[k-1])
      BY <2>3
    <3>2. all[k] = IF k = 1 THEN t[k] ELSE all[k-1] \o t[k]
      BY <2>3 DEF Partial
    <3> QED
      BY <2>3, <3>1, <3>2
  <2> QED
    BY <2>1, <2>2, <2>3
<1>2. more = next
  BY <1>1
<1>3. Partial(t, m + 1, more)
  <2> HIDE DEF more
  <2> QED
    BY <1>2 DEF Partial
<1> QED
  BY <1>3

LEMMA PartialExists == ASSUME NEW t, NEW m \in Nat PROVE \E all : Partial(t, m, all)
<1> DEFINE D == {k \in Nat : \E all : Partial(t, k, all)}
<1>1. 0 \in D
  <2>1. Partial(t, 0, [k \in 1..0 |-> 0])
    BY DEF Partial
  <2> QED
    BY <2>1
<1>2. ASSUME NEW k \in Nat, k \in D PROVE k + 1 \in D
  BY <1>2, PartialMore
<1> HIDE DEF D
<1>3. Nat \subseteq D
  BY <1>1, <1>2, SetInduction
<1> QED
  BY <1>3 DEF D

LEMMA PartialFirst ==
  ASSUME NEW t, NEW m \in Nat, m # 0, NEW all, Partial(t, m, all)
  PROVE  all[1] = t[1]
<1> DEFINE h == [k \in 1..m |-> IF k = 1 THEN t[k] ELSE all[k-1] \o t[k]]
<1>1. all = h
  BY DEF Partial
<1>2. h[1] = t[1]
  OBVIOUS
<1> HIDE DEF h
<1> QED
  BY <1>1, <1>2

LEMMA PartialNext ==
  ASSUME NEW t, NEW m \in Nat, NEW all, Partial(t, m, all)
  PROVE  \A j \in 2..m : all[j] = all[j - 1] \o t[j]
<1> DEFINE h == [k \in 1..m |-> IF k = 1 THEN t[k] ELSE all[k-1] \o t[k]]
<1>1. all = h
  BY DEF Partial
<1>2. ASSUME NEW j \in 2..m PROVE h[j] = all[j - 1] \o t[j]
  <2>1. j \in 1..m /\ j # 1
    OBVIOUS
  <2> QED
    BY <2>1
<1> HIDE DEF h
<1> QED
  BY <1>1, <1>2

LEMMA PartialSame ==
  ASSUME NEW t, NEW u, NEW m \in Nat, NEW p \in Nat, NEW f, NEW g,
         Partial(t, m, f), Partial(u, p, g),
         NEW k \in Nat, k <= m, k <= p, \A e \in 1..k : t[e] = u[e]
  PROVE  \A e \in 1..k : f[e] = g[e]
<1> DEFINE D == {j \in Nat : j \in 1..k => f[j] = g[j]}
<1>1. 0 \in D
  OBVIOUS
<1>2. ASSUME NEW j \in Nat, j \in D PROVE j + 1 \in D
  <2>1. PICK q \in Nat : q = j + 1
    OBVIOUS
  <2>2. CASE q \in 1..k /\ j # 0
    <3>1. q \in 2..m /\ q \in 2..p /\ j = q - 1
      BY <2>1, <2>2
    <3>2. f[q] = f[j] \o t[q]
      <4>1. \A e \in 2..m : f[e] = f[e - 1] \o t[e]
        BY PartialNext
      <4> QED
        BY <3>1, <4>1
    <3>3. g[q] = g[j] \o u[q]
      <4>1. \A e \in 2..p : g[e] = g[e - 1] \o u[e]
        BY PartialNext
      <4> QED
        BY <3>1, <4>1
    <3>4. f[j] = g[j] /\ t[q] = u[q]
      BY <1>2, <2>1, <2>2
    <3> QED
      BY <2>1, <3>2, <3>3, <3>4
  <2>3. CASE q \in 1..k /\ j = 0
    <3>1. m # 0 /\ p # 0 /\ 1 \in 1..k
      BY <2>1, <2>3
    <3>2. f[1] = t[1]
      BY <3>1, PartialFirst
    <3>3. g[1] = u[1]
      BY <3>1, PartialFirst
    <3> QED
      BY <2>1, <2>3, <3>1, <3>2, <3>3
  <2> QED
    BY <2>1, <2>2, <2>3
<1> HIDE DEF D
<1>3. Nat \subseteq D
  BY <1>1, <1>2, SetInduction
<1> QED
  BY <1>3 DEF D

\* FlattenSeq(t) is the last of the concatenations.
LEMMA FlattenIs ==
  ASSUME NEW t, NEW m \in Nat, m = Len(t), m # 0
  PROVE  \E all : Partial(t, m, all) /\ FlattenSeq(t) = all[m]
<1> DEFINE flatten[k \in 1..Len(t)] == IF k = 1 THEN t[k] ELSE flatten[k-1] \o t[k]
<1>1. \E all : all = [k \in 1..Len(t) |-> IF k = 1 THEN t[k] ELSE all[k-1] \o t[k]]
  BY PartialExists DEF Partial
<1>2. flatten = [k \in 1..Len(t) |-> IF k = 1 THEN t[k] ELSE flatten[k-1] \o t[k]]
  BY <1>1, Zenon
<1>3. FlattenSeq(t) = flatten[Len(t)]
  <2>1. Len(t) # 0
    OBVIOUS
  <2> QED
    BY <2>1, Zenon DEF FlattenSeq
<1> HIDE DEF flatten
<1>4. Partial(t, Len(t), flatten)
  BY <1>2, Zenon DEF Partial
<1> QED
  BY <1>3, <1>4

Alike(t, u, m) == \A e \in 1..m : t[e] = u[e]

LEMMA PartialLast ==
  ASSUME NEW t, NEW u, NEW m \in Nat, NEW k \in Nat, m <= k, NEW f, NEW g,
         Partial(t, m, f), Partial(u, k, g), Alike(t, u, m)
  PROVE  Alike(f, g, m)
<1>1. m <= m
  OBVIOUS
<1> QED
  BY <1>1, PartialSame DEF Alike

LEMMA FlattenMore ==
  ASSUME NEW t, NEW u, NEW m \in Nat, NEW k \in Nat, Len(t) = m, Len(u) = k, k = m + 1,
         \A e \in 1..m : t[e] = u[e]
  PROVE  FlattenSeq(u) = IF m = 0 THEN u[k] ELSE FlattenSeq(t) \o u[k]
<1>1. PICK g : Partial(u, k, g) /\ FlattenSeq(u) = g[k]
  BY FlattenIs
<1>2. CASE m = 0
  <2>1. g[1] = u[1]
    BY <1>1, <1>2, PartialFirst
  <2> QED
    BY <1>1, <1>2, <2>1
<1>3. CASE m # 0
  <2>1. PICK f : Partial(t, m, f) /\ FlattenSeq(t) = f[m]
    BY <1>3, FlattenIs
  <2>2. m <= k /\ m <= m /\ m \in 1..m /\ k \in 2..k /\ m = k - 1
    BY <1>3
  <2>3. \A e \in 1..m : f[e] = g[e]
    <3>1. Partial(t, m, f) /\ Partial(u, k, g) /\ m <= k /\ Alike(t, u, m)
      BY <1>1, <2>1, <2>2 DEF Alike
    <3>2. Alike(f, g, m)
      BY <3>1, PartialLast
    <3> QED
      BY <3>2 DEF Alike
  <2>4. \A e \in 2..k : g[e] = g[e - 1] \o u[e]
    BY <1>1, PartialNext
  <2>5. g[k] = g[m] \o u[k]
    BY <2>2, <2>4
  <2> QED
    BY <1>1, <1>3, <2>1, <2>2, <2>3, <2>5
<1> QED
  BY <1>2, <1>3

LEMMA FlattenEmpty == FlattenSeq(<<>>) = <<>>
<1>1. Len(<<>>) = 0
  OBVIOUS
<1> QED
  BY <1>1 DEF FlattenSeq

LEMMA FlattenAppend ==
  ASSUME NEW S, NEW t \in Seq(Seq(S)), NEW x \in Seq(S)
  PROVE  FlattenSeq(Append(t, x)) = FlattenSeq(t) \o x
<1>1. PICK u : u = Append(t, x)
  OBVIOUS
<1>2. PICK m \in Nat, k \in Nat : /\ m = Len(t) /\ k = Len(u) /\ k = m + 1 /\ u[k] = x
                                  /\ \A e \in 1..m : t[e] = u[e]
  BY <1>1
<1>3. FlattenSeq(u) = IF m = 0 THEN u[k] ELSE FlattenSeq(t) \o u[k]
  BY <1>2, FlattenMore
<1>4. CASE m = 0
  <2>1. t = <<>>
    <3>1. Len(t) = 0
      BY <1>2, <1>4
    <3> QED
      BY <3>1
  <2>2. FlattenSeq(t) = <<>>
    BY <2>1, FlattenEmpty
  <2>3. <<>> \o x = x
    OBVIOUS
  <2> QED
    BY <1>1, <1>2, <1>3, <1>4, <2>2, <2>3
<1> QED
  BY <1>1, <1>2, <1>3, <1>4

\* A concatenation of sequences over S is one.
LEMMA FlattenType ==
  ASSUME NEW S, NEW t \in Seq(Seq(S))
  PROVE  FlattenSeq(t) \in Seq(S)
<1>1. CASE Len(t) = 0
  <2>1. t = <<>>
    BY <1>1
  <2>2. FlattenSeq(t) = <<>>
    BY <2>1, FlattenEmpty
  <2> QED
    BY <2>2
<1>2. CASE Len(t) # 0
  <2>1. PICK m \in Nat : m = Len(t) /\ m # 0 /\ \A e \in 1..m : t[e] \in Seq(S)
    BY <1>2
  <2>2. PICK all : Partial(t, m, all) /\ FlattenSeq(t) = all[m]
    BY <2>1, FlattenIs
  <2> DEFINE D == {j \in Nat : j \in 1..m => all[j] \in Seq(S)}
  <2>3. 0 \in D
    OBVIOUS
  <2>4. ASSUME NEW j \in Nat, j \in D PROVE j + 1 \in D
    <3>1. PICK q \in Nat : q = j + 1
      OBVIOUS
    <3>2. CASE q \in 1..m /\ j # 0
      <4>1. \A e \in 2..m : all[e] = all[e - 1] \o t[e]
        BY <2>2, PartialNext
      <4>2. all[q] = all[j] \o t[q]
        <5>1. q \in 2..m /\ j = q - 1
          BY <3>1, <3>2
        <5> QED
          BY <4>1, <5>1
      <4>3. all[j] \in Seq(S) /\ t[q] \in Seq(S)
        BY <2>1, <2>4, <3>1, <3>2
      <4>4. all[j] \o t[q] \in Seq(S)
        BY <4>3
      <4> QED
        BY <3>1, <4>2, <4>4
    <3>3. CASE q \in 1..m /\ j = 0
      <4>1. all[1] = t[1]
        BY <2>1, <2>2, PartialFirst
      <4> QED
        BY <2>1, <3>1, <3>3, <4>1
    <3> QED
      BY <3>1, <3>2, <3>3
  <2> HIDE DEF D
  <2>5. Nat \subseteq D
    BY <2>3, <2>4, SetInduction
  <2> QED
    BY <2>1, <2>2, <2>5 DEF D
<1> QED
  BY <1>1, <1>2

-----------------------------------------------------------------------------
(* The line callback.                                                       *)

LEMMA TextsType ==
  ASSUME NEW s \in Seq(Lines), NEW h
  PROVE  Texts(s, h) \in Seq(Seq(Bytes))
<1>1. ASSUME NEW k \in 1..Len(s)
      PROVE  (IF s[k].name = h THEN s[k].text ELSE <<>>) \in Seq(Bytes)
  <2>1. s[k] \in Lines
    OBVIOUS
  <2> QED
    BY <2>1 DEF Lines
<1>2. DOMAIN s = 1..Len(s) /\ Len(s) \in Nat
  OBVIOUS
<1> QED
  BY <1>1, <1>2, IsASeq DEF Texts

LEMMA TextsAppend ==
  ASSUME NEW s \in Seq(Lines), NEW l \in Lines, NEW h
  PROVE  Texts(Append(s, l), h) = Append(Texts(s, h), IF l.name = h THEN l.text ELSE <<>>)
<1> DEFINE x == IF l.name = h THEN l.text ELSE <<>>
           a == Texts(Append(s, l), h)
           b == Append(Texts(s, h), x)
<1>1. /\ Append(s, l) \in Seq(Lines) /\ Len(s) \in Nat
      /\ DOMAIN s = 1..Len(s) /\ DOMAIN Append(s, l) = 1..(Len(s) + 1)
  OBVIOUS
<1>2. x \in Seq(Bytes)
  BY DEF Lines
<1>3. a = [k \in 1..(Len(s) + 1) |-> IF Append(s, l)[k].name = h THEN Append(s, l)[k].text ELSE <<>>]
  BY <1>1, Zenon DEF Texts
<1>4. Texts(s, h) \in Seq(Seq(Bytes)) /\ Len(Texts(s, h)) = Len(s)
  <2>1. Texts(s, h) \in Seq(Seq(Bytes))
    BY TextsType
  <2>2. DOMAIN Texts(s, h) = 1..Len(s)
    BY <1>1 DEF Texts
  <2> QED
    BY <1>1, <2>1, <2>2, LenProperties
<1>5. b \in Seq(Seq(Bytes)) /\ Len(b) = Len(s) + 1
  BY <1>2, <1>4, AppendProperties
<1>6. ASSUME NEW k \in 1..(Len(s) + 1) PROVE a[k] = b[k]
  <2>1. CASE k \in 1..Len(s)
    <3>1. Append(s, l)[k] = s[k]
      BY <2>1
    <3>2. Texts(s, h)[k] = IF s[k].name = h THEN s[k].text ELSE <<>>
      BY <1>1, <2>1 DEF Texts
    <3>3. b[k] = Texts(s, h)[k]
      BY <1>2, <1>4, <2>1, AppendProperties
    <3> HIDE DEF b
    <3> QED
      BY <1>3, <3>1, <3>2, <3>3
  <2>2. CASE k = Len(s) + 1
    <3>1. Append(s, l)[k] = l
      BY <2>2
    <3>2. b[k] = x
      BY <1>2, <1>4, <2>2, AppendProperties
    <3> HIDE DEF b
    <3> QED
      BY <1>3, <3>1, <3>2
  <2>3. k \in 1..Len(s) \/ k = Len(s) + 1
    BY <1>1
  <2> HIDE DEF a, b
  <2> QED
    BY <2>1, <2>2, <2>3
<1> HIDE DEF a, b
<1>7. DOMAIN a = 1..(Len(s) + 1) /\ DOMAIN b = 1..(Len(s) + 1)
  BY <1>1, <1>3, <1>5
<1>8. a = [k \in 1..(Len(s) + 1) |-> a[k]]
  BY <1>3
<1>9. b = [k \in 1..(Len(s) + 1) |-> b[k]]
  BY <1>5
<1> QED
  BY <1>6, <1>8, <1>9 DEF a, b

LEMMA HandedType == TypeOK => \A h \in Names : Handed(h) \in Seq(Bytes)
BY TextsType, FlattenType DEF TypeOK, Handed

LEMMA HandedMore ==
  ASSUME TypeOK, NEW h, NEW l \in Lines, lines' = Append(lines, l)
  PROVE  Handed(h)' = Handed(h) \o (IF l.name = h THEN l.text ELSE <<>>)
<1> DEFINE x == IF l.name = h THEN l.text ELSE <<>>
<1>1. x \in Seq(Bytes)
  BY DEF Lines
<1>2. lines \in Seq(Lines)
  BY DEF TypeOK
<1>3. Texts(lines, h) \in Seq(Seq(Bytes))
  BY <1>2, TextsType
<1>4. Handed(h)' = FlattenSeq(Append(Texts(lines, h), x))
  BY <1>2, TextsAppend DEF Handed
<1> HIDE DEF x
<1> QED
  BY <1>1, <1>3, <1>4, FlattenAppend DEF Handed, x

\* The line in progress is of the file used last: what was written since the last
\* endLine is all of one file if it is of one file at all.
LinesInv == /\ owners # {} => lastname \in owners
            /\ owners = {} => lineBuffer = <<>> /\ job.all = <<>>
            /\ LinesAreFiles

LEMMA InitLines == Init => LinesInv
<1> SUFFICES ASSUME Init PROVE LinesInv
  OBVIOUS
<1>1. owners = {} /\ lineBuffer = <<>> /\ job.all = <<>>
  BY DEF Init, Idle
<1>2. ASSUME NEW h \in Names PROVE LineText(h) = written[h]
  <2>1. written[h] = <<>> /\ lines = <<>> /\ lastname # h
    BY WriterAssumption DEF Init
  <2>2. Texts(lines, h) = <<>>
    BY <2>1 DEF Texts
  <2>3. Handed(h) = <<>>
    BY <2>2, FlattenEmpty DEF Handed
  <2> QED
    BY <2>1, <2>3 DEF LineText
<1> QED
  BY <1>1, <1>2 DEF LinesInv, LinesAreFiles

LEMMA WriteNLines ==
  ASSUME TypeOK, WriterInv, LinesInv, NEW f \in Names, NEW s \in Contents, WriteN(f, s)
  PROVE  LinesInv'
<1>1. /\ lastname' = f /\ owners' = owners \cup {f} /\ job'.all = s
      /\ UNCHANGED <<lineBuffer, lines>>
      /\ s \in Seq(Bytes) /\ job.all = <<>>
  BY WriterAssumption DEF WriteN, GetFile, UseFile, WriterInv, CacheCoherent, Idle
<1>2. /\ owners' # {} /\ lastname' \in owners'
  BY <1>1
<1>3. ASSUME UseCustomLine, \A k \in DOMAIN lines' : Single(lines'[k].from),
             Single(owners'), NEW h \in Names
      PROVE  LineText(h)' = written'[h]
  <2>1. Single(owners) /\ \A k \in DOMAIN lines : Single(lines[k].from)
    BY <1>1, <1>3 DEF Single
  <2>2. LineText(h) = written[h]
    BY <1>3, <2>1 DEF LinesInv, LinesAreFiles
  <2>3. Handed(h)' = Handed(h) /\ Handed(h) \in Seq(Bytes) /\ lineBuffer \in Seq(Bytes)
    BY <1>1, HandedType DEF Handed, TypeOK
  <2>4. lastname # f => lineBuffer = <<>>
    BY <1>1, <1>3 DEF LinesInv, Single
  <2>5. CASE h = f
    <3>1. written'[h] = written[h] \o s
      BY <1>1, <2>5 DEF WriteN, TypeOK
    <3>2. LineText(h)' = Handed(h) \o (lineBuffer \o s)
      BY <1>1, <2>3, <2>5 DEF LineText
    <3>3. written[h] = Handed(h) \o lineBuffer
      <4>1. CASE lastname = f
        <5>1. written[h] = Handed(h) \o (lineBuffer \o <<>>)
          BY <1>1, <2>2, <2>5, <4>1 DEF LineText
        <5> QED
          BY <2>3, <5>1
      <4>2. CASE lastname # f
        BY <2>2, <2>4, <2>5, <4>2 DEF LineText
      <4> QED
        BY <4>1, <4>2
    <3>4. s \in Seq(Bytes)
      BY <1>1
    <3>5. Cat(Cat(Handed(h), lineBuffer), s) = Cat(Handed(h), Cat(lineBuffer, s))
      BY <2>3, <3>4, CatAssociative
    <3> QED
      BY <3>1, <3>2, <3>3, <3>5, Zenon DEF Cat
  <2>6. CASE h # f
    <3>1. written'[h] = written[h]
      BY <2>6 DEF WriteN, TypeOK
    <3>2. LineText(h)' = Handed(h) \o <<>>
      BY <1>1, <2>3, <2>6 DEF LineText
    <3>3. LineText(h) = Handed(h) \o <<>>
      <4>1. CASE lastname = h
        <5>1. lineBuffer \o job.all = <<>>
          BY <1>1, <2>4, <2>6, <4>1
        <5> QED
          BY <4>1, <5>1 DEF LineText
      <4>2. CASE lastname # h
        BY <4>2 DEF LineText
      <4> QED
        BY <4>1, <4>2
    <3> QED
      BY <2>2, <3>1, <3>2, <3>3
  <2> QED
    BY <2>5, <2>6
<1> QED
  BY <1>2, <1>3 DEF LinesInv, LinesAreFiles

LEMMA EndLineLines ==
  ASSUME TypeOK, TypeOK', WriterInv, LinesInv, EndLine
  PROVE  LinesInv'
<1> DEFINE l == [name |-> lastname, text |-> lineBuffer, from |-> owners]
<1>1. /\ lastname \in Names /\ UNCHANGED <<lastname, job, written>>
      /\ owners' = {} /\ lineBuffer' = <<>> /\ job.all = <<>> /\ job'.all = <<>>
      /\ lines' = Append(lines, l)
  BY DEF EndLine, TypeOK, WriterInv, CacheCoherent, Idle
<1>2. l \in Lines /\ lineBuffer \in Seq(Bytes) /\ lines \in Seq(Lines)
  BY <1>1 DEF TypeOK, Lines
<1>3. ASSUME UseCustomLine, \A k \in DOMAIN lines' : Single(lines'[k].from), NEW h \in Names
      PROVE  LineText(h)' = written'[h]
  <2>1. Single(owners)
    <3>1. Len(lines) + 1 \in DOMAIN lines' /\ lines'[Len(lines) + 1] = l
      BY <1>1, <1>2
    <3> QED
      BY <1>3, <3>1
  <2>2. \A k \in DOMAIN lines : Single(lines[k].from)
    <3>1. \A k \in DOMAIN lines : k \in DOMAIN lines' /\ lines'[k] = lines[k]
      BY <1>1, <1>2
    <3> QED
      BY <1>3, <3>1
  <2>3. LineText(h) = written[h]
    BY <1>3, <2>1, <2>2 DEF LinesInv, LinesAreFiles
  <2>4. Handed(h)' = Handed(h) \o (IF lastname = h THEN lineBuffer ELSE <<>>)
    <3> HIDE DEF l
    <3>1. Handed(h)' = Handed(h) \o (IF l.name = h THEN l.text ELSE <<>>)
      BY <1>1, <1>2, HandedMore
    <3>2. l.name = lastname /\ l.text = lineBuffer
      BY DEF l
    <3> QED
      BY <3>1, <3>2
  <2>5. Handed(h) \in Seq(Bytes) /\ Handed(h)' \in Seq(Bytes)
    BY TextsType, FlattenType DEF TypeOK, Handed
  <2>6. LineText(h)' = Handed(h)'
    <3>1. LineText(h)' = Handed(h)' \o <<>>
      BY <1>1 DEF LineText
    <3> QED
      BY <2>5, <3>1
  <2>7. LineText(h) = Handed(h) \o (IF lastname = h THEN lineBuffer ELSE <<>>)
    <3>1. lineBuffer \o job.all = lineBuffer
      BY <1>1, <1>2
    <3> QED
      BY <3>1 DEF LineText
  <2> QED
    BY <1>1, <2>3, <2>4, <2>6, <2>7
<1> QED
  BY <1>1, <1>3 DEF LinesInv, LinesAreFiles

LEMMA EndWriteLines ==
  ASSUME TypeOK, LinesInv, EndWrite
  PROVE  LinesInv'
<1>1. /\ UNCHANGED <<lastname, lines, owners, written>> /\ job'.all = <<>>
      /\ UseCustomLine => lineBuffer' = lineBuffer \o job.all
      /\ ~UseCustomLine => lineBuffer' = lineBuffer
  BY DEF EndWrite, Idle
<1>2. lineBuffer \in Seq(Bytes) /\ job.all \in Seq(Bytes)
  BY DEF TypeOK, Jobs
<1>3. owners = {} => lineBuffer' = <<>>
  BY <1>1 DEF LinesInv
<1>4. ASSUME UseCustomLine, NEW h PROVE LineText(h)' = LineText(h)
  <2>1. lineBuffer' \o job'.all = lineBuffer \o job.all
    BY <1>1, <1>2, <1>4
  <2>2. Handed(h)' = Handed(h)
    BY <1>1 DEF Handed
  <2> QED
    BY <1>1, <2>1, <2>2 DEF LineText
<1> QED
  BY <1>1, <1>3, <1>4 DEF LinesInv, LinesAreFiles

LEMMA NextLines ==
  TypeOK /\ TypeOK' /\ WriterInv /\ LinesInv /\ [Next]_vars => LinesInv'
<1> SUFFICES ASSUME TypeOK, TypeOK', WriterInv, LinesInv, [Next]_vars PROVE LinesInv'
  OBVIOUS
<1>1. ASSUME UNCHANGED <<lastname, lines, owners, written, lineBuffer, job.all>>
      PROVE  LinesInv'
  <2>1. \A h : LineText(h)' = LineText(h)
    BY <1>1 DEF LineText, Handed
  <2> QED
    BY <1>1, <2>1 DEF LinesInv, LinesAreFiles
<1>2. CASE CopyChunk
  <2>1. job'.all = job.all
    BY <1>2 DEF CopyChunk, TypeOK, Jobs
  <2> QED
    BY <1>1, <1>2, <2>1 DEF CopyChunk
<1>3. CASE FreeFile \/ EndFree \/ BeginFree \/ UNCHANGED vars
  BY <1>1, <1>3 DEF FreeFile, EndFree, BeginFree, vars
<1> QED
  BY <1>2, <1>3, WriteNLines, EndLineLines, EndWriteLines DEF Next, Steps

\* A client that ends its line before it turns to another file is given by the line
\* callback, under each name and in order, exactly what went to the file of that
\* name, however the writes are cut (writeN, endLine).
THEOREM LinesComplete == Spec => []LinesAreFiles
<1>1. LinesInv => LinesAreFiles
  BY DEF LinesInv
<1> QED
  BY <1>1, InitLines, NextLines, TypeCorrect, Conservation, PTL DEF Spec
=============================================================================
