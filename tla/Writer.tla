------------------------------- MODULE Writer -------------------------------
(***************************************************************************)
(* The write context of FastFEC (src/writer.c, src/writer.h): the table of *)
(* output files with its last-file cache, one fixed-size buffer per file,  *)
(* the chunked copy of a write into that buffer, the two sinks a full      *)
(* buffer is flushed to (a callback that is given the file's NAME, and the *)
(* stream opened for the file), the line accumulated for the line          *)
(* callback, and the final flush when the context is freed.                *)
(*                                                                         *)
(* The three pointers of the cache (lastname, lastBufferFile, lastfile)    *)
(* are kept apart because a flush uses them apart: the callback follows    *)
(* the name and fwrite follows the stream.  The client is any program that *)
(* makes at most MaxCalls calls of writeN (or writeString and writeChar,   *)
(* which are writeN) and endLine, and then frees the context.              *)
(*                                                                         *)
(* An operator written just before another with a similar name, and used   *)
(* nowhere, is a slip the properties must notice.                          *)
(***************************************************************************)
EXTENDS Naturals, SequencesExt

CONSTANTS Names,          \* file names (form types)
          Bytes,          \* what is written
          Contents,       \* the strings the client writes
          BufferSize,     \* bytes per file buffer
          UseCustomWrite, \* customWriteFunction != NULL
          WriteToFile,    \* writeToFile
          UseCustomLine,  \* customLineFunction != NULL
          MaxCalls,       \* bound: calls the client makes
          None            \* NULL

ASSUME WriterAssumption == /\ Contents \subseteq Seq(Bytes)
                           /\ BufferSize \in Nat \ {0}
                           /\ UseCustomWrite \in BOOLEAN
                           /\ WriteToFile \in BOOLEAN
                           /\ UseCustomLine \in BOOLEAN
                           /\ MaxCalls \in Nat
                           /\ None \notin Names

VARIABLES filenames,  \* the open files, in the order they were opened
          buffers,    \* buffers[i]: bytes waiting in bufferFiles[i]
          streams,    \* streams[i]: bytes given to fwrite on files[i]
          lastname,   \* the cache of getFile: a name, ...
          lastBuffer, \* ... the index of its buffer, ...
          lastfile,   \* ... and the index of its stream
          custom,     \* custom[f]: bytes passed to the callback under name f
          lineBuffer, \* customLineBuffer
          lines,      \* the calls of customLineFunction
          owners,     \* history: the files written to since the last endLine
          job,        \* the writeN in progress
          pc,         \* "ready", "copying", "freeing" or "freed"
          nfreed,     \* files flushed and closed by freeWriteContext
          ncalls,     \* calls made by the client
          written     \* history: written[f], all the client wrote to f

vars == <<filenames, buffers, streams, lastname, lastBuffer, lastfile, custom,
          lineBuffer, lines, owners, job, pc, nfreed, ncalls, written>>

nfiles == Len(filenames)
IsOpen(f) == \E i \in 1..nfiles : filenames[i] = f
Idle == [name |-> None, all |-> <<>>, rest |-> <<>>]
Smaller(m, n) == IF m <= n THEN m ELSE n

Init == /\ filenames = <<>> /\ buffers = <<>> /\ streams = <<>>
        /\ lastname = None /\ lastBuffer = 0 /\ lastfile = 0
        /\ custom = [f \in Names |-> <<>>]
        /\ lineBuffer = <<>> /\ lines = <<>> /\ owners = {}
        /\ job = Idle
        /\ pc = "ready" /\ nfreed = 0 /\ ncalls = 0
        /\ written = [f \in Names |-> <<>>]

(***************************************************************************)
(* getFile: nothing to do for the file used last; otherwise the file is    *)
(* looked up in the table, or opened with an empty buffer.                 *)
(***************************************************************************)
UseFileKeepStream(f, i) == lastname' = f /\ lastBuffer' = i /\ UNCHANGED lastfile
UseFileKeepName(f, i) == /\ lastname' = IF lastname = None THEN f ELSE lastname
                         /\ lastBuffer' = i /\ lastfile' = i
UseFileNext(f, i) == lastname' = f /\ lastBuffer' = i + 1 /\ lastfile' = i + 1

UseFile(f, i) == lastname' = f /\ lastBuffer' = i /\ lastfile' = i

GetFile(f) ==
  \/ /\ lastname = f
     /\ UNCHANGED <<filenames, buffers, streams, lastname, lastBuffer, lastfile>>
  \/ /\ lastname # f
     /\ \E i \in 1..nfiles :
           /\ filenames[i] = f
           /\ \A j \in 1..(i - 1) : filenames[j] # f
           /\ UseFile(f, i)
     /\ UNCHANGED <<filenames, buffers, streams>>
  \/ /\ lastname # f
     /\ ~IsOpen(f)
     /\ filenames' = Append(filenames, f)
     /\ buffers' = Append(buffers, <<>>)
     /\ streams' = Append(streams, <<>>)
     /\ UseFile(f, nfiles + 1)

WriteN(f, s) ==
  /\ pc = "ready"
  /\ ncalls < MaxCalls
  /\ GetFile(f)
  /\ job' = [name |-> f, all |-> s, rest |-> s]
  /\ pc' = "copying"
  /\ ncalls' = ncalls + 1
  /\ written' = [written EXCEPT ![f] = @ \o s]
  /\ owners' = owners \cup {f}
  /\ UNCHANGED <<custom, lineBuffer, lines, nfreed>>

(***************************************************************************)
(* bufferFlush: buffer i, holding data, goes to the callback under name f  *)
(* and to stream j, whichever of the two is configured.                    *)
(***************************************************************************)
Flush(f, i, j, data) ==
  /\ buffers' = [buffers EXCEPT ![i] = <<>>]
  /\ custom' = IF UseCustomWrite /\ data # <<>>
                 THEN [custom EXCEPT ![f] = @ \o data] ELSE custom
  /\ streams' = IF WriteToFile /\ data # <<>>
                  THEN [streams EXCEPT ![j] = @ \o data] ELSE streams

BytesToWrite == Smaller(Len(job.rest), BufferSize - Len(buffers[lastBuffer]))

IsOverfull(data) == Len(data) > BufferSize
IsFull(data) == Len(data) >= BufferSize

\* One turn of the loop of bufferWrite: copy what fits, flush a full buffer.
CopyChunk ==
  /\ pc = "copying"
  /\ job.rest # <<>>
  /\ LET n    == BytesToWrite
         data == buffers[lastBuffer] \o SubSeq(job.rest, 1, n)
     IN  /\ job' = [job EXCEPT !.rest = SubSeq(@, n + 1, Len(@))]
         /\ IF IsFull(data)
              THEN Flush(job.name, lastBuffer, lastfile, data)
              ELSE /\ buffers' = [buffers EXCEPT ![lastBuffer] = data]
                   /\ UNCHANGED <<custom, streams>>
  /\ UNCHANGED <<filenames, lastname, lastBuffer, lastfile, lineBuffer, lines,
                 owners, pc, nfreed, ncalls, written>>

\* The rest of writeN: the line callback's copy of what was written.
EndWrite ==
  /\ pc = "copying"
  /\ job.rest = <<>>
  /\ lineBuffer' = IF UseCustomLine THEN lineBuffer \o job.all ELSE lineBuffer
  /\ job' = Idle
  /\ pc' = "ready"
  /\ UNCHANGED <<filenames, buffers, streams, lastname, lastBuffer, lastfile,
                 custom, lines, owners, nfreed, ncalls, written>>

\* endLine hands over the line under the name of the file used last.
EndLine ==
  /\ pc = "ready"
  /\ ncalls < MaxCalls
  /\ lastname # None
  /\ UseCustomLine
  /\ lines' = Append(lines, [name |-> lastname, text |-> lineBuffer,
                               from |-> owners])
  /\ lineBuffer' = <<>>
  /\ owners' = {}
  /\ ncalls' = ncalls + 1
  /\ UNCHANGED <<filenames, buffers, streams, lastname, lastBuffer, lastfile,
                 custom, job, pc, nfreed, written>>

MoreToFreeShort == nfreed + 1 < nfiles
MoreToFree == nfreed < nfiles

\* freeWriteContext: flush and close the files one by one, then free.
BeginFree ==
  /\ pc = "ready"
  /\ pc' = "freeing"
  /\ UNCHANGED <<filenames, buffers, streams, lastname, lastBuffer, lastfile,
                 custom, lineBuffer, lines, owners, job, nfreed, ncalls,
                 written>>

FreeFile ==
  /\ pc = "freeing"
  /\ MoreToFree
  /\ nfreed' = nfreed + 1
  /\ Flush(filenames[nfreed'], nfreed', nfreed', buffers[nfreed'])
  /\ UNCHANGED <<filenames, lastname, lastBuffer, lastfile, lineBuffer, lines,
                 owners, job, pc, ncalls, written>>

EndFree ==
  /\ pc = "freeing"
  /\ ~MoreToFree
  /\ pc' = "freed"
  /\ UNCHANGED <<filenames, buffers, streams, lastname, lastBuffer, lastfile,
                 custom, lineBuffer, lines, owners, job, nfreed, ncalls,
                 written>>

Steps == CopyChunk \/ EndWrite \/ FreeFile \/ EndFree

Next == \/ \E f \in Names, s \in Contents : WriteN(f, s)
        \/ EndLine
        \/ BeginFree
        \/ Steps

Spec == Init /\ [][Next]_vars

-----------------------------------------------------------------------------
Phases == {"ready", "copying", "freeing", "freed"}
Jobs == [name : Names \cup {None}, all : Seq(Bytes), rest : Seq(Bytes)]
Lines == [name : Names, text : Seq(Bytes), from : SUBSET Names]

\* Every variable has its type; the table's three arrays have one length.
TypeOK == /\ filenames \in Seq(Names)
          /\ buffers \in Seq(Seq(Bytes)) /\ Len(buffers) = nfiles
          /\ streams \in Seq(Seq(Bytes)) /\ Len(streams) = nfiles
          /\ lastname \in Names \cup {None}
          /\ lastBuffer \in 0..nfiles
          /\ lastfile \in 0..nfiles
          /\ custom \in [Names -> Seq(Bytes)]
          /\ lineBuffer \in Seq(Bytes)
          /\ lines \in Seq(Lines)
          /\ owners \subseteq Names
          /\ job \in Jobs
          /\ pc \in Phases
          /\ nfreed \in 0..nfiles
          /\ ncalls \in Nat
          /\ written \in [Names -> Seq(Bytes)]

\* A name is opened once: fopen(..., "w") on a file that is already open
\* would truncate what it holds.
OpenedOnce == \A i, j \in 1..nfiles : filenames[i] = filenames[j] => i = j

\* The cache is one file: name, buffer and stream never come from two.
CacheCoherent ==
  /\ lastname # None => /\ lastBuffer = lastfile
                        /\ lastBuffer \in 1..nfiles
                        /\ filenames[lastBuffer] = lastname
  /\ pc = "copying" => job.name = lastname /\ lastname # None
  /\ pc # "copying" => job = Idle

\* No buffer is full between two turns of a loop: remaining is never 0 and
\* every turn of bufferWrite makes progress.
RoomLeft == \A i \in 1..nfiles : Len(buffers[i]) < BufferSize

\* What the writeN in progress has still to copy to the file named f.
Pending(f) == IF pc = "copying" /\ job.name = f THEN job.rest ELSE <<>>

\* No byte is lost, repeated, reordered or filed under another name on its way
\* to the callback, however a write is cut across flushes.
CustomConserved ==
  UseCustomWrite =>
    /\ \A i \in 1..nfiles :
          custom[filenames[i]] \o buffers[i] \o Pending(filenames[i])
            = written[filenames[i]]
    /\ \A f \in Names : ~IsOpen(f) => custom[f] = written[f]

\* The same for the stream of each file.
StreamConserved ==
  WriteToFile =>
    /\ \A i \in 1..nfiles :
          streams[i] \o buffers[i] \o Pending(filenames[i])
            = written[filenames[i]]
    /\ \A f \in Names : ~IsOpen(f) => written[f] = <<>>

\* freeWriteContext leaves nothing in the buffers it has passed.
Drained == /\ \A i \in 1..nfreed : buffers[i] = <<>>
           /\ pc \notin {"freeing", "freed"} => nfreed = 0
           /\ pc = "freed" => nfreed = nfiles

\* What keeps every byte accounted for, at every step.
WriterInv == /\ OpenedOnce /\ CacheCoherent /\ RoomLeft /\ Drained
             /\ CustomConserved /\ StreamConserved

\* The text of the lines handed over under the name f, then the open line.
Texts(s, f) == [i \in DOMAIN s |-> IF s[i].name = f THEN s[i].text ELSE <<>>]
Handed(f) == FlattenSeq(Texts(lines, f))
LineText(f) == Handed(f) \o (IF lastname = f THEN lineBuffer \o job.all ELSE <<>>)

Single(S) == \A x, y \in S : x = y

\* A client that ends its line before it turns to another file gets from the
\* line callback, under each name, exactly what went to the file of that name
\* (writeN, endLine).
LinesAreFiles ==
  UseCustomLine =>
    ( (\A i \in DOMAIN lines : Single(lines[i].from)) /\ Single(owners)
      => \A f \in Names : LineText(f) = written[f] )

-----------------------------------------------------------------------------
StreamOf(f) == IF IsOpen(f) THEN streams[CHOOSE i \in 1..nfiles : filenames[i] = f]
               ELSE <<>>

CustomLog == INSTANCE FileLog WITH accepted <- written, delivered <- custom,
                                   closed <- (pc = "freed")
DiskLog == INSTANCE FileLog WITH accepted <- written,
                                 delivered <- [f \in Names |-> StreamOf(f)],
                                 closed <- (pc = "freed")

\* With a write callback (UseCustomWrite) the context is, for the callback, a
\* log per file.
ImplementsCustomLog == CustomLog!LogSpec
\* With output files (WriteToFile) it is, for the streams, a log per file.
ImplementsDiskLog == DiskLog!LogSpec
=============================================================================
