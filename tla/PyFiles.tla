------------------------------- MODULE PyFiles -------------------------------
(***************************************************************************)
(* The output files of LibFastFEC.parse_as_files_custom                    *)
(* (src/python/src/fastfec/client.py, utils.py): the write callback that   *)
(* provide_write_callback makes, with its cache of the last stream, the    *)
(* dictionary of all streams, and free_file_descriptors, which closes them *)
(* when the parse is over and its context freed.                           *)
(*                                                                         *)
(* The C library calls it with a name and a chunk (see Writer, of which    *)
(* this is the other side of "custom").  The open function, the stream's   *)
(* write and its close are the caller's, or those of Python: each of them  *)
(* may raise an exception, which ctypes ignores when it leaves a callback. *)
(* What a stream will take of a chunk is chosen when the call is made; the *)
(* callback learns of it when it gets there.                               *)
(*                                                                         *)
(* An operator written just before another with a similar name, and used   *)
(* nowhere, is a slip the properties must notice.                          *)
(***************************************************************************)
EXTENDS Naturals, Sequences

CONSTANTS Names,    \* the names of the output files
          Bytes,
          Chunks,   \* what the C library passes in a call
          MaxCalls, \* bound: calls of the callback
          None

ASSUME PyFilesAssumption == /\ Chunks \subseteq Seq(Bytes)
                            /\ MaxCalls \in Nat
                            /\ None \notin Names

VARIABLES last_filename,    \* of the WriteCache
          last_fd,          \* of the WriteCache: a stream, or 0
          file_descriptors, \* of the WriteCache: the stream of a path, or 0
          streams,          \* streams[i]: the path the i-th stream was opened for
          closed,           \* how many streams are closed, in that order
          disk,             \* disk[f]: what the file of path f holds
          call,             \* the call of the callback that is running
          pc,               \* "ready", "called", "writing", "closing", "returned", "raised"
          ncalls,           \* calls made
          sent,             \* history: sent[f], all that was passed under name f
          taken,            \* history: taken[f], what of it a stream takes
          lost              \* history: an exception has left the callback

vars == <<last_filename, last_fd, file_descriptors, streams, closed, disk, call,
          pc, ncalls, sent, taken, lost>>
cacheVars == <<last_filename, last_fd, file_descriptors>>
history == <<sent, taken, lost>>

Idle == [name |-> None, taken |-> <<>>, opens |-> TRUE]

Init == /\ last_filename = None /\ last_fd = 0
        /\ file_descriptors = [f \in Names |-> 0]
        /\ streams = <<>> /\ closed = 0
        /\ disk = [f \in Names |-> <<>>]
        /\ call = Idle /\ pc = "ready" /\ ncalls = 0
        /\ sent = [f \in Names |-> <<>>] /\ taken = [f \in Names |-> <<>>]
        /\ lost = FALSE

\* bufferFlush calls the callback.  The stream takes the first k bytes; if it
\* has to be opened, that may fail.
Call(f, s) ==
  /\ pc = "ready" /\ ncalls < MaxCalls
  /\ \E k \in 0..Len(s), opens \in BOOLEAN :
       LET known == f = last_filename \/ file_descriptors[f] # 0
           t == IF known \/ opens THEN SubSeq(s, 1, k) ELSE <<>>
       IN  /\ call' = [name |-> f, taken |-> t, opens |-> opens]
           /\ taken' = [taken EXCEPT ![f] = @ \o t]
           /\ lost' = (lost \/ t # s)
  /\ sent' = [sent EXCEPT ![f] = @ \o s]
  /\ pc' = "called" /\ ncalls' = ncalls + 1
  /\ UNCHANGED <<cacheVars, streams, closed, disk>>

\* The name is the last one.
Reuse == /\ pc = "called" /\ call.name = last_filename
         /\ pc' = "writing"
         /\ UNCHANGED <<cacheVars, streams, closed, disk, call, ncalls, history>>

UseStreamOnly(i) == last_fd' = i /\ UNCHANGED last_filename
UseStreamStale(i) == last_filename' = call.name /\ last_fd' = IF last_fd = 0 THEN i ELSE last_fd
UseStream(i) == last_filename' = call.name /\ last_fd' = i

\* It has a stream.
HasStreamNever(f) == f = None
HasStream(f) == file_descriptors[f] # 0
Lookup == /\ pc = "called" /\ call.name # last_filename
          /\ HasStream(call.name)
          /\ UseStream(file_descriptors[call.name])
          /\ pc' = "writing"
          /\ UNCHANGED <<file_descriptors, streams, closed, disk, call, ncalls, history>>

\* Mode "wb" leaves an empty file.
Open == /\ pc = "called" /\ call.name # last_filename
        /\ ~HasStream(call.name) /\ call.opens
        /\ streams' = Append(streams, call.name)
        /\ file_descriptors' = [file_descriptors EXCEPT ![call.name] = Len(streams')]
        /\ disk' = [disk EXCEPT ![call.name] = <<>>]
        /\ UseStream(Len(streams'))
        /\ pc' = "writing"
        /\ UNCHANGED <<closed, call, ncalls, history>>

\* The exception leaves the callback before it remembers anything.
OpenRaises == /\ pc = "called" /\ call.name # last_filename
              /\ ~HasStream(call.name) /\ ~call.opens
              /\ call' = Idle /\ pc' = "ready"
              /\ UNCHANGED <<cacheVars, streams, closed, disk, ncalls, history>>

Write == /\ pc = "writing"
         /\ disk' = [disk EXCEPT ![streams[last_fd]] = @ \o call.taken]
         /\ call' = Idle /\ pc' = "ready"
         /\ UNCHANGED <<cacheVars, streams, closed, ncalls, history>>

\* parseFec has returned and the context is freed (whose calls are among those
\* above): free_file_descriptors closes the streams one by one.
BeginClose == /\ pc = "ready"
              /\ pc' = "closing"
              /\ UNCHANGED <<cacheVars, streams, closed, disk, call, ncalls, history>>

MoreToCloseShort == closed + 1 < Len(streams)
MoreToClose == closed < Len(streams)

Close == /\ pc = "closing" /\ MoreToClose
         /\ \/ closed' = closed + 1 /\ UNCHANGED pc
            \/ pc' = "raised" /\ UNCHANGED closed
         /\ UNCHANGED <<cacheVars, streams, disk, call, ncalls, history>>

Return == /\ pc = "closing" /\ ~MoreToClose
          /\ pc' = "returned"
          /\ UNCHANGED <<cacheVars, streams, closed, disk, call, ncalls, history>>

Next == \/ \E f \in Names, s \in Chunks : Call(f, s)
        \/ Reuse \/ Lookup \/ Open \/ OpenRaises \/ Write
        \/ BeginClose \/ Close \/ Return

Spec == Init /\ [][Next]_vars

-----------------------------------------------------------------------------
Calls == [name : Names \cup {None}, taken : Seq(Bytes), opens : BOOLEAN]

\* Every variable has its type.
TypeOK == /\ last_filename \in Names \cup {None}
          /\ streams \in Seq(Names) /\ last_fd \in 0..Len(streams)
          /\ file_descriptors \in [Names -> 0..Len(streams)]
          /\ closed \in 0..Len(streams)
          /\ disk \in [Names -> Seq(Bytes)]
          /\ call \in Calls /\ ncalls \in Nat
          /\ pc \in {"ready", "called", "writing", "closing", "returned", "raised"}
          /\ (pc \in {"called", "writing"}) <=> (call.name # None)
          /\ (pc \notin {"called", "writing"} => call = Idle)
          /\ sent \in [Names -> Seq(Bytes)] /\ taken \in [Names -> Seq(Bytes)]
          /\ lost \in BOOLEAN

\* The cache, the dictionary and the streams agree: the last stream is the one
\* of the last name, a stream is found again under the name it was opened for,
\* and no name has two, of which the second would empty the file
\* (utils.py:218-235).
CacheCoherent ==
  /\ last_filename # None => /\ last_fd = file_descriptors[last_filename]
                             /\ last_fd # 0
  /\ \A f \in Names : file_descriptors[f] # 0 => streams[file_descriptors[f]] = f
  /\ \A i \in 1..Len(streams) : file_descriptors[streams[i]] = i
  /\ pc = "writing" => call.name = last_filename
  /\ pc = "called" /\ ~call.opens /\ ~HasStream(call.name) => call.taken = <<>>

Pending(f) == IF call.name = f THEN call.taken ELSE <<>>

\* A file holds what its streams take, in order, and nothing of another file,
\* whatever has raised before.
FilesHold == \A f \in Names : /\ taken[f] = disk[f] \o Pending(f)
                              /\ (file_descriptors[f] = 0 => disk[f] = <<>>)

\* When parse_as_files returns, every stream is closed, and if no exception was
\* ignored every file holds all that the library has passed for it.
ReturnsComplete ==
  pc = "returned" => /\ closed = Len(streams)
                     /\ (~lost => disk = sent)

FileLog == INSTANCE FileLog WITH accepted <- taken, delivered <- disk,
                                 closed <- (pc \in {"closing", "raised", "returned"})
\* The files are a log of what their streams take: no file is emptied, and none
\* changes while the streams are closed.
ImplementsFileLog == FileLog!LogSpec
=============================================================================
