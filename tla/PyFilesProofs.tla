---------------------------- MODULE PyFilesProofs ----------------------------
(***************************************************************************)
(* Proofs about PyFiles, for all names, chunks and numbers of calls.       *)
(***************************************************************************)
EXTENDS PyFiles, SequenceTheorems, TLAPS

\* The three invariants, together inductive.
Inv == TypeOK /\ CacheCoherent /\ FilesHold

\* Sequences of which one element is replaced, and their parts.
LEMMA PartFacts ==
  ASSUME NEW S, NEW s \in Seq(S), NEW k \in 0..Len(s)
  PROVE  SubSeq(s, 1, k) \in Seq(S)
  OBVIOUS

LEMMA JoinFacts ==
  ASSUME NEW S, NEW s \in Seq(S), NEW t \in Seq(S)
  PROVE  /\ s \o t \in Seq(S) /\ Len(s \o t) = Len(s) + Len(t)
         /\ \A i \in 1..Len(s) : (s \o t)[i] = s[i]
         /\ <<>> \in Seq(S) /\ s \o <<>> = s
  OBVIOUS

LEMMA AssocFacts ==
  ASSUME NEW S, NEW r \in Seq(S), NEW s \in Seq(S), NEW t \in Seq(S)
  PROVE  (r \o s) \o t = r \o (s \o t)
  OBVIOUS

LEMMA AppendFacts ==
  ASSUME NEW S, NEW s \in Seq(S), NEW x \in S
  PROVE  /\ Append(s, x) \in Seq(S) /\ Len(Append(s, x)) = Len(s) + 1
         /\ Append(s, x)[Len(s) + 1] = x
         /\ \A i \in 1..Len(s) : Append(s, x)[i] = s[i]
  OBVIOUS

LEMMA OneStored ==
  ASSUME NEW D, NEW S, NEW f \in [D -> S], NEW d \in D, NEW c \in S
  PROVE  /\ [f EXCEPT ![d] = c] \in [D -> S]
         /\ [f EXCEPT ![d] = c][d] = c
         /\ \A e \in D : (e # d => [f EXCEPT ![d] = c][e] = f[e])
  OBVIOUS

LEMMA EmptyFacts ==
  /\ Idle \in Calls /\ Idle.name = None /\ Idle.taken = <<>>
  /\ [f \in Names |-> <<>>] \in [Names -> Seq(Bytes)]
BY DEF Idle, Calls

LEMMA InitInv == Init => Inv
<1> SUFFICES ASSUME Init PROVE Inv
  OBVIOUS
<1>1. TypeOK
  <2>1. /\ disk \in [Names -> Seq(Bytes)] /\ sent \in [Names -> Seq(Bytes)]
        /\ taken \in [Names -> Seq(Bytes)] /\ call \in Calls
        /\ (pc \in {"called", "writing"}) <=> (call.name # None)
    BY EmptyFacts DEF Init
  <2>2. /\ streams \in Seq(Names) /\ last_fd \in 0..Len(streams)
        /\ file_descriptors \in [Names -> 0..Len(streams)] /\ closed \in 0..Len(streams)
    BY DEF Init
  <2> QED BY <2>1, <2>2 DEF Init, TypeOK
<1>2. CacheCoherent
  BY DEF Init, CacheCoherent
<1>3. FilesHold
  <2> SUFFICES ASSUME NEW f \in Names
               PROVE  taken[f] = disk[f] \o Pending(f) /\ disk[f] = <<>>
    BY DEF FilesHold
  <2>1. taken[f] = <<>> /\ disk[f] = <<>>
    BY DEF Init
  <2>2. Pending(f) = <<>>
    BY PyFilesAssumption DEF Init, Pending, Idle
  <2> QED BY <2>1, <2>2
<1> QED BY <1>1, <1>2, <1>3 DEF Inv

-----------------------------------------------------------------------------
\* What a call leaves: its bytes are pending, and nothing else has changed.
LEMMA CallFacts ==
  ASSUME Inv, NEW f \in Names, NEW s \in Chunks, Call(f, s)
  PROVE  \E t \in Seq(Bytes), opens \in BOOLEAN :
           /\ call' = [name |-> f, taken |-> t, opens |-> opens]
           /\ taken' = [taken EXCEPT ![f] = @ \o t]
           /\ lost' \in BOOLEAN
           /\ (~opens /\ f # last_filename /\ file_descriptors[f] = 0 => t = <<>>)
<1>1. PICK k \in 0..Len(s), opens \in BOOLEAN :
        LET known == f = last_filename \/ file_descriptors[f] # 0
            t == IF known \/ opens THEN SubSeq(s, 1, k) ELSE <<>>
        IN  /\ call' = [name |-> f, taken |-> t, opens |-> opens]
            /\ taken' = [taken EXCEPT ![f] = @ \o t]
            /\ lost' = (lost \/ t # s)
  BY DEF Call
<1> DEFINE known == f = last_filename \/ file_descriptors[f] # 0
           t == IF known \/ opens THEN SubSeq(s, 1, k) ELSE <<>>
<1>2. s \in Seq(Bytes)
  BY PyFilesAssumption
<1>3. SubSeq(s, 1, k) \in Seq(Bytes) /\ <<>> \in Seq(Bytes)
  BY <1>2, PartFacts
<1>4. t \in Seq(Bytes)
  BY <1>3
<1>5. ~opens /\ f # last_filename /\ file_descriptors[f] = 0 => t = <<>>
  OBVIOUS
<1>6. (lost \/ t # s) \in BOOLEAN
  OBVIOUS
<1> HIDE DEF t, known
<1>7. /\ call' = [name |-> f, taken |-> t, opens |-> opens]
      /\ taken' = [taken EXCEPT ![f] = @ \o t]
      /\ lost' \in BOOLEAN
  BY <1>1, <1>6 DEF t, known
<1> QED BY <1>4, <1>5, <1>7

LEMMA CallInv ==
  ASSUME Inv, NEW f \in Names, NEW s \in Chunks, Call(f, s)
  PROVE  Inv'
<1>1. PICK t \in Seq(Bytes), opens \in BOOLEAN :
           /\ call' = [name |-> f, taken |-> t, opens |-> opens]
           /\ taken' = [taken EXCEPT ![f] = @ \o t]
           /\ lost' \in BOOLEAN
           /\ (~opens /\ f # last_filename /\ file_descriptors[f] = 0 => t = <<>>)
  BY CallFacts
<1>2. /\ call' \in Calls /\ call'.name = f /\ call'.taken = t /\ call'.opens = opens
      /\ f # None
  BY <1>1, PyFilesAssumption DEF Calls
<1>3. taken' \in [Names -> Seq(Bytes)] /\ sent' \in [Names -> Seq(Bytes)]
  <2>1. taken[f] \o t \in Seq(Bytes) /\ sent[f] \o s \in Seq(Bytes)
    BY PyFilesAssumption, JoinFacts DEF Inv, TypeOK
  <2> QED BY <1>1, <2>1, OneStored DEF Inv, TypeOK, Call
<1>4. TypeOK'
  <2>1. /\ pc' = "called" /\ ncalls' \in Nat /\ lost' \in BOOLEAN
        /\ call' \in Calls /\ call'.name # None
    BY <1>1, <1>2 DEF Inv, TypeOK, Call
  <2>2. /\ last_filename' \in Names \cup {None} /\ streams' \in Seq(Names)
        /\ last_fd' \in 0..Len(streams') /\ closed' \in 0..Len(streams')
        /\ file_descriptors' \in [Names -> 0..Len(streams')]
        /\ disk' \in [Names -> Seq(Bytes)]
    BY DEF Inv, TypeOK, Call, cacheVars
  <2> QED BY <1>3, <2>1, <2>2 DEF TypeOK
<1>5. CacheCoherent'
  BY <1>1, <1>2 DEF Inv, CacheCoherent, TypeOK, Call, cacheVars, HasStream
<1>6. FilesHold'
  <2> SUFFICES ASSUME NEW g \in Names
               PROVE  /\ taken'[g] = disk'[g] \o Pending(g)'
                      /\ (file_descriptors'[g] = 0 => disk'[g] = <<>>)
    BY DEF FilesHold
  <2>1. taken[g] = disk[g] \o Pending(g) /\ (file_descriptors[g] = 0 => disk[g] = <<>>)
    BY DEF Inv, FilesHold
  <2>2. Pending(g) = <<>> /\ disk[g] \in Seq(Bytes) /\ taken[g] = disk[g]
    <3>1. call = Idle /\ disk[g] \in Seq(Bytes)
      BY DEF Inv, TypeOK, Call
    <3>2. Pending(g) = <<>>
      BY <3>1, PyFilesAssumption DEF Pending, Idle
    <3> QED BY <2>1, <3>1, <3>2, JoinFacts
  <2>3. taken'[g] = IF g = f THEN taken[g] \o t ELSE taken[g]
    BY <1>1 DEF Inv, TypeOK
  <2>4. Pending(g)' = IF g = f THEN t ELSE <<>>
    BY <1>2 DEF Pending
  <2>5. taken'[g] = disk[g] \o Pending(g)'
    BY <2>2, <2>3, <2>4, JoinFacts
  <2> QED BY <2>1, <2>5 DEF Call, cacheVars
<1> QED BY <1>4, <1>5, <1>6 DEF Inv

LEMMA ReuseInv == Inv /\ Reuse => Inv'
<1> SUFFICES ASSUME Inv, Reuse PROVE Inv'
  OBVIOUS
<1>1. TypeOK'
  BY DEF Inv, TypeOK, Reuse, cacheVars, history
<1>2. CacheCoherent'
  BY DEF Inv, CacheCoherent, Reuse, cacheVars, history
<1>3. FilesHold'
  BY DEF Inv, FilesHold, Pending, Reuse, cacheVars, history
<1> QED BY <1>1, <1>2, <1>3 DEF Inv

LEMMA LookupInv == Inv /\ Lookup => Inv'
<1> SUFFICES ASSUME Inv, Lookup PROVE Inv'
  OBVIOUS
<1>1. call.name \in Names
  BY DEF Inv, TypeOK, Calls, Lookup
<1>2. TypeOK'
  BY <1>1 DEF Inv, TypeOK, Lookup, UseStream, history
<1>3. CacheCoherent'
  BY <1>1 DEF Inv, CacheCoherent, Lookup, UseStream, HasStream, history
<1>4. FilesHold'
  BY DEF Inv, FilesHold, Pending, Lookup, history
<1> QED BY <1>2, <1>3, <1>4 DEF Inv

LEMMA OpenInv == Inv /\ Open => Inv'
<1> SUFFICES ASSUME Inv, Open PROVE Inv'
  OBVIOUS
<1> DEFINE f == call.name
           m == Len(streams) + 1
<1>1. /\ f \in Names /\ file_descriptors[f] = 0 /\ Len(streams) \in Nat
      /\ f # last_filename
  BY DEF Inv, TypeOK, Calls, Open, HasStream
<1>2. /\ streams' \in Seq(Names) /\ Len(streams') = m /\ streams'[m] = f
      /\ \A i \in 1..Len(streams) : streams'[i] = streams[i]
  BY <1>1, AppendFacts DEF Inv, TypeOK, Open
<1>3. /\ file_descriptors' \in [Names -> 0..m] /\ file_descriptors'[f] = m
      /\ \A g \in Names : (g # f => file_descriptors'[g] = file_descriptors[g])
  <2>1. file_descriptors \in [Names -> 0..m]
    BY <1>1 DEF Inv, TypeOK
  <2>2. file_descriptors' = [file_descriptors EXCEPT ![f] = m] /\ m \in 0..m
    BY <1>1, <1>2 DEF Open
  <2> QED BY <1>1, <2>1, <2>2, OneStored
<1>4. /\ disk' \in [Names -> Seq(Bytes)] /\ disk'[f] = <<>>
      /\ \A g \in Names : (g # f => disk'[g] = disk[g])
  BY <1>1, OneStored, JoinFacts DEF Inv, TypeOK, Open
<1>5. last_filename' = f /\ last_fd' = m /\ pc' = "writing" /\ call' = call
  BY <1>2 DEF Open, UseStream
<1>6. TypeOK'
  <2>1. last_fd' \in 0..Len(streams') /\ closed' \in 0..Len(streams')
    BY <1>1, <1>2, <1>5 DEF Inv, TypeOK, Open
  <2> QED BY <1>1, <1>2, <1>3, <1>4, <1>5, <2>1 DEF Inv, TypeOK, Open, history
<1>7. CacheCoherent'
  <2>1. \A g \in Names : (file_descriptors'[g] # 0 => streams'[file_descriptors'[g]] = g)
    <3> TAKE g \in Names
    <3>1. CASE g = f
      BY <1>2, <1>3, <3>1
    <3>2. CASE g # f
      <4>1. file_descriptors'[g] = file_descriptors[g] /\ file_descriptors[g] \in 0..Len(streams)
        BY <1>3, <3>2 DEF Inv, TypeOK
      <4>2. file_descriptors[g] # 0 => streams[file_descriptors[g]] = g
        BY DEF Inv, CacheCoherent
      <4> QED BY <1>1, <1>2, <4>1, <4>2
    <3> QED BY <3>1, <3>2
  <2>2. \A i \in 1..Len(streams') : file_descriptors'[streams'[i]] = i
    <3> TAKE i \in 1..Len(streams')
    <3>1. CASE i = m
      BY <1>2, <1>3, <3>1
    <3>2. CASE i # m
      <4>1. i \in 1..Len(streams) /\ streams'[i] = streams[i] /\ streams[i] \in Names
        <5>1. i \in 1..Len(streams)
          BY <1>1, <1>2, <3>2
        <5>2. streams \in Seq(Names)
          BY DEF Inv, TypeOK
        <5> QED BY <1>2, <5>1, <5>2
      <4>2. file_descriptors[streams[i]] = i /\ i # 0
        BY <4>1 DEF Inv, CacheCoherent
      <4> QED BY <1>1, <1>3, <4>1, <4>2
    <3> QED BY <3>1, <3>2
  <2> QED BY <1>1, <1>3, <1>5, <2>1, <2>2 DEF CacheCoherent
<1>8. FilesHold'
  <2>1. \A g \in Names : (disk'[g] = disk[g])
    BY <1>1, <1>4 DEF Inv, FilesHold
  <2>2. taken' = taken /\ \A g \in Names : Pending(g)' = Pending(g)
    BY <1>5 DEF Pending, Open, history
  <2>3. \A g \in Names : file_descriptors'[g] = 0 => file_descriptors[g] = 0
    BY <1>1, <1>3
  <2> QED BY <2>1, <2>2, <2>3 DEF Inv, FilesHold
<1> QED BY <1>6, <1>7, <1>8 DEF Inv

LEMMA OpenRaisesInv == Inv /\ OpenRaises => Inv'
<1> SUFFICES ASSUME Inv, OpenRaises PROVE Inv'
  OBVIOUS
<1>1. call.taken = <<>> /\ call.name \in Names
  BY DEF Inv, CacheCoherent, TypeOK, Calls, OpenRaises
<1>2. TypeOK'
  BY DEF Inv, TypeOK, OpenRaises, cacheVars, history, Idle, Calls
<1>3. CacheCoherent'
  BY DEF Inv, CacheCoherent, OpenRaises, cacheVars
<1>4. FilesHold'
  <2>1. \A g \in Names : (Pending(g) = <<>> /\ Pending(g)' = <<>>)
    BY <1>1, PyFilesAssumption DEF Pending, OpenRaises, Idle
  <2> QED BY <2>1 DEF Inv, FilesHold, OpenRaises, cacheVars, history
<1> QED BY <1>2, <1>3, <1>4 DEF Inv

\* What a write stores, and where.
LEMMA WriteFacts ==
  ASSUME Inv, Write
  PROVE  /\ call.name \in Names /\ streams[last_fd] = call.name
         /\ file_descriptors[call.name] # 0
         /\ call.taken \in Seq(Bytes)
         /\ disk' = [disk EXCEPT ![call.name] = disk[call.name] \o call.taken]
         /\ disk' \in [Names -> Seq(Bytes)]
<1>1. call.name \in Names /\ call.taken \in Seq(Bytes) /\ disk \in [Names -> Seq(Bytes)]
  BY DEF Inv, TypeOK, Calls, Write
<1>2. streams[last_fd] = call.name /\ file_descriptors[call.name] # 0
  BY <1>1, PyFilesAssumption DEF Inv, CacheCoherent, Write
<1>3. disk' = [disk EXCEPT ![call.name] = disk[call.name] \o call.taken]
  BY <1>2 DEF Write
<1>4. disk[call.name] \o call.taken \in Seq(Bytes)
  BY <1>1, JoinFacts
<1>5. disk' \in [Names -> Seq(Bytes)]
  BY <1>1, <1>3, <1>4, OneStored
<1> QED BY <1>1, <1>2, <1>3, <1>5

LEMMA WriteInv == Inv /\ Write => Inv'
<1> SUFFICES ASSUME Inv, Write PROVE Inv'
  OBVIOUS
<1>1. call' = Idle /\ pc' = "ready"
  BY DEF Write
<1>2. TypeOK'
  <2>1. /\ disk' \in [Names -> Seq(Bytes)] /\ call' \in Calls
        /\ (pc' \in {"called", "writing"}) <=> (call'.name # None)
    BY <1>1, WriteFacts, EmptyFacts
  <2> QED BY <1>1, <2>1 DEF Inv, TypeOK, Write, cacheVars, history
<1>3. CacheCoherent'
  BY <1>1 DEF Inv, CacheCoherent, Write, cacheVars
<1>4. FilesHold'
  <2> SUFFICES ASSUME NEW g \in Names
               PROVE  /\ taken'[g] = disk'[g] \o Pending(g)'
                      /\ (file_descriptors'[g] = 0 => disk'[g] = <<>>)
    BY DEF FilesHold
  <2>1. Pending(g)' = <<>>
    BY <1>1, PyFilesAssumption DEF Pending, Idle
  <2>2. disk'[g] \in Seq(Bytes) /\ disk'[g] \o <<>> = disk'[g]
    BY WriteFacts, JoinFacts
  <2>3. taken[g] = disk[g] \o Pending(g) /\ (file_descriptors[g] = 0 => disk[g] = <<>>)
    BY DEF Inv, FilesHold
  <2>4. taken' = taken /\ file_descriptors' = file_descriptors
    BY DEF Write, cacheVars, history
  <2>5. CASE g = call.name
    <3>1. disk'[g] = disk[g] \o call.taken
      BY <2>5, WriteFacts DEF Inv, TypeOK
    <3> QED BY <2>1, <2>2, <2>3, <2>4, <2>5, <3>1, WriteFacts DEF Pending
  <2>6. CASE g # call.name
    <3>1. disk'[g] = disk[g]
      BY <2>6, WriteFacts DEF Inv, TypeOK
    <3>2. Pending(g) = <<>>
      BY <2>6 DEF Pending
    <3> QED BY <2>1, <2>3, <2>4, <3>1, <3>2
  <2> QED BY <2>5, <2>6
<1> QED BY <1>2, <1>3, <1>4 DEF Inv

LEMMA CloseInv == Inv /\ (BeginClose \/ Close \/ Return) => Inv'
<1> SUFFICES ASSUME Inv, BeginClose \/ Close \/ Return PROVE Inv'
  OBVIOUS
<1>1. /\ UNCHANGED <<cacheVars, streams, disk, call, ncalls, history>>
      /\ closed' \in 0..Len(streams)
      /\ pc' \in {"closing", "returned", "raised"} /\ pc \in {"ready", "closing"}
  BY DEF Inv, TypeOK, BeginClose, Close, Return, MoreToClose
<1>2. TypeOK'
  BY <1>1 DEF Inv, TypeOK, cacheVars, history
<1>3. CacheCoherent'
  BY <1>1 DEF Inv, CacheCoherent, cacheVars
<1>4. FilesHold'
  BY <1>1 DEF Inv, FilesHold, Pending, cacheVars, history
<1> QED BY <1>2, <1>3, <1>4 DEF Inv

LEMMA StepInv == Inv /\ [Next]_vars => Inv'
<1> SUFFICES ASSUME Inv, [Next]_vars PROVE Inv'
  OBVIOUS
<1>1. CASE UNCHANGED vars
  BY <1>1 DEF vars, Inv, TypeOK, CacheCoherent, FilesHold, Pending, HasStream
<1>2. CASE \E f \in Names, s \in Chunks : Call(f, s)
  BY <1>2, CallInv
<1> QED BY <1>1, <1>2, ReuseInv, LookupInv, OpenInv, OpenRaisesInv, WriteInv, CloseInv DEF Next

LEMMA SpecInv == Spec => []Inv
BY InitInv, StepInv, PTL DEF Spec

\* The write callback's cache is coherent: the stream written to is the one of the
\* name it was called with, and no file is opened twice (utils.py:218-235).
THEOREM StreamsCoherent == Spec => []CacheCoherent
<1>1. Inv => CacheCoherent
  BY DEF Inv
<1> QED BY <1>1, SpecInv, PTL

\* Every file holds what its streams take of the chunks passed for it, in order,
\* whichever calls raise an exception (utils.py:218-235).
THEOREM FilesHoldAll == Spec => []FilesHold
<1>1. Inv => FilesHold
  BY DEF Inv
<1> QED BY <1>1, SpecInv, PTL

-----------------------------------------------------------------------------
(* What is there when parse_as_files returns.                               *)

\* Between two calls the files hold all that was taken.
LEMMA IdleHolds == Inv /\ call = Idle => disk = taken
<1> SUFFICES ASSUME Inv, call = Idle PROVE disk = taken
  OBVIOUS
<1>1. \A f \in Names : taken[f] = disk[f]
  <2> TAKE f \in Names
  <2>1. disk[f] \in Seq(Bytes)
    BY DEF Inv, TypeOK
  <2>2. Pending(f) = <<>>
    BY PyFilesAssumption DEF Pending, Idle
  <2>3. disk[f] \o <<>> = disk[f]
    BY <2>1, JoinFacts
  <2> QED BY <2>2, <2>3 DEF Inv, FilesHold
<1> QED BY <1>1 DEF Inv, TypeOK

\* As long as no exception is lost the streams take all that is sent, and the
\* streams are all closed at the end.
SentAndClosed == /\ (~lost => taken = sent)
                 /\ (pc = "returned" => closed = Len(streams))

LEMMA CallSent ==
  ASSUME Inv, SentAndClosed, NEW f \in Names, NEW s \in Chunks, Call(f, s)
  PROVE  SentAndClosed'
<1>1. PICK k \in 0..Len(s), opens \in BOOLEAN :
        LET known == f = last_filename \/ file_descriptors[f] # 0
            t == IF known \/ opens THEN SubSeq(s, 1, k) ELSE <<>>
        IN  /\ taken' = [taken EXCEPT ![f] = @ \o t]
            /\ lost' = (lost \/ t # s)
  BY DEF Call
<1> DEFINE known == f = last_filename \/ file_descriptors[f] # 0
           t == IF known \/ opens THEN SubSeq(s, 1, k) ELSE <<>>
<1> HIDE DEF known, t
<1>2. taken' = [taken EXCEPT ![f] = @ \o t] /\ lost' = (lost \/ t # s)
  BY <1>1 DEF known, t
<1>3. ~lost' => ~lost /\ t = s
  BY <1>2
<1>4. sent' = [sent EXCEPT ![f] = @ \o s] /\ pc' = "called"
  BY DEF Call
<1>5. ~lost' => taken' = sent'
  BY <1>2, <1>3, <1>4 DEF SentAndClosed
<1> QED BY <1>4, <1>5 DEF SentAndClosed

LEMMA StepSent == Inv /\ SentAndClosed /\ [Next]_vars => SentAndClosed'
<1> SUFFICES ASSUME Inv, SentAndClosed, [Next]_vars PROVE SentAndClosed'
  OBVIOUS
<1>1. CASE UNCHANGED vars
  BY <1>1 DEF vars, SentAndClosed
<1>2. CASE \E f \in Names, s \in Chunks : Call(f, s)
  BY <1>2, CallSent
<1>3. CASE Reuse \/ Lookup \/ Open \/ OpenRaises \/ Write \/ BeginClose \/ Close
  <2>1. UNCHANGED <<taken, sent, lost>> /\ pc' # "returned"
    BY <1>3 DEF Reuse, Lookup, Open, OpenRaises, Write, BeginClose, Close, history
  <2> QED BY <2>1 DEF SentAndClosed
<1>4. CASE Return
  <2>1. UNCHANGED <<taken, sent, lost, closed, streams>>
    BY <1>4 DEF Return, history
  <2>2. closed = Len(streams)
    BY <1>4 DEF Inv, TypeOK, Return, MoreToClose
  <2> QED BY <2>1, <2>2 DEF SentAndClosed
<1> QED BY <1>1, <1>2, <1>3, <1>4 DEF Next

\* When parse_as_files returns, every stream is closed, and unless an exception
\* was ignored every file holds all that the library has passed for it
\* (client.py:104-167, utils.py:218-241).
THEOREM FilesComplete == Spec => []ReturnsComplete
<1>1. Init => SentAndClosed
  BY DEF Init, SentAndClosed
<1>2. Inv /\ SentAndClosed => ReturnsComplete
  <2> SUFFICES ASSUME Inv, SentAndClosed, pc = "returned", ~lost PROVE disk = sent
    BY DEF ReturnsComplete, SentAndClosed
  <2>1. call = Idle
    BY DEF Inv, TypeOK
  <2>2. disk = taken
    BY <2>1, IdleHolds
  <2> QED BY <2>2 DEF SentAndClosed
<1> QED BY <1>1, <1>2, SpecInv, StepSent, PTL DEF Spec

-----------------------------------------------------------------------------
(* The callback implements a log per file.                                  *)

LEMMA CallLogs ==
  ASSUME Inv, NEW f \in Names, NEW s \in Chunks, Call(f, s)
  PROVE  FileLog!Accept(f)
<1>1. PICK t \in Seq(Bytes) : taken' = [taken EXCEPT ![f] = @ \o t]
  BY CallFacts
<1>2. taken[f] \in Seq(Bytes) /\ taken \in [Names -> Seq(Bytes)]
  BY DEF Inv, TypeOK
<1>3. taken'[f] = taken[f] \o t
  BY <1>1, <1>2
<1>4. taken' = [taken EXCEPT ![f] = taken'[f]]
  BY <1>1, <1>3
<1>5. FileLog!Prefix(taken[f], taken'[f])
  BY <1>2, <1>3, JoinFacts DEF FileLog!Prefix
<1>6. UNCHANGED disk /\ pc = "ready" /\ pc' = "called"
  BY DEF Call
<1> QED BY <1>4, <1>5, <1>6 DEF FileLog!Accept, FileLog!Grows

LEMMA OpenLogs == Inv /\ Open => UNCHANGED disk
<1> SUFFICES ASSUME Inv, Open PROVE disk' = disk
  OBVIOUS
<1>1. call.name \in Names /\ disk[call.name] = <<>> /\ disk \in [Names -> Seq(Bytes)]
  BY DEF Inv, TypeOK, FilesHold, Calls, Open, HasStream
<1> QED BY <1>1 DEF Open

LEMMA PrefixFacts ==
  ASSUME NEW s \in Seq(Bytes), NEW t \in Seq(Bytes)
  PROVE  FileLog!Prefix(s, s \o t) /\ FileLog!Prefix(s, s)
BY JoinFacts DEF FileLog!Prefix

LEMMA WriteLogs ==
  ASSUME Inv, Write, NEW f \in Names, f = call.name
  PROVE  FileLog!Deliver(f)
<1>1. /\ call.taken \in Seq(Bytes) /\ disk \in [Names -> Seq(Bytes)]
      /\ disk[f] \in Seq(Bytes) /\ taken[f] \in Seq(Bytes)
      /\ disk' = [disk EXCEPT ![f] = disk[f] \o call.taken]
  BY WriteFacts DEF Inv, TypeOK
<1>2. disk'[f] = disk[f] \o call.taken /\ disk' = [disk EXCEPT ![f] = disk'[f]]
  BY <1>1
<1>3. FileLog!Prefix(disk[f], disk'[f])
  BY <1>1, <1>2, PrefixFacts
<1>4. disk'[f] = taken[f]
  BY <1>1, <1>2 DEF Inv, FilesHold, Pending
<1>5. FileLog!Prefix(disk'[f], taken[f])
  BY <1>1, <1>4, PrefixFacts
<1>6. UNCHANGED taken /\ pc = "writing" /\ pc' = "ready"
  BY DEF Write, history
<1>7. FileLog!Grows(disk, disk', f)
  BY <1>2, <1>3 DEF FileLog!Grows
<1> QED BY <1>5, <1>6, <1>7 DEF FileLog!Deliver

LEMMA BeginCloseLogs == Inv /\ BeginClose => FileLog!Close
<1> SUFFICES ASSUME Inv, BeginClose PROVE FileLog!Close
  OBVIOUS
<1>1. pc = "ready" /\ pc' = "closing" /\ UNCHANGED <<disk, taken>>
  BY DEF BeginClose, history
<1>2. call = Idle
  BY <1>1 DEF Inv, TypeOK
<1>3. disk = taken
  BY <1>2, IdleHolds
<1> QED BY <1>1, <1>3 DEF FileLog!Close

LEMMA StepLogs == Inv /\ [Next]_vars => [FileLog!LogNext]_FileLog!logVars
<1> SUFFICES ASSUME Inv, [Next]_vars PROVE [FileLog!LogNext]_FileLog!logVars
  OBVIOUS
<1>1. CASE UNCHANGED vars
  BY <1>1 DEF vars, FileLog!logVars
<1>2. CASE \E f \in Names, s \in Chunks : Call(f, s)
  BY <1>2, CallLogs DEF FileLog!LogNext
<1>3. CASE Write
  <2>1. call.name \in Names
    BY <1>3, WriteFacts
  <2> QED BY <1>3, <2>1, WriteLogs DEF FileLog!LogNext
<1>4. CASE BeginClose
  BY <1>4, BeginCloseLogs DEF FileLog!LogNext
<1>5. CASE Open
  BY <1>5, OpenLogs DEF Open, history, FileLog!logVars
<1>6. CASE Reuse \/ Lookup \/ OpenRaises
  BY <1>6 DEF Reuse, Lookup, OpenRaises, history, FileLog!logVars
<1>7. CASE Close \/ Return
  BY <1>7 DEF Close, Return, history, FileLog!logVars
<1> QED BY <1>1, <1>2, <1>3, <1>4, <1>5, <1>6, <1>7 DEF Next

\* The callback implements a log per file: the files written by Python are, for
\* every sequence of calls and every failure, prefixes of what their streams take
\* that only grow, and are complete when the streams are closed.
THEOREM CallbackIsLog == Spec => ImplementsFileLog
<1>1. Init => FileLog!LogInit
  BY DEF Init, FileLog!LogInit
<1> QED BY <1>1, SpecInv, StepLogs, PTL DEF Spec, ImplementsFileLog, FileLog!LogSpec
=============================================================================
