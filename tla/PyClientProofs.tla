--------------------------- MODULE PyClientProofs ---------------------------
(***************************************************************************)
(* Proofs about PyClient, for any number of generators and any filings.    *)
(***************************************************************************)
EXTENDS PyClient, SequenceTheorems, TLAPS

\* What TypeOK needs to be inductive: lines are within their filings, and the
\* headers in cache are there when a form type is.
InFile(l) == l.line \in 1..Len(filing[l.gen])
Bounds == /\ \A g \in Gens : at[g] <= Len(filing[g])
          /\ memory # None => InFile(memory)
          /\ \A g \in Gens : skip[g] => memory # None
          /\ \A g \in Gens : lastForm[g] # None => lastHeaders[g] # None
IInv == TypeOK /\ Bounds /\ Handshake

-----------------------------------------------------------------------------
(* Facts about the data.                                                     *)

LEMMA ElementType ==
  ASSUME NEW S, NEW s \in Seq(S), NEW i \in 1..Len(s) PROVE s[i] \in S
OBVIOUS

\* A line of a filing has a form type.
LEMMA TextType ==
  ASSUME ParserType, NEW l \in Lines, InFile(l)
  PROVE  Text(l).form \in Forms
<1>1. filing[l.gen] \in Seq([form : Forms, odd : BOOLEAN, bad : BOOLEAN])
  BY ClientAssumption DEF ParserType, Lines
<1>2. l.line \in 1..Len(filing[l.gen])
  BY DEF InFile
<1>3. filing[l.gen][l.line] \in [form : Forms, odd : BOOLEAN, bad : BOOLEAN]
  BY <1>1, <1>2, ElementType
<1>4. QED
  BY <1>3 DEF Text

LEMMA NoLineIsNone == None \notin Lines
BY ClientAssumption DEF Lines

\* No row is taken for done_processing.
LEMMA RowsAreNotDone == \A item \in Items : item # Done
BY ClientAssumption DEF Items, Done

\* A queue of one item.
LEMMA OneItem ==
  ASSUME NEW S, NEW q \in Seq(S), NEW item \in S, q = <<>>
  PROVE  /\ Append(q, item) \in Seq(S)
         /\ Append(q, item) # <<>>
         /\ Len(Append(q, item)) = 1
         /\ Head(Append(q, item)) = item
OBVIOUS

LEMMA TakeItem ==
  ASSUME NEW S, NEW q \in Seq(S), q # <<>>
  PROVE  /\ Head(q) \in S
         /\ Tail(q) \in Seq(S)
         /\ Len(Tail(q)) = Len(q) - 1
OBVIOUS

LEMMA OneLess ==
  ASSUME NEW n \in Nat, NEW m \in Nat, m = n - 1, n <= 1 PROVE m = 0 /\ n = 1
OBVIOUS

LEMMA NoItem ==
  ASSUME NEW S, NEW q \in Seq(S), Len(q) = 0 PROVE q = <<>>
OBVIOUS

-----------------------------------------------------------------------------
(* The invariant holds at first and is kept by every action.                 *)

LEMMA InitIInv == Init => IInv
<1> SUFFICES ASSUME Init PROVE IInv
  OBVIOUS
<1>1. TypeOK
  <2>1. ParserType
    <3>1. /\ filing \in [Gens -> Filings] /\ at \in [Gens -> Nat]
          /\ memory \in Lines \cup {None}
          /\ opened \in [Gens -> SUBSET Forms] /\ calls \in [Gens -> Seq(Calls)]
      BY DEF Init
    <3>2. skip \in [Gens -> BOOLEAN]
      BY DEF Init
    <3>3. QED
      BY <3>1, <3>2 DEF ParserType
  <2>2. CacheType
    BY DEF Init, CacheType
  <2>3. QueueType
    <3>1. /\ queue \in [Gens -> Seq(Items \cup {Done})]
          /\ unfinished \in [Gens -> Nat]
          /\ yielded \in [Gens -> Seq(Items)]
      BY DEF Init
    <3>2. /\ thread \in [Gens -> {"none", "running", "joining", "over"}]
          /\ gen \in [Gens -> {"created", "getting", "yielded", "ended", "closed"}]
          /\ caller \in Gens \cup {None}
      BY DEF Init
    <3>3. freed \in BOOLEAN
      BY DEF Init
    <3>4. QED
      BY <3>1, <3>2, <3>3 DEF QueueType
  <2>4. QED
    BY <2>1, <2>2, <2>3 DEF TypeOK
<1>2. Bounds
  <2>1. \A g \in Gens : filing[g] \in Seq([form : Forms, odd : BOOLEAN, bad : BOOLEAN])
    BY ClientAssumption DEF Init
  <2>2. QED
    BY <2>1 DEF Init, Bounds
<1>3. Handshake
  <2> SUFFICES ASSUME NEW g \in Gens PROVE HandshakeOf(g)
    BY DEF Handshake
  <2>1. /\ queue[g] = <<>> /\ unfinished[g] = 0 /\ thread[g] = "none"
        /\ gen[g] = "created" /\ caller # g
    BY ClientAssumption DEF Init
  <2>2. QED
    BY <2>1 DEF HandshakeOf
<1>4. QED
  BY <1>1, <1>2, <1>3 DEF IInv

LEMMA ParseLineInv ==
  ASSUME IInv, NEW g \in Gens, ParseLine(g) PROVE IInv'
<1> DEFINE l == Given(g)
           n == IF skip[g] THEN at[g] ELSE at[g] + 1
           ahead == Text(l).odd /\ n < Len(filing[g])
           new == Text(l).form \notin opened[g]
           rowCall == Call("row", l)
           made == (IF new THEN <<Call("headers", l)>> ELSE <<>>) \o <<rowCall>>
<1>1. /\ ParserType /\ CacheType /\ QueueType /\ Bounds /\ Handshake
      /\ thread[g] = "running"
      /\ skip[g] \/ at[g] < Len(filing[g])
  BY DEF IInv, TypeOK, ParseLine
<1>2. /\ at' = [at EXCEPT ![g] = IF ahead THEN n + 1 ELSE n]
      /\ memory' = IF ahead THEN [gen |-> g, line |-> n + 1] ELSE l
      /\ skip' = [skip EXCEPT ![g] = ahead]
      /\ opened' = [opened EXCEPT ![g] = @ \cup {Text(l).form}]
      /\ calls' = [calls EXCEPT ![g] = made]
  BY DEF ParseLine
<1>3. UNCHANGED <<filing, thread, queue, unfinished, headers, lastForm, lastHeaders,
                  gen, yielded, caller, freed>>
  BY DEF ParseLine, cacheVars
<1>4. at[g] \in Nat /\ Len(filing[g]) \in Nat /\ at[g] <= Len(filing[g])
  <2>1. filing[g] \in Seq([form : Forms, odd : BOOLEAN, bad : BOOLEAN])
    BY <1>1, ClientAssumption DEF ParserType
  <2>2. QED
    BY <1>1, <2>1 DEF ParserType, Bounds
<1>5. l \in Lines /\ InFile(l)
  <2>1. CASE skip[g]
    <3>1. memory # None /\ memory \in Lines /\ InFile(memory)
      BY <1>1, <2>1 DEF ParserType, Bounds
    <3>2. QED
      BY <2>1, <3>1 DEF Given
  <2>2. CASE ~skip[g]
    <3>1. l = [gen |-> g, line |-> at[g] + 1]
      BY <2>2 DEF Given
    <3>2. QED
      BY <1>1, <1>4, <2>2, <3>1 DEF Lines, InFile
  <2>3. QED
    BY <2>1, <2>2
<1>6. n \in Nat /\ n <= Len(filing[g])
  BY <1>1, <1>4
<1>7. Text(l).form \in Forms
  BY <1>1, <1>5, TextType
<1> HIDE DEF l, n, ahead
<1>8. made \in Seq(Calls)
  <2>1. rowCall \in Calls /\ Call("headers", l) \in Calls
    BY <1>5, <1>7 DEF Call, Calls
  <2>2. QED
    BY <2>1
<1> HIDE DEF made
<1>9. ParserType'
  <2>1. at' \in [Gens -> Nat]
    BY <1>1, <1>2, <1>6 DEF ParserType
  <2>2. memory' \in Lines \cup {None}
    BY <1>2, <1>5, <1>6 DEF Lines
  <2>3. skip' \in [Gens -> BOOLEAN]
    <3>1. ahead \in BOOLEAN
      BY DEF ahead
    <3>2. skip \in [Gens -> BOOLEAN]
      BY <1>1 DEF ParserType
    <3>3. QED
      BY <1>2, <3>1, <3>2
  <2>4. opened' \in [Gens -> SUBSET Forms]
    BY <1>1, <1>2, <1>7 DEF ParserType
  <2>5. calls' \in [Gens -> Seq(Calls)]
    BY <1>1, <1>2, <1>8 DEF ParserType
  <2>6. filing' \in [Gens -> Filings]
    BY <1>1, <1>3 DEF ParserType
  <2>7. QED
    BY <2>1, <2>2, <2>3, <2>4, <2>5, <2>6 DEF ParserType
<1>10. Bounds'
  <2>1. ahead => n + 1 <= Len(filing[g])
    BY <1>4, <1>6 DEF ahead
  <2>2. \A k \in Gens : at'[k] <= Len(filing'[k])
    <3>1. at'[g] <= Len(filing[g])
      BY <1>1, <1>2, <1>6, <2>1 DEF ParserType
    <3>2. \A k \in Gens : k # g => at'[k] = at[k]
      BY <1>1, <1>2 DEF ParserType
    <3>3. QED
      BY <1>1, <1>3, <3>1, <3>2 DEF Bounds
  <2>3. memory' # None /\ InFile(memory)'
    <3>1. CASE ahead
      <4>1. memory' = [gen |-> g, line |-> n + 1]
        BY <1>2, <3>1
      <4>2. memory'.gen = g /\ memory'.line = n + 1
        BY <4>1
      <4>3. memory' # None
        BY <4>1, NoLineIsNone, <1>6 DEF Lines
      <4>4. QED
        BY <1>3, <1>4, <1>6, <2>1, <3>1, <4>2, <4>3 DEF InFile
    <3>2. CASE ~ahead
      <4>1. memory' = l
        BY <1>2, <3>2
      <4>2. QED
        BY <1>3, <1>5, <4>1, NoLineIsNone DEF InFile
    <3>3. QED
      BY <3>1, <3>2
  <2>4. QED
    BY <1>1, <1>3, <2>2, <2>3 DEF Bounds
<1>11. CacheType' /\ QueueType'
  BY <1>1, <1>3 DEF CacheType, QueueType
<1>12. Handshake'
  BY <1>1, <1>3 DEF Handshake, HandshakeOf
<1>13. QED
  BY <1>9, <1>10, <1>11, <1>12 DEF IInv, TypeOK

\* When every item is acknowledged the program waits for the next one.
LEMMA NothingUnfinished ==
  ASSUME QueueType, NEW g \in Gens, HandshakeOf(g),
         unfinished[g] = 0, thread[g] # "none"
  PROVE  gen[g] = "getting" /\ caller = g /\ queue[g] = <<>>
<1>1. Len(queue[g]) \in Nat /\ (Len(queue[g]) = 0 => queue[g] = <<>>)
  <2>1. queue[g] \in Seq(Items \cup {Done})
    BY DEF QueueType
  <2>2. QED
    BY <2>1
<1>2. unfinished[g] = Len(queue[g])
                       + (IF gen[g] \in {"yielded", "closed", "ended"} THEN 1 ELSE 0)
  BY DEF HandshakeOf
<1>3. Len(queue[g]) = 0
  <2>1. CASE gen[g] \in {"yielded", "closed", "ended"}
    <3>1. unfinished[g] = Len(queue[g]) + 1
      BY <1>2, <2>1
    <3>2. QED
      BY <1>1, <3>1
  <2>2. CASE gen[g] \notin {"yielded", "closed", "ended"}
    <3>1. unfinished[g] = Len(queue[g]) + 0
      BY <1>2, <2>2
    <3>2. QED
      BY <1>1, <3>1
  <2>3. QED
    BY <2>1, <2>2
<1>4. gen[g] \notin {"yielded", "closed", "ended"}
  <2>1. CASE gen[g] \in {"yielded", "closed", "ended"}
    <3>1. unfinished[g] = Len(queue[g]) + 1
      BY <1>2, <2>1
    <3>2. QED
      BY <1>1, <3>1
  <2>2. QED
    BY <2>1
<1>5. gen[g] = "getting"
  BY <1>4 DEF HandshakeOf, QueueType
<1>6. QED
  BY <1>1, <1>3, <1>5 DEF HandshakeOf

\* What a thread that runs does to the queue: its item is the only one.
LEMMA PutKeeps ==
  ASSUME QueueType, Handshake, NEW g \in Gens, thread[g] = "running",
         NEW item \in Items \cup {Done}, Put(g, item),
         NEW t, (t = "joining" /\ item # Done) \/ (t = "over" /\ item = Done),
         thread' = [thread EXCEPT ![g] = t],
         UNCHANGED <<gen, yielded, caller, freed>>
  PROVE  QueueType' /\ Handshake'
<1>1. /\ queue' = [queue EXCEPT ![g] = Append(@, item)]
      /\ unfinished' = [unfinished EXCEPT ![g] = unfinished[g] + 1]
  BY DEF Put, Counted
<1>2. queue[g] \in Seq(Items \cup {Done}) /\ unfinished[g] \in Nat
  BY DEF QueueType
<1>3. HandshakeOf(g)
  BY DEF Handshake
<1>4. /\ queue[g] = <<>> /\ unfinished[g] = 0 /\ gen[g] = "getting" /\ caller = g
  <2>1. unfinished[g] = 0 /\ thread[g] # "none"
    BY <1>3 DEF HandshakeOf
  <2>2. QED
    BY <1>3, <2>1, NothingUnfinished
<1>5. /\ Append(queue[g], item) \in Seq(Items \cup {Done})
      /\ Append(queue[g], item) # <<>>
      /\ Len(Append(queue[g], item)) = 1
      /\ Head(Append(queue[g], item)) = item
  BY <1>2, <1>4, OneItem
<1>6. /\ queue'[g] = Append(queue[g], item) /\ unfinished'[g] = 1 /\ thread'[g] = t
      /\ \A k \in Gens : k # g => /\ queue'[k] = queue[k]
                                 /\ unfinished'[k] = unfinished[k]
                                 /\ thread'[k] = thread[k]
  BY <1>1, <1>4 DEF QueueType
<1>7. QueueType'
  <2>1. queue' \in [Gens -> Seq(Items \cup {Done})]
    BY <1>1, <1>5 DEF QueueType
  <2>2. unfinished' \in [Gens -> Nat]
    BY <1>1, <1>2 DEF QueueType
  <2>3. thread' \in [Gens -> {"none", "running", "joining", "over"}]
    BY DEF QueueType
  <2>4. QED
    BY <2>1, <2>2, <2>3 DEF QueueType
<1>8. HandshakeOf(g)'
  <2>1. t \in {"joining", "over"}
    OBVIOUS
  <2>2. gen'[g] = "getting" /\ caller' = g
    BY <1>4
  <2>3. QED
    BY <1>5, <1>6, <2>1, <2>2 DEF HandshakeOf
<1>9. ASSUME NEW k \in Gens, k # g PROVE HandshakeOf(k)'
  <2>1. /\ queue'[k] = queue[k] /\ unfinished'[k] = unfinished[k]
        /\ thread'[k] = thread[k] /\ gen'[k] = gen[k] /\ caller' = caller
    BY <1>6, <1>9
  <2>2. HandshakeOf(k)
    BY DEF Handshake
  <2>3. QED
    BY <2>1, <2>2 DEF HandshakeOf
<1>10. QED
  BY <1>7, <1>8, <1>9 DEF Handshake

LEMMA EndParseInv ==
  ASSUME IInv, NEW g \in Gens, EndParse(g) PROVE IInv'
<1>1. QueueType' /\ Handshake'
  BY PutKeeps DEF IInv, TypeOK, EndParse
<1>2. ParserType' /\ CacheType' /\ Bounds'
  BY DEF IInv, TypeOK, EndParse, ParserType, CacheType, Bounds, InFile, parserVars,
         cacheVars
<1>3. QED
  BY <1>1, <1>2 DEF IInv, TypeOK

LEMMA LineCallbackInv ==
  ASSUME IInv, NEW g \in Gens, LineCallback(g) PROVE IInv'
<1> DEFINE c == Head(calls[g])
           h == HeadersFor(g, c.form)
<1>1. /\ ParserType /\ CacheType /\ QueueType /\ Bounds /\ Handshake
      /\ thread[g] = "running" /\ calls[g] # <<>>
      /\ calls' = [calls EXCEPT ![g] = Tail(@)]
      /\ UNCHANGED <<filing, at, memory, skip, opened, gen, yielded, caller, freed>>
  BY DEF IInv, TypeOK, LineCallback
<1>2. c \in Calls /\ Tail(calls[g]) \in Seq(Calls)
  BY <1>1, TakeItem DEF ParserType
<1>3. c.form \in Forms /\ c.row \in Lines /\ c.form # None
  BY <1>2, ClientAssumption DEF Calls
<1>4. ParserType'
  BY <1>1, <1>2 DEF ParserType
<1> HIDE DEF c
<1>5. CASE /\ c.form # lastForm[g] /\ headers[g][c.form] = None
           /\ IF Raises(c) THEN UNCHANGED cacheVars
              ELSE /\ headers' = [headers EXCEPT ![g][c.form] = c.form]
                   /\ lastForm' = [lastForm EXCEPT ![g] = c.form]
                   /\ lastHeaders' = [lastHeaders EXCEPT ![g] = c.form]
           /\ UNCHANGED <<thread, queue, unfinished>>
  <2>1. CacheType'
    <3>1. CASE Raises(c)
      BY <1>1, <1>5, <3>1 DEF CacheType, cacheVars
    <3>2. CASE ~Raises(c)
      <4>1. /\ headers' = [headers EXCEPT ![g] = [headers[g] EXCEPT ![c.form] = c.form]]
            /\ lastForm' = [lastForm EXCEPT ![g] = c.form]
            /\ lastHeaders' = [lastHeaders EXCEPT ![g] = c.form]
        BY <1>5, <3>2
      <4>2. [headers[g] EXCEPT ![c.form] = c.form] \in [Forms -> Forms \cup {None}]
        BY <1>1, <1>3 DEF CacheType
      <4>3. QED
        BY <1>1, <1>3, <4>1, <4>2 DEF CacheType
    <3>3. QED
      BY <3>1, <3>2
  <2>2. \A k \in Gens : lastForm'[k] # None => lastHeaders'[k] # None
    BY <1>1, <1>3, <1>5 DEF CacheType, Bounds, cacheVars
  <2>3. Bounds'
    BY <1>1, <2>2 DEF Bounds, InFile
  <2>4. QueueType' /\ Handshake'
    BY <1>1, <1>5 DEF QueueType, Handshake, HandshakeOf
  <2>5. QED
    BY <1>4, <2>1, <2>3, <2>4 DEF IInv, TypeOK
<1>6. CASE /\ c.form = lastForm[g] \/ headers[g][c.form] # None
           /\ lastForm' = [lastForm EXCEPT ![g] = c.form]
           /\ lastHeaders' = [lastHeaders EXCEPT ![g] = h]
           /\ UNCHANGED headers
           /\ IF Raises(c) THEN UNCHANGED <<thread, queue, unfinished>>
              ELSE /\ Put(g, [form |-> c.form, headers |-> h, row |-> c.row])
                   /\ thread' = [thread EXCEPT ![g] = "joining"]
  <2>1. h \in Forms /\ h # None
    <3>1. CASE c.form = lastForm[g]
      <4>1. h = lastHeaders[g] /\ lastHeaders[g] # None
        BY <1>1, <1>3, <3>1 DEF HeadersFor, Bounds
      <4>2. QED
        BY <1>1, <4>1 DEF CacheType
    <3>2. CASE c.form # lastForm[g]
      <4>1. h = headers[g][c.form] /\ headers[g][c.form] # None
        BY <1>6, <3>2 DEF HeadersFor
      <4>2. QED
        BY <1>1, <1>3, <4>1 DEF CacheType
    <3>3. QED
      BY <3>1, <3>2
  <2> HIDE DEF h
  <2>2. CacheType'
    BY <1>1, <1>3, <1>6, <2>1 DEF CacheType
  <2>3. \A k \in Gens : lastForm'[k] # None => lastHeaders'[k] # None
    BY <1>1, <1>6, <2>1 DEF CacheType, Bounds
  <2>4. Bounds'
    BY <1>1, <2>3 DEF Bounds, InFile
  <2>5. QueueType' /\ Handshake'
    <3>1. CASE Raises(c)
      BY <1>1, <1>6, <3>1 DEF QueueType, Handshake, HandshakeOf
    <3>2. CASE ~Raises(c)
      <4> DEFINE item == [form |-> c.form, headers |-> h, row |-> c.row]
      <4>1. item \in Items /\ item # Done
        BY <1>3, <2>1, RowsAreNotDone DEF Items
      <4>2. Put(g, item) /\ thread' = [thread EXCEPT ![g] = "joining"]
        BY <1>6, <3>2
      <4>3. /\ item \in Items \cup {Done}
            /\ \/ "joining" = "joining" /\ item # Done
               \/ "joining" = "over" /\ item = Done
            /\ UNCHANGED <<gen, yielded, caller, freed>>
        BY <1>1, <4>1
      <4> HIDE DEF item
      <4>4. QED
        BY <1>1, <4>1, <4>2, <4>3, PutKeeps
    <3>3. QED
      BY <3>1, <3>2
  <2>6. QED
    BY <1>4, <2>2, <2>4, <2>5 DEF IInv, TypeOK
<1>7. QED
  BY <1>5, <1>6 DEF LineCallback, c

\* A step that leaves the other generators alone keeps their part.
LEMMA OthersKeep ==
  ASSUME Handshake, NEW g \in Gens, HandshakeOf(g)',
         \A k \in Gens : k # g => /\ queue'[k] = queue[k]
                                /\ unfinished'[k] = unfinished[k]
                                /\ thread'[k] = thread[k] /\ gen'[k] = gen[k]
                                /\ (caller' = k <=> caller = k)
  PROVE  Handshake'
<1> SUFFICES ASSUME NEW k \in Gens, k # g PROVE HandshakeOf(k)'
  BY DEF Handshake
<1>1. /\ queue'[k] = queue[k] /\ unfinished'[k] = unfinished[k]
      /\ thread'[k] = thread[k] /\ gen'[k] = gen[k]
  OBVIOUS
<1>2. (caller' = k) <=> (caller = k)
  OBVIOUS
<1>3. HandshakeOf(k)
  BY DEF Handshake
<1>4. QED
  BY <1>1, <1>2, <1>3 DEF HandshakeOf

\* The steps that leave the parser and the cache of the callback alone.
LEMMA ParserKept ==
  ASSUME ParserType, CacheType, Bounds, UNCHANGED <<filing, parserVars, cacheVars>>
  PROVE  ParserType' /\ CacheType' /\ Bounds'
BY DEF ParserType, CacheType, Bounds, InFile, parserVars, cacheVars

LEMMA ResumeInv ==
  ASSUME IInv, NEW g \in Gens, Resume(g) PROVE IInv'
<1>1. ParserType' /\ CacheType' /\ Bounds'
  BY ParserKept DEF IInv, TypeOK, Resume
<1>2. /\ QueueType /\ Handshake
      /\ thread[g] = "joining" /\ unfinished[g] = 0
      /\ thread' = [thread EXCEPT ![g] = "running"]
      /\ UNCHANGED <<queue, unfinished, gen, yielded, caller, freed>>
  BY DEF IInv, TypeOK, Resume, Joined
<1>3. QueueType'
  BY <1>2 DEF QueueType
<1>4. HandshakeOf(g)'
  <2>1. HandshakeOf(g)
    BY <1>2 DEF Handshake
  <2>2. gen[g] = "getting" /\ caller = g /\ queue[g] = <<>>
    BY <1>2, <2>1, NothingUnfinished
  <2>3. /\ thread'[g] = "running" /\ queue'[g] = <<>> /\ unfinished'[g] = 0
        /\ gen'[g] = "getting" /\ caller' = g
    BY <1>2, <2>2 DEF QueueType
  <2>4. QED
    BY <2>3 DEF HandshakeOf
<1>5. Handshake'
  BY <1>2, <1>4, OthersKeep DEF QueueType
<1>6. QED
  BY <1>1, <1>3, <1>5 DEF IInv, TypeOK

LEMMA StartInv ==
  ASSUME IInv, NEW g \in Gens, Start(g) PROVE IInv'
<1>1. ParserType' /\ CacheType' /\ Bounds'
  BY ParserKept DEF IInv, TypeOK, Start
<1>2. /\ QueueType /\ Handshake
      /\ caller = None /\ gen[g] = "created"
      /\ thread' = [thread EXCEPT ![g] = "running"]
      /\ gen' = [gen EXCEPT ![g] = "getting"] /\ caller' = g
      /\ UNCHANGED <<queue, unfinished, yielded, freed>>
  BY DEF IInv, TypeOK, Start
<1>3. QueueType'
  <2>1. /\ thread' \in [Gens -> {"none", "running", "joining", "over"}]
        /\ gen' \in [Gens -> {"created", "getting", "yielded", "ended", "closed"}]
        /\ caller' \in Gens \cup {None}
    BY <1>2 DEF QueueType
  <2>2. QED
    BY <1>2, <2>1 DEF QueueType
<1>4. HandshakeOf(g)'
  <2>1. HandshakeOf(g)
    BY <1>2 DEF Handshake
  <2>2. queue[g] = <<>>
    BY <1>2, <2>1 DEF HandshakeOf
  <2>3. unfinished[g] = 0
    BY <1>2, <2>1, <2>2 DEF HandshakeOf
  <2>4. /\ thread'[g] = "running" /\ gen'[g] = "getting" /\ caller' = g
        /\ queue'[g] = <<>> /\ unfinished'[g] = 0
    BY <1>2, <2>2, <2>3 DEF QueueType
  <2>5. QED
    BY <2>4 DEF HandshakeOf
<1>5. \A k \in Gens : k # g => thread'[k] = thread[k] /\ gen'[k] = gen[k]
  BY <1>2 DEF QueueType
<1>6. \A k \in Gens : k # g => ~(caller' = k) /\ ~(caller = k)
  BY <1>2, ClientAssumption
<1>7. Handshake'
  BY <1>2, <1>4, <1>5, <1>6, OthersKeep
<1>8. QED
  BY <1>1, <1>3, <1>7 DEF IInv, TypeOK

LEMMA NextRowInv ==
  ASSUME IInv, NEW g \in Gens, NextRow(g) PROVE IInv'
<1>1. ParserType' /\ CacheType' /\ Bounds'
  BY ParserKept DEF IInv, TypeOK, NextRow
<1>2. /\ QueueType /\ Handshake
      /\ caller = None /\ gen[g] = "yielded"
      /\ unfinished' = [unfinished EXCEPT ![g] = unfinished[g] - 1]
      /\ gen' = [gen EXCEPT ![g] = "getting"] /\ caller' = g
      /\ UNCHANGED <<thread, queue, yielded, freed>>
  BY DEF IInv, TypeOK, NextRow, Finished
<1>3. Len(queue[g]) \in Nat /\ HandshakeOf(g)
  <2>1. queue[g] \in Seq(Items \cup {Done})
    BY <1>2 DEF QueueType
  <2>2. QED
    BY <1>2, <2>1 DEF Handshake
<1>4. unfinished[g] - 1 = Len(queue[g])
  BY <1>2, <1>3 DEF HandshakeOf
<1>5. QueueType'
  <2>1. unfinished' \in [Gens -> Nat]
    BY <1>2, <1>3, <1>4 DEF QueueType
  <2>2. /\ gen' \in [Gens -> {"created", "getting", "yielded", "ended", "closed"}]
        /\ caller' \in Gens \cup {None}
    BY <1>2 DEF QueueType
  <2>3. QED
    BY <1>2, <2>1, <2>2 DEF QueueType
<1>6. HandshakeOf(g)'
  <2>1. /\ unfinished'[g] = Len(queue[g]) /\ gen'[g] = "getting" /\ caller' = g
        /\ thread'[g] = thread[g] /\ queue'[g] = queue[g]
    BY <1>2, <1>4 DEF QueueType
  <2>2. thread[g] = "joining"
    BY <1>2, <1>3 DEF HandshakeOf
  <2>3. QED
    BY <1>3, <2>1, <2>2 DEF HandshakeOf
<1>7. \A k \in Gens : k # g => unfinished'[k] = unfinished[k] /\ gen'[k] = gen[k]
  BY <1>2 DEF QueueType
<1>8. \A k \in Gens : k # g => ~(caller' = k) /\ ~(caller = k)
  BY <1>2, ClientAssumption
<1>9. Handshake'
  BY <1>2, <1>6, <1>7, <1>8, OthersKeep
<1>10. QED
  BY <1>1, <1>5, <1>9 DEF IInv, TypeOK

LEMMA GetRowInv ==
  ASSUME IInv, NEW g \in Gens, GetRow(g) PROVE IInv'
<1> DEFINE item == Head(queue[g])
<1>1. ParserType' /\ CacheType' /\ Bounds'
  BY ParserKept DEF IInv, TypeOK, GetRow
<1>2. /\ QueueType /\ Handshake
      /\ caller = g /\ queue[g] # <<>>
      /\ queue' = [queue EXCEPT ![g] = Tail(queue[g])]
      /\ \/ /\ item # Done
            /\ yielded' = [yielded EXCEPT ![g] = Append(yielded[g], item)]
            /\ gen' = [gen EXCEPT ![g] = "yielded"]
         \/ /\ item = Done
            /\ gen' = [gen EXCEPT ![g] = "ended"]
            /\ yielded' = yielded
      /\ caller' = None
      /\ UNCHANGED <<thread, unfinished, freed>>
  BY DEF IInv, TypeOK, GetRow, AtDone
<1>3. /\ item \in Items \cup {Done}
      /\ Tail(queue[g]) \in Seq(Items \cup {Done})
      /\ Len(Tail(queue[g])) = Len(queue[g]) - 1
      /\ Len(queue[g]) \in Nat /\ Len(Tail(queue[g])) \in Nat
      /\ (Len(Tail(queue[g])) = 0 => Tail(queue[g]) = <<>>)
  <2>1. queue[g] \in Seq(Items \cup {Done})
    BY <1>2 DEF QueueType
  <2>2. item \in Items \cup {Done} /\ Tail(queue[g]) \in Seq(Items \cup {Done})
    BY <1>2, <2>1, TakeItem
  <2>3. Len(Tail(queue[g])) = Len(queue[g]) - 1
    BY <1>2, <2>1, TakeItem
  <2>4. Len(queue[g]) \in Nat /\ Len(Tail(queue[g])) \in Nat
    BY <2>1, <2>2
  <2>5. Len(Tail(queue[g])) = 0 => Tail(queue[g]) = <<>>
    BY <2>2, NoItem
  <2>6. QED
    BY <2>2, <2>3, <2>4, <2>5
<1>4. HandshakeOf(g) /\ gen[g] = "getting"
  BY <1>2 DEF Handshake, HandshakeOf
<1>5. unfinished[g] = 1 /\ Tail(queue[g]) = <<>> /\ Len(Tail(queue[g])) = 0
  <2>1. Len(queue[g]) <= 1 /\ unfinished[g] = Len(queue[g]) + 0
    BY <1>4 DEF HandshakeOf
  <2>2. /\ Len(queue[g]) \in Nat /\ Len(Tail(queue[g])) \in Nat
        /\ Len(Tail(queue[g])) = Len(queue[g]) - 1
    BY <1>3
  <2>3. Len(Tail(queue[g])) = 0 /\ Len(queue[g]) = 1
    BY <2>1, <2>2, OneLess
  <2>4. unfinished[g] = 1
    BY <2>1, <2>3
  <2>5. QED
    BY <1>3, <2>3, <2>4
<1>6. \/ thread[g] = "joining" /\ item # Done
      \/ thread[g] = "over" /\ item = Done
  BY <1>2, <1>4 DEF HandshakeOf
<1> HIDE DEF item
<1>7. QueueType'
  <2>1. queue' \in [Gens -> Seq(Items \cup {Done})]
    BY <1>2, <1>3 DEF QueueType
  <2>2. yielded' \in [Gens -> Seq(Items)]
    <3>1. CASE item # Done
      <4>1. item \in Items /\ yielded[g] \in Seq(Items)
        BY <1>2, <1>3, <3>1 DEF QueueType
      <4>2. Append(yielded[g], item) \in Seq(Items)
        BY <4>1
      <4>3. yielded' = [yielded EXCEPT ![g] = Append(yielded[g], item)]
        BY <1>2, <3>1
      <4>4. QED
        BY <1>2, <4>2, <4>3 DEF QueueType
    <3>2. CASE item = Done
      BY <1>2, <3>2 DEF QueueType
    <3>3. QED
      BY <3>1, <3>2
  <2>3. /\ gen' \in [Gens -> {"created", "getting", "yielded", "ended", "closed"}]
        /\ caller' \in Gens \cup {None}
    BY <1>2 DEF QueueType
  <2>4. QED
    BY <1>2, <2>1, <2>2, <2>3 DEF QueueType
<1>8. HandshakeOf(g)'
  <2>1. /\ queue'[g] = <<>> /\ Len(queue'[g]) = 0 /\ unfinished'[g] = 1
        /\ caller' # g /\ thread'[g] = thread[g]
    BY <1>2, <1>5, ClientAssumption DEF QueueType
  <2>2. \/ gen'[g] = "yielded" /\ thread[g] = "joining"
        \/ gen'[g] = "ended" /\ thread[g] = "over"
    BY <1>2, <1>6 DEF QueueType
  <2>3. unfinished'[g] = Len(queue'[g]) + 1 /\ Len(queue'[g]) <= 1
    BY <2>1
  <2>4. QED
    BY <2>1, <2>2, <2>3 DEF HandshakeOf
<1>9. \A k \in Gens : k # g => queue'[k] = queue[k] /\ gen'[k] = gen[k]
  BY <1>2 DEF QueueType
<1>10. \A k \in Gens : k # g => ~(caller' = k) /\ ~(caller = k)
  BY <1>2, ClientAssumption
<1>11. Handshake'
  BY <1>2, <1>8, <1>9, <1>10, OthersKeep
<1>12. QED
  BY <1>1, <1>7, <1>11 DEF IInv, TypeOK

LEMMA CloseInv ==
  ASSUME IInv, NEW g \in Gens, Close(g) PROVE IInv'
<1>1. ParserType' /\ CacheType' /\ Bounds'
  BY ParserKept DEF IInv, TypeOK, Close
<1>2. /\ QueueType /\ Handshake
      /\ caller = None /\ gen[g] = "yielded"
      /\ gen' = [gen EXCEPT ![g] = "closed"]
      /\ UNCHANGED <<thread, queue, unfinished, yielded, caller, freed>>
  BY DEF IInv, TypeOK, Close
<1>3. QueueType'
  BY <1>2 DEF QueueType
<1>4. HandshakeOf(g)'
  <2>1. HandshakeOf(g) /\ caller # g
    BY <1>2, ClientAssumption DEF Handshake
  <2>2. gen'[g] = "closed"
    BY <1>2 DEF QueueType
  <2>3. QED
    BY <1>2, <2>1, <2>2 DEF HandshakeOf
<1>5. \A k \in Gens : k # g => gen'[k] = gen[k]
  BY <1>2 DEF QueueType
<1>6. Handshake'
  BY <1>2, <1>4, <1>5, OthersKeep
<1>7. QED
  BY <1>1, <1>3, <1>6 DEF IInv, TypeOK

LEMMA FreeMemoryInv ==
  ASSUME IInv, FreeMemory PROVE IInv'
<1>1. ParserType' /\ CacheType' /\ Bounds'
  BY ParserKept DEF IInv, TypeOK, FreeMemory
<1>2. QueueType' /\ Handshake'
  BY DEF IInv, TypeOK, FreeMemory, QueueType, Handshake, HandshakeOf
<1>3. QED
  BY <1>1, <1>2 DEF IInv, TypeOK

LEMMA StepIInv == IInv /\ [Next]_vars => IInv'
<1> SUFFICES ASSUME IInv, [Next]_vars PROVE IInv'
  OBVIOUS
<1>1. ASSUME NEW g \in Gens, ThreadStep(g) PROVE IInv'
  BY <1>1, ParseLineInv, EndParseInv, LineCallbackInv, ResumeInv DEF ThreadStep
<1>2. ASSUME NEW g \in Gens, Start(g) PROVE IInv'
  BY <1>2, StartInv
<1>3. ASSUME NEW g \in Gens, NextRow(g) PROVE IInv'
  BY <1>3, NextRowInv
<1>4. ASSUME NEW g \in Gens, GetRow(g) PROVE IInv'
  BY <1>4, GetRowInv
<1>5. ASSUME NEW g \in Gens, Close(g) PROVE IInv'
  BY <1>5, CloseInv
<1>6. CASE FreeMemory
  BY <1>6, FreeMemoryInv
<1>7. CASE UNCHANGED vars
  <2>1. ParserType' /\ CacheType' /\ Bounds'
    BY <1>7, ParserKept DEF IInv, TypeOK, vars, parserVars, cacheVars
  <2>2. QueueType' /\ Handshake'
    BY <1>7 DEF IInv, TypeOK, vars, QueueType, Handshake, HandshakeOf
  <2>3. QED
    BY <2>1, <2>2 DEF IInv, TypeOK
<1>8. QED
  BY <1>1, <1>2, <1>3, <1>4, <1>5, <1>6, <1>7 DEF Next

-----------------------------------------------------------------------------
(* The theorems.                                                             *)

\* The inductive invariant: types, bounds and the handshake of queue and thread.
THEOREM Invariance == Spec => []IInv
BY InitIInv, StepIInv, PTL DEF Spec

\* Every variable keeps its type; task_done is never called once too often.
THEOREM ClientType == Spec => []TypeOK
<1>1. IInv => TypeOK
  BY DEF IInv
<1>2. QED
  BY <1>1, Invariance, PTL

\* The queue and its count agree with the two sides, for any number of
\* generators of the same LibFastFEC.
THEOREM ClientHandshake == Spec => []Handshake
<1>1. IInv => Handshake
  BY DEF IInv
<1>2. QED
  BY <1>1, Invariance, PTL

LEMMA RunningIsAsked == IInv => SingleThreaded
<1> SUFFICES ASSUME IInv, NEW g \in Gens, thread[g] = "running" PROVE caller = g
  BY DEF SingleThreaded
<1>1. HandshakeOf(g) /\ QueueType
  BY DEF IInv, TypeOK, Handshake
<1>2. unfinished[g] = 0 /\ thread[g] # "none"
  BY <1>1 DEF HandshakeOf
<1>3. QED
  BY <1>1, <1>2, NothingUnfinished

\* The parser of a generator runs only while the program waits in next for it
\* ("It's essentially still single-threaded", client.py:84).
THEOREM OneThread == Spec => []SingleThreaded
BY Invariance, RunningIsAsked, PTL

\* Whoever frees the memory waits for no row, and asks for none after that.
Idle == freed => caller = None

LEMMA StepIdle == Idle /\ [Next]_vars => Idle'
BY DEF Idle, Next, ThreadStep, ParseLine, EndParse, LineCallback, Resume, Start,
       NextRow, GetRow, Close, FreeMemory, vars

LEMMA FreedKept == IInv /\ Idle /\ [Next]_vars => [freed => UNCHANGED <<parserVars, thread>>]_vars
<1> SUFFICES ASSUME IInv, Idle, Next, freed
             PROVE  UNCHANGED <<parserVars, thread>>
  BY DEF vars
<1>1. \A g \in Gens : caller # g
  BY ClientAssumption DEF Idle
<1>2. ASSUME NEW g \in Gens, ThreadStep(g) PROVE FALSE
  <2>1. thread[g] = "running" \/ Resume(g)
    BY <1>2 DEF ThreadStep, ParseLine, EndParse, LineCallback
  <2>2. CASE thread[g] = "running"
    BY <1>1, <2>2, RunningIsAsked DEF SingleThreaded
  <2>3. CASE Resume(g)
    <3>1. HandshakeOf(g) /\ QueueType
      BY DEF IInv, TypeOK, Handshake
    <3>2. unfinished[g] = 0 /\ thread[g] # "none"
      BY <2>3 DEF Resume, Joined
    <3>3. QED
      BY <1>1, <3>1, <3>2, NothingUnfinished
  <2>4. QED
    BY <2>1, <2>2, <2>3
<1>3. ASSUME NEW g \in Gens, Start(g) \/ NextRow(g) \/ GetRow(g) PROVE FALSE
  BY <1>1, <1>3 DEF Start, NextRow, GetRow
<1>4. ASSUME NEW g \in Gens, Close(g) PROVE UNCHANGED <<parserVars, thread>>
  BY <1>4 DEF Close
<1>5. CASE FreeMemory
  BY <1>5 DEF FreeMemory
<1>6. QED
  BY <1>2, <1>3, <1>4, <1>5 DEF Next

\* After the with block no thread of any generator takes a step.
THEOREM NoUse == Spec => NoUseAfterFree
<1>1. Init => Idle
  BY DEF Init, Idle
<1>2. QED
  BY <1>1, Invariance, StepIdle, FreedKept, PTL DEF Spec, NoUseAfterFree

-----------------------------------------------------------------------------
(* The rows: what the line callback has in cache, and how far a parse is.   *)

RowCall(l) == Call("row", l)
HeadersCall(l) == Call("headers", l)

\* The calls of the line callback to come are those for one line.
CallsOf(g) ==
  calls[g] # <<>> =>
    \E l \in Lines : /\ InFile(l) /\ Text(l).form \in opened[g]
                     /\ calls[g] \in {<<RowCall(l)>>, <<HeadersCall(l), RowCall(l)>>}

\* The form types whose header row the callback has been given.
Declared(g) == IF calls[g] # <<>> /\ Head(calls[g]).what = "headers"
               THEN opened[g] \ {Head(calls[g]).form} ELSE opened[g]

CacheOf(g) ==
  /\ \A f \in Forms : headers[g][f] = IF f \in Declared(g) THEN f ELSE None
  /\ lastForm[g] # None => lastForm[g] \in Declared(g) /\ lastHeaders[g] = lastForm[g]

CallsCached == \A g \in Gens : CallsOf(g) /\ CacheOf(g)

\* The lines given to parseLine, those whose rows were handed to the callback,
\* and those whose rows the program has.
Passed(g) == IF skip[g] THEN at[g] - 1 ELSE at[g]
Handed(g) == IF calls[g] = <<>> THEN Passed(g) ELSE Passed(g) - 1
RowWaits(g) == queue[g] # <<>> /\ Head(queue[g]) # Done
Reached(g) == IF RowWaits(g) THEN Handed(g) - 1 ELSE Handed(g)

EvenFiling(g) == \A i \in DOMAIN filing[g] : ~filing[g][i].odd
LineOf(g, i) == [gen |-> g, line |-> i]
Rising(s) == \A j, k \in DOMAIN s : (j < k => s[j].row.line < s[k].row.line)
RowsIn(s) == {s[k] : k \in DOMAIN s}

Progress(g) ==
  /\ Handed(g) \in 0..Len(filing[g])
  /\ skip[g] => at[g] >= 1 /\ memory = LineOf(g, at[g]) /\ ~EvenFiling(g)
  /\ \A k \in 1..Len(calls[g]) : calls[g][k].row = LineOf(g, Passed(g))
  /\ RowWaits(g) => /\ Handed(g) >= 1 /\ Head(queue[g]) = RowOf(g, Handed(g))
                    /\ ~filing[g][Handed(g)].bad
  /\ RowsIn(yielded[g]) = RowsUpTo(g, Reached(g))
  /\ Rising(yielded[g])
  /\ thread[g] = "over" => calls[g] = <<>> /\ Handed(g) = Len(filing[g])

InOrder == \A g \in Gens : Undisturbed(g) => Progress(g)

RInv == IInv /\ CallsCached /\ InOrder

LEMMA CallFacts ==
  ASSUME NEW l \in Lines
  PROVE  /\ <<RowCall(l)>> # <<>> /\ <<HeadersCall(l), RowCall(l)>> # <<>>
         /\ Head(<<RowCall(l)>>) = RowCall(l) /\ Tail(<<RowCall(l)>>) = <<>>
         /\ Head(<<HeadersCall(l), RowCall(l)>>) = HeadersCall(l)
         /\ Tail(<<HeadersCall(l), RowCall(l)>>) = <<RowCall(l)>>
         /\ RowCall(l).what = "row" /\ HeadersCall(l).what = "headers"
         /\ RowCall(l).form = Text(l).form /\ HeadersCall(l).form = Text(l).form
         /\ RowCall(l).row = l /\ HeadersCall(l).row = l
BY DEF RowCall, HeadersCall, Call

\* The calls to make for a line, and what they have in common.
CallsFor(l) == {<<RowCall(l)>>, <<HeadersCall(l), RowCall(l)>>}
AllOf(c, l) == c # <<>> /\ 1 \in 1..Len(c) /\ \A k \in 1..Len(c) : c[k].row = l

LEMMA CallsForLine == ASSUME NEW l \in Lines, NEW c \in CallsFor(l) PROVE AllOf(c, l)
<1> DEFINE r == RowCall(l)
           h == HeadersCall(l)
<1>1. r.row = l /\ h.row = l
  BY CallFacts
<1> HIDE DEF r, h
<1>2. CASE c = <<r>>
  BY <1>1, <1>2 DEF AllOf
<1>3. CASE c = <<h, r>>
  BY <1>1, <1>3 DEF AllOf
<1> QED
  BY <1>2, <1>3 DEF CallsFor, r, h

\* The line that parseLine is given is one of a filing, with a form type.
LEMMA GivenFacts ==
  ASSUME IInv, NEW g \in Gens, skip[g] \/ at[g] < Len(filing[g])
  PROVE  Given(g) \in Lines /\ InFile(Given(g)) /\ Text(Given(g)).form \in Forms
<1>1. /\ ParserType /\ Bounds
      /\ at[g] \in Nat /\ Len(filing[g]) \in Nat
  <2>1. filing[g] \in Seq([form : Forms, odd : BOOLEAN, bad : BOOLEAN])
    BY ClientAssumption DEF IInv, TypeOK, ParserType
  <2> QED
    BY <2>1 DEF IInv, TypeOK, ParserType
<1>2. Given(g) \in Lines /\ InFile(Given(g))
  <2>1. CASE skip[g]
    <3>1. memory # None /\ memory \in Lines /\ InFile(memory)
      BY <1>1, <2>1 DEF ParserType, Bounds
    <3> QED
      BY <2>1, <3>1 DEF Given
  <2>2. CASE ~skip[g]
    BY <1>1, <2>2 DEF Given, Lines, InFile
  <2> QED
    BY <2>1, <2>2
<1> QED
  BY <1>1, <1>2, TextType

LEMMA Pair == ASSUME NEW x, NEW y PROVE <<x>> \o <<y>> = <<x, y>>
<1> DEFINE s == <<x>> \o <<y>>
           t == <<x, y>>
<1>1. <<x>> \in Seq({x, y}) /\ <<y>> \in Seq({x, y}) /\ t \in Seq({x, y})
  OBVIOUS
<1>2. s \in Seq({x, y})
  BY <1>1
<1>3. Len(s) = 2 /\ s[1] = x /\ s[2] = y
  BY <1>1
<1>4. Len(t) = 2 /\ t[1] = x /\ t[2] = y
  OBVIOUS
<1> HIDE DEF s, t
<1>5. \A i \in 1..Len(s) : s[i] = t[i]
  BY <1>3, <1>4
<1> QED
  BY <1>1, <1>2, <1>3, <1>4, <1>5, SeqEqual DEF s, t

\* What parseLine leaves: the calls for a line, and maybe a line grabbed ahead.
LEMMA ParseLineFacts ==
  ASSUME IInv, NEW g \in Gens, ParseLine(g)
  PROVE  LET l == Given(g)
             n == IF skip[g] THEN at[g] ELSE at[g] + 1
             ahead == Text(l).odd /\ n < Len(filing[g])
         IN  /\ calls[g] = <<>> /\ thread[g] = "running"
             /\ l \in Lines /\ InFile(l) /\ Text(l).form \in Forms
             /\ at'[g] = IF ahead THEN n + 1 ELSE n
             /\ memory' = IF ahead THEN LineOf(g, n + 1) ELSE l
             /\ skip'[g] = ahead
             /\ opened'[g] = opened[g] \cup {Text(l).form}
             /\ calls'[g] = IF Text(l).form \in opened[g] THEN <<RowCall(l)>>
                            ELSE <<HeadersCall(l), RowCall(l)>>
             /\ \A k \in Gens \ {g} : /\ at'[k] = at[k] /\ skip'[k] = skip[k]
                                      /\ opened'[k] = opened[k] /\ calls'[k] = calls[k]
<1> DEFINE l == Given(g)
           n == IF skip[g] THEN at[g] ELSE at[g] + 1
           ahead == Text(l).odd /\ n < Len(filing[g])
           made == (IF Text(l).form \notin opened[g] THEN <<Call("headers", l)>> ELSE <<>>)
                     \o <<Call("row", l)>>
<1>1. /\ calls[g] = <<>> /\ thread[g] = "running"
      /\ at' = [at EXCEPT ![g] = IF ahead THEN n + 1 ELSE n]
      /\ memory' = IF ahead THEN LineOf(g, n + 1) ELSE l
      /\ skip' = [skip EXCEPT ![g] = ahead]
      /\ opened' = [opened EXCEPT ![g] = @ \cup {Text(l).form}]
      /\ calls' = [calls EXCEPT ![g] = made]
  BY DEF ParseLine, LineOf
<1>2. l \in Lines /\ InFile(l) /\ Text(l).form \in Forms
  BY GivenFacts DEF ParseLine
<1>3. made = IF Text(l).form \in opened[g] THEN <<RowCall(l)>>
             ELSE <<HeadersCall(l), RowCall(l)>>
  <2>1. <<HeadersCall(l)>> \o <<RowCall(l)>> = <<HeadersCall(l), RowCall(l)>>
    BY Pair, Zenon
  <2>2. CASE Text(l).form \in opened[g]
    <3>1. made = <<>> \o <<RowCall(l)>>
      BY <2>2, Zenon DEF RowCall
    <3>2. <<RowCall(l)>> \in Seq({RowCall(l)})
      OBVIOUS
    <3> QED
      BY <2>2, <3>1, <3>2, ConcatEmptySeq, Zenon
  <2>3. CASE Text(l).form \notin opened[g]
    <3>1. made = <<HeadersCall(l)>> \o <<RowCall(l)>>
      BY <2>3, Zenon DEF RowCall, HeadersCall
    <3> QED
      BY <2>1, <2>3, <3>1, Zenon
  <2> QED
    BY <2>2, <2>3
<1> HIDE DEF l, n, ahead, made
<1>4. ParserType
  BY DEF IInv, TypeOK
<1>5. at'[g] = IF ahead THEN n + 1 ELSE n
  BY <1>1, <1>4 DEF ParserType
<1>6. skip'[g] = ahead
  BY <1>1, <1>4 DEF ParserType
<1>7. opened'[g] = opened[g] \cup {Text(l).form}
  BY <1>1, <1>4 DEF ParserType
<1>8. calls'[g] = made
  BY <1>1, <1>4 DEF ParserType
<1>9. \A k \in Gens \ {g} : /\ at'[k] = at[k] /\ skip'[k] = skip[k]
                            /\ opened'[k] = opened[k] /\ calls'[k] = calls[k]
  BY <1>1, <1>4 DEF ParserType
<1> QED
  BY <1>1, <1>2, <1>3, <1>5, <1>6, <1>7, <1>8, <1>9 DEF l, n, ahead

\* A call of the line callback is one for a header row, which is kept, or one
\* for a row, which goes out with the headers of its form type.
LEMMA LineCallbackFacts ==
  ASSUME IInv, CallsCached, NEW g \in Gens, LineCallback(g)
  PROVE  \E l \in Lines :
           /\ InFile(l) /\ Text(l).form \in opened[g] /\ Text(l).form \in Forms
           /\ \/ /\ calls[g] = <<HeadersCall(l), RowCall(l)>> /\ calls'[g] = <<RowCall(l)>>
                 /\ headers'[g] = [headers[g] EXCEPT ![Text(l).form] = Text(l).form]
                 /\ lastForm'[g] = Text(l).form /\ lastHeaders'[g] = Text(l).form
                 /\ UNCHANGED <<thread, queue, unfinished>>
              \/ /\ calls[g] = <<RowCall(l)>> /\ calls'[g] = <<>>
                 /\ UNCHANGED headers
                 /\ lastForm'[g] = Text(l).form /\ lastHeaders'[g] = Text(l).form
                 /\ IF Text(l).bad THEN UNCHANGED <<thread, queue, unfinished>>
                    ELSE /\ Put(g, [form |-> Text(l).form, headers |-> Text(l).form, row |-> l])
                         /\ thread' = [thread EXCEPT ![g] = "joining"]
<1>1. /\ ParserType /\ CacheType /\ thread[g] = "running" /\ calls[g] # <<>>
      /\ CallsOf(g) /\ CacheOf(g)
  BY DEF IInv, TypeOK, LineCallback, CallsCached
<1>2. PICK l \in Lines : /\ InFile(l) /\ Text(l).form \in opened[g]
                         /\ calls[g] \in {<<RowCall(l)>>, <<HeadersCall(l), RowCall(l)>>}
  BY <1>1 DEF CallsOf
<1> DEFINE f == Text(l).form
<1>3. f \in Forms /\ f # None
  BY <1>1, <1>2, TextType, ClientAssumption
<1>4. calls'[g] = Tail(calls[g])
  BY <1>1 DEF LineCallback, ParserType
<1> HIDE DEF f
<1>5. CASE calls[g] = <<HeadersCall(l), RowCall(l)>>
  <2>1. /\ Head(calls[g]) = HeadersCall(l) /\ HeadersCall(l).form = f
        /\ HeadersCall(l).what = "headers" /\ Tail(calls[g]) = <<RowCall(l)>>
    BY <1>5, CallFacts DEF f
  <2>2. f \notin Declared(g)
    BY <1>1, <2>1 DEF Declared
  <2>3. headers[g][f] = None /\ f # lastForm[g]
    BY <1>1, <1>3, <2>2 DEF CacheOf
  <2>4. ~Raises(HeadersCall(l))
    BY <2>1 DEF Raises
  <2>5. /\ headers' = [headers EXCEPT ![g][f] = f]
        /\ lastForm' = [lastForm EXCEPT ![g] = f] /\ lastHeaders' = [lastHeaders EXCEPT ![g] = f]
        /\ UNCHANGED <<thread, queue, unfinished>>
    BY <2>1, <2>3, <2>4 DEF LineCallback
  <2>6. headers'[g] = [headers[g] EXCEPT ![f] = f] /\ lastForm'[g] = f /\ lastHeaders'[g] = f
    BY <1>1, <2>5 DEF CacheType
  <2> QED
    BY <1>2, <1>3, <1>4, <1>5, <2>1, <2>5, <2>6 DEF f
<1>6. CASE calls[g] = <<RowCall(l)>>
  <2>1. /\ Head(calls[g]) = RowCall(l) /\ RowCall(l).form = f /\ RowCall(l).row = l
        /\ RowCall(l).what = "row" /\ Tail(calls[g]) = <<>>
    BY <1>6, CallFacts DEF f
  <2>2. f \in Declared(g)
    BY <1>2, <2>1 DEF Declared, f
  <2>3. headers[g][f] = f
    BY <1>1, <1>3, <2>2 DEF CacheOf
  <2>4. HeadersFor(g, f) = f
    BY <1>1, <1>3, <2>3 DEF HeadersFor, CacheOf
  <2>5. Raises(RowCall(l)) <=> Text(l).bad
    BY <2>1 DEF Raises
  <2>6. /\ lastForm' = [lastForm EXCEPT ![g] = f] /\ lastHeaders' = [lastHeaders EXCEPT ![g] = f]
        /\ UNCHANGED headers
        /\ IF Raises(RowCall(l)) THEN UNCHANGED <<thread, queue, unfinished>>
           ELSE /\ Put(g, [form |-> f, headers |-> f, row |-> l])
                /\ thread' = [thread EXCEPT ![g] = "joining"]
    BY <1>3, <2>1, <2>3, <2>4 DEF LineCallback
  <2>7. lastForm'[g] = f /\ lastHeaders'[g] = f
    BY <1>1, <2>6 DEF CacheType
  <2> QED
    BY <1>2, <1>3, <1>4, <1>6, <2>1, <2>5, <2>6, <2>7 DEF f
<1> QED
  BY <1>2, <1>5, <1>6

-----------------------------------------------------------------------------
(* The cache of the line callback.                                          *)

LEMMA InitCached == Init => CallsCached
<1> SUFFICES ASSUME Init, NEW g \in Gens PROVE CallsOf(g) /\ CacheOf(g)
  BY DEF CallsCached
<1>1. /\ calls[g] = <<>> /\ opened[g] = {} /\ lastForm[g] = None
      /\ \A f \in Forms : headers[g][f] = None
  BY DEF Init
<1>2. Declared(g) = {}
  BY <1>1 DEF Declared
<1> QED
  BY <1>1, <1>2 DEF CallsOf, CacheOf

LEMMA CachedKept ==
  ASSUME NEW k \in Gens, CallsOf(k), CacheOf(k), UNCHANGED filing,
         calls'[k] = calls[k], opened'[k] = opened[k], headers'[k] = headers[k],
         lastForm'[k] = lastForm[k], lastHeaders'[k] = lastHeaders[k]
  PROVE  CallsOf(k)' /\ CacheOf(k)'
<1>1. CallsOf(k)'
  BY DEF CallsOf, InFile, Text, RowCall, HeadersCall, Call
<1>2. Declared(k)' = Declared(k)
  BY DEF Declared
<1>3. CacheOf(k)'
  BY <1>2 DEF CacheOf
<1> QED
  BY <1>1, <1>3

LEMMA ParseLineCached ==
  ASSUME IInv, CallsCached, NEW g \in Gens, ParseLine(g) PROVE CallsCached'
<1> DEFINE l == Given(g)
           f == Text(l).form
<1>1. /\ calls[g] = <<>> /\ l \in Lines /\ InFile(l) /\ f \in Forms
      /\ opened'[g] = opened[g] \cup {f}
      /\ calls'[g] = IF f \in opened[g] THEN <<RowCall(l)>> ELSE <<HeadersCall(l), RowCall(l)>>
      /\ \A k \in Gens \ {g} : opened'[k] = opened[k] /\ calls'[k] = calls[k]
  BY ParseLineFacts, Zenon
<1>2. UNCHANGED <<filing, headers, lastForm, lastHeaders>>
  BY DEF ParseLine, cacheVars
<1>3. ASSUME NEW k \in Gens, k # g PROVE CallsOf(k)' /\ CacheOf(k)'
  BY <1>1, <1>2, <1>3, CachedKept DEF CallsCached
<1>4. CallsOf(g)'
  <2>1. f \in opened'[g] /\ calls'[g] \in {<<RowCall(l)>>, <<HeadersCall(l), RowCall(l)>>}
    BY <1>1
  <2> HIDE DEF l
  <2> QED
    BY <1>1, <1>2, <2>1 DEF CallsOf, InFile, Text, RowCall, HeadersCall, Call
<1>5. Declared(g)' = Declared(g)
  <2>1. Declared(g) = opened[g]
    BY <1>1 DEF Declared
  <2>2. CASE f \in opened[g]
    <3>1. calls'[g] = <<RowCall(l)>> /\ opened'[g] = opened[g]
      BY <1>1, <2>2
    <3> HIDE DEF l, f
    <3> QED
      BY <1>1, <2>1, <3>1, CallFacts DEF Declared
  <2>3. CASE f \notin opened[g]
    <3>1. /\ calls'[g] = <<HeadersCall(l), RowCall(l)>> /\ opened'[g] = opened[g] \cup {f}
          /\ HeadersCall(l).form = f
      BY <1>1, <2>3, CallFacts
    <3>2. /\ calls'[g] # <<>> /\ Head(calls'[g]) = HeadersCall(l)
          /\ HeadersCall(l).what = "headers"
      BY <1>1, <3>1, CallFacts
    <3>3. Declared(g)' = opened'[g] \ {f}
      BY <3>1, <3>2, Zenon DEF Declared
    <3> HIDE DEF l, f
    <3> QED
      BY <2>1, <2>3, <3>1, <3>3
  <2> QED
    BY <2>2, <2>3
<1>6. CacheOf(g)'
  BY <1>2, <1>5 DEF CallsCached, CacheOf
<1> QED
  BY <1>3, <1>4, <1>6 DEF CallsCached

LEMMA LineCallbackCached ==
  ASSUME IInv, CallsCached, NEW g \in Gens, LineCallback(g) PROVE CallsCached'
<1>1. PICK l \in Lines :
        /\ InFile(l) /\ Text(l).form \in opened[g] /\ Text(l).form \in Forms
        /\ \/ /\ calls[g] = <<HeadersCall(l), RowCall(l)>> /\ calls'[g] = <<RowCall(l)>>
              /\ headers'[g] = [headers[g] EXCEPT ![Text(l).form] = Text(l).form]
           \/ calls[g] = <<RowCall(l)>> /\ calls'[g] = <<>> /\ UNCHANGED headers
        /\ lastForm'[g] = Text(l).form /\ lastHeaders'[g] = Text(l).form
  BY LineCallbackFacts, Zenon
<1> DEFINE f == Text(l).form
<1>2. /\ ParserType /\ CacheType /\ CallsOf(g) /\ CacheOf(g)
      /\ UNCHANGED <<filing, opened>>
      /\ \A k \in Gens \ {g} : /\ calls'[k] = calls[k] /\ headers'[k] = headers[k]
                               /\ lastForm'[k] = lastForm[k] /\ lastHeaders'[k] = lastHeaders[k]
  <2>1. ParserType /\ CacheType /\ CallsOf(g) /\ CacheOf(g) /\ UNCHANGED <<filing, opened>>
    BY DEF IInv, TypeOK, CallsCached, LineCallback
  <2>2. \A k \in Gens \ {g} : calls'[k] = calls[k]
    BY <2>1 DEF LineCallback, ParserType
  <2>3. \A k \in Gens \ {g} : headers'[k] = headers[k]
    BY <2>1 DEF LineCallback, CacheType, cacheVars
  <2>4. \A k \in Gens \ {g} : lastForm'[k] = lastForm[k] /\ lastHeaders'[k] = lastHeaders[k]
    BY <2>1 DEF LineCallback, CacheType, cacheVars
  <2> QED
    BY <2>1, <2>2, <2>3, <2>4
<1>3. ASSUME NEW k \in Gens, k # g PROVE CallsOf(k)' /\ CacheOf(k)'
  BY <1>2, <1>3, CachedKept DEF CallsCached
<1>4. CallsOf(g)'
  BY <1>1, <1>2 DEF CallsOf, InFile, Text, RowCall, HeadersCall, Call
<1>5. CacheOf(g)'
  <2>1. CASE calls[g] = <<HeadersCall(l), RowCall(l)>>
    <3>1. /\ calls'[g] = <<RowCall(l)>> /\ headers'[g] = [headers[g] EXCEPT ![f] = f]
      BY <1>1, <2>1, CallFacts
    <3>2. Declared(g) = opened[g] \ {f}
      <4>1. Head(calls[g]) = HeadersCall(l) /\ HeadersCall(l).what = "headers"
            /\ HeadersCall(l).form = f /\ calls[g] # <<>>
        BY <2>1, CallFacts
      <4> QED
        BY <4>1, Zenon DEF Declared
    <3>3. Declared(g)' = opened[g]
      <4>1. Head(calls'[g]) = RowCall(l) /\ RowCall(l).what = "row"
        BY <3>1, CallFacts
      <4> QED
        BY <1>2, <4>1 DEF Declared
    <3>4. \A x \in Forms : headers'[g][x] = IF x \in opened[g] THEN x ELSE None
      BY <1>1, <1>2, <3>1, <3>2 DEF CacheOf, CacheType
    <3> QED
      BY <1>1, <1>2, <3>3, <3>4 DEF CacheOf
  <2>2. CASE calls[g] = <<RowCall(l)>>
    <3>1. calls'[g] = <<>> /\ UNCHANGED headers
      BY <1>1, <2>2, CallFacts
    <3>2. Declared(g) = opened[g] /\ Declared(g)' = opened[g]
      BY <1>2, <2>2, <3>1, CallFacts DEF Declared
    <3> QED
      BY <1>1, <1>2, <3>1, <3>2 DEF CacheOf
  <2> QED
    BY <1>1, <2>1, <2>2
<1> QED
  BY <1>3, <1>4, <1>5 DEF CallsCached

LEMMA StepCached == IInv /\ CallsCached /\ [Next]_vars => CallsCached'
<1> SUFFICES ASSUME IInv, CallsCached, [Next]_vars PROVE CallsCached'
  OBVIOUS
<1>1. ASSUME UNCHANGED <<filing, calls, opened, headers, lastForm, lastHeaders>>
      PROVE  CallsCached'
  BY <1>1, CachedKept DEF CallsCached
<1>2. CASE UNCHANGED vars
  BY <1>1, <1>2 DEF vars
<1>3. ASSUME NEW g \in Gens,
             EndParse(g) \/ Resume(g) \/ Start(g) \/ NextRow(g) \/ GetRow(g) \/ Close(g)
      PROVE  CallsCached'
  BY <1>1, <1>3 DEF EndParse, Resume, Start, NextRow, GetRow, Close, parserVars, cacheVars
<1>4. CASE FreeMemory
  BY <1>1, <1>4 DEF FreeMemory, parserVars, cacheVars
<1> QED
  BY <1>2, <1>3, <1>4, ParseLineCached, LineCallbackCached DEF Next, ThreadStep

-----------------------------------------------------------------------------
(* How far a parse is.                                                      *)

LEMMA FilingFacts ==
  ASSUME IInv, NEW g \in Gens
  PROVE  /\ Len(filing[g]) \in Nat /\ DOMAIN filing[g] = 1..Len(filing[g])
         /\ \A i \in 1..Len(filing[g]) : filing[g][i].bad \in BOOLEAN
         /\ at[g] \in Nat /\ at[g] <= Len(filing[g]) /\ skip[g] \in BOOLEAN
         /\ calls[g] \in Seq(Calls) /\ Len(calls[g]) \in Nat
<1>1. filing[g] \in Seq([form : Forms, odd : BOOLEAN, bad : BOOLEAN])
  BY ClientAssumption DEF IInv, TypeOK, ParserType
<1>2. \A i \in 1..Len(filing[g]) : filing[g][i] \in [form : Forms, odd : BOOLEAN, bad : BOOLEAN]
  BY <1>1, ElementType
<1>3. /\ at[g] \in Nat /\ at[g] <= Len(filing[g]) /\ skip[g] \in BOOLEAN
      /\ calls[g] \in Seq(Calls)
  BY DEF IInv, TypeOK, ParserType, Bounds
<1> QED
  BY <1>1, <1>2, <1>3

\* A thread that runs has nothing in its queue.
LEMMA RunningFacts ==
  ASSUME IInv, NEW g \in Gens, thread[g] = "running"
  PROVE  queue[g] = <<>> /\ ~RowWaits(g) /\ gen[g] = "getting"
<1>1. HandshakeOf(g) /\ QueueType
  BY DEF IInv, TypeOK, Handshake
<1>2. unfinished[g] = 0 /\ thread[g] # "none"
  BY <1>1 DEF HandshakeOf
<1> QED
  BY <1>1, <1>2, NothingUnfinished DEF RowWaits

LEMMA RowsUpToNext ==
  ASSUME NEW g \in Gens, NEW m \in Nat
  PROVE  RowsUpTo(g, m + 1) = RowsUpTo(g, m)
                                \cup (IF filing[g][m + 1].bad THEN {} ELSE {RowOf(g, m + 1)})
<1>1. 1..(m + 1) = 1..m \cup {m + 1}
  OBVIOUS
<1> QED
  BY <1>1 DEF RowsUpTo

LEMMA NoRows == ASSUME NEW g \in Gens PROVE RowsUpTo(g, 0) = {}
BY DEF RowsUpTo

LEMMA RowFacts ==
  ASSUME NEW g \in Gens, NEW i \in Nat
  PROVE  /\ RowOf(g, i).row = LineOf(g, i) /\ RowOf(g, i).row.line = i
         /\ RowOf(g, i) = [form |-> filing[g][i].form, headers |-> filing[g][i].form,
                           row |-> LineOf(g, i)]
         /\ Text(LineOf(g, i)) = filing[g][i]
BY DEF RowOf, LineOf, Text

LEMMA InitOrder == Init => InOrder
<1> SUFFICES ASSUME Init, NEW g \in Gens PROVE Progress(g)
  BY DEF InOrder
<1>1. /\ at[g] = 0 /\ skip[g] = FALSE /\ calls[g] = <<>> /\ queue[g] = <<>>
      /\ yielded[g] = <<>> /\ thread[g] = "none"
  BY DEF Init
<1>2. Len(filing[g]) \in Nat
  BY ClientAssumption DEF Init
<1>3. Handed(g) = 0 /\ ~RowWaits(g) /\ Reached(g) = 0
  BY <1>1 DEF Handed, Passed, RowWaits, Reached
<1>4. RowsIn(yielded[g]) = {} /\ Rising(yielded[g])
  BY <1>1 DEF RowsIn, Rising
<1>5. Len(calls[g]) = 0 /\ RowsUpTo(g, Reached(g)) = {}
  BY <1>1, <1>3, NoRows
<1>6. \A k \in 1..Len(calls[g]) : calls[g][k].row = LineOf(g, Passed(g))
  BY <1>5
<1>7. Handed(g) \in 0..Len(filing[g])
  BY <1>2, <1>3
<1> QED
  BY <1>1, <1>3, <1>4, <1>5, <1>6, <1>7 DEF Progress

\* Nothing is undisturbed that was not before.
LEMMA UndisturbedBefore ==
  ASSUME NEW k \in Gens, UNCHANGED filing, Undisturbed(k)',
         \A h \in Gens : gen'[h] = "created" => gen[h] = "created"
  PROVE  Undisturbed(k)
BY DEF Undisturbed

LEMMA OrderKept ==
  ASSUME NEW k \in Gens, Progress(k), UNCHANGED filing,
         at'[k] = at[k], skip'[k] = skip[k], calls'[k] = calls[k], queue'[k] = queue[k],
         yielded'[k] = yielded[k], thread'[k] \in {thread[k], "running"},
         skip[k] => memory' = memory
  PROVE  Progress(k)'
<1>1. /\ Passed(k)' = Passed(k) /\ Handed(k)' = Handed(k)
      /\ RowWaits(k)' = RowWaits(k) /\ Reached(k)' = Reached(k) /\ EvenFiling(k)' = EvenFiling(k)
  BY DEF Passed, Handed, RowWaits, Reached, EvenFiling
<1>2. /\ RowsUpTo(k, Reached(k))' = RowsUpTo(k, Reached(k))
      /\ RowOf(k, Handed(k))' = RowOf(k, Handed(k))
      /\ RowsIn(yielded[k])' = RowsIn(yielded[k]) /\ Rising(yielded[k])' = Rising(yielded[k])
  BY <1>1 DEF RowsUpTo, RowOf, RowsIn, Rising
<1>3. thread'[k] = "over" => thread[k] = "over"
  OBVIOUS
<1> QED
  BY <1>1, <1>2, <1>3 DEF Progress

LEMMA ParseLineOrder ==
  ASSUME RInv, NEW g \in Gens, ParseLine(g) PROVE InOrder'
<1> DEFINE l == Given(g)
           n == IF skip[g] THEN at[g] ELSE at[g] + 1
           ahead == Text(l).odd /\ n < Len(filing[g])
<1>1. /\ IInv /\ calls[g] = <<>> /\ thread[g] = "running"
      /\ l \in Lines /\ InFile(l)
      /\ at'[g] = (IF ahead THEN n + 1 ELSE n)
      /\ memory' = (IF ahead THEN LineOf(g, n + 1) ELSE l)
      /\ skip'[g] = ahead
      /\ calls'[g] \in {<<RowCall(l)>>, <<HeadersCall(l), RowCall(l)>>}
      /\ \A k \in Gens \ {g} : at'[k] = at[k] /\ skip'[k] = skip[k] /\ calls'[k] = calls[k]
  BY ParseLineFacts, Zenon DEF RInv
<1>2. UNCHANGED <<filing, queue, thread, gen, yielded>>
  BY DEF ParseLine
<1>3. gen[g] = "getting" /\ ~RowWaits(g)
  BY <1>1, RunningFacts
<1>4. ASSUME NEW k \in Gens, k # g, Undisturbed(k)' PROVE Progress(k)'
  <2>1. Progress(k)
    BY <1>2, <1>4, UndisturbedBefore DEF RInv, InOrder
  <2>2. EvenFiling(k)
    BY <1>2, <1>3, <1>4 DEF Undisturbed, EvenFiling
  <2>3. ~skip[k]
    BY <2>1, <2>2 DEF Progress
  <2> QED
    BY <1>1, <1>2, <1>4, <2>1, <2>3, OrderKept
<1>5. ASSUME Undisturbed(g)' PROVE Progress(g)'
  <2>1. Progress(g)
    BY <1>2, <1>5, UndisturbedBefore DEF RInv, InOrder
  <2>2. /\ Len(filing[g]) \in Nat /\ DOMAIN filing[g] = 1..Len(filing[g])
        /\ at[g] \in Nat /\ at[g] <= Len(filing[g]) /\ skip[g] \in BOOLEAN
    BY <1>1, FilingFacts
  <2>3. /\ n = Passed(g) + 1 /\ l = LineOf(g, n) /\ Passed(g) \in Nat
        /\ Handed(g) = Passed(g)
    <3>1. CASE skip[g]
      BY <1>1, <2>1, <2>2, <3>1 DEF Progress, Passed, Given, Handed
    <3>2. CASE ~skip[g]
      BY <1>1, <2>2, <3>2 DEF Passed, Given, LineOf, Handed
    <3> QED
      BY <3>1, <3>2
  <2>4. n \in 1..Len(filing[g]) /\ Text(l) = filing[g][n]
    <3>1. l.gen = g /\ l.line = n
      BY <2>3 DEF LineOf
    <3> QED
      BY <1>1, <3>1 DEF InFile, Text
  <2> HIDE DEF l, n
  <2>5. /\ \A k \in 1..Len(calls'[g]) : calls'[g][k].row = l
        /\ calls'[g] # <<>>
    <3>1. l \in Lines /\ calls'[g] \in CallsFor(l)
      BY <1>1 DEF CallsFor
    <3>2. AllOf(calls'[g], l)
      BY <3>1, CallsForLine
    <3> QED
      BY <3>2, Zenon DEF AllOf
  <2>6. Passed(g)' = n /\ Handed(g)' = Handed(g)
    <3>1. n \in Nat
      BY <2>3
    <3>2. Passed(g)' = IF skip'[g] THEN at'[g] - 1 ELSE at'[g]
      BY DEF Passed
    <3>3. /\ at'[g] = (IF ahead THEN n + 1 ELSE n)
          /\ skip'[g] = ahead
      BY <1>1
    <3> HIDE DEF ahead
    <3>4. Passed(g)' = n
      BY <3>1, <3>2, <3>3
    <3>5. Handed(g)' = Passed(g)' - 1
      BY <2>5 DEF Handed
    <3> QED
      BY <2>3, <3>4, <3>5
  <2>7. RowWaits(g)' = RowWaits(g) /\ Reached(g)' = Reached(g)
    BY <1>2, <2>6 DEF RowWaits, Reached
  <2>8. /\ RowsUpTo(g, Reached(g))' = RowsUpTo(g, Reached(g))
        /\ RowsIn(yielded[g])' = RowsIn(yielded[g]) /\ Rising(yielded[g])' = Rising(yielded[g])
    BY <1>2, <2>7 DEF RowsUpTo, RowOf, RowsIn, Rising
  <2>9. skip'[g] => at'[g] >= 1 /\ memory' = LineOf(g, at'[g]) /\ ~EvenFiling(g)'
    <3> SUFFICES ASSUME skip'[g] PROVE at'[g] >= 1 /\ memory' = LineOf(g, at'[g]) /\ ~EvenFiling(g)'
      OBVIOUS
    <3>1. Text(l).odd /\ at'[g] = n + 1 /\ memory' = LineOf(g, n + 1)
      BY <1>1
    <3>2. n \in DOMAIN filing'[g] /\ filing'[g][n].odd
      BY <1>2, <2>2, <2>4, <3>1
    <3> QED
      BY <2>2, <2>4, <3>1, <3>2 DEF EvenFiling
  <2>10. \A k \in 1..Len(calls'[g]) : calls'[g][k].row = LineOf(g, Passed(g)')
    BY <2>3, <2>5, <2>6
  <2>11. thread'[g] # "over" /\ ~RowWaits(g)'
    BY <1>1, <1>2, <1>3, <2>7
  <2>12. Handed(g)' \in 0..Len(filing'[g]) /\ LineOf(g, Passed(g))' = LineOf(g, Passed(g)')
    BY <1>2, <2>1, <2>6 DEF Progress, LineOf
  <2>13. skip'[g] => LineOf(g, at[g])' = LineOf(g, at'[g])
    BY DEF LineOf
  <2> QED
    BY <2>1, <2>8, <2>9, <2>10, <2>11, <2>12, <2>13 DEF Progress
<1> QED
  BY <1>4, <1>5 DEF InOrder

LEMMA EndParseOrder ==
  ASSUME RInv, NEW g \in Gens, EndParse(g) PROVE InOrder'
<1>1. /\ IInv /\ thread[g] = "running" /\ calls[g] = <<>> /\ ~skip[g] /\ at[g] = Len(filing[g])
      /\ queue' = [queue EXCEPT ![g] = Append(@, Done)]
      /\ thread' = [thread EXCEPT ![g] = "over"]
      /\ UNCHANGED <<filing, at, memory, skip, calls, gen, yielded>>
  BY DEF RInv, EndParse, Put, parserVars
<1>2. queue[g] = <<>> /\ ~RowWaits(g) /\ QueueType
  BY <1>1, RunningFacts DEF IInv, TypeOK
<1>3. ASSUME NEW k \in Gens, k # g, Undisturbed(k)' PROVE Progress(k)'
  <2>1. Progress(k)
    BY <1>1, <1>3, UndisturbedBefore DEF RInv, InOrder
  <2>2. queue'[k] = queue[k] /\ thread'[k] = thread[k]
    BY <1>1, <1>2, <1>3 DEF QueueType
  <2> QED
    BY <1>1, <2>1, <2>2, OrderKept
<1>4. ASSUME Undisturbed(g)' PROVE Progress(g)'
  <2>1. Progress(g)
    BY <1>1, <1>4, UndisturbedBefore DEF RInv, InOrder
  <2>2. queue'[g] # <<>> /\ Head(queue'[g]) = Done /\ thread'[g] = "over"
    <3>1. queue'[g] = Append(queue[g], Done) /\ thread'[g] = "over"
      BY <1>1, <1>2 DEF QueueType
    <3> QED
      BY <1>2, <3>1, OneItem DEF QueueType
  <2>3. ~RowWaits(g)' /\ Handed(g)' = Handed(g) /\ Passed(g)' = Passed(g) /\ Reached(g)' = Reached(g)
    BY <1>1, <1>2, <2>2 DEF RowWaits, Handed, Passed, Reached
  <2>4. Handed(g)' = Len(filing'[g])
    BY <1>1, <2>3 DEF Handed, Passed
  <2>5. /\ RowsUpTo(g, Reached(g))' = RowsUpTo(g, Reached(g))
        /\ RowsIn(yielded[g])' = RowsIn(yielded[g]) /\ Rising(yielded[g])' = Rising(yielded[g])
        /\ EvenFiling(g)' = EvenFiling(g) /\ LineOf(g, Passed(g))' = LineOf(g, Passed(g))
    BY <1>1, <2>3 DEF RowsUpTo, RowOf, RowsIn, Rising, EvenFiling, LineOf
  <2> QED
    BY <1>1, <2>1, <2>2, <2>3, <2>4, <2>5 DEF Progress
<1> QED
  BY <1>3, <1>4 DEF InOrder

LEMMA LineCallbackOrder ==
  ASSUME RInv, NEW g \in Gens, LineCallback(g) PROVE InOrder'
<1>1. /\ IInv /\ thread[g] = "running"
      /\ UNCHANGED <<filing, at, memory, skip, gen, yielded>>
      /\ calls' = [calls EXCEPT ![g] = Tail(@)]
  BY DEF RInv, LineCallback
<1>2. PICK l \in Lines :
        \/ /\ calls[g] = <<HeadersCall(l), RowCall(l)>> /\ calls'[g] = <<RowCall(l)>>
           /\ UNCHANGED <<thread, queue, unfinished>>
        \/ /\ calls[g] = <<RowCall(l)>> /\ calls'[g] = <<>>
           /\ IF Text(l).bad THEN UNCHANGED <<thread, queue, unfinished>>
              ELSE /\ Put(g, [form |-> Text(l).form, headers |-> Text(l).form, row |-> l])
                   /\ thread' = [thread EXCEPT ![g] = "joining"]
  BY LineCallbackFacts, Zenon DEF RInv
<1> DEFINE item == [form |-> Text(l).form, headers |-> Text(l).form, row |-> l]
<1>3. queue[g] = <<>> /\ ~RowWaits(g) /\ QueueType /\ ParserType
  BY <1>1, RunningFacts DEF IInv, TypeOK
<1>4. \/ UNCHANGED <<thread, queue>>
      \/ queue' = [queue EXCEPT ![g] = Append(@, item)] /\ thread' = [thread EXCEPT ![g] = "joining"]
  BY <1>2 DEF Put
<1>5. ASSUME NEW k \in Gens, k # g, Undisturbed(k)' PROVE Progress(k)'
  <2>1. Progress(k)
    BY <1>1, <1>5, UndisturbedBefore DEF RInv, InOrder
  <2>2. queue'[k] = queue[k] /\ thread'[k] = thread[k] /\ calls'[k] = calls[k]
    BY <1>1, <1>3, <1>4, <1>5 DEF QueueType, ParserType
  <2> QED
    BY <1>1, <2>1, <2>2, OrderKept
<1>6. ASSUME Undisturbed(g)' PROVE Progress(g)'
  <2>1. Progress(g)
    BY <1>1, <1>6, UndisturbedBefore DEF RInv, InOrder
  <2>2. /\ Len(filing[g]) \in Nat /\ at[g] \in Nat /\ at[g] <= Len(filing[g])
        /\ skip[g] \in BOOLEAN
    BY <1>1, FilingFacts
  <2>3. /\ calls[g] # <<>> /\ l = LineOf(g, Passed(g)) /\ Passed(g) \in Nat
        /\ Handed(g) = Passed(g) - 1 /\ Handed(g) \in Nat /\ Reached(g) = Handed(g)
        /\ Passed(g) = Handed(g) + 1 /\ Passed(g) <= Len(filing[g])
    <3>1. calls[g] # <<>> /\ calls[g][1].row = l /\ 1 \in 1..Len(calls[g])
      <4>1. l \in Lines /\ calls[g] \in CallsFor(l)
        BY <1>2 DEF CallsFor
      <4>2. AllOf(calls[g], l)
        BY <4>1, CallsForLine
      <4> QED
        BY <4>2 DEF AllOf
    <3>2. l = LineOf(g, Passed(g))
      BY <2>1, <3>1 DEF Progress
    <3>3. Passed(g) \in Int /\ Handed(g) = Passed(g) - 1 /\ Handed(g) \in Nat
      BY <2>1, <2>2, <3>1 DEF Progress, Passed, Handed
    <3> QED
      BY <1>3, <2>2, <3>1, <3>2, <3>3 DEF Reached, Passed
  <2>4. Passed(g)' = Passed(g) /\ LineOf(g, Passed(g))' = LineOf(g, Passed(g))
    BY <1>1 DEF Passed, LineOf
  <2>5. /\ RowsUpTo(g, Reached(g))' = RowsUpTo(g, Reached(g)')
        /\ RowOf(g, Handed(g))' = RowOf(g, Handed(g)')
        /\ RowsIn(yielded[g])' = RowsIn(yielded[g]) /\ Rising(yielded[g])' = Rising(yielded[g])
        /\ EvenFiling(g)' = EvenFiling(g) /\ LineOf(g, at[g])' = LineOf(g, at[g])
    BY <1>1 DEF RowsUpTo, RowOf, RowsIn, Rising, EvenFiling, LineOf
  <2>6. CASE /\ calls[g] = <<HeadersCall(l), RowCall(l)>> /\ calls'[g] = <<RowCall(l)>>
             /\ UNCHANGED <<thread, queue, unfinished>>
    <3>1. /\ \A k \in 1..Len(calls'[g]) : calls'[g][k].row = l
          /\ calls'[g] # <<>>
      <4>1. l \in Lines /\ calls'[g] \in CallsFor(l)
        BY <1>2, <2>6 DEF CallsFor
      <4>2. AllOf(calls'[g], l)
        BY <4>1, CallsForLine
      <4> QED
        BY <4>2, Zenon DEF AllOf
    <3>2. Handed(g)' = Handed(g) /\ RowWaits(g)' = RowWaits(g) /\ Reached(g)' = Reached(g)
      BY <2>3, <2>4, <2>6, <3>1 DEF Handed, RowWaits, Reached
    <3>3. thread'[g] # "over" /\ ~RowWaits(g)'
      BY <1>1, <1>3, <2>6, <3>2
    <3> QED
      BY <1>1, <2>1, <2>3, <2>4, <2>5, <3>1, <3>2, <3>3 DEF Progress
  <2>7. CASE calls[g] = <<RowCall(l)>> /\ calls'[g] = <<>>
    <3>1. Handed(g)' = Handed(g) + 1 /\ Handed(g) + 1 \in 1..Len(filing[g])
      BY <2>2, <2>3, <2>4, <2>7 DEF Handed
    <3>2. \A k \in 1..Len(calls'[g]) : calls'[g][k].row = LineOf(g, Passed(g))'
      BY <2>7
    <3>3. /\ l = LineOf(g, Handed(g) + 1) /\ Text(l) = filing[g][Handed(g) + 1]
          /\ item = RowOf(g, Handed(g) + 1)
      BY <2>3, RowFacts
    <3>4. CASE Text(l).bad
      <4>1. UNCHANGED <<thread, queue>>
        BY <1>2, <2>7, <3>4, CallFacts
      <4>2. ~RowWaits(g)' /\ thread'[g] # "over" /\ Reached(g)' = Reached(g) + 1
        BY <1>1, <1>3, <2>3, <3>1, <4>1 DEF RowWaits, Reached
      <4>3. RowsUpTo(g, Reached(g) + 1) = RowsUpTo(g, Reached(g))
        <5>1. filing[g][Handed(g) + 1].bad
          BY <3>3, <3>4
        <5>2. RowsUpTo(g, Handed(g) + 1) = RowsUpTo(g, Handed(g)) \cup {}
          BY <2>3, <5>1, RowsUpToNext
        <5> QED
          BY <2>3, <5>2
      <4> QED
        BY <1>1, <2>1, <2>5, <3>1, <3>2, <4>2, <4>3 DEF Progress
    <3>5. CASE ~Text(l).bad
      <4>1. /\ queue'[g] = Append(queue[g], item) /\ thread'[g] = "joining"
        <5>1. /\ queue' = [queue EXCEPT ![g] = Append(@, item)]
              /\ thread' = [thread EXCEPT ![g] = "joining"]
          BY <1>2, <2>7, <3>5, CallFacts DEF Put
        <5> QED
          BY <1>3, <5>1 DEF QueueType
      <4>2. item \in Items /\ item # Done
        <5>1. InFile(l) /\ l \in Lines
          <6>1. l.gen = g /\ l.line = Handed(g) + 1
            BY <3>3 DEF LineOf
          <6> QED
            BY <3>1, <6>1 DEF InFile
        <5>2. item \in Items
          BY <1>3, <5>1, TextType DEF Items
        <5> QED
          BY <5>2, RowsAreNotDone
      <4> HIDE DEF item
      <4>3. queue'[g] # <<>> /\ Head(queue'[g]) = item
        BY <1>3, <4>1, <4>2, OneItem DEF QueueType
      <4>4. RowWaits(g)' /\ Reached(g)' = Reached(g)
        <5>1. RowWaits(g)'
          BY <4>2, <4>3 DEF RowWaits
        <5> QED
          BY <2>3, <3>1, <5>1 DEF Reached
      <4>5. /\ Handed(g)' >= 1 /\ Head(queue'[g]) = RowOf(g, Handed(g)')
            /\ ~filing[g][Handed(g)'].bad
        BY <3>1, <3>3, <3>5, <4>3
      <4> QED
        BY <1>1, <2>1, <2>5, <3>1, <3>2, <4>1, <4>4, <4>5 DEF Progress
    <3> QED
      BY <3>4, <3>5
  <2> QED
    BY <1>2, <2>6, <2>7
<1> QED
  BY <1>5, <1>6 DEF InOrder

LEMMA GetRowOrder ==
  ASSUME RInv, NEW g \in Gens, GetRow(g) PROVE InOrder'
<1>1. /\ IInv /\ QueueType /\ HandshakeOf(g) /\ queue[g] # <<>>
      /\ queue' = [queue EXCEPT ![g] = Tail(@)]
      /\ UNCHANGED <<filing, at, memory, skip, calls, thread>>
      /\ \/ /\ Head(queue[g]) # Done
            /\ yielded' = [yielded EXCEPT ![g] = Append(@, Head(queue[g]))]
            /\ gen' = [gen EXCEPT ![g] = "yielded"]
         \/ /\ Head(queue[g]) = Done
            /\ gen' = [gen EXCEPT ![g] = "ended"]
            /\ UNCHANGED yielded
  BY DEF RInv, IInv, TypeOK, Handshake, GetRow, AtDone, parserVars
<1>2. \A k \in Gens : gen'[k] = "created" => gen[k] = "created"
  <2>1. \A k \in Gens : gen'[k] \in {gen[k], "yielded", "ended"}
    BY <1>1 DEF QueueType
  <2> QED
    BY <2>1
<1>3. queue'[g] = <<>>
  <2>1. queue[g] \in Seq(Items \cup {Done}) /\ Len(queue[g]) <= 1 /\ queue'[g] = Tail(queue[g])
    BY <1>1 DEF QueueType, HandshakeOf
  <2>2. Len(Tail(queue[g])) = Len(queue[g]) - 1 /\ Tail(queue[g]) \in Seq(Items \cup {Done})
    BY <1>1, <2>1, TakeItem
  <2>3. Len(Tail(queue[g])) = 0
    <3>1. Len(queue[g]) \in Nat /\ Len(Tail(queue[g])) \in Nat
      BY <2>1, <2>2
    <3> QED
      BY <2>1, <2>2, <3>1, OneLess
  <2> QED
    BY <2>1, <2>2, <2>3, NoItem
<1>4. ASSUME NEW k \in Gens, k # g, Undisturbed(k)' PROVE Progress(k)'
  <2>1. Progress(k)
    BY <1>1, <1>2, <1>4, UndisturbedBefore DEF RInv, InOrder
  <2>2. queue'[k] = queue[k] /\ yielded'[k] = yielded[k]
    BY <1>1, <1>4 DEF QueueType
  <2>3. /\ UNCHANGED filing /\ memory' = memory /\ thread'[k] \in {thread[k], "running"}
        /\ at'[k] = at[k] /\ skip'[k] = skip[k] /\ calls'[k] = calls[k]
    BY <1>1
  <2> QED
    BY <2>1, <2>2, <2>3, OrderKept
<1>5. ASSUME Undisturbed(g)' PROVE Progress(g)'
  <2>1. Progress(g)
    BY <1>1, <1>2, <1>5, UndisturbedBefore DEF RInv, InOrder
  <2>2. /\ Passed(g)' = Passed(g) /\ Handed(g)' = Handed(g) /\ ~RowWaits(g)'
        /\ Reached(g)' = Handed(g)
    BY <1>1, <1>3 DEF Passed, Handed, RowWaits, Reached
  <2>3. /\ RowsUpTo(g, Reached(g))' = RowsUpTo(g, Handed(g)) /\ EvenFiling(g)' = EvenFiling(g)
        /\ LineOf(g, at[g])' = LineOf(g, at[g])
        /\ LineOf(g, Passed(g))' = LineOf(g, Passed(g))
    BY <1>1, <2>2 DEF RowsUpTo, RowOf, EvenFiling, LineOf
  <2>4. CASE Head(queue[g]) = Done
    <3>1. /\ RowsIn(yielded[g])' = RowsIn(yielded[g]) /\ Rising(yielded[g])' = Rising(yielded[g])
          /\ Reached(g) = Handed(g)
      BY <1>1, <2>4 DEF RowsIn, Rising, Reached, RowWaits
    <3> QED
      BY <1>1, <2>1, <2>2, <2>3, <3>1 DEF Progress
  <2>5. CASE Head(queue[g]) # Done
    <3> DEFINE h == Handed(g)
               s == yielded[g]
               item == RowOf(g, h)
    <3>1. /\ h \in Nat /\ h >= 1 /\ Head(queue[g]) = item /\ ~filing[g][h].bad
          /\ Reached(g) = h - 1
      BY <1>1, <2>1, <2>5, FilingFacts DEF Progress, RowWaits, Reached
    <3>2. s \in Seq(Items) /\ item \in Items
      <4>1. queue[g] \in Seq(Items \cup {Done}) /\ s \in Seq(Items)
        BY <1>1 DEF QueueType
      <4>2. Head(queue[g]) \in Items \cup {Done}
        BY <1>1, <4>1, TakeItem
      <4> QED
        BY <2>5, <3>1, <4>1, <4>2
    <3>3. yielded'[g] = Append(s, item)
      BY <1>1, <2>5, <3>1 DEF QueueType
    <3> HIDE DEF h, s, item
    <3>4. /\ Append(s, item) \in Seq(Items) /\ Len(Append(s, item)) = Len(s) + 1 /\ Len(s) \in Nat
          /\ \A k \in 1..Len(s) : Append(s, item)[k] = s[k]
          /\ Append(s, item)[Len(s) + 1] = item
          /\ DOMAIN s = 1..Len(s) /\ DOMAIN Append(s, item) = 1..(Len(s) + 1)
      BY <3>2, AppendProperties
    <3>5. RowsIn(Append(s, item)) = RowsIn(s) \cup {item}
      <4>1. 1..(Len(s) + 1) = 1..Len(s) \cup {Len(s) + 1}
        BY <3>4
      <4> QED
        BY <3>4, <4>1 DEF RowsIn
    <3>6. RowsUpTo(g, h) = RowsUpTo(g, h - 1) \cup {item}
      <4>1. h - 1 \in Nat /\ (h - 1) + 1 = h
        BY <3>1
      <4> QED
        BY <3>1, <4>1, RowsUpToNext DEF item
    <3>7. \A k \in 1..Len(s) : s[k].row.line < h
      <4>1. RowsIn(s) = RowsUpTo(g, h - 1)
        BY <2>1, <3>1 DEF Progress, s
      <4>2. \A r \in RowsUpTo(g, h - 1) : r.row.line < h
        <5>1. \A i \in 1..(h - 1) : RowOf(g, i).row.line = i /\ i < h
          BY <3>1, RowFacts
        <5> QED
          BY <5>1 DEF RowsUpTo
      <4> QED
        BY <3>4, <4>1, <4>2 DEF RowsIn
    <3>8. Rising(Append(s, item))
      <4>1. item.row.line = h
        BY <3>1, RowFacts DEF item
      <4>2. Rising(s)
        BY <2>1 DEF Progress, s
      <4>3. ASSUME NEW j \in 1..(Len(s) + 1), NEW k \in 1..(Len(s) + 1), j < k
            PROVE  Append(s, item)[j].row.line < Append(s, item)[k].row.line
        <5>1. j \in 1..Len(s)
          BY <3>4, <4>3
        <5>2. CASE k \in 1..Len(s)
          BY <3>4, <4>2, <4>3, <5>1, <5>2 DEF Rising
        <5>3. CASE k = Len(s) + 1
          BY <3>4, <3>7, <4>1, <5>1, <5>3
        <5> QED
          BY <3>4, <5>2, <5>3
      <4> QED
        BY <3>4, <4>3 DEF Rising
    <3>9. /\ RowsIn(yielded[g])' = RowsUpTo(g, Handed(g)) /\ Rising(yielded[g])'
      <4>1. RowsIn(yielded'[g]) = RowsUpTo(g, h) /\ Rising(yielded'[g])
        BY <2>1, <3>1, <3>3, <3>5, <3>6, <3>8 DEF Progress, s
      <4> QED
        BY <4>1 DEF RowsIn, Rising, h
    <3>10. thread'[g] = "over" => thread[g] = "over"
      BY <1>1
    <3> QED
      BY <1>1, <2>1, <2>2, <2>3, <3>9, <3>10 DEF Progress
  <2> QED
    BY <2>4, <2>5
<1> QED
  BY <1>4, <1>5 DEF InOrder

\* The other steps change no parse.
LEMMA OthersOrder ==
  ASSUME RInv, UNCHANGED <<filing, at, memory, skip, calls, queue, yielded>>,
         \A k \in Gens : thread'[k] \in {thread[k], "running"},
         \A k \in Gens : gen'[k] = "created" => gen[k] = "created"
  PROVE  InOrder'
<1> SUFFICES ASSUME NEW k \in Gens, Undisturbed(k)' PROVE Progress(k)'
  BY DEF InOrder
<1>1. Progress(k)
  BY UndisturbedBefore DEF RInv, InOrder
<1> QED
  BY <1>1, OrderKept

LEMMA StepOrder == RInv /\ [Next]_vars => InOrder'
<1> SUFFICES ASSUME RInv, [Next]_vars PROVE InOrder'
  OBVIOUS
<1>1. QueueType
  BY DEF RInv, IInv, TypeOK
<1>2. CASE UNCHANGED vars
  BY <1>2, OthersOrder DEF vars
<1>3. CASE FreeMemory
  BY <1>3, OthersOrder DEF FreeMemory, parserVars
<1>4. ASSUME NEW g \in Gens, Resume(g) PROVE InOrder'
  BY <1>1, <1>4, OthersOrder DEF Resume, parserVars, QueueType
<1>5. ASSUME NEW g \in Gens, Start(g) PROVE InOrder'
  <2>1. \A k \in Gens : thread'[k] \in {thread[k], "running"}
    BY <1>1, <1>5 DEF Start, QueueType
  <2>2. \A k \in Gens : gen'[k] \in {gen[k], "getting"}
    BY <1>1, <1>5 DEF Start, QueueType
  <2> QED
    BY <1>5, <2>1, <2>2, OthersOrder DEF Start, parserVars
<1>6. ASSUME NEW g \in Gens, NextRow(g) PROVE InOrder'
  <2>1. \A k \in Gens : gen'[k] \in {gen[k], "getting"}
    BY <1>1, <1>6 DEF NextRow, QueueType
  <2> QED
    BY <1>6, <2>1, OthersOrder DEF NextRow, parserVars
<1>7. ASSUME NEW g \in Gens, Close(g) PROVE InOrder'
  <2>1. \A k \in Gens : gen'[k] \in {gen[k], "closed"}
    BY <1>1, <1>7 DEF Close, QueueType
  <2> QED
    BY <1>7, <2>1, OthersOrder DEF Close, parserVars
<1> QED
  BY <1>2, <1>3, <1>4, <1>5, <1>6, <1>7, ParseLineOrder, EndParseOrder, LineCallbackOrder,
     GetRowOrder DEF Next, ThreadStep

\* A generator that is alone, or whose filing has no odd line, yields the rows of
\* its filing in order, each once and with the headers of its form type, and all
\* of them before it ends, whatever the other generators do (client.py:40-102,
\* utils.py:260-302).
THEOREM RowsComeInOrder == Spec => []RowsInOrder
<1>1. Init => RInv
  BY InitIInv, InitCached, InitOrder DEF RInv
<1>2. RInv /\ [Next]_vars => RInv'
  BY StepIInv, StepCached, StepOrder DEF RInv
<1>3. RInv => RowsInOrder
  <2> SUFFICES ASSUME RInv, NEW g \in Gens, Undisturbed(g)
               PROVE  /\ \A j, k \in DOMAIN yielded[g] :
                           j < k => yielded[g][j].row.line < yielded[g][k].row.line
                      /\ \E m \in 0..Len(filing[g]) :
                           /\ {yielded[g][k] : k \in DOMAIN yielded[g]} = RowsUpTo(g, m)
                           /\ gen[g] = "ended" => m = Len(filing[g])
    BY DEF RowsInOrder
  <2>1. Progress(g) /\ HandshakeOf(g)
    BY DEF RInv, InOrder, IInv, Handshake
  <2>2. Reached(g) \in 0..Len(filing[g])
    BY <2>1, FilingFacts DEF RInv, Progress, Reached
  <2>3. gen[g] = "ended" => Reached(g) = Len(filing[g])
    BY <2>1 DEF HandshakeOf, Progress, Reached, RowWaits
  <2> QED
    BY <2>1, <2>2, <2>3 DEF Progress, RowsIn, Rising
<1> QED
  BY <1>1, <1>2, <1>3, PTL DEF Spec
=============================================================================
