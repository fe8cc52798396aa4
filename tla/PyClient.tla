------------------------------ MODULE PyClient ------------------------------
(***************************************************************************)
(* LibFastFEC.parse (src/python/src/fastfec/client.py and utils.py): a     *)
(* generator whose rows come from a thread that runs the C parser.  The    *)
(* line callback puts a row into a queue and joins the queue until the     *)
(* row is acknowledged, which the generator does when it is resumed.       *)
(*                                                                         *)
(* The generators of one LibFastFEC share its persistent memory, hence the *)
(* line being parsed.  One thread of the program holds them all: it asks   *)
(* one of them for the next row, or drops it, or leaves the with block.    *)
(* It asks for nothing after that, and never resumes a dropped generator.  *)
(*                                                                         *)
(* Of the C parser (see Parser) there is what the client can tell: a line  *)
(* of a form type makes one or two calls of the line callback, and an odd  *)
(* line, one with a number of fields that is not the mapped one, is found  *)
(* to have no text after it by grabbing the next line over it.  The line   *)
(* callback raises an exception at a bad line (one that csv.reader         *)
(* refuses, or cut in the middle of a character); ctypes ignores it.       *)
(*                                                                         *)
(* An operator written just before another with a similar name, and used   *)
(* nowhere, is a slip the properties must notice.                          *)
(***************************************************************************)
EXTENDS Integers, Sequences

CONSTANTS Gens,     \* the generators made by calls of parse
          Forms,    \* form types
          Filings,  \* what their file handles may hold
          None

ASSUME ClientAssumption ==
  /\ Filings \subseteq Seq([form : Forms, odd : BOOLEAN, bad : BOOLEAN])
  /\ None \notin Gens \cup Forms \cup [gen : Gens, line : Nat]

VARIABLES filing,      \* filing[g]: the lines of g's file handle
          at,          \* at[g]: how many of them have been grabbed
          memory,      \* persistentMemory->line: whose line it is, and which
          skip,        \* skip[g]: skipGrabLine
          opened,      \* opened[g]: the files of g's write context
          calls,       \* calls[g]: the calls of the line callback to make
          thread,      \* the parsing thread: none, running, joining or over
          queue,       \* queue[g]: rows, then done_processing
          unfinished,  \* queue.unfinished_tasks
          headers,     \* line_cache.headers: whose header row it is
          lastForm,    \* line_cache.last_form_type
          lastHeaders, \* line_cache.last_headers
          gen,         \* the generator: created, getting, yielded, ended, closed
          yielded,     \* history: yielded[g], the rows the program has got
          caller,      \* the generator being asked for a row, or None
          freed        \* the persistent memory has been freed

vars == <<filing, at, memory, skip, opened, calls, thread, queue, unfinished,
          headers, lastForm, lastHeaders, gen, yielded, caller, freed>>
parserVars == <<at, memory, skip, opened, calls>>
cacheVars == <<headers, lastForm, lastHeaders>>

Done == [form |-> None, headers |-> None, row |-> None]  \* done_processing

Init == /\ filing \in [Gens -> Filings]
        /\ at = [g \in Gens |-> 0] /\ skip = [g \in Gens |-> FALSE]
        /\ memory = None
        /\ opened = [g \in Gens |-> {}] /\ calls = [g \in Gens |-> <<>>]
        /\ thread = [g \in Gens |-> "none"]
        /\ queue = [g \in Gens |-> <<>>] /\ unfinished = [g \in Gens |-> 0]
        /\ headers = [g \in Gens |-> [f \in Forms |-> None]]
        /\ lastForm = [g \in Gens |-> None] /\ lastHeaders = [g \in Gens |-> None]
        /\ gen = [g \in Gens |-> "created"] /\ yielded = [g \in Gens |-> <<>>]
        /\ caller = None /\ freed = FALSE

-----------------------------------------------------------------------------
(* The parsing thread: parseFec.                                             *)

\* queue.put: one more task to finish.
CountedNot(g) == unfinished[g]
Counted(g) == unfinished[g] + 1
Put(g, item) == /\ queue' = [queue EXCEPT ![g] = Append(@, item)]
                /\ unfinished' = [unfinished EXCEPT ![g] = Counted(g)]

\* The line parseLine is given: the next one, or what the memory holds.
Given(g) == IF skip[g] THEN memory ELSE [gen |-> g, line |-> at[g] + 1]
Text(l) == filing[l.gen][l.line]
Call(what, l) == [what |-> what, form |-> Text(l).form, row |-> l]

\* parseLine up to its calls of the callback, with the line it grabs ahead.  After
\* the header line, parseHeader may go on to the end of the shared line (fec.c:814,
\* 829-833) when the callback has returned.  It uses none of what it reads there, and
\* that reading is left out.
ParseLine(g) ==
  /\ thread[g] = "running" /\ calls[g] = <<>>
  /\ skip[g] \/ at[g] < Len(filing[g])
  /\ LET l == Given(g)
         n == IF skip[g] THEN at[g] ELSE at[g] + 1
         ahead == Text(l).odd /\ n < Len(filing[g])
         new == Text(l).form \notin opened[g]
     IN  /\ at' = [at EXCEPT ![g] = IF ahead THEN n + 1 ELSE n]
         /\ memory' = IF ahead THEN [gen |-> g, line |-> n + 1] ELSE l
         /\ skip' = [skip EXCEPT ![g] = ahead]
         /\ opened' = [opened EXCEPT ![g] = @ \cup {Text(l).form}]
         /\ calls' = [calls EXCEPT ![g] = (IF new THEN <<Call("headers", l)>> ELSE <<>>)
                                            \o <<Call("row", l)>>]
  /\ UNCHANGED <<filing, thread, queue, unfinished, cacheVars, gen, yielded,
                 caller, freed>>

\* parseFec has returned.
EndParse(g) ==
  /\ thread[g] = "running" /\ calls[g] = <<>>
  /\ ~skip[g] /\ at[g] = Len(filing[g])
  /\ Put(g, Done)
  /\ thread' = [thread EXCEPT ![g] = "over"]
  /\ UNCHANGED <<filing, parserVars, cacheVars, gen, yielded, caller, freed>>

(***************************************************************************)
(* line_callback: the first line of a form type is its header row, and is  *)
(* kept; any other line is a row, put into the queue with the headers in   *)
(* cache, or lost if it is bad.                                            *)
(***************************************************************************)
HeadersForFirst(g, f) == lastHeaders[g]
HeadersFor(g, f) == IF f = lastForm[g] THEN lastHeaders[g] ELSE headers[g][f]

Raises(c) == c.what = "row" /\ Text(c.row).bad

LineCallback(g) ==
  /\ thread[g] = "running" /\ calls[g] # <<>>
  /\ calls' = [calls EXCEPT ![g] = Tail(@)]
  /\ LET c == Head(calls[g])
         h == HeadersFor(g, c.form)
     IN  \/ /\ c.form # lastForm[g] /\ headers[g][c.form] = None
            /\ IF Raises(c) THEN UNCHANGED cacheVars
               ELSE /\ headers' = [headers EXCEPT ![g][c.form] = c.form]
                    /\ lastForm' = [lastForm EXCEPT ![g] = c.form]
                    /\ lastHeaders' = [lastHeaders EXCEPT ![g] = c.form]
            /\ UNCHANGED <<thread, queue, unfinished>>
         \/ /\ c.form = lastForm[g] \/ headers[g][c.form] # None
            /\ lastForm' = [lastForm EXCEPT ![g] = c.form]
            /\ lastHeaders' = [lastHeaders EXCEPT ![g] = h]
            /\ UNCHANGED headers
            /\ IF Raises(c) THEN UNCHANGED <<thread, queue, unfinished>>
               ELSE /\ Put(g, [form |-> c.form, headers |-> h, row |-> c.row])
                    /\ thread' = [thread EXCEPT ![g] = "joining"]
  /\ UNCHANGED <<filing, at, memory, skip, opened, gen, yielded, caller, freed>>

\* queue.join returns.
JoinedAlways(g) == TRUE
Joined(g) == unfinished[g] = 0
Resume(g) ==
  /\ thread[g] = "joining" /\ Joined(g)
  /\ thread' = [thread EXCEPT ![g] = "running"]
  /\ UNCHANGED <<filing, parserVars, queue, unfinished, cacheVars, gen, yielded,
                 caller, freed>>

-----------------------------------------------------------------------------
(* The generator and the program that holds it.                              *)

\* The first call of next makes the context and starts the thread.
Start(g) ==
  /\ caller = None /\ ~freed
  /\ gen[g] = "created"
  /\ thread' = [thread EXCEPT ![g] = "running"]
  /\ gen' = [gen EXCEPT ![g] = "getting"]
  /\ caller' = g
  /\ UNCHANGED <<filing, parserVars, queue, unfinished, cacheVars, yielded, freed>>

\* Any other resumes the generator after its yield: queue.task_done.
FinishedNot(g) == unfinished[g]
Finished(g) == unfinished[g] - 1
NextRow(g) ==
  /\ caller = None /\ ~freed
  /\ gen[g] = "yielded"
  /\ unfinished' = [unfinished EXCEPT ![g] = Finished(g)]
  /\ gen' = [gen EXCEPT ![g] = "getting"]
  /\ caller' = g
  /\ UNCHANGED <<filing, parserVars, thread, queue, cacheVars, yielded, freed>>

\* queue.get, and back to the program with a row, or at the end of the rows.
AtDone(item) == item = Done
GetRow(g) ==
  /\ caller = g /\ queue[g] # <<>>
  /\ queue' = [queue EXCEPT ![g] = Tail(@)]
  /\ LET item == Head(queue[g])
     IN  \/ /\ ~AtDone(item)
            /\ yielded' = [yielded EXCEPT ![g] = Append(@, item)]
            /\ gen' = [gen EXCEPT ![g] = "yielded"]
         \/ /\ AtDone(item)
            /\ gen' = [gen EXCEPT ![g] = "ended"]
            /\ UNCHANGED yielded
  /\ caller' = None
  /\ UNCHANGED <<filing, parserVars, thread, unfinished, cacheVars, freed>>

\* The generator is dropped: GeneratorExit at the yield, which nothing handles.
Close(g) ==
  /\ caller = None
  /\ gen[g] = "yielded"
  /\ gen' = [gen EXCEPT ![g] = "closed"]
  /\ UNCHANGED <<filing, parserVars, thread, queue, unfinished, cacheVars, yielded,
                 caller, freed>>

\* The end of the with block: instance.free.
FreeMemory ==
  /\ caller = None /\ ~freed
  /\ freed' = TRUE
  /\ UNCHANGED <<filing, parserVars, thread, queue, unfinished, cacheVars, gen,
                 yielded, caller>>

ThreadStep(g) == ParseLine(g) \/ EndParse(g) \/ LineCallback(g) \/ Resume(g)

Next == \/ \E g \in Gens : \/ ThreadStep(g)
                           \/ Start(g) \/ NextRow(g) \/ GetRow(g) \/ Close(g)
        \/ FreeMemory

Spec == Init /\ [][Next]_vars
\* The interpreter runs every thread that can run; nothing obliges the program
\* to ask for another row.
FairSpec == Spec /\ \A g \in Gens : WF_vars(ThreadStep(g)) /\ WF_vars(GetRow(g))

-----------------------------------------------------------------------------
Lines == [gen : Gens, line : Nat \ {0}]
Calls == [what : {"headers", "row"}, form : Forms, row : Lines]
Items == [form : Forms, headers : Forms, row : Lines]

ParserType ==
  /\ filing \in [Gens -> Filings] /\ at \in [Gens -> Nat]
  /\ memory \in Lines \cup {None} /\ skip \in [Gens -> BOOLEAN]
  /\ opened \in [Gens -> SUBSET Forms] /\ calls \in [Gens -> Seq(Calls)]
CacheType ==
  /\ headers \in [Gens -> [Forms -> Forms \cup {None}]]
  /\ lastForm \in [Gens -> Forms \cup {None}]
  /\ lastHeaders \in [Gens -> Forms \cup {None}]
QueueType ==
  /\ thread \in [Gens -> {"none", "running", "joining", "over"}]
  /\ queue \in [Gens -> Seq(Items \cup {Done})]
  /\ unfinished \in [Gens -> Nat]
  /\ gen \in [Gens -> {"created", "getting", "yielded", "ended", "closed"}]
  /\ yielded \in [Gens -> Seq(Items)]
  /\ caller \in Gens \cup {None} /\ freed \in BOOLEAN

\* Every variable has its type: in particular the count of unfinished tasks
\* never falls below zero, where task_done would raise an exception.
TypeOK == ParserType /\ CacheType /\ QueueType

HandshakeOf(g) ==
  /\ unfinished[g] = Len(queue[g])
                       + (IF gen[g] \in {"yielded", "closed", "ended"} THEN 1 ELSE 0)
  /\ Len(queue[g]) <= 1
  /\ (thread[g] = "none") <=> (gen[g] = "created")
  /\ thread[g] = "running" => unfinished[g] = 0
  /\ queue[g] # <<>> => \/ thread[g] = "joining" /\ Head(queue[g]) # Done
                        \/ thread[g] = "over" /\ Head(queue[g]) = Done
  /\ gen[g] \in {"yielded", "closed"} => thread[g] = "joining"
  /\ gen[g] = "ended" => thread[g] = "over" /\ queue[g] = <<>>
  /\ (gen[g] = "getting") <=> (caller = g)

\* The queue's count of unfinished tasks is what the two sides make of it: the
\* items waiting, and the one that was taken and not acknowledged.  A thread
\* runs or joins while its generator lives, and a context is freed (the
\* generator has ended) only when parseFec has returned (client.py:86-102).
Handshake == \A g \in Gens : HandshakeOf(g)

\* client.py:84, "It's essentially still single-threaded": the C parser of a
\* generator runs only while the program waits in next for that generator.
SingleThreaded == \A g \in Gens : thread[g] = "running" => caller = g

\* Once the with block is left no thread uses the persistent memory any more,
\* not even those of the generators that were left unfinished.
NoUseAfterFree == [][freed => UNCHANGED <<parserVars, thread>>]_vars

RowOf(g, i) == LET f == filing[g][i].form
               IN  [form |-> f, headers |-> f, row |-> [gen |-> g, line |-> i]]

\* The rows of the first m lines of g's filing, without those lost to an exception.
RowsUpTo(g, m) == {RowOf(g, i) : i \in {j \in 1..m : ~filing[g][j].bad}}

\* Nothing comes between g's grabbing a line ahead and its parsing it.
Undisturbed(g) == \/ \A h \in Gens \ {g} : gen[h] = "created"
                  \/ \A i \in DOMAIN filing[g] : ~filing[g][i].odd

\* A generator without odd lines, or the only one that was started, yields the
\* rows of its filing in order, each once and with the headers of its form type,
\* and all of them before it ends, whatever the other generators do.
RowsInOrder ==
  \A g \in Gens : Undisturbed(g) =>
    /\ \A j, k \in DOMAIN yielded[g] :
         j < k => yielded[g][j].row.line < yielded[g][k].row.line
    /\ \E m \in 0..Len(filing[g]) :
         /\ {yielded[g][k] : k \in DOMAIN yielded[g]} = RowsUpTo(g, m)
         /\ gen[g] = "ended" => m = Len(filing[g])

\* A call of next comes back, with a row or with the end of the rows.
NextReturns == \A g \in Gens : caller = g ~> caller # g

-----------------------------------------------------------------------------
(* What the documentation says and the code does not do.                     *)

\* python/README.md:26, parse "parses a .fec filing in file_handle line by line,
\* returning a generator": what it yields are rows of that filing.
RowsAreOwn == \A g \in Gens : \A i \in DOMAIN yielded[g] : yielded[g][i].row.gen = g
=============================================================================
