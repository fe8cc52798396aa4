# Verification of FastFEC

FastFEC turns a filing of the US Federal Election Commission (a `.fec` file:
a header line, then one line per form row) into one CSV file per form type, or
into a stream of rows for a callback. It is a C library (`src/src`), a command
line around it, and a Python package that loads the library and gets its output
by callbacks (`src/python`).

This directory holds TLA+ modules translated from that code, TLC configurations
that check them on small instances, and proofs checked by TLAPS. Paths below
are relative to the repository's parent, as in `PROJECT.json`: the C sources are
`src/src/*.c`.

## The system

A parse is one call of `parseFec`. It pulls lines through `readLine`, which
pulls chunks through a read callback, and pushes fields through `writeN`, which
pushes full buffers through a write callback or to a stream, and whole lines
through a line callback. Everything from the read callback to the write
callback is one thread; only the Python generator adds a second one, which runs
`parseFec` while the consumer waits for a row.

| Part | State | Operations | What makes it correct |
| --- | --- | --- | --- |
| Write context (`writer.c`) | table of files (name, buffer, stream), the last-file cache (three pointers), the line buffer | `getFile`, `writeN`/`writeString`/`writeChar`, `bufferWrite`, `bufferFlush`, `endLine`, `freeWriteContext` | every byte reaches its own file, once and in order, however writes are cut by flushes; the cache never mixes two files; nothing is left when the context is freed |
| Line buffer (`buffer.c`, `memory.c`) | the chunk, the size to ask for, the position, the growing string | `fillBuffer`, `readLine`, `growString` | the caller gets the lines of the input whatever the chunks; the string is large enough at every copy |
| Filing parser (`fec.c`) | the current line, version, form type and mappings in cache, the row being written | `parseFec`, `parseHeader`, `lookupMappings`, `parseLine`, `parseF99Text` | every row lands in the file of its form type under that type's header; rows are whole; no line is lost or parsed twice around an F99 text |
| CSV fields (`csv.c`, `writeDateField` of `fec.c`) | the characters of the line, position and bounds of a field, its counts of quotes and commas | `readCsvField`, `readAscii28Field`, `stripQuotes`, `writeField` | unescaping in place spoils nothing that is still to be read; what is written reads back as the field |
| Encoding (`encoding.c`, `memory.c`) | UTF-8 automaton, the string that is kept from line to line | `collectLineInfo`, `iso_8859_1_to_utf_8`, `copyString`, `decodeLine` | a line is recognised for what it is; its text starts the string; no write is past what was grown |
| Python client, rows (`client.py`, `utils.py`) | queue, parsing thread, line callback with its cache, shared memory | `parse`, `line_callback` | the generator yields every row in order and ends; no thread runs by the side of another or after the memory is freed |
| Python client, files (`client.py`, `utils.py`) | cache of the last stream, dictionary of streams | `parse_as_files`, `write_callback`, `free_file_descriptors` | each file holds what was passed for it, whatever raises |
| Command line (`cli.c`, `main.c`) | the context: flags and pointers | `parseArgs`, `main`, `freeCliContext` | the program does what the arguments say; nothing is used that was not stored |

Hard behaviours, which the properties aim at, are listed at their lines under
`hazards` in `PROJECT.json`: a cache made of several pointers, or tested by a
prefix; buffers whose flush falls in the middle of a write; a line of look-ahead
that must be given back; rows begun before they are known to be whole; a buffer
that shrinks at every short read; copies that lag behind the counting; the end
of the input met at two levels; a line rewritten while it is read; a string
that is never cleared; exceptions that leave a callback and are ignored;
pointers that are tested before they are set.

There is no persistence and no recovery: a crash loses the parse. The C library
is sequential, so interleaving appears only where a chunk may have any size, in
the order of the client's calls, and in the Python package.

## Modules

| Module | Models | Lines of code |
| --- | --- | --- |
| `FileLog` | the promise of a write context: one log per file, delivered as a growing prefix, complete when closed | abstract |
| `Writer` | `writer.c`: table, cache, buffers, flushes, line buffer, free | 88-395 |
| `LineSource` | the promise of `readLine`: the lines of the input, then its end | abstract |
| `LineBuffer` | `buffer.c` with `growString` of `memory.c` | 4-95, 33-61 |
| `Encoding` | `decodeLine` of `encoding.c`, `copyString` and `growStringTo` of `memory.c` | 9-109, 6-69 |
| `Csv` | `csv.c`, and the writing of fields in `parseLine` of `fec.c` | 5-206, 224-248, 536-633 |
| `Parser` | `fec.c`: header, cache, rows, F99 text, on top of the write context as its client sees it | 92-194, 275-290, 403-661, 693-871 |
| `PyClient` | `LibFastFEC.parse`: generators, parsing threads, queues, line callback and its cache, shared memory | `client.py` 40-102, 214-230, `utils.py` 112-127, 244-302 |
| `PyFiles` | `parse_as_files`: the write callback, its streams, their closing | `client.py` 169-176, `utils.py` 101-110, 211-241 |
| `Cli` | `cli.c` and `main.c`: arguments, context, what is done and freed | 4-291, 19-122 |
| `MCWriter`, `MCLineBuffer`, `MCEncoding`, `MCCsv`, `MCParser`, `MCPyClient`, `MCPyFiles`, `MCCli` | small instances for TLC | |
| `WriterProofs`, `LineBufferProofs`, `EncodingProofs`, `CsvProofs`, `ParserProofs`, `PyClientProofs`, `PyFilesProofs`, `CliProofs` | theorems of the module of that name | |

The modules lie along the path of a byte: `LineBuffer` makes lines of chunks,
`Encoding` decodes a line, `Csv` splits it into fields, `Parser` decides what a
line is and where its row goes, `Writer` cuts what is written into chunks, and
`PyClient` and `PyFiles` are what the callbacks lead to. Two pairs meet in an
abstract specification: the callback of `Writer` and the files of `PyFiles` both
implement `FileLog`, one as the caller of the callback and one as its callee. In
the others the lower component appears in the upper one as the operations that
its own module establishes (`Write` and `EndLine` in `Parser`, the line that is
grabbed in `Encoding`).

In the modules of the code, an operator placed just before another of a
similar name and used nowhere is a *slip*: the same code with a plausible
mistake. `PROJECT.json` pairs each property with a slip that breaks it.

### Writer

`filenames`, `buffers` and `streams` are the parallel arrays of the context, and
`lastname`, `lastBuffer`, `lastfile` its cache, the last two as indices. They
are kept apart because the flush in the middle of a write uses them apart: the
callback goes by the *name* of the write, `fwrite` by the *stream* of the cache,
and both take the bytes of the cached *buffer*. `custom[f]` is what the callback
received under name f, `streams[i]` what `fwrite` was given for file i.

`WriteN` is `writeN` up to its loop (with `getFile`), `CopyChunk` one turn of
the loop of `bufferWrite` with its flush, `EndWrite` the copy for the line
callback. Cutting the call into turns lets an invariant look at the moments when
a callback runs. `EndLine`, and `BeginFree`, `FreeFile`, `EndFree` are `endLine`
and `freeWriteContext`. `written` and `owners` are history: what the client
asked for.

`WriterInv` is the inductive invariant, in named parts: a name is opened once,
the cache is one file, every buffer has room between two turns, and for each
sink what it received, what its buffer holds and what the write in progress has
left is what was written. `FileLog` says the same from outside, with no buffers.

### LineBuffer

`input` is the whole input and `offset` what the callback has delivered, in
chunks of any size from 1 to the size asked for. `text` are the bytes already
copied into the string, `n` those counted, and `start` where the pending copy
begins, as in `readLine`. `Begin` is the head of the call, `Refill` the first
`if` of the loop, `GrowString` one doubling, `TakeByte` and `EndLine` the two
ends of a turn. The end of the input may be met again and again, because
`parseFec` calls `readLine` after an F99 text that was cut short by it.

`BufferInv` ties the counters together: bytes returned plus bytes counted are
the bytes looked at; the string holds the counted bytes with their terminator;
the position passes the buffer only at the end.

### Encoding

`in` and `inN` are the raw line and the size of its string, `memory` and `n`
what lies in `persistentMemory->line` and its size. `memory` is never cleared:
new memory holds `Junk`, and old memory what earlier lines left. `GrabLine`
begins a `decodeLine`, `Scan` is a turn of `collectLineInfo`, `CopyString` the
way of a line of UTF-8, `BeginLatin1`, `Convert`, `EndLatin1` that of another
one. `Type` and `Target` are the two halves of `utf8d`: the class of a byte and
the transition of a state and a class.

Three statements are about this string. Its text is right, whatever lay in it
(`LineDecoded`), for a reader that stops at a newline; no write is past it
(`Fits`, which needs the two bytes per byte that `iso_8859_1_to_utf_8` asks for);
and the length returned, by which `parseF99Text` goes, is that of a line of UTF-8
and never more than that of another (`LengthWithin`). That it is always the
length of the line (`LengthOfLine`) is not so. `Recognised`
compares the automaton with the grammar of RFC 3629 at every beginning of a
line. The grammar is in the module too (`WellFormed`, by the tables of the RFC,
without recursion, so that it can be reasoned about). Lines are as the callers
make them: not empty, with a newline only at their end.

### Csv

`str` is the line with its NUL, one string per character class that the code
tells apart. A turn of `readCsvSubfield`'s loop is an action: all turns begin
with the shift (`Turn`), then a field ends at its delimiter (`EndCsv`), at its
closing quote (`CloseCsv`), a doubled quote is skipped (`SkipQuote`), or a
character is taken (`TakeCsv`). `WriteField` writes the field and passes the
delimiter. `ReadAgain` is what `parseHeader` does when it has found the version:
`parseLine` reads the line as the first reading left it, with a doubled quote
already shifted.

A field that is a single `"` loses the same quote at both ends (csv.c:38): it ends
before it starts, and its length is -1. Where that is the size of a copy (of the
form type in `lookupMappings`, of the version in `setVersion`, of the text in the
buffer of the line callback) the program ends (`DieOfLength`). A later field with
no line callback is written as an empty one, since the loop of `bufferWrite` makes
no turn, which is `WriteField`. `DiesOfOneQuote` says that nothing else ends
before it starts.

`InPlace` is the claim of `csv.h` that unescaping in place is possible: what is
shifted never reaches a character that is still to be read, in one reading. A
second reading of a line in which the first has shifted a doubled quote finds
other text; `FieldsRead` leaves that case out by name (`ShiftedBefore`).
`FieldsRead` and `RowReadsBack` relate what is read to the cells the line was
made from by the rules of RFC 4180 (`TextOf`), and what is written to what was
read; the latter depends on the counts of quotes and commas, which are kept over
the original characters while the text is moved. A line that is `known` carries
its cells; any other text may be read too, and everything but `FieldsRead` is
about it.

### Parser

A line is a record with what the parser can tell of it: its kind, its first
field without blanks, the `columnIndex` at which parsing it ends (`last`) and how many
fields are read (`read`). The two counts differ for a line that ends with a
delimiter. The output is a sequence of tokens per file with the number of the
input line each comes from, so that a property can say which line landed where.

`formType` is the key of the cache and `mapping` the type whose headers, types
and field count are loaded: the code overwrites the first before it looks for
the second. `Cached` is the `strncmp` over the length of the line's form type,
with `Begins[t]` the form types t begins with. `ParseEmpty` to `ParseMismatched`
are the ways through `parseLine`, told apart by its conditions; `F99...` are the
turns of `parseF99Text`, each with the line it grabs. `pc = "parse"` means that
a line has been grabbed and not yet parsed, which is what `skipGrabLine` says.

The parser writes through `Write` and `EndLine`, the write context as its client
sees it: files that grow, the file used last, and the line buffer. That a
`Writer` delivers just that is what `ImplementsCustomLog` and `LinesAreFiles`
state.

### PyClient

`parse` returns a generator. Its first `next` makes a context and starts a
thread that runs `parseFec`; the thread's line callback puts a row into a queue
and joins the queue, that is, waits until each item put was acknowledged by
`task_done`, which the generator calls when it is asked for the row after. When
`parseFec` is over the thread puts `done_processing`; the generator that gets it
frees the context and ends.

The model has any number of generators of one `LibFastFEC`. `ParseLine`,
`LineCallback`, `Resume` and `EndParse` are the steps of a thread: the line up to its
calls of the callback, one callback (`put` included), the return from `join`,
and the end. `Start`, `NextRow` and `GetRow` are the ways into and out of
`next`; `Close` drops a generator, `FreeMemory` leaves the `with` block.
`unfinished` is the counter inside `queue.Queue`, which is external code but
whose three operations (`put` adds one, `task_done` takes one, `join` waits for
zero) are all that the handshake rests on.

What the generators share is `persistentMemory->line`: `memory` says whose line
it holds. A line with an unexpected number of fields (`odd`) makes the parser
grab the next one over it before the row is handed to the callback, so that
line lies in shared memory while the consumer works on the row. The header line
of the filing is a line like another one here, of a form type of its own;
`Parser` has its details. Left out is that `parseHeader` may go on to the end of
the shared line when the callback has returned (fec.c:814, 829-833): it uses
nothing of what it reads there. A `bad` line is one whose row makes the callback
raise, which `ctypes` reports and ignores.

The program that holds the generators is one thread that calls `next` in any
order, may stop at any time, and uses no generator after it left the `with`
block; this is how `python/README.md` and the tests use the package.

### PyFiles

The write callback remembers the last name and its stream (`last_filename`,
`last_fd`) and all streams by name (`file_descriptors`, numbers of streams
here). `Call` is the flush of the C library; `Reuse`, `Lookup` and `Open` are
the three ways to a stream, `Write` its use, `Close` a turn of
`free_file_descriptors`. Opening, writing and closing are the caller's code and
may raise: the callback is then left where it is (`OpenRaises`, or a write of
which only a part is taken), `ctypes` prints the exception and the C library goes
on; an exception of `close` reaches the caller and leaves the rest open.

### Cli

A pointer of the context is a block and the text in it. `newCliContext` sets
none of them, so each starts as NULL or as garbage (`junk`), and `Sound` says
whether one may be used. `Start` to `MakeUrl` are the parts of `parseArgs`,
`PrintUsage` to `ParseFec` those of `main`. What the regular expressions find
(`Numeric`, `NumberOf`) and what the directory becomes (`WithSeparators`) is
constant.

`StoredBeforeUse` holds for anything `malloc` may have left. `Filled` are the
pointers that the arguments let the program store something in; it dies only of
another one, and of that only when it holds garbage or is used all the same
(`UsedUnset`, the two cases main.c overlooks). `RunsAsAsked` reads the arguments
as the usage text does and compares. It needs `fecId` to be NULL at first unless
an id was given, since the code takes garbage there for an id (cli.c:207). Two
cases in which the documentation asks for something else are left open in it by
name, so that it says nothing of them: `UrlsMisasked` and `NumberAndId` (see the
end of "What the comments say").

## Runs

| Run | Question | Instance |
| --- | --- | --- |
| `writer` | Do bytes survive buffering, cache and free, for callback, files and line callback? | 2 files, buffer of 3 bytes, strings of 0, 1, 2 and 5 bytes, 5 calls, all three sinks |
| `line_buffer` | Are the lines returned those of the input, and is the end reported? | all inputs of up to 5 bytes over {x, newline}, buffer of 3, string of 1 byte at first |
| `encoding` | Is the text of a line decoded right over whatever the string held, and nothing written past it? | an earlier line of up to 2 bytes (ASCII or not), then lines of up to 3 bytes over 14 boundaries of the classes of `utf8d`, and 4-byte characters with their neighbours, each with and without a newline; strings of 2 bytes at first, raw line up to 8 |
| `csv` | Are fields those of the reference, do rows read back, and of which fields does the program end? | up to 2 cells of up to 2 characters, up to 3 of up to 1, quoted or bare, three cells with blanks, newlines and dates, with commas or ASCII 28; and any line of up to 5 characters; one date column |
| `parser` | Do rows land where they belong, whole and under the right header? Is every line handled once around an F99 text, is the text one field, does the parse end? | filings of up to 4 lines out of 13 (every kind, rows too short, fitting and too long, mapped, unmapped and prefix types) with 5 kinds of header line, of 5 with a plain or legacy header, of 7 when all are F99 lines; with a filing id column |
| `py_client` | Are a generator's rows those of its filing, in order, with their headers, does every `next` return, do two generators keep out of each other's way? | 2 generators, filings of up to 2 lines of any kind, and of 3 even or odd ones; 2 form types |
| `py_files` | Does every file hold what was passed for it, whatever fails? | 3 files, chunks of 1 and 2 bytes, 4 calls, each failing to open, to write or to close |
| `cli` | Does the program do what its arguments say, and use only what it stored, and free it? | up to 2 flag arguments of 8 (unknown, empty and combined letters among them), up to 3 texts, piped or not; memory zeroed, garbage, or garbage in one pointer |
| `py_client_shared` | The documented "generator of a filing", with two generators | filings of up to 3 even, or up to 3 odd lines |
| `parser_cache`, `parser_two_fields` | Statements of comments on the cache and on rows that the code does not meet | up to 4 lines |
| `encoding_length` | The length that decodeLine is said to return | as `encoding` |

Why the bounds are enough. `writer`: a string longer than the buffer is cut at
least once whatever is in the buffer (5 > 3), so a single write meets an empty, partly
filled and just filled buffer; two files and five calls make the cache hit, miss
and open, and return to an older file. `line_buffer`: inputs longer than the
buffer, chunks down to one byte, lines longer than two chunks and the string
doubled three times. `encoding`: the automaton decides by class, and both ends of
every class are there; the states it can be in after three bytes are all of
them, and the fourth byte of a character is covered apart. One earlier line,
longer or shorter, is all that a line can be decoded over. `csv`: two cells
with quotes show that a shift in one does not spoil the other, and a header
line read twice needs the version in the second or third. `parser`: a cache
mistake needs a row to load the cache, one to disturb it and one to suffer,
after the header, and a text needs a row, two boundaries and a line between
them. `py_client`: the cache of the callback needs a form type, another one, and
the first again; a lost row needs one before and one after it; two generators
are enough for one to overwrite the line of the other. `py_files`: three files
and a return to the first make the cache miss a stream that is known. `cli`: two
arguments are enough for one to be refused after the other, and every pointer
is garbage alone and with all the others. The theorems remove the bounds for
all components.

`CHECK_DEADLOCK FALSE` is set for all modules but `LineBuffer`: they stop when
the context is freed, the line or the filing is over, the program ends or asks
for nothing more. `LineBuffer` never stops, since `readLine` may always be called
again, and is checked for deadlock.

### Fairness

`ReadsAll` and `ParseEnds` are checked under weak fairness of the steps of
`LineBuffer` and `Parser` (`Next`). The code is sequential, takes no lock and
waits for nothing but the read callback; a call that runs is scheduled by the
operating system. `ReadsAll` takes its caller to be `parseFec`, which calls
`readLine` until the end.

`NextReturns` assumes weak fairness of each parsing thread and of the consumer
inside `queue.get()`: the interpreter (and, inside the C library, the operating
system) runs every thread that can run. The program is not assumed to ask for
another row. A thread whose generator was dropped waits in `join` for good; no
property says otherwise, and `Handshake` shows in which state it is left.

## Proofs

All proofs are checked by TLAPS, for every value of the constants allowed by the
modules' assumptions (a positive buffer size, a positive string size, names
other than NULL, ...). The bounds `MaxCalls`, `Continues`, `MaxSize` and `Lines`
are constants too, so the theorems hold for calls, filings and lines of any
number and length.

* `WriterProofs`
  * `TypeCorrect`, `Conservation`: `Spec => []TypeOK` and `Spec => []WriterInv`.
    `TypeOK /\ WriterInv` is inductive. The heart is `CopyChunkInv`: the bytes
    move from the write in progress to the buffer and on to the sinks, and their
    concatenation stays what was written. It rests on `CatAssociative` and
    `Regroup`, on `CacheCoherent` (so that the name, the buffer and the stream
    used by a flush are one file's) and on `OpenedOnce` (so that no other file
    is disturbed). `RoomLeft` gives the turn its progress.
  * `CallbackRefinement`: with a write callback, `Spec => ImplementsCustomLog`.
    From `Conservation`, what the callback received is a prefix of what was
    written, each flush extends it, and at the end of the free nothing is left.
  * `DiskRefinement`: the same for the streams of the output files
    (`ImplementsDiskLog`). A file's stream is found by its place in the table,
    so `OpenedOnce` is needed to say that the place is one.
  * `LinesComplete`: `Spec => []LinesAreFiles`. For a client that ends its line
    before it turns to another file, the lines handed over, the open line and
    the write in progress make what was written under each name. A turn that
    changes one name must leave the concatenations of all others as they are.
* `LineBufferProofs`
  * `TypeCorrect`, `Accounting`: `TypeOK /\ BufferInv` is inductive. `BufferInv`
    is needed because `readLine` counts, copies and looks at different moments:
    without `Accounted` and `AtTheEnd` nothing says that a position past the
    buffer means the input is over.
  * `LineRefinement`: `Spec => ImplementsLineSource`; `EndLineFacts` shows that
    the line returned is a slice of the input with its newline and no other.

* `PyClientProofs`
  * `ClientType`, `ClientHandshake`: `TypeOK /\ Bounds /\ Handshake` is
    inductive. `Handshake` counts: the unfinished tasks are the items in the
    queue and the one being worked on. `NothingUnfinished` draws the conclusion
    used everywhere: a thread may run only while its generator is being asked.
    `Bounds` is needed for the types (a header is there when a form type is in
    cache).
  * `OneThread`: `Spec => []SingleThreaded`, for any number of generators.
  * `NoUse`: `Spec => NoUseAfterFree`. Whoever frees the memory is not inside
    `next`, so by the above no thread runs, and none can be resumed.
  * `RowsComeInOrder`: `Spec => []RowsInOrder`, for any number of generators and
    any filings. `CallsCached` says that the calls to make are those of one line
    and that the callback has in cache the headers of every form type declared to
    it, so a row goes out with its own. `Progress` counts lines: `Passed` were
    given to `parseLine`, of these `Handed` have been to the callback, and the
    program has the rows of the first `Reached`. `UndisturbedBefore` is why it is
    inductive: a generator that is disturbed stays so.

* `EncodingProofs`
  * `DecodeType`, `DecodeFits`, `DecodeRejects`. The invariant is `TypeOK`, `Fits`
    and `RejectIsFinal`: while a line is converted there is room for two bytes
    for each one that is left. Rejection is final because `Target` has no way out
    of it, so the flag of `collectLineInfo` is the state at the end.
  * `DecodeRecognises`, `DecodeRejectsRightly`. `Knows` gives the automaton its
    meaning: in each state the bytes read so far are whole characters and the
    beginning of one (`Pending`), and after a rejection no text in UTF-8 begins
    with them. `WellFormed` says that the bytes fall into characters; that there
    is one way only to do so is what makes a rejection final.
  * `DecodeKeepsText`, `DecodeEncodes`, `DecodeLength`. `Kept` says that `copyString`
    has put the line where the string begins, `Latin` that the converted part is
    the text of the bytes converted (`LatinText`), with its newline only at the
    end. What lies behind is never looked at.
* `CsvProofs`
  * `FieldsLieInLine` and `UnescapedInPlace`. The invariant joins `TypeOK` and
    `InPlace` with the distance between the two positions: each doubled quote
    moves the reading one character further ahead of the writing, which never
    catches up. A closing quote is looked at one character beyond, which is why
    `position` must be known to be before the NUL.
  * `OnlyOneQuoteKills`: `Spec => []DiesOfOneQuote`. A field ends before it starts
    only when `stripQuotes` took one quote for two (`Alone`); that its cell is
    then one quote comes from `Layout` and `Reads` (below), for a line not shifted
    before.
  * `RowIsCsv`: `Spec => []RowReadsBack`. `Counts` says that the two counters are
    the numbers of quotes and commas between the bounds, in the text as it is
    shifted so far; `NumberStripped` is why two may be subtracted when a pair of
    quotes is taken off. `RowInv` says that the row is that of the fields so far.
  * `LineIsRead`: `Spec => []FieldsRead`. `Layout` says where each cell lies in
    the line, `CellFacts` where each character of a value lies in its cell, one
    place for each but two for a quote. `Reads` is the invariant: the cells before
    the one in progress are read to their values, and of that one (`Partly`) the
    first characters lie shifted to `start`. `NextChar` then tells which action
    comes next. `Unshifted` is needed for the second reading: as long as no cell
    with a quote in it was read, the line is as it came.
* `ParserProofs`
  * `ParserTyped`, `CacheStaysTrue`: `InvA`, of `TypeOK`, `CacheTrue` and
    `Phases` (what is known at each `pc`, such as that a row is written under a
    type that was found), is inductive. All others rest on it.
  * `LinesHandledOnce`: `Handled` says of each `pc` which lines are accounted for.
  * `RowsAlwaysMatchHeader`, `RowsAlwaysKeepPrefix`: `FormFiles` says of each
    token of a file what it may be; the parts `Headed` and `Good` are kept by
    every write because a write only appends.
  * `RowsAlwaysWhole`: by cases of where the row in progress is, in the parser
    or in `parseF99Text`.
  * `LinesAlwaysFiles`: `Spec => []LinesAreFiles`. `Balance` is what the write
    context owes at each `pc`: the lines handed over and the buffer make each
    file, while a header line of the old kind is written the buffer is empty or
    the header's, and while an F99 text is written it is the row's. That a row
    is written to one file and ended there rests on these two.
  * `TextAlwaysQuoted`: `Spec => []TextQuoted`. `TextInv` follows the row with the
    text through the turns of `parseF99Text`: before, within and after the
    quotes, with the number of the input line that is next.
* `PyFilesProofs`: `StreamsCoherent`, `FilesHoldAll`, `CallbackIsLog`,
  `FilesComplete`. From `CacheCoherent` the stream used is that of the name
  called with, so a write extends one file by what its stream takes, and files
  are logs (`FileLog`). While no exception is lost the streams take all that is
  sent (`SentAndClosed`), which with `FilesHold` gives `ReturnsComplete`.
* `CliProofs`: `CommandsRunAsAsked`, `CommandsStoreBeforeUse`. The invariant says
  what is stored at each stage: `FlagsRead` relates the flags to the arguments
  read so far, `Named` gives the id and the name, `Owned` says that a pointer is
  as it was found or points to an allocated block, and that each block is
  pointed to, so that what is freed is all there is. `Held` says that a pointer
  which the arguments fill holds a block once it has been stored, and `Died` that
  the program has died only if the arguments and the memory are such that it can
  (`CanDie`). The second theorem
  assumes nothing of the memory.

Where a property is about a concatenation (the lines of a file, the text of a
line, a row), the model uses `FlattenSeq` of the community modules, which is
defined by a recursive function. The proofs take it apart once
(`PartialExists`, `PartialSame`, `FlattenMore`): the theorems on well-founded
relations of the library that need no operator as a parameter
(`NatLessThanWellFounded`, `WFMin`) give induction over a set of numbers
(`SetInduction`), by which the recursion has a solution, and only one.
`FlattenAppend` and its like are the only facts used elsewhere. Each of the
modules of proofs that speak of concatenations holds the ones it needs.

Every invariant and action property of the runs that hold is thus proved. Only
model-checked are the liveness properties `ReadsAll`, `ParseEnds` and
`NextReturns` (fairness and `ENABLED` are out of the prover's reach), and the
four statements of comments below, which do not hold.

## What the comments say and the code does not

1. `parser_cache`. A row is to be written by the mappings of its own form type
   ("Type mappings are unchanged from before", fec.c:96). There are two ways to
   break it. `lookupMappings` (fec.c:94) compares with the cached type over the
   length of the *line's* type: after `SA11AI`, a row of type `SA11A`, or of an
   empty type, becomes a row of `SA11AI`. And it caches a type before it is found
   (fec.c:106): the first row of an unmapped type is refused (fec.c:523, "Return
   3 if we encountered a mappings error"), the second is written with the
   headers of whatever type was loaded before. The trace shows one way or the
   other, as TLC's search happens to go. `RowsKeepPrefix` and `CacheTrue` are what
   does hold.
2. `parser_two_fields`. A row is begun when it has two fields ("at least two
   columns and the line is fully specified", fec.c:559-560) and ended only when
   it has three (fec.c:635-639). `RowsWhole` and `LinesAreFiles` are checked for filings without
   such rows.
3. `py_client_shared`. All parses of a `LibFastFEC` share one persistent memory
   (client.py:68). `parse` "parses a .fec filing in `file_handle` line by line,
   returning a generator" (python/README.md:26), but of two generators asked in
   turns one may yield rows of the other's filing, when a line with an unexpected
   number of fields has made it grab ahead. `RowsInOrder` is what does hold: a
   generator that is alone, or whose filing has no such line, is right.
4. `encoding_length`. "Return the length of the resulting line" (encoding.h:23):
   of a line that is converted only the characters that are not ASCII are counted
   (encoding.c:88), and `parseF99Text`, which writes as many bytes, cuts the
   line. `LengthWithin` is what holds.

Smaller ones, met while modelling, which the properties above make room for:

* The closing quote of an F99 text is written without regard to an opening one
  (fec.c:449, 514): an empty text leaves a lone quote. `TextQuoted` allows it.
* "Ensure the passed in line is encoded in UTF-8" (encoding.h:20): a last line
  without newline that is cut inside a character is passed on as it is.
  `EndedLinesAreUtf8` is about lines with a newline.
* A converted line has no NUL (encoding.c:91). If it has no newline either, the
  rest of an earlier, longer line follows it; if it has one, readers that stop
  at a NUL only (a quoted field, csv.c:93, and the fields of a legacy header,
  fec.c:738) pass it, and go on in that line too. `LineDecoded` is about the
  readers that stop at a newline, of a line that has one.
* With `-p` beside another flag, or with piped input, the usage and the message
  of main.c:46-49 were meant ("cannot be specified with other flags",
  README.md:48), but only `shouldPrintUrlOnly` is set, and the URLs printed were
  never made. For a numeric name the third text, the id to use (README.md:28), is
  ignored (cli.c:185-196). `RunsAsAsked` leaves both open, and `StoredBeforeUse`
  says which pointers are used unset then; both are plain to see once the line is
  read, so no run states them. With a numeric name and no `-p`, `fecName` is
  opened without having been set (main.c:85), which README.md:25 rules out.
* For a name that is not a number the id is what the expression finds in it
  (`NumberOf`). An empty directory reads the character before it (cli.c:156):
  `WithSeparators` is a set of texts, one of which it becomes.
* A CSV field that is a single `"` has a length of -1 (see `Csv`). Where it is
  written at all `RowReadsBack` says that it is written as an empty one. An empty
  first field reads the character before it (csv.c:202).
* Text between a closing quote and the delimiter becomes a field of its own; a
  row reads back as these fields.
* A date with a comma or a quote is written in quoted pieces (fec.c:243), the
  form type is written unescaped (fec.c:575), and so is a newline in a field
  whose quote is not closed (csv.c:90). `RowReadsBack` leaves out rows with
  these by the guards of its formula.

## Not modelled

* Failures of the C library (`malloc`, `fopen`, `fwrite`): the code does not
  handle them.
* PCRE and the generated mappings: what a match decides is a constant or the
  kind of a line. The vendored copy of PCRE is 58,000 of the 61,000 lines of C in
  the repository; the FastFEC sources themselves are some 3,000, most of which
  a definition models.
* Float fields: `strtod` and `fprintf` decide what is written (fec.c:250-269).
* The cache of compiled regular expressions in `memory.c`, `asciiOnly` of
  `encoding.c` (which nothing reads), `mkdir_p` and `normalize_filename`.
* `wasm.c` (one call of the same functions), the build and the packaging.
* Of the Python package: the conversion of a row to a dictionary, and the search
  for the library.

## Plan

All that was planned is done: the abstract specifications, a module for each
component with behaviour of its own, their runs, and for each of them the
theorems for all its safety properties. What could follow is a composition of
`Parser` over `LineBuffer` and `Writer` as one system, which at present meet by
their interfaces.
