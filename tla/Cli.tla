---------------------------------- MODULE Cli ----------------------------------
(***************************************************************************)
(* The command line (src/cli.c, src/main.c): parseArgs fills a context     *)
(* from the arguments, and main does what it says: prints the usage,       *)
(* prints the URLs of a filing, or parses a filing from standard input or  *)
(* from a file.                                                            *)
(*                                                                         *)
(* newCliContext takes its memory from malloc and sets the flags only, so  *)
(* each pointer of the context starts as NULL or as garbage (Wild), and    *)
(* some of them are read, printed or freed before anything is stored in    *)
(* them.  What a use of garbage does is a choice: the program dies or goes *)
(* on.                                                                     *)
(*                                                                         *)
(* The arguments are those that begin with -, each a set of flags that are *)
(* all known or not, and the texts after them.  What the two regular       *)
(* expressions find in a text is given by Numeric and NumberOf.            *)
(*                                                                         *)
(* An operator written just before another with a similar name, and used   *)
(* nowhere, is a slip the properties must notice.                          *)
(***************************************************************************)
EXTENDS Integers, Sequences

CONSTANTS Texts,           \* arguments that are not flags, and parts of them
          Numeric,         \* those that are a number
          NumberOf,        \* NumberOf[t]: the number at the end of t, or None
          WithSeparators,  \* WithSeparators[t]: the directories t may stand for
          Default,         \* "output/"
          FlagLists, TextLists, \* the arguments the program is run with
          Junks,           \* what malloc may leave in the pointers
          None

Flags == {"i", "s", "w", "x", "p"}
Fields == {"outputDirectory", "fecId", "fecName", "fecUrl", "fecBackupUrl",
           "filingIdOnly", "extractNumber"}

\* A pointer: the block it points to, and the text there.
Pointer(b, t) == [block |-> b, text |-> t]
Null == Pointer("null", None)
Wild == Pointer("wild", None)

ASSUME CliAssumption ==
  /\ None \notin Texts /\ Default \notin Texts
  /\ Numeric \subseteq Texts
  /\ NumberOf \in [Texts -> Texts \cup {None}]
  /\ WithSeparators \in [Texts -> SUBSET Texts] /\ \A t \in Texts : WithSeparators[t] # {}
  /\ FlagLists \subseteq Seq([flags : SUBSET Flags, known : BOOLEAN])
  /\ TextLists \subseteq Seq(Texts)
  /\ Junks \subseteq [Fields -> {Null, Wild}]

VARIABLES options, texts, \* argv
          tty,      \* standard input is not piped
          junk,     \* what malloc left in the pointers
          offset,   \* flagOffset
          piped, flags,   \* the flags of the context, "x" apart
          ptr,      \* its pointers
          heap,     \* the blocks allocated and not freed
          usage,    \* shouldPrintUsage
          input,    \* the text that names the file, Null for standard input
          status,   \* the exit status
          pc

vars == <<options, texts, tty, junk, offset, piped, flags, ptr, heap, usage, input,
          status, pc>>
args == <<options, texts, tty, junk>>
flagVars == <<offset, piped, flags>>
ends == <<input, status>>

\* What a pointer points to was allocated, and is not freed.
Sound(p) == p.block \in heap

Init == /\ options \in FlagLists /\ texts \in TextLists /\ tty \in BOOLEAN
        /\ junk \in Junks
        /\ offset = 0 /\ piped = ~tty /\ flags = {}
        /\ ptr = junk /\ heap = {} /\ usage = FALSE
        /\ input = Null /\ status = -1
        /\ pc = "start"

-----------------------------------------------------------------------------
(* parseArgs.                                                                *)
Refuse == usage' = TRUE /\ pc' = "main"

\* The regular expressions are compiled once there is an argument.
Start ==
  /\ pc = "start"
  /\ \/ /\ options = <<>> /\ texts = <<>>
        /\ Refuse /\ UNCHANGED <<ptr, heap>>
     \/ /\ options # <<>> \/ texts # <<>>
        /\ ptr' = [ptr EXCEPT !["filingIdOnly"] = Pointer("filingIdOnly", None),
                              !["extractNumber"] = Pointer("extractNumber", None)]
        /\ heap' = {"filingIdOnly", "extractNumber"}
        /\ pc' = "flags" /\ UNCHANGED usage
  /\ UNCHANGED <<args, flagVars, ends>>

\* One argument with a flag, or with several letters.  With an unknown letter
\* (or none) the usage is printed, and what the others set is not looked at.
ParseFlag ==
  /\ pc = "flags" /\ offset < Len(options)
  /\ LET o == options[offset + 1]
     IN  \/ /\ o.known /\ o.flags # {}
            /\ flags' = flags \cup (o.flags \ {"x"}) /\ piped' = (piped /\ "x" \notin o.flags)
            /\ offset' = offset + 1
            /\ UNCHANGED <<pc, usage>>
         \/ ~o.known /\ Refuse /\ UNCHANGED flagVars
         \/ o.flags = {} /\ Refuse /\ UNCHANGED flagVars
  /\ UNCHANGED <<args, ptr, heap, ends>>

\* The texts: the name or the id, the output directory, the id to use.
Directories == IF Len(texts) >= 2 THEN WithSeparators[texts[2]] ELSE {Default}

Given == IF piped THEN texts[1]
         ELSE IF Len(texts) >= 3 THEN texts[3] ELSE None

TakeTexts ==
  /\ pc = "flags" /\ offset = Len(options)
  /\ \/ texts = <<>> /\ Refuse /\ UNCHANGED <<ptr, heap>>
     \/ /\ texts # <<>>
        /\ \E d \in Directories :
             ptr' = [ptr EXCEPT !["outputDirectory"] = Pointer("outputDirectory", d),
                                !["fecId"] = IF Given = None THEN @
                                             ELSE Pointer("givenId", Given)]
        /\ heap' = heap \cup {"outputDirectory"}
                        \cup (IF Given = None THEN {} ELSE {"givenId"})
        /\ pc' = "name" /\ UNCHANGED usage
  /\ UNCHANGED <<args, flagVars, ends>>

\* A number is the id, in place of any that was given; of another name the
\* number is the id if none is stored yet, as far as the pointer tells.
FoundAlways == NumberOf[texts[1]] # None
Found == ptr["fecId"] = Null /\ NumberOf[texts[1]] # None

MatchName ==
  /\ pc = "name"
  /\ \/ piped /\ UNCHANGED <<ptr, heap>>
     \/ /\ ~piped /\ texts[1] \in Numeric
        /\ ptr' = [ptr EXCEPT !["fecId"] = Pointer("fecId", texts[1])]
        /\ heap' = heap \cup {"fecId"}
     \/ /\ ~piped /\ texts[1] \notin Numeric
        /\ ptr' = [ptr EXCEPT !["fecName"] = Pointer("fecName", texts[1]),
                              !["fecId"] = IF Found THEN Pointer("fecId", NumberOf[texts[1]])
                                           ELSE @]
        /\ heap' = heap \cup {"fecName"} \cup (IF Found THEN {"fecId"} ELSE {})
  /\ pc' = "url"
  /\ UNCHANGED <<args, flagVars, usage, ends>>

\* With -p and another flag the context says so (shouldPrintUrlOnly) and that
\* is all: main asks for it only when the usage is printed.
UrlsMade == flags = {"p"} /\ ~piped

MakeUrl ==
  /\ pc = "url"
  /\ \/ ptr["fecId"] = Null /\ Refuse /\ UNCHANGED <<ptr, heap>>
     \/ /\ ptr["fecId"] # Null /\ ~UrlsMade
        /\ pc' = "main" /\ UNCHANGED <<ptr, heap, usage>>
     \/ /\ ptr["fecId"] # Null /\ UrlsMade
        /\ ptr' = [ptr EXCEPT !["fecUrl"] = Pointer("fecUrl", ptr["fecId"].text),
                              !["fecBackupUrl"] = Pointer("fecBackupUrl", ptr["fecId"].text)]
        /\ heap' = heap \cup {"fecUrl", "fecBackupUrl"}
        /\ pc' = "main" /\ UNCHANGED usage
     \/ /\ ptr["fecId"] # Null /\ UrlsMade /\ ~Sound(ptr["fecId"])
        /\ pc' = "crashed" /\ UNCHANGED <<ptr, heap, usage>>
  /\ UNCHANGED <<args, flagVars, ends>>

-----------------------------------------------------------------------------
(* main.                                                                     *)
PrintUsage ==
  /\ pc = "main" /\ usage
  /\ status' = 1 /\ pc' = "free"
  /\ UNCHANGED <<args, flagVars, ptr, heap, usage, input>>

\* The URLs are printed as they are, and the context is not freed.
PrintUrl ==
  /\ pc = "main" /\ ~usage /\ "p" \in flags
  /\ \/ status' = 0 /\ pc' = "exit"
     \/ /\ ~(Sound(ptr["fecUrl"]) /\ Sound(ptr["fecBackupUrl"]) /\ Sound(ptr["fecId"]))
        /\ pc' = "crashed" /\ UNCHANGED status
  /\ UNCHANGED <<args, flagVars, ptr, heap, usage, input>>

\* The name is printed (unless -s) and opened; there may be no such file.  A
\* name that was never stored is printed and opened just as well.
Open ==
  /\ pc = "main" /\ ~usage /\ "p" \notin flags
  /\ \/ /\ piped \/ Sound(ptr["fecName"])
        /\ input' = IF piped THEN Null ELSE ptr["fecName"]
        /\ pc' = "parse" /\ UNCHANGED status
     \/ ~piped /\ status' = 2 /\ pc' = "exit" /\ UNCHANGED input
     \/ /\ \/ ~Sound(ptr["fecId"]) /\ "s" \notin flags
           \/ ~Sound(ptr["fecName"]) /\ ~piped
        /\ pc' = "crashed" /\ UNCHANGED ends
  /\ UNCHANGED <<args, flagVars, ptr, heap, usage>>

ParseFec ==
  /\ pc = "parse"
  /\ \/ status' \in {0, 3} /\ pc' = "free"
     \/ ~Sound(ptr["fecId"]) /\ pc' = "crashed" /\ UNCHANGED status
  /\ UNCHANGED <<args, flagVars, ptr, heap, usage, input>>

\* freeCliContext: every pointer that is not NULL is freed.
FreedFew == Fields \ {"fecUrl", "fecBackupUrl", "fecName"}
Freed == Fields

FreeCliContext ==
  /\ pc = "free"
  /\ \/ heap' = heap \ {ptr[f].block : f \in Freed} /\ pc' = "exit"
     \/ /\ \E f \in Freed : ptr[f] # Null /\ ~Sound(ptr[f])
        /\ pc' = "crashed" /\ UNCHANGED heap
  /\ UNCHANGED <<args, flagVars, ptr, usage, ends>>

Next == \/ Start \/ ParseFlag \/ TakeTexts \/ MatchName \/ MakeUrl
        \/ PrintUsage \/ PrintUrl \/ Open \/ ParseFec \/ FreeCliContext

Spec == Init /\ [][Next]_vars
-----------------------------------------------------------------------------
(* What the usage says of the arguments (main.c:10, README.md:19-48).        *)
AskedFlags == UNION {options[i].flags : i \in 1..Len(options)}
WellFormed == /\ \A i \in 1..Len(options) : options[i].known /\ options[i].flags # {}
              /\ texts # <<>>
AskedPiped == ~tty /\ "x" \notin AskedFlags
AskedId == IF AskedPiped THEN texts[1]
           ELSE IF Len(texts) >= 3 THEN texts[3] ELSE NumberOf[texts[1]]
IdIsGiven == AskedPiped \/ Len(texts) >= 3
JustUrls == AskedFlags \in {{"p"}, {"p", "x"}} /\ ~AskedPiped
NumberAndId == texts[1] \in Numeric /\ Len(texts) >= 3
UrlsMisasked == "p" \in AskedFlags /\ ~JustUrls

\* A filing is parsed from where the arguments say, with the id and into the
\* directory they say; URLs are those of the id; and the usage is printed only for
\* arguments that are ill-formed, name no id, or ask for URLs and more.  All this
\* depends on malloc only for the id that is taken from the name: fecId is
\* tested for NULL there without having been set (cli.c:207).
\* Two things the documentation asks for are left open, for the code does not do
\* them.  Of -p and other flags ("cannot be specified with other flags",
\* README.md:48) the usage with a message is promised (main.c:46-49), and the URLs
\* are printed instead, out of pointers in which nothing was stored.  Of a number
\* and an id ("an ID to use as the filing ID", README.md:28) the number wins
\* (cli.c:185-196), so that the URLs are not those of the id.
RunsAsAsked ==
  junk["fecId"] = Null \/ (texts # <<>> /\ IdIsGiven) =>
    /\ pc = "parse" =>
         /\ WellFormed /\ "p" \notin AskedFlags
         /\ IF AskedPiped THEN input = Null ELSE input.text = texts[1]
         /\ ptr["fecId"].text = AskedId
         /\ ptr["outputDirectory"].text \in Directories
    /\ pc = "exit" /\ status = 0 /\ JustUrls /\ ~NumberAndId =>
         /\ ptr["fecUrl"].text = IF texts[1] \in Numeric THEN texts[1] ELSE AskedId
         /\ ptr["fecBackupUrl"].text = ptr["fecUrl"].text
    /\ pc = "exit" /\ status = 1 =>
         \/ ~WellFormed \/ UrlsMisasked
         \/ texts[1] \notin Numeric /\ AskedId = None

\* The pointers for which the arguments hold something, or ask for it.  The number
\* in a name is stored, and URLs are made of no id, as garbage in fecId says.
IdIsStored == \/ IdIsGiven \/ texts[1] \in Numeric
              \/ NumberOf[texts[1]] # None /\ junk["fecId"] = Null
Filled == {f \in Fields :
  CASE f \in {"filingIdOnly", "extractNumber"} -> options # <<>> \/ texts # <<>>
    [] f = "outputDirectory" -> WellFormed
    [] f = "fecId" -> WellFormed /\ IdIsStored
    [] f = "fecName" -> WellFormed /\ ~AskedPiped /\ texts[1] \notin Numeric
    [] f \in {"fecUrl", "fecBackupUrl"} ->
         WellFormed /\ JustUrls /\ (IdIsStored \/ junk["fecId"] # Null)}

\* Pointers that are used although nothing was stored in them, be they NULL: the
\* URLs when -p is not alone (main.c:22-26), and the name when it is a number
\* (main.c:85).
UsedUnset == (IF UrlsMisasked THEN {"fecUrl"} ELSE {})
  \cup (IF "p" \notin AskedFlags /\ ~AskedPiped /\ texts[1] \in Numeric THEN {"fecName"} ELSE {})

\* Whatever malloc has left in the context (cli.c:15-27): the program dies only of
\* a pointer in which it has stored nothing, and which holds garbage, or is used all
\* the same; and what it allocated is freed when it ends, unless it ends to print
\* URLs or without its file.
StoredBeforeUse ==
  /\ pc = "crashed" =>
       \E f \in Fields \ Filled : junk[f] = Wild \/ (texts # <<>> /\ f \in UsedUnset)
  /\ pc = "exit" /\ (status \in {1, 3} \/ (status = 0 /\ "p" \notin flags)) => heap = {}
=============================================================================
