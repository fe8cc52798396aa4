------------------------------ MODULE CliProofs ------------------------------
(***************************************************************************)
(* Proofs about Cli, for all arguments and whatever malloc leaves in the   *)
(* context.                                                                *)
(***************************************************************************)
EXTENDS Cli, SequenceTheorems, TLAPS

-----------------------------------------------------------------------------
(* The invariant: what is stored in the context at each stage of parseArgs. *)

PCs == {"start", "flags", "name", "url", "main", "parse", "free", "exit", "crashed"}
Blocks == Fields \cup {"givenId"}

Pointers == [block : Blocks \cup {"null", "wild"}, text : Texts \cup {None, Default}]

TypeOK == /\ options \in FlagLists /\ texts \in TextLists /\ tty \in BOOLEAN
          /\ junk \in Junks
          /\ offset \in 0..Len(options)
          /\ piped \in BOOLEAN /\ flags \subseteq Flags
          /\ ptr \in [Fields -> Pointers]
          /\ heap \subseteq Blocks
          /\ usage \in BOOLEAN
          /\ pc \in PCs

\* The flags of the first k arguments.
Seen(k) == {x \in Flags : \E i \in 1..k : x \in options[i].flags}

Ends == {"main", "free", "exit", "crashed"}
Accepted == pc \notin {"start", "flags"} /\ ~usage

\* The flags of the context are those of the arguments read, which are all of
\* them once an argument that is no flag is looked at.
FlagsRead ==
  /\ flags = Seen(offset) \ {"x"}
  /\ piped = (~tty /\ "x" \notin Seen(offset))
  /\ \A i \in 1..offset : options[i].known /\ options[i].flags # {}
  /\ usage => pc \in Ends
  /\ Accepted => offset = Len(options) /\ texts # <<>>

\* What is stored is stored in this order.
Stored ==
  /\ pc = "start" => ptr = junk /\ heap = {} /\ offset = 0
  /\ pc \in {"start", "flags"} => /\ ptr["outputDirectory"] = junk["outputDirectory"]
                                  /\ ptr["fecId"] = junk["fecId"]
  /\ pc \in {"start", "flags", "name"} => ptr["fecName"] = junk["fecName"]
  /\ pc \in {"start", "flags", "name", "url"} =>
       ptr["fecUrl"] = junk["fecUrl"] /\ ptr["fecBackupUrl"] = junk["fecBackupUrl"]

IsNumber == ~piped /\ texts[1] \in Numeric

GivenNow == IF Given = None THEN junk["fecId"] ELSE Pointer("givenId", Given)

\* The id: the text that is piped, the number, the one given, or the one found.
IdNow == IF IsNumber THEN Pointer("fecId", texts[1])
         ELSE IF Given = None /\ junk["fecId"] = Null /\ NumberOf[texts[1]] # None
           THEN Pointer("fecId", NumberOf[texts[1]])
           ELSE GivenNow
NameNow == IF piped \/ texts[1] \in Numeric THEN junk["fecName"]
           ELSE Pointer("fecName", texts[1])

Named ==
  /\ pc = "name" => ptr["fecId"] = GivenNow
  /\ Accepted /\ pc # "name" => ptr["fecId"] = IdNow /\ ptr["fecName"] = NameNow
  /\ Accepted /\ pc \notin {"name", "url"} => ptr["fecId"] # Null
  /\ Accepted => ptr["outputDirectory"].text \in Directories
  /\ Accepted /\ pc \notin {"name", "url", "crashed"} /\ UrlsMade =>
       /\ ptr["fecUrl"] = Pointer("fecUrl", ptr["fecId"].text)
       /\ ptr["fecBackupUrl"] = Pointer("fecBackupUrl", ptr["fecId"].text)
       /\ pc = "main" => {"fecUrl", "fecBackupUrl"} \subseteq heap

Running == pc \notin {"exit", "crashed"}

\* A pointer is as malloc left it, or points to an allocated block; and each
\* block is pointed to, but for an id that was given beside a number.
Owned ==
  Running =>
    /\ \A f \in Fields : ptr[f] = junk[f] \/ Sound(ptr[f])
    /\ \A b \in heap : \/ \E f \in Fields : ptr[f].block = b
                       \/ pc \in {"url", "main"} /\ ~usage /\ IsNumber

\* The refusals.
LuckyId == junk["fecId"] = Null \/ (texts # <<>> /\ IdIsGiven)
Refused == usage /\ LuckyId => ~WellFormed \/ (texts[1] \notin Numeric /\ AskedId = None)

\* The exit status, and what is left when the program ends.
Ended ==
  /\ pc \notin {"free", "exit", "crashed"} => status = -1
  /\ usage /\ pc \in {"free", "exit"} => status = 1
  /\ ~usage => status \in {-1, 0, 2, 3}
  /\ pc \in {"parse", "free"} /\ ~usage => "p" \notin flags /\ ~IsNumber
  /\ pc = "parse" => IF piped THEN input = Null ELSE input = NameNow
  /\ pc = "exit" /\ (usage \/ status = 3 \/ (status = 0 /\ "p" \notin flags)) => heap = {}

\* Once parseArgs is past the place where it stores a pointer, the pointers that
\* the arguments fill point to blocks, and what the program dies of is no such one.
Before(f) == CASE f \in {"filingIdOnly", "extractNumber"} -> {"start"}
               [] f = "outputDirectory" -> {"start", "flags"}
               [] f \in {"fecId", "fecName"} -> {"start", "flags", "name"}
               [] f \in {"fecUrl", "fecBackupUrl"} -> {"start", "flags", "name", "url"}

Held == pc # "crashed" =>
          \A f \in Filled : pc \notin Before(f) => ptr[f].block \in Blocks

CanDie == \E f \in Fields \ Filled : junk[f] = Wild \/ (texts # <<>> /\ f \in UsedUnset)
Died == pc = "crashed" => CanDie

Inv == TypeOK /\ FlagsRead /\ Stored /\ Named /\ Owned /\ Refused /\ Ended /\ Held /\ Died

-----------------------------------------------------------------------------
(* What the arguments and the junk are made of.                             *)

LEMMA StoredPointer ==
  ASSUME NEW b \in Blocks, NEW t \in Texts \cup {None, Default}
  PROVE  /\ Pointer(b, t) \in Pointers
         /\ Pointer(b, t).block = b /\ Pointer(b, t).text = t
         /\ Pointer(b, t) # Null
BY DEF Pointer, Pointers, Blocks, Fields, Null

LEMMA NullAndWild ==
  /\ Null \in Pointers /\ Wild \in Pointers /\ Null # Wild
  /\ Null.block \notin Blocks /\ Wild.block \notin Blocks
BY DEF Pointer, Pointers, Blocks, Fields, Null, Wild

LEMMA Arguments ==
  ASSUME TypeOK
  PROVE  /\ options \in Seq([flags : SUBSET Flags, known : BOOLEAN])
         /\ Len(options) \in Nat
         /\ \A i \in 1..Len(options) : options[i].flags \subseteq Flags
                                       /\ options[i].known \in BOOLEAN
         /\ texts \in Seq(Texts) /\ Len(texts) \in Nat
         /\ \A i \in 1..Len(texts) : texts[i] \in Texts
         /\ texts # <<>> => texts[1] \in Texts /\ Len(texts) >= 1
<1>1. options \in Seq([flags : SUBSET Flags, known : BOOLEAN]) /\ texts \in Seq(Texts)
  BY CliAssumption DEF TypeOK
<1>2. \A i \in 1..Len(options) : options[i] \in [flags : SUBSET Flags, known : BOOLEAN]
  BY <1>1, ElementOfSeq, Zenon
<1> QED
  BY <1>1, <1>2

LEMMA Junk ==
  ASSUME TypeOK
  PROVE  \A f \in Fields : junk[f] \in {Null, Wild} /\ ~Sound(junk[f])
<1>1. junk \in [Fields -> {Null, Wild}]
  BY CliAssumption DEF TypeOK
<1>2. Null.block \notin Blocks /\ Wild.block \notin Blocks
  BY DEF Null, Wild, Pointer, Blocks, Fields
<1> QED
  BY <1>1, <1>2 DEF Sound, TypeOK

LEMMA AllSeen == ASSUME TypeOK PROVE AskedFlags = Seen(Len(options))
BY Arguments DEF AskedFlags, Seen

LEMMA SeenMore ==
  ASSUME TypeOK, offset < Len(options)
  PROVE  Seen(offset + 1) = Seen(offset) \cup options[offset + 1].flags
<1>1. offset \in Nat /\ offset + 1 \in 1..Len(options)
  BY Arguments DEF TypeOK
<1>2. \A i : i \in 1..(offset + 1) <=> i \in 1..offset \/ i = offset + 1
  BY <1>1
<1>3. options[offset + 1].flags \subseteq Flags
  BY <1>1, Arguments
<1> QED
  BY <1>2, <1>3 DEF Seen

LEMMA GivenText ==
  ASSUME TypeOK, texts # <<>>
  PROVE  /\ Given \in Texts \cup {None}
         /\ piped => Given = texts[1]
         /\ Given # None <=> piped \/ Len(texts) >= 3
         /\ ~piped /\ Len(texts) >= 3 => Given = texts[3]
BY Arguments, CliAssumption DEF Given

\* Once the arguments are accepted the context holds what they ask for.
LEMMA AsAsked ==
  ASSUME TypeOK, FlagsRead, offset = Len(options), texts # <<>>
  PROVE  /\ WellFormed /\ AskedPiped = piped
         /\ "p" \in flags <=> "p" \in AskedFlags
         /\ JustUrls <=> UrlsMade
         /\ AskedId = IF Given # None THEN Given ELSE NumberOf[texts[1]]
         /\ IdIsGiven <=> Given # None
<1>1. AskedFlags = Seen(offset) /\ AskedFlags \subseteq Flags
  BY AllSeen DEF Seen
<1>2. WellFormed /\ AskedPiped = piped
  BY <1>1 DEF WellFormed, AskedPiped, FlagsRead
<1>3. "p" \in flags <=> "p" \in AskedFlags
  BY <1>1 DEF FlagsRead
<1>4. JustUrls <=> UrlsMade
  <2>1. flags = AskedFlags \ {"x"}
    BY <1>1 DEF FlagsRead
  <2>2. flags = {"p"} <=> AskedFlags \in {{"p"}, {"p", "x"}}
    BY <2>1
  <2> QED
    BY <1>2, <2>2 DEF JustUrls, UrlsMade
<1>5. AskedId = IF Given # None THEN Given ELSE NumberOf[texts[1]]
  BY <1>2, GivenText DEF AskedId
<1>6. IdIsGiven <=> Given # None
  BY <1>2, GivenText DEF IdIsGiven
<1> QED
  BY <1>2, <1>3, <1>4, <1>5, <1>6

\* What the arguments fill and what may kill depend on the arguments and the junk.
LEMMA ArgsKept ==
  ASSUME UNCHANGED args
  PROVE  Filled' = Filled /\ CanDie' = CanDie /\ (WellFormed' <=> WellFormed)
<1>1. /\ AskedFlags' = AskedFlags /\ (WellFormed' <=> WellFormed) /\ (AskedPiped' <=> AskedPiped)
      /\ (IdIsStored' <=> IdIsStored)
  BY DEF args, AskedFlags, WellFormed, AskedPiped, IdIsStored, IdIsGiven
<1>2. JustUrls' <=> JustUrls
  BY <1>1 DEF JustUrls
<1>3. Filled' = Filled
  BY <1>1, <1>2 DEF Filled, args
<1>4. UsedUnset' = UsedUnset
  BY <1>1, <1>2 DEF UsedUnset, UrlsMisasked, args
<1> QED
  BY <1>1, <1>3, <1>4 DEF CanDie, args

\* Ill-formed arguments fill the two expressions only, and none nothing.
LEMMA FewFilled ==
  ASSUME ~WellFormed
  PROVE  /\ Filled \subseteq {"filingIdOnly", "extractNumber"}
         /\ options = <<>> /\ texts = <<>> => Filled = {}
BY DEF Filled, Fields

\* A pointer that is used and not sound was not filled; what is in it is junk.
LEMMA NotStored ==
  ASSUME Inv, Running, NEW f \in Fields, ~Sound(ptr[f]), pc \notin Before(f)
  PROVE  f \notin Filled /\ ptr[f] = junk[f] /\ (ptr[f] # Null => CanDie)
<1>1. ptr[f] = junk[f] /\ junk[f] \in {Null, Wild}
  BY Junk DEF Inv, Owned
<1>2. f \notin Filled
  BY <1>1, NullAndWild DEF Inv, Held, Running
<1> QED
  BY <1>1, <1>2 DEF CanDie

LEMMA InitInv == Init => Inv
<1> SUFFICES ASSUME Init PROVE Inv
  OBVIOUS
<1>1. junk \in [Fields -> {Null, Wild}] /\ ptr = junk
  BY CliAssumption DEF Init
<1>2. Len(options) \in Nat
  BY CliAssumption DEF Init
<1>3. TypeOK
  <2>1. junk \in [Fields -> Pointers]
    BY <1>1, NullAndWild
  <2> QED
    <3>1. offset \in 0..Len(options)
      BY <1>2 DEF Init
    <3>2. piped \in BOOLEAN /\ flags \subseteq Flags /\ heap \subseteq Blocks /\ pc \in PCs
      BY DEF Init, PCs
    <3> QED
      BY <1>1, <2>1, <3>1, <3>2 DEF Init, TypeOK
<1>4. Seen(0) = {}
  BY DEF Seen
<1>5. FlagsRead
  BY <1>4 DEF Init, FlagsRead, Accepted, Ends
<1> QED
  <2>1. Held
    BY DEF Init, Held, Before, Filled, Fields
  <2> QED
    BY <1>3, <1>5, <2>1 DEF Init, Inv, Stored, Named, Accepted, Owned, Refused, Ended, Died

-----------------------------------------------------------------------------
(* The actions.                                                             *)

LEMMA StartInv == ASSUME Inv, Start PROVE Inv'
<1> USE DEF Inv
<1>1. CASE options = <<>> /\ texts = <<>> /\ Refuse /\ UNCHANGED <<ptr, heap>>
  <2>1. TypeOK'
    BY <1>1 DEF Start, Refuse, TypeOK, args, flagVars, PCs
  <2>2. FlagsRead'
    BY <1>1 DEF Start, Refuse, FlagsRead, Seen, args, flagVars, Ends, Accepted
  <2>3. Stored' /\ Named' /\ Ended' /\ Died'
    BY <1>1 DEF Start, Refuse, args, flagVars, ends, Stored, Named, Ended, Died, Accepted
  <2>4. Owned'
    BY <1>1 DEF Start, Refuse, args, flagVars, ends, Stored, Owned, Running, Sound
  <2>5. Refused'
    BY <1>1 DEF Start, Refuse, args, Refused, WellFormed
  <2>6. Held'
    <3>1. Filled = {} /\ Filled' = Filled
      BY <1>1, FewFilled, ArgsKept DEF Start, WellFormed
    <3> QED
      BY <3>1 DEF Held
  <2> QED
    BY <2>1, <2>2, <2>3, <2>4, <2>5, <2>6
<1>2. CASE options # <<>> \/ texts # <<>>
  <2>0. /\ pc = "start" /\ pc' = "flags" /\ UNCHANGED <<args, flagVars, ends, usage>>
        /\ ptr' = [ptr EXCEPT !["filingIdOnly"] = Pointer("filingIdOnly", None),
                              !["extractNumber"] = Pointer("extractNumber", None)]
        /\ heap' = {"filingIdOnly", "extractNumber"}
    BY <1>2 DEF Start
  <2>1. TypeOK'
    <3>1. Pointer("filingIdOnly", None) \in Pointers /\ Pointer("extractNumber", None) \in Pointers
      BY StoredPointer DEF Blocks, Fields
    <3>2. ptr' \in [Fields -> Pointers]
      BY <2>0, <3>1 DEF TypeOK
    <3>3. heap' \subseteq Blocks
      BY <2>0 DEF Blocks, Fields
    <3> QED
      BY <2>0, <3>2, <3>3 DEF TypeOK, args, flagVars, PCs
  <2>2. FlagsRead'
    BY <2>0 DEF FlagsRead, Seen, args, flagVars, Ends, Accepted
  <2>3. Stored'
    BY <2>0 DEF Stored, args, TypeOK, Fields
  <2>4. Named' /\ Ended' /\ Died' /\ Refused'
    BY <2>0 DEF args, flagVars, ends, Named, Ended, Died, Accepted, Refused, FlagsRead, Ends
  <2>5. Owned'
    BY <2>0 DEF args, Stored, Owned, Running, Sound, TypeOK, Fields, Pointer
  <2>6. Held'
    <3>1. \A f \in {"filingIdOnly", "extractNumber"} : ptr'[f].block \in Blocks
      BY <2>0 DEF TypeOK, Fields, Pointer, Blocks
    <3>2. \A f \in Fields : "flags" \notin Before(f) => f \in {"filingIdOnly", "extractNumber"}
      BY DEF Fields, Before
    <3>3. Filled' \subseteq Fields
      BY DEF Filled
    <3> QED
      BY <2>0, <3>1, <3>2, <3>3 DEF Held, Before
  <2> QED
    BY <2>1, <2>2, <2>3, <2>4, <2>5, <2>6
<1> QED
  BY <1>1, <1>2 DEF Start

LEMMA ParseFlagInv == ASSUME Inv, ParseFlag PROVE Inv'
<1> USE DEF Inv
<1> DEFINE o == options[offset + 1]
<1>0. /\ pc = "flags" /\ offset < Len(options) /\ offset \in Nat /\ Len(options) \in Nat
      /\ offset + 1 \in 1..Len(options) /\ o.flags \subseteq Flags /\ o.known \in BOOLEAN
      /\ UNCHANGED <<args, ptr, heap, ends>> /\ ~usage
  BY Arguments DEF ParseFlag, TypeOK, FlagsRead, Ends
<1>1. CASE /\ o.known /\ o.flags # {}
           /\ flags' = flags \cup (o.flags \ {"x"}) /\ piped' = (piped /\ "x" \notin o.flags)
           /\ offset' = offset + 1
           /\ UNCHANGED <<pc, usage>>
  <2>1. TypeOK'
    BY <1>0, <1>1 DEF TypeOK, args
  <2>2. Seen(offset)' = Seen(offset) \cup o.flags
    BY <1>0, <1>1, SeenMore DEF args, Seen
  <2>3. FlagsRead'
    <3>1. flags' = Seen(offset)' \ {"x"} /\ piped' = (~tty' /\ "x" \notin Seen(offset)')
      BY <1>0, <1>1, <2>2 DEF FlagsRead, args
    <3>2. \A i \in 1..offset' : options'[i].known /\ options'[i].flags # {}
      <4>1. \A i \in 1..(offset + 1) : i \in 1..offset \/ i = offset + 1
        BY <1>0
      <4> QED
        BY <1>0, <1>1, <4>1 DEF FlagsRead, args
    <3> QED
      BY <1>0, <1>1, <3>1, <3>2 DEF FlagsRead, Accepted
  <2>4. Stored' /\ Named' /\ Ended' /\ Died' /\ Refused'
    BY <1>0, <1>1 DEF args, ends, Stored, Named, Ended, Died, Refused, Accepted
  <2>5. Owned'
    BY <1>0, <1>1 DEF args, Owned, Running, Sound
  <2>6. Held'
    BY <1>0, <1>1, ArgsKept DEF Held, Before
  <2> QED
    BY <2>1, <2>3, <2>4, <2>5, <2>6
<1>2. CASE ~(o.known /\ o.flags # {}) /\ Refuse /\ UNCHANGED flagVars
  <2>1. TypeOK'
    BY <1>0, <1>2 DEF TypeOK, args, flagVars, Refuse, PCs
  <2>2. FlagsRead'
    BY <1>0, <1>2 DEF FlagsRead, Seen, args, flagVars, Refuse, Ends, Accepted
  <2>3. Stored' /\ Named' /\ Ended' /\ Died'
    BY <1>0, <1>2 DEF args, flagVars, ends, Refuse, Stored, Named, Ended, Died, Accepted
  <2>4. Owned'
    BY <1>0, <1>2 DEF args, Refuse, Owned, Running, Sound
  <2>5. ~WellFormed'
    BY <1>0, <1>2 DEF WellFormed, args
  <2>6. Held'
    <3>1. Filled' = Filled /\ Filled \subseteq {"filingIdOnly", "extractNumber"}
      BY <1>0, <2>5, ArgsKept, FewFilled
    <3>2. \A f \in Filled : ptr[f].block \in Blocks
      BY <1>0, <3>1 DEF Held, Before
    <3> QED
      BY <1>0, <1>2, <3>1, <3>2 DEF Held, ends
  <2> QED
    BY <2>1, <2>2, <2>3, <2>4, <2>5, <2>6 DEF Refused
<1> QED
  BY <1>0, <1>1, <1>2 DEF ParseFlag


LEMMA TakeTextsInv == ASSUME Inv, TakeTexts PROVE Inv'
<1> USE DEF Inv
<1>0. /\ pc = "flags" /\ offset = Len(options) /\ ~usage
      /\ UNCHANGED <<args, flagVars, ends>>
  BY DEF TakeTexts, FlagsRead, Ends
<1>1. CASE texts = <<>> /\ Refuse /\ UNCHANGED <<ptr, heap>>
  <2>1. TypeOK'
    BY <1>0, <1>1 DEF TypeOK, args, flagVars, Refuse, PCs
  <2>2. FlagsRead'
    BY <1>0, <1>1 DEF FlagsRead, Seen, args, flagVars, Refuse, Ends, Accepted
  <2>3. Stored' /\ Named' /\ Ended' /\ Died'
    BY <1>0, <1>1 DEF args, flagVars, ends, Refuse, Stored, Named, Ended, Died, Accepted
  <2>4. Owned'
    BY <1>0, <1>1 DEF args, Refuse, Owned, Running, Sound
  <2>5. ~WellFormed'
    BY <1>0, <1>1 DEF WellFormed, args
  <2>6. Held'
    <3>1. Filled' = Filled /\ Filled \subseteq {"filingIdOnly", "extractNumber"}
      BY <1>0, <2>5, ArgsKept, FewFilled
    <3>2. \A f \in Filled : ptr[f].block \in Blocks
      BY <1>0, <3>1 DEF Held, Before
    <3> QED
      BY <1>0, <1>1, <3>1, <3>2 DEF Held, ends
  <2> QED
    BY <2>1, <2>2, <2>3, <2>4, <2>5, <2>6 DEF Refused
<1>2. CASE texts # <<>>
  <2>0. PICK d \in Directories :
          ptr' = [ptr EXCEPT !["outputDirectory"] = Pointer("outputDirectory", d),
                             !["fecId"] = IF Given = None THEN @ ELSE Pointer("givenId", Given)]
    BY <1>2 DEF TakeTexts
  <2>1. /\ heap' = heap \cup {"outputDirectory"} \cup (IF Given = None THEN {} ELSE {"givenId"})
        /\ pc' = "name" /\ usage' = usage
    BY <1>2 DEF TakeTexts
  <2>2. d \in Texts \cup {Default}
    BY <1>2, Arguments, CliAssumption DEF Directories
  <2>3. Given \in Texts \cup {None}
    BY <1>2, GivenText
  <2>4. /\ ptr \in [Fields -> Pointers] /\ {"outputDirectory", "fecId"} \subseteq Fields
        /\ Pointer("outputDirectory", d) \in Pointers /\ Pointer("givenId", Given) \in Pointers
        /\ Pointer("outputDirectory", d).block = "outputDirectory"
        /\ Pointer("outputDirectory", d).text = d
        /\ Pointer("givenId", Given).block = "givenId"
        /\ {"outputDirectory", "givenId"} \subseteq Blocks
    BY <2>2, <2>3, StoredPointer DEF TypeOK, Blocks, Fields
  <2>5. /\ ptr' \in [Fields -> Pointers]
        /\ ptr'["outputDirectory"] = Pointer("outputDirectory", d)
        /\ ptr'["fecId"] = GivenNow
        /\ \A f \in Fields \ {"outputDirectory", "fecId"} : ptr'[f] = ptr[f]
    BY <1>0, <2>0, <2>4 DEF GivenNow, Stored
  <2>6. TypeOK'
    BY <1>0, <2>1, <2>4, <2>5 DEF TypeOK, args, flagVars, PCs
  <2>7. FlagsRead'
    BY <1>0, <1>2, <2>1 DEF FlagsRead, Seen, args, flagVars, Ends, Accepted
  <2>8. Stored'
    BY <1>0, <2>1, <2>5 DEF Stored, args, Fields
  <2>9. Named' /\ Ended' /\ Died' /\ Refused'
    <3>1. Given' = Given /\ GivenNow' = GivenNow /\ Directories' = Directories
      BY <1>0 DEF args, flagVars, Given, GivenNow, Directories
    <3> QED
      BY <1>0, <2>1, <2>4, <2>5, <3>1 DEF args, ends, Named, Ended, Died, Refused
  <2>10. Owned'
    <3>1. \A f \in Fields : ptr'[f] = junk'[f] \/ ptr'[f].block \in heap'
      BY <1>0, <2>1, <2>4, <2>5 DEF args, Owned, Running, Sound, GivenNow
    <3>2. ASSUME NEW b \in heap' PROVE \E f \in Fields : ptr'[f].block = b
      <4>1. CASE b = "outputDirectory"
        BY <2>4, <2>5, <4>1
      <4>2. CASE b = "givenId" /\ Given # None
        BY <2>4, <2>5, <4>2 DEF GivenNow
      <4>3. CASE b \in heap
        <5>1. PICK f \in Fields : ptr[f].block = b
          BY <1>0, <4>3 DEF Owned, Running
        <5>2. ptr["outputDirectory"].block \notin heap /\ ptr["fecId"].block \notin heap
          BY <1>0, <2>4, Junk DEF Stored, Sound
        <5> QED
          BY <2>5, <4>3, <5>1, <5>2
      <4> QED
        BY <2>1, <4>1, <4>2, <4>3
    <3> QED
      BY <3>1, <3>2 DEF Owned, Sound
  <2>11. Held'
    <3>1. ASSUME NEW f \in Filled, "name" \notin Before(f) PROVE ptr'[f].block \in Blocks
      <4>1. CASE f = "outputDirectory"
        BY <2>4, <2>5, <4>1
      <4>2. CASE f # "outputDirectory"
        <5>1. f \in {"filingIdOnly", "extractNumber"}
          BY <3>1, <4>2 DEF Before, Filled, Fields
        <5>2. ptr'[f] = ptr[f] /\ "flags" \notin Before(f)
          BY <2>5, <5>1 DEF Before, Fields
        <5> QED
          BY <1>0, <5>2 DEF Held
      <4> QED
        BY <4>1, <4>2
    <3> QED
      BY <1>0, <2>1, <3>1, ArgsKept DEF Held
  <2> QED
    BY <2>6, <2>7, <2>8, <2>9, <2>10, <2>11
<1> QED
  BY <1>1, <1>2 DEF TakeTexts

\* What is stored for the name and for the id found in it, over what malloc left.
LEMMA MatchNameInv == ASSUME Inv, MatchName PROVE Inv'
<1> USE DEF Inv
<1>0. /\ pc = "name" /\ pc' = "url" /\ ~usage /\ ~usage'
      /\ offset = Len(options) /\ texts # <<>> /\ texts[1] \in Texts
      /\ UNCHANGED <<args, flagVars, usage, ends>>
      /\ ptr \in [Fields -> Pointers] /\ {"fecId", "fecName"} \subseteq Fields
      /\ {"fecId", "fecName"} \subseteq Blocks
      /\ NumberOf[texts[1]] \in Texts \cup {None}
  BY Arguments, CliAssumption
     DEF MatchName, FlagsRead, Ends, Accepted, TypeOK, Fields, Blocks
<1>1. /\ Given' = Given /\ GivenNow' = GivenNow /\ Directories' = Directories
      /\ IdNow' = IdNow /\ NameNow' = NameNow /\ IsNumber' = IsNumber
  BY <1>0 DEF args, flagVars, Given, GivenNow, Directories, IdNow, NameNow, IsNumber
<1>2. /\ Pointer("fecId", texts[1]) \in Pointers /\ Pointer("fecName", texts[1]) \in Pointers
      /\ Pointer("fecId", NumberOf[texts[1]]) \in Pointers
      /\ Pointer("fecId", texts[1]).block = "fecId"
      /\ Pointer("fecName", texts[1]).block = "fecName"
      /\ Pointer("fecId", NumberOf[texts[1]]).block = "fecId"
  BY <1>0, StoredPointer
<1>3. ptr["fecId"] = GivenNow /\ ptr["fecName"] = junk["fecName"]
  BY <1>0 DEF Named, Stored
<1>4. ptr["fecId"] = Null <=> Given = None /\ junk["fecId"] = Null
  <2>1. Given # None => Pointer("givenId", Given) # Null
    BY <1>0, GivenText, StoredPointer DEF Blocks
  <2> QED
    BY <1>3, <2>1 DEF GivenNow
<1>5. /\ ptr' \in [Fields -> Pointers]
      /\ ptr'["fecId"] = IdNow /\ ptr'["fecName"] = NameNow
      /\ \A f \in Fields \ {"fecId", "fecName"} : ptr'[f] = ptr[f]
  <2>1. CASE piped
    BY <1>0, <1>3, <1>4, <2>1, GivenText DEF MatchName, IdNow, NameNow, IsNumber
  <2>2. CASE ~piped /\ texts[1] \in Numeric
    BY <1>0, <1>2, <1>3, <2>2 DEF MatchName, IdNow, NameNow, IsNumber
  <2>3. CASE ~piped /\ texts[1] \notin Numeric
    BY <1>0, <1>2, <1>3, <1>4, <2>3 DEF MatchName, IdNow, NameNow, IsNumber, Found
  <2> QED
    BY <2>1, <2>2, <2>3
<1>6. heap' = heap \cup (IF ~piped /\ texts[1] \notin Numeric THEN {"fecName"} ELSE {})
                   \cup (IF IsNumber \/ (~piped /\ Found) THEN {"fecId"} ELSE {})
  BY DEF MatchName, IsNumber
<1>7. TypeOK'
  BY <1>0, <1>5, <1>6 DEF TypeOK, args, flagVars, PCs
<1>8. FlagsRead'
  BY <1>0 DEF FlagsRead, Seen, args, flagVars, Accepted
<1>9. Stored' /\ Named' /\ Ended' /\ Died' /\ Refused'
  <2>1. ptr'["outputDirectory"] = ptr["outputDirectory"]
    BY <1>5 DEF Fields
  <2>2. Stored'
    BY <1>0, <1>5 DEF Stored, args, Fields
  <2>3. Named'
    BY <1>0, <1>1, <1>5, <2>1 DEF Named, Accepted
  <2> QED
    BY <1>0, <2>2, <2>3 DEF ends, Ended, Died, Refused
<1>10. Owned'
  <2>1. \A f \in Fields : ptr'[f] = junk'[f] \/ ptr'[f].block \in heap'
    <3>1. ptr'["fecName"] = junk'["fecName"] \/ ptr'["fecName"].block \in heap'
      BY <1>0, <1>2, <1>5, <1>6 DEF args, NameNow
    <3>2. ptr'["fecId"] = junk'["fecId"] \/ ptr'["fecId"].block \in heap'
      <4>1. CASE IsNumber \/ (~piped /\ Found)
        BY <1>2, <1>4, <1>5, <1>6, <4>1 DEF IdNow, Found, IsNumber
      <4>2. CASE ~(IsNumber \/ (~piped /\ Found))
        <5>1. ptr'["fecId"] = ptr["fecId"]
          BY <1>0, <1>3, <1>4, <1>5, <4>2, GivenText DEF IdNow, Found, IsNumber
        <5> QED
          BY <1>0, <1>6, <5>1 DEF Owned, Running, Sound, args
      <4> QED
        BY <4>1, <4>2
    <3>3. \A f \in Fields \ {"fecId", "fecName"} : ptr'[f] = junk'[f] \/ ptr'[f].block \in heap'
      BY <1>0, <1>5, <1>6 DEF Owned, Running, Sound, args
    <3> QED
      BY <3>1, <3>2, <3>3
  <2>2. ASSUME NEW b \in heap', ~IsNumber PROVE \E f \in Fields : ptr'[f].block = b
    <3>1. CASE b = "fecName" /\ ~piped /\ texts[1] \notin Numeric
      BY <1>0, <1>2, <1>5, <3>1 DEF NameNow
    <3>2. CASE b = "fecId" /\ ~piped /\ Found
      BY <1>0, <1>2, <1>4, <1>5, <2>2, <3>2 DEF IdNow, Found
    <3>3. CASE b \in heap
      <4>1. PICK f \in Fields : ptr[f].block = b
        BY <1>0, <3>3 DEF Owned, Running
      <4>2. ptr["fecName"].block \notin heap
        BY <1>0, <1>3, Junk DEF Sound
      <4>3. ptr'["fecId"] = ptr["fecId"] \/ ptr["fecId"].block \notin heap
        <5>1. CASE ptr["fecId"] = Null
          BY <5>1, NullAndWild DEF TypeOK
        <5>2. CASE ptr["fecId"] # Null
          BY <1>3, <1>4, <1>5, <2>2, <5>2 DEF IdNow
        <5> QED
          BY <5>1, <5>2
      <4> QED
        BY <1>5, <3>3, <4>1, <4>2, <4>3
    <3> QED
      BY <1>6, <2>2, <3>1, <3>2, <3>3
  <2> QED
    BY <1>0, <1>1, <2>1, <2>2 DEF Owned, Sound
<1>11. Held'
  <2>1. ASSUME NEW f \in Filled, "url" \notin Before(f) PROVE ptr'[f].block \in Blocks
    <3>1. CASE f = "fecId"
      <4>1. IdIsStored
        BY <2>1, <3>1 DEF Filled
      <4>2. IsNumber \/ Given # None \/ (NumberOf[texts[1]] # None /\ junk["fecId"] = Null)
        BY <1>0, <4>1, AsAsked, GivenText DEF IdIsStored, IsNumber
      <4>3. Pointer("givenId", Given).block \in Blocks
        BY DEF Pointer, Blocks
      <4> QED
        BY <1>0, <1>2, <1>5, <3>1, <4>2, <4>3 DEF IdNow, GivenNow
    <3>2. CASE f = "fecName"
      <4>1. ~AskedPiped /\ texts[1] \notin Numeric
        BY <2>1, <3>2 DEF Filled
      <4>2. ~piped
        BY <1>0, <4>1, AsAsked
      <4> QED
        BY <1>0, <1>2, <1>5, <3>2, <4>1, <4>2 DEF NameNow
    <3>3. CASE f \notin {"fecId", "fecName"}
      <4>1. f \in Fields /\ "name" \notin Before(f)
        BY <2>1, <3>3 DEF Before, Filled, Fields
      <4>2. ptr'[f] = ptr[f]
        BY <1>5, <3>3, <4>1
      <4> QED
        BY <1>0, <4>1, <4>2 DEF Held
    <3> QED
      BY <3>1, <3>2, <3>3
  <2> QED
    BY <1>0, <2>1, ArgsKept DEF Held
<1> QED
  BY <1>7, <1>8, <1>9, <1>10, <1>11


\* After the name only the URLs are still to be stored.
LEMMA UrlIsLast ==
  ASSUME UNCHANGED args
  PROVE  /\ Filled' = Filled
         /\ \A f \in Filled : f \notin {"fecUrl", "fecBackupUrl"} => "url" \notin Before(f)
         /\ \A f \in Filled : Before(f) \subseteq {"start", "flags", "name", "url"}
BY ArgsKept DEF Filled, Fields, Before

\* The URLs, or the refusal for want of an id.
LEMMA MakeUrlInv == ASSUME Inv, MakeUrl PROVE Inv'
<1> USE DEF Inv
<1>0. /\ pc = "url" /\ ~usage /\ pc' \in {"main", "crashed"}
      /\ offset = Len(options) /\ texts # <<>> /\ texts[1] \in Texts
      /\ UNCHANGED <<args, flagVars, ends>>
      /\ ptr \in [Fields -> Pointers] /\ {"fecUrl", "fecBackupUrl"} \subseteq Fields
      /\ {"fecUrl", "fecBackupUrl"} \subseteq Blocks
      /\ ptr["fecId"] = IdNow /\ ptr["fecName"] = NameNow
  BY Arguments DEF MakeUrl, Refuse, FlagsRead, Ends, Accepted, TypeOK, Fields, Blocks, Named
<1>1. /\ Given' = Given /\ GivenNow' = GivenNow /\ Directories' = Directories
      /\ IdNow' = IdNow /\ NameNow' = NameNow /\ IsNumber' = IsNumber /\ UrlsMade' = UrlsMade
      /\ LuckyId' = LuckyId /\ WellFormed' = WellFormed /\ AskedId' = AskedId
  BY <1>0 DEF args, flagVars, Given, GivenNow, Directories, IdNow, NameNow, IsNumber,
              UrlsMade, LuckyId, IdIsGiven, AskedPiped, AskedFlags, WellFormed, AskedId
<1>2. CASE ptr["fecId"] = Null /\ Refuse /\ UNCHANGED <<ptr, heap>>
  <2>1. TypeOK'
    BY <1>0, <1>2 DEF TypeOK, args, flagVars, Refuse, PCs
  <2>2. FlagsRead'
    BY <1>0, <1>2 DEF FlagsRead, Seen, args, flagVars, Refuse, Ends, Accepted
  <2>3. Stored' /\ Named' /\ Ended' /\ Died'
    BY <1>0, <1>2 DEF args, flagVars, ends, Refuse, Stored, Named, Ended, Died, Accepted
  <2>4. ~IsNumber /\ Given = None /\ (junk["fecId"] = Null => NumberOf[texts[1]] = None)
    <3>1. \A t \in Texts : Pointer("fecId", t) # Null /\ Pointer("givenId", t) # Null
      BY StoredPointer DEF Blocks, Fields
    <3>2. NumberOf[texts[1]] \in Texts \cup {None} /\ Given \in Texts \cup {None}
      BY <1>0, CliAssumption, GivenText
    <3> QED
      BY <1>0, <1>2, <3>1, <3>2 DEF IdNow, GivenNow
  <2>5. Owned'
    BY <1>0, <1>1, <1>2, <2>4 DEF args, Refuse, Owned, Running, Sound
  <2>6. Refused'
    <3>1. texts[1] \notin Numeric
      BY <1>0, <2>4, GivenText DEF IsNumber
    <3>2. LuckyId => AskedId = None
      BY <1>0, <2>4, AsAsked DEF LuckyId
    <3> QED
      BY <1>0, <1>1, <3>1, <3>2 DEF Refused, args
  <2>7. Held'
    <3>1. "fecUrl" \notin Filled /\ "fecBackupUrl" \notin Filled
      <4>1. junk["fecId"] = Null
        BY <1>0, <1>2, <2>4 DEF IdNow, GivenNow
      <4>2. ~IdIsStored
        <5>1. IdIsStored /\ WellFormed => "fecId" \in Filled
          BY DEF Filled, Fields
        <5>2. WellFormed
          BY <1>0, AsAsked
        <5>3. "url" \notin Before("fecId")
          BY DEF Before
        <5> QED
          BY <1>0, <1>2, <5>1, <5>2, <5>3, NullAndWild DEF Held
      <4> QED
        BY <4>1, <4>2 DEF Filled
    <3> QED
      BY <1>0, <1>2, <3>1, UrlIsLast DEF Held, Refuse
  <2> QED
    BY <2>1, <2>2, <2>3, <2>5, <2>6, <2>7
<1>3. CASE /\ ptr["fecId"] # Null /\ ~UrlsMade
           /\ pc' = "main" /\ UNCHANGED <<ptr, heap, usage>>
  <2>1. TypeOK'
    BY <1>0, <1>3 DEF TypeOK, args, flagVars, PCs
  <2>2. FlagsRead'
    BY <1>0, <1>3 DEF FlagsRead, Seen, args, flagVars, Accepted
  <2>3. Stored' /\ Ended' /\ Died' /\ Refused'
    BY <1>0, <1>3 DEF args, flagVars, ends, Stored, Ended, Died, Refused
  <2>4. Named'
    BY <1>0, <1>1, <1>3 DEF Named, Accepted
  <2>5. Owned'
    BY <1>0, <1>1, <1>3 DEF args, Owned, Running, Sound
  <2>6. Held'
    <3>1. "fecUrl" \notin Filled /\ "fecBackupUrl" \notin Filled
      BY <1>0, <1>3, AsAsked DEF Filled
    <3> QED
      BY <1>0, <1>3, <3>1, UrlIsLast DEF Held
  <2> QED
    BY <2>1, <2>2, <2>3, <2>4, <2>5, <2>6
<1>4. CASE /\ ptr["fecId"] # Null /\ UrlsMade
           /\ ptr' = [ptr EXCEPT !["fecUrl"] = Pointer("fecUrl", ptr["fecId"].text),
                                 !["fecBackupUrl"] = Pointer("fecBackupUrl", ptr["fecId"].text)]
           /\ heap' = heap \cup {"fecUrl", "fecBackupUrl"}
           /\ pc' = "main" /\ UNCHANGED usage
  <2>1. ptr["fecId"].text \in Texts \cup {None, Default}
    BY <1>0 DEF Pointers, Fields
  <2>2. /\ Pointer("fecUrl", ptr["fecId"].text) \in Pointers
        /\ Pointer("fecBackupUrl", ptr["fecId"].text) \in Pointers
        /\ Pointer("fecUrl", ptr["fecId"].text).block = "fecUrl"
        /\ Pointer("fecBackupUrl", ptr["fecId"].text).block = "fecBackupUrl"
    BY <1>0, <2>1, StoredPointer
  <2>3. /\ ptr' \in [Fields -> Pointers]
        /\ ptr'["fecUrl"] = Pointer("fecUrl", ptr["fecId"].text)
        /\ ptr'["fecBackupUrl"] = Pointer("fecBackupUrl", ptr["fecId"].text)
        /\ \A f \in Fields \ {"fecUrl", "fecBackupUrl"} : ptr'[f] = ptr[f]
    BY <1>0, <1>4, <2>2
  <2>4. /\ ptr'["fecId"] = ptr["fecId"] /\ ptr'["fecName"] = ptr["fecName"]
        /\ ptr'["outputDirectory"] = ptr["outputDirectory"]
    BY <2>3 DEF Fields
  <2>5. TypeOK'
    BY <1>0, <1>4, <2>3 DEF TypeOK, args, flagVars, PCs
  <2>6. FlagsRead'
    BY <1>0, <1>4 DEF FlagsRead, Seen, args, flagVars, Accepted
  <2>7. Stored' /\ Ended' /\ Died' /\ Refused'
    BY <1>0, <1>4 DEF args, flagVars, ends, Stored, Ended, Died, Refused
  <2>8. Named'
    BY <1>0, <1>1, <1>4, <2>3, <2>4 DEF Named, Accepted
  <2>9. Owned'
    <3>1. \A f \in Fields : ptr'[f] = junk'[f] \/ ptr'[f].block \in heap'
      BY <1>0, <1>4, <2>2, <2>3 DEF args, Owned, Running, Sound
    <3>2. ASSUME NEW b \in heap', ~IsNumber PROVE \E f \in Fields : ptr'[f].block = b
      <4>1. CASE b \in {"fecUrl", "fecBackupUrl"}
        BY <1>0, <2>2, <2>3, <4>1
      <4>2. CASE b \in heap
        <5>1. PICK f \in Fields : ptr[f].block = b
          BY <1>0, <3>2, <4>2 DEF Owned, Running
        <5>2. ptr["fecUrl"].block \notin heap /\ ptr["fecBackupUrl"].block \notin heap
          BY <1>0, Junk DEF Stored, Sound
        <5> QED
          BY <2>3, <4>2, <5>1, <5>2
      <4> QED
        BY <1>4, <4>1, <4>2
    <3> QED
      BY <1>0, <1>1, <1>4, <3>1, <3>2 DEF Owned, Sound
  <2>10. Held'
    <3>1. ASSUME NEW f \in Filled PROVE ptr'[f].block \in Blocks
      <4>1. CASE f \in {"fecUrl", "fecBackupUrl"}
        BY <1>0, <2>2, <2>3, <4>1
      <4>2. CASE f \notin {"fecUrl", "fecBackupUrl"}
        <5>1. ptr'[f] = ptr[f]
          BY <2>3, <4>2 DEF Filled
        <5> QED
          BY <1>0, <4>2, <5>1, UrlIsLast DEF Held
      <4> QED
        BY <4>1, <4>2
    <3> QED
      BY <1>0, <3>1, UrlIsLast DEF Held
  <2> QED
    BY <2>5, <2>6, <2>7, <2>8, <2>9, <2>10
<1>5. CASE /\ ptr["fecId"] # Null /\ UrlsMade /\ ~Sound(ptr["fecId"])
           /\ pc' = "crashed" /\ UNCHANGED <<ptr, heap, usage>>
  <2>1. TypeOK'
    BY <1>0, <1>5 DEF TypeOK, args, flagVars, PCs
  <2>2. FlagsRead'
    BY <1>0, <1>5 DEF FlagsRead, Seen, args, flagVars, Accepted
  <2>3. Stored' /\ Ended' /\ Refused' /\ Owned'
    BY <1>0, <1>5 DEF args, flagVars, ends, Stored, Ended, Refused, Owned, Running
  <2>4. Named'
    BY <1>0, <1>1, <1>5 DEF Named, Accepted
  <2>5. CanDie
    <3>1. "fecId" \in Fields /\ pc \notin Before("fecId") /\ Running
      BY <1>0 DEF Fields, Before, Running
    <3> QED
      BY <1>5, <3>1, NotStored
  <2>6. Died' /\ Held'
    BY <1>0, <1>5, <2>5, ArgsKept DEF Died, Held
  <2> QED
    BY <2>1, <2>2, <2>3, <2>4, <2>6
<1> QED
  BY <1>2, <1>3, <1>4, <1>5 DEF MakeUrl

\* main stores nothing in the context.
LEMMA MainStep ==
  ASSUME Inv, UNCHANGED <<args, flagVars, ptr, usage>>, heap' \subseteq heap,
         pc \in {"main", "parse", "free"}, pc' \in {"parse", "free", "exit", "crashed"},
         usage => pc' # "parse"
  PROVE  /\ TypeOK' /\ FlagsRead' /\ Stored' /\ Named' /\ Refused' /\ Held'
         /\ NameNow' = NameNow /\ IsNumber' = IsNumber
<1> USE DEF Inv
<1>1. /\ Given' = Given /\ GivenNow' = GivenNow /\ Directories' = Directories
      /\ IdNow' = IdNow /\ NameNow' = NameNow /\ IsNumber' = IsNumber /\ UrlsMade' = UrlsMade
  BY DEF args, flagVars, Given, GivenNow, Directories, IdNow, NameNow, IsNumber, UrlsMade
<1>2. TypeOK'
  BY DEF TypeOK, args, flagVars, PCs
<1>3. FlagsRead'
  BY DEF FlagsRead, Seen, args, flagVars, Ends, Accepted
<1>4. Stored'
  BY DEF Stored
<1>5. Named'
  BY <1>1 DEF Named, Accepted
<1>6. Refused'
  BY DEF Refused, LuckyId, IdIsGiven, AskedPiped, AskedFlags, WellFormed, AskedId, args
<1>7. Held'
  <2>1. \A f \in Filled : pc \notin Before(f)
    BY UrlIsLast
  <2> QED
    BY <2>1, ArgsKept DEF Held
<1> QED
  BY <1>1, <1>2, <1>3, <1>4, <1>5, <1>6, <1>7

LEMMA PrintUsageInv == ASSUME Inv, PrintUsage PROVE Inv'
<1> USE DEF Inv
<1>0. /\ pc = "main" /\ usage /\ status' = 1 /\ pc' = "free"
      /\ UNCHANGED <<args, flagVars, ptr, heap, usage, input>>
  BY DEF PrintUsage
<1>1. TypeOK' /\ FlagsRead' /\ Stored' /\ Named' /\ Refused' /\ Held'
  BY <1>0, MainStep
<1>2. Owned'
  BY <1>0 DEF args, Owned, Running, Sound
<1>3. Ended' /\ Died'
  BY <1>0 DEF Ended, Died
<1> QED
  BY <1>1, <1>2, <1>3

LEMMA PrintUrlInv == ASSUME Inv, PrintUrl PROVE Inv'
<1> USE DEF Inv
<1>0. /\ pc = "main" /\ ~usage /\ "p" \in flags /\ pc' \in {"exit", "crashed"}
      /\ status' \in {0, status}
      /\ pc' = "crashed" =>
           ~(Sound(ptr["fecUrl"]) /\ Sound(ptr["fecBackupUrl"]) /\ Sound(ptr["fecId"]))
      /\ UNCHANGED <<args, flagVars, ptr, heap, usage, input>>
  BY DEF PrintUrl
<1>1. TypeOK' /\ FlagsRead' /\ Stored' /\ Named' /\ Refused' /\ Held'
  BY <1>0, MainStep
<1>2. Owned' /\ Ended'
  BY <1>0 DEF Owned, Running, Ended, flagVars
<1>3. ASSUME pc' = "crashed" PROVE CanDie
  <2>1. offset = Len(options) /\ texts # <<>> /\ ptr["fecId"] # Null /\ ptr["fecId"] = IdNow
    BY <1>0 DEF FlagsRead, Accepted, Named
  <2>2. /\ {"fecUrl", "fecBackupUrl", "fecId"} \subseteq Fields /\ Running
        /\ \A f \in {"fecUrl", "fecBackupUrl", "fecId"} : pc \notin Before(f)
    BY <1>0 DEF Fields, Before, Running
  <2>3. CASE ~Sound(ptr["fecId"])
    BY <2>1, <2>2, <2>3, NotStored
  <2>4. CASE ~(Sound(ptr["fecUrl"]) /\ Sound(ptr["fecBackupUrl"]))
    <3>1. PICK f \in {"fecUrl", "fecBackupUrl"} : f \notin Filled
      BY <2>2, <2>4, NotStored
    <3>2. IdIsStored \/ junk["fecId"] # Null
      <4>1. ~IdIsStored => ~IsNumber /\ Given = None
        BY <2>1, AsAsked DEF IdIsStored, IsNumber
      <4> QED
        BY <2>1, <4>1 DEF IdNow, GivenNow, IdIsStored
    <3>3. ~JustUrls /\ "p" \in AskedFlags
      BY <1>0, <2>1, <2>2, <3>1, <3>2, AsAsked DEF Filled
    <3>4. "fecUrl" \notin Filled /\ "fecUrl" \in UsedUnset
      BY <3>3 DEF Filled, UsedUnset, UrlsMisasked
    <3> QED
      BY <2>1, <2>2, <3>4 DEF CanDie
  <2> QED
    BY <1>0, <1>3, <2>3, <2>4
<1>4. Died'
  BY <1>0, <1>3, ArgsKept DEF Died
<1> QED
  BY <1>1, <1>2, <1>4

LEMMA OpenInv == ASSUME Inv, Open PROVE Inv'
<1> USE DEF Inv
<1>0. /\ pc = "main" /\ ~usage /\ "p" \notin flags /\ status = -1
      /\ UNCHANGED <<args, flagVars, ptr, heap, usage>>
      /\ ptr["fecName"] = NameNow /\ ptr["fecId"] # Null
      /\ offset = Len(options) /\ texts # <<>>
  BY DEF Open, Named, Accepted, FlagsRead, Ended
<1>1. CASE /\ piped \/ Sound(ptr["fecName"])
           /\ input' = (IF piped THEN Null ELSE ptr["fecName"])
           /\ pc' = "parse" /\ UNCHANGED status
  <2>1. ~IsNumber
    <3>1. ~Sound(junk["fecName"])
      BY Junk DEF Fields
    <3> QED
      BY <1>0, <1>1, <3>1 DEF IsNumber, NameNow
  <2>2. /\ TypeOK' /\ FlagsRead' /\ Stored' /\ Named' /\ Refused' /\ Held'
        /\ NameNow' = NameNow /\ IsNumber' = IsNumber
    BY <1>0, <1>1, MainStep
  <2>3. Owned'
    BY <1>0, <1>1, <2>1 DEF args, Owned, Running, Sound
  <2>4. Ended'
    BY <1>0, <1>1, <2>1, <2>2 DEF Ended, flagVars
  <2>5. Died'
    BY <1>1 DEF Died
  <2> QED
    BY <2>2, <2>3, <2>4, <2>5
<1>2. CASE ~piped /\ status' = 2 /\ pc' = "exit" /\ UNCHANGED input
  <2>1. TypeOK' /\ FlagsRead' /\ Stored' /\ Named' /\ Refused' /\ Held'
    BY <1>0, <1>2, MainStep
  <2>2. Owned' /\ Ended' /\ Died'
    BY <1>0, <1>2 DEF Owned, Running, Ended, Died
  <2> QED
    BY <2>1, <2>2
<1>3. CASE /\ \/ ~Sound(ptr["fecId"])
              \/ ~Sound(ptr["fecName"]) /\ ~piped
           /\ pc' = "crashed" /\ UNCHANGED ends
  <2>1. TypeOK' /\ FlagsRead' /\ Stored' /\ Named' /\ Refused' /\ Held'
    BY <1>0, <1>3, MainStep
  <2>2. Owned' /\ Ended'
    BY <1>0, <1>3 DEF Owned, Running, Ended, ends
  <2>3. CanDie
    <3>1. {"fecName", "fecId"} \subseteq Fields /\ Running
          /\ \A f \in {"fecName", "fecId"} : pc \notin Before(f)
      BY <1>0 DEF Fields, Before, Running
    <3>2. CASE ~Sound(ptr["fecId"])
      BY <1>0, <3>1, <3>2, NotStored
    <3>3. CASE ~Sound(ptr["fecName"]) /\ ~piped
      <4>1. "fecName" \notin Filled
        BY <3>1, <3>3, NotStored
      <4>2. WellFormed /\ ~AskedPiped /\ "p" \notin AskedFlags
        BY <1>0, <3>3, AsAsked
      <4>3. texts[1] \in Numeric
        BY <3>1, <4>1, <4>2 DEF Filled
      <4> QED
        BY <1>0, <3>1, <4>1, <4>2, <4>3 DEF CanDie, UsedUnset
    <3> QED
      BY <1>3, <3>2, <3>3
  <2>4. Died'
    BY <1>0, <2>3, ArgsKept DEF Died
  <2> QED
    BY <2>1, <2>2, <2>4
<1> QED
  BY <1>1, <1>2, <1>3 DEF Open

LEMMA ParseFecInv == ASSUME Inv, ParseFec PROVE Inv'
<1> USE DEF Inv
<1>0. /\ pc = "parse" /\ ~usage /\ status = -1 /\ ~IsNumber /\ ptr["fecId"] # Null
      /\ "p" \notin flags
      /\ UNCHANGED <<args, flagVars, ptr, heap, usage, input>>
  BY DEF ParseFec, FlagsRead, Ends, Ended, Named, Accepted
<1>1. /\ \/ status' \in {0, 3} /\ pc' = "free"
         \/ ~Sound(ptr["fecId"]) /\ pc' = "crashed" /\ UNCHANGED status
  BY DEF ParseFec
<1>2. /\ TypeOK' /\ FlagsRead' /\ Stored' /\ Named' /\ Refused' /\ Held'
      /\ IsNumber' = IsNumber
  BY <1>0, <1>1, MainStep
<1>3. Owned'
  BY <1>0, <1>1 DEF args, Owned, Running, Sound
<1>4. Ended'
  BY <1>0, <1>1, <1>2 DEF Ended, flagVars
<1>5. pc' = "crashed" => CanDie
  <2>1. "fecId" \in Fields /\ pc \notin Before("fecId") /\ Running
    BY <1>0 DEF Fields, Before, Running
  <2> QED
    BY <1>0, <1>1, <2>1, NotStored
<1>6. Died'
  BY <1>0, <1>5, ArgsKept DEF Died
<1> QED
  BY <1>2, <1>3, <1>4, <1>6

LEMMA FreeInv == ASSUME Inv, FreeCliContext PROVE Inv'
<1> USE DEF Inv
<1>0. /\ pc = "free" /\ pc' \in {"exit", "crashed"}
      /\ UNCHANGED <<args, flagVars, ptr, usage, ends>>
  BY DEF FreeCliContext
<1>1. /\ \/ heap' = heap \ {ptr[f].block : f \in Fields} /\ pc' = "exit"
         \/ /\ \E f \in Fields : ptr[f] # Null /\ ~Sound(ptr[f])
            /\ pc' = "crashed" /\ UNCHANGED heap
  BY DEF FreeCliContext, Freed
<1>2. TypeOK' /\ FlagsRead' /\ Stored' /\ Named' /\ Refused' /\ Held'
  BY <1>0, <1>1, MainStep
<1>3. Owned'
  BY <1>0 DEF Owned, Running
<1>4. pc' = "exit" => heap' = {}
  BY <1>0, <1>1 DEF Owned, Running
<1>5. Ended'
  BY <1>0, <1>4 DEF Ended, ends, flagVars
<1>6. pc' = "crashed" => CanDie
  <2> SUFFICES ASSUME pc' = "crashed" PROVE CanDie
    OBVIOUS
  <2>1. PICK f \in Fields : ptr[f] # Null /\ ~Sound(ptr[f])
    BY <1>1
  <2>2. pc \notin Before(f) /\ Running
    BY <1>0 DEF Fields, Before, Running
  <2> QED
    BY <2>1, <2>2, NotStored
<1>7. Died'
  BY <1>0, <1>6, ArgsKept DEF Died
<1> QED
  BY <1>2, <1>3, <1>5, <1>7

LEMMA NextInv == ASSUME Inv, [Next]_vars PROVE Inv'
<1>1. CASE UNCHANGED vars
  <2>1. UNCHANGED <<args, flagVars, ends, ptr, heap, usage, pc>>
    BY <1>1 DEF vars, args, flagVars, ends
  <2>2. TypeOK' /\ FlagsRead' /\ Stored' /\ Ended'
    BY <1>1 DEF vars, Inv, TypeOK, FlagsRead, Seen, Accepted, Stored, Ended, IsNumber, NameNow
  <2>3. Named' /\ Owned' /\ Refused'
    BY <1>1 DEF vars, Inv, Named, Accepted, GivenNow, Given, IdNow, NameNow, Directories,
                IsNumber, UrlsMade, Owned, Running, Sound, Refused, LuckyId, IdIsGiven,
                AskedPiped, AskedFlags, WellFormed, AskedId
  <2>4. Held' /\ Died'
    BY <2>1, ArgsKept DEF Inv, Held, Died
  <2> QED
    BY <2>2, <2>3, <2>4 DEF Inv
<1> QED
  BY <1>1, StartInv, ParseFlagInv, TakeTextsInv, MatchNameInv, MakeUrlInv, PrintUsageInv,
     PrintUrlInv, OpenInv, ParseFecInv, FreeInv DEF Next

LEMMA InvAlways == Spec => []Inv
BY InitInv, NextInv, PTL DEF Spec

-----------------------------------------------------------------------------
(* The theorems.                                                            *)

\* What parseArgs stored is what the arguments say.
LEMMA Asked ==
  ASSUME Inv, LuckyId, Accepted, pc # "name"
  PROVE  /\ ptr["fecId"].text = IF IsNumber THEN texts[1] ELSE AskedId
         /\ ptr["fecId"] # Null => IsNumber \/ AskedId # None
<1> USE DEF Inv
<1>0. /\ offset = Len(options) /\ texts # <<>> /\ texts[1] \in Texts
      /\ ptr["fecId"] = IdNow
      /\ Given \in Texts \cup {None} /\ NumberOf[texts[1]] \in Texts \cup {None}
  BY Arguments, GivenText, CliAssumption DEF FlagsRead, Named
<1>1. AskedId = (IF Given # None THEN Given ELSE NumberOf[texts[1]])
      /\ (Given = None => junk["fecId"] = Null)
  BY <1>0, AsAsked DEF LuckyId
<1>2. \A t \in Texts : Pointer("fecId", t).text = t /\ Pointer("givenId", t).text = t
  BY StoredPointer DEF Blocks, Fields
<1>3. Null.text = None
  BY DEF Null, Pointer
<1> QED
  BY <1>0, <1>1, <1>2, <1>3 DEF IdNow, GivenNow

\* Whatever the arguments, a filing is parsed from the source, with the id and
\* into the directory they name, the URLs are those of the id, and the usage is
\* printed for ill-formed arguments, missing ids and URLs asked for with other
\* things only (cli.c:35-250, main.c:29-122), provided the id is given or malloc left
\* NULL in its place.  What README.md:28 and README.md:48 say of a number with an
\* id, and of -p with other flags, is not part of it.
THEOREM CommandsRunAsAsked == Spec => []RunsAsAsked
<1>1. Inv => RunsAsAsked
  <2> SUFFICES ASSUME Inv, LuckyId PROVE RunsAsAsked
    BY DEF RunsAsAsked, LuckyId
  <2> USE DEF Inv
  <2>1. ASSUME pc = "parse"
        PROVE  /\ WellFormed /\ "p" \notin AskedFlags
               /\ IF AskedPiped THEN input = Null ELSE input.text = texts[1]
               /\ ptr["fecId"].text = AskedId
               /\ ptr["outputDirectory"].text \in Directories
    <3>1. Accepted /\ ~IsNumber /\ "p" \notin flags
      BY <2>1 DEF Accepted, FlagsRead, Ends, Ended
    <3>2. offset = Len(options) /\ texts # <<>> /\ texts[1] \in Texts
      BY <3>1, Arguments DEF FlagsRead
    <3>3. WellFormed /\ AskedPiped = piped /\ "p" \notin AskedFlags
      BY <3>1, <3>2, AsAsked
    <3>4. IF AskedPiped THEN input = Null ELSE input.text = texts[1]
      <4>1. Pointer("fecName", texts[1]).text = texts[1]
        BY <3>2, StoredPointer DEF Blocks, Fields
      <4> QED
        BY <2>1, <3>1, <3>3, <4>1 DEF Ended, NameNow, IsNumber
    <3>5. ptr["fecId"].text = AskedId
      BY <2>1, <3>1, Asked
    <3>6. ptr["outputDirectory"].text \in Directories
      BY <3>1 DEF Named
    <3> QED
      BY <3>3, <3>4, <3>5, <3>6
  <2>2. ASSUME pc = "exit", status = 0, JustUrls, ~NumberAndId
        PROVE  /\ ptr["fecUrl"].text = IF texts[1] \in Numeric THEN texts[1] ELSE AskedId
               /\ ptr["fecBackupUrl"].text = ptr["fecUrl"].text
    <3>1. Accepted
      BY <2>2 DEF Accepted, Ended
    <3>2. offset = Len(options) /\ texts # <<>>
      BY <3>1 DEF FlagsRead
    <3>3. UrlsMade
      BY <2>2, <3>2, AsAsked
    <3>4. /\ ptr["fecUrl"] = Pointer("fecUrl", ptr["fecId"].text)
          /\ ptr["fecBackupUrl"] = Pointer("fecBackupUrl", ptr["fecId"].text)
      BY <2>2, <3>1, <3>3 DEF Named
    <3>5. ptr["fecId"].text = IF texts[1] \in Numeric THEN texts[1] ELSE AskedId
      BY <2>2, <3>1, <3>3, Asked DEF IsNumber, UrlsMade
    <3> QED
      BY <3>4, <3>5 DEF Pointer
  <2>3. ASSUME pc = "exit", status = 1
        PROVE  \/ ~WellFormed \/ UrlsMisasked
               \/ texts[1] \notin Numeric /\ AskedId = None
    BY <2>3 DEF Ended, Refused
  <2> QED
    BY <2>1, <2>2, <2>3 DEF RunsAsAsked
<1> QED
  BY <1>1, InvAlways, PTL

\* Whatever the arguments, and whatever malloc has left in the context (cli.c:15-27),
\* a pointer that is printed, opened or freed was stored before, or is one that
\* parseArgs stores nothing in for these arguments; the program dies only of such a
\* one, when it holds garbage or in the two cases main.c overlooks (-p with another
\* flag or piped input, and a name that is a number).  And all that was allocated is
\* freed, unless the program ends to print URLs or without its file (cli.c:253-291,
\* main.c:19-122).
THEOREM CommandsStoreBeforeUse == Spec => []StoredBeforeUse
<1>1. Inv => StoredBeforeUse
  BY DEF Inv, Died, CanDie, Ended, StoredBeforeUse
<1> QED
  BY <1>1, InvAlways, PTL
=============================================================================
