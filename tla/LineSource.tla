----------------------------- MODULE LineSource -----------------------------
(***************************************************************************)
(* What readLine promises: the lines of the input, one per call, each with *)
(* its newline, the last one perhaps without; then the end of the input.   *)
(***************************************************************************)
EXTENDS Integers, Sequences

CONSTANTS Inputs, Newline

VARIABLES input,  \* the whole input
          at,     \* how many bytes of it have been returned
          line,   \* the line returned last
          ended   \* the end of the input has been reported

sourceVars == <<input, at, line, ended>>

SourceInit == /\ input \in Inputs
              /\ at = 0 /\ line = <<>> /\ ended = FALSE

ReturnLine ==
  /\ at < Len(input)
  /\ at' \in (at + 1)..Len(input)
  /\ line' = SubSeq(input, at + 1, at')
  /\ \A i \in (at + 1)..(at' - 1) : input[i] # Newline
  /\ at' = Len(input) \/ input[at'] = Newline
  /\ UNCHANGED <<input, ended>>

\* The string is reset while the next call looks for a line.
Reset == line' = <<>> /\ UNCHANGED <<input, at, ended>>

ReportEnd == /\ at = Len(input)
             /\ ended' = TRUE
             /\ UNCHANGED <<input, at, line>>

SourceNext == ReturnLine \/ Reset \/ ReportEnd

SourceSpec == SourceInit /\ [][SourceNext]_sourceVars
=============================================================================
