---------------------------- MODULE ErrorLocation ---------------------------
(***************************************************************************)
(* The search for the place an ES error thrown by dukcpp is said to come   *)
(* from (throwESError of include/duk/detail/function_wrapper.h): one frame *)
(* of the call stack after the other, until one has a file name.  Frames   *)
(* of C functions have a line too, but no file.                            *)
(***************************************************************************)
EXTENDS Naturals, Sequences

CONSTANTS Files, Lines, MaxDepth, NoFile

ASSUME LocationAssumption == MaxDepth \in Nat /\ NoFile \notin Files

\* The call stack, the running function first: level -1 of Duktape is index 1.
Frames == [file : Files \cup {NoFile}, line : Lines]
CallStacks == UNION {[1 .. n -> Frames] : n \in 0 .. MaxDepth}

VARIABLES
  calls,       \* the call stack
  level,       \* the frame to be inspected
  fileName,    \* what has been read so far
  lineNumber,
  lpc          \* idle, search, thrown

lvars == <<calls, level, fileName, lineNumber, lpc>>

LInit == calls = <<>> /\ level = 1 /\ fileName = NoFile /\ lineNumber = 0 /\ lpc = "idle"

StartSearch ==
  /\ lpc = "idle"
  /\ calls' \in CallStacks
  /\ lpc' = "search"
  /\ UNCHANGED <<level, fileName, lineNumber>>

\* Every level overwrites the line that the level before has read.
LineOfThrower == calls[1].line
LineRead == calls[level].line

\* duk_inspect_callstack_entry of one level.
InspectFrame ==
  /\ lpc = "search"
  /\ fileName = NoFile /\ level <= Len(calls)
  /\ lineNumber' = LineRead
  /\ fileName' = calls[level].file
  /\ level' = level + 1
  /\ UNCHANGED <<calls, lpc>>

\* A file name was found, or there are no more frames.
ThrowError ==
  /\ lpc = "search"
  /\ fileName # NoFile \/ level > Len(calls)
  /\ lpc' = "thrown"
  /\ UNCHANGED <<calls, level, fileName, lineNumber>>

LNext == StartSearch \/ InspectFrame \/ ThrowError

-----------------------------------------------------------------------------
\* The error has the file and the line, or neither.
ErrorPlace ==
  IF fileName = NoFile THEN [file |-> NoFile, line |-> 0]
  ELSE [file |-> fileName, line |-> lineNumber]

\* The frame of the ES function which every frame above it was called from.
Innermost ==
  LET ES == {l \in 1 .. Len(calls) : calls[l].file # NoFile}
  IN  IF ES = {} THEN [file |-> NoFile, line |-> 0]
      ELSE calls[CHOOSE l \in ES : \A m \in ES : l <= m]
=============================================================================
