----------------------------- MODULE CommandLine -----------------------------
(***************************************************************************)
(* How the shell ("Linux Shell") reads a command line: CreateCommand() of  *)
(* Commands.cpp, which tells pipes, redirections and simple commands       *)
(* apart, and the splitting that PipeCommand and RedirectionCommand do     *)
(* before they call it again for their parts.                              *)
(*                                                                         *)
(* A line is a sequence of symbols: the characters "|", "&", ">" and " "   *)
(* that the code looks for, and words without them.                        *)
(***************************************************************************)
EXTENDS Integers, Sequences, SequencesExt, FiniteSetsExt

-----------------------------------------------------------------------------
(* Strings.  Positions are from 1.                                         *)

\* Where sub begins in s.
Places(s, sub) == {i \in 1 .. Len(s) - Len(sub) + 1 : SubSeq(s, i, i + Len(sub) - 1) = sub}

Has(s, sub) == Places(s, sub) # {}

\* A word that _parseCommandLine() makes of s is exactly w.
HasWord(s, w) ==
  \E i \in Places(s, w) :
    /\ i = 1 \/ s[i - 1] = " "
    /\ i + Len(w) > Len(s) \/ s[i + Len(w)] = " "

_trim(s) ==
  LET ink == {i \in 1 .. Len(s) : s[i] # " "}
  IN IF ink = {} THEN <<>> ELSE SubSeq(s, Min(ink), Max(ink))

\* What comes before and after the first mark.
Before(s, mark) == _trim(SubSeq(s, 1, Min(Places(s, mark)) - 1))

Rest(s, mark) == _trim(SubSeq(s, Min(Places(s, mark)) + Len(mark), Len(s)))

\* The last "&" is erased with all that follows it.
Erased(s) == IF Has(s, <<"&">>) THEN _trim(SubSeq(s, 1, Max(Places(s, <<"&">>)) - 1)) ELSE s

-----------------------------------------------------------------------------
(* CreateCommand().                                                        *)

Pipe == <<"|">>
PipeAmper == <<"|", "&">>
AppendTo == <<">", ">">>
Overwrite == <<">">>

_isBackgroundComamnd(s) == Last(_trim(s)) = "&"

\* The parts of a pipe and of a redirection, as their execute() splits them.
PipeParts(s) ==
  LET barrier == IF Has(s, PipeAmper) THEN PipeAmper ELSE Pipe
  IN [k |-> "pipe", mark |-> barrier,
      left |-> Before(s, barrier), right |-> Erased(Rest(s, barrier))]

RedirectionParts(s) ==
  LET barrier == IF Has(s, AppendTo) THEN AppendTo ELSE Overwrite
  IN [k |-> "redirection", mark |-> barrier,
      left |-> Before(s, barrier), right |-> Erased(Rest(s, barrier))]

\* An external command goes to bash without its "&" signs.
Simple(s) ==
  [k |-> "simple", text |-> SelectSeq(s, LAMBDA c : c \notin {"&", " "}),
   background |-> _isBackgroundComamnd(s)]

\* Mutant: redirections are looked for first.
CreateRedirectionFirst(s) ==
  IF _trim(s) = <<>> THEN [k |-> "null"]
  ELSE IF Has(s, Overwrite) THEN RedirectionParts(s)
  ELSE IF Has(s, Pipe) THEN PipeParts(s)
  ELSE Simple(s)

\* A line without a word is a null pointer that the code makes a string of.
CreateCommand(s) ==
  IF _trim(s) = <<>> THEN [k |-> "null"]
  ELSE IF HasWord(s, Pipe) \/ HasWord(s, PipeAmper) THEN PipeParts(s)
  ELSE IF Has(s, Overwrite) THEN RedirectionParts(s)
  ELSE IF Has(s, Pipe) THEN PipeParts(s)
  ELSE Simple(s)

\* The simple commands that a line runs, in order, each with where its standard
\* output and its standard error go: <<>> where the shell's go, Pipe to the next
\* command, or a mark and the name of a file.
RECURSIVE Stages(_, _, _)
Stages(s, out, err) ==
  LET c == CreateCommand(s)
  IN CASE c.k = "null" -> <<[text |-> <<>>, background |-> FALSE, out |-> out, err |-> err]>>
       [] c.k = "simple" ->
            <<[text |-> c.text, background |-> c.background, out |-> out, err |-> err]>>
       [] c.k = "redirection" -> Stages(c.left, c.mark \o c.right, err)
       [] c.k = "pipe" /\ c.mark = Pipe -> Stages(c.left, Pipe, err) \o Stages(c.right, out, err)
       [] OTHER -> Stages(c.left, out, Pipe) \o Stages(c.right, out, err)
=============================================================================
