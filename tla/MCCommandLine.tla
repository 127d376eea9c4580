---------------------------- MODULE MCCommandLine ----------------------------
(***************************************************************************)
(* CommandLine and Arguments for TLC.  A line is made from what its author *)
(* means by it, a pipeline or a command about a job, and the shell reads   *)
(* it.                                                                     *)
(***************************************************************************)
EXTENDS CommandLine, Arguments

CONSTANTS
  MaxStages,   \* bound: commands of a pipeline
  MaxArgs      \* bound: arguments of a command about a job

ASSUME BoundsAssumption == MaxStages \in Nat /\ MaxArgs \in Nat

VARIABLES
  meant,   \* the pipeline, or the name and the arguments
  read     \* what the shell makes of it, or <<>>

vars == <<meant, read>>

\* The commands of a pipeline with their redirections, how they are linked,
\* whether an "&" ends the line, and whether spaces stand around the signs.
Commands(i) == [word : {<<"a", "b", "c">>[i]}, mark : {<<>>, Overwrite, AppendTo}, file : {<<"f", "g", "h">>[i]}]
Pipelines ==
  UNION {[kind : {"pipeline"}, stages : [1 .. n -> UNION {Commands(i) : i \in 1 .. n}],
          links : [1 .. n - 1 -> {Pipe, PipeAmper}], amp : BOOLEAN,
          wide : BOOLEAN, apart : BOOLEAN] : n \in 1 .. MaxStages}

Sign(mark, apart) == IF apart THEN <<" ">> \o mark \o <<" ">> ELSE mark

Written(p) ==
  LET stage(c) == <<c.word>> \o IF c.mark = <<>> THEN <<>> ELSE Sign(c.mark, p.apart) \o <<c.file>>
      n == Len(p.stages)
  IN FlattenSeq([i \in 1 .. n |->
       stage(p.stages[i]) \o IF i = n THEN <<>> ELSE Sign(p.links[i], p.wide)])
     \o IF p.amp THEN <<" ", "&">> ELSE <<>>

\* What a pipeline asks for.  Only a single command goes to the background.
Meaning(p) ==
  LET n == Len(p.stages)
      link(i) == IF i < n THEN p.links[i] ELSE <<>>
  IN [i \in 1 .. n |->
       [text |-> <<p.stages[i].word>>,
        background |-> n = 1 /\ p.stages[1].mark = <<>> /\ p.amp,
        out |-> IF p.stages[i].mark # <<>> THEN p.stages[i].mark \o <<p.stages[i].file>>
                ELSE IF link(i) = Pipe THEN Pipe ELSE <<>>,
        err |-> IF link(i) = PipeAmper THEN Pipe ELSE <<>>]]

\* Commands about jobs, and the jobs there are.
Words ==
  [dash : BOOLEAN, kind : {"number", "text"}, n : {1, 2}, amp : BOOLEAN]
    \cup ([dash : BOOLEAN, kind : {"none"}, n : {0}, amp : BOOLEAN] \ {Word(FALSE, "none", 0, FALSE)})
Requests ==
  [kind : {"request"}, name : {"kill", "fg", "bg", "quit"},
   args : UNION {[1 .. n -> Words] : n \in 0 .. MaxArgs}, ids : SUBSET {1, 2}]

Init == meant \in {p \in Pipelines : \A i \in DOMAIN p.stages : p.stages[i] \in Commands(i)} \cup Requests
        /\ read = <<>>

ReadPipeline ==
  /\ meant.kind = "pipeline" /\ read = <<>>
  /\ read' = Stages(Written(meant), <<>>, <<>>)
  /\ UNCHANGED meant

ReadRequest ==
  /\ meant.kind = "request" /\ read = <<>>
  /\ read' = <<Outcome(meant, meant.ids)>>
  /\ UNCHANGED meant

Next == ReadPipeline \/ ReadRequest

Spec == Init /\ [][Next]_vars

-----------------------------------------------------------------------------

\* CreateCommand(), PipeCommand and RedirectionCommand between them run the
\* commands of the line in its order, each with its own output and its own
\* background sign.  Two kinds of lines are left out, which they read in another way: a
\* redirection next to a pipe sign without spaces, and "|&" after another pipe.
ReadAsMeant ==
  meant.kind = "pipeline" /\ read # <<>>
  /\ (meant.wide \/ \A i \in DOMAIN meant.stages : meant.stages[i].mark = <<>>)
  /\ (\A i \in DOMAIN meant.links : i > 1 => meant.links[i] = Pipe)
  => read = Meaning(meant)

\* kill, fg and bg act on a job only if it exists and the line names it in
\* digits in the right place, and no argument but a lone sign makes stoi()
\* throw and end the shell.
ActsOnNamedJob ==
  meant.kind = "request" /\ read # <<>> =>
    LET o == read[1]
        place == IF meant.name = "kill" THEN 2 ELSE 1
    IN /\ o.do \in {"kill", "fg", "bg"} =>
            /\ o.id \in meant.ids
            /\ WithoutAmp(meant.args[place]) = Word(FALSE, "number", o.id, FALSE)
            /\ o.do = "kill" => meant.args[1] = Word(TRUE, "number", o.sig, FALSE)
       /\ o = Throws => \E i \in DOMAIN meant.args : meant.args[i].kind = "none"
=============================================================================
