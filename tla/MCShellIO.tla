------------------------------ MODULE MCShellIO ------------------------------
(* Instances of ShellIO for TLC.                                           *)
EXTENDS ShellIO

Stage(name, arg, mark, file) == [name |-> name, arg |-> arg, mark |-> mark, file |-> file]
Plain(name, arg) == Stage(name, arg, <<>>, "")

One(s) == [stages |-> <<s>>, link |-> <<>>]
Two(s, link, t) == [stages |-> <<s, t>>, link |-> link]

\* Each command with and without a redirection (to a file that opens, or not),
\* cd in its forms, and pipes of either kind whose commands are built-in or
\* external, one of them under a redirection.
Redirected ==
  {Stage("writer", <<>>, Overwrite, "f"), Stage("pwd", <<>>, AppendTo, "f"),
   Stage("cat", <<"g">>, AppendTo, "f"), Stage("cat", <<"g">>, Overwrite, "bad")}
Cds == {Plain("cd", <<"sub", "", "">>), Plain("cd", <<"-", "", "">>), Plain("cd", <<"nowhere", "", "">>),
        Plain("cd", <<"", "", "">>),
        Plain("cd", <<"sub", "&", "">>), Plain("cd", <<"sub", "", "many">>)}
Singles == {Plain("showpid", <<>>), Plain("cat", <<"g", "g">>), Plain("warner", <<>>)} \cup Redirected \cup Cds
Pipes ==
  {Two(Plain("writer", <<>>), Pipe, Plain("filter", <<>>)),
   Two(Plain("warner", <<>>), PipeAmper, Plain("filter", <<>>)),
   Two(Plain("pwd", <<>>), Pipe, Stage("filter", <<>>, AppendTo, "f")),
   Two(Plain("pwd", <<>>), Pipe, Plain("head", <<>>)),
   Two(Plain("cat", <<"g">>), Pipe, Plain("filter", <<>>)),
   Two(Plain("warner", <<>>), Pipe, Plain("showpid", <<>>)),
   Two(Stage("writer", <<>>, Overwrite, "f"), Pipe, Plain("filter", <<>>)),
   Two(Plain("cd", <<"sub", "", "">>), Pipe, Stage("pwd", <<>>, Overwrite, "f"))}

MCLines == {One(s) : s \in Singles} \cup Pipes

\* A pipe whose reader ends early.
EarlyLines == {Two(Plain("writer", <<>>), Pipe, Plain("head", <<>>))}
=============================================================================
