------------------------------- MODULE MCJobs -------------------------------
(* An instance of Jobs for TLC.                                            *)
EXTENDS Jobs

Number(n) == Word(FALSE, "number", n, FALSE)
SignalWord(n) == Word(TRUE, "number", n, FALSE)
KillWord == Word(FALSE, "text", 1, FALSE)

\* fg and bg with no argument, with each id, with an id too many and with a
\* lone sign; kill with each signal and id; quit with and without kill.
MCLines ==
  [name : {"fg", "bg"}, args : {<<>>, <<Ampersand>>, <<Number(1), Number(2)>>} \cup {<<Number(i)>> : i \in 1 .. 3}]
    \cup [name : {"kill"}, args : {<<SignalWord(s), Number(i)>> : s \in DOMAIN Signal, i \in 1 .. 3}]
    \cup [name : {"quit"}, args : {<<>>, <<KillWord>>}]
=============================================================================
