------------------------------ MODULE Arguments ------------------------------
(***************************************************************************)
(* The arguments of kill, fg, bg and quit in the shell ("Linux Shell"):    *)
(* what CreateCommand() of Commands.cpp finds out about them, and what     *)
(* execute() then does.                                                    *)
(*                                                                         *)
(* A word is a "-" or none, digits, other text or nothing, and an "&" or   *)
(* none.                                                                   *)
(***************************************************************************)
EXTENDS Integers, Sequences

Word(dash, kind, n, amp) == [dash |-> dash, kind |-> kind, n |-> n, amp |-> amp]
Ampersand == Word(FALSE, "none", 0, TRUE)

WithoutAmp(w) == [w EXCEPT !.amp = FALSE]
WithoutDash(w) == [w EXCEPT !.dash = FALSE]

\* Mutant: only the sign is looked at.
isUnsigned(w) == ~w.dash /\ ~w.amp

\* True of the empty string, too.
isNumber(w) == ~w.dash /\ ~w.amp /\ w.kind # "text"

\* stoi() throws when no digit comes first.
Converts(w) == w.kind = "number"

Does(what, id, sig) == [do |-> what, id |-> id, sig |-> sig]
Nothing == Does("nothing", 0, 0)
Throws == Does("throw", 0, 0)

\* What kill, fg and bg do with the arguments a, when ids are the job ids in the
\* slots of the list.
KillArgs(a, ids) ==
  LET INVALID_ARG == \/ Len(a) < 2
                     \/ ~a[1].dash
                     \/ ~isNumber(WithoutAmp(a[2])) \/ ~isNumber(WithoutDash(a[1]))
                     \/ \E i \in 3 .. Len(a) : a[i] # Ampersand
  IN IF INVALID_ARG THEN Nothing
     ELSE IF ~Converts(a[2]) THEN Throws
     ELSE IF a[2].n \notin ids THEN Nothing
     ELSE IF ~Converts(a[1]) THEN Throws
     ELSE Does("kill", a[2].n, a[1].n)

FgArgs(a, ids) ==
  LET INVALID_ARG == Len(a) > 1 \/ (Len(a) = 1 /\ ~isNumber(WithoutAmp(a[1])))
  IN IF a = <<>> THEN Does("fg_last", 0, 0)
     ELSE IF INVALID_ARG THEN Nothing
     ELSE IF ~Converts(a[1]) THEN Throws
     ELSE IF a[1].n \notin ids THEN Nothing
     ELSE Does("fg", a[1].n, 0)

\* bg takes a bare "&" for no argument.
BgArgs(a, ids) ==
  LET INVALID_ARG == Len(a) > 1 \/ (Len(a) = 1 /\ ~isNumber(WithoutAmp(a[1])))
      optional_arg == a # <<>> /\ a # <<Ampersand>>
  IN IF ~optional_arg THEN Does("bg_last", 0, 0)
     ELSE IF INVALID_ARG \/ a[1].n \notin ids THEN Nothing
     ELSE Does("bg", a[1].n, 0)

\* quit looks at its first argument only.  (Of a text, n tells "kill" as 1.)
QuitArgs(a) ==
  IF a # <<>> /\ WithoutAmp(a[1]) = Word(FALSE, "text", 1, FALSE)
    THEN Does("quit_kill", 0, 0) ELSE Does("quit", 0, 0)

\* What a line "name args" does to jobs.
Outcome(l, ids) ==
  CASE l.name = "kill" -> KillArgs(l.args, ids)
    [] l.name = "fg" -> FgArgs(l.args, ids)
    [] l.name = "bg" -> BgArgs(l.args, ids)
    [] OTHER -> QuitArgs(l.args)
=============================================================================
