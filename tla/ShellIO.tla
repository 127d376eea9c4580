------------------------------- MODULE ShellIO -------------------------------
(***************************************************************************)
(* What the commands of the shell ("Linux Shell") do to descriptors,       *)
(* files, pipes and directories: RedirectionCommand, PipeCommand, the      *)
(* fork and wait of ExternalCommand, cat, cd and the commands that print.  *)
(* The stages that CommandLine makes of a line are executed by the shell   *)
(* itself and by the processes it starts:                                  *)
(*   "smash"  the shell            "X"   its external command              *)
(*   "P"      the process of a pipe, which executes the right command      *)
(*   "L"      its child, which executes the left one                       *)
(*   "XP", "XL"  the external commands of P and L                          *)
(* A process is what it still has to do, a sequence of instructions in the *)
(* order of the code, and its descriptors.  Each instruction is one system *)
(* call, or one use of stdout's buffer.                                    *)
(*                                                                         *)
(* Paths recorded in took, on which a command does not do what it says:    *)
(*   "buffered"  a built-in command prints under a redirection, and stdout *)
(*               is no terminal                                            *)
(*   "table"     no descriptor is free                                     *)
(*   "second"    fork() fails in P, and P goes on as a shell               *)
(*   "unread"    the right command of a pipe cannot be started             *)
(*   "gone"      a directory that cd needs was removed                     *)
(*   "many"      cd has too many arguments                                 *)
(*   "amp"       cd has an "&" at the end of its argument                  *)
(***************************************************************************)
EXTENDS CommandLine

CONSTANTS
  Lines,      \* the lines the user types: [stages, link]
  MaxLines,   \* bound: how many lines
  Files,      \* files that can be opened
  Dirs,       \* directories; "home" is one, and stays
  MaxFd,      \* bound: descriptors of a process
  Capacity,   \* what a pipe holds
  MaxFail,    \* bound: how many times fork() fails
  Avoid       \* paths that are not taken

ASSUME ShellAssumption ==
  MaxLines \in Nat /\ MaxFd \in Nat /\ Capacity \in Nat \ {0} /\ MaxFail \in Nat /\ "home" \in Dirs

VARIABLES
  proc,     \* the processes
  pipe,     \* what is in the pipe
  disk,     \* the files: sequences of units
  dirs,     \* the directories that exist
  screen,   \* history: what the line has put on the shell's own stdout and stderr
  line,     \* history: the line in progress, or the last one, and the disk before it
  prev,     \* history: the directory the shell was in before the last change
  tty,      \* stdout is a terminal
  count,    \* how many lines were typed, and how many calls of fork() failed
  took      \* history: paths taken

vars == <<proc, pipe, disk, dirs, screen, line, prev, tty, count, took>>

Procs == {"smash", "X", "P", "L", "XP", "XL"}
Child == [p \in {"smash", "P", "L"} |-> CASE p = "smash" -> "X" [] p = "P" -> "XP" [] p = "L" -> "XL"]
None == <<>>

I(op, what) == [op |-> op, what |-> what]

\* The n-th unit that a stage, "first" or "second", puts out, or that a file had
\* from the start.
Unit(from, n) == <<from, n>>

-----------------------------------------------------------------------------
(* Descriptors: from one table to the next, as POSIX has it.               *)

Fds == 0 .. MaxFd - 1
Shut == [k |-> "shut", f |-> ""]
Terminal == [k |-> "tty", f |-> ""]
ReadEnd == [k |-> "r", f |-> ""]
WriteEnd == [k |-> "w", f |-> ""]

\* The lowest free descriptor, or -1.
Free(t) == LET free == {d \in Fds : t[d] = Shut} IN IF free = {} THEN -1 ELSE Min(free)

\* The table with x at descriptor d; d = -1 is an error and changes nothing.
At(t, d, x) == IF d = -1 THEN t ELSE [t EXCEPT ![d] = x]

\* The table with x at the lowest free descriptor.
Opened(t, x) == At(t, Free(t), x)

Get(t, d) == IF d = -1 THEN Shut ELSE t[d]

\* Some process has x open.
Held(x) == \E p \in Procs : proc[p].st = "run" /\ \E d \in Fds : proc[p].fds[d] = x

-----------------------------------------------------------------------------
(* The instructions of a command.  A stage is [name, arg, mark, file].  The *)
(* argument of cat is its files, that of cd <<to, amp, many>>: a directory, *)
(* "-" or ""; "&" or ""; "many" or "".                                      *)

Dup1 == I("dup", 0)
CloseFd(d) == I("close", d)

\* Mutant: the saved descriptor is left open.
RedirectAndLeak(s, body) ==
  <<Dup1, CloseFd(1), I("open out", s)>> \o body \o <<CloseFd(1), I("dup saved", 0)>>

\* RedirectionCommand::execute().
Redirect(s, body) ==
  <<Dup1, CloseFd(1), I("open out", s)>> \o body
    \o <<CloseFd(1), I("dup saved", 0), I("close saved", 0)>>

\* What CreateCommand() makes of each first word.  pwd writes no endl.
GetCurrDirCommand(s, i) ==
  <<I("getcwd", 0), I("print", [unit |-> Unit(i, 1), redirected |-> s.mark # <<>>])>>
  \o IF tty THEN <<I("flush", 0)>> ELSE <<>>

ShowPidCommand(i) == <<I("print", [unit |-> Unit(i, 1), redirected |-> FALSE]), I("flush", 0)>>

CatCommand(s) ==
  FlattenSeq([n \in DOMAIN s.arg |->
    <<I("open in", [file |-> s.arg[n], skip |-> 2 * (Len(s.arg) - n) + 1]), I("copy", "cat")>>])

ExternalCommand(s, i, p) ==
  <<I("fork", [to |-> Child[p], stage |-> s, i |-> i]), I("wait", Child[p])>>

\* cd has effects when it is created and when it is executed.
Body(s, i, p) ==
  CASE s.name = "pwd" -> GetCurrDirCommand(s, i)
    [] s.name = "showpid" -> ShowPidCommand(i)
    [] s.name = "cat" -> CatCommand(s)
    [] s.name = "cd" -> <<I("create cd", s.arg), I("cd", s.arg)>>
    [] OTHER -> ExternalCommand(s, i, p)

Code(s, i, p) == IF s.mark = <<>> THEN Body(s, i, p) ELSE Redirect(s, Body(s, i, p))

\* What external programs do: write three units; write to stderr and to stdout;
\* copy stdin to its end; read one unit.
Program(name, i) ==
  CASE name = "writer" -> [n \in 1 .. 3 |-> I("write", [fd |-> 1, unit |-> Unit(i, n)])]
    [] name = "warner" -> <<I("write", [fd |-> 2, unit |-> Unit(i, 0)]), I("write", [fd |-> 1, unit |-> Unit(i, 1)])>>
    [] name = "filter" -> <<I("copy", "stdin")>>
    [] name = "head" -> <<I("read", 0)>>

\* PipeCommand::execute(): the shell, P, and L.
PipeShell(l) == <<I("fork", [to |-> "P", stage |-> l.stages[2], i |-> "second"]), I("wait", "P")>>

\* Mutant: P keeps the end of the pipe that it does not use.
PipeRightKeepsEnd(l) ==
  <<I("pipe", 0), I("fork", [to |-> "L", stage |-> l.stages[1], i |-> "first"]),
    I("dup2", [end |-> "r", to |-> 0]), I("close end", "r")>>
  \o Code(l.stages[2], "second", "P") \o <<I("wait", "L"), I("exit", 0)>>

PipeRight(l) ==
  <<I("pipe", 0), I("fork", [to |-> "L", stage |-> l.stages[1], i |-> "first"]),
    I("dup2", [end |-> "r", to |-> 0]), I("close end", "r"), I("close end", "w")>>
  \o Code(l.stages[2], "second", "P") \o <<I("wait", "L"), I("exit", 0)>>

\* (The code creates the left command before dup2(), which cd does not notice.)
PipeLeft(l) ==
  <<I("dup2", [end |-> "w", to |-> IF l.link = Pipe THEN 1 ELSE 2]),
    I("close end", "w"), I("close end", "r")>>
  \o Code(l.stages[1], "first", "L") \o <<I("exit", 0)>>

\* executeCommand(); the getline() that follows it flushes stdout.
LineCode(l) ==
  (IF Len(l.stages) = 1 THEN Code(l.stages[1], "first", "smash") ELSE PipeShell(l)) \o <<I("flush", 0)>>

\* The instructions of a new process.
ChildCode(a) ==
  CASE a.to = "P" -> PipeRight(line.line)
    [] a.to = "L" -> PipeLeft(line.line)
    [] OTHER -> Program(a.stage.name, a.i) \o <<I("exit", 0)>>

-----------------------------------------------------------------------------
Idle == [st |-> "none", code |-> <<>>, fds |-> [d \in Fds |-> Shut], buf |-> <<>>, hold |-> None,
         saved |-> -1, fd |-> -1, pos |-> 0, r |-> -1, w |-> -1, cwd |-> "home", LASTD |-> "", lastD |-> ""]
Ended == [Idle EXCEPT !.st = "zombie"]

Init ==
  /\ proc = [p \in Procs |-> IF p = "smash"
              THEN [Idle EXCEPT !.st = "run", !.fds = [d \in Fds |-> IF d < 3 THEN Terminal ELSE Shut]]
              ELSE Idle]
  /\ pipe = <<>>
  /\ disk = [f \in Files |-> <<Unit(f, 1)>>]
  /\ dirs = Dirs
  /\ screen = <<>>
  /\ line = [line |-> [stages |-> <<>>, link |-> <<>>], disk |-> disk]
  /\ prev = ""
  /\ tty \in BOOLEAN
  /\ count = [lines |-> 0, fails |-> 0]
  /\ took = {}

Here(p, op) == proc[p].st = "run" /\ proc[p].code # <<>> /\ Head(proc[p].code).op = op
Arg(p) == Head(proc[p].code).what
Rest1(p) == Tail(proc[p].code)
Path(name, cond) == IF cond THEN {name} ELSE {}
Takes(P) == P \cap Avoid = {} /\ took' = took \cup P

\* Process p becomes q, and nothing else changes.
Becomes(p, q) == proc' = [proc EXCEPT ![p] = q]
OnlyProc == UNCHANGED <<pipe, disk, dirs, screen, line, prev, tty, count>>

\* The user types a line.
Type(l) ==
  /\ proc["smash"].code = <<>>
  /\ count.lines < MaxLines
  /\ count' = [count EXCEPT !.lines = @ + 1]
  /\ Becomes("smash", [proc["smash"] EXCEPT !.code = LineCode(l)])
  /\ line' = [line |-> l, disk |-> disk]
  /\ screen' = <<>>
  /\ pipe' = <<>>
  /\ UNCHANGED <<disk, dirs, prev, tty, took>>

-----------------------------------------------------------------------------
(* System calls on descriptors.                                            *)

\* dup(1), with the result in a variable.
Dup(p) ==
  LET me == proc[p]
  IN /\ Here(p, "dup")
     /\ Takes(Path("table", Free(me.fds) = -1))
     /\ Becomes(p, [me EXCEPT !.code = Rest1(p), !.saved = Free(me.fds), !.fds = Opened(@, me.fds[1])])
     /\ OnlyProc

Close(p) ==
  /\ Here(p, "close")
  /\ Becomes(p, [proc[p] EXCEPT !.code = Rest1(p), !.fds = At(@, Arg(p), Shut)])
  /\ OnlyProc /\ UNCHANGED took

\* dup(fd) and close(fd), which undo a redirection.
DupSaved(p) ==
  LET me == proc[p]
  IN /\ Here(p, "dup saved")
     /\ Becomes(p, [me EXCEPT !.code = Rest1(p),
                      !.fds = IF me.saved = -1 THEN @ ELSE Opened(@, me.fds[me.saved])])
     /\ OnlyProc /\ UNCHANGED took

CloseSaved(p) ==
  /\ Here(p, "close saved")
  /\ Becomes(p, [proc[p] EXCEPT !.code = Rest1(p), !.fds = At(@, proc[p].saved, Shut), !.saved = -1])
  /\ OnlyProc /\ UNCHANGED took

\* Mutant: ">>" truncates the file.
OpenOutTruncates(p) ==
  LET me == proc[p]
      f == Arg(p).file
      opens == f \in Files /\ Free(me.fds) # -1
  IN /\ Here(p, "open out")
     /\ Becomes(p, [me EXCEPT !.code = Rest1(p),
                      !.fds = IF opens THEN Opened(@, [k |-> "out", f |-> f]) ELSE @])
     /\ disk' = IF opens THEN [disk EXCEPT ![f] = <<>>] ELSE disk
     /\ UNCHANGED <<pipe, dirs, screen, line, prev, tty, count, took>>

\* open() of the file of a redirection.  When it fails the command is executed
\* all the same, with descriptor 1 closed.
OpenOut(p) ==
  LET me == proc[p]
      f == Arg(p).file
      opens == f \in Files /\ Free(me.fds) # -1
  IN /\ Here(p, "open out")
     /\ Becomes(p, [me EXCEPT !.code = Rest1(p),
                      !.fds = IF opens THEN Opened(@, [k |-> "out", f |-> f]) ELSE @])
     /\ disk' = IF opens /\ Arg(p).mark = Overwrite THEN [disk EXCEPT ![f] = <<>>] ELSE disk
     /\ UNCHANGED <<pipe, dirs, screen, line, prev, tty, count, took>>

\* cat opens a file, and never closes it.  When open() fails it returns, and
\* leaves out the rest of its instructions.
OpenIn(p) ==
  LET me == proc[p]
      a == Arg(p)
      opens == a.file \in Files /\ Free(me.fds) # -1
  IN /\ Here(p, "open in")
     /\ Takes(Path("table", Free(me.fds) = -1))
     /\ Becomes(p, IF opens
          THEN [me EXCEPT !.code = Rest1(p), !.fd = Free(me.fds), !.pos = 0,
                          !.fds = Opened(@, [k |-> "in", f |-> a.file])]
          ELSE [me EXCEPT !.code = SubSeq(@, a.skip + 2, Len(@))])
     /\ OnlyProc

\* pipe(); when it fails the code goes on with what is in pipefd.
MakePipe(p) ==
  LET me == proc[p]
      first == Opened(me.fds, ReadEnd)
  IN /\ Here(p, "pipe")
     /\ Takes(Path("table", Free(me.fds) = -1 \/ Free(first) = -1))
     /\ Becomes(p, [me EXCEPT !.code = Rest1(p), !.r = Free(me.fds), !.w = Free(first),
                              !.fds = Opened(first, WriteEnd)])
     /\ OnlyProc

End(p, e) == IF e = "r" THEN proc[p].r ELSE proc[p].w

Dup2(p) ==
  /\ Here(p, "dup2")
  /\ Becomes(p, [proc[p] EXCEPT !.code = Rest1(p),
                   !.fds = At(@, Arg(p).to, Get(@, End(p, Arg(p).end)))])
  /\ OnlyProc /\ UNCHANGED took

CloseEnd(p) ==
  /\ Here(p, "close end")
  /\ Becomes(p, [proc[p] EXCEPT !.code = Rest1(p), !.fds = At(@, End(p, Arg(p)), Shut)])
  /\ OnlyProc /\ UNCHANGED took

-----------------------------------------------------------------------------
(* Reading and writing.                                                    *)

\* Process p, which is q once it has written, writes unit u to descriptor d.  It
\* waits while the pipe is full, and is killed when nobody can read from it.
Writes(p, d, u, q) ==
  LET x == Get(proc[p].fds, d)
      broken == x = WriteEnd /\ ~Held(ReadEnd)
  IN /\ x = WriteEnd /\ ~broken => Len(pipe) < Capacity
     /\ Becomes(p, IF broken THEN Ended ELSE q)
     /\ pipe' = IF x = WriteEnd /\ ~broken THEN Append(pipe, u) ELSE pipe
     /\ disk' = IF x.k = "out" THEN [disk EXCEPT ![x.f] = Append(@, u)] ELSE disk
     /\ screen' = IF x = Terminal THEN Append(screen, u) ELSE screen
     /\ UNCHANGED <<dirs, line, prev, tty, count, took>>

Write(p) ==
  /\ Here(p, "write")
  /\ Writes(p, Arg(p).fd, Arg(p).unit, [proc[p] EXCEPT !.code = Rest1(p)])

\* cout: the unit goes to the buffer of stdout, which "flush" empties.
PutText(p) ==
  /\ Here(p, "print")
  /\ Takes(Path("buffered", ~tty /\ Arg(p).redirected))
  /\ Becomes(p, [proc[p] EXCEPT !.code = Rest1(p), !.buf = Append(@, Arg(p).unit)])
  /\ OnlyProc

\* The buffer is written at a flush, and by exit().
Flush(p) ==
  /\ Here(p, "flush") \/ Here(p, "exit")
  /\ proc[p].buf # <<>>
  /\ Writes(p, 1, Head(proc[p].buf), [proc[p] EXCEPT !.buf = Tail(@)])

Flushed(p) ==
  /\ Here(p, "flush") /\ proc[p].buf = <<>>
  /\ Becomes(p, [proc[p] EXCEPT !.code = Rest1(p)])
  /\ OnlyProc /\ UNCHANGED took

Done(p) == [proc[p] EXCEPT !.code = Rest1(p)]

\* A read of one unit from descriptor d: from a pipe when there is one in it or
\* no writer is left, from a file at once.  With copy the process holds the unit
\* to write it; at the end of the file it goes on.
Reads(p, d, copy) ==
  LET x == Get(proc[p].fds, d)
      then(u) == IF copy THEN [proc[p] EXCEPT !.hold = u, !.pos = @ + 1] ELSE Done(p)
  IN /\ \/ /\ x = ReadEnd /\ pipe # <<>>
           /\ Becomes(p, then(Head(pipe)))
           /\ pipe' = Tail(pipe)
        \/ /\ x = ReadEnd /\ pipe = <<>> /\ ~Held(WriteEnd)
           /\ Becomes(p, Done(p))
           /\ UNCHANGED pipe
        \/ /\ x.k = "in"
           /\ Becomes(p, IF proc[p].pos < Len(disk[x.f]) THEN then(disk[x.f][proc[p].pos + 1]) ELSE Done(p))
           /\ UNCHANGED pipe
     /\ UNCHANGED <<disk, dirs, screen, line, prev, tty, count, took>>

Read(p) ==
  /\ Here(p, "read")
  /\ Reads(p, 0, FALSE)

\* The loop of cat, and that of a program that copies its input: a unit is read
\* and then written.
CopyIn(p) ==
  /\ Here(p, "copy") /\ proc[p].hold = None
  /\ Reads(p, IF Arg(p) = "cat" THEN proc[p].fd ELSE 0, TRUE)

CopyOut(p) ==
  /\ Here(p, "copy") /\ proc[p].hold # None
  /\ Writes(p, 1, proc[p].hold, [proc[p] EXCEPT !.hold = None])

-----------------------------------------------------------------------------
(* Processes.                                                              *)

\* A child has the descriptors, the directories and stdout's buffer of its
\* parent; exec drops the buffer.
Fork(p) ==
  LET a == Arg(p)
  IN /\ Here(p, "fork")
     /\ proc' = [proc EXCEPT ![p].code = Rest1(p),
                             ![a.to] = [proc[p] EXCEPT !.code = ChildCode(a),
                                          !.buf = IF a.to \in {"P", "L"} THEN @ ELSE <<>>]]
     /\ OnlyProc /\ UNCHANGED took

\* fork() fails.  The shell passes over the wait (with no other child waitpid()
\* fails at once); P, which does not look at the result, goes on.
ForkFails(p) ==
  /\ Here(p, "fork")
  /\ count.fails < MaxFail
  /\ count' = [count EXCEPT !.fails = @ + 1]
  /\ Takes(Path("second", Arg(p).to = "L") \cup Path("unread", Arg(p).to = "XP"))
  /\ Becomes(p, [proc[p] EXCEPT !.code = IF Arg(p).to = "L" THEN Rest1(p) ELSE Tail(Rest1(p))])
  /\ UNCHANGED <<pipe, disk, dirs, screen, line, prev, tty>>

\* Mutant: waitpid() with WNOHANG.
WaitNoHang(p) ==
  /\ Here(p, "wait") /\ proc[Arg(p)].st # "none"
  /\ proc' = [proc EXCEPT ![p].code = Rest1(p), ![Arg(p)] = IF @.st = "zombie" THEN Idle ELSE @]
  /\ OnlyProc /\ UNCHANGED took

Wait(p) ==
  /\ Here(p, "wait") /\ proc[Arg(p)].st = "zombie"
  /\ proc' = [proc EXCEPT ![p].code = Rest1(p), ![Arg(p)] = Idle]
  /\ OnlyProc /\ UNCHANGED took

\* P has no child: waitpid() fails, and P returns to main() as a second shell,
\* which reads the end of its standard input for ever.
WaitFails(p) ==
  /\ Here(p, "wait") /\ proc[Arg(p)].st = "none"
  /\ Becomes(p, [proc[p] EXCEPT !.code = <<I("shell", 0)>>])
  /\ OnlyProc /\ UNCHANGED took

\* exit(0), with an empty buffer.
Exit(p) ==
  /\ Here(p, "exit") /\ proc[p].buf = <<>>
  /\ Becomes(p, Ended)
  /\ OnlyProc /\ UNCHANGED took

-----------------------------------------------------------------------------
(* Directories, by absolute names.                                         *)

\* get_current_dir_name() of a directory that is gone is a null pointer, of
\* which pwd and cd make a string.
Pwd(p) ==
  LET gone == proc[p].cwd \notin dirs
  IN /\ Here(p, "getcwd")
     /\ Takes(Path("gone", gone))
     /\ Becomes(p, IF gone THEN Ended ELSE Done(p))
     /\ OnlyProc

\* Mutant: LASTD is set whether or not the directory can be entered.
CreateCdUntested(p) ==
  LET me == proc[p]
      to == Arg(p)[1]
      sets == to # "" /\ (to = "-" => me.LASTD # "")
  IN /\ Here(p, "create cd")
     /\ Takes(Path("gone", me.cwd \notin dirs) \cup Path("many", sets /\ Arg(p)[3] # ""))
     /\ Becomes(p, [me EXCEPT !.code = Rest1(p), !.lastD = me.LASTD,
                              !.LASTD = IF sets THEN me.cwd ELSE @])
     /\ OnlyProc

\* CreateCommand() for cd: lastD of the command, and LASTD, which is set here and
\* not in execute().  Whether a directory can be entered is tried out, with the
\* argument as it was typed.
CreateCd(p) ==
  LET me == proc[p]
      to == Arg(p)[1]
      amp == Arg(p)[2] = "&"
      sets == \/ to = "-" /\ ~amp /\ me.LASTD # ""
              \/ to \in dirs /\ ~amp
  IN /\ Here(p, "create cd")
     /\ Takes(Path("gone", me.cwd \notin dirs) \cup Path("many", sets /\ Arg(p)[3] # "")
              \cup Path("amp", to \in dirs /\ amp))
     /\ Becomes(p, IF sets /\ me.cwd \notin dirs THEN Ended
                   ELSE [me EXCEPT !.code = Rest1(p), !.lastD = me.LASTD,
                                   !.LASTD = IF sets THEN me.cwd ELSE @])
     /\ OnlyProc

\* ChangeDirCommand::execute().
ChangeDir(p) ==
  LET me == proc[p]
      to == IF Arg(p)[1] = "-" /\ Arg(p)[2] = "" THEN me.lastD ELSE Arg(p)[1]
      goes == Arg(p)[3] = "" /\ to \in dirs
  IN /\ Here(p, "cd")
     /\ Takes(Path("gone", to \in Dirs \ dirs))
     /\ Becomes(p, [Done(p) EXCEPT !.cwd = IF goes THEN to ELSE @])
     /\ prev' = IF p = "smash" /\ goes THEN me.cwd ELSE prev
     /\ UNCHANGED <<pipe, disk, dirs, screen, line, tty, count>>

\* Somebody else removes a directory.
Rmdir(d) ==
  /\ d \in dirs \ {"home"}
  /\ dirs' = dirs \ {d}
  /\ UNCHANGED <<proc, pipe, disk, screen, line, prev, tty, count, took>>

-----------------------------------------------------------------------------

\* A step of process p.
Runs(p) ==
  \/ Dup(p) \/ Close(p) \/ DupSaved(p) \/ CloseSaved(p) \/ OpenOut(p) \/ OpenIn(p)
  \/ MakePipe(p) \/ Dup2(p) \/ CloseEnd(p)
  \/ Write(p) \/ PutText(p) \/ Flush(p) \/ Flushed(p) \/ Read(p) \/ CopyIn(p) \/ CopyOut(p)
  \/ Fork(p) \/ Wait(p) \/ WaitFails(p) \/ Exit(p)
  \/ Pwd(p) \/ CreateCd(p) \/ ChangeDir(p)

Next ==
  \/ \E l \in Lines : Type(l)
  \/ \E p \in Procs : Runs(p) \/ ForkFails(p)
  \/ \E d \in Dirs : Rmdir(d)

\* Every process that can go on does.  Nothing is assumed of the user.
Spec == Init /\ [][Next]_vars /\ \A p \in Procs : WF_vars(Runs(p))

-----------------------------------------------------------------------------
(* Properties.                                                             *)

AtPrompt == proc["smash"].st = "run" /\ proc["smash"].code = <<>>

\* Descriptor tables, the pipe and the files are of their types.
TypeOK ==
  /\ \A p \in Procs :
       /\ proc[p].st \in {"none", "run", "zombie"}
       /\ proc[p].fds \in [Fds -> [k : {"shut", "tty", "r", "w", "in", "out"}, f : Files \cup {""}]]
       /\ {proc[p].saved, proc[p].fd, proc[p].r, proc[p].w} \subseteq {-1} \cup Fds
       /\ proc[p].cwd \in Dirs /\ proc[p].LASTD \in Dirs \cup {""}
  /\ Len(pipe) <= Capacity
  /\ DOMAIN disk = Files
  /\ took \subseteq {"buffered", "table", "second", "unread", "gone", "many", "amp"}

\* What a stage puts out, given its input and the files before the line.
Output(s, i, input, before) ==
  CASE s.name \in {"pwd", "showpid", "warner"} -> <<Unit(i, 1)>>
    [] s.name = "cat" -> FlattenSeq([n \in DOMAIN s.arg |-> before[s.arg[n]]])
    [] s.name = "writer" -> [n \in 1 .. 3 |-> Unit(i, n)]
    [] s.name = "filter" -> input
    [] OTHER -> <<>>
Errors(s, i) == IF s.name = "warner" THEN <<Unit(i, 0)>> ELSE <<>>

\* The files after the line, and what it puts on the screen.
Result(l, before) ==
  LET s1 == l.stages[1]
      out1 == Output(s1, "first", <<>>, before)
      two == Len(l.stages) = 2
      s2 == l.stages[2]
      in2 == IF l.link = PipeAmper THEN Errors(s1, "first") ELSE IF s1.mark = <<>> THEN out1 ELSE <<>>
      out2 == Output(s2, "second", in2, before)
      puts(d, s, out) ==
        IF s.mark = <<>> \/ s.file \notin Files THEN d
        ELSE [d EXCEPT ![s.file] = IF s.mark = Overwrite THEN out ELSE @ \o out]
      shows(s, out) == IF s.mark = <<>> THEN ToSet(out) ELSE {}
  IN [disk |-> IF two THEN puts(puts(before, s1, out1), s2, out2) ELSE puts(before, s1, out1),
      screen |-> IF two
        THEN (IF l.link = PipeAmper THEN shows(s1, out1) ELSE ToSet(Errors(s1, "first")))
             \cup shows(s2, out2) \cup ToSet(Errors(s2, "second"))
        ELSE shows(s1, out1) \cup ToSet(Errors(s1, "first"))]

\* When the prompt comes back, what every command of the line put out is where
\* the line says, complete and in order: in the file of a redirection, in the
\* input of the next command, or on the screen.  This is about the closing of
\* pipe ends, the order of dup and close, the waits, and stdout's buffer; it is
\* not so when fork() fails, on "table", and on "buffered" (or after it: the
\* text is written where the next flush comes).
OutputInPlace ==
  AtPrompt /\ count.lines > 0 /\ count.fails = 0 /\ took \cap {"table", "buffered", "gone"} = {} =>
    /\ disk = Result(line.line, line.disk).disk
    /\ ToSet(screen) = Result(line.line, line.disk).screen

\* When the prompt comes back, descriptors 0, 1 and 2 are the shell's own, and
\* the others are files that cat opened: redirections and pipes leave nothing
\* open, whatever failed, unless the table was full.  At all times the tables
\* and what the processes remember of them are of their types.
StdRestored ==
  /\ TypeOK
  /\ AtPrompt /\ "table" \notin took =>
       \A d \in Fds : IF d < 3 THEN proc["smash"].fds[d] = Terminal
                               ELSE proc["smash"].fds[d].k \in {"shut", "in"}

\* When the prompt comes back, the line has no process left, running or not,
\* whatever call of fork() failed (but pwd may end P before its wait on "gone").
NoProcessLeft ==
  AtPrompt /\ "gone" \notin took => \A p \in Procs \ {"smash"} : proc[p].st = "none"

\* "cd -" goes back: LASTD, which is set when a command is created, is the
\* directory the shell has really been in before its last change.
LastDirRight == AtPrompt /\ took \cap {"gone", "many", "amp"} = {} => proc["smash"].LASTD = prev

\* Whatever the user types, the prompt comes back: no process waits for ever
\* for another one, or for a pipe that nobody fills or empties.
PromptReturns ==
  (count.lines > 0) ~> (AtPrompt \/ took \cap {"second", "unread", "gone", "table"} # {})
=============================================================================
