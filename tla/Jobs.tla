-------------------------------- MODULE Jobs --------------------------------
(***************************************************************************)
(* Job control of the shell ("Linux Shell"): the jobs list of Commands.h,  *)
(* the commands that start, stop, resume, kill and list jobs, the loop of  *)
(* executeCommand(), and the handlers of ctrl-Z and ctrl-C, which          *)
(* interrupt it between any two steps.                                     *)
(*                                                                         *)
(* Of a command only its process matters.  An entry of stoppedd is         *)
(* followed through its job id alone, and an empty one not at all: the     *)
(* code reads nothing else of them but to print it.                        *)
(*                                                                         *)
(* Paths recorded in took, on which list and processes part or the shell   *)
(* fails:                                                                  *)
(*   "late"    a job is marked stopped when its process is ending or gone  *)
(*   "early"   ctrl-Z comes when for_pid is set and for_cmd is not yet      *)
(*   "killed"  the kill command sends SIGKILL                              *)
(*   "full"    addJob() finds no empty slot                                *)
(*   "zero"    fg finds only a job of id 0, an empty slot marked stopped   *)
(*                                                                         *)
(* What the user types about jobs is read by the operators of Arguments.   *)
(* The user names jobs from 1 on.  (Job 0 is the id of every empty slot,   *)
(* and the code takes it for a job.)                                       *)
(***************************************************************************)
EXTENDS Arguments, FiniteSetsExt

CONSTANTS
  JobsMaxAmount,   \* JOBS_MAX_AMOUNT
  MaxProc,         \* bound: how many processes the shell starts
  Lines,           \* the lines about jobs that the user types: [name, args]
  Avoid            \* paths that are not taken

ASSUME JobsAssumption == JobsMaxAmount \in Nat \ {0} /\ MaxProc \in Nat

VARIABLES
  jobs,      \* [slots |-> non_built_in_cmd, stoppedd |-> the ids in stoppedd]
  for_pid,   \* the foreground process, or NoPid
  for_cmd,   \* for_cmd is not nullptr
  proc,      \* state of each child process
  pc,        \* where executeCommand() is
  local,     \* the job id and the pid that the command in progress holds
  shell,     \* state of the shell process
  took       \* history: paths taken

vars == <<jobs, for_pid, for_cmd, proc, pc, local, shell, took>>

NoPid == -1
Pids == 1..MaxProc
Slots == 1..JobsMaxAmount
Signal == [n \in {9, 15, 18, 19} |->
  CASE n = 9 -> "KILL" [] n = 15 -> "TERM" [] n = 18 -> "CONT" [] n = 19 -> "STOP"]
Status == {"finished", "stopped", "background", "empty"}

\* A word is not empty; jobs are named from 1 on, and kill is given a signal of
\* the model.
ASSUME LinesAssumption ==
  \A l \in Lines :
    /\ l.args \in Seq([dash : BOOLEAN, kind : {"number", "text", "none"}, n : Nat, amp : BOOLEAN])
    /\ \A i \in DOMAIN l.args :
         /\ l.args[i].kind = "number" => l.args[i].n > 0
         /\ l.args[i].kind = "none" => l.args[i].n = 0 /\ (l.args[i].dash \/ l.args[i].amp)
         /\ l.name = "kill" /\ l.args[i].kind = "number" /\ l.args[i].dash => l.args[i].n \in DOMAIN Signal

\* "doomed" is stopped, with a SIGTERM pending; "dying" was killed and has not
\* ended yet; "zombie" has ended and was not waited for.
ProcState == {"unborn", "running", "stopped", "doomed", "dying", "zombie", "reaped"}
Halted == {"stopped", "doomed"}
Alive == Halted \cup {"running"}

Entry(status, id, pid) == [j_status |-> status, j_id |-> id, p_id |-> pid]
Occupied(j) == {i \in Slots : j.slots[i].j_status # "empty"}

Init ==
  /\ jobs = [slots |-> [i \in Slots |-> Entry("empty", 0, 0)], stoppedd |-> {}]
  /\ for_pid = NoPid /\ for_cmd = FALSE
  /\ proc = [p \in Pids |-> "unborn"]
  /\ pc = "prompt"
  /\ local = [job_id |-> 0, pid |-> 0]
  /\ shell = "up"
  /\ took = {}

-----------------------------------------------------------------------------
(* The system calls.                                                       *)

\* The state of a process after a signal.
After(s, sig) ==
  CASE sig = "STOP" /\ s = "running" -> "stopped"
    [] sig = "CONT" /\ s = "stopped" -> "running"
    [] sig = "CONT" /\ s = "doomed" -> "dying"
    [] sig = "KILL" /\ s \in Alive -> "dying"
    [] sig = "TERM" /\ s = "running" -> "dying"
    [] sig = "TERM" /\ s = "stopped" -> "doomed"
    [] OTHER -> s

\* kill(pid, sig)
kill(pr, pid, sig) == IF pid \in Pids THEN [pr EXCEPT ![pid] = After(@, sig)] ELSE pr

\* fork() gives the next pid.  Pids are not used again.
Fresh == {p \in Pids : proc[p] = "unborn" /\ \A q \in 1 .. p - 1 : proc[q] # "unborn"}

\* waitpid(pid, WNOHANG) # 0: the process has ended, or is no child any more.
Gone(p) == p \notin Pids \/ proc[p] \in {"unborn", "zombie", "reaped"}

Reaped(pr, p) == IF p \in Pids /\ pr[p] = "zombie" THEN [pr EXCEPT ![p] = "reaped"] ELSE pr

-----------------------------------------------------------------------------
(* JobsList: operators from one list to the next.                          *)

\* The slots whose entries satisfy P.
With(j, P(_)) == {i \in Slots : P(j.slots[i])}

Named(j, id) == With(j, LAMBDA e : e.j_id = id)

\* getJobById(): the slot, or 0 for nullptr.
getJobById(j, id) == IF Named(j, id) = {} THEN 0 ELSE Min(Named(j, id))

\* Mutant: jobs that are stopped do not count.
get_max_running_id(j) ==
  Max({0} \cup {j.slots[i].j_id : i \in With(j, LAMBDA e : e.j_status = "background")})

get_max_job_id(j) == Max({0} \cup {j.slots[i].j_id : i \in Occupied(j)})

get_empty_place_in_list(j) ==
  IF Occupied(j) = Slots THEN 1 ELSE Min(Slots \ Occupied(j))

\* The last stopped job's id, or 0 for nullptr.
getLastStoppedJob(j) == Max({0} \cup j.stoppedd)

is_list_empty(j) == \A i \in Slots : j.slots[i].j_status \in {"finished", "empty"}

\* The slot keeps the p_id it had.  Its own old id counts if it was not empty.
addJob(j, isStopped) ==
  LET i == get_empty_place_in_list(j)
      id == get_max_job_id(j) + 1
      status == IF isStopped THEN "stopped" ELSE "background"
  IN [slots |-> [k \in Slots |-> IF k = i THEN Entry(status, id, j.slots[k].p_id) ELSE j.slots[k]],
      stoppedd |-> IF isStopped THEN j.stoppedd \cup {id} ELSE j.stoppedd]

set_job_pid(j, id, pid) ==
  [slots |-> [i \in Slots |-> IF i = getJobById(j, id)
                                THEN Entry(j.slots[i].j_status, j.slots[i].j_id, pid) ELSE j.slots[i]],
   stoppedd |-> j.stoppedd]

\* The slots of j, those of I with another status.
Mark(j, I, status) ==
  [i \in Slots |-> IF i \in I THEN Entry(status, j.slots[i].j_id, j.slots[i].p_id) ELSE j.slots[i]]

\* The slot keeps its p_id.
removeJobById(j, id) ==
  [slots |-> [i \in Slots |-> IF i \in Named(j, id) THEN Entry("empty", 0, j.slots[i].p_id)
                                                   ELSE j.slots[i]],
   stoppedd |-> j.stoppedd \ {id}]

\* The slots that the first loop of removeFinishedJobs() marks finished.
Ended(j) == {i \in Occupied(j) : j.slots[i].j_status # "stopped" /\ Gone(j.slots[i].p_id)}

\* The list after removeFinishedJobs(); see Reap for the processes.
removeFinishedJobs(j) ==
  LET done == Ended(j) \cup With(j, LAMBDA e : e.j_status = "finished")
      out == {j.slots[i].j_id : i \in done}
  IN [slots |-> [i \in Slots |-> IF j.slots[i].j_id \in out
                                   THEN Entry("empty", 0, j.slots[i].p_id) ELSE j.slots[i]],
      stoppedd |-> j.stoppedd \ out]

\* The processes after the waitpid() calls of removeFinishedJobs().
Waited(j) ==
  LET polled == {j.slots[i].p_id : i \in {x \in Occupied(j) : j.slots[x].j_status # "stopped"}}
  IN [p \in Pids |-> IF p \in polled /\ proc[p] = "zombie" THEN "reaped" ELSE proc[p]]

\* Mutant: SIGCONT leaves the job in stoppedd.
send_SIG_NoCont(j, id, sig) ==
  LET i == getJobById(j, id)
      to(status, stoppedd) == [slots |-> Mark(j, {i}, status), stoppedd |-> stoppedd]
  IN CASE i = 0 -> j
       [] i # 0 /\ sig = "STOP" -> to("stopped", j.stoppedd \cup {id})
       [] i # 0 /\ sig = "CONT" -> to("background", j.stoppedd)
       [] i # 0 /\ sig = "KILL" -> to("finished", j.stoppedd \ {id})
       [] OTHER -> j

\* The list after send_SIG_TO_JOB(), which then calls kill().
send_SIG_TO_JOB(j, id, sig) ==
  LET i == getJobById(j, id)
      to(status, stoppedd) == [slots |-> Mark(j, {i}, status), stoppedd |-> stoppedd]
  IN CASE i = 0 -> j
       [] i # 0 /\ sig = "STOP" -> to("stopped", j.stoppedd \cup {id})
       [] i # 0 /\ sig = "CONT" -> to("background", j.stoppedd \ {id})
       [] i # 0 /\ sig = "KILL" -> to("finished", j.stoppedd \ {id})
       [] OTHER -> j

-----------------------------------------------------------------------------
(* executeCommand().                                                       *)

\* The shell goes from p to q and takes the paths of P.
Step(p, q, P) ==
  /\ shell = "up"
  /\ pc = p
  /\ pc' = q
  /\ took' = took \cup P
  /\ P \cap Avoid = {}

Path(name, cond) == IF cond THEN {name} ELSE {}
IsFull == Occupied(jobs) = Slots
PidOf(id) == jobs.slots[getJobById(jobs, id)].p_id

\* A stop signal to process p would come too late.
Late(p) == p \in Pids /\ proc[p] \notin Alive

\* ExternalCommand, foreground: fork().
Fork ==
  /\ Step("prompt", "forked", {})
  /\ \E p \in Fresh : proc' = [proc EXCEPT ![p] = "running"] /\ local' = [local EXCEPT !.pid = p]
  /\ UNCHANGED <<jobs, for_pid, for_cmd, shell>>

\* ... in the parent, before waitpid(): two assignments that a handler may
\* come between.
SetForPid ==
  /\ Step("forked", "half", {})
  /\ for_pid' = local.pid
  /\ UNCHANGED <<jobs, for_cmd, proc, local, shell>>

SetForCmd ==
  /\ Step("half", "wait", {})
  /\ for_cmd' = TRUE
  /\ UNCHANGED <<jobs, for_pid, proc, local, shell>>

\* waitpid(pid, WUNTRACED) returns.
Wait(p, q) ==
  /\ Step(p, q, {})
  /\ ~Gone(local.pid) => proc[local.pid] \in Halted
  /\ proc' = Reaped(proc, local.pid)
  /\ UNCHANGED <<jobs, for_pid, for_cmd, local, shell>>

\* Mutant: for_pid stays set until the end of executeCommand().
ClearForegroundLater ==
  /\ Step("waited", "end", {})
  /\ UNCHANGED <<jobs, for_pid, for_cmd, proc, local, shell>>

ClearForeground ==
  /\ Step("waited", "end", {})
  /\ for_pid' = NoPid
  /\ UNCHANGED <<jobs, for_cmd, proc, local, shell>>

\* fork() fails: perror and return.  A command with invalid arguments, or one
\* that names a job that is not there, does as little.
ForkFails(p) ==
  /\ Step(p, "end", {})
  /\ UNCHANGED <<jobs, for_pid, for_cmd, proc, local, shell>>

\* A background command is put on the list before it is executed ...
AddBackground ==
  /\ Step("prompt", "added", Path("full", IsFull))
  /\ Fresh # {}
  /\ jobs' = addJob(jobs, FALSE)
  /\ UNCHANGED <<for_pid, for_cmd, proc, local, shell>>

\* Mutant: the pid goes to the first slot.
ForkBackgroundFirst ==
  /\ Step("added", "end", {})
  /\ \E p \in Fresh :
       /\ proc' = [proc EXCEPT ![p] = "running"]
       /\ jobs' = [jobs EXCEPT !.slots[1].p_id = p]
  /\ UNCHANGED <<for_pid, for_cmd, local, shell>>

\* ... and gets its pid after fork().
ForkBackground ==
  /\ Step("added", "end", {})
  /\ \E p \in Fresh :
       /\ proc' = [proc EXCEPT ![p] = "running"]
       /\ jobs' = set_job_pid(jobs, get_max_job_id(jobs), p)
  /\ UNCHANGED <<for_pid, for_cmd, local, shell>>

\* fg: the job is continued.  ForegroundSet is one step: the job is on the
\* list, and so the handlers do not use for_cmd.
Resume(id) ==
  /\ Step("prompt", "fgset", Path("zero", id = 0))
  /\ jobs' = send_SIG_TO_JOB(jobs, id, "CONT")
  /\ proc' = kill(proc, PidOf(id), "CONT")
  /\ local' = [job_id |-> id, pid |-> PidOf(id)]
  /\ UNCHANGED <<for_pid, for_cmd, shell>>

\* fg without a job id.
ForegroundLast ==
  /\ ~is_list_empty(jobs)
  /\ Resume(get_max_job_id(jobs))

ForegroundSet ==
  /\ Step("fgset", "fgwait", {})
  /\ for_pid' = local.pid
  /\ for_cmd' = TRUE
  /\ UNCHANGED <<jobs, proc, local, shell>>

\* fg, after waitpid(): the job leaves the list unless it was stopped.
ForegroundDone ==
  LET i == getJobById(jobs, local.job_id)
  IN /\ Step("fgdone", "end", {})
     /\ jobs' = IF i # 0 /\ jobs.slots[i].j_status # "stopped"
                  THEN removeJobById(jobs, local.job_id) ELSE jobs
     /\ UNCHANGED <<for_pid, for_cmd, proc, local, shell>>

\* bg without a job id: the stopped job with the largest one, which the code
\* looks up in the list without a test.
BackgroundLast ==
  LET id == getLastStoppedJob(jobs)
      i == getJobById(jobs, id)
  IN /\ id > 0
     /\ IF i = 0
          THEN /\ Step("prompt", "end", {})
               /\ shell' = "crashed"
               /\ UNCHANGED <<jobs, proc>>
          ELSE /\ Step("prompt", "end", {})
               /\ jobs' = send_SIG_TO_JOB(jobs, id, "CONT")
               /\ proc' = kill(proc, PidOf(id), "CONT")
               /\ UNCHANGED shell
     /\ UNCHANGED <<for_pid, for_cmd, local>>

\* bg with a job id.
Background(id) ==
  /\ jobs.slots[getJobById(jobs, id)].j_status # "background"
  /\ Step("prompt", "end", {})
  /\ jobs' = send_SIG_TO_JOB(jobs, id, "CONT")
  /\ proc' = kill(proc, PidOf(id), "CONT")
  /\ UNCHANGED <<for_pid, for_cmd, local, shell>>

\* kill -sig id
Kill(id, sig) ==
  /\ Step("prompt", "end", Path("killed", sig = "KILL")
                           \cup Path("late", sig = "STOP" /\ Late(PidOf(id))))
  /\ jobs' = send_SIG_TO_JOB(jobs, id, sig)
  /\ proc' = kill(proc, PidOf(id), sig)
  /\ UNCHANGED <<for_pid, for_cmd, local, shell>>

\* jobs: printJobsList() removes the finished jobs first.
JobsCommand ==
  /\ Step("prompt", "end", {})
  /\ jobs' = removeFinishedJobs(jobs)
  /\ proc' = Waited(jobs)
  /\ UNCHANGED <<for_pid, for_cmd, local, shell>>

\* Mutant: stopped jobs are passed over.
killRunningJobs ==
  LET pids == {jobs.slots[i].p_id : i \in With(jobs, LAMBDA e : e.j_status = "background")}
  IN [p \in Pids |-> IF p \in pids THEN After(proc[p], "KILL") ELSE proc[p]]

\* The processes after killAllJobs().
killAllJobs ==
  LET live == {i \in Occupied(jobs) : jobs.slots[i].j_status # "finished"}
      pids == {jobs.slots[i].p_id : i \in live}
  IN [p \in Pids |-> IF p \in pids THEN After(proc[p], "KILL") ELSE proc[p]]

\* quit, and quit kill.  The list goes with the shell.
Quit ==
  /\ Step("prompt", "prompt", {})
  /\ shell' = "quit"
  /\ UNCHANGED <<jobs, for_pid, for_cmd, proc, local>>

QuitKill ==
  /\ Step("prompt", "prompt", {})
  /\ shell' = "quit_kill"
  /\ proc' = killAllJobs
  /\ UNCHANGED <<jobs, for_pid, for_cmd, local>>

\* The end of executeCommand(), in the order of the code.
ResetCmd ==
  /\ Step("end", "end2", {})
  /\ for_cmd' = FALSE
  /\ UNCHANGED <<jobs, for_pid, proc, local, shell>>

ResetPid ==
  /\ Step("end2", "reap", {})
  /\ for_pid' = NoPid
  /\ UNCHANGED <<jobs, for_cmd, proc, local, shell>>

Reap ==
  /\ Step("reap", "prompt", {})
  /\ jobs' = removeFinishedJobs(jobs)
  /\ proc' = Waited(jobs)
  /\ local' = [job_id |-> 0, pid |-> 0]
  /\ UNCHANGED <<for_pid, for_cmd, shell>>

-----------------------------------------------------------------------------
(* The handlers: one step, between two steps of executeCommand().          *)

\* The list after ctrl-Z, when for_pid is in a slot, used or not.
MarkStopped(j, pid) ==
  LET i == Min(With(j, LAMBDA e : e.p_id = pid))
  IN [slots |-> Mark(j, {i}, "stopped"), stoppedd |-> j.stoppedd \cup {j.slots[i].j_id}]

InList(pid) == With(jobs, LAMBDA e : e.p_id = pid) # {}

\* Mutant: the job is recorded and its process runs on.
ctrlZRecordOnly ==
  LET new == addJob(jobs, TRUE)
  IN /\ for_pid # NoPid /\ (InList(for_pid) \/ for_cmd)
     /\ Step(pc, pc, Path("late", Late(for_pid)) \cup Path("full", IsFull))
     /\ for_pid' = NoPid
     /\ jobs' = IF InList(for_pid) THEN MarkStopped(jobs, for_pid)
                ELSE set_job_pid(new, get_max_job_id(new), for_pid)
     /\ UNCHANGED <<for_cmd, proc, local, shell>>

ctrlZHandler ==
  LET new == addJob(jobs, TRUE)
      listed == InList(for_pid)
  IN /\ for_pid # NoPid
     /\ Step(pc, pc, Path("late", Late(for_pid)) \cup Path("early", pc = "half")
                     \cup Path("full", ~listed /\ IsFull))
     /\ proc' = kill(proc, for_pid, "STOP")
     /\ for_pid' = NoPid
     /\ IF listed \/ for_cmd
          THEN /\ jobs' = IF listed THEN MarkStopped(jobs, for_pid)
                          ELSE set_job_pid(new, get_max_job_id(new), for_pid)
               /\ UNCHANGED shell
          ELSE shell' = "crashed" /\ UNCHANGED jobs
     /\ UNCHANGED <<for_cmd, local>>

ctrlCHandler ==
  LET marked == With(jobs, LAMBDA e : e.p_id = for_pid)
  IN /\ for_pid # NoPid
     /\ Step(pc, pc, {})
     /\ proc' = kill(proc, for_pid, "KILL")
     /\ for_pid' = NoPid
     /\ jobs' = [slots |-> Mark(jobs, marked, "finished"), stoppedd |-> jobs.stoppedd]
     /\ UNCHANGED <<for_cmd, local, shell>>

-----------------------------------------------------------------------------

\* A process ends by itself, or some time after it was killed.
Exit(p) ==
  /\ proc[p] \in {"running", "dying"}
  /\ proc' = [proc EXCEPT ![p] = "zombie"]
  /\ UNCHANGED <<jobs, for_pid, for_cmd, pc, local, shell, took>>

Dies(p) == proc[p] = "dying" /\ Exit(p)

\* stoi() found no number: the exception is not caught, and the shell ends.
Abort ==
  /\ Step("prompt", "prompt", {})
  /\ shell' = "aborted"
  /\ UNCHANGED <<jobs, for_pid, for_cmd, proc, local>>

\* A line about jobs: CreateCommand() and execute() are one step, for no handler
\* does anything before for_pid is set.
Obeys(o) ==
  \/ o.do = "nothing" /\ ForkFails("prompt")
  \/ o.do = "throw" /\ Abort
  \/ o.do = "fg" /\ Resume(o.id)
  \/ o.do = "fg_last" /\ ForegroundLast
  \/ o.do = "bg" /\ Background(o.id)
  \/ o.do = "bg_last" /\ BackgroundLast
  \/ o.do = "kill" /\ Kill(o.id, Signal[o.sig])
  \/ o.do = "quit" /\ Quit
  \/ o.do = "quit_kill" /\ QuitKill

Typed(l) == Obeys(Outcome(l, {jobs.slots[i].j_id : i \in Slots}))

\* What the user may type at the prompt.
Command ==
  \/ Fork \/ ForkFails("prompt") \/ AddBackground \/ JobsCommand
  \/ \E l \in Lines : Typed(l)

\* The rest of executeCommand().
Continue ==
  \/ SetForPid \/ SetForCmd \/ Wait("wait", "waited") \/ ClearForeground
  \/ ForkBackground \/ ForkFails("added")
  \/ ForegroundSet \/ Wait("fgwait", "fgdone") \/ ForegroundDone
  \/ ResetCmd \/ ResetPid \/ Reap

Next ==
  \/ Command \/ Continue
  \/ ctrlZHandler \/ ctrlCHandler
  \/ \E p \in Pids : Exit(p)

Spec == Init /\ [][Next]_vars

\* The shell runs, and a process that was killed ends.  Nothing is assumed of
\* the user, nor of commands that have not been killed.
FairSpec == Spec /\ WF_vars(Continue) /\ \A p \in Pids : WF_vars(Dies(p))

-----------------------------------------------------------------------------
(* Properties.                                                             *)

\* The jobs list, the processes and the control state are of their types.
TypeOK ==
  /\ jobs.slots \in [Slots -> [j_status : Status, j_id : Nat, p_id : 0..MaxProc]]
  /\ jobs.stoppedd \subseteq Nat
  /\ for_pid \in {NoPid} \cup 0..MaxProc
  /\ for_cmd \in BOOLEAN
  /\ proc \in [Pids -> ProcState]
  /\ pc \in {"prompt", "forked", "half", "wait", "waited", "added", "fgset", "fgwait", "fgdone",
             "end", "end2", "reap"}
  /\ local \in [job_id : Nat, pid : 0..MaxProc]
  /\ shell \in {"up", "crashed", "aborted", "quit", "quit_kill"}

\* At the prompt, the children that were not waited for are exactly the ones
\* in the occupied slots, each in one slot, and a job is marked stopped if and
\* only if its process is.  This relates addJob(), removeFinishedJobs(), fg,
\* bg, kill and both handlers.
JobsTrackProcesses ==
  shell = "up" /\ pc = "prompt" =>
    /\ \A p \in Pids : proc[p] \notin {"unborn", "reaped"} =>
         \E i \in Slots : {k \in Occupied(jobs) : jobs.slots[k].p_id = p} = {i}
    /\ \A i \in Occupied(jobs) :
         /\ jobs.slots[i].p_id \in Pids
         /\ proc[jobs.slots[i].p_id] \notin {"unborn", "reaped"}
         /\ jobs.slots[i].j_status = "stopped" <=> proc[jobs.slots[i].p_id] \in Halted

\* ... as long as no job was marked stopped too late or killed with SIGKILL.  On
\* every path the state of the shell keeps its type.
JobsTracked == TypeOK /\ (took = {} => JobsTrackProcesses)

\* stoppedd holds the ids of the stopped jobs and no others, between any two
\* steps: bg takes its job from stoppedd and looks it up in the other list.
StoppedAgrees ==
  shell = "up" =>
    jobs.stoppedd = {jobs.slots[i].j_id : i \in With(jobs, LAMBDA e : e.j_status = "stopped")}

\* Two jobs never have the same id, whatever was stopped, resumed or removed.
JobIdsDistinct ==
  \A i, k \in Occupied(jobs) :
    i # k /\ jobs.slots[i].j_id > 0 => jobs.slots[i].j_id # jobs.slots[k].j_id

\* No command and no handler follows a null pointer.
NoCrash == shell # "crashed"

\* "quit kill" leaves no child behind that is running or stopped.
QuitKillsAll == shell = "quit_kill" => \A p \in Pids : proc[p] \notin Alive

\* After ctrl-Z or ctrl-C was handled in the wait for a foreground process, the
\* user gets the prompt back.
InterruptReturns ==
  pc \in {"wait", "fgwait"} /\ for_pid = NoPid ~> pc = "prompt" \/ shell # "up"
=============================================================================
