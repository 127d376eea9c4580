---------------------------- MODULE TrackProofs ----------------------------
(***************************************************************************)
(* The list tracks the processes, stoppedd agrees with the list, quit kill *)
(* leaves no child, and nothing follows a null pointer.                    *)
(*                                                                         *)
(* To Sound come two layers, each kept by every step:                      *)
(*   Calm    unless "full" or "zero" was taken: stoppedd agrees with the   *)
(*           list, who the foreground process is at each step of a command,*)
(*           and a process that may run on is a job or the foreground;     *)
(*   Tracks  while no path was taken: marks and process states agree.      *)
(* A handler finds the list in the state that the interrupted command left,*)
(* so the invariant speaks of every control state and not of the prompt.   *)
(***************************************************************************)
EXTENDS JobsProofs

(* What holds while no job was put into a used slot and none of id 0 was   *)
(* taken for the last one.                                                 *)

Clean == took \cap {"full", "zero"} = {}

\* StoppedAgrees, for a list.
Agree(j) ==
  \A x : x \in j.stoppedd <=> \E i \in Slots : j.slots[i].j_status = "stopped" /\ j.slots[i].j_id = x

\* The foreground process is the one that the command in progress holds.  It is
\* in no slot while an external command waits for it, in the slot of its job
\* in fg, and in a slot that was emptied at the end of fg; that slot is not
\* marked stopped.
Foreground ==
  /\ for_pid # NoPid =>
       for_pid = local.pid /\ pc \in {"half", "wait", "waited", "fgwait", "fgdone", "end", "end2"}
  /\ for_pid # NoPid \/ pc \in {"forked", "half", "wait", "waited", "fgset", "fgwait", "fgdone"} =>
       local.pid \in Pids
  /\ pc \in {"wait", "waited", "fgwait", "fgdone"} => for_cmd
  /\ pc = "forked" \/ (pc \in {"half", "wait", "waited"} /\ for_pid # NoPid) =>
       \A i \in Slots : Pid(i) # local.pid
  /\ pc \in {"fgset", "fgwait", "fgdone"} =>
       \E i \in Slots : Id(i) = local.job_id /\ Id(i) > 0 /\ Pid(i) = local.pid
  /\ pc \in {"end", "end2"} /\ for_pid # NoPid => \E i \in Slots : Pid(i) = local.pid /\ Id(i) = 0
  /\ pc = "fgset" \/ for_pid # NoPid => \A i \in Slots : Pid(i) = local.pid => St(i) # "stopped"

\* A job has a process, or fork() is still to come or has failed.
Started ==
  \A i \in Slots : St(i) # "empty" /\ Pid(i) \notin Pids =>
    St(i) = "background" /\ pc \in {"added", "end", "end2", "reap"}

\* A process that may run on is a job, or the one that an external command
\* waits for; that of a job removed or finished may not.  The process of a job
\* that was just added is that of a former one.  A process that is waited for
\* is stopped only if its job is marked stopped.
Processes ==
  /\ \A p \in Pids : proc[p] \in Alive =>
       \/ \E i \in Slots : Pid(i) = p /\ Id(i) > 0 /\ St(i) # "finished"
       \/ p = local.pid /\ pc = "forked"
       \/ p = local.pid /\ pc \in {"half", "wait"} /\ for_pid # NoPid
  /\ \A i \in Slots : Pid(i) \in Pids /\ (Id(i) = 0 \/ St(i) = "finished") => proc[Pid(i)] \notin Alive
  /\ pc = "added" =>
       \E i \in Slots : /\ Id(i) > 0 /\ (\A k \in Slots \ {i} : Id(k) < Id(i)) /\ St(i) = "background"
                        /\ Pid(i) \in Pids => proc[Pid(i)] \notin Alive
  /\ pc = "forked" \/ (pc \in {"half", "wait"} /\ for_pid # NoPid) => proc[local.pid] \notin Halted
  /\ pc = "waited" /\ for_pid # NoPid => proc[local.pid] \notin Alive
  /\ pc \in {"fgset", "fgwait", "fgdone"} =>
       \A i \in Slots : Pid(i) = local.pid /\ St(i) # "stopped" => proc[local.pid] \notin Halted
  /\ pc = "fgdone" =>
       \A i \in Slots : Pid(i) = local.pid /\ St(i) # "stopped" => proc[local.pid] \notin Alive

Calm == Agree(jobs) /\ Foreground /\ Started /\ Processes

\* While none of the paths in question was taken: a job is marked stopped if and
\* only if its process is stopped, a process not waited for is a job or the
\* one that is waited for, and that of a job removed was waited for.
Tracks ==
  /\ \A i \in Slots : Id(i) > 0 /\ Pid(i) \in Pids => (St(i) = "stopped" <=> proc[Pid(i)] \in Halted)
  /\ \A i \in Slots : Id(i) = 0 /\ Pid(i) \in Pids => proc[Pid(i)] = "reaped"
  /\ \A i \in Slots : Id(i) = 0 /\ St(i) # "empty" => St(i) = "finished" /\ pc \in {"end", "end2", "reap"}
  /\ \A p \in Pids : proc[p] \notin {"unborn", "reaped"} =>
       \/ \E i \in Slots : Pid(i) = p /\ Id(i) > 0
       \/ p = local.pid /\ pc \in {"forked", "half", "wait"}
  /\ pc = "prompt" => \A i \in Slots : Id(i) > 0 => Pid(i) \in Pids /\ proc[Pid(i)] # "reaped"
  /\ pc = "fgdone" => \A i \in Slots : Pid(i) = local.pid /\ St(i) # "stopped" => proc[local.pid] = "reaped"
  /\ pc = "added" => \A i \in Slots : (\A k \in Slots \ {i} : Id(k) < Id(i)) /\ Pid(i) \in Pids =>
                        proc[Pid(i)] = "reaped"
  /\ \A i \in Slots : St(i) = "finished" /\ Id(i) > 0 => pc \in {"fgwait", "fgdone"} /\ Pid(i) = local.pid

\* An id above 0 is not 0.
LEMMA NotZero ==
  ASSUME NEW x, x > 0
  PROVE  x # 0
  OBVIOUS

\* Steps of executeCommand() that leave list and processes alone.
LEMMA LocalCalm ==
  ASSUME Sound, Calm, UNCHANGED <<jobs, proc>>,
         \/ SetForPid \/ SetForCmd \/ ClearForeground \/ ForegroundSet \/ ResetCmd \/ ResetPid
         \/ ForkFails("prompt") \/ ForkFails("added")
  PROVE  Calm' /\ (Tracks => Tracks')
<1>1. Agree(jobs)'
  BY DEF Calm, Agree, Slots
<1>2. Foreground'
  BY Zenon DEF Calm, Foreground, Sound, TypeOK, St, Id, Pid, SetForPid, SetForCmd, ClearForeground, ForegroundSet, ResetCmd, ResetPid,
         ForkFails, Step, NoPid, Slots, Pids
<1>3. Started'
  BY DEF Calm, Started, St, Pid, SetForPid, SetForCmd, ClearForeground, ForegroundSet, ResetCmd, ResetPid,
         ForkFails, Step, Slots, Pids
<1>4. Processes'
  BY DEF Calm, Foreground, Processes, St, Id, Pid, SetForPid, SetForCmd, ClearForeground, ForegroundSet, ResetCmd, ResetPid,
         ForkFails, Step, NoPid, Slots, Pids, Alive, Halted
<1>5. Tracks => Tracks'
  BY Zenon DEF Calm, Foreground, Tracks, St, Id, Pid, SetForPid, SetForCmd, ClearForeground, ForegroundSet, ResetCmd, ResetPid,
         ForkFails, Step, NoPid, Slots, Pids, Alive, Halted
<1> QED
  BY <1>1, <1>2, <1>3, <1>4, <1>5 DEF Calm

\* fork() for the foreground.
LEMMA ForkCalm ==
  ASSUME Sound, Calm, Fork
  PROVE  Calm' /\ (Tracks => Tracks')
<1>1. PICK p \in Pids : /\ proc[p] = "unborn" /\ proc' = [proc EXCEPT ![p] = "running"]
                        /\ local' = [local EXCEPT !.pid = p]
  BY Zenon DEF Fork, Fresh
<1>2. UNCHANGED <<jobs, for_pid, for_cmd, shell>> /\ pc = "prompt" /\ pc' = "forked"
  BY DEF Fork, Step
<1>3. local'.pid = p /\ proc'[p] = "running" /\ \A q \in Pids \ {p} : proc'[q] = proc[q]
  BY <1>1 DEF Sound, TypeOK
<1>4. for_pid = NoPid /\ \A k \in Slots : jobs.slots[k].p_id # p
  BY <1>1, <1>2 DEF Calm, Foreground, Sound, Born, Pid
<1>5. Agree(jobs)' /\ Started'
  BY <1>2 DEF Calm, Agree, Started, St, Pid, Slots, Pids
<1>6. Foreground'
  BY <1>2, <1>3, <1>4 DEF Calm, Foreground, St, Id, Pid, Slots, Pids
<1>7. Processes'
  BY <1>2, <1>3, <1>4 DEF Calm, Processes, St, Id, Pid, Slots, Pids, Alive, Halted
<1>8. Tracks => Tracks'
  BY <1>2, <1>3, <1>4 DEF Tracks, St, Id, Pid, Slots, Pids, Halted
<1> QED
  BY <1>5, <1>6, <1>7, <1>8 DEF Calm

\* A background command is put on the list.
LEMMA AddCalm ==
  ASSUME Sound, Calm, AddBackground, Clean'
  PROVE  Calm' /\ (Tracks => Tracks')
<1>1. PICK i \in Slots, id \in Nat :
        /\ id > 0 /\ \A k \in Slots : jobs.slots[k].j_id < id
        /\ Occupied(jobs) # Slots => jobs.slots[i].j_status = "empty"
        /\ jobs' = [slots |-> Put(jobs.slots, i, Entry("background", id, jobs.slots[i].p_id)),
                    stoppedd |-> jobs.stoppedd]
  <2>1. jobs' = AddRunning(jobs)
    BY DEF AddBackground, AddRunning
  <2> QED
    BY <2>1, AddShape DEF Sound
<1>2. UNCHANGED <<for_pid, for_cmd, proc, local>> /\ pc = "prompt" /\ pc' = "added"
  BY DEF AddBackground, Step
<1>3. jobs.slots[i].j_status = "empty" /\ jobs.slots[i].j_id = 0
  <2>1. ~IsFull
    BY DEF AddBackground, Step, Path, Clean
  <2> QED
    BY <1>1, <2>1 DEF IsFull, Sound, Good
<1>4. /\ jobs'.slots[i].j_status = "background" /\ jobs'.slots[i].j_id = id
      /\ jobs'.slots[i].p_id = jobs.slots[i].p_id
      /\ \A k \in Slots \ {i} : jobs'.slots[k] = jobs.slots[k]
      /\ jobs'.stoppedd = jobs.stoppedd
  BY <1>1 DEF Put, Entry
<1>5. Agree(jobs)' /\ Started'
  BY <1>2, <1>3, <1>4 DEF Calm, Agree, Started, St, Pid, Slots, Pids
<1>6. Foreground'
  BY <1>2 DEF Calm, Foreground, St, Id, Pid, Slots, Pids
<1>7. Processes'
  <2>1. \A p \in Pids : proc'[p] \in Alive => \E k \in Slots : /\ jobs'.slots[k].p_id = p
                                                              /\ jobs'.slots[k].j_id > 0
                                                              /\ jobs'.slots[k].j_status # "finished"
    BY <1>2, <1>3, <1>4 DEF Calm, Processes, St, Id, Pid
  <2>2. \A k \in Slots : /\ jobs'.slots[k].p_id \in Pids
                         /\ jobs'.slots[k].j_id = 0 \/ jobs'.slots[k].j_status = "finished"
                         => proc'[jobs'.slots[k].p_id] \notin Alive
    BY <1>2, <1>3, <1>4 DEF Calm, Processes, St, Id, Pid
  <2>3. jobs'.slots[i].p_id \in Pids => proc'[jobs'.slots[i].p_id] \notin Alive
    BY <1>2, <1>3, <1>4 DEF Calm, Processes, St, Id, Pid
  <2>4. jobs'.slots[i].j_id > 0 /\ \A k \in Slots \ {i} : jobs'.slots[k].j_id < jobs'.slots[i].j_id
    BY <1>1, <1>4, Zenon
  <2> QED
    BY <1>2, <1>4, <2>1, <2>2, <2>3, <2>4 DEF Processes, St, Id, Pid, Slots, Pids
<1>8. ASSUME Tracks PROVE Tracks'
  <2>1. \A k \in Slots : jobs'.slots[k].j_id > 0 /\ jobs'.slots[k].p_id \in Pids
          => (jobs'.slots[k].j_status = "stopped" <=> proc'[jobs'.slots[k].p_id] \in Halted)
    BY <1>2, <1>3, <1>4, <1>8, SMTT(30) DEF Tracks, St, Id, Pid, Halted
  <2>2. \A k \in Slots : jobs'.slots[k].j_id = 0 /\ jobs'.slots[k].p_id \in Pids
          => proc'[jobs'.slots[k].p_id] = "reaped"
    BY <1>1, <1>2, <1>3, <1>4, <1>8 DEF Tracks, St, Id, Pid
  <2>3. \A p \in Pids : proc'[p] \notin {"unborn", "reaped"} =>
          \E k \in Slots : jobs'.slots[k].p_id = p /\ jobs'.slots[k].j_id > 0
    BY <1>2, <1>3, <1>4, <1>8 DEF Tracks, St, Id, Pid
  <2>4. ASSUME NEW m \in Slots, \A k \in Slots \ {m} : jobs'.slots[k].j_id < jobs'.slots[m].j_id
        PROVE  m = i
    <3>1. jobs.slots[m].j_id \in Nat /\ jobs.slots[m].j_id < id
      BY <1>1, Zenon DEF Sound, Good
    <3> QED
      BY <1>4, <2>4, <3>1
  <2>5. jobs'.slots[i].p_id \in Pids => proc'[jobs'.slots[i].p_id] = "reaped"
    BY <1>2, <1>3, <1>4, <1>8, SMTT(30) DEF Tracks, St, Id, Pid
  <2>6. \A k \in Slots : jobs'.slots[k].j_id = 0 => jobs'.slots[k].j_status = "empty"
    BY <1>1, <1>2, <1>3, <1>4, <1>8, SMTT(30) DEF Tracks, St, Id, Pid
  <2>7. \A k \in Slots : jobs'.slots[k].j_id > 0 => jobs'.slots[k].j_status # "finished"
    BY <1>1, <1>2, <1>3, <1>4, <1>8 DEF Tracks, St, Id, Pid
  <2> QED
    BY <1>2, <2>1, <2>2, <2>3, <2>4, <2>5, <2>6, <2>7 DEF Tracks, St, Id, Pid, Slots, Pids
<1> QED
  BY <1>5, <1>6, <1>7, <1>8 DEF Calm

\* ... and gets its pid.
LEMMA ForkBackgroundCalm ==
  ASSUME Sound, Calm, ForkBackground
  PROVE  Calm' /\ (Tracks => Tracks')
<1>1. PICK p \in Pids : /\ proc[p] = "unborn" /\ proc' = [proc EXCEPT ![p] = "running"]
                        /\ jobs' = set_job_pid(jobs, get_max_job_id(jobs), p)
  BY Zenon DEF ForkBackground, Fresh
<1>2. UNCHANGED <<for_pid, for_cmd, local>> /\ pc = "added" /\ pc' = "end" /\ for_pid = NoPid
  BY DEF ForkBackground, Step, Calm, Foreground
<1>3. PICK i \in Slots :
        /\ jobs.slots[i].j_id > 0 /\ (\A k \in Slots \ {i} : jobs.slots[k].j_id < jobs.slots[i].j_id)
        /\ jobs.slots[i].j_status = "background"
        /\ jobs.slots[i].p_id \in Pids => proc[jobs.slots[i].p_id] \notin Alive
  BY <1>2 DEF Calm, Processes, St, Id, Pid
<1>4. jobs' = [slots |-> Put(jobs.slots, i, Entry(jobs.slots[i].j_status, jobs.slots[i].j_id, p)),
               stoppedd |-> jobs.stoppedd]
  BY <1>1, <1>3, PidShape DEF Sound
<1>5. /\ jobs'.slots[i].j_status = "background" /\ jobs'.slots[i].j_id = jobs.slots[i].j_id
      /\ jobs'.slots[i].p_id = p
      /\ \A k \in Slots \ {i} : jobs'.slots[k] = jobs.slots[k]
      /\ jobs'.stoppedd = jobs.stoppedd
  BY <1>3, <1>4 DEF Put, Entry
<1>6. proc'[p] = "running" /\ \A q \in Pids \ {p} : proc'[q] = proc[q]
  BY <1>1 DEF Sound, TypeOK
<1>7. \A k \in Slots : jobs.slots[k].p_id # p
  BY <1>1 DEF Sound, Born, Pid
<1>8. Agree(jobs)' /\ Started'
  BY <1>2, <1>3, <1>5 DEF Calm, Agree, Started, St, Pid, Slots, Pids
<1>9. Foreground'
  BY <1>2 DEF Calm, Foreground, St, Id, Pid, Slots, Pids
<1>10. Processes'
  BY <1>2, <1>3, <1>5, <1>6, <1>7 DEF Calm, Processes, St, Id, Pid, Slots, Pids
<1>11. Tracks => Tracks'
  BY <1>2, <1>3, <1>5, <1>6, <1>7 DEF Tracks, St, Id, Pid, Slots, Pids, Halted
<1> QED
  BY <1>8, <1>9, <1>10, <1>11 DEF Calm

\* What a signal does to a process.
LEMMA AfterSignal ==
  ASSUME NEW x \in ProcState
  PROVE  /\ \A sig \in Signals : After(x, sig) \in Alive => x \in Alive
         /\ \A sig \in Signals : After(x, sig) \in {"unborn", "reaped"} => After(x, sig) = x
         /\ x \in {"unborn", "reaped"} => \A sig \in Signals : After(x, sig) = x
         /\ After(x, "KILL") \notin Alive
         /\ After(x, "CONT") \notin Halted
         /\ x \in Alive => After(x, "STOP") \in Halted
         /\ After(x, "TERM") \in Halted <=> x \in Halted
BY DEF After, ProcState, Signals, Alive, Halted

\* What send_SIG_TO_JOB() does for a job on the list.
LEMMA SignalShape ==
  ASSUME Sound, NEW i \in Slots, jobs.slots[i].j_id > 0, NEW sig \in Signals,
         jobs' = send_SIG_TO_JOB(jobs, jobs.slots[i].j_id, sig),
         proc' = kill(proc, PidOf(jobs.slots[i].j_id), sig)
  PROVE  /\ \A k \in Slots \ {i} : jobs'.slots[k] = jobs.slots[k]
         /\ jobs'.slots[i].j_id = jobs.slots[i].j_id /\ jobs'.slots[i].p_id = jobs.slots[i].p_id
         /\ sig = "STOP" => /\ jobs'.slots[i].j_status = "stopped"
                            /\ jobs'.stoppedd = jobs.stoppedd \cup {jobs.slots[i].j_id}
         /\ sig = "CONT" => /\ jobs'.slots[i].j_status = "background"
                            /\ jobs'.stoppedd = jobs.stoppedd \ {jobs.slots[i].j_id}
         /\ sig = "KILL" => /\ jobs'.slots[i].j_status = "finished"
                            /\ jobs'.stoppedd = jobs.stoppedd \ {jobs.slots[i].j_id}
         /\ sig = "TERM" => jobs' = jobs
         /\ \A p \in Pids : proc'[p] = IF p = jobs.slots[i].p_id THEN After(proc[p], sig) ELSE proc[p]
<1>1. getJobById(jobs, jobs.slots[i].j_id) = i /\ i # 0
  BY Found DEF Sound, Slots
<1>2. PidOf(jobs.slots[i].j_id) = jobs.slots[i].p_id
  BY <1>1 DEF PidOf
<1>3. \A p \in Pids : proc'[p] = IF p = jobs.slots[i].p_id THEN After(proc[p], sig) ELSE proc[p]
  BY <1>2, Signalled DEF Sound, TypeOK
<1>4. CASE sig = "TERM"
  BY <1>1, <1>3, <1>4 DEF send_SIG_TO_JOB
<1>5. CASE sig = "STOP"
  BY <1>1, <1>3, <1>5 DEF send_SIG_TO_JOB, Mark, Entry
<1>6. CASE sig = "CONT"
  BY <1>1, <1>3, <1>6 DEF send_SIG_TO_JOB, Mark, Entry
<1>7. CASE sig = "KILL"
  BY <1>1, <1>3, <1>7 DEF send_SIG_TO_JOB, Mark, Entry
<1> QED
  BY <1>4, <1>5, <1>6, <1>7, Zenon DEF Signals

\* A job on the list gets a signal at the prompt, from bg, kill or fg.
LEMMA SignalCalm ==
  ASSUME Sound, Calm, NEW i \in Slots, jobs.slots[i].j_id > 0, NEW sig \in Signals,
         jobs' = send_SIG_TO_JOB(jobs, jobs.slots[i].j_id, sig),
         proc' = kill(proc, PidOf(jobs.slots[i].j_id), sig),
         pc = "prompt", UNCHANGED <<for_pid, for_cmd>>,
         \/ pc' = "end" /\ UNCHANGED local
         \/ /\ pc' = "fgset" /\ sig = "CONT"
            /\ local'.job_id = jobs.slots[i].j_id /\ local'.pid = jobs.slots[i].p_id
  PROVE  /\ Calm'
         /\ Tracks /\ sig # "KILL" /\ (sig = "STOP" => ~Late(jobs.slots[i].p_id)) => Tracks'
<1> DEFINE s == jobs.slots
           t == jobs'.slots
           q == jobs.slots[i].p_id
<1>1. /\ \A k \in Slots \ {i} : t[k] = s[k]
      /\ t[i].j_id = s[i].j_id /\ t[i].p_id = q
      /\ sig = "STOP" => t[i].j_status = "stopped" /\ jobs'.stoppedd = jobs.stoppedd \cup {s[i].j_id}
      /\ sig = "CONT" => t[i].j_status = "background" /\ jobs'.stoppedd = jobs.stoppedd \ {s[i].j_id}
      /\ sig = "KILL" => t[i].j_status = "finished" /\ jobs'.stoppedd = jobs.stoppedd \ {s[i].j_id}
      /\ sig = "TERM" => jobs' = jobs
      /\ \A p \in Pids : proc'[p] = IF p = q THEN After(proc[p], sig) ELSE proc[p]
  BY SignalShape, Zenon
<1>2. \A k \in Slots : t[k].j_id = s[k].j_id /\ t[k].p_id = s[k].p_id
  BY <1>1, Zenon
<1>3. q \in Pids /\ for_pid = NoPid /\ \A k \in Slots \ {i} : s[k].p_id # q /\ s[k].j_id # s[i].j_id
  <2>1. q \in Pids
    BY DEF Calm, Started, Sound, Good, St, Pid
  <2> QED
    BY <2>1, Zenon DEF Calm, Foreground, Sound, PidsDistinct, Good, Pid
<1>4. \A p \in Pids : /\ proc'[p] \in Alive => proc[p] \in Alive
                      /\ proc'[p] \in {"unborn", "reaped"} => proc'[p] = proc[p]
                      /\ proc[p] = "reaped" => proc'[p] = "reaped"
                      /\ proc'[p] \notin {"unborn", "reaped"} => proc[p] \notin {"unborn", "reaped"}
  <2> SUFFICES ASSUME NEW p \in Pids
               PROVE  /\ proc'[p] \in Alive => proc[p] \in Alive
                      /\ proc'[p] \in {"unborn", "reaped"} => proc'[p] = proc[p]
                      /\ proc[p] = "reaped" => proc'[p] = "reaped"
                      /\ proc'[p] \notin {"unborn", "reaped"} => proc[p] \notin {"unborn", "reaped"}
    BY Zenon
  <2>1. proc[p] \in ProcState
    BY DEF Sound, TypeOK
  <2>2. proc'[p] = After(proc[p], sig) \/ proc'[p] = proc[p]
    BY <1>1, Zenon
  <2> HIDE DEF s, t, q
  <2> QED
    BY <2>1, <2>2, AfterSignal
<1>5. /\ sig = "KILL" => proc'[q] \notin Alive
      /\ sig = "CONT" => proc'[q] \notin Halted
      /\ sig = "STOP" /\ proc[q] \in Alive => proc'[q] \in Halted
      /\ sig = "TERM" => (proc'[q] \in Halted <=> proc[q] \in Halted)
  <2>1. proc[q] \in ProcState
    BY <1>3 DEF Sound, TypeOK
  <2>2. proc'[q] = After(proc[q], sig)
    BY <1>1, <1>3, Zenon
  <2> QED
    BY <2>1, <2>2, AfterSignal
<1>6. sig \in {"KILL", "TERM", "CONT", "STOP"}
  BY Zenon DEF Signals
<1>8. Agree(jobs)'
  <2>1. ASSUME NEW x
        PROVE  x \in jobs'.stoppedd <=> \E k \in Slots : t[k].j_status = "stopped" /\ t[k].j_id = x
    <3>1. x \in jobs.stoppedd <=> \E k \in Slots : s[k].j_status = "stopped" /\ s[k].j_id = x
      BY DEF Calm, Agree
    <3>2. CASE sig = "STOP"
      <4>1. t[i].j_status = "stopped" /\ jobs'.stoppedd = jobs.stoppedd \cup {s[i].j_id} /\ t[i].j_id = s[i].j_id
        BY <1>1, <3>2, Zenon
      <4>2. \A k \in Slots \ {i} : t[k] = s[k]
        BY <1>1, Zenon
      <4> HIDE DEF s, t
      <4>3. CASE x = s[i].j_id
        BY <4>1, <4>3, Zenon
      <4>4. CASE x # s[i].j_id
        BY <3>1, <4>1, <4>2, <4>4
      <4> QED
        BY <4>3, <4>4
    <3>3. CASE sig \in {"CONT", "KILL"}
      BY <1>1, <1>3, <3>1, <3>3, Zenon
    <3>4. CASE sig = "TERM"
      BY <1>1, <3>1, <3>4, Zenon
    <3> QED
      BY <1>6, <3>2, <3>3, <3>4, Zenon
  <2> QED
    BY <2>1, Zenon DEF Agree, Slots
<1>9. Started'
  <2>1. \A k \in Slots : s[k].j_status # "empty" => s[k].p_id \in Pids
    BY Zenon DEF Calm, Started, St, Pid
  <2>2. \A k \in Slots : t[k].j_status # "empty" => t[k].p_id \in Pids
    BY <1>1, <1>3, <2>1, Zenon
  <2> QED
    BY <2>2, Zenon DEF Started, St, Pid, Slots, Pids
<1>10. Foreground'
  BY <1>1, <1>3, Zenon DEF Calm, Foreground, St, Id, Pid, Slots, Pids
<1>11. Processes'
  <2>1. \A p \in Pids : proc'[p] \in Alive => \E k \in Slots : t[k].p_id = p /\ t[k].j_id > 0 /\ t[k].j_status # "finished"
    <3> SUFFICES ASSUME NEW p \in Pids, proc'[p] \in Alive
                 PROVE  \E k \in Slots : t[k].p_id = p /\ t[k].j_id > 0 /\ t[k].j_status # "finished"
      BY Zenon
    <3>1. PICK k \in Slots : s[k].p_id = p /\ s[k].j_id > 0 /\ s[k].j_status # "finished"
      BY <1>4, Zenon DEF Calm, Processes, St, Id, Pid
    <3> QED
      BY <1>1, <1>5, <1>6, <3>1, Zenon
  <2>2. \A k \in Slots : t[k].p_id \in Pids /\ (t[k].j_id = 0 \/ t[k].j_status = "finished") => proc'[t[k].p_id] \notin Alive
    <3> SUFFICES ASSUME NEW k \in Slots, t[k].p_id \in Pids, t[k].j_id = 0 \/ t[k].j_status = "finished"
                 PROVE  proc'[t[k].p_id] \notin Alive
      BY Zenon
    <3>1. CASE s[k].j_id = 0 \/ s[k].j_status = "finished"
      BY <1>2, <1>4, <3>1, Zenon DEF Calm, Processes, St, Id, Pid
    <3> QED
      BY <1>1, <1>2, <1>5, <1>6, <3>1, ZenonT(40)
  <2>3. pc' = "fgset" => \A k \in Slots : t[k].p_id = local'.pid => proc'[local'.pid] \notin Halted
    BY <1>3, <1>5
  <2> QED
    BY <2>1, <2>2, <2>3, Zenon DEF Processes, St, Id, Pid, Slots, Pids
<1>12. ASSUME Tracks, sig # "KILL", sig = "STOP" => ~Late(q) PROVE Tracks'
  <2>1. \A k \in Slots : t[k].j_id > 0 /\ t[k].p_id \in Pids => (t[k].j_status = "stopped" <=> proc'[t[k].p_id] \in Halted)
    <3>1. \A k \in Slots \ {i} : s[k].j_id > 0 /\ s[k].p_id \in Pids =>
                                 (s[k].j_status = "stopped" <=> proc'[s[k].p_id] \in Halted)
      BY <1>1, <1>3, <1>12, Zenon DEF Tracks, St, Id, Pid
    <3>2. s[i].j_status = "stopped" <=> proc[q] \in Halted
      BY <1>3, <1>12, Zenon DEF Tracks, St, Id, Pid
    <3>3. t[i].j_status = "stopped" <=> proc'[q] \in Halted
      BY <1>1, <1>3, <1>5, <1>6, <1>12, <3>2, Zenon DEF Late
    <3>4. ASSUME NEW k \in Slots, t[k].j_id > 0, t[k].p_id \in Pids
          PROVE  t[k].j_status = "stopped" <=> proc'[t[k].p_id] \in Halted
      <4>1. CASE k = i
        BY <1>1, <3>3, <4>1, Zenon
      <4>2. CASE k # i
        <5>1. t[k] = s[k]
          BY <1>1, <4>2, Zenon
        <5> QED
          BY <3>1, <3>4, <4>2, <5>1, Zenon
      <4> QED
        BY <4>1, <4>2, Zenon
    <3> QED
      BY <3>4, Zenon
  <2>2. ASSUME NEW k \in Slots, t[k].j_id = 0, t[k].p_id \in Pids
        PROVE  proc'[t[k].p_id] = "reaped"
    <3>1. t[k].p_id = s[k].p_id /\ t[k].j_id = s[k].j_id
      BY <1>2, Zenon
    <3>2. s[k].j_id = 0 /\ s[k].p_id \in Pids
      BY <2>2, <3>1, Zenon
    <3>3. proc[s[k].p_id] = "reaped"
      BY <1>12, <3>2, Zenon DEF Tracks, Id, Pid
    <3> QED
      BY <1>4, <3>1, <3>2, <3>3, Zenon
  <2>3. \A k \in Slots : t[k].j_id = 0 => t[k].j_status = "empty"
    <3>1. \A k \in Slots : s[k].j_id = 0 => s[k].j_status = "empty"
      BY <1>12, Zenon DEF Tracks, St, Id
    <3>2. s[i].j_id # 0
      BY NotZero, Zenon
    <3>3. ASSUME NEW k \in Slots, t[k].j_id = 0 PROVE t[k].j_status = "empty"
      <4>1. s[k].j_id = 0
        BY <1>2, <3>3, Zenon
      <4>2. t[k] = s[k]
        BY <1>1, <3>2, <4>1, Zenon
      <4> QED
        BY <3>1, <4>1, <4>2, Zenon
    <3> QED
      BY <3>3, Zenon
  <2>4. \A p \in Pids : proc'[p] \notin {"unborn", "reaped"} => \E k \in Slots : t[k].p_id = p /\ t[k].j_id > 0
    <3> SUFFICES ASSUME NEW p \in Pids, proc'[p] \notin {"unborn", "reaped"}
                 PROVE  \E k \in Slots : t[k].p_id = p /\ t[k].j_id > 0
      BY Zenon
    <3>1. PICK k \in Slots : s[k].p_id = p /\ s[k].j_id > 0
      BY <1>4, <1>12, Zenon DEF Tracks, St, Id, Pid
    <3> QED
      BY <1>2, <3>1, Zenon
  <2>5. \A k \in Slots : t[k].j_id > 0 => t[k].j_status # "finished"
    <3>1. \A k \in Slots : s[k].j_id > 0 => s[k].j_status # "finished"
      BY <1>12, Zenon DEF Tracks, St, Id
    <3>2. t[i].j_status # "finished"
      BY <1>1, <1>6, <1>12, <3>1, Zenon
    <3> QED
      BY <1>1, <3>1, <3>2, Zenon
  <2> QED
    BY <2>1, <2>2, <2>3, <2>4, <2>5, ZenonT(40) DEF Tracks, St, Id, Pid, Slots, Pids
<1> QED
  BY <1>8, <1>9, <1>10, <1>11, <1>12, Zenon DEF Calm

\* waitpid() returns for the foreground process.
LEMMA WaitCalm ==
  ASSUME Sound, Calm, Wait("wait", "waited") \/ Wait("fgwait", "fgdone")
  PROVE  Calm' /\ (Tracks => Tracks')
<1> DEFINE q == local.pid
<1>1. /\ UNCHANGED <<jobs, for_pid, for_cmd, local>>
      /\ (pc = "wait" /\ pc' = "waited") \/ (pc = "fgwait" /\ pc' = "fgdone")
      /\ proc' = Reaped(proc, q)
      /\ q \in Pids
  <2>1. /\ UNCHANGED <<jobs, for_pid, for_cmd, local>>
        /\ (pc = "wait" /\ pc' = "waited") \/ (pc = "fgwait" /\ pc' = "fgdone")
        /\ proc' = Reaped(proc, q)
    BY DEF Wait, Step
  <2> QED
    BY <2>1 DEF Calm, Foreground
<1>2. /\ proc[q] \in {"zombie", "reaped"} \cup Halted
      /\ proc'[q] = IF proc[q] = "zombie" THEN "reaped" ELSE proc[q]
      /\ \A p \in Pids \ {q} : proc'[p] = proc[p]
  <2>1. proc[q] # "unborn"
    BY <1>1 DEF Sound, Born
  <2> QED
    BY <1>1, <2>1 DEF Wait, Gone, Reaped, Sound, TypeOK
<1>3. \A p \in Pids : /\ proc'[p] \in Alive <=> proc[p] \in Alive
                      /\ proc'[p] \in Halted <=> proc[p] \in Halted
                      /\ proc[p] = "reaped" => proc'[p] = "reaped"
  <2>1. \/ proc'[q] = proc[q]
        \/ proc'[q] = "reaped" /\ proc[q] = "zombie"
    BY <1>2
  <2>2. {"reaped", "zombie"} \cap (Alive \cup Halted) = {}
    BY DEF Alive, Halted
  <2> QED
    BY <1>2, <2>1, <2>2
<1>4. proc'[q] = "reaped" \/ proc[q] \in Halted
  BY <1>2
<1>5. Agree(jobs)' /\ Started' /\ Foreground'
  <2>1. Agree(jobs)' /\ Started'
    BY <1>1 DEF Calm, Agree, Started, St, Pid, Slots, Pids
  <2>2. Foreground'
    BY <1>1 DEF Calm, Foreground, St, Id, Pid, Slots, Pids
  <2> QED
    BY <2>1, <2>2
<1>6. Processes'
  <2>1. CASE pc = "wait"
    <3>1. for_pid # NoPid => proc'[q] \notin Alive
      BY <1>1, <1>3, <1>4, <2>1 DEF Calm, Processes, Alive, Halted
    <3>2. \A p \in Pids : proc'[p] \in Alive => \E k \in Slots : Pid(k) = p /\ Id(k) > 0 /\ St(k) # "finished"
      BY <1>3, <2>1, <3>1 DEF Calm, Processes
    <3>3. \A k \in Slots : Pid(k) \in Pids /\ (Id(k) = 0 \/ St(k) = "finished") => proc'[Pid(k)] \notin Alive
      BY <1>3 DEF Calm, Processes
    <3> QED
      BY <1>1, <2>1, <3>1, <3>2, <3>3, Zenon DEF Processes, St, Id, Pid, Slots, Pids
  <2>2. CASE pc = "fgwait"
    <3>1. \A k \in Slots : Pid(k) = q /\ St(k) # "stopped" => proc'[q] = "reaped" /\ proc'[q] \notin Alive
      BY <1>1, <1>4, <2>2, Zenon DEF Calm, Processes, Alive, Halted
    <3>2. \A p \in Pids : proc'[p] \in Alive => \E k \in Slots : Pid(k) = p /\ Id(k) > 0 /\ St(k) # "finished"
      BY <1>3, <2>2 DEF Calm, Processes
    <3>3. \A k \in Slots : Pid(k) \in Pids /\ (Id(k) = 0 \/ St(k) = "finished") => proc'[Pid(k)] \notin Alive
      BY <1>3 DEF Calm, Processes
    <3> QED
      BY <1>1, <2>2, <3>1, <3>2, <3>3, Zenon DEF Processes, St, Id, Pid, Slots, Pids, Alive
  <2> QED
    BY <1>1, <2>1, <2>2
<1>7. ASSUME Tracks PROVE Tracks'
  <2>1. \A k \in Slots : Id(k) > 0 /\ Pid(k) \in Pids => (St(k) = "stopped" <=> proc'[Pid(k)] \in Halted)
    BY <1>3, <1>7 DEF Tracks
  <2>2. \A k \in Slots : Id(k) = 0 /\ Pid(k) \in Pids => proc'[Pid(k)] = "reaped"
    BY <1>3, <1>7 DEF Tracks
  <2>3. \A k \in Slots : Id(k) = 0 => St(k) = "empty"
    BY <1>1, <1>7 DEF Tracks
  <2>4. \A p \in Pids : proc'[p] \notin {"unborn", "reaped"} => \E k \in Slots : Pid(k) = p /\ Id(k) > 0
    <3>1. ASSUME proc'[q] # "reaped" PROVE \E k \in Slots : Pid(k) = q /\ Id(k) > 0
      BY <1>1, <1>4, <3>1 DEF Calm, Processes, Alive
    <3> QED
      BY <1>1, <1>2, <1>7, <3>1, Zenon DEF Tracks
  <2>5. \A k \in Slots : Pid(k) = q /\ St(k) # "stopped" /\ pc = "fgwait" => proc'[q] = "reaped"
    BY <1>1, <1>4 DEF Calm, Processes
  <2>6. \A k \in Slots : St(k) = "finished" /\ Id(k) > 0 => pc = "fgwait" /\ Pid(k) = q
    BY <1>1, <1>7 DEF Tracks
  <2> QED
    BY <1>1, <2>1, <2>2, <2>3, <2>4, <2>5, <2>6, Zenon DEF Tracks, St, Id, Pid, Slots, Pids
<1> QED
  BY <1>5, <1>6, <1>7 DEF Calm

\* A process ends.
LEMMA ExitCalm ==
  ASSUME Sound, Calm, NEW q \in Pids, Exit(q)
  PROVE  Calm' /\ (Tracks => Tracks')
<1>1. UNCHANGED <<jobs, for_pid, for_cmd, local, pc>>
  BY DEF Exit
<1>2. \A p \in Pids : /\ proc'[p] \in Alive => proc[p] \in Alive
                      /\ proc'[p] \in Halted <=> proc[p] \in Halted
                      /\ proc[p] = "reaped" => proc'[p] = "reaped"
                      /\ proc[p] = "unborn" => proc'[p] = "unborn"
  BY Zenon DEF Exit, Sound, TypeOK, Alive, Halted
<1>3. Agree(jobs)' /\ Started'
  BY <1>1 DEF Calm, Agree, Started, St, Pid, Slots, Pids
<1>4. Foreground'
  BY <1>1, Zenon DEF Calm, Foreground, St, Id, Pid, Slots, Pids
<1>5. local.pid \notin Pids => /\ pc \notin {"forked", "waited", "fgset", "fgwait", "fgdone"}
                               /\ for_pid = NoPid
  BY SMTT(30) DEF Calm, Foreground
<1>6. Processes'
  BY <1>1, <1>2, <1>5 DEF Calm, Processes, St, Id, Pid, Slots, Pids
<1>7. Tracks => Tracks'
  <2>1. pc = "prompt" => \A i \in Slots : Id(i) > 0 /\ Pid(i) \in Pids /\ proc[Pid(i)] # "reaped" => proc'[Pid(i)] # "reaped"
    BY Zenon DEF Exit, Sound, TypeOK
  <2> QED
    BY <1>1, <1>2, <1>5, <2>1, Zenon DEF Tracks, St, Id, Pid, Slots, Pids
<1> QED
  BY <1>3, <1>4, <1>6, <1>7 DEF Calm

\* fg is done: the job leaves the list unless it was stopped.
LEMMA ForegroundDoneCalm ==
  ASSUME Sound, Calm, ForegroundDone
  PROVE  Calm' /\ (Tracks => Tracks')
<1> DEFINE q == local.pid
           s == jobs.slots
           t == jobs'.slots
<1>1. UNCHANGED <<for_pid, for_cmd, proc, local>> /\ pc = "fgdone" /\ pc' = "end" /\ q \in Pids
  BY Zenon DEF ForegroundDone, Step, Calm, Foreground
<1>2. PICK i \in Slots : s[i].j_id = local.job_id /\ s[i].j_id > 0 /\ s[i].p_id = q
  BY <1>1, Zenon DEF Calm, Foreground, Id, Pid
<1>3. getJobById(jobs, local.job_id) = i /\ i # 0
  BY <1>2, Found DEF Sound, Slots
<1>4. \A k \in Slots \ {i} : s[k].p_id # q /\ s[k].j_id # s[i].j_id
  BY <1>1, <1>2 DEF Sound, PidsDistinct, Good, Pid
<1>5. CASE s[i].j_status = "stopped"
  <2>1. jobs' = jobs
    BY <1>3, <1>5 DEF ForegroundDone
  <2>2. for_pid = NoPid
    BY <1>2, <1>5 DEF Calm, Foreground, St, Pid
  <2>3. Agree(jobs)' /\ Started'
    BY <1>1, <2>1 DEF Calm, Agree, Started, St, Pid, Slots, Pids
  <2>4. Foreground'
    BY <1>1, <2>1, <2>2 DEF Calm, Foreground, St, Id, Pid, Slots, Pids
  <2>5. Processes'
    BY <1>1, <2>1, <2>2, Zenon DEF Calm, Processes, St, Id, Pid, Slots, Pids
  <2>6. Tracks => Tracks'
    BY <1>1, <1>2, <1>4, <1>5, <2>1, <2>2 DEF Tracks, St, Id, Pid, Slots, Pids
  <2> QED
    BY <2>3, <2>4, <2>5, <2>6 DEF Calm
<1>6. CASE s[i].j_status # "stopped"
  <2>1. /\ \A k \in Slots \ {i} : t[k] = s[k]
        /\ t[i].j_status = "empty" /\ t[i].j_id = 0 /\ t[i].p_id = q
        /\ jobs'.stoppedd = jobs.stoppedd \ {s[i].j_id}
    <3>1. Named(jobs, local.job_id) = {i}
      BY <1>2, <1>4 DEF Named, With
    <3>2. jobs' = removeJobById(jobs, local.job_id)
      BY <1>3, <1>6, Zenon DEF ForegroundDone
    <3> QED
      BY <1>2, <3>1, <3>2, Zenon DEF removeJobById, Entry
  <2>2. Agree(jobs)'
    <3>1. \A x : x \in jobs.stoppedd <=> \E k \in Slots : s[k].j_status = "stopped" /\ s[k].j_id = x
      BY DEF Calm, Agree
    <3>2. ASSUME NEW x PROVE x \in jobs'.stoppedd <=> \E k \in Slots : t[k].j_status = "stopped" /\ t[k].j_id = x
      BY <1>4, <1>6, <2>1, <3>1
    <3> QED
      BY <3>2, Zenon DEF Agree, Slots
  <2>3. Started'
    BY <1>1, <2>1 DEF Calm, Started, St, Pid, Slots, Pids
  <2>4. Foreground'
    BY <1>1, <1>4, <2>1 DEF Calm, Foreground, St, Id, Pid, Slots, Pids
  <2>5. proc[q] \notin Alive
    BY <1>1, <1>2, <1>6, Zenon DEF Calm, Processes, Pid, St
  <2>6. Processes'
    BY <1>1, <1>2, <2>1, <2>5, SMTT(30) DEF Calm, Processes, St, Id, Pid, Slots, Pids
  <2>7. ASSUME Tracks PROVE Tracks'
    <3>1. proc[q] = "reaped"
      BY <1>1, <1>2, <1>6, <2>7, Zenon DEF Tracks, Pid, St
    <3>2. \A k \in Slots \ {i} : s[k].j_status = "finished" => s[k].j_id = 0
      BY <1>4, <2>7 DEF Tracks, Pid, St, Id, Sound, Good
    <3> QED
      BY <1>1, <1>2, <2>1, <2>7, <3>1, <3>2 DEF Tracks, St, Id, Pid, Slots, Pids
  <2> QED
    BY <2>2, <2>3, <2>4, <2>6, <2>7 DEF Calm
<1> QED
  BY <1>5, <1>6

\* jobs, and the end of executeCommand(): finished jobs leave the list.
LEMMA CollectCalm ==
  ASSUME Sound, Calm, jobs' = removeFinishedJobs(jobs), proc' = Waited(jobs),
         UNCHANGED <<for_pid, for_cmd>>,
         \/ pc = "prompt" /\ pc' = "end" /\ UNCHANGED local
         \/ pc = "reap" /\ pc' = "prompt"
  PROVE  Calm' /\ (Tracks => Tracks')
<1> DEFINE s == jobs.slots
           t == jobs'.slots
           done == Ended(jobs) \cup {i \in Slots : jobs.slots[i].j_status = "finished"}
           out == {jobs.slots[i].j_id : i \in done}
<1>1. /\ jobs'.stoppedd = jobs.stoppedd \ out
      /\ \A k \in Slots : t[k].p_id = s[k].p_id
      /\ \A k \in Slots : s[k].j_id \in out => t[k].j_status = "empty" /\ t[k].j_id = 0
      /\ \A k \in Slots : s[k].j_id \notin out => t[k] = s[k]
  <2>1. /\ jobs'.stoppedd = jobs.stoppedd \ out
        /\ t = [i \in Slots |-> IF s[i].j_id \in out THEN Entry("empty", 0, s[i].p_id) ELSE s[i]]
    BY RemoveShape, Zenon
  <2> HIDE DEF out
  <2> QED
    BY <2>1 DEF Entry
<1>2. for_pid = NoPid
  BY DEF Calm, Foreground
<1>3. \A k \in Slots : k \in done <=> \/ s[k].j_status = "finished"
                                      \/ s[k].j_status \in {"background"} /\ Gone(s[k].p_id)
  BY DEF Ended, Occupied, Sound, TypeOK, Status
<1>4. \A k \in Slots : k \in done => s[k].j_id \in out
  OBVIOUS
<1>5. \A k \in Slots : s[k].j_id \in out /\ s[k].j_id > 0 => k \in done
  BY DEF Sound, Good, Ended, Occupied
<1> HIDE DEF out, done
<1>6. \A p \in Pids : /\ proc'[p] = proc[p] \/ (proc[p] = "zombie" /\ proc'[p] = "reaped")
                      /\ \A k \in Slots : s[k].p_id = p /\ s[k].j_status \notin {"empty", "stopped"} => proc'[p] # "zombie"
  BY DEF Waited, Occupied
<1>7. \A p \in Pids : /\ proc'[p] \in Alive <=> proc[p] \in Alive
                      /\ proc'[p] \in Halted <=> proc[p] \in Halted
                      /\ proc[p] = "reaped" => proc'[p] = "reaped"
  BY <1>6 DEF Alive, Halted
<1>8. Agree(jobs)'
  <2>1. \A x : x \in jobs.stoppedd <=> \E k \in Slots : s[k].j_status = "stopped" /\ s[k].j_id = x
    BY DEF Calm, Agree
  <2>2. ASSUME NEW x PROVE x \in jobs'.stoppedd <=> \E k \in Slots : t[k].j_status = "stopped" /\ t[k].j_id = x
    BY <1>1, <2>1
  <2> QED
    BY <2>2 DEF Agree, Slots
<1>9. ASSUME NEW k \in Slots, t[k].j_status # "empty"
      PROVE  /\ t[k] = s[k]
             /\ t[k].p_id \in Pids
             /\ proc[s[k].p_id] \notin {"unborn", "zombie", "reaped"} \/ t[k].j_status = "stopped"
             /\ t[k].j_status # "finished"
  <2>1. t[k] = s[k] /\ k \notin done
    BY <1>1, <1>4, <1>9
  <2>2. s[k].j_status # "finished" /\ (s[k].j_status # "background" \/ ~Gone(s[k].p_id))
    BY <1>3, <2>1
  <2>3. s[k].j_status \in Status
    BY DEF Sound, TypeOK
  <2>4. s[k].p_id \notin Pids => Gone(s[k].p_id) /\ s[k].j_status = "background"
    BY <1>9, <2>1 DEF Gone, Calm, Started, St, Pid
  <2> QED
    BY <1>9, <2>1, <2>2, <2>3, <2>4, Zenon DEF Status, Gone
<1>10. Started' /\ Foreground'
  <2>1. Started'
    <3>1. \A k \in Slots : t[k].j_status # "empty" => t[k].p_id \in Pids
      BY <1>9
    <3> QED
      BY <3>1 DEF Started, St, Pid, Slots, Pids
  <2>2. Foreground'
    BY <1>2 DEF Foreground, St, Id, Pid, Slots, Pids
  <2> QED
    BY <2>1, <2>2
<1>11. ASSUME NEW k \in Slots, s[k].p_id \in Pids, k \in done
       PROVE  proc[s[k].p_id] \notin Alive
  <2>1. CASE s[k].j_status = "finished"
    BY <1>11, <2>1, Zenon DEF Calm, Processes, St, Pid
  <2>2. CASE Gone(s[k].p_id)
    BY <1>11, <2>2 DEF Gone, Alive, Halted
  <2> QED
    BY <1>3, <1>11, <2>1, <2>2
<1>12. Processes'
  <2>1. \A p \in Pids : proc'[p] \in Alive => \E k \in Slots : t[k].p_id = p /\ t[k].j_id > 0 /\ t[k].j_status # "finished"
    <3> SUFFICES ASSUME NEW p \in Pids, proc'[p] \in Alive
                 PROVE  \E k \in Slots : t[k].p_id = p /\ t[k].j_id > 0 /\ t[k].j_status # "finished"
      BY Zenon
    <3>1. PICK k \in Slots : s[k].p_id = p /\ s[k].j_id > 0 /\ s[k].j_status # "finished"
      BY <1>7, Zenon DEF Calm, Processes, St, Id, Pid
    <3>2. k \notin done
      BY <1>7, <1>11, <3>1, Zenon
    <3> QED
      BY <1>1, <1>5, <3>1, <3>2, Zenon
  <2>2. \A k \in Slots : t[k].p_id \in Pids /\ (t[k].j_id = 0 \/ t[k].j_status = "finished") => proc'[t[k].p_id] \notin Alive
    <3> SUFFICES ASSUME NEW k \in Slots, t[k].p_id \in Pids, t[k].j_id = 0 \/ t[k].j_status = "finished"
                 PROVE  proc[s[k].p_id] \notin Alive
      BY <1>1, <1>7, Zenon
    <3>1. CASE s[k].j_id \in out
      <4>1. s[k].j_id = 0 \/ k \in done
        BY <1>5, <3>1 DEF Sound, Good
      <4> QED
        BY <1>1, <1>11, <4>1, Zenon DEF Calm, Processes, St, Id, Pid
    <3>2. CASE s[k].j_id \notin out
      BY <1>1, <3>2, Zenon DEF Calm, Processes, St, Id, Pid
    <3> QED
      BY <3>1, <3>2
  <2> QED
    BY <2>1, <2>2, Zenon DEF Processes, St, Id, Pid, Slots, Pids
<1>13. ASSUME Tracks PROVE Tracks'
  <2>1. \A k \in Slots : s[k].j_status = "finished" => s[k].j_id = 0
    BY <1>13 DEF Tracks, St, Id, Sound, Good
  <2>2. \A k \in Slots : s[k].j_id \in out /\ s[k].p_id \in Pids => proc'[s[k].p_id] = "reaped"
    <3> SUFFICES ASSUME NEW k \in Slots, s[k].j_id \in out, s[k].p_id \in Pids
                 PROVE  proc'[s[k].p_id] = "reaped"
      OBVIOUS
    <3>1. CASE s[k].j_id = 0
      BY <1>7, <1>13, <3>1, Zenon DEF Tracks, Id, Pid
    <3>2. CASE s[k].j_id > 0
      <4>1. s[k].j_status = "background" /\ Gone(s[k].p_id)
        BY <1>3, <1>5, <2>1, <3>2
      <4>2. proc[s[k].p_id] \in {"zombie", "reaped"}
        BY <4>1 DEF Gone, Sound, Born, Pid
      <4> QED
        BY <1>6, <4>1, <4>2, Zenon
    <3> QED
      BY <3>1, <3>2 DEF Sound, Good
  <2>3. \A k \in Slots : t[k].j_id > 0 => s[k].j_id \notin out /\ t[k] = s[k]
    BY <1>1, SMTT(30)
  <2>4. \A k \in Slots : t[k].j_id > 0 /\ t[k].p_id \in Pids => (t[k].j_status = "stopped" <=> proc'[t[k].p_id] \in Halted)
    BY <1>7, <1>13, <2>3, SMTT(30) DEF Tracks, St, Id, Pid
  <2>5. \A k \in Slots : t[k].j_id = 0 /\ t[k].p_id \in Pids => proc'[t[k].p_id] = "reaped"
    BY <1>1, <1>7, <1>13, <2>2 DEF Tracks, St, Id, Pid
  <2>6. \A k \in Slots : t[k].j_id = 0 => t[k].j_status = "empty"
    <3>1. \A k \in Slots : s[k].j_id = 0 => s[k].j_status \in {"empty", "finished"}
      BY <1>13, Zenon DEF Tracks, St, Id
    <3> QED
      BY <1>1, <1>9, <3>1, Zenon
  <2>7. \A p \in Pids : proc'[p] \notin {"unborn", "reaped"} => \E k \in Slots : t[k].p_id = p /\ t[k].j_id > 0
    <3> SUFFICES ASSUME NEW p \in Pids, proc'[p] \notin {"unborn", "reaped"}
                 PROVE  \E k \in Slots : t[k].p_id = p /\ t[k].j_id > 0
      BY Zenon
    <3>1. proc[p] \notin {"unborn", "reaped"}
      BY <1>6
    <3>2. PICK k \in Slots : s[k].p_id = p /\ s[k].j_id > 0
      BY <1>13, <3>1, Zenon DEF Tracks, Id, Pid
    <3>3. s[k].j_id \notin out
      BY <2>2, <3>2
    <3> QED
      BY <1>1, <3>2, <3>3, Zenon
  <2>8. \A k \in Slots : t[k].j_id > 0 => t[k].p_id \in Pids /\ proc'[t[k].p_id] # "reaped" /\ t[k].j_status # "finished"
    <3> SUFFICES ASSUME NEW k \in Slots, t[k].j_id > 0
                 PROVE  t[k].p_id \in Pids /\ proc'[t[k].p_id] # "reaped" /\ t[k].j_status # "finished"
      OBVIOUS
    <3>1. t[k] = s[k] /\ t[k].j_status # "empty"
      BY <2>3 DEF Sound, Good
    <3>2. /\ t[k].p_id \in Pids
          /\ proc[s[k].p_id] \notin {"unborn", "zombie", "reaped"} \/ t[k].j_status = "stopped"
          /\ t[k].j_status # "finished"
      BY <1>9, <3>1
    <3>3. CASE t[k].j_status = "stopped"
      BY <2>4, <3>2, <3>3 DEF Halted
    <3>4. CASE proc[s[k].p_id] \notin {"unborn", "zombie", "reaped"}
      BY <1>6, <3>1, <3>2, <3>4
    <3> QED
      BY <3>2, <3>3, <3>4
  <2> QED
    BY <2>4, <2>5, <2>6, <2>7, <2>8, Zenon DEF Tracks, St, Id, Pid, Slots, Pids
<1> QED
  BY <1>8, <1>10, <1>12, <1>13 DEF Calm

\* ctrl-C: the foreground process is killed, and its slot, if any, marked.
LEMMA CtrlCCalm ==
  ASSUME Sound, Calm, ctrlCHandler
  PROVE  Calm' /\ (Tracks => Tracks')
<1> DEFINE s == jobs.slots
           t == jobs'.slots
           q == for_pid
<1>1. /\ q # NoPid /\ for_pid' = NoPid /\ UNCHANGED <<pc, for_cmd, local>>
      /\ jobs'.stoppedd = jobs.stoppedd
      /\ \A k \in Slots : t[k].p_id = s[k].p_id /\ t[k].j_id = s[k].j_id
      /\ \A k \in Slots : s[k].p_id = q => t[k].j_status = "finished"
      /\ \A k \in Slots : s[k].p_id # q => t[k].j_status = s[k].j_status
  <2>1. \A k : k \in With(jobs, LAMBDA e : e.p_id = for_pid) <=> k \in Slots /\ s[k].p_id = q
    BY DEF With
  <2> QED
    BY <2>1, Zenon DEF ctrlCHandler, Step, Mark, Entry
<1>2. q = local.pid /\ q \in Pids /\ \A k \in Slots : s[k].p_id = q => s[k].j_status # "stopped"
  BY <1>1 DEF Calm, Foreground, St, Pid
<1>3. /\ proc'[q] \notin Alive /\ (proc[q] = "reaped" => proc'[q] = "reaped")
      /\ \A p \in Pids \ {q} : proc'[p] = proc[p]
      /\ proc'[q] \notin {"unborn", "reaped"} => proc[q] \notin {"unborn", "reaped"}
  <2>1. \A p \in Pids : proc'[p] = IF p = q THEN After(proc[p], "KILL") ELSE proc[p]
    BY Signalled DEF ctrlCHandler, Sound, TypeOK, Signals
  <2>2. proc[q] \in ProcState
    BY <1>2 DEF Sound, TypeOK
  <2> QED
    BY <1>2, <2>1, <2>2, AfterSignal DEF Signals
<1>4. Agree(jobs)'
  <2>1. \A x : x \in jobs.stoppedd <=> \E k \in Slots : s[k].j_status = "stopped" /\ s[k].j_id = x
    BY DEF Calm, Agree
  <2>2. \A k \in Slots : t[k].j_status = "stopped" <=> s[k].j_status = "stopped"
    BY <1>1, <1>2
  <2>3. ASSUME NEW x PROVE x \in jobs'.stoppedd <=> \E k \in Slots : t[k].j_status = "stopped" /\ t[k].j_id = x
    BY <1>1, <2>1, <2>2
  <2> QED
    BY <2>3 DEF Agree, Slots
<1>5. Started'
  BY <1>1, <1>2 DEF Calm, Started, St, Pid, Slots, Pids
<1>6. Foreground'
  BY <1>1, Zenon DEF Calm, Foreground, St, Id, Pid, Slots, Pids
<1>7. Processes'
  <2>1. \A p \in Pids : proc'[p] \in Alive => \E k \in Slots : t[k].p_id = p /\ t[k].j_id > 0 /\ t[k].j_status # "finished"
    <3> SUFFICES ASSUME NEW p \in Pids, proc'[p] \in Alive
                 PROVE  \E k \in Slots : t[k].p_id = p /\ t[k].j_id > 0 /\ t[k].j_status # "finished"
      OBVIOUS
    <3>1. p # q /\ proc[p] \in Alive
      BY <1>3
    <3>2. PICK k \in Slots : s[k].p_id = p /\ s[k].j_id > 0 /\ s[k].j_status # "finished"
      BY <1>2, <3>1, Zenon DEF Calm, Processes, St, Id, Pid
    <3> QED
      BY <1>1, <3>1, <3>2, Zenon
  <2>2. \A k \in Slots : t[k].p_id \in Pids /\ (t[k].j_id = 0 \/ t[k].j_status = "finished") => proc'[t[k].p_id] \notin Alive
    BY <1>1, <1>3 DEF Calm, Processes, St, Id, Pid
  <2>3. proc'[local.pid] \notin Alive /\ pc # "added" /\ pc # "forked"
    BY <1>1, <1>2, <1>3, Zenon DEF Calm, Foreground
  <2> QED
    BY <1>1, <2>1, <2>2, <2>3, Zenon DEF Processes, St, Id, Pid, Slots, Pids, Alive
<1>8. ASSUME Tracks PROVE Tracks'
  <2>1. \A k \in Slots : t[k].j_id > 0 /\ t[k].p_id \in Pids => (t[k].j_status = "stopped" <=> proc'[t[k].p_id] \in Halted)
    BY <1>1, <1>3, <1>8, SMTT(30) DEF Tracks, St, Id, Pid, Alive
  <2>2. \A k \in Slots : t[k].j_id = 0 /\ t[k].p_id \in Pids => proc'[t[k].p_id] = "reaped"
    BY <1>1, <1>3, <1>8 DEF Tracks, St, Id, Pid
  <2>3. \A k \in Slots : s[k].p_id = q => \/ pc \in {"end", "end2"} /\ s[k].j_id = 0
                                          \/ pc \in {"fgwait", "fgdone"} /\ s[k].j_id > 0
    <3> SUFFICES ASSUME NEW k \in Slots, s[k].p_id = q
                 PROVE  \/ pc \in {"end", "end2"} /\ s[k].j_id = 0
                        \/ pc \in {"fgwait", "fgdone"} /\ s[k].j_id > 0
      OBVIOUS
    <3>1. \A m \in Slots : s[m].p_id = q => m = k
      BY <1>2 DEF Sound, PidsDistinct, Pid
    <3>2. pc \in {"fgwait", "fgdone", "end", "end2"}
      BY <1>1, <1>2, Zenon DEF Calm, Foreground, Pid
    <3>3. CASE pc \in {"fgwait", "fgdone"}
      BY <1>2, <3>1, <3>3, Zenon DEF Calm, Foreground, Pid, Id
    <3>4. CASE pc \in {"end", "end2"}
      BY <1>1, <1>2, <3>1, <3>4, Zenon DEF Calm, Foreground, Pid, Id
    <3> QED
      BY <3>2, <3>3, <3>4
  <2>4. \A k \in Slots : t[k].j_id = 0 /\ t[k].j_status # "empty" => t[k].j_status = "finished" /\ pc \in {"end", "end2", "reap"}
    <3>1. \A k \in Slots : s[k].j_id = 0 /\ s[k].j_status # "empty" => s[k].j_status = "finished" /\ pc \in {"end", "end2", "reap"}
      BY <1>8 DEF Tracks, St, Id
    <3> QED
      BY <1>1, <2>3, <3>1
  <2>5. \A k \in Slots : t[k].j_status = "finished" /\ t[k].j_id > 0 => pc \in {"fgwait", "fgdone"} /\ t[k].p_id = local.pid
    <3>1. \A k \in Slots : s[k].j_status = "finished" /\ s[k].j_id > 0 => pc \in {"fgwait", "fgdone"} /\ s[k].p_id = local.pid
      BY <1>8 DEF Tracks, St, Id, Pid
    <3> QED
      BY <1>1, <1>2, <2>3, <3>1, SMTT(30)
  <2>6. \A p \in Pids : proc'[p] \notin {"unborn", "reaped"} =>
          \/ \E k \in Slots : t[k].p_id = p /\ t[k].j_id > 0
          \/ p = local.pid /\ pc \in {"half", "wait"}
    <3> SUFFICES ASSUME NEW p \in Pids, proc'[p] \notin {"unborn", "reaped"}
                 PROVE  \/ \E k \in Slots : t[k].p_id = p /\ t[k].j_id > 0
                        \/ p = local.pid /\ pc \in {"half", "wait"}
      OBVIOUS
    <3>1. proc[p] \notin {"unborn", "reaped"}
      BY <1>3
    <3>2. pc # "forked"
      BY <1>1 DEF Calm, Foreground
    <3>3. \/ \E k \in Slots : s[k].p_id = p /\ s[k].j_id > 0
          \/ p = local.pid /\ pc \in {"half", "wait"}
      BY <1>8, <3>1, <3>2, Zenon DEF Tracks, Id, Pid
    <3> QED
      BY <1>1, <3>3, Zenon
  <2>7. pc = "fgdone" => proc'[local.pid] = "reaped"
    <3> SUFFICES ASSUME pc = "fgdone" PROVE proc'[local.pid] = "reaped"
      OBVIOUS
    <3>1. PICK k \in Slots : s[k].p_id = local.pid
      BY DEF Calm, Foreground, Pid
    <3>2. s[k].j_status # "stopped"
      BY <1>2, <3>1
    <3>3. proc[local.pid] = "reaped"
      BY <1>8, <3>1, <3>2 DEF Tracks, St, Pid
    <3> QED
      BY <1>2, <1>3, <3>3
  <2>8. pc # "prompt" /\ pc # "added"
    BY <1>1 DEF Calm, Foreground
  <2> QED
    BY <1>1, <2>1, <2>2, <2>4, <2>5, <2>6, <2>7, <2>8, Zenon DEF Tracks, St, Id, Pid, Slots, Pids
<1> QED
  BY <1>4, <1>5, <1>6, <1>7, <1>8 DEF Calm

\* ctrl-Z: what the handler finds, and what it does to the process.
LEMMA CtrlZFacts ==
  ASSUME Sound, Calm, ctrlZHandler
  PROVE  /\ for_pid # NoPid /\ for_pid' = NoPid /\ UNCHANGED <<pc, for_cmd, local>>
         /\ for_pid = local.pid /\ for_pid \in Pids
         /\ pc \in {"half", "wait", "waited", "fgwait", "fgdone", "end", "end2"}
         /\ pc # "half" => (InList(for_pid) \/ for_cmd)
         /\ \A p \in Pids \ {for_pid} : proc'[p] = proc[p]
         /\ \A p \in Pids : /\ proc'[p] \in Alive => proc[p] \in Alive
                            /\ proc[p] = "reaped" => proc'[p] = "reaped"
                            /\ proc'[p] \notin {"unborn", "reaped"} => proc[p] \notin {"unborn", "reaped"}
         /\ proc[for_pid] \in Alive => proc'[for_pid] \in Halted
         /\ took' = {} => proc[for_pid] \in Alive
<1>1. for_pid # NoPid /\ for_pid' = NoPid /\ UNCHANGED <<pc, for_cmd, local>>
  BY DEF ctrlZHandler, Step
<1>2. /\ for_pid = local.pid /\ for_pid \in Pids
      /\ pc \in {"half", "wait", "waited", "fgwait", "fgdone", "end", "end2"}
  BY <1>1 DEF Calm, Foreground
<1>3. pc # "half" => (InList(for_pid) \/ for_cmd)
  <2>1. pc \in {"end", "end2"} => \E i \in Slots : jobs.slots[i].p_id = for_pid
    BY <1>1, <1>2, Zenon DEF Calm, Foreground, Pid
  <2>2. pc \in {"wait", "waited", "fgwait", "fgdone"} => for_cmd
    BY DEF Calm, Foreground
  <2> QED
    BY <1>2, <2>1, <2>2 DEF InList, With
<1>4. \A p \in Pids : proc'[p] = IF p = for_pid THEN After(proc[p], "STOP") ELSE proc[p]
  BY Signalled DEF ctrlZHandler, Sound, TypeOK, Signals
<1>5. \A p \in Pids : /\ proc'[p] \in Alive => proc[p] \in Alive
                      /\ proc[p] = "reaped" => proc'[p] = "reaped"
                      /\ proc'[p] \notin {"unborn", "reaped"} => proc[p] \notin {"unborn", "reaped"}
  <2>1. \A p \in Pids : proc[p] \in ProcState
    BY DEF Sound, TypeOK
  <2> QED
    BY <1>4, <2>1, AfterSignal DEF Signals
<1>6. proc[for_pid] \in Alive => proc'[for_pid] \in Halted
  <2>1. proc[for_pid] \in ProcState /\ proc'[for_pid] = After(proc[for_pid], "STOP")
    BY <1>2, <1>4 DEF Sound, TypeOK
  <2> QED
    BY <2>1, AfterSignal
<1>7. took' = {} => proc[for_pid] \in Alive
  BY <1>2, Zenon DEF ctrlZHandler, Step, Path, Late
<1> QED
  BY <1>1, <1>2, <1>3, <1>4, <1>5, <1>6, <1>7

\* ctrl-Z for a process that is in a slot.
LEMMA CtrlZListed ==
  ASSUME Sound, Calm, ctrlZHandler, InList(for_pid)
  PROVE  Calm' /\ (Tracks /\ took' = {} => Tracks')
<1> DEFINE s == jobs.slots
           t == jobs'.slots
           q == for_pid
<1>1. /\ q # NoPid /\ for_pid' = NoPid /\ UNCHANGED <<pc, for_cmd, local>>
      /\ q = local.pid /\ q \in Pids
      /\ pc \in {"half", "wait", "waited", "fgwait", "fgdone", "end", "end2"}
      /\ \A p \in Pids \ {q} : proc'[p] = proc[p]
      /\ \A p \in Pids : /\ proc'[p] \in Alive => proc[p] \in Alive
                         /\ proc[p] = "reaped" => proc'[p] = "reaped"
                         /\ proc'[p] \notin {"unborn", "reaped"} => proc[p] \notin {"unborn", "reaped"}
      /\ proc[q] \in Alive => proc'[q] \in Halted
      /\ took' = {} => proc[q] \in Alive
  BY CtrlZFacts
<1>2. PICK i \in Slots : s[i].p_id = q
  BY DEF InList, With
<1>3. \A k \in Slots \ {i} : s[k].p_id # q
  BY <1>1, <1>2 DEF Sound, PidsDistinct, Pid
<1>4. pc \in {"fgwait", "fgdone", "end", "end2"}
  BY <1>1, <1>2, Zenon DEF Calm, Foreground, Pid
<1>5. /\ \A k \in Slots \ {i} : t[k] = s[k]
      /\ t[i].j_status = "stopped" /\ t[i].j_id = s[i].j_id /\ t[i].p_id = q
      /\ jobs'.stoppedd = jobs.stoppedd \cup {s[i].j_id}
  <2>1. With(jobs, LAMBDA e : e.p_id = for_pid) = {i}
    BY <1>2, <1>3 DEF With
  <2>2. Min({i}) \in {i}
    <3>1. {i} # {} /\ {i} \subseteq Slots
      OBVIOUS
    <3> QED
      BY <3>1, MinExists
  <2>3. jobs' = MarkStopped(jobs, q)
    BY DEF ctrlZHandler
  <2>4. /\ jobs'.slots = Mark(jobs, {Min(With(jobs, LAMBDA e : e.p_id = for_pid))}, "stopped")
        /\ jobs'.stoppedd = jobs.stoppedd \cup {jobs.slots[Min(With(jobs, LAMBDA e : e.p_id = for_pid))].j_id}
    BY <2>3 DEF MarkStopped
  <2>5. jobs'.slots = Mark(jobs, {i}, "stopped") /\ jobs'.stoppedd = jobs.stoppedd \cup {s[i].j_id}
    BY <2>1, <2>2, <2>4, Zenon
  <2> QED
    BY <1>2, <2>5 DEF Mark, Entry
<1>6. Agree(jobs)'
  <2>1. ASSUME NEW x PROVE x \in jobs'.stoppedd <=> \E k \in Slots : t[k].j_status = "stopped" /\ t[k].j_id = x
    <3>1. x \in jobs.stoppedd <=> \E k \in Slots : s[k].j_status = "stopped" /\ s[k].j_id = x
      BY DEF Calm, Agree
    <3> HIDE DEF s, t
    <3>2. CASE x = s[i].j_id
      BY <1>5, <3>2
    <3>3. CASE x # s[i].j_id
      BY <1>5, <3>1, <3>3
    <3> QED
      BY <3>2, <3>3
  <2> QED
    BY <2>1 DEF Agree, Slots
<1>7. Started'
  BY <1>1, <1>5, SMTT(30) DEF Calm, Started, St, Pid, Slots, Pids
<1>8. Foreground'
  <2>1. \A k \in Slots : t[k].j_id = s[k].j_id /\ t[k].p_id = s[k].p_id
    BY <1>2, <1>5
  <2> QED
    BY <1>1, <1>4, <2>1 DEF Calm, Foreground, St, Id, Pid, Slots, Pids
<1>9. Processes'
  <2>1. \A p \in Pids : proc'[p] \in Alive => \E k \in Slots : t[k].p_id = p /\ t[k].j_id > 0 /\ t[k].j_status # "finished"
    <3> SUFFICES ASSUME NEW p \in Pids, proc'[p] \in Alive
                 PROVE  \E k \in Slots : t[k].p_id = p /\ t[k].j_id > 0 /\ t[k].j_status # "finished"
      OBVIOUS
    <3>1. PICK k \in Slots : s[k].p_id = p /\ s[k].j_id > 0 /\ s[k].j_status # "finished"
      BY <1>1, <1>4, Zenon DEF Calm, Processes, St, Id, Pid
    <3> QED
      BY <1>2, <1>5, <3>1, Zenon
  <2>2. \A k \in Slots : t[k].p_id \in Pids /\ (t[k].j_id = 0 \/ t[k].j_status = "finished") => proc'[t[k].p_id] \notin Alive
    BY <1>1, <1>2, <1>5, SMTT(30) DEF Calm, Processes, St, Id, Pid
  <2>3. \A k \in Slots : t[k].p_id = local.pid => t[k].j_status = "stopped"
    BY <1>1, <1>3, <1>5
  <2> QED
    BY <1>1, <1>4, <2>1, <2>2, <2>3, Zenon DEF Processes, St, Id, Pid, Slots, Pids
<1>10. ASSUME Tracks, took' = {} PROVE Tracks'
  <2>1. s[i].j_id > 0
    <3>1. s[i].j_id = 0 => proc[q] = "reaped"
      <4>1. s[i].p_id \in Pids
        BY <1>1, <1>2, Zenon
      <4>2. s[i].j_id = 0 => proc[s[i].p_id] = "reaped"
        BY <1>10, <4>1, Zenon DEF Tracks, Id, Pid
      <4> QED
        BY <1>2, <4>2, Zenon
    <3>2. proc[q] \in Alive /\ s[i].j_id \in Nat
      BY <1>1, <1>10, Zenon DEF Sound, Good
    <3>3. "reaped" \notin Alive
      BY DEF Alive, Halted
    <3>4. s[i].j_id # 0
      BY <3>1, <3>2, <3>3, Zenon
    <3> HIDE DEF s, t, q
    <3> QED
      BY <3>2, <3>4
  <2>2. ASSUME NEW k \in Slots, t[k].j_id > 0, t[k].p_id \in Pids
        PROVE  t[k].j_status = "stopped" <=> proc'[t[k].p_id] \in Halted
    <3>1. CASE k = i
      BY <1>1, <1>5, <1>10, <3>1, Zenon
    <3>2. CASE k # i
      <4>1. t[k] = s[k] /\ s[k].p_id # q
        BY <1>3, <1>5, <3>2, Zenon
      <4>2. proc'[s[k].p_id] = proc[s[k].p_id]
        BY <1>1, <2>2, <4>1, Zenon
      <4>3. s[k].j_id > 0 /\ s[k].p_id \in Pids
        BY <2>2, <4>1, Zenon
      <4>4. s[k].j_status = "stopped" <=> proc[s[k].p_id] \in Halted
        BY <1>10, <4>3, Zenon DEF Tracks, St, Id, Pid
      <4> QED
        BY <4>1, <4>2, <4>4, Zenon
    <3> QED
      BY <3>1, <3>2, Zenon
  <2>3. ASSUME NEW k \in Slots, t[k].j_id = 0, t[k].p_id \in Pids
        PROVE  proc'[t[k].p_id] = "reaped"
    <3>1. t[k].j_id = s[k].j_id /\ t[k].p_id = s[k].p_id
      BY <1>2, <1>5, Zenon
    <3>2. proc[s[k].p_id] = "reaped"
      BY <1>10, <2>3, <3>1, Zenon DEF Tracks, Id, Pid
    <3> QED
      BY <1>1, <2>3, <3>1, <3>2, Zenon
  <2>4. \A k \in Slots : t[k].j_id = 0 /\ t[k].j_status # "empty" => t[k].j_status = "finished" /\ pc \in {"end", "end2", "reap"}
    BY <1>5, <1>10, <2>1 DEF Tracks, St, Id
  <2>5. \A p \in Pids : proc'[p] \notin {"unborn", "reaped"} => \E k \in Slots : t[k].p_id = p /\ t[k].j_id > 0
    <3> SUFFICES ASSUME NEW p \in Pids, proc'[p] \notin {"unborn", "reaped"}
                 PROVE  \E k \in Slots : t[k].p_id = p /\ t[k].j_id > 0
      OBVIOUS
    <3>1. PICK k \in Slots : s[k].p_id = p /\ s[k].j_id > 0
      BY <1>1, <1>4, <1>10, Zenon DEF Tracks, Id, Pid
    <3> QED
      BY <1>2, <1>5, <3>1
  <2>6. \A k \in Slots : t[k].p_id = local.pid => t[k].j_status = "stopped"
    BY <1>1, <1>3, <1>5
  <2>7. \A k \in Slots : t[k].j_status = "finished" /\ t[k].j_id > 0 => pc \in {"fgwait", "fgdone"} /\ t[k].p_id = local.pid
    BY <1>5, <1>10 DEF Tracks, St, Id, Pid
  <2> QED
    BY <1>1, <1>4, <2>2, <2>3, <2>4, <2>5, <2>6, <2>7, Zenon DEF Tracks, St, Id, Pid, Slots, Pids
<1> QED
  BY <1>6, <1>7, <1>8, <1>9, <1>10 DEF Calm

\* ctrl-Z for an external command: its process gets a slot.
LEMMA CtrlZUnlisted ==
  ASSUME Sound, Calm, ctrlZHandler, ~InList(for_pid), for_cmd, Clean'
  PROVE  Calm' /\ (Tracks /\ took' = {} => Tracks')
<1> DEFINE s == jobs.slots
           t == jobs'.slots
           q == for_pid
<1>1. /\ q # NoPid /\ for_pid' = NoPid /\ UNCHANGED <<pc, for_cmd, local>>
      /\ q = local.pid /\ q \in Pids
      /\ pc \in {"half", "wait", "waited", "fgwait", "fgdone", "end", "end2"}
      /\ \A p \in Pids \ {q} : proc'[p] = proc[p]
      /\ \A p \in Pids : /\ proc'[p] \in Alive => proc[p] \in Alive
                         /\ proc[p] = "reaped" => proc'[p] = "reaped"
                         /\ proc'[p] \notin {"unborn", "reaped"} => proc[p] \notin {"unborn", "reaped"}
      /\ proc[q] \in Alive => proc'[q] \in Halted
      /\ took' = {} => proc[q] \in Alive
  BY CtrlZFacts
<1>2. \A k \in Slots : s[k].p_id # q
  BY DEF InList, With
<1>3. pc \in {"half", "wait", "waited"}
  BY <1>1, <1>2 DEF Calm, Foreground, Pid
<1>4. PICK i \in Slots, id \in Nat :
        /\ id > 0 /\ \A k \in Slots : s[k].j_id < id
        /\ Occupied(jobs) # Slots => s[i].j_status = "empty"
        /\ jobs' = [slots |-> Put(s, i, Entry("stopped", id, q)), stoppedd |-> jobs.stoppedd \cup {id}]
  <2>1. jobs' = set_job_pid(AddStopped(jobs), get_max_job_id(AddStopped(jobs)), q)
    BY DEF ctrlZHandler, AddStopped
  <2> QED
    BY <2>1, StopShape, Zenon DEF Sound
<1>5. s[i].j_status = "empty" /\ s[i].j_id = 0
  <2>1. ~IsFull
    BY DEF ctrlZHandler, Step, Path, Clean
  <2> QED
    BY <1>4, <2>1, Zenon DEF IsFull, Sound, Good
<1>6. /\ \A k \in Slots \ {i} : t[k] = s[k]
      /\ t[i].j_status = "stopped" /\ t[i].j_id = id /\ t[i].p_id = q
      /\ jobs'.stoppedd = jobs.stoppedd \cup {id}
  BY <1>4, Zenon DEF Put, Entry
<1>7. Agree(jobs)'
  <2>1. ASSUME NEW x PROVE x \in jobs'.stoppedd <=> \E k \in Slots : t[k].j_status = "stopped" /\ t[k].j_id = x
    <3>1. x \in jobs.stoppedd <=> \E k \in Slots : s[k].j_status = "stopped" /\ s[k].j_id = x
      BY DEF Calm, Agree
    <3> HIDE DEF s, t
    <3>2. CASE x = id
      BY <1>6, <3>2
    <3>3. CASE x # id
      BY <1>5, <1>6, <3>1, <3>3
    <3> QED
      BY <3>2, <3>3
  <2> QED
    BY <2>1 DEF Agree, Slots
<1>8. Started'
  BY <1>1, <1>6 DEF Calm, Started, St, Pid, Slots, Pids
<1>9. Foreground'
  BY <1>1, <1>3, Zenon DEF Calm, Foreground, St, Id, Pid, Slots, Pids
<1>10. Processes'
  <2>1. \A p \in Pids : proc'[p] \in Alive => \E k \in Slots : t[k].p_id = p /\ t[k].j_id > 0 /\ t[k].j_status # "finished"
    <3> SUFFICES ASSUME NEW p \in Pids, proc'[p] \in Alive, p # q
                 PROVE  \E k \in Slots : t[k].p_id = p /\ t[k].j_id > 0 /\ t[k].j_status # "finished"
      BY <1>4, <1>6, Zenon
    <3>1. PICK k \in Slots : s[k].p_id = p /\ s[k].j_id > 0 /\ s[k].j_status # "finished"
      BY <1>1, Zenon DEF Calm, Processes, St, Id, Pid
    <3> QED
      BY <1>5, <1>6, <3>1
  <2>2. ASSUME NEW k \in Slots, t[k].p_id \in Pids, t[k].j_id = 0 \/ t[k].j_status = "finished"
        PROVE  proc'[t[k].p_id] \notin Alive
    <3>1. k # i /\ t[k] = s[k]
      <4>1. t[i].j_id # 0 /\ t[i].j_status # "finished"
        BY <1>4, <1>6
      <4> QED
        BY <1>6, <2>2, <4>1, Zenon
    <3>2. proc[s[k].p_id] \notin Alive
      BY <2>2, <3>1, Zenon DEF Calm, Processes, St, Id, Pid
    <3> QED
      BY <1>1, <2>2, <3>1, <3>2, Zenon
  <2> QED
    BY <1>1, <1>3, <2>1, <2>2, Zenon DEF Processes, St, Id, Pid, Slots, Pids
<1>11. ASSUME Tracks, took' = {} PROVE Tracks'
  <2>1. ASSUME NEW k \in Slots, t[k].j_id > 0, t[k].p_id \in Pids
        PROVE  t[k].j_status = "stopped" <=> proc'[t[k].p_id] \in Halted
    <3>1. CASE k = i
      BY <1>1, <1>6, <1>11, <3>1, Zenon
    <3>2. CASE k # i
      <4>1. t[k] = s[k] /\ s[k].p_id # q
        BY <1>2, <1>6, <3>2, Zenon
      <4>2. proc'[s[k].p_id] = proc[s[k].p_id]
        BY <1>1, <2>1, <4>1, Zenon
      <4>3. s[k].j_id > 0 /\ s[k].p_id \in Pids
        BY <2>1, <4>1, Zenon
      <4>4. s[k].j_status = "stopped" <=> proc[s[k].p_id] \in Halted
        BY <1>11, <4>3, Zenon DEF Tracks, St, Id, Pid
      <4> QED
        BY <4>1, <4>2, <4>4, Zenon
    <3> QED
      BY <3>1, <3>2, Zenon
  <2>2. ASSUME NEW k \in Slots, t[k].j_id = 0, t[k].p_id \in Pids
        PROVE  proc'[t[k].p_id] = "reaped"
    <3>1. t[k] = s[k]
      <4>1. t[i].j_id # 0
        BY <1>4, <1>6
      <4> QED
        BY <1>6, <2>2, <4>1, Zenon
    <3>2. proc[s[k].p_id] = "reaped"
      BY <1>11, <2>2, <3>1, Zenon DEF Tracks, Id, Pid
    <3> QED
      BY <1>1, <2>2, <3>1, <3>2, Zenon
  <2>3. \A k \in Slots : t[k].j_id = 0 => t[k].j_status = "empty"
    <3>1. \A k \in Slots : s[k].j_id = 0 => s[k].j_status = "empty"
      BY <1>3, <1>11, Zenon DEF Tracks, St, Id
    <3> QED
      BY <1>4, <1>6, <3>1
  <2>4. \A p \in Pids : proc'[p] \notin {"unborn", "reaped"} => \E k \in Slots : t[k].p_id = p /\ t[k].j_id > 0
    <3> SUFFICES ASSUME NEW p \in Pids, proc'[p] \notin {"unborn", "reaped"}, p # q
                 PROVE  \E k \in Slots : t[k].p_id = p /\ t[k].j_id > 0
      BY <1>4, <1>6
    <3>1. PICK k \in Slots : s[k].p_id = p /\ s[k].j_id > 0
      BY <1>1, <1>11, Zenon DEF Tracks, Id, Pid
    <3> QED
      BY <1>5, <1>6, <3>1, SMTT(30)
  <2>5. \A k \in Slots : t[k].j_id > 0 => t[k].j_status # "finished"
    <3>1. \A k \in Slots : s[k].j_id > 0 => s[k].j_status # "finished"
      BY <1>3, <1>11, Zenon DEF Tracks, St, Id
    <3> QED
      BY <1>6, <3>1
  <2> QED
    BY <1>1, <1>3, <2>1, <2>2, <2>3, <2>4, <2>5, Zenon DEF Tracks, St, Id, Pid, Slots, Pids
<1> QED
  BY <1>7, <1>8, <1>9, <1>10, <1>11 DEF Calm

\* A line about jobs, when the shell goes on.
LEMMA TypedCalm ==
  ASSUME Sound, Calm, NEW l \in Lines, Typed(l), shell = "up", shell' = "up", Clean'
  PROVE  Calm' /\ (Tracks /\ took' = {} => Tracks')
<1> DEFINE ids == {jobs.slots[i].j_id : i \in Slots}
           o == Outcome(l, ids)
<1>1. /\ o.do \in {"fg", "bg", "kill"} => o.id \in ids /\ o.id \in Nat /\ o.id > 0
      /\ o.do = "kill" => Signal[o.sig] \in Signals
  BY Outcomes, Zenon
<1>2. Obeys(o)
  BY Zenon DEF Typed
<1> HIDE DEF o
<1>3. CASE ForkFails("prompt")
  BY <1>3, LocalCalm DEF ForkFails
<1>4. ASSUME NEW id \in ids, id > 0, Resume(id)
      PROVE  Calm' /\ (Tracks => Tracks')
  <2>1. PICK i \in Slots : jobs.slots[i].j_id = id
    OBVIOUS
  <2>2. PidOf(id) = jobs.slots[i].p_id
    BY <1>4, <2>1, Found DEF PidOf, Sound
  <2>3. /\ jobs' = send_SIG_TO_JOB(jobs, id, "CONT") /\ proc' = kill(proc, PidOf(id), "CONT")
        /\ pc = "prompt" /\ pc' = "fgset" /\ UNCHANGED <<for_pid, for_cmd>>
        /\ local'.job_id = id /\ local'.pid = PidOf(id)
    BY <1>4, Zenon DEF Resume, Step
  <2> QED
    BY <1>4, <2>1, <2>2, <2>3, SignalCalm, Zenon DEF Signals
<1>5. ASSUME NEW id \in ids, id > 0, NEW sig \in Signals, Background(id) \/ Kill(id, sig)
      PROVE  Calm' /\ (Tracks /\ took' = {} => Tracks')
  <2>1. PICK i \in Slots : jobs.slots[i].j_id = id
    OBVIOUS
  <2>2. PidOf(id) = jobs.slots[i].p_id
    BY <1>5, <2>1, Found DEF PidOf, Sound
  <2>3. CASE Background(id)
    <3>1. /\ jobs' = send_SIG_TO_JOB(jobs, id, "CONT") /\ proc' = kill(proc, PidOf(id), "CONT")
          /\ pc = "prompt" /\ pc' = "end" /\ UNCHANGED <<for_pid, for_cmd, local>>
      BY <2>3, Zenon DEF Background, Step
    <3> QED
      BY <1>5, <2>1, <3>1, SignalCalm, Zenon DEF Signals
  <2>4. CASE Kill(id, sig)
    <3>1. /\ jobs' = send_SIG_TO_JOB(jobs, id, sig) /\ proc' = kill(proc, PidOf(id), sig)
          /\ pc = "prompt" /\ pc' = "end" /\ UNCHANGED <<for_pid, for_cmd, local>>
      BY <2>4, Zenon DEF Kill, Step
    <3>2. took' = {} => sig # "KILL" /\ (sig = "STOP" => ~Late(jobs.slots[i].p_id))
      BY <2>2, <2>4 DEF Kill, Step, Path
    <3> QED
      BY <1>5, <2>1, <3>1, <3>2, SignalCalm, Zenon
  <2> QED
    BY <1>5, <2>3, <2>4
<1>6. CASE ForegroundLast
  <2> DEFINE id == get_max_job_id(jobs)
  <2>1. id \in ids /\ id \in Nat
    BY <1>6, LastSlot DEF ForegroundLast
  <2>2. Resume(id) /\ id # 0
    BY <1>6 DEF ForegroundLast, Resume, Step, Path, Clean
  <2> HIDE DEF id
  <2> QED
    BY <1>4, <2>1, <2>2
<1>7. CASE BackgroundLast
  <2> DEFINE id == getLastStoppedJob(jobs)
  <2>1. /\ id > 0 /\ getJobById(jobs, id) # 0
        /\ jobs' = send_SIG_TO_JOB(jobs, id, "CONT") /\ proc' = kill(proc, PidOf(id), "CONT")
        /\ pc = "prompt" /\ pc' = "end" /\ UNCHANGED <<for_pid, for_cmd, local>>
    BY <1>7 DEF BackgroundLast, Step
  <2> HIDE DEF id
  <2>2. PICK i \in Slots : jobs.slots[i].j_id = id
    BY <2>1, Zenon DEF getJobById, Named, With
  <2> QED
    BY <2>1, <2>2, SignalCalm, Zenon DEF Signals
<1>8. CASE Abort \/ Quit \/ QuitKill
  BY <1>8 DEF Abort, Quit, QuitKill
<1> QED
  BY <1>1, <1>2, <1>3, <1>4, <1>5, <1>6, <1>7, <1>8, Zenon DEF Obeys, Signals

\* Every step that leaves the shell up and takes none of the paths in question.
LEMMA CalmInductive ==
  ASSUME Sound, Calm, [Next]_vars, shell = "up", shell' = "up", Clean'
  PROVE  Calm' /\ (Tracks /\ took' = {} => Tracks')
<1>1. CASE Command
  <2>1. CASE ForkFails("prompt")
    BY <2>1, LocalCalm DEF ForkFails
  <2>2. CASE JobsCommand
    BY <2>2, CollectCalm DEF JobsCommand, Step
  <2> QED
    BY <1>1, <2>1, <2>2, ForkCalm, AddCalm, TypedCalm DEF Command
<1>2. CASE Continue
  <2>1. CASE SetForPid \/ SetForCmd \/ ClearForeground \/ ForkFails("added") \/ ForegroundSet \/ ResetCmd \/ ResetPid
    <3>1. UNCHANGED <<jobs, proc>>
      BY <2>1 DEF SetForPid, SetForCmd, ClearForeground, ForkFails, ForegroundSet, ResetCmd, ResetPid
    <3> QED
      BY <2>1, <3>1, LocalCalm
  <2>2. CASE Reap
    BY <2>2, CollectCalm DEF Reap, Step
  <2> QED
    BY <1>2, <2>1, <2>2, ForkBackgroundCalm, WaitCalm, ForegroundDoneCalm DEF Continue
<1>3. CASE ctrlZHandler
  <2>1. CASE InList(for_pid)
    BY <1>3, <2>1, CtrlZListed
  <2>2. CASE ~InList(for_pid)
    <3>1. for_cmd
      BY <1>3, <2>2, Zenon DEF ctrlZHandler
    <3> QED
      BY <1>3, <2>2, <3>1, CtrlZUnlisted
  <2> QED
    BY <2>1, <2>2
<1>4. CASE UNCHANGED vars
  <2>1. Agree(jobs)' /\ Started'
    BY <1>4 DEF vars, Calm, Agree, Started, St, Pid, Slots, Pids
  <2>2. Foreground' /\ Processes'
    BY <1>4, Zenon DEF vars, Calm, Foreground, Processes, St, Id, Pid, Slots, Pids
  <2>3. Tracks => Tracks'
    BY <1>4, Zenon DEF vars, Tracks, St, Id, Pid, Slots, Pids
  <2> QED
    BY <2>1, <2>2, <2>3 DEF Calm
<1> QED
  BY <1>1, <1>2, <1>3, <1>4, CtrlCCalm, ExitCalm DEF Next

-----------------------------------------------------------------------------
(* The theorems.                                                           *)

\* The inductive invariant.  A shell that has ended is left with what it did.
JobsInv ==
  /\ Sound
  /\ shell = "up" /\ Clean => Calm
  /\ shell = "up" /\ took = {} => Tracks
  /\ Clean => QuitKillsAll
  /\ Clean /\ "early" \notin took => NoCrash

\* The stopped job with the largest id is on the list.
LEMMA LastStoppedFound ==
  ASSUME Sound, Calm, getLastStoppedJob(jobs) > 0
  PROVE  getJobById(jobs, getLastStoppedJob(jobs)) # 0
<1> DEFINE id == getLastStoppedJob(jobs)
           S == jobs.stoppedd
           I == {k \in Slots : jobs.slots[k].j_status = "stopped"}
           f == [k \in Slots |-> jobs.slots[k].j_id]
<1>1. \A x : x \in S <=> \E k \in I : jobs.slots[k].j_id = x
  BY DEF Calm, Agree
<1>2. \A k \in 1 .. JobsMaxAmount : f[k] \in Nat
  BY DEF Slots, Sound, Good
<1>3. id \in {0} \cup S
  <2> DEFINE Z == {0} \cup S
  <2>1. \A x \in Z : x = 0 \/ \E k \in 1 .. JobsMaxAmount : x = f[k]
    BY <1>1 DEF Slots
  <2>2. 0 \in Z /\ id = Max(Z)
    BY DEF getLastStoppedJob
  <2> HIDE DEF Z, f, id
  <2>3. Max(Z) \in Z
    BY <1>2, <2>1, <2>2, FamilyMax, JobsAssumption
  <2> QED
    BY <2>2, <2>3, Zenon DEF Z
<1>4. PICK k \in Slots : jobs.slots[k].j_id = id
  BY <1>1, <1>3
<1>5. id \in Nat /\ id \in {jobs.slots[i].j_id : i \in Slots}
  BY <1>4 DEF Sound, Good
<1> HIDE DEF id
<1>6. getJobById(jobs, id) \in Slots
  BY <1>5, NamedSlot
<1> QED
  BY <1>6 DEF Slots, id

\* At the prompt every process that may run on is a job that killAllJobs() kills.
LEMMA QuitKillDone ==
  ASSUME Sound, Calm, QuitKill
  PROVE  QuitKillsAll'
<1> DEFINE pids == {jobs.slots[i].p_id : i \in {k \in Occupied(jobs) : jobs.slots[k].j_status # "finished"}}
<1>1. pc = "prompt" /\ proc' = [p \in Pids |-> IF p \in pids THEN After(proc[p], "KILL") ELSE proc[p]]
  BY DEF QuitKill, Step, killAllJobs
<1>2. \A p \in Pids : proc[p] \in Alive => p \in pids
  <2> SUFFICES ASSUME NEW p \in Pids, proc[p] \in Alive
               PROVE  p \in pids
    OBVIOUS
  <2>1. PICK k \in Slots : /\ jobs.slots[k].p_id = p /\ jobs.slots[k].j_id > 0
                           /\ jobs.slots[k].j_status # "finished"
    BY <1>1, Zenon DEF Calm, Processes, St, Id, Pid
  <2>2. k \in Occupied(jobs)
    BY <2>1 DEF Occupied, Sound, Good
  <2> QED
    BY <2>1, <2>2
<1> HIDE DEF pids
<1>3. \A p \in Pids : proc'[p] \notin Alive
  <2>1. \A p \in Pids : proc[p] \in ProcState
    BY DEF Sound, TypeOK
  <2> QED
    BY <1>1, <1>2, <2>1, AfterSignal
<1> QED
  BY <1>3 DEF QuitKillsAll, Pids

\* What a step may do to the shell.
LEMMA ShellStep ==
  ASSUME [Next]_vars
  PROVE  /\ took \subseteq took'
         /\ shell # "up" => /\ shell' = shell
                            /\ \/ UNCHANGED proc
                               \/ \E p \in Pids : proc' = [proc EXCEPT ![p] = "zombie"]
         /\ shell = "up" => \/ shell' \in {"up", "quit", "aborted"}
                            \/ QuitKill
                            \/ BackgroundLast /\ shell' = "crashed"
                            \/ ctrlZHandler /\ shell' = "crashed"
<1>1. CASE Command
  <2>1. ASSUME NEW l \in Lines, NEW o, Obeys(o)
        PROVE  /\ shell = "up" /\ took \subseteq took'
               /\ shell' \in {"up", "quit", "aborted"} \/ QuitKill \/ (BackgroundLast /\ shell' = "crashed")
    <3>1. CASE QuitKill
      BY <3>1 DEF QuitKill, Step
    <3>2. CASE BackgroundLast
      BY <3>2 DEF BackgroundLast, Step
    <3>3. CASE Abort \/ Quit \/ ForkFails("prompt")
      BY <3>3 DEF Abort, Quit, ForkFails, Step
    <3>4. CASE Background(o.id)
      BY <3>4 DEF Background, Step
    <3>5. CASE Kill(o.id, Signal[o.sig])
      BY <3>5, Zenon DEF Kill, Step
    <3>6. CASE Resume(o.id) \/ ForegroundLast
      BY <3>6, Zenon DEF Resume, ForegroundLast, Step
    <3> QED
      BY <2>1, <3>1, <3>2, <3>3, <3>4, <3>5, <3>6 DEF Obeys
  <2>2. CASE Fork \/ ForkFails("prompt") \/ AddBackground \/ JobsCommand
    BY <2>2, Zenon DEF Fork, ForkFails, AddBackground, JobsCommand, Step
  <2> QED
    BY <1>1, <2>1, <2>2, Zenon DEF Command, Typed
<1>2. CASE Continue
  BY <1>2, Zenon DEF Continue, SetForPid, SetForCmd, Wait, ClearForeground, ForkBackground, ForkFails, ForegroundSet,
              ForegroundDone, ResetCmd, ResetPid, Reap, Step
<1>3. CASE ctrlZHandler
  BY <1>3, Zenon DEF ctrlZHandler, Step
<1>4. CASE ctrlCHandler
  BY <1>4 DEF ctrlCHandler, Step
<1>5. ASSUME NEW p \in Pids, Exit(p)
      PROVE  UNCHANGED <<shell, took>> /\ proc' = [proc EXCEPT ![p] = "zombie"]
  BY <1>5 DEF Exit
<1>6. CASE UNCHANGED vars
  BY <1>6 DEF vars
<1> QED
  BY <1>1, <1>2, <1>3, <1>4, <1>5, <1>6 DEF Next

\* An empty list, no process and the prompt.
LEMMA JobsInvInit ==
  ASSUME Init
  PROVE  JobsInv
<1>1. Sound
  <2>1. jobs.slots \in SlotsType
    BY JobsAssumption DEF Init, SlotsType, Entry, Status
  <2>2. TypeOK
    <3>1. local \in [job_id : Nat, pid : 0..MaxProc]
      BY JobsAssumption DEF Init
    <3>2. jobs.stoppedd \subseteq Nat /\ proc \in [Pids -> ProcState]
      BY DEF Init, ProcState
    <3> QED
      BY <2>1, <3>1, <3>2, Zenon DEF Init, TypeOK, SlotsType
  <2>3. \A i \in Slots : St(i) = "empty" /\ Id(i) = 0 /\ Pid(i) = 0
    BY DEF Init, St, Id, Pid, Entry
  <2>4. Good(jobs.slots) /\ PidsDistinct /\ Born
    <3>1. 0 \notin Pids /\ NoPid \notin Pids
      BY JobsAssumption DEF Pids, NoPid
    <3>2. Good(jobs.slots)
      BY <2>3 DEF Good, St, Id
    <3>3. PidsDistinct
      BY <2>3, <3>1 DEF PidsDistinct
    <3>4. Born
      BY <2>3, <3>1, SMTT(30) DEF Init, Born
    <3> QED
      BY <3>2, <3>3, <3>4
  <2> QED
    BY <2>2, <2>4 DEF Sound
<1>2. Calm /\ Tracks
  <2>1. \A i \in Slots : St(i) = "empty" /\ Id(i) = 0 /\ Pid(i) \notin Pids
    BY JobsAssumption DEF Init, St, Id, Pid, Entry, Pids
  <2>2. Agree(jobs)
    BY <2>1 DEF Init, Agree, St
  <2>3. for_pid = NoPid /\ pc = "prompt" /\ \A p \in Pids : proc[p] = "unborn"
    BY DEF Init
  <2> QED
    BY <2>1, <2>2, <2>3 DEF Calm, Foreground, Started, Processes, Tracks, Alive, Halted
<1> QED
  BY <1>1, <1>2 DEF JobsInv, Init, QuitKillsAll, NoCrash

\* Every command, handler and end of a process keeps the invariant.
LEMMA JobsInvInductive ==
  ASSUME JobsInv, [Next]_vars
  PROVE  JobsInv'
<1>1. Sound'
  BY SoundInductive DEF JobsInv
<1>2. took \subseteq took' /\ (Clean' => Clean) /\ (shell' = "up" => shell = "up")
  <2>1. took \subseteq took' /\ (shell' = "up" => shell = "up")
    BY ShellStep
  <2> QED
    BY <2>1 DEF Clean
<1>3. shell' = "up" /\ Clean' => Calm'
  BY <1>2, CalmInductive DEF JobsInv
<1>4. shell' = "up" /\ took' = {} => Tracks'
  <2>1. took' = {} => Clean' /\ Clean /\ took = {}
    BY <1>2 DEF Clean
  <2> QED
    BY <1>2, <2>1, CalmInductive DEF JobsInv
<1>5. Clean' => QuitKillsAll'
  <2> SUFFICES ASSUME Clean', shell' = "quit_kill"
               PROVE  QuitKillsAll'
    BY DEF QuitKillsAll
  <2>1. CASE shell = "up"
    <3>1. QuitKill
      BY <2>1, ShellStep
    <3> QED
      BY <1>2, <2>1, <3>1, QuitKillDone DEF JobsInv
  <2>2. CASE shell # "up"
    <3>1. /\ shell' = shell
          /\ UNCHANGED proc \/ \E p \in Pids : proc' = [proc EXCEPT ![p] = "zombie"]
      BY <2>2, ShellStep
    <3>2. \A p \in Pids : proc[p] \notin Alive
      BY <1>2, <3>1 DEF JobsInv, QuitKillsAll
    <3>3. \A p \in Pids : proc'[p] \notin Alive
      BY <3>1, <3>2 DEF JobsInv, Sound, TypeOK, Alive, Halted
    <3> QED
      BY <3>3 DEF QuitKillsAll, Pids
  <2> QED
    BY <2>1, <2>2
<1>6. Clean' /\ "early" \notin took' => NoCrash'
  <2> SUFFICES ASSUME Clean', "early" \notin took', shell' = "crashed"
               PROVE  FALSE
    BY DEF NoCrash
  <2>1. shell = "up"
    BY <1>2, ShellStep DEF JobsInv, NoCrash
  <2>2. Calm /\ Sound
    BY <1>2, <2>1 DEF JobsInv
  <2>3. CASE BackgroundLast
    <3>1. getLastStoppedJob(jobs) > 0
      BY <2>3 DEF BackgroundLast
    <3>2. getJobById(jobs, getLastStoppedJob(jobs)) # 0
      BY <2>2, <3>1, LastStoppedFound
    <3> QED
      BY <2>1, <2>3, <3>2 DEF BackgroundLast
  <2>4. CASE ctrlZHandler
    <3>1. pc # "half"
      BY <2>4 DEF ctrlZHandler, Step, Path
    <3>2. InList(for_pid) \/ for_cmd
      BY <2>2, <2>4, <3>1, CtrlZFacts
    <3> QED
      BY <2>1, <2>4, <3>2 DEF ctrlZHandler
  <2>5. ~QuitKill /\ shell' \notin {"up", "quit", "aborted"}
    BY DEF QuitKill
  <2> QED
    BY <2>1, <2>3, <2>4, <2>5, ShellStep
<1> QED
  BY <1>1, <1>3, <1>4, <1>5, <1>6 DEF JobsInv

\* The jobs list and the processes: in a state that no path of took has led to,
\* every child that was not waited for is in exactly one occupied slot at the
\* prompt, and marked stopped if and only if it is.  On every path the state of
\* the shell keeps its type.
THEOREM JobsTrackedHolds == Spec => []JobsTracked
<1>1. ASSUME JobsInv PROVE JobsTracked
  <2> SUFFICES ASSUME took = {}, shell = "up", pc = "prompt"
               PROVE  /\ \A p \in Pids : proc[p] \notin {"unborn", "reaped"} =>
                           \E i \in Slots : {k \in Occupied(jobs) : jobs.slots[k].p_id = p} = {i}
                      /\ \A i \in Occupied(jobs) :
                           /\ jobs.slots[i].p_id \in Pids
                           /\ proc[jobs.slots[i].p_id] \notin {"unborn", "reaped"}
                           /\ jobs.slots[i].j_status = "stopped" <=> proc[jobs.slots[i].p_id] \in Halted
    BY <1>1 DEF JobsTracked, JobsTrackProcesses, JobsInv, Sound
  <2>1. Sound /\ Calm /\ Tracks
    BY <1>1 DEF JobsInv, Clean
  <2>2. ASSUME NEW p \in Pids, proc[p] \notin {"unborn", "reaped"}
        PROVE  \E i \in Slots : {k \in Occupied(jobs) : jobs.slots[k].p_id = p} = {i}
    <3>1. PICK k \in Slots : jobs.slots[k].p_id = p /\ jobs.slots[k].j_id > 0
      BY <2>1, <2>2, Zenon DEF Tracks, Id, Pid
    <3>2. {i \in Occupied(jobs) : jobs.slots[i].p_id = p} = {k}
      BY <2>1, <3>1 DEF Sound, PidsDistinct, Good, Occupied, Pid
    <3> QED
      BY <3>1, <3>2
  <2>3. ASSUME NEW i \in Occupied(jobs)
        PROVE  /\ jobs.slots[i].p_id \in Pids
               /\ proc[jobs.slots[i].p_id] \notin {"unborn", "reaped"}
               /\ jobs.slots[i].j_status = "stopped" <=> proc[jobs.slots[i].p_id] \in Halted
    <3>1. i \in Slots /\ jobs.slots[i].j_id > 0
      BY <2>1, <2>3 DEF Occupied, Tracks, Sound, Good, St, Id
    <3> QED
      BY <2>1, <3>1, Zenon DEF Tracks, Sound, Born, St, Id, Pid
  <2> QED
    BY <2>2, <2>3
<1> QED
  BY <1>1, JobsInvInit, JobsInvInductive, PTL DEF Spec

\* stoppedd holds the ids of the stopped jobs, as long as no job was put into a
\* slot in use and fg did not take a job of id 0.
THEOREM StoppedAgreesHolds == Spec => [](Clean => StoppedAgrees)
<1>1. ASSUME JobsInv, Clean PROVE StoppedAgrees
  <2> SUFFICES ASSUME shell = "up"
               PROVE  jobs.stoppedd = {jobs.slots[i].j_id : i \in With(jobs, LAMBDA e : e.j_status = "stopped")}
    BY Zenon DEF StoppedAgrees
  <2>1. Agree(jobs)
    BY <1>1 DEF JobsInv, Calm
  <2>2. With(jobs, LAMBDA e : e.j_status = "stopped") = {i \in Slots : jobs.slots[i].j_status = "stopped"}
    BY DEF With
  <2> DEFINE S == {jobs.slots[i].j_id : i \in {k \in Slots : jobs.slots[k].j_status = "stopped"}}
  <2>3. ASSUME NEW x PROVE x \in jobs.stoppedd <=> x \in S
    BY <2>1, Zenon DEF Agree
  <2>4. jobs.stoppedd = S
    <3> HIDE DEF S
    <3> QED
      BY <2>3
  <2> QED
    BY <2>2, <2>4, Zenon
<1> QED
  BY <1>1, JobsInvInit, JobsInvInductive, PTL DEF Spec

\* Under the same condition "quit kill" leaves no child running or stopped.
THEOREM QuitKillsAllHolds == Spec => [](Clean => QuitKillsAll)
<1>1. JobsInv => (Clean => QuitKillsAll)
  BY DEF JobsInv
<1> QED
  BY <1>1, JobsInvInit, JobsInvInductive, PTL DEF Spec

\* ... and, if moreover ctrl-Z never came between the assignments of for_pid and
\* for_cmd, no command and no handler follows a null pointer.
THEOREM NoCrashHolds == Spec => [](Clean /\ "early" \notin took => NoCrash)
<1>1. JobsInv => (Clean /\ "early" \notin took => NoCrash)
  BY DEF JobsInv
<1> QED
  BY <1>1, JobsInvInit, JobsInvInductive, PTL DEF Spec
=============================================================================
