----------------------------- MODULE JobsProofs -----------------------------
(***************************************************************************)
(* Job control, for every size of the jobs list, every number of processes *)
(* and every set of lines: ids are distinct, and Sound, from which         *)
(* TrackProofs goes on, is kept by every step.                             *)
(*                                                                         *)
(* JobIdsDistinct alone is not inductive: a handler marks any slot that    *)
(* holds a pid, a removed one too, and addJob() reckons with the ids of    *)
(* occupied slots only.  Good adds that an empty slot has id 0.            *)
(*                                                                         *)
(* Sound holds on every path: types, a process is in at most one slot, and *)
(* a pid that is held was given out.                                       *)
(***************************************************************************)
EXTENDS Jobs, TLAPS, WellFoundedInduction

(* Induction over numbers, with a set in place of a predicate, and maxima. *)

\* A set of natural numbers that is not empty has a least element.
LEMMA LeastNat ==
  ASSUME NEW S, S \subseteq Nat, S # {}
  PROVE  \E x \in S : \A y \in S : x =< y
<1>1. PICK x \in S : \A y \in S : <<y, x>> \notin OpToRel(<, Nat)
  BY NatLessThanWellFounded, WFMin, Zenon
<1>2. ASSUME NEW y \in S PROVE x =< y
  <2>1. x \in Nat /\ y \in Nat
    OBVIOUS
  <2>2. ~(y < x)
    BY <1>1, <2>1, Zenon DEF OpToRel
  <2> QED
    BY <2>1, <2>2
<1> QED
  BY <1>2

\* A set that has 0, and the successor of each number in it, has every number.
LEMMA NatSetInduction ==
  ASSUME NEW S, 0 \in S, \A n \in Nat : n \in S => n + 1 \in S
  PROVE  Nat \subseteq S
<1> DEFINE F == Nat \ S
<1> SUFFICES ASSUME F # {} PROVE FALSE
  OBVIOUS
<1>1. PICK m \in F : \A y \in F : m =< y
  <2>1. F \subseteq Nat
    OBVIOUS
  <2> HIDE DEF F
  <2> QED
    BY <2>1, LeastNat, Zenon
<1>2. m # 0 /\ m - 1 \in Nat /\ ~(m =< m - 1)
  OBVIOUS
<1>3. m - 1 \in S
  BY <1>1, <1>2
<1>4. (m - 1) + 1 = m
  OBVIOUS
<1> QED
  BY <1>2, <1>3, <1>4

\* A set of natural numbers with an upper bound has a maximum: the least of the
\* distances to the bound is its own.
LEMMA MaxBounded ==
  ASSUME NEW S, S \subseteq Nat, S # {}, NEW b \in Nat, \A y \in S : y =< b
  PROVE  Max(S) \in S /\ \A y \in S : Max(S) >= y
<1> DEFINE T == {b - x : x \in S}
<1>1. T \subseteq Nat /\ T # {}
  <2>1. \A x \in S : b - x \in Nat
    OBVIOUS
  <2> QED
    BY <2>1, Zenon
<1>2. PICK m \in T : \A y \in T : m =< y
  <2> HIDE DEF T
  <2> QED
    BY <1>1, LeastNat, Zenon
<1>3. PICK x \in S : m = b - x
  OBVIOUS
<1>4. ASSUME NEW y \in S PROVE x >= y
  <2>1. b - y \in T /\ x \in Nat /\ y \in Nat
    OBVIOUS
  <2>2. m =< b - y
    BY <1>2, <2>1
  <2> QED
    BY <1>3, <2>1, <2>2
<1> QED
  BY <1>4, Zenon DEF Max

\* The numbers a function gives to 1, ..., n have an upper bound.
LEMMA FamilyBounded ==
  ASSUME NEW f, NEW n \in Nat, \A i \in 1 .. n : f[i] \in Nat
  PROVE  \E b \in Nat : \A i \in 1 .. n : f[i] =< b
<1> DEFINE S == {k \in Nat : k =< n => \E b \in Nat : \A i \in 1 .. k : f[i] =< b}
<1>1. 0 \in S
  OBVIOUS
<1>2. ASSUME NEW k \in Nat, k \in S PROVE k + 1 \in S
  <2> SUFFICES ASSUME k + 1 =< n PROVE \E b \in Nat : \A i \in 1 .. k + 1 : f[i] =< b
    OBVIOUS
  <2>1. PICK b \in Nat : \A i \in 1 .. k : f[i] =< b
    BY <1>2
  <2> DEFINE c == b + f[k + 1]
  <2>2. f[k + 1] \in Nat
    OBVIOUS
  <2>3. c \in Nat /\ f[k + 1] =< c /\ b =< c
    BY <2>2
  <2>4. ASSUME NEW i \in 1 .. k + 1 PROVE f[i] =< c
    <3>1. CASE i = k + 1
      BY <2>3, <3>1
    <3>2. CASE i # k + 1
      <4>1. i \in 1 .. k /\ i \in 1 .. n
        BY <3>2
      <4>2. f[i] \in Nat /\ f[i] =< b
        BY <2>1, <4>1
      <4> HIDE DEF c
      <4> QED
        BY <2>3, <4>2
    <3> QED
      BY <3>1, <3>2
  <2> QED
    BY <2>3, <2>4
<1>3. n \in S
  <2> HIDE DEF S
  <2> QED
    BY <1>1, <1>2, NatSetInduction
<1> QED
  BY <1>3

\* ... and the set of 0 and the numbers it gives to some of 1, ..., n has a maximum.
LEMMA FamilyMax ==
  ASSUME NEW S, NEW f, NEW n \in Nat, \A i \in 1 .. n : f[i] \in Nat,
         0 \in S, \A x \in S : x = 0 \/ \E i \in 1 .. n : x = f[i]
  PROVE  S \subseteq Nat /\ Max(S) \in S /\ \A y \in S : Max(S) >= y
<1>1. PICK b \in Nat : \A i \in 1 .. n : f[i] =< b
  BY FamilyBounded, Zenon
<1>2. S \subseteq Nat
  OBVIOUS
<1>3. \A y \in S : y =< b
  BY <1>1
<1> QED
  BY <1>2, <1>3, MaxBounded, Zenon

-----------------------------------------------------------------------------

\* Slots s, of which the empty ones have id 0 and no two have the same other id.
Good(s) ==
  /\ \A i \in Slots : s[i].j_id \in Nat
  /\ \A i \in Slots : s[i].j_status = "empty" => s[i].j_id = 0
  /\ \A i, k \in Slots : i # k /\ s[i].j_id > 0 => s[i].j_id # s[k].j_id

-----------------------------------------------------------------------------

\* get_max_job_id() is at least the id of every occupied slot.
LEMMA MaxJobId ==
  ASSUME NEW j, \A i \in Slots : j.slots[i].j_id \in Nat
  PROVE  /\ get_max_job_id(j) \in Nat
         /\ \A i \in Occupied(j) : get_max_job_id(j) >= j.slots[i].j_id
<1> DEFINE S == {0} \cup {j.slots[i].j_id : i \in Occupied(j)}
           f == [i \in Slots |-> j.slots[i].j_id]
<1>1. \A i \in 1 .. JobsMaxAmount : f[i] \in Nat
  BY DEF Slots
<1>2. \A x \in S : x = 0 \/ \E i \in 1 .. JobsMaxAmount : x = f[i]
  BY DEF Slots, Occupied
<1>3. \A i \in Occupied(j) : j.slots[i].j_id \in S
  OBVIOUS
<1>4. 0 \in S /\ get_max_job_id(j) = Max(S)
  BY DEF get_max_job_id
<1> HIDE DEF S, f
<1>5. S \subseteq Nat /\ Max(S) \in S /\ \A y \in S : Max(S) >= y
  BY <1>1, <1>2, <1>4, FamilyMax, JobsAssumption, Zenon
<1> QED
  BY <1>3, <1>4, <1>5, Zenon

\* ... and is the largest id, if one slot has a larger id than all others.
LEMMA MaxIs ==
  ASSUME NEW j, Good(j.slots), NEW i \in Slots, j.slots[i].j_id > 0,
         \A k \in Slots \ {i} : j.slots[k].j_id < j.slots[i].j_id
  PROVE  get_max_job_id(j) = j.slots[i].j_id
<1> DEFINE S == {0} \cup {j.slots[k].j_id : k \in Occupied(j)}
<1>1. get_max_job_id(j) \in Nat /\ \A k \in Occupied(j) : get_max_job_id(j) >= j.slots[k].j_id
  BY MaxJobId DEF Good
<1>2. i \in Occupied(j)
  BY DEF Good, Occupied
<1>3. j.slots[i].j_id \in S /\ \A y \in S : j.slots[i].j_id >= y
  BY <1>2 DEF Good, Occupied
<1>4. S \subseteq Nat
  BY DEF Good, Occupied
<1>5. ASSUME NEW x \in S, NEW z \in S, \A y \in S : x >= y, \A y \in S : z >= y
      PROVE  x = z
  <2> HIDE DEF S
  <2>1. x \in Nat /\ z \in Nat
    BY <1>4
  <2>2. x >= z /\ z >= x
    BY <1>5, Zenon
  <2> QED
    BY <2>1, <2>2
<1>6. get_max_job_id(j) = CHOOSE x \in S : \A y \in S : x >= y
  BY DEF get_max_job_id, Max
<1> QED
  BY <1>3, <1>5, <1>6, Zenon

\* A set of slots that is not empty has a minimum.
LEMMA MinExists ==
  ASSUME NEW S, S \subseteq Slots, S # {}
  PROVE  Min(S) \in S /\ \A y \in S : Min(S) =< y
<1>1. S \subseteq Nat
  BY DEF Slots
<1>2. \E x \in S : \A y \in S : x =< y
  BY <1>1, LeastNat, Zenon
<1> QED
  BY <1>2 DEF Min

\* getJobById() finds the slot of an id, which is the only one.
LEMMA Found ==
  ASSUME NEW j, Good(j.slots), NEW i \in Slots, j.slots[i].j_id > 0
  PROVE  getJobById(j, j.slots[i].j_id) = i
<1> DEFINE N == Named(j, j.slots[i].j_id)
<1>1. N = {i}
  BY DEF Named, With, Good
<1>2. Min(N) \in N
  BY <1>1, MinExists
<1> QED
  BY <1>1, <1>2 DEF getJobById

-----------------------------------------------------------------------------
(* The operations on the list keep it good.                                *)

\* send_SIG_TO_JOB() changes the status of a slot and no id.
LEMMA MarkGood ==
  ASSUME NEW j, NEW I, NEW status, status # "empty", Good(j.slots)
  PROVE  Good(Mark(j, I, status))
BY DEF Good, Mark, Entry

\* A slot gets an id that is larger than all others.
LEMMA PutGood ==
  ASSUME NEW s, NEW i, NEW id \in Nat, NEW status, Good(s),
         status # "empty", id > 0, \A k \in Slots : id > s[k].j_id
  PROVE  Good([k \in Slots |-> IF k = i THEN Entry(status, id, s[k].p_id) ELSE s[k]])
BY DEF Good, Entry

\* addJob() takes an empty slot, or the first one, and gives it the next id.
LEMMA AddGood ==
  ASSUME NEW j, NEW b, Good(j.slots)
  PROVE  Good(addJob(j, b).slots)
<1>1. /\ get_max_job_id(j) + 1 \in Nat
      /\ get_max_job_id(j) + 1 > 0
      /\ \A k \in Slots : get_max_job_id(j) + 1 > j.slots[k].j_id
  <2>1. get_max_job_id(j) \in Nat /\ \A k \in Occupied(j) : get_max_job_id(j) >= j.slots[k].j_id
    BY MaxJobId DEF Good
  <2>2. \A k \in Slots : k \in Occupied(j) \/ j.slots[k].j_id = 0
    BY DEF Good, Occupied
  <2> QED
    BY <2>1, <2>2 DEF Good, Occupied
<1>2. \A i : \A status \in {"stopped", "background"} :
        Good([k \in Slots |-> IF k = i THEN Entry(status, get_max_job_id(j) + 1, j.slots[k].p_id)
                                        ELSE j.slots[k]])
  BY <1>1, PutGood, Zenon
<1>3. CASE b
  BY <1>2, <1>3, Zenon DEF addJob
<1>4. CASE ~b
  BY <1>2, <1>4, Zenon DEF addJob
<1> QED
  BY <1>3, <1>4

\* Filling in the pid of a job changes no id.
LEMMA PidGood ==
  ASSUME NEW j, NEW id, NEW pid, Good(j.slots)
  PROVE  Good(set_job_pid(j, id, pid).slots)
BY DEF Good, set_job_pid, Entry

\* removeJobById() empties a slot and sets its id to 0.
LEMMA RemoveGood ==
  ASSUME NEW j, NEW id, Good(j.slots)
  PROVE  Good(removeJobById(j, id).slots)
BY DEF Good, removeJobById, Entry

\* removeFinishedJobs() empties the slots of finished jobs, ids included.
LEMMA RemoveFinishedGood ==
  ASSUME NEW j, Good(j.slots)
  PROVE  Good(removeFinishedJobs(j).slots)
<1> DEFINE done == Ended(j) \cup With(j, LAMBDA e : e.j_status = "finished")
           out == {j.slots[i].j_id : i \in done}
           new == [i \in Slots |-> IF j.slots[i].j_id \in out
                                     THEN Entry("empty", 0, j.slots[i].p_id) ELSE j.slots[i]]
<1>1. removeFinishedJobs(j).slots = new
  BY DEF removeFinishedJobs
<1> HIDE DEF out
<1>2. Good(new)
  BY DEF Good, Entry
<1> QED
  BY <1>1, <1>2

\* A signal to a job marks slots, whatever it does to the process.
LEMMA SignalGood ==
  ASSUME NEW j, NEW id, NEW sig, Good(j.slots)
  PROVE  Good(send_SIG_TO_JOB(j, id, sig).slots)
<1> DEFINE i == getJobById(j, id)
<1>1. Good(Mark(j, {i}, "stopped")) /\ Good(Mark(j, {i}, "background")) /\ Good(Mark(j, {i}, "finished"))
  BY MarkGood
<1> QED
  BY <1>1 DEF send_SIG_TO_JOB

-----------------------------------------------------------------------------
(* The steps.                                                              *)

\* A line about jobs.
LEMMA ObeysGood ==
  ASSUME NEW o, Good(jobs.slots), Obeys(o)
  PROVE  Good(jobs.slots)'
<1>1. ASSUME NEW p, ForkFails(p) PROVE Good(jobs.slots)'
  BY <1>1 DEF ForkFails, Good, Slots
<1>2. CASE Abort
  BY <1>2 DEF Abort, Good, Slots
<1>3. ASSUME NEW id, Resume(id) PROVE Good(jobs.slots)'
  <2>1. jobs' = send_SIG_TO_JOB(jobs, id, "CONT")
    BY <1>3 DEF Resume
  <2> QED
    BY <2>1, SignalGood DEF Good, Slots
<1>4. CASE ForegroundLast
  BY <1>3, <1>4 DEF ForegroundLast
<1>5. ASSUME NEW id, Background(id) PROVE Good(jobs.slots)'
  <2>1. jobs' = send_SIG_TO_JOB(jobs, id, "CONT")
    BY <1>5 DEF Background
  <2> QED
    BY <2>1, SignalGood DEF Good, Slots
<1>6. CASE BackgroundLast
  <2>1. jobs' = jobs \/ \E id : jobs' = send_SIG_TO_JOB(jobs, id, "CONT")
    BY <1>6 DEF BackgroundLast
  <2> QED
    BY <2>1, SignalGood DEF Good, Slots
<1>7. ASSUME NEW id, NEW sig, Kill(id, sig) PROVE Good(jobs.slots)'
  <2>1. jobs' = send_SIG_TO_JOB(jobs, id, sig)
    BY <1>7 DEF Kill
  <2> QED
    BY <2>1, SignalGood DEF Good, Slots
<1>8. CASE Quit
  BY <1>8 DEF Quit, Good, Slots
<1>9. CASE QuitKill
  BY <1>9 DEF QuitKill, Good, Slots
<1> QED
  BY <1>1, <1>2, <1>3, <1>4, <1>5, <1>6, <1>7, <1>8, <1>9 DEF Obeys

\* What is typed at the prompt.
LEMMA CommandGood ==
  ASSUME Good(jobs.slots), Command
  PROVE  Good(jobs.slots)'
<1>1. CASE Fork
  BY <1>1 DEF Fork, Good, Slots
<1>2. CASE ForkFails("prompt")
  BY <1>2 DEF ForkFails, Good, Slots
<1>3. CASE AddBackground
  <2>1. jobs' = addJob(jobs, FALSE)
    BY <1>3 DEF AddBackground
  <2>2. Good(addJob(jobs, FALSE).slots)
    BY AddGood, Zenon
  <2> QED
    BY <2>1, <2>2, Zenon DEF Good, Slots
<1>4. CASE JobsCommand
  BY <1>4, RemoveFinishedGood DEF JobsCommand, Good, Slots
<1>5. ASSUME NEW l \in Lines, Typed(l) PROVE Good(jobs.slots)'
  BY <1>5, ObeysGood DEF Typed
<1> QED
  BY <1>1, <1>2, <1>3, <1>4, <1>5 DEF Command

\* The rest of executeCommand().
LEMMA ContinueGood ==
  ASSUME Good(jobs.slots), Continue
  PROVE  Good(jobs.slots)'
<1>1. CASE SetForPid \/ SetForCmd \/ ClearForeground \/ ForegroundSet \/ ResetCmd \/ ResetPid
  BY <1>1 DEF SetForPid, SetForCmd, ClearForeground, ForegroundSet, ResetCmd, ResetPid, Good, Slots
<1>2. CASE Wait("wait", "waited") \/ Wait("fgwait", "fgdone")
  BY <1>2 DEF Wait, Good, Slots
<1>3. CASE ForkFails("added")
  BY <1>3 DEF ForkFails, Good, Slots
<1>4. CASE ForkBackground
  <2>1. PICK p : jobs' = set_job_pid(jobs, get_max_job_id(jobs), p)
    BY <1>4 DEF ForkBackground
  <2> QED
    BY <2>1, PidGood DEF Good, Slots
<1>5. CASE ForegroundDone
  <2>1. jobs' = removeJobById(jobs, local.job_id) \/ jobs' = jobs
    BY <1>5 DEF ForegroundDone
  <2> QED
    BY <2>1, RemoveGood DEF Good, Slots
<1>6. CASE Reap
  BY <1>6, RemoveFinishedGood DEF Reap, Good, Slots
<1> QED
  BY <1>1, <1>2, <1>3, <1>4, <1>5, <1>6 DEF Continue

\* The handlers.
LEMMA HandlersGood ==
  ASSUME Good(jobs.slots), ctrlZHandler \/ ctrlCHandler
  PROVE  Good(jobs.slots)'
<1>1. CASE ctrlZHandler
  <2> DEFINE new == addJob(jobs, TRUE)
             add == set_job_pid(new, get_max_job_id(new), for_pid)
  <2>1. jobs' = MarkStopped(jobs, for_pid) \/ jobs' = add \/ jobs' = jobs
    BY <1>1, Zenon DEF ctrlZHandler
  <2>2. CASE jobs' = MarkStopped(jobs, for_pid)
    <3>1. \E i : jobs'.slots = Mark(jobs, {i}, "stopped")
      BY <2>2, Zenon DEF MarkStopped
    <3> QED
      BY <3>1, MarkGood DEF Good, Slots
  <2>3. CASE jobs' = add
    <3>1. Good(new.slots)
      BY AddGood, Zenon
    <3>2. Good(add.slots)
      BY <3>1, PidGood, Zenon
    <3> QED
      BY <2>3, <3>2, Zenon DEF Good, Slots
  <2>4. CASE jobs' = jobs
    BY <2>4 DEF Good, Slots
  <2> QED
    BY <2>1, <2>2, <2>3, <2>4, Zenon
<1>2. CASE ctrlCHandler
  <2>1. \E I : jobs'.slots = Mark(jobs, I, "finished")
    BY <1>2, Zenon DEF ctrlCHandler
  <2> QED
    BY <2>1, MarkGood DEF Good, Slots
<1> QED
  BY <1>1, <1>2

\* No two jobs ever have the same id: whatever is added, stopped, resumed,
\* killed and removed, by commands and by the handlers between their steps,
\* addJob() gives an id that no slot has.
THEOREM JobIdsDistinctHolds == Spec => []JobIdsDistinct
<1>1. Init => Good(jobs.slots)
  BY DEF Init, Good, Entry
<1>2. Good(jobs.slots) /\ [Next]_vars => Good(jobs.slots)'
  <2> SUFFICES ASSUME Good(jobs.slots), [Next]_vars
               PROVE  Good(jobs.slots)'
    OBVIOUS
  <2>1. CASE Command
    BY <2>1, CommandGood
  <2>2. CASE Continue
    BY <2>2, ContinueGood
  <2>3. CASE ctrlZHandler \/ ctrlCHandler
    BY <2>3, HandlersGood
  <2>4. ASSUME NEW p \in Pids, Exit(p) PROVE Good(jobs.slots)'
    BY <2>4 DEF Exit, Good, Slots
  <2>5. CASE UNCHANGED vars
    BY <2>5 DEF vars, Good, Slots
  <2> QED
    BY <2>1, <2>2, <2>3, <2>4, <2>5 DEF Next
<1>3. Good(jobs.slots) => JobIdsDistinct
  BY DEF Good, JobIdsDistinct, Occupied
<1> QED
  BY <1>1, <1>2, <1>3, PTL DEF Spec

-----------------------------------------------------------------------------
(* Types, and who holds a pid.                                             *)

St(i) == jobs.slots[i].j_status
Id(i) == jobs.slots[i].j_id
Pid(i) == jobs.slots[i].p_id

SlotsType == [Slots -> [j_status : Status, j_id : Nat, p_id : 0..MaxProc]]
Signals == {"KILL", "TERM", "CONT", "STOP"}

\* No two slots hold the same process, removed jobs included.
PidsDistinct == \A i, k \in Slots : i # k /\ Pid(i) \in Pids => Pid(i) # Pid(k)

\* A pid that the shell holds was given to a process.
Born ==
  /\ \A i \in Slots : Pid(i) \in Pids => proc[Pid(i)] # "unborn"
  /\ local.pid \in Pids => proc[local.pid] # "unborn"
  /\ for_pid \in Pids => proc[for_pid] # "unborn"

Sound == TypeOK /\ Good(jobs.slots) /\ PidsDistinct /\ Born

\* A line acts on a job that is on the list, whose id is not 0, and sends one of
\* the four signals.
LEMMA Outcomes ==
  ASSUME NEW l \in Lines, NEW ids
  PROVE  LET o == Outcome(l, ids)
         IN /\ o.do \in {"fg", "bg", "kill"} => o.id \in ids /\ o.id \in Nat /\ o.id > 0
            /\ o.do = "kill" => Signal[o.sig] \in Signals
<1> DEFINE a == l.args
           W == [dash : BOOLEAN, kind : {"number", "text", "none"}, n : Nat, amp : BOOLEAN]
           Named1(o) == o.id \in ids /\ o.id \in Nat /\ o.id > 0
<1>1. /\ a \in Seq(W)
      /\ \A i \in DOMAIN a :
           /\ a[i].kind = "number" => a[i].n > 0
           /\ a[i].kind = "none" => a[i].n = 0 /\ (a[i].dash \/ a[i].amp)
           /\ l.name = "kill" /\ a[i].kind = "number" /\ a[i].dash => a[i].n \in DOMAIN Signal
  BY LinesAssumption
<1> HIDE DEF a, W
<1>2. DOMAIN a = 1 .. Len(a) /\ Len(a) \in Nat /\ \A i \in 1 .. Len(a) : a[i] \in W
  BY <1>1
<1>3. \A n \in DOMAIN Signal : Signal[n] \in Signals
  BY DEF Signal, Signals
<1>4. /\ KillArgs(a, ids).do = "kill" => Named1(KillArgs(a, ids))
      /\ KillArgs(a, ids).do = "kill" /\ l.name = "kill" => Signal[KillArgs(a, ids).sig] \in Signals
      /\ KillArgs(a, ids).do \notin {"fg", "bg"}
  <2>1. CASE KillArgs(a, ids).do \in {"nothing", "throw"}
    BY <2>1
  <2>2. CASE /\ ~(Len(a) < 2) /\ a[1].dash /\ Converts(a[2]) /\ Converts(a[1]) /\ a[2].n \in ids
             /\ KillArgs(a, ids) = Does("kill", a[2].n, a[1].n)
    <3>1. a[1] \in W /\ a[2] \in W /\ 1 \in DOMAIN a /\ 2 \in DOMAIN a
      BY <1>2, <2>2
    <3>2. a[2].n > 0 /\ a[2].n \in Nat
      BY <1>1, <2>2, <3>1 DEF Converts, W
    <3>3. l.name = "kill" => a[1].n \in DOMAIN Signal
      BY <1>1, <2>2, <3>1 DEF Converts
    <3> QED
      BY <1>3, <2>2, <3>2, <3>3 DEF Does
  <2>3. \/ KillArgs(a, ids) \in {Nothing, Throws}
        \/ /\ ~(Len(a) < 2) /\ a[1].dash /\ Converts(a[2]) /\ Converts(a[1]) /\ a[2].n \in ids
           /\ KillArgs(a, ids) = Does("kill", a[2].n, a[1].n)
    BY Zenon DEF KillArgs
  <2>4. Nothing.do = "nothing" /\ Throws.do = "throw"
    BY DEF Nothing, Throws, Does
  <2> QED
    BY <2>1, <2>2, <2>3, <2>4, Zenon
<1>5. /\ FgArgs(a, ids).do = "fg" => Named1(FgArgs(a, ids))
      /\ FgArgs(a, ids).do \notin {"kill", "bg"}
  <2>1. CASE FgArgs(a, ids).do \in {"nothing", "throw", "fg_last"}
    BY <2>1
  <2>2. CASE a # <<>> /\ Converts(a[1]) /\ a[1].n \in ids /\ FgArgs(a, ids) = Does("fg", a[1].n, 0)
    <3>1. a[1] \in W /\ 1 \in DOMAIN a
      BY <1>1, <1>2, <2>2
    <3>2. a[1].n > 0 /\ a[1].n \in Nat
      BY <1>1, <2>2, <3>1 DEF Converts, W
    <3> QED
      BY <2>2, <3>2 DEF Does
  <2> QED
    BY <2>1, <2>2 DEF FgArgs, Nothing, Throws, Does
<1>6. /\ BgArgs(a, ids).do = "bg" => Named1(BgArgs(a, ids))
      /\ BgArgs(a, ids).do \notin {"kill", "fg"}
  <2>1. CASE BgArgs(a, ids).do \in {"nothing", "bg_last"}
    BY <2>1
  <2>2. CASE /\ a # <<>> /\ a # <<Ampersand>> /\ ~(Len(a) > 1) /\ isNumber(WithoutAmp(a[1]))
             /\ a[1].n \in ids /\ BgArgs(a, ids) = Does("bg", a[1].n, 0)
    <3>1. Len(a) = 1 /\ a[1] \in W /\ 1 \in DOMAIN a
      BY <1>1, <1>2, <2>2
    <3>2. ~a[1].dash /\ a[1].kind # "text" /\ a[1].n \in Nat
      BY <2>2, <3>1 DEF isNumber, WithoutAmp, W
    <3>3. a[1].kind # "none"
      <4> SUFFICES ASSUME a[1].kind = "none" PROVE FALSE
        OBVIOUS
      <4>1. a[1].n = 0 /\ a[1].amp
        BY <1>1, <3>1, <3>2
      <4>2. a[1] = Ampersand
        BY <3>1, <3>2, <4>1 DEF W, Ampersand, Word
      <4>3. a = <<Ampersand>>
        BY <1>1, <3>1, <4>2
      <4> QED
        BY <2>2, <4>3
    <3>4. a[1].kind = "number" /\ a[1].n > 0
      BY <1>1, <3>1, <3>2, <3>3 DEF W
    <3> QED
      BY <2>2, <3>2, <3>4 DEF Does
  <2>3. a # <<>> => Len(a) >= 1
    BY <1>1, <1>2
  <2>4. Does("bg_last", 0, 0).do = "bg_last" /\ Nothing.do = "nothing"
    BY DEF Nothing, Does
  <2>5. a = <<>> \/ a = <<Ampersand>> => BgArgs(a, ids) = Does("bg_last", 0, 0)
    BY DEF BgArgs
  <2>6. ASSUME a # <<>>, a # <<Ampersand>>, BgArgs(a, ids) # Nothing
        PROVE  /\ ~(Len(a) > 1) /\ isNumber(WithoutAmp(a[1])) /\ a[1].n \in ids
               /\ BgArgs(a, ids) = Does("bg", a[1].n, 0)
    <3>1. ~(Len(a) > 1 \/ (Len(a) = 1 /\ ~isNumber(WithoutAmp(a[1])))) /\ a[1].n \in ids
      BY <2>6 DEF BgArgs
    <3>2. Len(a) = 1
      BY <1>2, <2>3, <2>6, <3>1
    <3> QED
      BY <2>6, <3>1, <3>2 DEF BgArgs
  <2> QED
    BY <2>1, <2>2, <2>4, <2>5, <2>6
<1>7. QuitArgs(a).do \notin {"kill", "fg", "bg"}
  BY DEF QuitArgs, Does
<1>8. l.name = "kill" => Outcome(l, ids) = KillArgs(a, ids)
  BY DEF Outcome, a
<1>9. l.name = "fg" => Outcome(l, ids) = FgArgs(a, ids)
  BY DEF Outcome, a
<1>10. l.name = "bg" => Outcome(l, ids) = BgArgs(a, ids)
  BY DEF Outcome, a
<1>11. l.name \notin {"kill", "fg", "bg"} => Outcome(l, ids) = QuitArgs(a)
  BY DEF Outcome, a
<1> QED
  BY <1>4, <1>5, <1>6, <1>7, <1>8, <1>9, <1>10, <1>11

\* A signal changes the state of a process, and makes none.
LEMMA Signalled ==
  ASSUME NEW pr \in [Pids -> ProcState], NEW pid, NEW sig \in Signals
  PROVE  /\ kill(pr, pid, sig) \in [Pids -> ProcState]
         /\ \A p \in Pids : kill(pr, pid, sig)[p] = IF p = pid THEN After(pr[p], sig) ELSE pr[p]
         /\ \A p \in Pids : kill(pr, pid, sig)[p] = "unborn" <=> pr[p] = "unborn"
<1>1. \A x \in ProcState : After(x, sig) \in ProcState /\ (After(x, sig) = "unborn" <=> x = "unborn")
  BY DEF After, ProcState, Alive, Halted, Signals
<1>2. CASE pid \in Pids
  BY <1>1, <1>2 DEF kill
<1>3. CASE pid \notin Pids
  BY <1>3 DEF kill
<1> QED
  BY <1>2, <1>3

\* The slots s with entry e in slot i.
Put(s, i, e) == [k \in Slots |-> IF k = i THEN e ELSE s[k]]

AddStopped(j) == addJob(j, TRUE)
AddRunning(j) == addJob(j, FALSE)

\* addJob() gives an id larger than all others to a slot, which is an empty one
\* if there is one.
LEMMA AddShape ==
  ASSUME NEW j, Good(j.slots)
  PROVE  \E i \in Slots, id \in Nat :
           /\ id > 0 /\ \A k \in Slots : j.slots[k].j_id < id
           /\ Occupied(j) # Slots => j.slots[i].j_status = "empty"
           /\ AddStopped(j) = [slots |-> Put(j.slots, i, Entry("stopped", id, j.slots[i].p_id)),
                                 stoppedd |-> j.stoppedd \cup {id}]
           /\ AddRunning(j) = [slots |-> Put(j.slots, i, Entry("background", id, j.slots[i].p_id)),
                                  stoppedd |-> j.stoppedd]
<1> DEFINE i == get_empty_place_in_list(j)
           id == get_max_job_id(j) + 1
<1>1. i \in Slots /\ (Occupied(j) # Slots => j.slots[i].j_status = "empty")
  <2>1. CASE Occupied(j) = Slots
    BY <2>1, JobsAssumption DEF get_empty_place_in_list, Slots
  <2>2. CASE Occupied(j) # Slots
    <3>1. Slots \ Occupied(j) # {}
      BY <2>2 DEF Occupied
    <3>2. Min(Slots \ Occupied(j)) \in Slots \ Occupied(j)
      BY <3>1, MinExists
    <3> QED
      BY <2>2, <3>2 DEF get_empty_place_in_list, Occupied
  <2> QED
    BY <2>1, <2>2
<1>2. get_max_job_id(j) \in Nat /\ \A k \in Occupied(j) : get_max_job_id(j) >= j.slots[k].j_id
  BY MaxJobId DEF Good
<1>3. id \in Nat /\ id > 0 /\ \A k \in Slots : j.slots[k].j_id < id
  BY <1>2 DEF Good, Occupied
<1>4. AddStopped(j) = [slots |-> Put(j.slots, i, Entry("stopped", id, j.slots[i].p_id)),
                         stoppedd |-> j.stoppedd \cup {id}]
  BY Zenon DEF AddStopped, AddRunning, addJob, Put
<1>5. AddRunning(j) = [slots |-> Put(j.slots, i, Entry("background", id, j.slots[i].p_id)),
                          stoppedd |-> j.stoppedd]
  BY DEF AddStopped, AddRunning, addJob, Put
<1> HIDE DEF i, id
<1> QED
  BY <1>1, <1>3, <1>4, <1>5, Zenon

\* set_job_pid() writes the pid into one slot.
LEMMA PidShape ==
  ASSUME NEW j, Good(j.slots), NEW i \in Slots, j.slots[i].j_id > 0, NEW pid,
         \A k \in Slots \ {i} : j.slots[k].j_id < j.slots[i].j_id
  PROVE  set_job_pid(j, get_max_job_id(j), pid) =
           [slots |-> Put(j.slots, i, Entry(j.slots[i].j_status, j.slots[i].j_id, pid)),
            stoppedd |-> j.stoppedd]
<1>1. get_max_job_id(j) = j.slots[i].j_id
  BY MaxIs
<1>2. getJobById(j, get_max_job_id(j)) = i
  BY <1>1, Found
<1> QED
  BY <1>2 DEF set_job_pid, Put

\* ctrl-Z on a process that is on no list: a new slot, with the next id.
LEMMA StopShape ==
  ASSUME NEW j, Good(j.slots), NEW pid
  PROVE  LET new == AddStopped(j)
         IN \E i \in Slots, id \in Nat :
              /\ id > 0 /\ \A k \in Slots : j.slots[k].j_id < id
              /\ Occupied(j) # Slots => j.slots[i].j_status = "empty"
              /\ set_job_pid(new, get_max_job_id(new), pid) =
                   [slots |-> Put(j.slots, i, Entry("stopped", id, pid)), stoppedd |-> j.stoppedd \cup {id}]
<1>1. PICK i \in Slots, id \in Nat :
        /\ id > 0 /\ \A k \in Slots : j.slots[k].j_id < id
        /\ Occupied(j) # Slots => j.slots[i].j_status = "empty"
        /\ AddStopped(j) = [slots |-> Put(j.slots, i, Entry("stopped", id, j.slots[i].p_id)),
                              stoppedd |-> j.stoppedd \cup {id}]
  BY AddShape
<1> DEFINE new == AddStopped(j)
<1>2. Good(new.slots)
  BY AddGood, Zenon DEF AddStopped
<1>3. /\ new.slots = Put(j.slots, i, Entry("stopped", id, j.slots[i].p_id))
      /\ new.stoppedd = j.stoppedd \cup {id}
  BY <1>1
<1> HIDE DEF new
<1>4. /\ new.slots[i].j_id = id /\ new.slots[i].j_status = "stopped"
      /\ \A k \in Slots \ {i} : new.slots[k] = j.slots[k]
  BY <1>3 DEF Entry, Put
<1>5. new.slots[i].j_id > 0 /\ \A k \in Slots \ {i} : new.slots[k].j_id < new.slots[i].j_id
  BY <1>1, <1>4
<1>6. set_job_pid(new, get_max_job_id(new), pid) =
        [slots |-> Put(new.slots, i, Entry("stopped", id, pid)), stoppedd |-> new.stoppedd]
  BY <1>2, <1>4, <1>5, PidShape
<1>7. Put(new.slots, i, Entry("stopped", id, pid)) = Put(j.slots, i, Entry("stopped", id, pid))
  BY <1>4 DEF Put
<1> QED
  BY <1>1, <1>3, <1>6, <1>7, Zenon DEF new

-----------------------------------------------------------------------------
(* Sound is an invariant.                                                  *)

\* Steps of executeCommand() that leave list and processes alone.
LEMMA LocalSound ==
  ASSUME Sound, UNCHANGED <<jobs, proc>>,
         \/ SetForPid \/ SetForCmd \/ ClearForeground \/ ForegroundSet \/ ResetCmd \/ ResetPid
         \/ (\E p : ForkFails(p)) \/ Abort \/ Quit
  PROVE  Sound'
<1>0. /\ for_pid' \in {for_pid, NoPid, local.pid} /\ local' = local
      /\ for_cmd' \in {for_cmd, TRUE, FALSE} /\ shell' \in {shell, "aborted", "quit"}
      /\ pc' \in {"prompt", "half", "wait", "end", "fgwait", "end2", "reap"}
  BY Zenon DEF SetForPid, SetForCmd, ClearForeground, ForegroundSet, ResetCmd, ResetPid, ForkFails, Abort, Quit, Step
<1>1. TypeOK' /\ Born'
  <2>1. TypeOK'
    BY <1>0, Zenon DEF Sound, TypeOK, NoPid, Slots, Pids
  <2>2. Born'
    BY <1>0 DEF Sound, Born, Pid, NoPid, Slots, Pids
  <2> QED
    BY <2>1, <2>2
<1>2. Good(jobs'.slots) /\ PidsDistinct'
  BY DEF Sound, Good, PidsDistinct, Pid, Slots, Pids
<1> QED
  BY <1>1, <1>2 DEF Sound, Good, Slots

\* The list and the processes may change, if no slot gets another pid and no
\* process is unmade.
LEMMA KeepSound ==
  ASSUME Sound, jobs'.slots \in SlotsType, jobs'.stoppedd \subseteq Nat, Good(jobs'.slots),
         \A k \in Slots : jobs'.slots[k].p_id = jobs.slots[k].p_id, proc' \in [Pids -> ProcState],
         \A p \in Pids : proc'[p] = "unborn" => proc[p] = "unborn",
         for_pid' = for_pid \/ for_pid' = NoPid, UNCHANGED <<for_cmd, local>>,
         pc' \in {"prompt", "waited", "fgdone", "end", pc},
         shell' \in {shell, "crashed", "quit_kill"}
  PROVE  Sound'
<1>1. TypeOK'
  BY DEF Sound, TypeOK, SlotsType, NoPid, Slots, Pids
<1>2. PidsDistinct'
  BY DEF Sound, PidsDistinct, Pid, Slots, Pids
<1>3. Born'
  <2>1. \A k \in Slots : jobs'.slots[k].p_id \in Pids => proc'[jobs'.slots[k].p_id] # "unborn"
    BY DEF Sound, Born, Pid
  <2>2. NoPid \notin Pids
    BY JobsAssumption DEF NoPid, Pids
  <2>3. for_pid' \in Pids => proc'[for_pid'] # "unborn"
    BY <2>2 DEF Sound, Born
  <2>4. local'.pid \in Pids => proc'[local'.pid] # "unborn"
    BY DEF Sound, Born
  <2> QED
    BY <2>1, <2>3, <2>4 DEF Born, Pid, Slots, Pids
<1> QED
  BY <1>1, <1>2, <1>3 DEF Sound, Good, Slots

\* The commands that signal a job.
LEMMA SignalSound ==
  ASSUME Sound, NEW id, NEW sig \in Signals, NEW i \in Slots, getJobById(jobs, id) = i, id \in Nat,
         jobs' = send_SIG_TO_JOB(jobs, id, sig), proc' = kill(proc, PidOf(id), sig)
  PROVE  /\ jobs'.slots \in SlotsType /\ jobs'.stoppedd \subseteq Nat /\ Good(jobs'.slots)
         /\ \A k \in Slots : jobs'.slots[k].p_id = jobs.slots[k].p_id
         /\ proc' \in [Pids -> ProcState]
         /\ \A p \in Pids : proc'[p] = "unborn" <=> proc[p] = "unborn"
<1>1. Good(jobs'.slots)
  BY SignalGood DEF Sound, Good, Slots
<1>2. proc' \in [Pids -> ProcState] /\ \A p \in Pids : proc'[p] = "unborn" <=> proc[p] = "unborn"
  BY Signalled DEF Sound, TypeOK
<1>3. i # 0
  BY DEF Slots
<1>4. \/ jobs' = jobs
      \/ \E status \in Status : /\ jobs'.slots = Mark(jobs, {i}, status)
                                /\ jobs'.stoppedd \subseteq jobs.stoppedd \cup {id}
  BY <1>3 DEF send_SIG_TO_JOB, Status
<1>5. CASE jobs' = jobs
  BY <1>1, <1>2, <1>5, SMTT(30) DEF Sound, TypeOK, SlotsType, Pid
<1>6. ASSUME NEW status \in Status, jobs'.slots = Mark(jobs, {i}, status),
             jobs'.stoppedd \subseteq jobs.stoppedd \cup {id}
      PROVE  /\ jobs'.slots \in SlotsType /\ jobs'.stoppedd \subseteq Nat
             /\ \A k \in Slots : jobs'.slots[k].p_id = jobs.slots[k].p_id
  BY <1>6 DEF Sound, TypeOK, SlotsType, Pid, Mark, Entry
<1> QED
  BY <1>1, <1>2, <1>4, <1>5, <1>6

\* A job that a line names is in a slot.
LEMMA NamedSlot ==
  ASSUME Sound, NEW id \in Nat, id \in {jobs.slots[i].j_id : i \in Slots}
  PROVE  getJobById(jobs, id) \in Slots /\ Id(getJobById(jobs, id)) = id
<1>1. Named(jobs, id) # {} /\ Named(jobs, id) \subseteq Slots
  BY DEF Named, With
<1>2. Min(Named(jobs, id)) \in Named(jobs, id)
  BY <1>1, MinExists
<1> QED
  BY <1>1, <1>2 DEF getJobById, Named, With, Id

\* The largest id is 0 or that of a job; with a job that is not finished, there
\* is a slot that has it.
LEMMA LastSlot ==
  ASSUME Sound, ~is_list_empty(jobs)
  PROVE  get_max_job_id(jobs) \in Nat /\ get_max_job_id(jobs) \in {jobs.slots[i].j_id : i \in Slots}
<1> DEFINE m == get_max_job_id(jobs)
           O == {jobs.slots[i].j_id : i \in Occupied(jobs)}
<1>1. m \in Nat /\ \A k \in Occupied(jobs) : m >= jobs.slots[k].j_id
  BY MaxJobId DEF Sound, Good
<1>2. PICK k \in Occupied(jobs) : TRUE
  BY DEF is_list_empty, Occupied
<1>3. m \in {0} \cup O
  <2> DEFINE f == [i \in Slots |-> jobs.slots[i].j_id]
             S == {0} \cup O
  <2>1. \A i \in 1 .. JobsMaxAmount : f[i] \in Nat
    BY DEF Slots, Sound, Good
  <2>2. \A x \in S : x = 0 \/ \E i \in 1 .. JobsMaxAmount : x = f[i]
    BY DEF Slots, Occupied
  <2>3. 0 \in S /\ m = Max(S)
    BY DEF get_max_job_id
  <2> HIDE DEF S, f, m
  <2>4. Max(S) \in S
    BY <2>1, <2>2, <2>3, FamilyMax, JobsAssumption
  <2> QED
    BY <2>3, <2>4, Zenon DEF S
<1>4. m = 0 => m = jobs.slots[k].j_id
  BY <1>1, <1>2 DEF Sound, Good, Slots, Good, Occupied
<1> QED
  BY <1>1, <1>2, <1>3, <1>4 DEF Occupied

\* fork() for the foreground: the child gets a pid that nobody holds.
LEMMA ForkSound ==
  ASSUME Sound, Fork
  PROVE  Sound'
<1>1. PICK p \in Pids : /\ proc[p] = "unborn" /\ proc' = [proc EXCEPT ![p] = "running"]
                        /\ local' = [local EXCEPT !.pid = p]
  BY Zenon DEF Fork, Fresh
<1>2. UNCHANGED <<jobs, for_pid, for_cmd, shell>> /\ pc' = "forked"
  BY DEF Fork, Step
<1>3. local' \in [job_id : Nat, pid : 0..MaxProc] /\ local'.pid = p
  BY <1>1 DEF Sound, TypeOK, Pids
<1>4. proc' \in [Pids -> ProcState] /\ \A q \in Pids : proc'[q] = "unborn" => proc[q] = "unborn"
  BY <1>1 DEF Sound, TypeOK, ProcState
<1>5. TypeOK'
  BY <1>2, <1>3, <1>4 DEF Sound, TypeOK, Slots, Pids
<1>6. Good(jobs'.slots) /\ PidsDistinct'
  BY <1>2 DEF Sound, PidsDistinct, Pid, Slots, Pids
<1>7. Born'
  BY <1>1, <1>2, <1>3, <1>4 DEF Sound, TypeOK, Born, Pid, Slots, Pids
<1> QED
  BY <1>5, <1>6, <1>7 DEF Sound, Good, Slots

\* A background command is put on the list, and keeps the pid of the slot.
LEMMA AddSound ==
  ASSUME Sound, AddBackground
  PROVE  Sound'
<1>1. PICK i \in Slots, id \in Nat :
        jobs' = [slots |-> Put(jobs.slots, i, Entry("background", id, jobs.slots[i].p_id)),
                 stoppedd |-> jobs.stoppedd]
  <2>1. jobs' = AddRunning(jobs)
    BY DEF AddBackground, AddRunning
  <2> QED
    BY <2>1, AddShape DEF Sound
<1>2. jobs'.slots \in SlotsType /\ jobs'.stoppedd \subseteq Nat
      /\ \A k \in Slots : jobs'.slots[k].p_id = jobs.slots[k].p_id
  BY <1>1 DEF Sound, TypeOK, SlotsType, Put, Entry, Status
<1>3. Good(jobs'.slots)
  BY AddGood, Zenon DEF Sound, AddBackground
<1>4. UNCHANGED <<for_pid, for_cmd, proc, local, shell>> /\ pc' = "added"
  BY DEF AddBackground, Step
<1>5. TypeOK'
  BY <1>2, <1>4 DEF Sound, TypeOK, SlotsType, Slots, Pids
<1>6. PidsDistinct'
  BY <1>2 DEF Sound, PidsDistinct, Pid, Slots, Pids
<1>7. Born'
  BY <1>2, <1>4 DEF Sound, Born, Pid, Slots, Pids
<1> QED
  BY <1>3, <1>5, <1>6, <1>7 DEF Sound, Good, Slots

\* The slots with another pid in slot i.
LEMMA NewPidSound ==
  ASSUME Sound, NEW i \in Slots, NEW pid \in 0..MaxProc, NEW status \in Status, NEW id \in Nat,
         \A k \in Slots \ {i} : jobs.slots[k].p_id # pid,
         jobs'.slots = Put(jobs.slots, i, Entry(status, id, pid)), Good(jobs'.slots),
         jobs'.stoppedd \subseteq Nat,
         proc' \in [Pids -> ProcState],
         \A p \in Pids : proc'[p] = "unborn" => proc[p] = "unborn",
         pid \in Pids => proc'[pid] # "unborn",
         for_pid' = for_pid \/ for_pid' = NoPid, UNCHANGED <<for_cmd, local>>, pc' \in {"end", pc},
         shell' \in {shell, "crashed"}
  PROVE  Sound'
<1>1. /\ jobs'.slots \in SlotsType
      /\ jobs'.slots[i].p_id = pid
      /\ \A k \in Slots \ {i} : jobs'.slots[k].p_id = jobs.slots[k].p_id
  BY DEF Sound, TypeOK, SlotsType, Put, Entry, Pids
<1>2. TypeOK'
  BY <1>1, SMTT(30) DEF Sound, TypeOK, SlotsType, NoPid, Slots, Pids
<1>3. PidsDistinct'
  BY <1>1, SMTT(30) DEF Sound, PidsDistinct, Pid, Slots, Pids
<1>4. Born'
  <2>1. \A k \in Slots : jobs'.slots[k].p_id \in Pids => proc'[jobs'.slots[k].p_id] # "unborn"
    BY <1>1 DEF Sound, Born, Pid
  <2>2. NoPid \notin Pids
    BY JobsAssumption DEF NoPid, Pids
  <2>3. for_pid' \in Pids => proc'[for_pid'] # "unborn"
    BY <2>2 DEF Sound, Born
  <2>4. local'.pid \in Pids => proc'[local'.pid] # "unborn"
    BY DEF Sound, Born
  <2> QED
    BY <2>1, <2>3, <2>4 DEF Born, Pid, Slots, Pids
<1> QED
  BY <1>2, <1>3, <1>4 DEF Sound, Good, Slots

\* fork() for a background command: the pid goes into a slot, or nowhere.
LEMMA ForkBackgroundSound ==
  ASSUME Sound, ForkBackground
  PROVE  Sound'
<1> DEFINE i == getJobById(jobs, get_max_job_id(jobs))
<1>1. PICK p \in Pids : /\ proc[p] = "unborn" /\ proc' = [proc EXCEPT ![p] = "running"]
                        /\ jobs' = set_job_pid(jobs, get_max_job_id(jobs), p)
  BY Zenon DEF ForkBackground, Fresh
<1>2. UNCHANGED <<for_pid, for_cmd, local, shell>> /\ pc' = "end"
  BY DEF ForkBackground, Step
<1>3. /\ proc' \in [Pids -> ProcState] /\ proc'[p] # "unborn"
      /\ \A q \in Pids : proc'[q] = "unborn" => proc[q] = "unborn"
  BY <1>1 DEF Sound, TypeOK, ProcState
<1>4. Good(jobs'.slots)
  BY <1>1, PidGood DEF Sound
<1>5. CASE i \in Slots
  <2>1. /\ jobs'.slots = Put(jobs.slots, i, Entry(jobs.slots[i].j_status, jobs.slots[i].j_id, p))
        /\ jobs'.stoppedd = jobs.stoppedd
    BY <1>1, <1>5 DEF set_job_pid, Put
  <2>2. jobs.slots[i].j_status \in Status /\ jobs.slots[i].j_id \in Nat /\ jobs.stoppedd \subseteq Nat
    BY <1>5 DEF Sound, TypeOK
  <2>3. \A k \in Slots \ {i} : jobs.slots[k].p_id # p
    BY <1>1 DEF Sound, Born, Pid
  <2> HIDE DEF i
  <2> QED
    BY <1>2, <1>3, <1>4, <1>5, <2>1, <2>2, <2>3, NewPidSound DEF Pids
<1>6. CASE i \notin Slots
  <2>1. jobs'.slots = [k \in Slots |-> jobs.slots[k]] /\ jobs'.stoppedd = jobs.stoppedd
    BY <1>1, <1>6 DEF set_job_pid
  <2>2. jobs'.slots = jobs.slots
    BY <2>1 DEF Sound, TypeOK
  <2>3. jobs'.slots \in SlotsType /\ jobs'.stoppedd \subseteq Nat
    BY <2>1, <2>2 DEF Sound, TypeOK, SlotsType
  <2> QED
    BY <1>2, <1>3, <1>4, <2>2, <2>3, KeepSound
<1> QED
  BY <1>5, <1>6

\* ctrl-Z: an existing slot is marked, or a slot gets the foreground pid.
LEMMA CtrlZSound ==
  ASSUME Sound, ctrlZHandler
  PROVE  Sound'
<1> DEFINE new == addJob(jobs, TRUE)
<1>1. /\ UNCHANGED <<for_cmd, local, pc>> /\ for_pid' = NoPid /\ for_pid # NoPid
      /\ proc' = kill(proc, for_pid, "STOP") /\ shell' \in {shell, "crashed"}
  BY Zenon DEF ctrlZHandler, Step
<1>2. /\ proc' \in [Pids -> ProcState]
      /\ \A q \in Pids : proc'[q] = "unborn" <=> proc[q] = "unborn"
  BY <1>1, Signalled DEF Sound, TypeOK, Signals
<1>3. Good(jobs'.slots)
  BY HandlersGood DEF Sound, Good, Slots
<1>4. CASE jobs' = jobs
  BY <1>1, <1>2, <1>3, <1>4, KeepSound DEF Sound, TypeOK, SlotsType
<1>5. CASE InList(for_pid) /\ jobs' = MarkStopped(jobs, for_pid)
  <2> DEFINE W == With(jobs, LAMBDA e : e.p_id = for_pid)
  <2>1. W # {} /\ W \subseteq Slots
    BY <1>5 DEF InList, With
  <2>2. Min(W) \in Slots
    BY <2>1, MinExists, Zenon
  <2>3. /\ jobs'.slots = Mark(jobs, {Min(W)}, "stopped")
        /\ jobs'.stoppedd = jobs.stoppedd \cup {jobs.slots[Min(W)].j_id}
    BY <1>5, SMTT(30) DEF MarkStopped
  <2> HIDE DEF W
  <2>4. /\ jobs'.slots \in SlotsType /\ jobs'.stoppedd \subseteq Nat
        /\ \A k \in Slots : jobs'.slots[k].p_id = jobs.slots[k].p_id
    BY <2>2, <2>3, SMTT(30) DEF Sound, TypeOK, SlotsType, Mark, Entry, Status
  <2> QED
    BY <1>1, <1>2, <1>3, <2>4, KeepSound
<1>6. CASE ~InList(for_pid) /\ for_cmd /\ jobs' = set_job_pid(new, get_max_job_id(new), for_pid)
  <2>1. PICK i \in Slots, id \in Nat :
          jobs' = [slots |-> Put(jobs.slots, i, Entry("stopped", id, for_pid)), stoppedd |-> jobs.stoppedd \cup {id}]
    BY <1>6, StopShape, Zenon DEF Sound, AddStopped
  <2>2. jobs'.stoppedd \subseteq Nat
    BY <2>1 DEF Sound, TypeOK
  <2>3. \A k \in Slots : jobs.slots[k].p_id # for_pid
    BY <1>6 DEF InList, With
  <2>4. for_pid \in 0..MaxProc /\ (for_pid \in Pids => proc'[for_pid] # "unborn")
    BY <1>1, <1>2 DEF Sound, TypeOK, Born
  <2>5. jobs'.slots = Put(jobs.slots, i, Entry("stopped", id, for_pid)) /\ "stopped" \in Status
    BY <2>1 DEF Status
  <2> QED
    BY <1>1, <1>2, <1>3, <2>2, <2>3, <2>4, <2>5, NewPidSound
<1> QED
  BY <1>4, <1>5, <1>6, Zenon DEF ctrlZHandler

\* removeFinishedJobs(): the slots of the ids in question are emptied.
LEMMA RemoveShape ==
  ASSUME NEW j
  PROVE  LET done == Ended(j) \cup {i \in Slots : j.slots[i].j_status = "finished"}
             out == {j.slots[i].j_id : i \in done}
         IN /\ removeFinishedJobs(j).stoppedd = j.stoppedd \ out
            /\ removeFinishedJobs(j).slots =
                 [i \in Slots |-> IF j.slots[i].j_id \in out THEN Entry("empty", 0, j.slots[i].p_id)
                                                            ELSE j.slots[i]]
<1>1. With(j, LAMBDA e : e.j_status = "finished") = {i \in Slots : j.slots[i].j_status = "finished"}
  BY DEF With
<1> QED
  BY <1>1, Zenon DEF removeFinishedJobs

\* jobs, and the end of executeCommand().
LEMMA CollectSound ==
  ASSUME Sound, jobs' = removeFinishedJobs(jobs), proc' = Waited(jobs)
  PROVE  /\ jobs'.slots \in SlotsType /\ jobs'.stoppedd \subseteq Nat /\ Good(jobs'.slots)
         /\ \A k \in Slots : jobs'.slots[k].p_id = jobs.slots[k].p_id
         /\ proc' \in [Pids -> ProcState]
         /\ \A p \in Pids : proc'[p] = "unborn" => proc[p] = "unborn"
<1> DEFINE done == Ended(jobs) \cup {i \in Slots : jobs.slots[i].j_status = "finished"}
           out == {jobs.slots[i].j_id : i \in done}
<1>1. /\ jobs'.stoppedd = jobs.stoppedd \ out
      /\ jobs'.slots = [i \in Slots |-> IF jobs.slots[i].j_id \in out THEN Entry("empty", 0, jobs.slots[i].p_id)
                                                                   ELSE jobs.slots[i]]
  BY RemoveShape
<1> HIDE DEF out
<1>2. /\ jobs'.slots \in SlotsType /\ jobs'.stoppedd \subseteq Nat
      /\ \A k \in Slots : jobs'.slots[k].p_id = jobs.slots[k].p_id
  BY <1>1 DEF Sound, TypeOK, SlotsType, Entry, Status
<1>3. Good(jobs'.slots)
  BY RemoveFinishedGood DEF Sound
<1>4. proc' \in [Pids -> ProcState] /\ \A p \in Pids : proc'[p] = "unborn" => proc[p] = "unborn"
  <2> DEFINE polled == {jobs.slots[i].p_id : i \in {x \in Occupied(jobs) : jobs.slots[x].j_status # "stopped"}}
  <2>1. proc' = [p \in Pids |-> IF p \in polled /\ proc[p] = "zombie" THEN "reaped" ELSE proc[p]]
    BY DEF Waited
  <2> HIDE DEF polled
  <2> QED
    BY <2>1 DEF Sound, TypeOK, ProcState
<1> QED
  BY <1>2, <1>3, <1>4, SMTT(30)

\* Everything that leaves the pids in the slots and processes that were made.
LEMMA OtherSound ==
  ASSUME Sound,
         \/ JobsCommand \/ Reap \/ ForegroundDone \/ QuitKill \/ ctrlCHandler
         \/ Wait("wait", "waited") \/ Wait("fgwait", "fgdone") \/ \E p \in Pids : Exit(p)
  PROVE  Sound'
<1>1. CASE JobsCommand
  BY <1>1, CollectSound, KeepSound DEF JobsCommand, Step
<1>2. CASE Reap
  <2>1. /\ jobs'.slots \in SlotsType /\ jobs'.stoppedd \subseteq Nat /\ Good(jobs'.slots)
        /\ \A k \in Slots : jobs'.slots[k].p_id = jobs.slots[k].p_id
        /\ proc' \in [Pids -> ProcState]
        /\ \A p \in Pids : proc'[p] = "unborn" => proc[p] = "unborn"
    BY <1>2, CollectSound DEF Reap
  <2>2. /\ UNCHANGED <<for_pid, for_cmd, shell>> /\ pc' = "prompt"
        /\ local' = [job_id |-> 0, pid |-> 0]
    BY <1>2 DEF Reap, Step
  <2>3. TypeOK'
    <3>1. local' \in [job_id : Nat, pid : 0..MaxProc]
      BY <2>2, JobsAssumption
    <3> QED
      BY <2>1, <2>2, <3>1 DEF Sound, TypeOK, SlotsType, Slots, Pids
  <2>4. PidsDistinct'
    BY <2>1 DEF Sound, PidsDistinct, Pid, Slots, Pids
  <2>5. Born'
    BY <2>1, <2>2, JobsAssumption, SMTT(30) DEF Sound, Born, Pid, Slots, Pids
  <2> QED
    BY <2>1, <2>3, <2>4, <2>5, SMTT(30) DEF Sound, Good, Slots
<1>3. CASE ForegroundDone
  <2>1. /\ UNCHANGED <<for_pid, for_cmd, proc, local, shell>> /\ pc' = "end"
        /\ jobs' = removeJobById(jobs, local.job_id) \/ jobs' = jobs
    BY <1>3 DEF ForegroundDone, Step
  <2>2. Good(jobs'.slots)
    BY <2>1, RemoveGood DEF Sound
  <2>3. /\ jobs'.slots \in SlotsType /\ jobs'.stoppedd \subseteq Nat
        /\ \A k \in Slots : jobs'.slots[k].p_id = jobs.slots[k].p_id
    <3>1. CASE jobs' = jobs
      BY <3>1 DEF Sound, TypeOK, SlotsType
    <3>2. CASE jobs' = removeJobById(jobs, local.job_id)
      BY <3>2, SMTT(30) DEF Sound, TypeOK, SlotsType, removeJobById, Entry, Status
    <3> QED
      BY <2>1, <3>1, <3>2
  <2> QED
    BY <2>1, <2>2, <2>3, KeepSound DEF Sound, TypeOK
<1>4. CASE QuitKill
  <2> DEFINE pids == {jobs.slots[i].p_id : i \in {k \in Occupied(jobs) : jobs.slots[k].j_status # "finished"}}
  <2>1. /\ UNCHANGED <<jobs, for_pid, for_cmd, local>> /\ shell' = "quit_kill" /\ pc' = "prompt"
        /\ proc' = [p \in Pids |-> IF p \in pids THEN After(proc[p], "KILL") ELSE proc[p]]
    BY <1>4 DEF QuitKill, Step, killAllJobs
  <2>2. \A x \in ProcState : After(x, "KILL") \in ProcState /\ (After(x, "KILL") = "unborn" => x = "unborn")
    BY DEF After, ProcState, Alive, Halted
  <2> HIDE DEF pids
  <2>3. proc' \in [Pids -> ProcState] /\ \A p \in Pids : proc'[p] = "unborn" => proc[p] = "unborn"
    BY <2>1, <2>2 DEF Sound, TypeOK
  <2> QED
    BY <2>1, <2>3, KeepSound DEF Sound, TypeOK, SlotsType
<1>5. CASE ctrlCHandler
  <2> DEFINE W == With(jobs, LAMBDA e : e.p_id = for_pid)
  <2>1. /\ UNCHANGED <<for_cmd, local, shell, pc>> /\ for_pid' = NoPid
        /\ proc' = kill(proc, for_pid, "KILL")
        /\ jobs' = [slots |-> Mark(jobs, W, "finished"), stoppedd |-> jobs.stoppedd]
    BY <1>5 DEF ctrlCHandler, Step
  <2>2. Good(jobs'.slots)
    BY <2>1, MarkGood DEF Sound
  <2> HIDE DEF W
  <2>3. /\ jobs'.slots \in SlotsType /\ jobs'.stoppedd \subseteq Nat
        /\ \A k \in Slots : jobs'.slots[k].p_id = jobs.slots[k].p_id
    BY <2>1, SMTT(30) DEF Sound, TypeOK, SlotsType, Mark, Entry, Status
  <2>4. /\ proc' \in [Pids -> ProcState]
        /\ \A q \in Pids : proc'[q] = "unborn" <=> proc[q] = "unborn"
    BY <2>1, Signalled, SMTT(30) DEF Sound, TypeOK, Signals
  <2> QED
    BY <2>1, <2>2, <2>3, <2>4, KeepSound
<1>6. CASE Wait("wait", "waited") \/ Wait("fgwait", "fgdone")
  <2>1. /\ UNCHANGED <<jobs, for_pid, for_cmd, local, shell>> /\ pc' \in {"waited", "fgdone"}
        /\ proc' = Reaped(proc, local.pid)
    BY <1>6 DEF Wait, Step
  <2>2. proc' \in [Pids -> ProcState] /\ \A p \in Pids : proc'[p] = "unborn" => proc[p] = "unborn"
    BY <2>1, SMTT(30) DEF Sound, TypeOK, Reaped, ProcState
  <2> QED
    BY <2>1, <2>2, KeepSound, SMTT(30) DEF Sound, TypeOK, SlotsType
<1>7. ASSUME NEW p \in Pids, Exit(p) PROVE Sound'
  <2>1. UNCHANGED <<jobs, for_pid, for_cmd, pc, local, shell>> /\ proc' = [proc EXCEPT ![p] = "zombie"]
    BY <1>7 DEF Exit
  <2>2. proc' \in [Pids -> ProcState] /\ \A q \in Pids : proc'[q] = "unborn" => proc[q] = "unborn"
    BY <2>1 DEF Sound, TypeOK, ProcState
  <2> QED
    BY <2>1, <2>2, KeepSound DEF Sound, TypeOK, SlotsType
<1> QED
  BY <1>1, <1>2, <1>3, <1>4, <1>5, <1>6, <1>7

\* A command that signals a job whose id is in a slot.
LEMMA ObeySound ==
  ASSUME Sound, NEW id \in Nat, id \in {jobs.slots[i].j_id : i \in Slots}, NEW sig \in Signals,
         Resume(id) \/ Background(id) \/ Kill(id, sig)
  PROVE  Sound'
<1> DEFINE i == getJobById(jobs, id)
<1>1. i \in Slots
  BY NamedSlot
<1>2. CASE Background(id) \/ Kill(id, sig)
  <2>1. /\ UNCHANGED <<for_pid, for_cmd, local, shell>> /\ pc' = "end"
        /\ \E g \in Signals : jobs' = send_SIG_TO_JOB(jobs, id, g) /\ proc' = kill(proc, PidOf(id), g)
    BY <1>2, SMTT(30) DEF Background, Kill, Step, Signals
  <2> HIDE DEF i
  <2> QED
    BY <1>1, <2>1, SignalSound, KeepSound, Zenon DEF i
<1>3. CASE Resume(id)
  <2>1. /\ UNCHANGED <<for_pid, for_cmd, shell>> /\ pc' = "fgset"
        /\ local' = [job_id |-> id, pid |-> PidOf(id)]
        /\ jobs' = send_SIG_TO_JOB(jobs, id, "CONT") /\ proc' = kill(proc, PidOf(id), "CONT")
    BY <1>3, Zenon DEF Resume, Step
  <2>2. /\ jobs'.slots \in SlotsType /\ jobs'.stoppedd \subseteq Nat /\ Good(jobs'.slots)
        /\ \A k \in Slots : jobs'.slots[k].p_id = jobs.slots[k].p_id
        /\ proc' \in [Pids -> ProcState]
        /\ \A p \in Pids : proc'[p] = "unborn" <=> proc[p] = "unborn"
    BY <1>1, <2>1, SignalSound, SMTT(30) DEF Signals
  <2>3. PidOf(id) = jobs.slots[i].p_id /\ jobs.slots[i].p_id \in 0..MaxProc
    BY <1>1, SMTT(30) DEF PidOf, Sound, TypeOK
  <2> HIDE DEF i
  <2>4. TypeOK'
    BY <2>1, <2>2, <2>3, SMTT(30) DEF Sound, TypeOK, SlotsType, Slots, Pids
  <2>5. PidsDistinct'
    BY <2>2, SMTT(30) DEF Sound, PidsDistinct, Pid, Slots, Pids
  <2>6. Born'
    BY <1>1, <2>1, <2>2, <2>3 DEF Sound, Born, Pid, Slots, Pids
  <2> QED
    BY <2>2, <2>4, <2>5, <2>6 DEF Sound, Good, Slots
<1> QED
  BY <1>2, <1>3

\* A line about jobs.
LEMMA TypedSound ==
  ASSUME Sound, NEW l \in Lines, Typed(l)
  PROVE  Sound'
<1> DEFINE ids == {jobs.slots[i].j_id : i \in Slots}
           o == Outcome(l, ids)
<1>1. /\ o.do \in {"fg", "bg", "kill"} => o.id \in ids /\ o.id \in Nat /\ o.id > 0
      /\ o.do = "kill" => Signal[o.sig] \in Signals
  BY Outcomes, Zenon
<1>2. Obeys(o)
  BY DEF Typed
<1> HIDE DEF o
<1>3. CASE ForkFails("prompt") \/ Abort \/ Quit
  BY <1>3, LocalSound DEF ForkFails, Abort, Quit
<1>4. CASE o.do = "fg" /\ Resume(o.id)
  BY <1>1, <1>4, ObeySound DEF Signals
<1>5. CASE ForegroundLast
  BY <1>5, LastSlot, ObeySound DEF ForegroundLast, Signals
<1>6. CASE o.do = "bg" /\ Background(o.id)
  BY <1>1, <1>6, ObeySound DEF Signals
<1>7. CASE BackgroundLast
  <2> DEFINE id == getLastStoppedJob(jobs)
  <2>1. CASE getJobById(jobs, id) = 0
    <3>1. UNCHANGED <<jobs, proc, for_pid, for_cmd, local>> /\ pc' = "end" /\ shell' = "crashed"
      BY <1>7, <2>1 DEF BackgroundLast, Step
    <3> QED
      BY <3>1, KeepSound DEF Sound, TypeOK, SlotsType
  <2>2. CASE getJobById(jobs, id) # 0
    <3>1. /\ UNCHANGED <<shell, for_pid, for_cmd, local>> /\ pc' = "end"
          /\ jobs' = send_SIG_TO_JOB(jobs, id, "CONT") /\ proc' = kill(proc, PidOf(id), "CONT")
      BY <1>7, <2>2 DEF BackgroundLast, Step
    <3>2. Named(jobs, id) # {} /\ getJobById(jobs, id) = Min(Named(jobs, id)) /\ Named(jobs, id) \subseteq Slots
      BY <2>2 DEF getJobById, Named, With
    <3>3. getJobById(jobs, id) \in Slots /\ id \in Nat
      <4>1. Min(Named(jobs, id)) \in Named(jobs, id)
        BY <3>2, MinExists
      <4> HIDE DEF id
      <4> QED
        BY <3>2, <4>1 DEF Named, With, Sound, Good
    <3> HIDE DEF id
    <3> QED
      BY <3>1, <3>3, SignalSound, KeepSound DEF Signals
  <2> QED
    BY <2>1, <2>2, SMTT(30)
<1>8. CASE o.do = "kill" /\ Kill(o.id, Signal[o.sig])
  BY <1>1, <1>8, ObeySound
<1>9. CASE QuitKill
  BY <1>9, OtherSound
<1> QED
  BY <1>2, <1>3, <1>4, <1>5, <1>6, <1>7, <1>8, <1>9 DEF Obeys

\* Every step keeps types and pids sound.
LEMMA SoundInductive ==
  ASSUME Sound, [Next]_vars
  PROVE  Sound'
<1>1. CASE Command
  <2>1. CASE ForkFails("prompt")
    BY <2>1, LocalSound DEF ForkFails
  <2> QED
    BY <1>1, <2>1, ForkSound, AddSound, OtherSound, TypedSound DEF Command
<1>2. CASE Continue
  <2>1. CASE SetForPid \/ SetForCmd \/ ClearForeground \/ ForkFails("added") \/ ForegroundSet \/ ResetCmd \/ ResetPid
    <3>1. UNCHANGED <<jobs, proc>>
      BY <2>1, SMTT(30) DEF SetForPid, SetForCmd, ClearForeground, ForkFails, ForegroundSet, ResetCmd, ResetPid
    <3> QED
      BY <2>1, <3>1, LocalSound
  <2> QED
    BY <1>2, <2>1, ForkBackgroundSound, OtherSound DEF Continue
<1>3. CASE UNCHANGED vars
  BY <1>3 DEF vars, Sound, TypeOK, Good, PidsDistinct, Born, Pid, Slots, Pids
<1> QED
  BY <1>1, <1>2, <1>3, CtrlZSound, OtherSound DEF Next
=============================================================================
