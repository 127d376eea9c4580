--------------------------- MODULE ProcessWeights ---------------------------
(***************************************************************************)
(* The weight system calls of the kernel ("Linux Kernel").  Every task has *)
(* a weight (a field added to task_struct).  A task may set and read its   *)
(* own weight, sum the weights of its descendants, and ask for the         *)
(* heaviest of its ancestors.                                              *)
(*                                                                         *)
(* The two queries walk the process tree without holding a lock.  Other    *)
(* processors fork, exit, reap and set weights between two reads of a      *)
(* walk, so a walk is one step per task it visits.  One query at a time is *)
(* modelled: walks write nothing that another walk reads.                  *)
(*                                                                         *)
(* fork, exit and wait are the kernel's (external): a child is put at the  *)
(* tail of its parent's list with a copy of the parent's task_struct, the  *)
(* children of an exiting task move to the tail of init's list, and a      *)
(* zombie stays on its parent's list until it is released.                 *)
(***************************************************************************)
EXTENDS Integers, Sequences, FiniteSets, SequencesExt, FiniteSetsExt

CONSTANTS MaxPid,    \* pids are never used twice: MaxPid bounds the forks
          MaxWeight  \* the largest weight a task asks for

ASSUME SizesAssumption == MaxPid \in Nat \ {0} /\ MaxWeight \in Nat

VARIABLES state,       \* pid -> "unused", "live", "zombie" or "freed"
          real_parent, \* pid -> pid of the parent
          children,    \* pid -> the list of its children
          weight,      \* pid -> task_struct.weight
          call,        \* the query in progress
          seen         \* what the query could have seen so far (history)

tree == <<state, real_parent, children>>
vars == <<tree, weight, call, seen>>

Pids == 0 .. MaxPid
Reaper == 1
Asking == call.op # "none"

(* The current task of a query is inside the kernel: it does not fork, exit *)
(* or set its weight meanwhile.                                             *)
Running(p) == state[p] = "live" /\ p # 0 /\ (Asking => p # call.by)

---------------------------------------------------------------------------
(* Reference definitions: the descendants of a task, and the tasks from it  *)
(* up to init, nearest first.                                               *)
RECURSIVE Below(_)
Below(p) == UNION {{c} \cup Below(c) : c \in ToSet(children[p])}

RECURSIVE Above(_)
Above(p) == IF p = 0 THEN <<>> ELSE <<p>> \o Above(real_parent[p])

Subject(c) == IF c.op \in {"sum", "summed"} THEN Below(c.by) ELSE ToSet(Above(c.by))

Weigh(w, set) == MapThenSumSet(LAMBDA p : w[p], set)

---------------------------------------------------------------------------
(* list_for_each: a position is the sibling node of a task, or the head of  *)
(* a task's list of children.                                               *)
ListHead(p) == [head |-> TRUE, task |-> p]
Sibling(p)  == [head |-> FALSE, task |-> p]

(* Mutant: the entry is taken from the children link instead of the sibling link. *)
WrongLink(n) == LET s == children[n.task]
                IN  IF s = <<>> THEN ListHead(n.task) ELSE Sibling(s[1])

Following(n) == LET r == IF n.head THEN n.task ELSE real_parent[n.task]
                    s == children[r]
                    i == IF n.head THEN 0 ELSE CHOOSE k \in DOMAIN s : s[k] = n.task
                IN  IF i = Len(s) THEN ListHead(r) ELSE Sibling(s[i + 1])

(* The tasks other than the caller whose nodes or fields the walk will read. *)
OnWalk == CASE call.op = "sum" -> UNION {{f.root, f.list.task} : f \in ToSet(call.stack)} \ {call.by}
            [] call.op = "heaviest" -> {call.task}
            [] OTHER -> {}

(* Bookkeeping of a step beside the walk; `pulled` are the tasks whose links *)
(* or memory the step takes away.                                            *)
Watch(pulled) ==
    /\ UNCHANGED call
    /\ seen' = IF ~Asking THEN seen
               ELSE LET s == Subject(call)' IN
                    [ever   |-> seen.ever \cup s,
                     always |-> seen.always \cap s,
                     least  |-> [p \in Pids |-> Min({seen.least[p], weight'[p]})],
                     most   |-> [p \in Pids |-> Max({seen.most[p], weight'[p]})],
                     pulled |-> seen.pulled \/ pulled \cap OnWalk # {}]

---------------------------------------------------------------------------
Init == /\ state = [p \in Pids |-> IF p <= Reaper THEN "live" ELSE "unused"]
        /\ real_parent = [p \in Pids |-> 0]
        /\ children = [p \in Pids |-> IF p = 0 THEN <<Reaper>> ELSE <<>>]
        /\ weight = [p \in Pids |-> 0]
        /\ call = [op |-> "none"]
        /\ seen = <<>>

(* fork copies the task_struct, the weight included. *)
Fork(p) == /\ Running(p)
           /\ \E c \in Pids :
                /\ state[c] = "unused"
                /\ \A q \in Pids : state[q] = "unused" => c <= q
                /\ state' = [state EXCEPT ![c] = "live"]
                /\ real_parent' = [real_parent EXCEPT ![c] = p]
                /\ children' = [children EXCEPT ![p] = Append(@, c)]
                /\ weight' = [weight EXCEPT ![c] = weight[p]]
           /\ Watch({})

Exit(p) == /\ Running(p) /\ p # Reaper
           /\ state' = [state EXCEPT ![p] = "zombie"]
           /\ real_parent' = [q \in Pids |-> IF q \in ToSet(children[p]) THEN Reaper ELSE real_parent[q]]
           /\ children' = [children EXCEPT ![p] = <<>>, ![Reaper] = @ \o children[p]]
           /\ UNCHANGED weight
           /\ Watch(IF call.op = "sum" THEN ToSet(children[p]) ELSE {})

Release(p) == /\ state[p] = "zombie"
              /\ state' = [state EXCEPT ![p] = "freed"]
              /\ children' = [children EXCEPT ![real_parent[p]] = SelectSeq(@, LAMBDA q : q # p)]
              /\ UNCHANGED <<real_parent, weight>>
              /\ Watch({p})

(* sys_set_weight: a negative weight is refused with -EINVAL and changes nothing. *)
set_weight(p, w) == /\ Running(p)
                    /\ w >= 0
                    /\ weight' = [weight EXCEPT ![p] = w]
                    /\ UNCHANGED tree
                    /\ Watch({})

---------------------------------------------------------------------------
Start(c) == /\ call' = c
            /\ seen' = [ever |-> Subject(c), always |-> Subject(c), least |-> weight,
                        most |-> weight, pulled |-> FALSE]
            /\ UNCHANGED <<tree, weight>>

Step(c) == call' = c /\ UNCHANGED <<tree, weight, seen>>

(* Mutant: the sum of a subtree starts from zero. *)
EmptyFrame(p) == [root |-> p, sum |-> 0, list |-> Following(ListHead(p))]

(* Entering traverse_children_sum_weight. *)
Frame(p) == [root |-> p, sum |-> weight[p], list |-> Following(ListHead(p))]

(* sys_get_children_sum; a task without children gets -ECHILD at once. *)
get_children_sum(p) ==
    /\ call.op = "none" /\ Running(p)
    /\ children[p] # <<>>
    /\ Start([op |-> "sum", by |-> p, stack |-> <<Frame(p)>>])

(* traverse_children_sum_weight: descend into the child at the position; at *)
(* the end of the list add the sum to the frame below and move that one on. *)
(* A freed node, or the head of another list, is taken for a task: the walk *)
(* goes astray.                                                             *)
Traverse ==
    /\ call.op = "sum"
    /\ LET n == Len(call.stack)
           f == call.stack[n]
           up == call.stack[n - 1]
       IN \/ /\ ~f.list.head /\ state[f.list.task] # "freed"
             /\ Step([call EXCEPT !.stack = Append(@, Frame(f.list.task))])
          \/ /\ f.list = ListHead(f.root) /\ n = 1
             /\ Step([op |-> "summed", by |-> call.by, value |-> f.sum - weight[call.by]])
          \/ /\ f.list = ListHead(f.root) /\ n > 1 /\ state[up.list.task] # "freed"
             /\ Step([call EXCEPT !.stack = Append(SubSeq(@, 1, n - 2),
                        [up EXCEPT !.sum = @ + f.sum, !.list = Following(@)])])
          \/ /\ \/ f.list.head /\ f.list.task # f.root
                \/ ~f.list.head /\ state[f.list.task] = "freed"
                \/ f.list = ListHead(f.root) /\ n > 1 /\ state[up.list.task] = "freed"
             /\ Step([op |-> "stray", by |-> call.by])

(* Mutant: a later ancestor of the same weight wins. *)
AtLeast(w, m) == w >= m

Heavier(w, m) == w > m

(* sys_get_heaviest_ancestor *)
get_heaviest_ancestor(p) ==
    /\ call.op = "none" /\ Running(p)
    /\ Start([op |-> "heaviest", by |-> p, task |-> real_parent[p], max_w |-> weight[p], max_p |-> p])

(* Its loop. *)
Climb ==
    /\ call.op = "heaviest"
    /\ LET t == call.task
           c == [call EXCEPT !.task = real_parent[t]]
       IN \/ state[t] = "freed" /\ Step([op |-> "stray", by |-> call.by])
          \/ t = 0 /\ Step([op |-> "found", by |-> call.by, value |-> call.max_p])
          \/ /\ t # 0 /\ state[t] # "freed"
             /\ Step(IF Heavier(weight[t], call.max_w) THEN [c EXCEPT !.max_w = weight[t], !.max_p = t] ELSE c)

Return == /\ call.op \in {"summed", "found"}
          /\ call' = [op |-> "none"] /\ seen' = <<>>
          /\ UNCHANGED <<tree, weight>>

Next == \/ \E p \in Pids : \/ Fork(p) \/ Exit(p) \/ Release(p)
                           \/ \E w \in -1 .. MaxWeight : set_weight(p, w)
                           \/ get_children_sum(p) \/ get_heaviest_ancestor(p)
        \/ Traverse \/ Climb \/ Return

Spec == Init /\ [][Next]_vars

---------------------------------------------------------------------------
(* Every task on a list names the owner of the list as its parent, no list  *)
(* holds a task twice, and no task has a negative weight.                   *)
TypeOK == /\ state \in [Pids -> {"unused", "live", "zombie", "freed"}]
          /\ weight \in [Pids -> 0 .. MaxWeight]
          /\ \A p \in Pids : \A q \in ToSet(children[p]) :
                state[q] \in {"live", "zombie"} /\ real_parent[q] = p
          /\ \A p \in Pids : IsInjective(children[p])

(* The answer of sys_get_children_sum lies between what the tasks that were  *)
(* descendants throughout weighed at least and what those that ever were     *)
(* weighed at most; with nothing changing it is the sum of the descendants'  *)
(* weights.  Not promised: when a task the walk stands on is moved or freed, *)
(* and to init, whose list the orphans of a task already counted join.       *)
SumBounded == call.op = "summed" /\ ~seen.pulled /\ call.by # Reaper =>
    /\ call.value >= Weigh(seen.least, seen.always)
    /\ call.value <= Weigh(seen.most, seen.ever)

(* The answer of sys_get_heaviest_ancestor was the caller or an ancestor     *)
(* during the call, and no lasting ancestor was always heavier; with nothing *)
(* changing it is the nearest of the heaviest.                               *)
HeaviestFound == call.op = "found" /\ ~seen.pulled =>
    /\ call.value \in seen.ever
    /\ \A a \in seen.always : seen.least[a] <= seen.most[call.value]
    /\ seen.always = seen.ever /\ seen.least = seen.most =>
          \A i \in DOMAIN Above(call.by) : LET a == Above(call.by) IN
              a[i] = call.value => \A j \in 1 .. i - 1 : weight[a[j]] < weight[a[i]]

(* A walk leaves the tree only if a task it stands on was taken from under   *)
(* it: a fork, a change of weight, and the exit of other tasks never make it *)
(* lose its way.  The tree itself stays consistent throughout.               *)
WalkStays == TypeOK /\ (call.op = "stray" => seen.pulled)
=============================================================================
