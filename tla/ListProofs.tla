----------------------------- MODULE ListProofs -----------------------------
(***************************************************************************)
(* What the list of FIFO_queue.c looks like at every step until            *)
(* handle_overload() is first called, and what follows from it: no pointer *)
(* is followed that should not be, the counters are exact, and no wakeup   *)
(* is lost.                                                                *)
(***************************************************************************)
EXTENDS OrderProofs

\* Where a worker has taken a node out of the list and not yet counted it.
TakenPC == {"tailchk", "tailset", "free", "decq", "decq2"}

\* Where the master has linked its node and not yet counted it.
LinkPC == {"etail", "incq", "incq2"}

\* Nothing leads to a freed node, and new nodes are neither freed nor linked.
Nodes ==
  /\ proc \notin {"crashed", "corrupted"}
  /\ Queued \cap freed = {} /\ freed \subseteq Arrived
  /\ \A c \in Conns \ Arrived : next[c] = NULL
  /\ pc[Main] \in Unlinked => next[fd[Main]] = NULL /\ fd[Main] \notin freed

\* tail is the last node of a list that has one, but while the master links.
LastNode ==
  head # NULL /\ pc[Main] \notin {"etail", "enext1"} => tail \in Queued /\ next[tail] = NULL

\* What the tests of enqueue() have found out.
MasterAt ==
  /\ pc[Main] = "ehead0" => head = NULL
  /\ pc[Main] \in {"ecmp", "etail1", "enext1", "enext2"} => head # NULL
  /\ pc[Main] = "etail1" => tail = head
  /\ pc[Main] = "enext1" => tail = fd[Main] /\ next[head] = NULL
  /\ pc[Main] = "etail" => fd[Main] \in Queued /\ next[fd[Main]] = NULL

\* What dequeue() has found out, and the node that it is about to free.
WorkerAt ==
  \A w \in Workers :
    /\ pc[w] \in {"read", "unlink"} => head # NULL
    /\ pc[w] = "unlink" => tmp[w] = head
    /\ pc[w] = "tailset" => head = NULL
    /\ pc[w] \in {"tailchk", "tailset", "free"} =>
         /\ tmp[w] \in Arrived \ (Queued \cup freed)
         /\ pc[Main] \in Unlinked => tmp[w] # fd[Main]

\* queue_size is the length of the list, but for the step under way.
Sizes ==
  /\ pc[Main] \notin LinkPC /\ (\A w \in Workers : pc[w] \notin TakenPC) =>
       queue_size = Cardinality(Queued)
  /\ \A w \in Workers : pc[w] \in TakenPC => queue_size = Cardinality(Queued) + 1
  /\ pc[Main] \in LinkPC => queue_size + 1 = Cardinality(Queued)

\* When all workers sleep there is nothing in the list but what the master is
\* about to announce.
Asleep ==
  Workers # {} /\ (\A w \in Workers : pc[w] = "wait") =>
    Queued = IF pc[Main] \in LinkPC THEN {fd[Main]} ELSE {}

List == Nodes /\ LastNode /\ MasterAt /\ WorkerAt /\ Sizes /\ Asleep

LInv == IInv /\ Order /\ (~overloaded => List)

-----------------------------------------------------------------------------
(* The nodes that can be reached from h along n.                           *)

Reach(h, n) ==
  {c \in Conns : \A S \in SUBSET Conns :
     h \in S \cup {NULL} /\ (\A d \in S : n[d] \in S \cup {NULL}) => c \in S}

\* Queued is what can be reached from head, before a step and after it.
LEMMA QueuedReach == Queued = Reach(head, next) /\ Queued' = Reach(head', next')
BY DEF Queued, Reach

\* What can be reached is contained in every set closed under n that has h.
LEMMA ReachLeast ==
  ASSUME NEW h, NEW n, NEW S \in SUBSET Conns,
         h \in S \cup {NULL}, \A d \in S : n[d] \in S \cup {NULL}
  PROVE  Reach(h, n) \subseteq S
BY DEF Reach

\* It is such a set itself.
LEMMA ReachClosed ==
  ASSUME NEW h \in Ptr, NEW n \in [Conns -> Ptr]
  PROVE  /\ Reach(h, n) \subseteq Conns
         /\ h \in Reach(h, n) \cup {NULL}
         /\ \A d \in Reach(h, n) : n[d] \in Reach(h, n) \cup {NULL}
<1>1. Reach(h, n) \subseteq Conns
  BY DEF Reach
<1>2. h \in Reach(h, n) \cup {NULL}
  BY MainIsNotAWorker DEF Reach, Ptr
<1>3. ASSUME NEW d \in Reach(h, n), n[d] # NULL PROVE n[d] \in Reach(h, n)
  <2>1. n[d] \in Conns
    BY <1>1, <1>3 DEF Ptr
  <2>2. ASSUME NEW S \in SUBSET Conns, h \in S \cup {NULL},
               \A e \in S : n[e] \in S \cup {NULL}
        PROVE  n[d] \in S
    BY <1>3, <2>2 DEF Reach
  <2> QED
    BY <2>1, <2>2 DEF Reach
<1> QED
  BY <1>1, <1>2, <1>3

\* It is finite.
LEMMA ReachFinite == \A h, n : IsFiniteSet(Reach(h, n)) /\ Cardinality(Reach(h, n)) \in Nat
<1>1. IsFiniteSet(Conns)
  BY FS_Interval, MaxConnAssumption DEF Conns
<1>2. \A h, n : Reach(h, n) \subseteq Conns
  BY DEF Reach
<1> QED
  BY <1>1, <1>2, FS_Subset, FS_CardinalityType

\* Nothing can be reached from NULL.
LEMMA ReachNull == \A n : Reach(NULL, n) = {}
<1> SUFFICES ASSUME NEW n, NEW c \in Reach(NULL, n) PROVE FALSE
  OBVIOUS
<1>1. \A S \in SUBSET Conns :
        NULL \in S \cup {NULL} /\ (\A d \in S : n[d] \in S \cup {NULL}) => c \in S
  BY DEF Reach
<1>2. {} \in SUBSET Conns
  OBVIOUS
<1> QED
  BY <1>1, <1>2

\* In an ordered list, unlinking the first node takes that node away and no other.
LEMMA ReachUnlink ==
  ASSUME NEW h \in Conns, NEW n \in [Conns -> Ptr],
         \A c \in Conns : n[c] # NULL => c < n[c]
  PROVE  /\ Reach(n[h], n) = Reach(h, n) \ {h}
         /\ h \in Reach(h, n)
<1> DEFINE R == Reach(h, n)
<1>1. /\ R \subseteq Conns /\ h \in R /\ h # NULL
      /\ \A d \in R : n[d] \in R \cup {NULL}
  BY ReachClosed, MainIsNotAWorker DEF Ptr
<1>2. \A c \in R : h <= c
  <2> DEFINE S == {c \in R : h <= c}
  <2>1. S \in SUBSET Conns /\ h \in S
    BY <1>1 DEF Conns
  <2>2. ASSUME NEW d \in S PROVE n[d] \in S \cup {NULL}
    <3>1. d \in Conns /\ h <= d /\ n[d] \in R \cup {NULL}
      BY <1>1
    <3>2. CASE n[d] # NULL
      <4>1. d < n[d] /\ n[d] \in Conns
        BY <1>1, <3>1, <3>2
      <4>2. h <= n[d]
        BY <3>1, <4>1 DEF Conns
      <4> QED
        BY <3>1, <3>2, <4>2
    <3> QED
      BY <3>2
  <2>3. R \subseteq S
    BY <2>1, <2>2, ReachLeast
  <2> QED
    BY <2>3
<1>3. Reach(n[h], n) \subseteq R \ {h}
  <2>1. ASSUME NEW d \in R, n[d] # NULL PROVE n[d] \in R \ {h}
    <3>1. d < n[d] /\ h <= d /\ d \in Conns /\ n[d] \in R
      BY <1>1, <1>2, <2>1
    <3>2. n[d] # h
      BY <1>1, <3>1 DEF Conns
    <3> QED
      BY <3>1, <3>2
  <2> DEFINE S == R \ {h}
  <2>2. S \in SUBSET Conns /\ n[h] \in S \cup {NULL}
    BY <1>1, <2>1
  <2>3. \A d \in S : n[d] \in S \cup {NULL}
    BY <2>1
  <2> HIDE DEF S
  <2>4. Reach(n[h], n) \subseteq S
    BY <2>2, <2>3, ReachLeast
  <2> QED
    BY <2>4 DEF S
<1>4. R \subseteq Reach(n[h], n) \cup {h}
  <2>1. n[h] \in Ptr
    OBVIOUS
  <2>2. /\ Reach(n[h], n) \subseteq Conns /\ n[h] \in Reach(n[h], n) \cup {NULL}
        /\ \A d \in Reach(n[h], n) : n[d] \in Reach(n[h], n) \cup {NULL}
    BY <2>1, ReachClosed
  <2> DEFINE S == Reach(n[h], n) \cup {h}
  <2>3. S \in SUBSET Conns /\ h \in S \cup {NULL}
    BY <2>2
  <2>4. \A d \in S : n[d] \in S \cup {NULL}
    BY <2>2
  <2> HIDE DEF S
  <2>5. R \subseteq S
    BY <2>3, <2>4, ReachLeast
  <2> QED
    BY <2>5 DEF S
<1> QED
  BY <1>1, <1>3, <1>4

\* Linking a new node behind the last one adds that node and no other.
LEMMA ReachLink ==
  ASSUME NEW h \in Ptr, NEW n \in [Conns -> Ptr], NEW a \in Reach(h, n), n[a] = NULL,
         NEW c \in Conns, c # a, n[c] = NULL, NEW m \in [Conns -> Ptr],
         m[a] = c, \A d \in Conns : d # a => m[d] = n[d]
  PROVE  Reach(h, m) = Reach(h, n) \cup {c}
<1>1. /\ Reach(h, n) \subseteq Conns /\ h \in Reach(h, n) \cup {NULL}
      /\ \A d \in Reach(h, n) : n[d] \in Reach(h, n) \cup {NULL}
  BY ReachClosed
<1>2. /\ m \in [Conns -> Ptr] /\ m[a] = c /\ m[c] = NULL
      /\ \A d \in Conns : d # a => m[d] = n[d]
  BY <1>1, MainIsNotAWorker
<1>3. /\ Reach(h, m) \subseteq Conns /\ h \in Reach(h, m) \cup {NULL}
      /\ \A d \in Reach(h, m) : m[d] \in Reach(h, m) \cup {NULL}
  BY <1>2, ReachClosed
<1>4. Reach(h, m) \subseteq Reach(h, n) \cup {c}
  <2> DEFINE S == Reach(h, n) \cup {c}
  <2>1. S \in SUBSET Conns /\ h \in S \cup {NULL}
    BY <1>1
  <2>2. \A d \in S : m[d] \in S \cup {NULL}
    BY <1>1, <1>2
  <2> HIDE DEF S
  <2>3. Reach(h, m) \subseteq S
    BY <2>1, <2>2, ReachLeast
  <2> QED
    BY <2>3 DEF S
<1>5. Reach(h, n) \subseteq Reach(h, m)
  <2>1. \A d \in Reach(h, m) : n[d] \in Reach(h, m) \cup {NULL}
    BY <1>2, <1>3
  <2> QED
    BY <1>3, <2>1, ReachLeast
<1>6. c \in Reach(h, m)
  BY <1>2, <1>3, <1>5, MainIsNotAWorker
<1> QED
  BY <1>4, <1>5, <1>6

\* The same of the queue.
LEMMA QueuedLink ==
  ASSUME head \in Ptr, next \in [Conns -> Ptr], next' \in [Conns -> Ptr], head' = head,
         NEW a \in Queued, next[a] = NULL, NEW c \in Conns, c # a, next[c] = NULL,
         next'[a] = c, \A d \in Conns : d # a => next'[d] = next[d]
  PROVE  Queued' = Queued \cup {c}
<1>1. a \in Reach(head, next)
  BY QueuedReach
<1>2. Reach(head, next') = Reach(head, next) \cup {c}
  BY <1>1, ReachLink
<1> QED
  BY <1>2, QueuedReach

\* The first node of an empty list.
LEMMA ReachFirst ==
  ASSUME NEW n \in [Conns -> Ptr], NEW c \in Conns, n[c] = NULL
  PROVE  Reach(c, n) = {c}
<1>1. Reach(c, n) \subseteq {c}
  <2>1. {c} \in SUBSET Conns /\ c \in {c} \cup {NULL}
    OBVIOUS
  <2>2. \A d \in {c} : n[d] \in {c} \cup {NULL}
    OBVIOUS
  <2> QED
    BY <2>1, <2>2, ReachLeast
<1>2. c \in Reach(c, n)
  BY ReachClosed, MainIsNotAWorker
<1> QED
  BY <1>1, <1>2

-----------------------------------------------------------------------------
(* Every step keeps List.                                                  *)

\* The nodes of the list have arrived, and the one that the master has not
\* linked is not among them.
LEMMA Members ==
  ASSUME TypeOK, Order
  PROVE  /\ Queued \subseteq Arrived /\ Arrived \subseteq Conns
         /\ head # NULL => head \in Queued
         /\ head = NULL <=> Queued = {}
         /\ IsFiniteSet(Queued) /\ Cardinality(Queued) \in Nat
         /\ pc[Main] \in Unlinked => fd[Main] \in Arrived \ Queued
<1>1. Arrived \subseteq Conns /\ next \in [Conns -> Ptr] /\ head \in Ptr
  BY DEF Arrived, TypeOK
<1>2. Queued \subseteq Arrived
  <2>1. Arrived \in SUBSET Conns /\ head \in Arrived \cup {NULL}
    BY <1>1 DEF Order, Known
  <2>2. \A d \in Arrived : next[d] \in Arrived \cup {NULL}
    BY <1>1 DEF Order, Known
  <2> QED
    BY <2>1, <2>2, ReachLeast, QueuedReach
<1>3. (head # NULL => head \in Queued) /\ (head = NULL <=> Queued = {})
  BY <1>1, ReachClosed, ReachNull, QueuedReach
<1>4. IsFiniteSet(Queued) /\ Cardinality(Queued) \in Nat
  BY ReachFinite, QueuedReach
<1>5. ASSUME pc[Main] \in Unlinked PROVE fd[Main] \in Arrived \ Queued
  <2>1. fd[Main] \in Arrived
    BY <1>5 DEF Order, Newest, Unlinked
  <2> DEFINE S == Conns \ {fd[Main]}
  <2>2. S \in SUBSET Conns /\ head \in S \cup {NULL}
    BY <1>1, <1>5 DEF Order, Apart, Ptr
  <2>3. \A d \in S : next[d] \in S \cup {NULL}
    BY <1>1, <1>5 DEF Order, Apart, Ptr
  <2>4. fd[Main] \notin S
    OBVIOUS
  <2> HIDE DEF S
  <2>5. Queued \subseteq S
    BY <2>2, <2>3, ReachLeast, QueuedReach
  <2> QED
    BY <2>1, <2>4, <2>5
<1> QED
  BY <1>1, <1>2, <1>3, <1>4, <1>5

Resting == {"lock", "wait", "handle", "lock2"}

\* When the master is in its section no worker is in one ...
LEMMA MasterAlone ==
  ASSUME ControlOK, Exclusive, Critical(Main)
  PROVE  \A w \in Workers : pc[w] \in Resting
BY MainIsNotAWorker DEF ControlOK, Exclusive, Critical, Resting

\* ... and when a worker is, no other worker and not the master.
LEMMA WorkerAlone ==
  ASSUME ControlOK, Exclusive, NEW w \in Workers, pc[w] \notin Resting
  PROVE  /\ \A u \in Workers : u # w => pc[u] \in Resting
         /\ pc[Main] \in {"accept", "mlock"}
BY MainIsNotAWorker DEF ControlOK, Exclusive, Critical, Resting, PlainMainPC, EnqueuePC

\* Where a worker is in dequeue() and knows something of the list.
DequeuePC == {"read", "unlink", "tailchk", "tailset", "free"}

\* A step that leaves the list alone, in which no worker comes to know more.
LEMMA RestKeeps ==
  ASSUME List, UNCHANGED <<head, tail, next, freed, queue_size>>,
         Arrived' = Arrived, fd'[Main] = fd[Main], pc'[Main] = pc[Main],
         proc' \notin {"crashed", "corrupted"},
         \A u \in Workers : /\ pc'[u] \in DequeuePC => pc'[u] = pc[u] /\ tmp'[u] = tmp[u]
                            /\ pc'[u] \in TakenPC <=> pc[u] \in TakenPC
                            /\ pc'[u] = "wait" => pc[u] = "wait"
  PROVE  List'
<1>1. Queued' = Queued
  BY QueuedReach
<1>2. Nodes' /\ LastNode' /\ MasterAt'
  BY <1>1 DEF List, Nodes, LastNode, MasterAt
<1>3. WorkerAt'
  BY <1>1 DEF List, WorkerAt, DequeuePC
<1>4. Sizes'
  BY <1>1 DEF List, Sizes
<1>5. Asleep'
  BY <1>1 DEF List, Asleep
<1> QED
  BY <1>2, <1>3, <1>4, <1>5 DEF List

\* The steps of a worker outside dequeue().
LEMMA OutsideKeeps ==
  ASSUME TypeOK, Order, List, NEW w \in Workers,
         \/ Lock(w, "lock", "check") \/ Lock(w, "lock2", "dech")
         \/ LoadQueueSize(w, "decq", "decq2")
         \/ LoadHandled(w, "inch", "inch2") \/ StoreHandled(w, "inch2", "unlock", 1)
         \/ LoadHandled(w, "dech", "dech2") \/ StoreHandled(w, "dech2", "signal", -1)
         \/ WorkerUnlock(w) \/ RequestDone(w) \/ RequestExits(w)
  PROVE  List'
<1> USE MainIsNotAWorker DEF Goto, queueVars, localVars, countVars
<1>0. /\ pc \in [Threads -> WorkerPC \cup MainPC]
      /\ proc \notin {"crashed", "corrupted"}
  BY DEF TypeOK, List, Nodes
<1>1. /\ UNCHANGED <<head, tail, next, freed, queue_size, conn, fd, tmp>>
      /\ proc' \notin {"crashed", "corrupted"}
  BY <1>0 DEF Lock, LoadQueueSize, LoadHandled, StoreHandled, WorkerUnlock, RequestDone,
              RequestExits, Die
<1>2. /\ pc'[Main] = pc[Main]
      /\ \A u \in Workers : /\ pc'[u] \in DequeuePC => pc'[u] = pc[u]
                            /\ pc'[u] \in TakenPC <=> pc[u] \in TakenPC
                            /\ pc'[u] = "wait" => pc[u] = "wait"
  BY <1>0 DEF Lock, LoadQueueSize, LoadHandled, StoreHandled, WorkerUnlock, RequestDone,
              RequestExits, Die, DequeuePC, TakenPC
<1>3. Arrived' = Arrived
  BY <1>1 DEF Arrived
<1> QED
  BY <1>1, <1>2, <1>3, RestKeeps

\* WorkerSignal, WorkerClose and a spurious wakeup.
LEMMA WakeKeeps ==
  ASSUME TypeOK, Order, Exclusive, List,
         \/ \E w \in Workers : WorkerSignal(w) \/ WorkerClose(w)
         \/ \E t \in Threads : SpuriousWakeup(t)
  PROVE  List'
<1> USE MainIsNotAWorker DEF Goto, queueVars, localVars, countVars
<1>0. /\ pc \in [Threads -> WorkerPC \cup MainPC] /\ fd \in [Threads -> Ptr]
      /\ proc \notin {"crashed", "corrupted"} /\ pc[Main] # "wait"
  BY DEF TypeOK, List, Nodes, Exclusive, PlainMainPC, EnqueuePC
<1>1. UNCHANGED <<head, tail, next, freed, queue_size, tmp, proc>> /\ fd'[Main] = fd[Main]
  BY <1>0 DEF WorkerSignal, WorkerClose, SpuriousWakeup
<1>2. /\ pc'[Main] = pc[Main]
      /\ \A u \in Workers : /\ pc'[u] \in DequeuePC => pc'[u] = pc[u]
                            /\ pc'[u] \in TakenPC <=> pc[u] \in TakenPC
                            /\ pc'[u] = "wait" => pc[u] = "wait"
  BY <1>0 DEF WorkerSignal, WorkerClose, SpuriousWakeup, Broadcast, Awake, DequeuePC, TakenPC
<1>3. Arrived' = Arrived
  <2>1. ASSUME NEW w \in Workers, WorkerClose(w) PROVE Arrived' = Arrived
    <3>1. fd[w] \in Arrived \cup {NULL}
      BY DEF Order, Known
    <3> QED
      BY <2>1, <3>1, CloseArrived DEF WorkerClose
  <2>2. CASE conn' = conn
    BY <2>2 DEF Arrived
  <2> QED
    BY <2>1, <2>2 DEF WorkerSignal, SpuriousWakeup
<1> QED
  BY <1>0, <1>1, <1>2, <1>3, RestKeeps

\* The tests of dequeue(), and reading the first node: head is not NULL there,
\* and the node is not freed.
LEMMA DequeueReads ==
  ASSUME TypeOK, Order, Exclusive, List, NEW w \in Workers,
         DequeueCheck(w) \/ DequeueRead(w) \/ DequeueTailCheck(w)
  PROVE  List'
<1> USE MainIsNotAWorker DEF Goto, queueVars, localVars, countVars
<1>0. /\ pc \in [Threads -> WorkerPC \cup MainPC] /\ fd \in [Threads -> Ptr]
      /\ tmp \in [Threads -> Ptr]
  BY DEF TypeOK
<1>1. pc[w] = "read" => Valid(head)
  BY Members DEF List, WorkerAt, Nodes, Valid
<1>2. /\ UNCHANGED <<head, tail, next, freed, queue_size, conn, proc>>
      /\ fd'[Main] = fd[Main] /\ pc'[Main] = pc[Main]
  BY <1>0, <1>1 DEF DequeueCheck, DequeueRead, DequeueTailCheck, CondWait, Fault, Die, Valid
<1>3. /\ pc[w] \in {"check", "read", "tailchk"}
      /\ \A u \in Workers : u # w => pc'[u] = pc[u] /\ tmp'[u] = tmp[u]
  BY <1>0, <1>1 DEF DequeueCheck, DequeueRead, DequeueTailCheck, CondWait, Fault, Die, Valid
<1>4. /\ \A u \in Workers : u # w => pc[u] \in Resting
      /\ pc[Main] \in {"accept", "mlock"}
  <2>1. ControlOK
    BY DEF TypeOK, ControlOK
  <2> QED
    BY <1>3, <2>1, WorkerAlone DEF Resting
<1>5. \/ pc[w] = "check" /\ pc'[w] = "read" /\ head # NULL
      \/ pc[w] = "check" /\ pc'[w] = "wait" /\ head = NULL
      \/ pc[w] = "read" /\ pc'[w] = "unlink" /\ head # NULL /\ tmp'[w] = head
      \/ pc[w] = "tailchk" /\ pc'[w] = "tailset" /\ head = NULL /\ tmp'[w] = tmp[w]
      \/ pc[w] = "tailchk" /\ pc'[w] = "free" /\ tmp'[w] = tmp[w]
  <2>1. CASE DequeueCheck(w)
    BY <1>0, <2>1 DEF DequeueCheck, CondWait
  <2>2. CASE DequeueRead(w)
    BY <1>0, <1>1, <2>2 DEF DequeueRead, Fault, Die, Valid
  <2>3. CASE DequeueTailCheck(w)
    BY <1>0, <2>3 DEF DequeueTailCheck
  <2> QED
    BY <2>1, <2>2, <2>3
<1>6. Arrived' = Arrived /\ Queued' = Queued
  BY <1>2, QueuedReach DEF Arrived
<1>7. Nodes' /\ LastNode' /\ MasterAt'
  BY <1>2, <1>6 DEF List, Nodes, LastNode, MasterAt
<1>8. WorkerAt'
  <2> SUFFICES ASSUME NEW u \in Workers
               PROVE  /\ pc'[u] \in {"read", "unlink"} => head' # NULL
                      /\ pc'[u] = "unlink" => tmp'[u] = head'
                      /\ pc'[u] = "tailset" => head' = NULL
                      /\ pc'[u] \in {"tailchk", "tailset", "free"} =>
                           /\ tmp'[u] \in Arrived' \ (Queued' \cup freed')
                           /\ pc'[Main] \in Unlinked => tmp'[u] # fd'[Main]
    BY DEF WorkerAt
  <2>1. CASE u = w
    BY <1>2, <1>5, <1>6, <2>1 DEF List, WorkerAt
  <2>2. CASE u # w
    BY <1>3, <1>4, <2>2 DEF Resting
  <2> QED
    BY <2>1, <2>2
<1>9. Sizes'
  <2>1. \A u \in Workers : pc'[u] \in TakenPC <=> pc[u] \in TakenPC
    BY <1>3, <1>5 DEF TakenPC
  <2> QED
    BY <1>2, <1>6, <2>1 DEF List, Sizes
<1>10. Asleep'
  <2>1. pc'[w] = "wait" => Queued' = {} /\ pc'[Main] \notin LinkPC
    BY <1>2, <1>4, <1>5, <1>6, Members DEF LinkPC
  <2> QED
    BY <2>1 DEF Asleep
<1> QED
  BY <1>7, <1>8, <1>9, <1>10 DEF List

\* head = head->next takes the first node out of the list.
LEMMA DequeueUnlinks ==
  ASSUME TypeOK, Order, Exclusive, List, NEW w \in Workers, DequeueUnlink(w)
  PROVE  List' /\ Queued' = Queued \ {head}
<1> USE MainIsNotAWorker DEF Goto, queueVars, localVars, countVars
<1>0. /\ pc \in [Threads -> WorkerPC \cup MainPC] /\ next \in [Conns -> Ptr]
      /\ head \in Ptr /\ queue_size \in Int
  BY DEF TypeOK
<1>1. pc[w] = "unlink"
  BY DEF DequeueUnlink, Fault, Die
<1>2. head \in Queued /\ head # NULL /\ head \notin freed /\ tmp[w] = head
  BY <1>1, Members DEF List, WorkerAt, Nodes
<1>3. /\ head' = next[head] /\ UNCHANGED <<tail, next, freed, queue_size, conn, proc, fd, tmp>>
      /\ pc' = [pc EXCEPT ![w] = "tailchk"]
  BY <1>2 DEF DequeueUnlink, Fault
<1>4. /\ \A u \in Workers : u # w => pc[u] \in Resting
      /\ pc[Main] \in {"accept", "mlock"}
  <2>1. ControlOK
    BY DEF TypeOK, ControlOK
  <2> QED
    BY <1>1, <2>1, WorkerAlone DEF Resting
<1>5. /\ pc'[Main] = pc[Main] /\ pc'[w] = "tailchk"
      /\ \A u \in Workers : u # w => pc'[u] = pc[u]
  BY <1>0, <1>3
<1>6. Queued' = Queued \ {head} /\ Arrived' = Arrived
  <2>1. head \in Conns
    BY <1>0, <1>2 DEF Ptr
  <2>2. \A c \in Conns : next[c] # NULL => c < next[c]
    BY DEF Order, InOrder
  <2>3. Reach(next[head], next) = Reach(head, next) \ {head}
    BY <1>0, <2>1, <2>2, ReachUnlink
  <2> QED
    BY <1>3, <2>3, QueuedReach DEF Arrived
<1>7. Nodes' /\ MasterAt'
  BY <1>3, <1>4, <1>5, <1>6 DEF List, Nodes, MasterAt
<1>8. LastNode'
  BY <1>2, <1>3, <1>4, <1>5, <1>6 DEF List, LastNode
<1>9. WorkerAt'
  <2> SUFFICES ASSUME NEW u \in Workers
               PROVE  /\ pc'[u] \in {"read", "unlink"} => head' # NULL
                      /\ pc'[u] = "unlink" => tmp'[u] = head'
                      /\ pc'[u] = "tailset" => head' = NULL
                      /\ pc'[u] \in {"tailchk", "tailset", "free"} =>
                           /\ tmp'[u] \in Arrived' \ (Queued' \cup freed')
                           /\ pc'[Main] \in Unlinked => tmp'[u] # fd'[Main]
    BY DEF WorkerAt
  <2>1. CASE u = w
    <3>1. head \in Arrived
      BY <1>2, Members
    <3>2. pc[Main] \in Unlinked => head # fd[Main]
      BY DEF Order, Apart
    <3> QED
      BY <1>2, <1>3, <1>5, <1>6, <2>1, <3>1, <3>2
  <2>2. CASE u # w
    BY <1>4, <1>5, <2>2 DEF Resting
  <2> QED
    BY <2>1, <2>2
<1>10. Sizes'
  <2>1. queue_size = Cardinality(Queued)
    BY <1>1, <1>4 DEF List, Sizes, Resting, TakenPC, LinkPC
  <2>2. Cardinality(Queued') = Cardinality(Queued) - 1
    BY <1>2, <1>6, Members, FS_RemoveElement
  <2>3. queue_size' = Cardinality(Queued') + 1
    BY <1>0, <1>3, <2>1, <2>2
  <2> QED
    BY <1>4, <1>5, <2>3 DEF Sizes, TakenPC, LinkPC
<1>11. Asleep'
  BY <1>5 DEF Asleep
<1> QED
  BY <1>6, <1>7, <1>8, <1>9, <1>10, <1>11 DEF List

\* tail = NULL, for an empty list; free(), of a node that is not in the list
\* and was not freed before; queue_size--.
LEMMA DequeueEnds ==
  ASSUME TypeOK, Order, Exclusive, Registers, List, NEW w \in Workers,
         DequeueTailSet(w) \/ DequeueFree(w) \/ StoreDecQueueSize(w)
  PROVE  List'
<1> USE MainIsNotAWorker DEF Goto, queueVars, localVars, countVars
<1>0. /\ pc \in [Threads -> WorkerPC \cup MainPC] /\ tmp \in [Threads -> Ptr]
      /\ queue_size \in Int /\ reg \in [Threads -> Int]
  BY DEF TypeOK
<1>1. /\ pc[w] = "tailset" => head = NULL
      /\ pc[w] = "free" => Valid(tmp[w])
      /\ pc[w] = "decq2" => reg[w] = queue_size /\ queue_size = Cardinality(Queued) + 1
  BY Members DEF List, WorkerAt, Valid, Registers, Sizes, TakenPC
<1>2. /\ UNCHANGED <<head, next, conn, proc, fd>> /\ pc'[Main] = pc[Main]
      /\ \A u \in Workers : u # w => pc'[u] = pc[u]
  BY <1>0, <1>1 DEF DequeueTailSet, DequeueFree, StoreDecQueueSize, Fault, Die, Valid
<1>3. \/ /\ pc[w] = "tailset" /\ pc'[w] = "free"
         /\ UNCHANGED <<freed, queue_size, tmp>>
      \/ /\ pc[w] = "free" /\ pc'[w] = "decq"
         /\ freed' = freed \cup {tmp[w]} /\ UNCHANGED <<tail, queue_size>>
      \/ /\ pc[w] = "decq2" /\ pc'[w] = "inch"
         /\ queue_size' = queue_size - 1 /\ UNCHANGED <<tail, freed>>
  <2>1. CASE DequeueTailSet(w)
    BY <1>0, <2>1 DEF DequeueTailSet
  <2>2. CASE DequeueFree(w)
    BY <1>0, <1>1, <2>2 DEF DequeueFree, Fault, Die, Valid
  <2>3. CASE StoreDecQueueSize(w)
    BY <1>0, <1>1, <2>3 DEF StoreDecQueueSize
  <2> QED
    BY <2>1, <2>2, <2>3
<1>4. /\ \A u \in Workers : u # w => pc[u] \in Resting
      /\ pc[Main] \in {"accept", "mlock"}
  <2>1. ControlOK
    BY DEF TypeOK, ControlOK
  <2> QED
    BY <1>3, <2>1, WorkerAlone DEF Resting
<1>5. Arrived' = Arrived /\ Queued' = Queued
  BY <1>2, QueuedReach DEF Arrived
<1>6. Nodes'
  <2>1. pc[w] = "free" => /\ tmp[w] \in Arrived \ Queued
                          /\ pc[Main] \in Unlinked => tmp[w] # fd[Main]
    BY DEF List, WorkerAt
  <2> QED
    BY <1>2, <1>3, <1>5, <2>1 DEF List, Nodes
<1>7. LastNode' /\ MasterAt'
  BY <1>1, <1>2, <1>3, <1>4, <1>5 DEF List, LastNode, MasterAt
<1>8. WorkerAt'
  <2> SUFFICES ASSUME NEW u \in Workers
               PROVE  /\ pc'[u] \in {"read", "unlink"} => head' # NULL
                      /\ pc'[u] = "unlink" => tmp'[u] = head'
                      /\ pc'[u] = "tailset" => head' = NULL
                      /\ pc'[u] \in {"tailchk", "tailset", "free"} =>
                           /\ tmp'[u] \in Arrived' \ (Queued' \cup freed')
                           /\ pc'[Main] \in Unlinked => tmp'[u] # fd'[Main]
    BY DEF WorkerAt
  <2>1. CASE u = w
    BY <1>2, <1>3, <1>5, <2>1 DEF List, WorkerAt
  <2>2. CASE u # w
    BY <1>2, <1>4, <2>2 DEF Resting
  <2> QED
    BY <2>1, <2>2
<1>9. Sizes'
  <2>1. Cardinality(Queued) \in Nat
    BY Members
  <2>2. CASE pc[w] = "decq2"
    <3>1. queue_size' = Cardinality(Queued)
      BY <1>0, <1>1, <1>3, <2>1, <2>2
    <3> QED
      BY <1>2, <1>3, <1>4, <1>5, <2>2, <3>1 DEF Sizes, TakenPC, LinkPC, Resting
  <2>3. CASE pc[w] # "decq2"
    <3>1. \A u \in Workers : pc'[u] \in TakenPC <=> pc[u] \in TakenPC
      BY <1>2, <1>3, <2>3 DEF TakenPC
    <3>2. queue_size' = queue_size
      BY <1>3, <2>3
    <3> QED
      BY <1>2, <1>5, <3>1, <3>2 DEF List, Sizes
  <2> QED
    BY <2>2, <2>3
<1>10. Asleep'
  BY <1>3 DEF Asleep
<1> QED
  BY <1>6, <1>7, <1>8, <1>9, <1>10 DEF List

\* A step of the master in its section that leaves the list alone.
LEMMA MasterRests ==
  ASSUME TypeOK, Order, List, MasterAt',
         \A w \in Workers : pc[w] \in Resting /\ pc'[w] = pc[w],
         UNCHANGED <<head, tail, next, freed, queue_size, proc>>, Arrived' = Arrived,
         pc[Main] \notin {"etail", "enext1"},
         pc'[Main] \in LinkPC <=> pc[Main] \in LinkPC,
         pc'[Main] \in Unlinked => pc[Main] \in Unlinked,
         pc'[Main] # "accept" => fd'[Main] = fd[Main]
  PROVE  List'
<1>1. Queued' = Queued
  BY QueuedReach
<1>2. Nodes' /\ LastNode'
  BY <1>1 DEF List, Nodes, LastNode, Unlinked
<1>3. WorkerAt'
  BY DEF WorkerAt, Resting
<1>4. Sizes'
  BY <1>1 DEF List, Sizes
<1>5. Asleep'
  BY <1>1 DEF List, Asleep, LinkPC
<1> QED
  BY <1>2, <1>3, <1>4, <1>5 DEF List

\* The steps of main() that do not change the list or its size.
LEMMA MasterPasses ==
  ASSUME TypeOK, Order, Exclusive, List, pc'[Main] # "overload",
         \/ Lock(Main, "mlock", "decide") \/ Decide \/ EnqueueHead \/ EnqueueCompare
         \/ LoadQueueSize(Main, "incq", "incq2") \/ MainUnlock
  PROVE  List'
<1> USE MainIsNotAWorker DEF Goto, queueVars, localVars, countVars
<1>0. /\ pc \in [Threads -> WorkerPC \cup MainPC] /\ next \in [Conns -> Ptr]
      /\ fd \in [Threads -> Ptr]
  BY DEF TypeOK
<1>1. /\ pc[Main] \in {"mlock", "decide", "ehead", "ecmp", "incq", "munlock"}
      /\ \A w \in Workers : pc'[w] = pc[w]
  BY <1>0 DEF Lock, Decide, Reject, EnqueueHead, EnqueueCompare, LoadQueueSize, MainUnlock
<1>2. \A w \in Workers : pc[w] \in Resting
  <2>1. CASE pc[Main] = "mlock"
    <3>1. ~mutex
      BY <2>1 DEF Lock, Decide, Reject, EnqueueHead, EnqueueCompare, LoadQueueSize, MainUnlock
    <3> QED
      BY <3>1 DEF Exclusive, Critical, Resting
  <2>2. CASE pc[Main] # "mlock"
    <3>1. ControlOK /\ Critical(Main)
      BY <1>1, <2>2 DEF TypeOK, ControlOK, Critical
    <3> QED
      BY <3>1, MasterAlone
  <2> QED
    BY <2>1, <2>2
<1>3. UNCHANGED <<head, tail, freed, queue_size, proc>>
  BY DEF Lock, Decide, Reject, EnqueueHead, EnqueueCompare, LoadQueueSize, MainUnlock
<1>4. \/ pc[Main] = "mlock" /\ pc'[Main] = "decide"
      \/ pc[Main] = "decide" /\ pc'[Main] \in {"accept", "ehead"}
      \/ pc[Main] = "ehead" /\ pc'[Main] = "ehead0" /\ head = NULL
      \/ pc[Main] = "ehead" /\ pc'[Main] = "ecmp" /\ head # NULL
      \/ pc[Main] = "ecmp" /\ pc'[Main] = "etail1" /\ tail = head
      \/ pc[Main] = "ecmp" /\ pc'[Main] = "enext2"
      \/ pc[Main] = "incq" /\ pc'[Main] = "incq2"
      \/ pc[Main] = "munlock" /\ pc'[Main] = "accept"
  <2>1. CASE Decide
    BY <1>0, <2>1 DEF Decide, Reject
  <2>2. CASE EnqueueHead
    BY <1>0, <2>2 DEF EnqueueHead
  <2>3. CASE EnqueueCompare
    BY <1>0, <2>3 DEF EnqueueCompare
  <2>4. CASE Lock(Main, "mlock", "decide") \/ LoadQueueSize(Main, "incq", "incq2") \/ MainUnlock
    BY <1>0, <2>4 DEF Lock, LoadQueueSize, MainUnlock
  <2> QED
    BY <2>1, <2>2, <2>3, <2>4
<1>5. next' = next
  <2>1. CASE EnqueueHead
    <3>1. next[fd[Main]] = NULL
      BY <2>1 DEF EnqueueHead, List, Nodes, Unlinked, MainPC
    <3> QED
      BY <1>0, <2>1, <3>1 DEF EnqueueHead
  <2>2. CASE ~EnqueueHead
    BY <2>2 DEF Lock, Decide, Reject, EnqueueCompare, LoadQueueSize, MainUnlock
  <2> QED
    BY <2>1, <2>2
<1>6. Arrived' = Arrived
  <2>1. CASE Reject
    <3>1. fd[Main] \in Arrived \cup {NULL}
      BY DEF Order, Known
    <3> QED
      BY <2>1, <3>1, CloseArrived DEF Reject
  <2>2. CASE ~Reject
    <3>1. conn' = conn
      BY <2>2 DEF Lock, Decide, EnqueueHead, EnqueueCompare, LoadQueueSize, MainUnlock
    <3> QED
      BY <3>1 DEF Arrived
  <2> QED
    BY <2>1, <2>2
<1>7. pc'[Main] # "accept" => fd'[Main] = fd[Main]
  BY <1>0 DEF Lock, Decide, Reject, EnqueueHead, EnqueueCompare, LoadQueueSize, MainUnlock
<1>8. MasterAt'
  BY <1>3, <1>4 DEF List, MasterAt
<1>9. /\ pc'[Main] \in LinkPC <=> pc[Main] \in LinkPC
      /\ pc'[Main] \in Unlinked => pc[Main] \in Unlinked
  BY <1>4 DEF LinkPC, Unlinked, MainPC
<1> QED
  BY <1>1, <1>2, <1>3, <1>5, <1>6, <1>7, <1>8, <1>9, MasterRests

\* enqueue() puts the new node at the end of the list, and tail on it.
LEMMA EnqueueLinks ==
  ASSUME TypeOK, Order, Exclusive, List,
         \/ EnqueueSetHead \/ EnqueueSetTail("etail", "incq") \/ EnqueueSetTail("etail1", "enext1")
         \/ EnqueueLink("enext1", "incq", head) \/ EnqueueLink("enext2", "etail", tail)
  PROVE  /\ List'
         /\ Queued' = IF pc[Main] \in {"ehead0", "enext1", "enext2"}
                        THEN Queued \cup {fd[Main]} ELSE Queued
<1> USE MainIsNotAWorker DEF Goto, queueVars, localVars, countVars
<1> DEFINE c == fd[Main]
<1>0. /\ pc \in [Threads -> WorkerPC \cup MainPC] /\ next \in [Conns -> Ptr]
      /\ head \in Ptr /\ tail \in Ptr /\ queue_size \in Int
  BY DEF TypeOK
<1>1. pc[Main] \in {"ehead0", "etail", "etail1", "enext1", "enext2"}
  BY DEF EnqueueSetHead, EnqueueSetTail, EnqueueLink, Fault, Die
<1>2. \A w \in Workers : pc[w] \in Resting
  <2>1. ControlOK /\ Critical(Main)
    BY <1>1 DEF TypeOK, ControlOK, Critical
  <2> QED
    BY <2>1, MasterAlone
<1>3. /\ pc[Main] = "enext1" => Valid(head) /\ head \in Queued /\ next[head] = NULL
      /\ pc[Main] = "enext2" => Valid(tail) /\ tail \in Queued /\ next[tail] = NULL
  <2>1. pc[Main] \in {"enext1", "enext2"} => head # NULL
    BY DEF List, MasterAt
  <2>2. pc[Main] = "enext2" => tail \in Queued /\ next[tail] = NULL
    BY <2>1 DEF List, LastNode
  <2>3. \A a \in Queued : Valid(a)
    BY Members DEF List, Nodes, Valid
  <2> QED
    BY <2>1, <2>2, <2>3, Members DEF List, MasterAt
<1>4. /\ UNCHANGED <<freed, queue_size, conn, proc, fd>>
      /\ \A w \in Workers : pc'[w] = pc[w]
  BY <1>0, <1>3 DEF EnqueueSetHead, EnqueueSetTail, EnqueueLink, Fault, Die, Valid
<1>5. \/ /\ pc[Main] = "ehead0" /\ pc'[Main] = "etail"
         /\ head' = c /\ UNCHANGED <<tail, next>>
      \/ /\ pc[Main] = "etail" /\ pc'[Main] = "incq"
         /\ tail' = c /\ UNCHANGED <<head, next>>
      \/ /\ pc[Main] = "etail1" /\ pc'[Main] = "enext1"
         /\ tail' = c /\ UNCHANGED <<head, next>>
      \/ /\ pc[Main] = "enext1" /\ pc'[Main] = "incq"
         /\ next' = [next EXCEPT ![head] = c] /\ UNCHANGED <<head, tail>>
      \/ /\ pc[Main] = "enext2" /\ pc'[Main] = "etail"
         /\ next' = [next EXCEPT ![tail] = c] /\ UNCHANGED <<head, tail>>
  <2>1. CASE EnqueueSetHead
    BY <1>0, <2>1 DEF EnqueueSetHead
  <2>2. CASE EnqueueSetTail("etail", "incq") \/ EnqueueSetTail("etail1", "enext1")
    BY <1>0, <2>2 DEF EnqueueSetTail
  <2>3. CASE EnqueueLink("enext1", "incq", head)
    BY <1>0, <1>3, <2>3 DEF EnqueueLink, Fault, Die, Valid
  <2>4. CASE EnqueueLink("enext2", "etail", tail)
    BY <1>0, <1>3, <2>4 DEF EnqueueLink, Fault, Die, Valid
  <2> QED
    BY <2>1, <2>2, <2>3, <2>4
<1>6. Arrived' = Arrived
  BY <1>4 DEF Arrived
<1>7. /\ pc[Main] # "etail" => c \in Arrived \ Queued /\ c \notin freed
      /\ next[c] = NULL /\ c \in Conns /\ c # NULL
  BY <1>1, Members DEF List, Nodes, MasterAt, Unlinked, MainPC
<1>8. Queued' = IF pc[Main] \in {"ehead0", "enext1", "enext2"} THEN Queued \cup {c} ELSE Queued
  <2>1. CASE pc[Main] = "ehead0"
    <3>1. head = NULL
      BY <2>1 DEF List, MasterAt
    <3>2. Queued = {} /\ Queued' = Reach(c, next)
      BY <1>5, <2>1, <3>1, Members, QueuedReach
    <3> QED
      BY <1>0, <1>7, <2>1, <3>2, ReachFirst
  <2>2. CASE pc[Main] \in {"etail", "etail1"}
    BY <1>5, <2>2, QueuedReach
  <2>3. CASE pc[Main] \in {"enext1", "enext2"}
    <3>1. PICK a \in Queued : next[a] = NULL /\ next' = [next EXCEPT ![a] = c]
      BY <1>3, <1>5, <2>3
    <3>2. a # c /\ head' = head
      BY <1>5, <1>7, <2>3
    <3>3. /\ next' \in [Conns -> Ptr] /\ next'[a] = c
          /\ \A d \in Conns : d # a => next'[d] = next[d]
      BY <1>0, <1>7, <3>1, Members
    <3>4. c \in Conns /\ c # a /\ next[c] = NULL
      BY <1>7, <3>2
    <3>5. Queued' = Queued \cup {c}
      <4> HIDE DEF c
      <4> QED
        BY <1>0, <3>1, <3>2, <3>3, <3>4, QueuedLink
    <3> QED
      BY <2>3, <3>5
  <2> QED
    BY <1>1, <2>1, <2>2, <2>3
<1>9. \A d \in Conns : next'[d] = next[d] \/ (d \in Queued /\ next'[d] = c)
  BY <1>0, <1>3, <1>5
<1>10. next'[c] = NULL /\ c \in Arrived
  <2>1. pc[Main] = "etail" => c \in Queued
    BY DEF List, MasterAt
  <2>2. CASE pc[Main] \in {"ehead0", "etail", "etail1"}
    BY <1>5, <1>7, <2>1, <2>2, Members
  <2>3. CASE pc[Main] \in {"enext1", "enext2"}
    BY <1>7, <1>9, <2>3
  <2> QED
    BY <1>1, <2>2, <2>3
<1>11. Nodes'
  <2>1. Queued' \cap freed' = {}
    BY <1>4, <1>7, <1>8 DEF List, Nodes
  <2>2. \A d \in Conns \ Arrived : next'[d] = NULL
    BY <1>9, Members DEF List, Nodes
  <2>3. pc'[Main] \in Unlinked => pc[Main] \in Unlinked
    BY <1>5 DEF Unlinked, MainPC
  <2> QED
    BY <1>4, <1>6, <1>10, <2>1, <2>2, <2>3 DEF List, Nodes
<1>12. LastNode' /\ MasterAt'
  <2>1. CASE pc[Main] \in {"ehead0", "enext2"}
    BY <1>4, <1>5, <1>8, <1>10, <2>1 DEF LastNode, MasterAt
  <2>2. CASE pc[Main] = "etail"
    BY <1>4, <1>5, <1>8, <1>10, <2>2 DEF LastNode, MasterAt, List
  <2>3. CASE pc[Main] = "etail1"
    <3>1. head # NULL /\ tail = head
      BY <2>3 DEF List, MasterAt
    <3>2. next[head] = NULL
      BY <2>3, <3>1 DEF List, LastNode
    <3> QED
      BY <1>4, <1>5, <2>3, <3>1, <3>2 DEF LastNode, MasterAt
  <2>4. CASE pc[Main] = "enext1"
    <3>1. tail = c
      BY <2>4 DEF List, MasterAt
    <3> QED
      BY <1>4, <1>5, <1>8, <1>10, <2>4, <3>1 DEF LastNode, MasterAt
  <2> QED
    BY <1>1, <2>1, <2>2, <2>3, <2>4
<1>13. WorkerAt'
  BY <1>2, <1>4 DEF WorkerAt, Resting
<1>14. Sizes'
  <2>1. CASE pc[Main] \in {"ehead0", "enext1", "enext2"}
    <3>1. queue_size = Cardinality(Queued)
      BY <1>2, <2>1 DEF List, Sizes, Resting, TakenPC, LinkPC
    <3>2. Cardinality(Queued') = Cardinality(Queued) + 1
      BY <1>7, <1>8, <2>1, Members, FS_AddElement
    <3>3. queue_size' + 1 = Cardinality(Queued')
      BY <1>4, <3>1, <3>2
    <3>4. pc'[Main] \in LinkPC
      BY <1>5, <2>1 DEF LinkPC
    <3> QED
      BY <1>2, <1>4, <3>3, <3>4 DEF Sizes, Resting, TakenPC
  <2>2. CASE pc[Main] \in {"etail", "etail1"}
    <3>1. pc'[Main] \in LinkPC <=> pc[Main] \in LinkPC
      BY <1>5, <2>2 DEF LinkPC
    <3>2. Queued' = Queued
      BY <1>8, <2>2
    <3> QED
      BY <1>4, <3>1, <3>2 DEF List, Sizes
  <2> QED
    BY <1>1, <2>1, <2>2
<1>15. Asleep'
  BY <1>4, <1>5, <1>8 DEF List, Asleep, LinkPC
<1> QED
  BY <1>8, <1>11, <1>12, <1>13, <1>14, <1>15 DEF List

\* ++queue_size makes the size right, and the broadcast that depends on it
\* reaches the workers when all of them sleep.
LEMMA CountKeeps ==
  ASSUME TypeOK, Order, Exclusive, Registers, Bounded, List, StoreIncQueueSize
  PROVE  List'
<1> USE MainIsNotAWorker DEF queueVars
<1>0. /\ pc \in [Threads -> WorkerPC \cup MainPC]
      /\ queue_size \in Int /\ currently_handled \in Int
  BY DEF TypeOK
<1>1. /\ pc[Main] = "incq2" /\ pc'[Main] = "munlock" /\ queue_size' = queue_size + 1
      /\ UNCHANGED <<head, tail, next, freed, fd, conn, proc>>
      /\ \A w \in Workers : pc'[w] = pc[w] \/ (pc[w] = "wait" /\ pc'[w] = "lock")
  BY <1>0 DEF StoreIncQueueSize, Broadcast, Awake, Registers
<1>2. \A w \in Workers : pc[w] \in Resting
  <2>1. ControlOK /\ Critical(Main)
    BY <1>1 DEF TypeOK, ControlOK, Critical
  <2> QED
    BY <2>1, MasterAlone
<1>3. Queued' = Queued /\ Arrived' = Arrived
  BY <1>1, QueuedReach DEF Arrived
<1>4. Nodes' /\ LastNode' /\ MasterAt'
  BY <1>1, <1>3 DEF List, Nodes, LastNode, MasterAt, Unlinked
<1>5. WorkerAt'
  BY <1>1, <1>2 DEF WorkerAt, Resting
<1>6. queue_size' = Cardinality(Queued')
  BY <1>1, <1>3 DEF List, Sizes, LinkPC
<1>7. Sizes'
  BY <1>1, <1>2, <1>6 DEF Sizes, Resting, TakenPC, LinkPC
<1>8. Asleep'
  <2> SUFFICES ASSUME NEW v \in Workers, \A w \in Workers : pc'[w] = "wait" PROVE FALSE
    BY DEF Asleep
  <2>1. \A w \in Workers : pc[w] = "wait"
    BY <1>1
  <2>2. Queued = {fd[Main]}
    BY <1>1, <2>1 DEF List, Asleep, LinkPC
  <2>3. queue_size' = 1
    BY <1>3, <1>6, <2>2, FS_Singleton
  <2>4. Counted = {}
    BY <2>1 DEF Counted
  <2>5. currently_handled = 0
    BY <2>4, FS_EmptySet DEF Bounded
  <2>6. pc'[v] = "lock"
    BY <1>0, <2>1, <2>3, <2>5 DEF StoreIncQueueSize, Broadcast, Awake
  <2> QED
    BY <2>6
<1> QED
  BY <1>4, <1>5, <1>7, <1>8 DEF List

\* A connection that arrives is new to the list and to the workers.
LEMMA ArriveKeeps ==
  ASSUME TypeOK, Order, Exclusive, List, NEW c \in Conns, AcceptConn(c)
  PROVE  List'
<1> USE MainIsNotAWorker DEF Goto, queueVars, countVars
<1>0. /\ pc \in [Threads -> WorkerPC \cup MainPC] /\ fd \in [Threads -> Ptr]
      /\ conn \in [Conns -> {"pending", "open", "closed"}]
  BY DEF TypeOK
<1>1. /\ pc[Main] = "accept" /\ pc'[Main] = "mlock" /\ fd'[Main] = c
      /\ UNCHANGED <<head, tail, next, freed, queue_size, tmp, proc>>
      /\ \A w \in Workers : pc'[w] = pc[w]
  BY <1>0 DEF AcceptConn
<1>2. c \notin Arrived /\ Arrived' = Arrived \cup {c}
  BY <1>0 DEF AcceptConn, Arrived
<1>3. Queued' = Queued
  BY <1>1, QueuedReach
<1>4. Nodes'
  BY <1>1, <1>2, <1>3 DEF List, Nodes
<1>5. LastNode' /\ MasterAt'
  BY <1>1, <1>3 DEF List, LastNode, MasterAt
<1>6. WorkerAt'
  BY <1>1, <1>2, <1>3 DEF List, WorkerAt
<1>7. Sizes' /\ Asleep'
  BY <1>1, <1>3 DEF List, Sizes, Asleep, LinkPC
<1> QED
  BY <1>4, <1>5, <1>6, <1>7 DEF List

\* exit() leaves the list as it is.
LEMMA ExitKeeps ==
  ASSUME List, AcceptExits
  PROVE  List'
<1>1. /\ UNCHANGED <<head, tail, next, freed, queue_size, fd, tmp, pc, conn>>
      /\ proc' = "exited"
  BY DEF AcceptExits, Die, countVars, queueVars, localVars
<1>2. Arrived' = Arrived
  BY <1>1 DEF Arrived
<1> QED
  BY <1>1, <1>2, RestKeeps

-----------------------------------------------------------------------------
(* The invariant, and what it implies.                                     *)

\* Every step before handle_overload() is called keeps the list.
LEMMA StepList == LInv /\ [Next]_vars => LInv'
<1> SUFFICES ASSUME LInv, [Next]_vars PROVE LInv'
  OBVIOUS
<1>0. TypeOK /\ Order /\ IInv' /\ Order'
  BY StepCounters, StepOrdered DEF LInv, IInv
<1>1. ASSUME ~overloaded' PROVE List'
  <2>1. CASE UNCHANGED vars
    <3>1. List
      BY <1>1, <2>1 DEF LInv, vars
    <3>2. UNCHANGED <<head, tail, next, freed, queue_size, fd, tmp, pc, conn, proc>>
      BY <2>1 DEF vars, progVars, countVars, queueVars, localVars
    <3>3. Arrived' = Arrived
      BY <3>2 DEF Arrived
    <3>4. proc' \notin {"crashed", "corrupted"}
      BY <3>1, <3>2 DEF List, Nodes
    <3> QED
      BY <3>1, <3>2, <3>3, <3>4, RestKeeps
  <2>2. CASE Next
    <3>1. ~overloaded /\ pc'[Main] # "overload"
      BY <1>1, <2>2 DEF Next
    <3>2. Exclusive /\ Registers /\ Bounded /\ List
      BY <3>1 DEF LInv, IInv
    <3>3. CASE main
      <4>1. PlainMain
        BY <3>2, <3>3, NotInOverload DEF Exclusive
      <4> QED
        BY <1>0, <3>1, <3>2, <4>1, MasterPasses, EnqueueLinks, CountKeeps
        DEF PlainMain, enqueue
    <3>4. CASE AcceptExits \/ \E c \in Conns : AcceptConn(c)
      BY <1>0, <3>2, <3>4, ExitKeeps, ArriveKeeps
    <3>5. ASSUME NEW w \in Workers, thread_function(w) \/ RequestDone(w) \/ RequestExits(w)
          PROVE  List'
      <4>1. CASE Dequeue(w) \/ StoreDecQueueSize(w)
        BY <1>0, <3>2, <4>1, DequeueReads, DequeueUnlinks, DequeueEnds DEF Dequeue
      <4>2. CASE WorkerSignal(w) \/ WorkerClose(w)
        BY <1>0, <3>2, <4>2, WakeKeeps
      <4> QED
        BY <1>0, <3>2, <3>5, <4>1, <4>2, OutsideKeeps DEF thread_function
    <3>6. CASE \E t \in Threads : SpuriousWakeup(t)
      BY <1>0, <3>2, <3>6, WakeKeeps
    <3> QED
      BY <2>2, <3>3, <3>4, <3>5, <3>6 DEF Next, Environment
  <2> QED
    BY <2>1, <2>2
<1> QED
  BY <1>0, <1>1 DEF LInv

\* The list is empty when the server starts.
LEMMA InitList == Init => LInv
<1> SUFFICES ASSUME Init PROVE LInv
  OBVIOUS
<1>1. TypeOK /\ Order /\ IInv
  BY InitTyped, InitOrdered, InitCounters
<1>2. Queued = {} /\ head = NULL /\ queue_size = 0
  BY <1>1, Members DEF Init
<1>3. pc[Main] = "accept" /\ \A w \in Workers : pc[w] = "lock"
  BY MainIsNotAWorker DEF Init
<1>4. Nodes /\ LastNode /\ MasterAt /\ WorkerAt
  BY <1>2, <1>3 DEF Init, Nodes, LastNode, MasterAt, WorkerAt, Unlinked
<1>5. Sizes /\ Asleep
  BY <1>2, <1>3, FS_EmptySet DEF Sizes, Asleep, TakenPC, LinkPC
<1> QED
  BY <1>1, <1>4, <1>5 DEF LInv, List

\* Until handle_overload() is first called, enqueue() and dequeue() follow
\* neither NULL nor a pointer to a node that was freed, for every number of
\* workers, every limit and every number of connections.
THEOREM NoFaultHolds == Spec => []NoFault
<1>1. LInv => NoFault
  BY DEF LInv, List, Nodes, NoFault
<1> QED
  BY <1>1, InitList, StepList, PTL DEF Spec

\* Until then, whenever the mutex is free queue_size is the length of the list
\* and currently_handled the number of workers that are handling a request.
THEOREM CountersAgreeHolds == Spec => []CountersAgree
<1>1. LInv => CountersAgree
  <2> SUFFICES ASSUME LInv, ~overloaded, ~mutex PROVE CountersAgree
    BY DEF CountersAgree
  <2>1. Exclusive /\ Bounded /\ List
    BY DEF LInv, IInv
  <2>2. \A t \in Threads : ~Critical(t)
    BY <2>1 DEF Exclusive
  <2>3. pc[Main] \in {"accept", "mlock"} /\ \A w \in Workers : pc[w] \in Resting
    BY <2>1, <2>2, MainIsNotAWorker DEF Exclusive, Critical, Resting, PlainMainPC, EnqueuePC
  <2>4. queue_size = ListLength
    BY <2>1, <2>3 DEF List, Sizes, ListLength, Resting, TakenPC, LinkPC
  <2>5. Counted = Handling
    BY <2>3 DEF Counted, Handling, Resting
  <2> QED
    BY <2>1, <2>4, <2>5 DEF Bounded, CountersAgree
<1> QED
  BY <1>1, InitList, StepList, PTL DEF Spec

\* Until then no wakeup is lost, although main() only broadcasts for the first
\* request in the server: with at least one worker, a queue that is not empty
\* while the mutex is free has a worker that is not asleep.
THEOREM NoLostWakeupHolds ==
  ASSUME Workers # {}
  PROVE  Spec => []NoLostWakeup
<1>1. LInv => NoLostWakeup
  <2> SUFFICES ASSUME LInv, ~overloaded, ~mutex, head # NULL,
                      \A w \in Workers : pc[w] = "wait"
               PROVE  FALSE
    BY DEF NoLostWakeup
  <2>1. TypeOK /\ Order /\ Exclusive /\ List
    BY DEF LInv, IInv
  <2>2. pc[Main] \notin LinkPC
    BY <2>1, MainIsNotAWorker DEF Exclusive, Critical, LinkPC
  <2>3. Queued = {}
    BY <2>1, <2>2 DEF List, Asleep
  <2> QED
    BY <2>1, <2>3, Members
<1> QED
  BY <1>1, InitList, StepList, PTL DEF Spec
=============================================================================
