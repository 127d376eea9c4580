----------------------------- MODULE HoldProofs -----------------------------
(***************************************************************************)
(* Who holds the connections, until handle_overload() is first called:     *)
(* the server never has more of them than its limit, and each one that is  *)
(* open is in the queue or with one thread.                                *)
(***************************************************************************)
EXTENDS ListProofs

\* Where a worker has no connection.
IdlePC == {"lock", "wait", "check", "read"}

\* A thread that has no connection has none from before, and a worker that has
\* read a node of the list and not yet unlinked it has the first one.
Descriptors ==
  /\ pc[Main] = "accept" => fd[Main] = NULL
  /\ \A w \in Workers : /\ pc[w] \in IdlePC => fd[w] = NULL
                        /\ pc[w] = "unlink" => fd[w] = head

\* What a worker holds it holds alone.
Sole ==
  /\ \A u, w \in Workers : fd[u] = fd[w] /\ fd[u] # NULL => u = w
  /\ \A w \in Workers :
       fd[w] # NULL => /\ pc[w] # "unlink" => fd[w] \notin Queued
                       /\ pc[Main] \in Unlinked => fd[w] # fd[Main]

\* An open connection has somebody to close it.
Kept ==
  \A c \in Conns :
    conn[c] = "open" => \/ c \in Queued
                        \/ pc[Main] \in Unlinked /\ fd[Main] = c
                        \/ \E w \in Workers : fd[w] = c

Hold == Descriptors /\ Sole /\ Kept

\* A worker that has counted its request down has left room for another one.
Room ==
  \A w \in Workers :
    pc[w] \in {"signal", "close"} => queue_size + currently_handled < QmaxSize

HInv == LInv /\ (~overloaded => Hold /\ Room)

-----------------------------------------------------------------------------
(* The steps of the workers.                                               *)

\* Nobody takes, hands over or closes a connection.
HoldQuiet ==
  /\ UNCHANGED <<head, fd, conn>> /\ Queued' = Queued
  /\ pc'[Main] = "accept" => pc[Main] = "accept"
  /\ pc'[Main] \in Unlinked <=> pc[Main] \in Unlinked
  /\ \A w \in Workers : /\ pc'[w] \in IdlePC => pc[w] \in IdlePC
                        /\ pc'[w] = "unlink" <=> pc[w] = "unlink"

\* Such a step changes nothing of who holds what.
LEMMA HoldRests ==
  ASSUME Hold, HoldQuiet
  PROVE  Hold'
<1>1. Descriptors'
  BY DEF Hold, HoldQuiet, Descriptors
<1>2. Sole'
  BY DEF Hold, HoldQuiet, Sole
<1>3. Kept'
  BY DEF Hold, HoldQuiet, Kept
<1> QED
  BY <1>1, <1>2, <1>3 DEF Hold

\* The steps of a worker that do so, and a spurious wakeup.
LEMMA WorkerHolds ==
  ASSUME TypeOK, Order, Exclusive, List, Hold, NEW w \in Workers,
         thread_function(w) \/ RequestDone(w) \/ RequestExits(w) \/ SpuriousWakeup(w),
         ~DequeueRead(w), ~DequeueUnlink(w), ~WorkerClose(w)
  PROVE  Hold'
<1> USE MainIsNotAWorker DEF Goto, queueVars, localVars, countVars, IdlePC
<1>0. pc \in [Threads -> WorkerPC \cup MainPC] /\ pc[Main] # "wait"
  BY DEF TypeOK, Exclusive, PlainMainPC, EnqueuePC
<1>1. CASE \/ Lock(w, "lock", "check") \/ Lock(w, "lock2", "dech")
           \/ LoadQueueSize(w, "decq", "decq2") \/ StoreDecQueueSize(w)
           \/ LoadHandled(w, "inch", "inch2") \/ StoreHandled(w, "inch2", "unlock", 1)
           \/ LoadHandled(w, "dech", "dech2") \/ StoreHandled(w, "dech2", "signal", -1)
           \/ WorkerUnlock(w) \/ RequestDone(w) \/ RequestExits(w) \/ SpuriousWakeup(w)
  <2>1. /\ UNCHANGED <<head, next, fd, conn>> /\ pc'[Main] = pc[Main]
        /\ \A u \in Workers : pc'[u] = pc[u] \/
             (u = w /\ pc'[u] # "unlink" /\ pc[u] # "unlink"
               /\ (pc'[u] \in IdlePC => pc[u] \in IdlePC))
    BY <1>0, <1>1 DEF Lock, LoadQueueSize, StoreDecQueueSize, LoadHandled, StoreHandled,
       WorkerUnlock, RequestDone, RequestExits, Die, SpuriousWakeup, Awake
  <2>2. HoldQuiet
    BY <2>1, QueuedReach DEF HoldQuiet
  <2> QED
    BY <2>2, HoldRests
<1>2. CASE DequeueCheck(w) \/ DequeueTailCheck(w) \/ DequeueTailSet(w) \/ DequeueFree(w)
  <2>1. /\ UNCHANGED <<head, next, fd, conn>> /\ pc'[Main] = pc[Main]
        /\ \A u \in Workers : pc'[u] = pc[u] \/
             (u = w /\ pc'[u] # "unlink" /\ pc[u] # "unlink"
               /\ (pc'[u] \in IdlePC => pc[u] \in IdlePC))
    BY <1>0, <1>2 DEF DequeueCheck, CondWait, DequeueTailCheck, DequeueTailSet, DequeueFree,
       Fault, Die
  <2>2. HoldQuiet
    BY <2>1, QueuedReach DEF HoldQuiet
  <2> QED
    BY <2>2, HoldRests
<1>3. CASE WorkerSignal(w)
  <2>1. /\ UNCHANGED <<head, next, fd, conn>> /\ pc'[Main] = pc[Main]
        /\ \A u \in Workers :
             \/ pc'[u] = pc[u]
             \/ u = w /\ pc[u] = "signal" /\ pc'[u] = "close"
             \/ pc[u] = "wait" /\ pc'[u] = "lock"
    BY <1>0, <1>3 DEF WorkerSignal, Broadcast, Awake
  <2>2. HoldQuiet
    BY <2>1, QueuedReach DEF HoldQuiet
  <2> QED
    BY <2>2, HoldRests
<1> QED
  BY <1>1, <1>2, <1>3 DEF thread_function, Dequeue

\* A worker reads the first node, which no other holds, and takes it out.
LEMMA TakeHolds ==
  ASSUME TypeOK, Order, Exclusive, List, Hold, NEW w \in Workers,
         DequeueRead(w) \/ DequeueUnlink(w)
  PROVE  Hold'
<1> USE MainIsNotAWorker DEF Goto, queueVars, localVars, countVars
<1>0. /\ pc \in [Threads -> WorkerPC \cup MainPC] /\ fd \in [Threads -> Ptr]
      /\ pc[w] \in {"read", "unlink"}
  BY DEF TypeOK, DequeueRead, DequeueUnlink, Fault, Die
<1>1. /\ head \in Queued /\ head # NULL /\ Valid(head)
      /\ pc[Main] \in Unlinked => head # fd[Main]
  BY <1>0, Members DEF List, WorkerAt, Nodes, Valid
<1>2. /\ \A u \in Workers : u # w => pc[u] \in Resting
      /\ pc[Main] \in {"accept", "mlock"}
  <2>1. ControlOK
    BY DEF TypeOK, ControlOK
  <2> QED
    BY <1>0, <2>1, WorkerAlone DEF Resting
<1>3. CASE DequeueRead(w)
  <2>1. /\ UNCHANGED <<head, next, conn>> /\ pc'[Main] = pc[Main] /\ fd'[Main] = fd[Main]
        /\ pc[w] = "read" /\ pc'[w] = "unlink" /\ fd'[w] = head
        /\ \A u \in Workers : u # w => pc'[u] = pc[u] /\ fd'[u] = fd[u]
    BY <1>0, <1>1, <1>3 DEF DequeueRead, Fault, Die, Valid
  <2>2. Queued' = Queued
    BY <2>1, QueuedReach
  <2>3. Descriptors'
    BY <1>2, <2>1 DEF Hold, Descriptors, Resting, IdlePC
  <2>4. Sole'
    <3>1. \A u \in Workers : u # w => fd[u] # head
      BY <1>1, <1>2 DEF Hold, Sole, Resting
    <3> QED
      BY <1>1, <2>1, <2>2, <3>1 DEF Hold, Sole
  <2>5. Kept'
    <3>1. fd[w] = NULL
      BY <2>1 DEF Hold, Descriptors, IdlePC
    <3> QED
      BY <2>1, <2>2, <3>1 DEF Hold, Kept
  <2> QED
    BY <2>3, <2>4, <2>5 DEF Hold
<1>4. CASE DequeueUnlink(w)
  <2>1. /\ UNCHANGED <<conn, fd>> /\ pc'[Main] = pc[Main]
        /\ pc[w] = "unlink" /\ pc'[w] = "tailchk"
        /\ \A u \in Workers : u # w => pc'[u] = pc[u]
    BY <1>0, <1>1, <1>4 DEF DequeueUnlink, Fault, Die, Valid
  <2>2. Queued' = Queued \ {head} /\ fd[w] = head
    BY <1>4, <2>1, DequeueUnlinks DEF Hold, Descriptors
  <2>3. Descriptors'
    BY <1>2, <2>1 DEF Hold, Descriptors, Resting, IdlePC
  <2>4. Sole'
    BY <2>1, <2>2 DEF Hold, Sole
  <2>5. Kept'
    BY <2>1, <2>2 DEF Hold, Kept
  <2> QED
    BY <2>3, <2>4, <2>5 DEF Hold
<1> QED
  BY <1>3, <1>4

\* A worker closes its connection and forgets it.
LEMMA CloseHolds ==
  ASSUME TypeOK, Hold, NEW w \in Workers, WorkerClose(w)
  PROVE  Hold'
<1> USE MainIsNotAWorker DEF Goto, queueVars, countVars
<1>0. /\ pc \in [Threads -> WorkerPC \cup MainPC] /\ fd \in [Threads -> Ptr]
      /\ conn \in [Conns -> {"pending", "open", "closed"}]
  BY DEF TypeOK
<1>1. /\ UNCHANGED <<head, next>> /\ pc'[Main] = pc[Main] /\ fd'[Main] = fd[Main]
      /\ pc[w] = "close" /\ pc'[w] = "lock" /\ fd'[w] = NULL
      /\ \A u \in Workers : u # w => pc'[u] = pc[u] /\ fd'[u] = fd[u]
  BY <1>0 DEF WorkerClose
<1>2. Queued' = Queued
  BY <1>1, QueuedReach
<1>3. Descriptors'
  BY <1>1 DEF Hold, Descriptors
<1>4. Sole'
  BY <1>1, <1>2 DEF Hold, Sole
<1>5. \A c \in Conns : conn'[c] = "open" => conn[c] = "open" /\ fd[w] # c
  BY <1>0 DEF WorkerClose
<1>6. Kept'
  BY <1>1, <1>2, <1>5 DEF Hold, Kept
<1> QED
  BY <1>3, <1>4, <1>6 DEF Hold

-----------------------------------------------------------------------------
(* The steps of the master.                                                *)

\* The steps in which the master neither gets nor gives a connection.
LEMMA MasterHolds ==
  ASSUME TypeOK, Exclusive, List, Hold, pc'[Main] # "overload", ~Reject,
         \/ Lock(Main, "mlock", "decide") \/ Decide \/ EnqueueHead \/ EnqueueCompare
         \/ EnqueueSetTail("etail", "incq") \/ EnqueueSetTail("etail1", "enext1")
         \/ LoadQueueSize(Main, "incq", "incq2") \/ StoreIncQueueSize \/ AcceptExits
  PROVE  Hold'
<1> USE MainIsNotAWorker DEF Goto, queueVars, localVars, countVars
<1>0. /\ pc \in [Threads -> WorkerPC \cup MainPC] /\ next \in [Conns -> Ptr]
      /\ fd \in [Threads -> Ptr]
  BY DEF TypeOK
<1>1. /\ UNCHANGED <<head, fd, conn>>
      /\ \A w \in Workers : pc'[w] = pc[w] \/ (pc[w] = "wait" /\ pc'[w] = "lock")
  BY <1>0 DEF Lock, Decide, EnqueueHead, EnqueueCompare, EnqueueSetTail, LoadQueueSize,
     StoreIncQueueSize, Broadcast, Awake, AcceptExits, Die
<1>2. next' = next
  <2>1. CASE EnqueueHead
    <3>1. next[fd[Main]] = NULL
      BY <2>1 DEF EnqueueHead, List, Nodes, Unlinked, MainPC
    <3> QED
      BY <1>0, <2>1, <3>1 DEF EnqueueHead
  <2>2. CASE ~EnqueueHead
    BY <2>2 DEF Lock, Decide, EnqueueCompare, EnqueueSetTail, LoadQueueSize,
       StoreIncQueueSize, AcceptExits, Die
  <2> QED
    BY <2>1, <2>2
<1>3. \/ pc'[Main] = pc[Main]
      \/ pc[Main] = "mlock" /\ pc'[Main] = "decide"
      \/ pc[Main] = "decide" /\ pc'[Main] = "ehead"
      \/ pc[Main] = "ehead" /\ pc'[Main] \in {"ehead0", "ecmp"}
      \/ pc[Main] = "ecmp" /\ pc'[Main] \in {"etail1", "enext2"}
      \/ pc[Main] = "etail1" /\ pc'[Main] = "enext1"
      \/ pc[Main] = "etail" /\ pc'[Main] = "incq"
      \/ pc[Main] = "incq" /\ pc'[Main] = "incq2"
      \/ pc[Main] = "incq2" /\ pc'[Main] = "munlock"
  <2>1. CASE Decide
    BY <1>0, <2>1 DEF Decide
  <2>2. CASE EnqueueHead \/ EnqueueCompare
    BY <1>0, <2>2 DEF EnqueueHead, EnqueueCompare
  <2>3. CASE EnqueueSetTail("etail", "incq") \/ EnqueueSetTail("etail1", "enext1")
    BY <1>0, <2>3 DEF EnqueueSetTail
  <2>4. CASE \/ Lock(Main, "mlock", "decide") \/ LoadQueueSize(Main, "incq", "incq2")
             \/ StoreIncQueueSize \/ AcceptExits
    BY <1>0, <2>4 DEF Lock, LoadQueueSize, StoreIncQueueSize, Broadcast, AcceptExits, Die
  <2> QED
    BY <2>1, <2>2, <2>3, <2>4
<1>4. HoldQuiet
  <2>1. pc'[Main] \in Unlinked <=> pc[Main] \in Unlinked
    BY <1>3 DEF Unlinked, MainPC
  <2>2. Queued' = Queued
    BY <1>1, <1>2, QueuedReach
  <2> QED
    BY <1>1, <1>3, <2>1, <2>2 DEF HoldQuiet, IdlePC
<1> QED
  BY <1>4, HoldRests

\* The master gives its connection to the queue.
LEMMA LinkHolds ==
  ASSUME TypeOK, Order, Exclusive, List, Hold,
         \/ EnqueueSetHead
         \/ EnqueueLink("enext1", "incq", head) \/ EnqueueLink("enext2", "etail", tail)
  PROVE  Hold'
<1> USE MainIsNotAWorker DEF Goto, queueVars, localVars, countVars
<1>0. pc \in [Threads -> WorkerPC \cup MainPC]
  BY DEF TypeOK
<1>1. pc[Main] \in {"ehead0", "enext1", "enext2"}
  BY DEF EnqueueSetHead, EnqueueLink, Fault, Die
<1>2. List' /\ Queued' = Queued \cup {fd[Main]}
  BY <1>1, EnqueueLinks
<1>3. /\ UNCHANGED <<fd, conn>> /\ \A w \in Workers : pc'[w] = pc[w]
      /\ pc'[Main] \in {"etail", "incq"}
  <2>1. proc' \notin {"crashed", "corrupted"}
    BY <1>2 DEF List, Nodes
  <2>2. CASE EnqueueSetHead
    BY <1>0, <2>2 DEF EnqueueSetHead
  <2>3. CASE EnqueueLink("enext1", "incq", head)
    BY <1>0, <2>1, <2>3 DEF EnqueueLink, Fault, Die
  <2>4. CASE EnqueueLink("enext2", "etail", tail)
    BY <1>0, <2>1, <2>4 DEF EnqueueLink, Fault, Die
  <2> QED
    BY <2>2, <2>3, <2>4
<1>4. \A w \in Workers : pc[w] \in Resting
  <2>1. ControlOK /\ Critical(Main)
    BY <1>1 DEF TypeOK, ControlOK, Critical
  <2> QED
    BY <2>1, MasterAlone
<1>5. pc[Main] \in Unlinked /\ pc'[Main] \notin Unlinked
  BY <1>1, <1>3 DEF Unlinked, MainPC
<1>6. Descriptors'
  BY <1>3, <1>4 DEF Hold, Descriptors, Resting
<1>7. Sole'
  BY <1>2, <1>3, <1>5 DEF Hold, Sole
<1>8. Kept'
  BY <1>2, <1>3 DEF Hold, Kept
<1> QED
  BY <1>6, <1>7, <1>8 DEF Hold

\* The master closes a connection, or lets go of one that is in the queue.
LEMMA LeaveHolds ==
  ASSUME TypeOK, Order, Exclusive, List, Hold, Reject \/ MainUnlock
  PROVE  Hold'
<1> USE MainIsNotAWorker DEF Goto, queueVars, countVars
<1>0. /\ pc \in [Threads -> WorkerPC \cup MainPC] /\ fd \in [Threads -> Ptr]
      /\ conn \in [Conns -> {"pending", "open", "closed"}]
  BY DEF TypeOK
<1>1. /\ UNCHANGED <<head, next>> /\ pc'[Main] = "accept" /\ fd'[Main] = NULL
      /\ \A w \in Workers : pc'[w] = pc[w] /\ fd'[w] = fd[w]
  BY <1>0 DEF Reject, MainUnlock
<1>2. Queued' = Queued /\ pc'[Main] \notin Unlinked
  BY <1>1, QueuedReach DEF Unlinked
<1>3. Descriptors'
  BY <1>1 DEF Hold, Descriptors
<1>4. Sole'
  BY <1>1, <1>2 DEF Hold, Sole
<1>5. \A c \in Conns : conn'[c] = "open" =>
        conn[c] = "open" /\ ~(pc[Main] \in Unlinked /\ fd[Main] = c)
  BY <1>0 DEF Reject, MainUnlock, Unlinked
<1>6. Kept'
  <2> SUFFICES ASSUME NEW c \in Conns, conn'[c] = "open"
               PROVE  c \in Queued' \/ \E w \in Workers : fd'[w] = c
    BY DEF Kept
  <2>1. c \in Queued \/ \E w \in Workers : fd[w] = c
    BY <1>5 DEF Hold, Kept
  <2> QED
    BY <1>1, <1>2, <2>1
<1> QED
  BY <1>3, <1>4, <1>6 DEF Hold

\* The master gets a connection that nobody has seen before.
LEMMA ArriveHolds ==
  ASSUME TypeOK, Order, Hold, NEW c \in Conns, AcceptConn(c)
  PROVE  Hold'
<1> USE MainIsNotAWorker DEF Goto, queueVars, countVars
<1>0. /\ pc \in [Threads -> WorkerPC \cup MainPC] /\ fd \in [Threads -> Ptr]
      /\ conn \in [Conns -> {"pending", "open", "closed"}]
  BY DEF TypeOK
<1>1. /\ UNCHANGED <<head, next>> /\ pc'[Main] = "mlock" /\ fd'[Main] = c
      /\ pc[Main] = "accept"
      /\ \A w \in Workers : pc'[w] = pc[w] /\ fd'[w] = fd[w]
  BY <1>0 DEF AcceptConn
<1>2. Queued' = Queued /\ pc'[Main] \in Unlinked /\ pc[Main] \notin Unlinked
  BY <1>1, QueuedReach DEF Unlinked, MainPC
<1>3. Descriptors'
  BY <1>1 DEF Hold, Descriptors
<1>4. Sole'
  <2>1. \A w \in Workers : fd[w] # c
    BY DEF Order, Known, Arrived, AcceptConn
  <2> QED
    BY <1>1, <1>2, <2>1 DEF Hold, Sole
<1>5. \A d \in Conns : conn'[d] = "open" => d = c \/ conn[d] = "open"
  BY <1>0 DEF AcceptConn
<1>6. Kept'
  BY <1>1, <1>2, <1>5 DEF Hold, Kept
<1> QED
  BY <1>3, <1>4, <1>6 DEF Hold

-----------------------------------------------------------------------------
(* Room for one more.                                                      *)

\* A step of thread t moves no other thread but out of pthread_cond_wait, and
\* writes a counter only inside a section of t.
LEMMA OneThread ==
  ASSUME TypeOK, Exclusive, Registers, NEW t \in Threads,
         \/ t = Main /\ (PlainMain \/ AcceptExits \/ \E c \in Conns : AcceptConn(c))
         \/ t # Main /\ (thread_function(t) \/ RequestDone(t) \/ RequestExits(t))
         \/ SpuriousWakeup(t)
  PROVE  /\ \A w \in Workers : w # t => pc'[w] = pc[w] \/ (pc[w] = "wait" /\ pc'[w] = "lock")
         /\ countVars' = countVars \/ Critical(t)
         /\ t # Main /\ pc'[t] \in {"signal", "close"} =>
              \/ pc[t] \in {"signal", "close"} /\ countVars' = countVars
              \/ /\ pc[t] = "dech2"
                 /\ queue_size' = queue_size /\ currently_handled' = currently_handled - 1
<1> USE MainIsNotAWorker DEF Goto, countVars
<1>0. /\ pc \in [Threads -> WorkerPC \cup MainPC]
      /\ pc[Main] \notin {"wait", "overload"}
      /\ t # Main => t \in Workers
  BY DEF TypeOK, Exclusive, PlainMainPC, EnqueuePC, Threads
<1>1. CASE t = Main
  <2>1. CASE \/ Lock(Main, "mlock", "decide") \/ Decide
             \/ LoadQueueSize(Main, "incq", "incq2") \/ MainUnlock
             \/ AcceptExits \/ (\E c \in Conns : AcceptConn(c)) \/ SpuriousWakeup(Main)
    BY <1>0, <1>1, <2>1 DEF Lock, Decide, Reject, LoadQueueSize, MainUnlock, AcceptExits, Die,
       AcceptConn, SpuriousWakeup
  <2>2. CASE enqueue
    BY <1>0, <1>1, <2>2 DEF enqueue, EnqueueHead, EnqueueSetHead, EnqueueCompare,
       EnqueueSetTail, EnqueueLink, Fault, Die
  <2>3. CASE StoreIncQueueSize
    BY <1>0, <1>1, <2>3 DEF StoreIncQueueSize, Broadcast, Awake, Critical
  <2> QED
    BY <1>1, <2>1, <2>2, <2>3 DEF PlainMain
<1>2. CASE t # Main
  <2>1. CASE \/ Lock(t, "lock", "check") \/ Lock(t, "lock2", "dech")
             \/ LoadQueueSize(t, "decq", "decq2")
             \/ LoadHandled(t, "inch", "inch2") \/ LoadHandled(t, "dech", "dech2")
             \/ WorkerUnlock(t) \/ WorkerClose(t)
             \/ RequestDone(t) \/ RequestExits(t) \/ SpuriousWakeup(t)
    BY <1>0, <1>2, <2>1 DEF Lock, LoadQueueSize, LoadHandled, WorkerUnlock, WorkerClose,
       RequestDone, RequestExits, Die, SpuriousWakeup, Awake
  <2>2. CASE Dequeue(t)
    BY <1>0, <1>2, <2>2 DEF Dequeue, DequeueCheck, CondWait, DequeueRead, DequeueUnlink,
       DequeueTailCheck, DequeueTailSet, DequeueFree, Fault, Die
  <2>3. CASE StoreDecQueueSize(t) \/ StoreHandled(t, "inch2", "unlock", 1)
    BY <1>0, <1>2, <2>3 DEF StoreDecQueueSize, StoreHandled, Critical
  <2>4. CASE StoreHandled(t, "dech2", "signal", -1)
    <3>1. reg[t] = currently_handled /\ currently_handled \in Int
      BY <1>0, <1>2, <2>4 DEF StoreHandled, Registers, TypeOK
    <3> QED
      BY <1>0, <1>2, <2>4, <3>1 DEF StoreHandled, Critical
  <2>5. CASE WorkerSignal(t)
    BY <1>0, <1>2, <2>5 DEF WorkerSignal, Broadcast, Awake
  <2> QED
    BY <1>0, <1>2, <2>1, <2>2, <2>3, <2>4, <2>5 DEF thread_function, SpuriousWakeup
<1> QED
  BY <1>1, <1>2

\* So the room that a worker has made stays until it leaves its section.
LEMMA RoomKeeps ==
  ASSUME TypeOK, Exclusive, Registers, Bounded, Room, NEW t \in Threads,
         \/ t = Main /\ (PlainMain \/ AcceptExits \/ \E c \in Conns : AcceptConn(c))
         \/ t # Main /\ (thread_function(t) \/ RequestDone(t) \/ RequestExits(t))
         \/ SpuriousWakeup(t)
  PROVE  Room'
<1> SUFFICES ASSUME NEW w \in Workers, pc'[w] \in {"signal", "close"}
             PROVE  queue_size' + currently_handled' < QmaxSize
  BY DEF Room
<1>0. /\ queue_size \in Int /\ currently_handled \in Int /\ QmaxSize \in Int
      /\ queue_size + currently_handled <= QmaxSize
  BY QmaxSizeAssumption DEF TypeOK, Bounded
<1>1. CASE w = t
  <2>1. CASE pc[w] \in {"signal", "close"} /\ countVars' = countVars
    BY <2>1 DEF Room, countVars
  <2>2. CASE queue_size' = queue_size /\ currently_handled' = currently_handled - 1
    BY <1>0, <2>2
  <2> QED
    BY <1>1, <2>1, <2>2, OneThread, MainIsNotAWorker
<1>2. CASE w # t
  <2>1. pc[w] \in {"signal", "close"}
    BY <1>2, OneThread
  <2>2. Critical(w)
    BY <2>1, MainIsNotAWorker DEF Critical
  <2>3. countVars' = countVars
    BY <1>2, <2>2, OneThread, MainIsNotAWorker DEF Exclusive
  <2> QED
    BY <2>1, <2>3 DEF Room, countVars
<1> QED
  BY <1>1, <1>2

-----------------------------------------------------------------------------
(* The invariant, and what it implies.                                     *)

\* Every step before handle_overload() is called keeps the invariant.
LEMMA StepHold == HInv /\ [Next]_vars => HInv'
<1> SUFFICES ASSUME HInv, [Next]_vars PROVE HInv'
  OBVIOUS
<1>0. TypeOK /\ Order /\ LInv'
  BY StepList DEF HInv, LInv, IInv
<1>1. ASSUME ~overloaded' PROVE Hold' /\ Room'
  <2>1. CASE UNCHANGED vars
    <3>1. Hold /\ Room
      BY <1>1, <2>1 DEF HInv, vars
    <3>2. UNCHANGED <<head, next, queue_size, currently_handled, fd, pc, conn>>
      BY <2>1 DEF vars, progVars, countVars, queueVars, localVars
    <3>3. HoldQuiet
      BY <3>2, QueuedReach DEF HoldQuiet
    <3> QED
      BY <3>1, <3>2, <3>3, HoldRests DEF Room
  <2>2. CASE Next
    <3>1. ~overloaded /\ pc'[Main] # "overload"
      BY <1>1, <2>2 DEF Next
    <3>2. Exclusive /\ Registers /\ Bounded /\ List /\ Hold /\ Room
      BY <3>1 DEF HInv, LInv, IInv
    <3>3. CASE main \/ AcceptExits \/ \E c \in Conns : AcceptConn(c)
      <4>1. main => PlainMain
        BY <3>2, NotInOverload DEF Exclusive
      <4>2. Room'
        BY <1>0, <3>2, <3>3, <4>1, RoomKeeps, MainIsNotAWorker
      <4>3. CASE Reject \/ MainUnlock
        BY <1>0, <3>2, <4>2, <4>3, LeaveHolds
      <4>4. CASE ~Reject /\ ~MainUnlock
        BY <1>0, <3>1, <3>2, <3>3, <4>1, <4>2, <4>4, MasterHolds, LinkHolds, ArriveHolds
        DEF PlainMain, enqueue
      <4> QED
        BY <4>3, <4>4
    <3>4. ASSUME NEW w \in Workers, thread_function(w) \/ RequestDone(w) \/ RequestExits(w)
          PROVE  Hold' /\ Room'
      <4>1. Room'
        BY <1>0, <3>2, <3>4, RoomKeeps, MainIsNotAWorker
      <4>2. CASE DequeueRead(w) \/ DequeueUnlink(w)
        BY <1>0, <3>2, <4>1, <4>2, TakeHolds
      <4>3. CASE WorkerClose(w)
        BY <1>0, <3>2, <4>1, <4>3, CloseHolds
      <4> QED
        BY <1>0, <3>2, <3>4, <4>1, <4>2, <4>3, WorkerHolds
    <3>5. ASSUME NEW t \in Threads, SpuriousWakeup(t) PROVE Hold' /\ Room'
      <4>1. Room'
        BY <1>0, <3>2, <3>5, RoomKeeps
      <4>2. t \in Workers
        BY <3>2, <3>5 DEF SpuriousWakeup, Goto, Exclusive, PlainMainPC, EnqueuePC, Threads
      <4>3. ~DequeueRead(t) /\ ~DequeueUnlink(t) /\ ~WorkerClose(t)
        BY <3>5 DEF SpuriousWakeup, Goto, DequeueRead, DequeueUnlink, WorkerClose, Fault, Die
      <4> QED
        BY <1>0, <3>2, <3>5, <4>1, <4>2, <4>3, WorkerHolds
    <3> QED
      BY <2>2, <3>3, <3>4, <3>5 DEF Next, Environment
  <2> QED
    BY <2>1, <2>2
<1> QED
  BY <1>0, <1>1 DEF HInv

\* Nobody holds anything when the server starts.
LEMMA InitHold == Init => HInv
<1> SUFFICES ASSUME Init PROVE HInv
  OBVIOUS
<1>1. /\ pc[Main] = "accept" /\ \A w \in Workers : pc[w] = "lock"
      /\ \A t \in Threads : fd[t] = NULL
      /\ \A c \in Conns : conn[c] = "pending"
  BY MainIsNotAWorker DEF Init
<1>2. Hold
  BY <1>1, MainIsNotAWorker DEF Hold, Descriptors, Sole, Kept
<1>3. Room
  BY <1>1 DEF Room
<1> QED
  BY <1>2, <1>3, InitList DEF HInv

\* A finite set has no fewer elements than its image under a function.
LEMMA ImageBound ==
  ASSUME NEW K, IsFiniteSet(K), NEW f
  PROVE  /\ IsFiniteSet({f[x] : x \in K})
         /\ Cardinality({f[x] : x \in K}) <= Cardinality(K)
<1> DEFINE T == {f[x] : x \in K}
           g == [x \in K |-> f[x]]
<1>1. g \in Surjection(K, T)
  BY DEF Surjection
<1> QED
  BY <1>1, FS_Surjection

\* The workers that hold a connection which is not in the queue any more.
Holders == {w \in Workers : fd[w] # NULL /\ pc[w] # "unlink"}

\* Their connections and the queue are no more than the two counted together.
LEMMA HeldBound ==
  ASSUME TypeOK, Order, Hold, List
  PROVE  /\ IsFiniteSet(Holders) /\ Cardinality(Holders) \in Nat
         /\ Cardinality((Queued \cup {fd[w] : w \in Workers}) \ {NULL}) \in Nat
         /\ Cardinality((Queued \cup {fd[w] : w \in Workers}) \ {NULL})
              <= Cardinality(Queued) + Cardinality(Holders)
<1> DEFINE H == {fd[w] : w \in Holders}
           X == (Queued \cup {fd[w] : w \in Workers}) \ {NULL}
<1>1. IsFiniteSet(Holders) /\ Cardinality(Holders) \in Nat
  <2>1. Holders \in SUBSET Workers
    BY DEF Holders
  <2> QED
    BY <2>1, WorkersAssumption, FS_Subset, FS_CardinalityType
<1>2. IsFiniteSet(H) /\ Cardinality(H) <= Cardinality(Holders) /\ Cardinality(H) \in Nat
  BY <1>1, ImageBound, FS_CardinalityType
<1>3. X \in SUBSET (Queued \cup H)
  <2>1. \A w \in Workers : pc[w] = "unlink" => fd[w] = NULL \/ fd[w] \in Queued
    BY Members DEF Hold, Descriptors
  <2> QED
    BY <2>1 DEF Holders
<1>4. IsFiniteSet(Queued) /\ Cardinality(Queued) \in Nat
  BY Members
<1> HIDE DEF H, X
<1>5. /\ IsFiniteSet(Queued \cup H) /\ Cardinality(Queued \cap H) \in Nat
      /\ Cardinality(Queued \cup H) =
           Cardinality(Queued) + Cardinality(H) - Cardinality(Queued \cap H)
  <2>1. IsFiniteSet(Queued \cap H)
    BY <1>4, FS_Intersection, <1>2
  <2> QED
    BY <1>2, <1>4, <2>1, FS_Union, FS_CardinalityType
<1>6. Cardinality(X) <= Cardinality(Queued \cup H) /\ Cardinality(X) \in Nat
  BY <1>3, <1>5, FS_Subset, FS_CardinalityType
<1>7. Cardinality(X) <= Cardinality(Queued) + Cardinality(Holders)
  <2>1. Cardinality(Queued \cup H) \in Nat
    BY <1>5, FS_CardinalityType
  <2> QED
    BY <1>1, <1>2, <1>4, <1>5, <1>6, <2>1
<1> QED
  BY <1>1, <1>6, <1>7 DEF X

\* Until handle_overload() is first called, the connections that are queued or
\* held by a worker are never more than the limit given on the command line,
\* although a worker counts its request down before it closes the connection.
THEOREM CapacityBoundHolds == Spec => []CapacityBound
<1>1. HInv => CapacityBound
  <2> SUFFICES ASSUME HInv, ~overloaded
               PROVE  Cardinality((Queued \cup {fd[w] : w \in Workers}) \ {NULL}) <= QmaxSize
    BY DEF CapacityBound
  <2>0. TypeOK /\ Order /\ Exclusive /\ Bounded /\ List /\ Hold /\ Room /\ ControlOK
    BY DEF HInv, LInv, IInv, TypeOK, ControlOK
  <2> DEFINE size == Cardinality((Queued \cup {fd[w] : w \in Workers}) \ {NULL})
             q == Cardinality(Queued)
             k == Cardinality(Counted)
             h == Cardinality(Holders)
  <2>1. /\ IsFiniteSet(Holders) /\ h \in Nat /\ size \in Nat /\ size <= q + h
    BY <2>0, HeldBound
  <2>2. /\ q \in Nat /\ k = currently_handled /\ IsFiniteSet(Counted) /\ k \in Nat
        /\ queue_size \in Int /\ QmaxSize \in Nat /\ queue_size + k <= QmaxSize
    <3>1. Counted \in SUBSET Workers
      BY DEF Counted
    <3> QED
      BY <2>0, <3>1, Members, WorkersAssumption, QmaxSizeAssumption, FS_Subset,
         FS_CardinalityType DEF Bounded, TypeOK
  <2>3. CASE \E w \in Workers : pc[w] \in TakenPC \cup {"inch", "inch2", "signal", "close"}
    <3>1. PICK w \in Workers : pc[w] \in TakenPC \cup {"inch", "inch2", "signal", "close"}
      BY <2>3
    <3>2. /\ \A u \in Workers : u # w => pc[u] \in Resting
          /\ pc[Main] \in {"accept", "mlock"}
      BY <2>0, <3>1, WorkerAlone DEF Resting, TakenPC
    <3>3. Holders \in SUBSET (Counted \cup {w}) /\ w \notin Counted
      BY <2>0, <3>1, <3>2 DEF Holders, Counted, Hold, Descriptors, IdlePC, Resting, TakenPC
    <3>4. h <= k + 1
      <4>1. IsFiniteSet(Counted \cup {w}) /\ Cardinality(Counted \cup {w}) = k + 1
        BY <2>2, <3>3, FS_AddElement
      <4>2. Cardinality(Holders) <= Cardinality(Counted \cup {w})
        BY <3>3, <4>1, FS_Subset
      <4> QED
        BY <4>1, <4>2
    <3>5. q + 1 + k <= QmaxSize
      <4>1. CASE pc[w] \in TakenPC
        <5>1. queue_size = q + 1
          BY <2>0, <4>1 DEF List, Sizes
        <5> QED
          BY <2>2, <5>1
      <4>2. CASE pc[w] \notin TakenPC
        <5>1. queue_size = q
          BY <2>0, <3>2, <4>2 DEF List, Sizes, Resting, TakenPC, LinkPC
        <5>2. queue_size + k < QmaxSize
          BY <2>0, <2>2, <3>1, <4>2 DEF Bounded, Room
        <5> QED
          BY <2>2, <5>1, <5>2
      <4> QED
        BY <4>1, <4>2
    <3>6. size <= QmaxSize
      <4> HIDE DEF size, q, k, h
      <4> QED
        BY <2>1, <2>2, <3>4, <3>5
    <3> QED
      BY <3>6
  <2>4. CASE \A w \in Workers : pc[w] \notin TakenPC \cup {"inch", "inch2", "signal", "close"}
    <3>1. Holders \in SUBSET Counted
      BY <2>0, <2>4 DEF Holders, Counted, Hold, Descriptors, IdlePC, TakenPC, ControlOK, WorkerPC
    <3>2. h <= k
      BY <2>2, <3>1, FS_Subset
    <3>3. q + k <= QmaxSize
      <4>1. CASE pc[Main] \in LinkPC
        <5>1. queue_size + 1 = q
          BY <2>0, <4>1 DEF List, Sizes
        <5>2. queue_size + k < QmaxSize
          BY <2>0, <2>2, <4>1 DEF Bounded, LinkPC, EnqueuePC
        <5> QED
          BY <2>2, <5>1, <5>2
      <4>2. CASE pc[Main] \notin LinkPC
        <5>1. queue_size = q
          BY <2>0, <2>4, <4>2 DEF List, Sizes
        <5> QED
          BY <2>2, <5>1
      <4> QED
        BY <4>1, <4>2
    <3>4. size <= QmaxSize
      <4> HIDE DEF size, q, k, h
      <4> QED
        BY <2>1, <2>2, <3>2, <3>3
    <3> QED
      BY <3>4
  <2> QED
    BY <2>3, <2>4
<1> QED
  BY <1>1, InitHold, StepHold, PTL DEF Spec

\* Until then, and while the mutex is free, a connection that is open is in the
\* queue or with exactly one thread: none is forgotten, none is served twice.
THEOREM HeldOnceHolds == Spec => []HeldOnce
<1>1. HInv => HeldOnce
  <2> SUFFICES ASSUME HInv, ~overloaded, ~mutex, NEW c \in Conns, conn[c] = "open"
               PROVE  Cardinality({t \in Threads : fd[t] = c})
                        + (IF c \in Queued THEN 1 ELSE 0) = 1
    BY DEF HeldOnce
  <2> DEFINE T == {t \in Threads : fd[t] = c}
  <2>0. TypeOK /\ Order /\ Exclusive /\ Hold
    BY DEF HInv, LInv, IInv
  <2>1. /\ pc[Main] \in {"accept", "mlock"} /\ \A w \in Workers : pc[w] # "unlink"
        /\ c # NULL
    BY <2>0, MainIsNotAWorker DEF Exclusive, Critical, PlainMainPC, EnqueuePC
  <2>2. fd[Main] = c => pc[Main] \in Unlinked
    BY <2>0, <2>1 DEF Hold, Descriptors, Unlinked, MainPC
  <2>3. CASE c \in Queued
    <3>1. T = {}
      BY <2>0, <2>1, <2>2, <2>3, Members DEF Hold, Sole, Threads
    <3> QED
      BY <2>3, <3>1, FS_EmptySet
  <2>4. CASE c \notin Queued
    <3>1. PICK t \in Threads : fd[t] = c
      BY <2>0, <2>4, MainIsNotAWorker DEF Hold, Kept
    <3>2. T = {t}
      BY <2>0, <2>1, <2>2, <3>1 DEF Hold, Sole, Threads
    <3> QED
      <4>1. Cardinality(T) = 1
        BY <3>2, FS_Singleton
      <4> QED
        BY <2>4, <4>1
  <2> QED
    BY <2>3, <2>4
<1> QED
  BY <1>1, InitHold, StepHold, PTL DEF Spec
=============================================================================
