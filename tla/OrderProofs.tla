---------------------------- MODULE OrderProofs -----------------------------
(***************************************************************************)
(* A proof about Server that holds through all its races: the list stays   *)
(* in the order of arrival, although after handle_overload() the master    *)
(* and the workers are in it at the same time.  The reason is that only    *)
(* the master writes next, and that what it links is the newest node.      *)
(***************************************************************************)
EXTENDS ServerProofs

\* The connections accepted so far.
Arrived == {c \in Conns : conn[c] # "pending"}

\* Where the master holds a connection that no pointer but tail leads to.
Unlinked == MainPC \ {"accept", "etail", "incq", "incq2", "munlock"}

\* Every node, in the list or not, is older than the one it leads to.
InOrder == \A c \in Conns : next[c] # NULL => c < next[c]

\* In random_drop(), tmp_preior stays one node behind tmp.
Apace ==
  pc[Main] \in {"dropwalk", "dropcut"} =>
    /\ walk.prior \in Conns /\ tmp[Main] \in Conns
    /\ next[walk.prior] = tmp[Main]

\* Connections arrive in their order, and pointers lead to those that have.
Known ==
  /\ \A c \in Arrived, d \in Conns : d \notin Arrived => c < d
  /\ {head, tail, walk.prior, tmp[Main]} \subseteq Arrived \cup {NULL}
  /\ \A c \in Conns : next[c] \in Arrived \cup {NULL}
  /\ \A t \in Threads : fd[t] \in Arrived \cup {NULL}

\* The master holds the connection that arrived last ...
Newest ==
  pc[Main] # "accept" => fd[Main] \in Arrived /\ \A c \in Arrived : c <= fd[Main]

\* ... and until it links the node, nothing leads there.
Apart ==
  pc[Main] \in Unlinked =>
    /\ fd[Main] \notin {head, walk.prior}
    /\ \A c \in Conns : next[c] # fd[Main]
    /\ pc[Main] # "enext1" => tail # fd[Main]

Order == InOrder /\ Apace /\ Known /\ Newest /\ Apart

-----------------------------------------------------------------------------
(* Steps that leave next alone.                                            *)

Walking == {"dropwalk", "dropcut"}

\* A pointer that does not lead to the node the master is about to link.
Old(p) == p \in Arrived \cup {NULL} /\ (pc[Main] \in Unlinked => p # fd[Main])

\* The master does not come to hold a connection, nor to have one not linked.
MasterTame ==
  /\ pc'[Main] # "accept" => pc[Main] # "accept" /\ fd'[Main] = fd[Main]
  /\ pc'[Main] \in Unlinked => /\ pc[Main] \in Unlinked
                               /\ pc[Main] = "enext1" => pc'[Main] = "enext1"

\* Pointers are moved to old nodes only.
Tame ==
  /\ next' = next /\ Arrived' = Arrived
  /\ \A t \in Threads : fd'[t] \in Arrived \cup {NULL}
  /\ tmp'[Main] \in Arrived \cup {NULL}
  /\ Old(head') /\ Old(walk'.prior) /\ (tail' = tail \/ Old(tail'))
  /\ MasterTame

\* Pointers to choose from: what head, tmp_preior and the nodes lead to is old.
LEMMA OldPointers ==
  ASSUME TypeOK, Order
  PROVE  /\ Old(NULL) /\ Old(head) /\ Old(walk.prior)
         /\ \A c \in Conns : Old(next[c])
         /\ Arrived \subseteq Conns
<1>1. Arrived \subseteq Conns /\ NULL \notin Conns
  BY MainIsNotAWorker DEF Arrived
<1>2. pc[Main] \in Unlinked => fd[Main] \in Arrived
  BY DEF Order, Newest, Unlinked
<1> QED
  BY <1>1, <1>2 DEF Order, Known, Apart, Old

\* Such a step keeps the order.
LEMMA TameKeeps ==
  ASSUME TypeOK, Order, Tame, Apace'
  PROVE  Order'
<1>1. InOrder'
  BY DEF Order, InOrder, Tame
<1>2. Known'
  BY DEF Order, Known, Tame, Old
<1>3. Newest'
  BY DEF Order, Newest, Tame, MasterTame
<1>4. Apart'
  <2> SUFFICES ASSUME pc'[Main] \in Unlinked PROVE Apart'
    BY DEF Apart
  <2>1. /\ pc[Main] \in Unlinked /\ fd'[Main] = fd[Main]
        /\ pc[Main] = "enext1" => pc'[Main] = "enext1"
    BY DEF Tame, MasterTame, Unlinked
  <2> QED
    BY <2>1 DEF Order, Apart, Tame, Old
<1> QED
  BY <1>1, <1>2, <1>3, <1>4 DEF Order

\* No pointer that matters moves.
Quiet ==
  /\ UNCHANGED <<head, tail, next, walk, conn, fd>>
  /\ tmp'[Main] = tmp[Main]

\* A step that moves none of them keeps the order.
LEMMA QuietKeeps ==
  ASSUME TypeOK, Order, Quiet, MasterTame, pc'[Main] \in Walking => pc[Main] \in Walking
  PROVE  Order'
<1>1. Apace'
  BY DEF Order, Apace, Quiet, Walking
<1>2. Tame
  <2>1. Arrived' = Arrived
    BY DEF Arrived, Quiet
  <2> QED
    BY <2>1, OldPointers DEF Tame, Quiet, Order, Known
<1> QED
  BY <1>1, <1>2, TameKeeps

\* close() of a descriptor in use leaves what has arrived as it is.
LEMMA CloseArrived ==
  ASSUME TypeOK, NEW p \in Arrived \cup {NULL}, conn' = [conn EXCEPT ![p] = "closed"]
  PROVE  Arrived' = Arrived
BY MainIsNotAWorker DEF Arrived, TypeOK

\* The process ends.
LEMMA DieKeeps ==
  ASSUME TypeOK, Order, NEW t, NEW p, NEW s, Die(t, p, s)
  PROVE  Order'
BY QuietKeeps DEF Die, Quiet, MasterTame, queueVars, localVars

\* dequeue() moves head and tail to old nodes, whoever calls it and whoever
\* else is in the list.
LEMMA DequeueKeeps ==
  ASSUME TypeOK, Order, NEW t \in Threads, Dequeue(t)
  PROVE  Order'
<1> USE MainIsNotAWorker DEF Goto, queueVars, localVars
<1>0. /\ pc \in [Threads -> WorkerPC \cup MainPC] /\ next \in [Conns -> Ptr]
      /\ tmp \in [Threads -> Ptr] /\ fd \in [Threads -> Ptr] /\ head \in Ptr
  BY DEF TypeOK
<1>1. CASE DequeueCheck(t)
  <2>1. MasterTame /\ (pc'[Main] \in Walking => pc[Main] \in Walking)
    BY <1>0, <1>1 DEF DequeueCheck, CondWait, MasterTame, Unlinked, Walking, MainPC
  <2>2. CASE Quiet
    BY <2>1, <2>2, QuietKeeps
  <2>3. CASE t = Main /\ tmp'[Main] = NULL
    <3>1. Arrived' = Arrived
      BY <1>1 DEF DequeueCheck, Arrived
    <3>2. Apace'
      BY <1>0, <1>1, <2>3 DEF DequeueCheck, CondWait, Apace
    <3>3. Tame
      BY <1>1, <2>1, <2>3, <3>1, OldPointers DEF DequeueCheck, Tame, Order, Known
    <3> QED
      BY <3>2, <3>3, TameKeeps
  <2> QED
    BY <1>0, <1>1, <2>2, <2>3 DEF DequeueCheck, Quiet
<1>2. CASE DequeueRead(t)
  <2>1. CASE Fault(t, "read", head)
    BY <2>1, DieKeeps DEF Fault
  <2>2. CASE ~Fault(t, "read", head)
    <3>1. MasterTame
      BY <1>0, <1>2, <2>2 DEF DequeueRead, MasterTame, Unlinked, MainPC
    <3>2. Apace'
      BY <1>0, <1>2, <2>2 DEF DequeueRead, Apace, Order
    <3>3. Arrived' = Arrived
      BY <1>2, <2>2 DEF DequeueRead, Arrived
    <3>4. /\ \A u \in Threads : fd'[u] \in {fd[u], head}
          /\ tmp'[Main] \in {tmp[Main], head}
      BY <1>0, <1>2, <2>2 DEF DequeueRead
    <3>5. Tame
      BY <1>2, <2>2, <3>1, <3>3, <3>4, OldPointers DEF DequeueRead, Tame, Order, Known
    <3> QED
      BY <3>2, <3>5, TameKeeps
  <2> QED
    BY <2>1, <2>2
<1>3. CASE DequeueUnlink(t)
  <2>1. CASE Fault(t, "unlink", head)
    BY <2>1, DieKeeps DEF Fault
  <2>2. CASE ~Fault(t, "unlink", head)
    <3>1. MasterTame
      BY <1>0, <1>3, <2>2 DEF DequeueUnlink, MasterTame, Unlinked, MainPC
    <3>2. Apace'
      BY <1>0, <1>3, <2>2 DEF DequeueUnlink, Apace, Order
    <3>3. Arrived' = Arrived
      BY <1>3, <2>2 DEF DequeueUnlink, Arrived
    <3>4. \E c \in Conns : head' = next[c]
      BY <1>0, <1>3, <2>2 DEF DequeueUnlink, Valid, Ptr
    <3>5. Tame
      BY <1>3, <2>2, <3>1, <3>3, <3>4, OldPointers DEF DequeueUnlink, Tame, Order, Known
    <3> QED
      BY <3>2, <3>5, TameKeeps
  <2> QED
    BY <2>1, <2>2
<1>4. CASE DequeueTailCheck(t)
  BY <1>0, <1>4, QuietKeeps DEF DequeueTailCheck, Quiet, MasterTame, Unlinked, MainPC, Walking
<1>5. CASE DequeueTailSet(t)
  <2>1. MasterTame
    BY <1>0, <1>5 DEF DequeueTailSet, MasterTame, Unlinked, MainPC
  <2>2. Apace'
    BY <1>0, <1>5 DEF DequeueTailSet, Apace, Order
  <2>3. Arrived' = Arrived
    BY <1>5 DEF DequeueTailSet, Arrived
  <2>4. Tame
    BY <1>5, <2>1, <2>3, OldPointers DEF DequeueTailSet, Tame, Order, Known
  <2> QED
    BY <2>2, <2>4, TameKeeps
<1>6. CASE DequeueFree(t)
  <2>1. CASE Fault(t, "free", tmp[t])
    BY <2>1, DieKeeps DEF Fault
  <2>2. CASE ~Fault(t, "free", tmp[t])
    <3>1. MasterTame /\ (pc'[Main] \in Walking => pc[Main] \in Walking)
      BY <1>0, <1>6, <2>2 DEF DequeueFree, MasterTame, Unlinked, MainPC, Walking
    <3>2. Quiet
      BY <1>0, <1>6, <2>2 DEF DequeueFree, Quiet
    <3> QED
      BY <3>1, <3>2, QuietKeeps
  <2> QED
    BY <2>1, <2>2
<1> QED
  BY <1>1, <1>2, <1>3, <1>4, <1>5, <1>6 DEF Dequeue

\* The other steps of a worker move no pointer of the list.
LEMMA WorkerKeeps ==
  ASSUME TypeOK, Order, NEW w \in Workers,
         thread_function(w) \/ RequestDone(w) \/ RequestExits(w)
  PROVE  Order'
<1> USE MainIsNotAWorker DEF Goto, queueVars, localVars
<1>0. pc \in [Threads -> WorkerPC \cup MainPC] /\ fd \in [Threads -> Ptr]
  BY DEF TypeOK
<1>1. CASE Quiet /\ pc'[Main] = pc[Main]
  BY <1>1, QuietKeeps DEF Quiet, MasterTame
<1>2. CASE Lock(w, "lock", "check") \/ Lock(w, "lock2", "dech")
  BY <1>0, <1>1, <1>2 DEF Lock, Quiet
<1>3. CASE Dequeue(w)
  BY <1>3, DequeueKeeps
<1>4. CASE LoadQueueSize(w, "decq", "decq2") \/ StoreDecQueueSize(w)
  BY <1>0, <1>1, <1>4 DEF LoadQueueSize, StoreDecQueueSize, Quiet
<1>5. CASE LoadHandled(w, "inch", "inch2") \/ LoadHandled(w, "dech", "dech2")
  BY <1>0, <1>1, <1>5 DEF LoadHandled, Quiet
<1>6. CASE StoreHandled(w, "inch2", "unlock", 1) \/ StoreHandled(w, "dech2", "signal", -1)
  BY <1>0, <1>1, <1>6 DEF StoreHandled, Quiet
<1>7. CASE WorkerUnlock(w) \/ RequestDone(w)
  BY <1>0, <1>1, <1>7 DEF WorkerUnlock, RequestDone, Quiet
<1>8. CASE RequestExits(w)
  BY <1>8, DieKeeps DEF RequestExits
<1>9. CASE WorkerSignal(w)
  <2>1. pc'[Main] = pc[Main] \/ (pc[Main] = "wait" /\ pc'[Main] = "ovlock")
    BY <1>9 DEF WorkerSignal, Broadcast, Awake
  <2>2. Quiet
    BY <1>9 DEF WorkerSignal, Quiet
  <2>3. MasterTame /\ (pc'[Main] \in Walking => pc[Main] \in Walking)
    BY <2>1, <2>2 DEF Quiet, MasterTame, Unlinked, MainPC, Walking
  <2> QED
    BY <2>2, <2>3, QuietKeeps
<1>10. CASE WorkerClose(w)
  <2>1. fd[w] \in Arrived \cup {NULL}
    BY DEF Order, Known
  <2>2. Arrived' = Arrived
    BY <1>10, <2>1, CloseArrived DEF WorkerClose
  <2>3. Apace' /\ MasterTame
    BY <1>0, <1>10 DEF WorkerClose, Apace, Order, MasterTame
  <2>4. \A t \in Threads : fd'[t] \in {fd[t], NULL}
    BY <1>0, <1>10 DEF WorkerClose
  <2>5. Tame
    BY <1>10, <2>2, <2>3, <2>4, OldPointers DEF WorkerClose, Tame, Order, Known
  <2> QED
    BY <2>3, <2>5, TameKeeps
<1> QED
  BY <1>2, <1>3, <1>4, <1>5, <1>6, <1>7, <1>8, <1>9, <1>10 DEF thread_function

-----------------------------------------------------------------------------
(* The master.                                                             *)

\* A connection is accepted: it is newer than every node.
LEMMA AcceptKeeps ==
  ASSUME TypeOK, Order, NEW c \in Conns, AcceptConn(c)
  PROVE  Order'
<1> USE MainIsNotAWorker DEF Goto, queueVars, AcceptConn
<1>0. /\ pc \in [Threads -> WorkerPC \cup MainPC] /\ fd \in [Threads -> Ptr]
      /\ conn \in [Conns -> {"pending", "open", "closed"}]
  BY DEF TypeOK
<1>1. Arrived' = Arrived \cup {c} /\ c \notin Arrived /\ Arrived \subseteq Conns
  BY <1>0 DEF Arrived
<1>2. \A d \in Arrived : d < c
  BY <1>1 DEF Order, Known
<1>3. pc'[Main] = "mlock" /\ fd'[Main] = c
  BY <1>0
<1>4. InOrder' /\ Apace'
  BY <1>3 DEF Order, InOrder, Apace
<1>5. Known'
  <2>1. \A a \in Arrived', d \in Conns : d \notin Arrived' => a < d
    <3> SUFFICES ASSUME NEW a \in Arrived', NEW d \in Conns, d \notin Arrived' PROVE a < d
      OBVIOUS
    <3>1. c <= d /\ c # d
      BY <1>1 DEF Arrived
    <3>2. CASE a \in Arrived
      BY <1>1, <3>2 DEF Order, Known
    <3>3. CASE a = c
      BY <3>1, <3>3 DEF Conns
    <3> QED
      BY <1>1, <3>2, <3>3
  <2>2. \A t \in Threads : fd'[t] \in {fd[t], c}
    BY <1>0
  <2> QED
    BY <1>1, <2>1, <2>2 DEF Order, Known
<1>6. Newest'
  BY <1>1, <1>2, <1>3 DEF Newest, Conns
<1>7. Apart'
  BY <1>1, <1>3 DEF Order, Known, Apart
<1> QED
  BY <1>4, <1>5, <1>6, <1>7 DEF Order

\* Rejecting the connection, or the end of the loop.
LEMMA ReleaseKeeps ==
  ASSUME TypeOK, Order, Reject \/ MainUnlock
  PROVE  Order'
<1> USE MainIsNotAWorker DEF Goto, queueVars, Reject, MainUnlock
<1>0. pc \in [Threads -> WorkerPC \cup MainPC] /\ fd \in [Threads -> Ptr]
  BY DEF TypeOK
<1>1. fd[Main] \in Arrived \cup {NULL}
  BY DEF Order, Known
<1>2. Arrived' = Arrived
  BY <1>1, CloseArrived DEF Arrived
<1>3. pc'[Main] = "accept" /\ \A t \in Threads : fd'[t] \in {fd[t], NULL}
  BY <1>0
<1>4. Apace' /\ MasterTame
  BY <1>3 DEF Apace, MasterTame, Unlinked
<1>5. Tame
  BY <1>2, <1>3, <1>4, OldPointers DEF Tame, Order, Known
<1> QED
  BY <1>4, <1>5, TameKeeps

\* handle_overload() but for random_drop().
LEMMA OverloadKeeps ==
  ASSUME TypeOK, Order,
         OverloadOther \/ OverloadLock \/ OverloadBlock \/ OverloadDropHead
           \/ OverloadRandom \/ OverloadRandomCount
  PROVE  Order'
<1> USE MainIsNotAWorker DEF Goto, queueVars, localVars
<1>0. pc \in [Threads -> WorkerPC \cup MainPC] /\ tmp \in [Threads -> Ptr]
  BY DEF TypeOK
<1>1. CASE OverloadOther \/ OverloadLock \/ OverloadBlock
  <2>1. Quiet
    BY <1>1 DEF OverloadOther, OverloadLock, OverloadBlock, CondWait, Lock, Quiet
  <2>2. /\ pc[Main] \in {"overload", "ovlock", "ovblock"}
        /\ pc'[Main] \in {"ehead", "ovblock", "check", "ovrandom", "wait"}
    BY <1>0, <1>1 DEF OverloadOther, OverloadLock, OverloadBlock, CondWait, Lock
  <2>3. MasterTame /\ (pc'[Main] \in Walking => pc[Main] \in Walking)
    BY <2>1, <2>2 DEF Quiet, MasterTame, Unlinked, MainPC, Walking
  <2> QED
    BY <2>1, <2>3, QuietKeeps
<1>2. CASE OverloadDropHead
  <2>1. CASE tmp[Main] = NULL
    BY <1>2, <2>1, DieKeeps DEF OverloadDropHead
  <2>2. CASE tmp[Main] # NULL
    <3>1. tmp[Main] \in Arrived \cup {NULL}
      BY DEF Order, Known
    <3>2. Arrived' = Arrived
      BY <1>2, <2>2, <3>1, CloseArrived DEF OverloadDropHead
    <3>3. pc[Main] = "dhclose" /\ pc'[Main] = "ehead" /\ tmp'[Main] = NULL
      BY <1>0, <1>2, <2>2 DEF OverloadDropHead
    <3>4. Apace' /\ MasterTame
      BY <1>2, <2>2, <3>3 DEF OverloadDropHead, Apace, MasterTame, Unlinked, MainPC
    <3>5. Tame
      BY <1>2, <2>2, <3>2, <3>3, <3>4, OldPointers DEF OverloadDropHead, Tame, Order, Known
    <3> QED
      BY <3>4, <3>5, TameKeeps
  <2> QED
    BY <2>1, <2>2
<1>3. CASE OverloadRandom \/ OverloadRandomCount
  <2>1. walk' = walk \/ walk'.prior = NULL
    BY <1>3 DEF OverloadRandom, OverloadRandomCount, Walk
  <2>2. /\ pc[Main] \in {"ovrandom", "dropcount"}
        /\ pc'[Main] \in {"ehead", "dropcount", "drop"}
    BY <1>0, <1>3 DEF OverloadRandom, OverloadRandomCount
  <2>3. UNCHANGED <<head, tail, next, fd, tmp, conn>>
    BY <1>3 DEF OverloadRandom, OverloadRandomCount
  <2>4. Apace' /\ MasterTame
    BY <2>2, <2>3 DEF Apace, MasterTame, Unlinked, MainPC
  <2>5. Arrived' = Arrived
    BY <2>3 DEF Arrived
  <2>6. Tame
    BY <2>1, <2>3, <2>4, <2>5, OldPointers DEF Tame, Order, Known
  <2> QED
    BY <2>4, <2>6, TameKeeps
<1> QED
  BY <1>1, <1>2, <1>3

\* The walk of random_drop(): tmp_preior follows tmp, and stays on old nodes.
LEMMA WalkKeeps ==
  ASSUME TypeOK, Order, DropDraw \/ DropWalk
  PROVE  Order'
<1> USE MainIsNotAWorker DEF Goto, queueVars, localVars
<1>0. /\ pc \in [Threads -> WorkerPC \cup MainPC] /\ tmp \in [Threads -> Ptr]
      /\ next \in [Conns -> Ptr] /\ head \in Ptr
  BY DEF TypeOK
<1>1. CASE \E p, s : Die(Main, p, s)
  BY <1>1, DieKeeps
<1>2. CASE DropDraw /\ ~\E p, s : Die(Main, p, s)
  <2>1. /\ head \in Conns /\ walk'.prior = head /\ tmp'[Main] = next[head]
        /\ UNCHANGED <<head, tail, next, fd, conn>>
    BY <1>0, <1>2 DEF DropDraw, Fault, Valid, Ptr, Walk
  <2>2. /\ pc[Main] = "drop"
        /\ pc'[Main] = IF next[head] = NULL THEN "dropcount" ELSE "dropwalk"
    BY <1>0, <1>2 DEF DropDraw, Fault
  <2>3. Apace'
    BY <1>0, <2>1, <2>2 DEF Apace, Ptr
  <2>4. MasterTame /\ Arrived' = Arrived
    BY <2>1, <2>2 DEF MasterTame, Unlinked, MainPC, Arrived
  <2>5. Tame
    BY <2>1, <2>4, OldPointers DEF Tame, Order, Known
  <2> QED
    BY <2>3, <2>5, TameKeeps
<1>3. CASE DropWalk /\ ~\E p, s : Die(Main, p, s)
  <2>1. CASE pc'[Main] = "dropcut" /\ UNCHANGED localVars
    <3>1. Quiet /\ pc[Main] = "dropwalk"
      BY <1>0, <1>3, <2>1 DEF DropWalk, Fault, Quiet
    <3>2. MasterTame /\ (pc'[Main] \in Walking => pc[Main] \in Walking)
      BY <2>1, <3>1 DEF Quiet, MasterTame, Unlinked, MainPC, Walking
    <3> QED
      BY <3>1, <3>2, QuietKeeps
  <2>2. CASE ~(pc'[Main] = "dropcut" /\ UNCHANGED localVars)
    <3>1. /\ next[tmp[Main]] # NULL /\ pc[Main] = "dropwalk" /\ pc'[Main] = "dropwalk"
          /\ walk'.prior = next[walk.prior] /\ tmp'[Main] = next[tmp[Main]]
          /\ UNCHANGED <<head, tail, next, fd, conn>>
      BY <1>0, <1>3, <2>2, SMTT(15) DEF DropWalk, Fault, Walk
    <3>2. /\ walk.prior \in Conns /\ tmp[Main] \in Conns
          /\ next[walk.prior] = tmp[Main]
      BY <3>1 DEF Order, Apace
    <3>3. Apace'
      BY <1>0, <3>1, <3>2 DEF Apace, Ptr
    <3>4. MasterTame /\ Arrived' = Arrived
      BY <3>1 DEF MasterTame, Unlinked, MainPC, Arrived
    <3>5. Tame
      BY <3>1, <3>2, <3>4, OldPointers DEF Tame, Order, Known
    <3> QED
      BY <3>3, <3>5, TameKeeps
  <2> QED
    BY <2>1, <2>2
<1> QED
  BY <1>1, <1>2, <1>3

\* A node is cut out: the one before it is older than the one after it.
LEMMA CutKeeps ==
  ASSUME TypeOK, Order, DropCut
  PROVE  Order'
<1> USE MainIsNotAWorker DEF Goto, queueVars, localVars
<1>0. pc \in [Threads -> WorkerPC \cup MainPC] /\ next \in [Conns -> Ptr]
  BY DEF TypeOK
<1>1. CASE \E p, s : Die(Main, p, s)
  BY <1>1, DieKeeps
<1>2. CASE ~\E p, s : Die(Main, p, s)
  <2>1. /\ pc[Main] = "dropcut" /\ pc'[Main] \in {"droplast", "dropfree"}
        /\ next' = [next EXCEPT ![walk.prior] = next[tmp[Main]]]
        /\ UNCHANGED <<head, tail, walk, tmp, fd, conn>>
    BY <1>0, <1>2 DEF DropCut, Fault
  <2>2. /\ walk.prior \in Conns /\ tmp[Main] \in Conns
        /\ next[walk.prior] = tmp[Main]
    BY <2>1 DEF Order, Apace
  <2>3. \A c \in Conns : next'[c] = IF c = walk.prior THEN next[tmp[Main]] ELSE next[c]
    BY <1>0, <2>1
  <2>4. next[tmp[Main]] # NULL => walk.prior < next[tmp[Main]]
    <3>1. walk.prior < tmp[Main]
      BY <2>2 DEF Order, InOrder
    <3>2. next[tmp[Main]] # NULL => tmp[Main] < next[tmp[Main]] /\ next[tmp[Main]] \in Int
      BY <1>0, <2>2 DEF Order, InOrder, Ptr
    <3>3. walk.prior \in Int /\ tmp[Main] \in Int
      BY <2>2
    <3> QED
      BY <3>1, <3>2, <3>3
  <2>5. InOrder' /\ Apace'
    BY <2>1, <2>3, <2>4 DEF Order, InOrder, Apace
  <2>6. Arrived' = Arrived
    BY <2>1 DEF Arrived
  <2>7. Known' /\ Newest'
    BY <2>1, <2>2, <2>3, <2>6 DEF Order, Known, Newest
  <2>8. Apart'
    BY <2>1, <2>2, <2>3 DEF Order, Apart, Unlinked, MainPC
  <2> QED
    BY <2>5, <2>7, <2>8 DEF Order
<1> QED
  BY <1>1, <1>2

\* The rest of a round.
LEMMA RoundKeeps ==
  ASSUME TypeOK, Order,
         DropFree("droplast", "droptail") \/ DropTail \/ DropFree("dropfree", "drop")
           \/ DropLoopEnds
  PROVE  Order'
<1> USE MainIsNotAWorker DEF Goto, queueVars, localVars
<1>0. pc \in [Threads -> WorkerPC \cup MainPC] /\ tmp \in [Threads -> Ptr]
  BY DEF TypeOK
<1>1. CASE \E p, s : Die(Main, p, s)
  BY <1>1, DieKeeps
<1>2. CASE ~\E p, s : Die(Main, p, s)
  <2>1. /\ pc[Main] \in {"droplast", "dropfree", "droptail", "drop"}
        /\ pc'[Main] \in {"droptail", "drop", "dropcount"}
    BY <1>0, <1>2 DEF DropFree, DropTail, DropLoopEnds, Fault
  <2>2. UNCHANGED <<head, next, fd, conn>> /\ tail' \in {tail, walk.prior}
    BY <1>2 DEF DropFree, DropTail, DropLoopEnds, Fault
  <2>3. walk'.prior = walk.prior /\ tmp'[Main] \in {tmp[Main], NULL}
    BY <1>0, <1>2 DEF DropFree, DropTail, DropLoopEnds, Fault, Walk
  <2>4. Apace' /\ MasterTame /\ Arrived' = Arrived
    BY <2>1, <2>2 DEF Apace, MasterTame, Unlinked, MainPC, Arrived
  <2>5. Tame
    BY <2>2, <2>3, <2>4, OldPointers DEF Tame, Order, Known
  <2> QED
    BY <2>4, <2>5, TameKeeps
<1> QED
  BY <1>1, <1>2

\* enqueue() links the newest node behind an older one, if that is not the
\* node the code meant because a worker has moved head or tail since the test.
LEMMA EnqueueKeeps ==
  ASSUME TypeOK, Order, enqueue
  PROVE  Order'
<1> USE MainIsNotAWorker DEF Goto, queueVars, localVars
<1>0. /\ pc \in [Threads -> WorkerPC \cup MainPC] /\ next \in [Conns -> Ptr]
      /\ head \in Ptr /\ tail \in Ptr
  BY DEF TypeOK
<1>1. CASE \E p, s : Die(Main, p, s)
  BY <1>1, DieKeeps
<1>2. CASE EnqueueHead
  <2>1. /\ pc[Main] = "ehead" /\ pc'[Main] \in {"ehead0", "ecmp"}
        /\ UNCHANGED <<head, tail, walk, tmp, fd, conn>>
    BY <1>0, <1>2 DEF EnqueueHead
  <2>2. \A c \in Conns : next'[c] \in {next[c], NULL}
    BY <1>0, <1>2 DEF EnqueueHead
  <2>3. Arrived' = Arrived /\ (fd[Main] \in Arrived /\ Arrived \subseteq Conns)
    BY <2>1 DEF Arrived, Order, Newest
  <2>4. InOrder' /\ Apace'
    BY <2>1, <2>2 DEF Order, InOrder, Apace
  <2>5. Known' /\ Newest'
    BY <2>1, <2>2, <2>3 DEF Order, Known, Newest
  <2>6. Apart'
    BY <2>1, <2>2, <2>3 DEF Order, Apart, Unlinked, MainPC
  <2> QED
    BY <2>4, <2>5, <2>6 DEF Order
<1>3. CASE EnqueueSetHead \/ EnqueueSetTail("etail", "incq") \/ EnqueueSetTail("etail1", "enext1")
  <2>1. /\ pc[Main] \in {"ehead0", "etail", "etail1"} /\ pc'[Main] \in {"etail", "incq", "enext1"}
        /\ UNCHANGED <<next, walk, tmp, fd, conn>>
    BY <1>0, <1>3 DEF EnqueueSetHead, EnqueueSetTail
  <2>2. /\ head' \in {head, fd[Main]} /\ tail' \in {tail, fd[Main]}
        /\ pc'[Main] = "enext1" => pc[Main] = "etail1" /\ head' = head
    BY <1>0, <1>3 DEF EnqueueSetHead, EnqueueSetTail
  <2>3. Arrived' = Arrived /\ fd[Main] \in Arrived
    BY <2>1 DEF Arrived, Order, Newest
  <2>4. InOrder' /\ Apace'
    BY <2>1 DEF Order, InOrder, Apace
  <2>5. Known' /\ Newest'
    BY <2>1, <2>2, <2>3 DEF Order, Known, Newest
  <2>6. Apart'
    BY <2>1, <2>2 DEF Order, Apart, Unlinked, MainPC
  <2> QED
    BY <2>4, <2>5, <2>6 DEF Order
<1>4. CASE EnqueueCompare
  <2>1. Quiet /\ pc[Main] = "ecmp" /\ pc'[Main] \in {"etail1", "enext2"}
    BY <1>0, <1>4 DEF EnqueueCompare, Quiet
  <2>2. MasterTame /\ (pc'[Main] \in Walking => pc[Main] \in Walking)
    BY <2>1 DEF Quiet, MasterTame, Unlinked, MainPC, Walking
  <2> QED
    BY <2>1, <2>2, QuietKeeps
<1>5. CASE /\ EnqueueLink("enext1", "incq", head) \/ EnqueueLink("enext2", "etail", tail)
           /\ ~\E p, s : Die(Main, p, s)
  <2>1. PICK a \in Ptr : /\ a # NULL /\ next' = [next EXCEPT ![a] = fd[Main]]
                         /\ \/ a = head /\ pc[Main] = "enext1"
                            \/ a = tail /\ pc[Main] = "enext2"
    BY <1>0, <1>5 DEF EnqueueLink, Fault, Valid
  <2>2. pc'[Main] \in {"incq", "etail"} /\ UNCHANGED <<head, tail, walk, tmp, fd, conn>>
    BY <1>0, <1>5 DEF EnqueueLink, Fault
  <2>3. Arrived' = Arrived /\ fd[Main] \in Arrived /\ Arrived \subseteq Conns
    BY <2>1, <2>2 DEF Arrived, Order, Newest
  <2>4. a \in Arrived /\ a # fd[Main]
    BY <2>1 DEF Order, Known, Apart, Unlinked, MainPC
  <2>5. a < fd[Main]
    <3>1. a <= fd[Main]
      BY <2>1, <2>4 DEF Order, Newest
    <3>2. a \in Int /\ fd[Main] \in Int
      BY <2>3, <2>4
    <3> QED
      BY <2>4, <3>1, <3>2
  <2>6. \A c \in Conns : next'[c] = IF c = a THEN fd[Main] ELSE next[c]
    BY <1>0, <2>1
  <2>7. InOrder' /\ Apace'
    BY <2>2, <2>5, <2>6 DEF Order, InOrder, Apace
  <2>8. Known' /\ Newest'
    BY <2>1, <2>2, <2>3, <2>6 DEF Order, Known, Newest
  <2>9. Apart'
    BY <2>2 DEF Apart, Unlinked
  <2> QED
    BY <2>7, <2>8, <2>9 DEF Order
<1> QED
  BY <1>1, <1>2, <1>3, <1>4, <1>5 DEF enqueue

\* The steps of main() around them.
LEMMA MasterKeeps ==
  ASSUME TypeOK, Order, main
  PROVE  Order'
<1> USE MainIsNotAWorker DEF Goto, queueVars, localVars
<1>0. pc \in [Threads -> WorkerPC \cup MainPC]
  BY DEF TypeOK
<1>1. ASSUME Quiet, pc[Main] \in MainPC \ {"accept", "enext1"}, pc'[Main] \notin Walking,
             pc'[Main] \in Unlinked => pc[Main] \in Unlinked
      PROVE  Order'
  BY <1>1, QuietKeeps DEF Quiet, MasterTame, Walking
<1>2. CASE Lock(Main, "mlock", "decide")
  BY <1>0, <1>1, <1>2 DEF Lock, Quiet, Unlinked, MainPC, Walking
<1>3. CASE Decide
  <2>1. CASE Reject
    BY <2>1, ReleaseKeeps
  <2>2. CASE ~Reject
    <3>1. Quiet /\ pc[Main] = "decide" /\ pc'[Main] \in {"overload", "ehead"}
      BY <1>0, <1>3, <2>2 DEF Decide, Quiet
    <3> QED
      BY <1>1, <3>1 DEF Unlinked, MainPC, Walking
  <2> QED
    BY <2>1, <2>2
<1>4. CASE LoadQueueSize(Main, "decq", "decq2") \/ LoadQueueSize(Main, "incq", "incq2")
  BY <1>0, <1>1, <1>4 DEF LoadQueueSize, Quiet, Unlinked, MainPC, Walking
<1>5. CASE StoreDecQueueSize(Main)
  BY <1>0, <1>1, <1>5 DEF StoreDecQueueSize, Quiet, Unlinked, MainPC, Walking
<1>6. CASE StoreIncQueueSize
  <2>1. Quiet /\ pc[Main] = "incq2" /\ pc'[Main] = "munlock"
    BY <1>6 DEF StoreIncQueueSize, Broadcast, Quiet
  <2> QED
    BY <1>1, <2>1 DEF Unlinked, MainPC, Walking
<1> QED
  BY <1>2, <1>3, <1>4, <1>5, <1>6, DequeueKeeps, OverloadKeeps, WalkKeeps, CutKeeps,
     RoundKeeps, EnqueueKeeps, ReleaseKeeps
  DEF main, handle_overload, random_drop

\* Every step of the server keeps the order.
LEMMA StepOrdered == TypeOK /\ Order /\ [Next]_vars => Order'
<1> SUFFICES ASSUME TypeOK, Order, [Next]_vars PROVE Order'
  OBVIOUS
<1>1. CASE UNCHANGED vars
  BY <1>1, QuietKeeps DEF vars, progVars, Quiet, MasterTame
<1>2. CASE main \/ AcceptExits \/ \E c \in Conns : AcceptConn(c)
  BY <1>2, MasterKeeps, AcceptKeeps, DieKeeps DEF AcceptExits
<1>3. CASE \E w \in Workers : thread_function(w) \/ RequestDone(w) \/ RequestExits(w)
  BY <1>3, WorkerKeeps
<1>4. ASSUME NEW t \in Threads, SpuriousWakeup(t) PROVE Order'
  <2>1. pc'[Main] = pc[Main] \/ (pc[Main] = "wait" /\ pc'[Main] = "ovlock")
    BY <1>4, MainIsNotAWorker DEF SpuriousWakeup, Goto, Awake, TypeOK
  <2>2. Quiet
    BY <1>4 DEF SpuriousWakeup, Quiet, queueVars, localVars
  <2>3. MasterTame /\ (pc'[Main] \in Walking => pc[Main] \in Walking)
    BY <2>1, <2>2 DEF Quiet, MasterTame, Unlinked, MainPC, Walking
  <2> QED
    BY <2>2, <2>3, QuietKeeps
<1> QED
  BY <1>1, <1>2, <1>3, <1>4 DEF Next, Environment

\* It holds when the server starts.
LEMMA InitOrdered == Init => Order
<1> SUFFICES ASSUME Init PROVE Order
  OBVIOUS
<1> USE MainIsNotAWorker DEF Init
<1>1. pc[Main] = "accept" /\ Arrived = {}
  BY DEF Arrived
<1>2. walk.prior = NULL /\ tmp[Main] = NULL
  BY DEF Walk
<1>3. InOrder /\ Apace /\ Newest /\ Apart
  BY <1>1 DEF InOrder, Apace, Newest, Apart, Unlinked
<1>4. Known
  BY <1>1, <1>2 DEF Known
<1> QED
  BY <1>3, <1>4 DEF Order

\* Under every policy and whatever the races after handle_overload() do to head,
\* tail and the counters, the nodes of the list are in the order of arrival; in
\* particular the list has no cycle, and every walk along it ends.
THEOREM QueueSortedHolds == Spec => []QueueSorted
<1>1. Init => TypeOK /\ Order
  BY InitTyped, InitOrdered
<1>2. TypeOK /\ Order /\ [Next]_vars => (TypeOK /\ Order)'
  BY StepTyped, StepOrdered
<1>3. TypeOK /\ Order => QueueSorted
  BY DEF Order, InOrder, QueueSorted, Queued
<1> QED
  BY <1>1, <1>2, <1>3, PTL DEF Spec
=============================================================================
