---------------------------- MODULE ServerProofs ----------------------------
(***************************************************************************)
(* Proofs about Server for every number of workers, every limit, every     *)
(* set of policies and every number of connections.                        *)
(***************************************************************************)
EXTENDS Server, TLAPS, FiniteSetTheorems

\* Where the master is while it has not called handle_overload().
EnqueuePC == {"ehead", "ehead0", "ecmp", "etail1", "enext1", "enext2", "etail",
              "incq", "incq2"}
PlainMainPC == {"accept", "mlock", "decide", "munlock"} \cup EnqueuePC

\* The workers that currently_handled counts.
Counted == {w \in Workers : pc[w] \in {"unlock", "handle", "lock2", "dech", "dech2"}}

\* The mutex protects what it should.
Exclusive ==
  /\ pc[Main] \in PlainMainPC
  /\ \A t \in Threads : Critical(t) => mutex
  /\ \A t, u \in Threads : Critical(t) /\ Critical(u) => t = u

\* A register holds what is still in the counter it was read from.
Registers ==
  /\ pc[Main] = "incq2" => reg[Main] = queue_size
  /\ \A w \in Workers : /\ pc[w] = "decq2" => reg[w] = queue_size
                        /\ pc[w] \in {"inch2", "dech2"} => reg[w] = currently_handled

\* The counters stay within the limit, with room for the step under way.
Bounded ==
  /\ currently_handled = Cardinality(Counted)
  /\ queue_size + currently_handled <= QmaxSize
  /\ pc[Main] \in EnqueuePC => queue_size + currently_handled < QmaxSize
  /\ \A w \in Workers : pc[w] \in {"inch", "inch2"} =>
                          queue_size + currently_handled < QmaxSize

IInv == TypeOK /\ (~overloaded => Exclusive /\ Registers /\ Bounded)

-----------------------------------------------------------------------------
(* Type correctness.                                                       *)

\* The master is a thread but no worker; nodes are numbers and NULL is none.
LEMMA MainIsNotAWorker ==
  /\ Main \in Threads
  /\ \A w \in Workers : w \in Threads /\ w # Main
  /\ NULL \in Ptr /\ Conns \subseteq Ptr /\ NULL \notin Conns /\ Conns \subseteq Int
BY WorkersAssumption, MaxConnAssumption DEF Threads, Ptr, Conns

\* The locals of random_drop(), as they are set ...
LEMMA WalkTyped == \A h \in Int, p \in Ptr, l \in Int : Walk(h, p, l) \in Walks
BY DEF Walk, Walks

\* ... as they are read ...
LEMMA WalkParts == \A w \in Walks : w.higher \in Int /\ w.prior \in Ptr /\ w.left \in Int
BY DEF Walks

\* ... and at the end of a round.
LEMMA WalkRound == \A w \in Walks : Walk(w.higher - 1, w.prior, 0) \in Walks
BY DEF Walk, Walks

\* TypeOK in two parts: where the threads are, and the rest of the program.
ControlOK ==
  /\ pc \in [Threads -> WorkerPC \cup MainPC]
  /\ pc[Main] \in MainPC
  /\ \A w \in Workers : pc[w] \in WorkerPC

DataOK ==
  /\ mutex \in BOOLEAN
  /\ queue_size \in Int /\ currently_handled \in Int
  /\ head \in Ptr /\ tail \in Ptr
  /\ next \in [Conns -> Ptr]
  /\ freed \subseteq Conns
  /\ fd \in [Threads -> Ptr]
  /\ tmp \in [Threads -> Ptr]
  /\ reg \in [Threads -> Int]
  /\ walk \in Walks
  /\ conn \in [Conns -> {"pending", "open", "closed"}]
  /\ proc \in {"up", "exited", "crashed", "corrupted"}

\* dequeue() leaves every thread at a place of its own code.
LEMMA DequeueControl ==
  ASSUME ControlOK, NEW t \in Threads, Dequeue(t)
  PROVE  ControlOK'
<1> USE MainIsNotAWorker DEF ControlOK, Goto, MainPC, WorkerPC
<1>1. CASE DequeueCheck(t)
  BY <1>1 DEF DequeueCheck, CondWait
<1>2. CASE DequeueRead(t) \/ DequeueUnlink(t) \/ DequeueFree(t)
  BY <1>2 DEF DequeueRead, DequeueUnlink, DequeueFree, Fault, Die
<1>3. CASE DequeueTailCheck(t) \/ DequeueTailSet(t)
  BY <1>3 DEF DequeueTailCheck, DequeueTailSet
<1> QED
  BY <1>1, <1>2, <1>3 DEF Dequeue

\* So does a step of thread_function().
LEMMA WorkerControl ==
  ASSUME ControlOK, NEW w \in Workers,
         thread_function(w) \/ RequestDone(w) \/ RequestExits(w)
  PROVE  ControlOK'
<1> USE MainIsNotAWorker DEF ControlOK, Goto, MainPC, WorkerPC
<1>1. CASE Lock(w, "lock", "check") \/ Lock(w, "lock2", "dech")
  BY <1>1 DEF Lock
<1>2. CASE Dequeue(w)
  BY <1>2, DequeueControl
<1>3. CASE LoadQueueSize(w, "decq", "decq2") \/ StoreDecQueueSize(w)
  BY <1>3 DEF LoadQueueSize, StoreDecQueueSize
<1>4. CASE LoadHandled(w, "inch", "inch2") \/ LoadHandled(w, "dech", "dech2")
  BY <1>4 DEF LoadHandled
<1>5. CASE StoreHandled(w, "inch2", "unlock", 1) \/ StoreHandled(w, "dech2", "signal", -1)
  BY <1>5 DEF StoreHandled
<1>6. CASE WorkerUnlock(w) \/ RequestDone(w) \/ RequestExits(w)
  BY <1>6 DEF WorkerUnlock, RequestDone, RequestExits, Die
<1>7. CASE WorkerSignal(w)
  BY <1>7 DEF WorkerSignal, Broadcast, Awake
<1>8. CASE WorkerClose(w)
  BY <1>8 DEF WorkerClose
<1> QED
  BY <1>1, <1>2, <1>3, <1>4, <1>5, <1>6, <1>7, <1>8 DEF thread_function

\* So does a step of main(), handle_overload() and enqueue() included.
LEMMA MasterControl ==
  ASSUME ControlOK, main \/ AcceptExits \/ \E c \in Conns : AcceptConn(c)
  PROVE  ControlOK'
<1> USE MainIsNotAWorker DEF ControlOK, Goto, MainPC
<1>1. CASE Lock(Main, "mlock", "decide") \/ OverloadLock
  BY <1>1 DEF Lock, OverloadLock
<1>2. CASE Decide
  BY <1>2 DEF Decide, Reject
<1>3. CASE OverloadOther \/ OverloadBlock
  BY <1>3 DEF OverloadOther, OverloadBlock, CondWait
<1>4. CASE Dequeue(Main)
  BY <1>4, DequeueControl
<1>5. CASE LoadQueueSize(Main, "decq", "decq2") \/ StoreDecQueueSize(Main)
  BY <1>5 DEF LoadQueueSize, StoreDecQueueSize
<1>6. CASE OverloadDropHead
  BY <1>6 DEF OverloadDropHead, Die
<1>7. CASE OverloadRandom \/ random_drop \/ OverloadRandomCount
  <2>1. CASE OverloadRandom \/ OverloadRandomCount
    BY <2>1 DEF OverloadRandom, OverloadRandomCount, Fault, Die
  <2>2. CASE DropDraw \/ DropTail \/ DropLoopEnds
    BY <2>2 DEF DropDraw, DropTail, DropLoopEnds, Fault, Die
  <2>3. CASE DropWalk \/ DropCut
    BY <2>3 DEF DropWalk, DropCut, Fault, Die
  <2>4. CASE DropFree("droplast", "droptail") \/ DropFree("dropfree", "drop")
    BY <2>4 DEF DropFree, Fault, Die
  <2> QED
    BY <1>7, <2>1, <2>2, <2>3, <2>4 DEF random_drop
<1>8. CASE EnqueueHead \/ EnqueueSetHead \/ EnqueueCompare
  BY <1>8 DEF EnqueueHead, EnqueueSetHead, EnqueueCompare
<1>9. CASE EnqueueSetTail("etail", "incq") \/ EnqueueSetTail("etail1", "enext1")
  BY <1>9 DEF EnqueueSetTail
<1>10. CASE EnqueueLink("enext1", "incq", head) \/ EnqueueLink("enext2", "etail", tail)
  BY <1>10 DEF EnqueueLink, Fault, Die
<1>11. CASE LoadQueueSize(Main, "incq", "incq2")
  BY <1>11 DEF LoadQueueSize
<1>12. CASE StoreIncQueueSize
  BY <1>12 DEF StoreIncQueueSize, Broadcast, Awake, WorkerPC
<1>13. CASE MainUnlock \/ AcceptExits \/ \E c \in Conns : AcceptConn(c)
  BY <1>13 DEF MainUnlock, AcceptExits, AcceptConn, Die
<1> QED
  BY <1>1, <1>2, <1>3, <1>4, <1>5, <1>6, <1>7, <1>8, <1>9, <1>10, <1>11, <1>12, <1>13
  DEF main, enqueue, handle_overload

\* dequeue() keeps the types of the list, of the counters and of the locals.
LEMMA DequeueData ==
  ASSUME DataOK, NEW t \in Threads, Dequeue(t)
  PROVE  DataOK'
<1> USE MainIsNotAWorker DEF DataOK, countVars, queueVars, localVars
<1>1. CASE DequeueCheck(t)
  BY <1>1 DEF DequeueCheck, CondWait, Unlock
<1>2. CASE DequeueRead(t)
  BY <1>2 DEF DequeueRead, Fault, Die
<1>3. CASE DequeueUnlink(t)
  BY <1>3 DEF DequeueUnlink, Fault, Die, Valid, Ptr
<1>4. CASE DequeueTailCheck(t) \/ DequeueTailSet(t)
  BY <1>4 DEF DequeueTailCheck, DequeueTailSet
<1>5. CASE DequeueFree(t)
  BY <1>5 DEF DequeueFree, Fault, Die, Valid, Ptr
<1> QED
  BY <1>1, <1>2, <1>3, <1>4, <1>5 DEF Dequeue

\* A register that was loaded holds an integer, and so does what is stored.
LEMMA RegisterData ==
  ASSUME DataOK, NEW t \in Threads
  PROVE  /\ \A p, q : LoadQueueSize(t, p, q) => DataOK'
         /\ StoreDecQueueSize(t) => DataOK'
         /\ \A p, q : \A d \in {1, -1} : StoreHandled(t, p, q, d) => DataOK'
<1> USE DEF countVars, queueVars, localVars
<1>1. /\ reg[t] \in Int /\ [reg EXCEPT ![t] = 0] \in [Threads -> Int]
      /\ [reg EXCEPT ![t] = queue_size] \in [Threads -> Int]
  BY DEF DataOK
<1>2. \A p, q : LoadQueueSize(t, p, q) => DataOK'
  BY <1>1 DEF LoadQueueSize, DataOK
<1>3. StoreDecQueueSize(t) => DataOK'
  BY <1>1 DEF StoreDecQueueSize, DataOK
<1>4. \A p, q : \A d \in {1, -1} : StoreHandled(t, p, q, d) => DataOK'
  BY <1>1 DEF StoreHandled, DataOK
<1> QED
  BY <1>2, <1>3, <1>4

\* So does a step of thread_function().
LEMMA WorkerData ==
  ASSUME DataOK, NEW w \in Workers,
         thread_function(w) \/ RequestDone(w) \/ RequestExits(w)
  PROVE  DataOK'
<1> USE MainIsNotAWorker DEF DataOK, countVars, queueVars, localVars
<1>1. CASE Lock(w, "lock", "check") \/ Lock(w, "lock2", "dech")
  BY <1>1 DEF Lock
<1>2. CASE Dequeue(w)
  BY <1>2, DequeueData
<1>3. CASE LoadQueueSize(w, "decq", "decq2") \/ StoreDecQueueSize(w)
  BY <1>3, RegisterData
<1>4. CASE LoadHandled(w, "inch", "inch2") \/ LoadHandled(w, "dech", "dech2")
  BY <1>4 DEF LoadHandled
<1>5. CASE StoreHandled(w, "inch2", "unlock", 1) \/ StoreHandled(w, "dech2", "signal", -1)
  BY <1>5, RegisterData
<1>6. CASE WorkerUnlock(w) \/ RequestDone(w) \/ RequestExits(w)
  BY <1>6 DEF WorkerUnlock, RequestDone, RequestExits, Unlock, Die
<1>7. CASE WorkerSignal(w)
  BY <1>7 DEF WorkerSignal
<1>8. CASE WorkerClose(w)
  BY <1>8 DEF WorkerClose, Unlock
<1> QED
  BY <1>1, <1>2, <1>3, <1>4, <1>5, <1>6, <1>7, <1>8 DEF thread_function

\* So does a step of main().
LEMMA MasterData ==
  ASSUME DataOK, main \/ AcceptExits \/ \E c \in Conns : AcceptConn(c)
  PROVE  DataOK'
<1> USE MainIsNotAWorker DEF DataOK, countVars, queueVars, localVars
<1>0. walk.higher \in Int /\ walk.prior \in Ptr /\ walk.left \in Int
  BY WalkParts
<1>1. CASE Lock(Main, "mlock", "decide") \/ OverloadLock
  BY <1>1 DEF Lock, OverloadLock
<1>2. CASE Decide
  <2>1. CASE Reject
    BY <2>1 DEF Reject, Unlock
  <2>2. CASE ~Reject
    BY <1>2, <2>2 DEF Decide, Unlock
  <2> QED
    BY <2>1, <2>2
<1>3. CASE OverloadOther \/ OverloadBlock
  BY <1>3 DEF OverloadOther, OverloadBlock, CondWait, Unlock
<1>4. CASE Dequeue(Main)
  BY <1>4, DequeueData
<1>5. CASE LoadQueueSize(Main, "decq", "decq2") \/ StoreDecQueueSize(Main)
  BY <1>5, RegisterData
<1>6. CASE OverloadDropHead
  BY <1>6 DEF OverloadDropHead, Unlock, Die
<1>7. CASE OverloadRandom
  <2>1. walk' \in Walks
    BY <1>7, WalkTyped DEF OverloadRandom
  <2>2. reg' \in [Threads -> Int]
    BY <1>7 DEF OverloadRandom
  <2> QED
    BY <1>7, <2>1, <2>2 DEF OverloadRandom, Unlock
<1>8. CASE DropDraw \/ DropWalk
  <2>1. CASE Die(Main, pc[Main], "crashed") \/ Die(Main, pc[Main], "corrupted")
    BY <2>1 DEF Die
  <2>2. CASE ~(Die(Main, pc[Main], "crashed") \/ Die(Main, pc[Main], "corrupted"))
    <3>1. walk' \in Walks
      <4>1. \/ walk' = walk
            \/ \E a \in Ptr, n \in Int : walk' = Walk(walk.higher, a, n)
        <5>1. CASE DropDraw
          BY <1>0, <2>2, <5>1 DEF DropDraw, Valid, Fault, Die
        <5>2. CASE DropWalk
          <6>1. ASSUME Valid(walk.prior) PROVE next[walk.prior] \in Ptr
            BY <1>0, <6>1 DEF Valid, Ptr
          <6>2. walk.left - 1 \in Int
            BY <1>0
          <6> QED
            BY <2>2, <5>2, <6>1, <6>2 DEF DropWalk, Fault, Die
        <5> QED
          BY <1>8, <5>1, <5>2
      <4> QED
        BY <1>0, <4>1, WalkTyped
    <3>2. tmp' \in [Threads -> Ptr]
      <4>1. tmp' = tmp \/ \E a \in Conns : tmp' = [tmp EXCEPT ![Main] = next[a]]
        BY <1>8, <2>2 DEF DropDraw, DropWalk, Valid, Fault, Ptr, Die
      <4> QED
        BY <4>1
    <3>3. UNCHANGED <<mutex, countVars, queueVars, fd, reg, conn, proc>>
      BY <1>8, <2>2 DEF DropDraw, DropWalk, Fault, Die
    <3> QED
      BY <3>1, <3>2, <3>3
  <2> QED
    BY <2>1, <2>2
<1>9. CASE DropCut \/ DropTail \/ DropLoopEnds
             \/ DropFree("droplast", "droptail") \/ DropFree("dropfree", "drop")
  <2>1. CASE DropCut
    <3>1. CASE Fault(Main, "dropcut", tmp[Main]) \/ Fault(Main, "dropcut", walk.prior)
      BY <3>1 DEF Fault, Die
    <3> QED
      BY <2>1, <3>1 DEF DropCut, Valid, Ptr
  <2>2. CASE DropTail \/ DropLoopEnds
    BY <1>0, <2>2 DEF DropTail, DropLoopEnds
  <2>3. ASSUME NEW p, NEW q, DropFree(p, q) PROVE DataOK'
    <3>1. Walk(walk.higher - 1, walk.prior, 0) \in Walks
      BY WalkRound
    <3>2. CASE UNCHANGED <<mutex, countVars, queueVars, localVars, conn>>
      BY <2>3, <3>2 DEF DropFree, Fault, Die
    <3>3. CASE Valid(tmp[Main]) /\ walk' = Walk(walk.higher - 1, walk.prior, 0)
      BY <2>3, <3>1, <3>3 DEF DropFree, Valid, Fault, Die, Ptr
    <3> QED
      BY <2>3, <3>2, <3>3 DEF DropFree, Fault, Die
  <2> QED
    BY <1>9, <2>1, <2>2, <2>3
<1>10. CASE OverloadRandomCount
  <2>1. queue_size' \in Int
    BY <1>10 DEF OverloadRandomCount
  <2>2. reg' \in [Threads -> Int]
    BY <1>10 DEF OverloadRandomCount
  <2> QED
    BY <1>10, <2>1, <2>2, WalkTyped DEF OverloadRandomCount, Unlock
<1>11. CASE EnqueueHead
  BY <1>11 DEF EnqueueHead
<1>12. CASE EnqueueSetHead \/ EnqueueCompare
  BY <1>12 DEF EnqueueSetHead, EnqueueCompare
<1>13. CASE EnqueueSetTail("etail", "incq") \/ EnqueueSetTail("etail1", "enext1")
  BY <1>13 DEF EnqueueSetTail
<1>14. CASE EnqueueLink("enext1", "incq", head) \/ EnqueueLink("enext2", "etail", tail)
  BY <1>14 DEF EnqueueLink, Fault, Die
<1>15. CASE LoadQueueSize(Main, "incq", "incq2")
  BY <1>15, RegisterData
<1>16. CASE StoreIncQueueSize
  <2>1. queue_size' \in Int
    BY <1>16 DEF StoreIncQueueSize
  <2>2. reg' \in [Threads -> Int]
    BY <1>16 DEF StoreIncQueueSize
  <2> QED
    BY <1>16, <2>1, <2>2 DEF StoreIncQueueSize
<1>17. CASE MainUnlock
  BY <1>17 DEF MainUnlock, Unlock
<1>18. CASE AcceptExits \/ \E c \in Conns : AcceptConn(c)
  BY <1>18 DEF AcceptExits, AcceptConn, Die
<1> QED
  BY <1>1, <1>2, <1>3, <1>4, <1>5, <1>6, <1>7, <1>8, <1>9, <1>10, <1>11, <1>12,
     <1>13, <1>14, <1>15, <1>16, <1>17, <1>18
  DEF main, enqueue, handle_overload, random_drop

\* The globals have their types when the server starts.
LEMMA InitTyped == Init => TypeOK
<1> SUFFICES ASSUME Init PROVE TypeOK
  OBVIOUS
<1>1. ControlOK
  BY MainIsNotAWorker DEF Init, ControlOK, MainPC, WorkerPC
<1>2. DataOK
  <2>1. next \in [Conns -> Ptr] /\ fd \in [Threads -> Ptr] /\ tmp \in [Threads -> Ptr]
    BY MainIsNotAWorker DEF Init
  <2>2. reg \in [Threads -> Int] /\ conn \in [Conns -> {"pending", "open", "closed"}]
    BY DEF Init
  <2> QED
    BY <2>1, <2>2, MainIsNotAWorker, WalkTyped DEF Init, DataOK
<1> QED
  BY <1>1, <1>2 DEF Init, TypeOK, ControlOK, DataOK

\* Every step of the server keeps the types.
LEMMA StepTyped == TypeOK /\ [Next]_vars => TypeOK'
<1> SUFFICES ASSUME TypeOK, [Next]_vars PROVE TypeOK'
  OBVIOUS
<1>1. ControlOK /\ DataOK
  BY DEF TypeOK, ControlOK, DataOK
<1>2. CASE UNCHANGED vars
  BY <1>2 DEF TypeOK, vars, progVars
<1>3. CASE Next
  <2>1. policy' \in Policies /\ overloaded' \in BOOLEAN /\ bare' \in BOOLEAN
    BY <1>3 DEF Next, TypeOK
  <2>2. ControlOK' /\ DataOK'
    <3>1. CASE main \/ AcceptExits \/ \E c \in Conns : AcceptConn(c)
      BY <3>1, <1>1, MasterControl, MasterData
    <3>2. CASE \E w \in Workers : thread_function(w) \/ RequestDone(w) \/ RequestExits(w)
      BY <3>2, <1>1, WorkerControl, WorkerData
    <3>3. CASE \E t \in Threads : SpuriousWakeup(t)
      <4>1. ControlOK'
        BY <3>3, <1>1, MainIsNotAWorker
        DEF SpuriousWakeup, Goto, Awake, ControlOK, MainPC, WorkerPC
      <4>2. DataOK'
        BY <3>3, <1>1 DEF SpuriousWakeup, DataOK, countVars, queueVars, localVars
      <4> QED
        BY <4>1, <4>2
    <3> QED
      BY <1>3, <3>1, <3>2, <3>3 DEF Next, Environment
  <2> QED
    BY <2>1, <2>2 DEF TypeOK, ControlOK, DataOK
<1> QED
  BY <1>2, <1>3

\* Under every policy, whatever the races do, every variable keeps its type.
\* In particular random_drop() and enqueue() only ever store pointers to nodes.
THEOREM TypeCorrect == Spec => []TypeOK
BY InitTyped, StepTyped, PTL DEF Spec

-----------------------------------------------------------------------------
(* Mutual exclusion, until handle_overload() is first called.              *)

\* A step of a worker keeps the critical sections apart.
LEMMA WorkerExclusive ==
  ASSUME ControlOK, Exclusive, NEW w \in Workers,
         thread_function(w) \/ RequestDone(w) \/ RequestExits(w)
  PROVE  Exclusive'
<1> USE MainIsNotAWorker DEF ControlOK, Exclusive, Goto, Critical, PlainMainPC, EnqueuePC
<1>1. CASE Lock(w, "lock", "check") \/ Lock(w, "lock2", "dech")
  BY <1>1 DEF Lock
<1>2. CASE DequeueCheck(w)
  BY <1>2 DEF DequeueCheck, CondWait, Unlock
<1>3. CASE DequeueRead(w) \/ DequeueUnlink(w) \/ DequeueFree(w)
  <2>1. CASE DequeueRead(w)
    BY <2>1 DEF DequeueRead, Fault, Die
  <2>2. CASE DequeueUnlink(w)
    BY <2>2 DEF DequeueUnlink, Fault, Die
  <2>3. CASE DequeueFree(w)
    BY <2>3 DEF DequeueFree, Fault, Die
  <2> QED
    BY <1>3, <2>1, <2>2, <2>3
<1>4. CASE DequeueTailCheck(w) \/ DequeueTailSet(w)
  BY <1>4 DEF DequeueTailCheck, DequeueTailSet
<1>5. CASE LoadQueueSize(w, "decq", "decq2") \/ StoreDecQueueSize(w)
  BY <1>5 DEF LoadQueueSize, StoreDecQueueSize
<1>6. CASE LoadHandled(w, "inch", "inch2") \/ LoadHandled(w, "dech", "dech2")
  BY <1>6 DEF LoadHandled
<1>7. CASE StoreHandled(w, "inch2", "unlock", 1) \/ StoreHandled(w, "dech2", "signal", -1)
  BY <1>7 DEF StoreHandled
<1>8. CASE WorkerUnlock(w) \/ WorkerClose(w)
  BY <1>8 DEF WorkerUnlock, WorkerClose, Unlock
<1>9. CASE RequestDone(w) \/ RequestExits(w)
  BY <1>9 DEF RequestDone, RequestExits, Die
<1>10. CASE WorkerSignal(w)
  BY <1>10 DEF WorkerSignal, Broadcast, Awake
<1> QED
  BY <1>1, <1>2, <1>3, <1>4, <1>5, <1>6, <1>7, <1>8, <1>9, <1>10
  DEF thread_function, Dequeue

\* Plain steps of the master: those it takes while the server is not overloaded.
PlainMain ==
  \/ Lock(Main, "mlock", "decide") \/ Decide \/ enqueue
  \/ LoadQueueSize(Main, "incq", "incq2") \/ StoreIncQueueSize \/ MainUnlock

\* While the master has not called handle_overload() it is not inside it.
LEMMA NotInOverload ==
  ASSUME pc[Main] \in PlainMainPC, main
  PROVE  PlainMain
<1> USE DEF PlainMainPC, EnqueuePC, Goto
<1>1. ~(OverloadOther \/ OverloadLock \/ OverloadBlock \/ OverloadDropHead)
  BY DEF OverloadOther, OverloadLock, OverloadBlock, OverloadDropHead, Lock, CondWait, Die
<1>2. ~Dequeue(Main)
  BY DEF Dequeue, DequeueCheck, DequeueRead, DequeueUnlink, DequeueTailCheck,
         DequeueTailSet, DequeueFree, CondWait, Fault, Die
<1>3. ~(LoadQueueSize(Main, "decq", "decq2") \/ StoreDecQueueSize(Main))
  BY DEF LoadQueueSize, StoreDecQueueSize
<1>4. ~(OverloadRandom \/ random_drop \/ OverloadRandomCount)
  BY DEF OverloadRandom, random_drop, DropDraw, DropWalk, DropCut, DropFree, DropTail,
         DropLoopEnds, OverloadRandomCount, Fault, Die
<1> QED
  BY <1>1, <1>2, <1>3, <1>4 DEF main, handle_overload, PlainMain

\* So does a step of the master outside handle_overload().
LEMMA MasterExclusive ==
  ASSUME ControlOK, Exclusive, pc'[Main] # "overload",
         main \/ AcceptExits \/ \E c \in Conns : AcceptConn(c)
  PROVE  Exclusive'
<1> USE MainIsNotAWorker DEF ControlOK, Exclusive, Goto, Critical, PlainMainPC, EnqueuePC
<1>1. CASE Lock(Main, "mlock", "decide")
  BY <1>1 DEF Lock
<1>2. CASE Decide
  BY <1>2 DEF Decide, Reject, Unlock
<1>3. CASE EnqueueHead \/ EnqueueSetHead \/ EnqueueCompare
  BY <1>3 DEF EnqueueHead, EnqueueSetHead, EnqueueCompare
<1>4. CASE EnqueueSetTail("etail", "incq") \/ EnqueueSetTail("etail1", "enext1")
  BY <1>4 DEF EnqueueSetTail
<1>5. CASE EnqueueLink("enext1", "incq", head) \/ EnqueueLink("enext2", "etail", tail)
  <2>1. CASE EnqueueLink("enext1", "incq", head)
    BY <2>1 DEF EnqueueLink, Fault, Die
  <2>2. CASE EnqueueLink("enext2", "etail", tail)
    BY <2>2 DEF EnqueueLink, Fault, Die
  <2> QED
    BY <1>5, <2>1, <2>2
<1>6. CASE LoadQueueSize(Main, "incq", "incq2")
  BY <1>6 DEF LoadQueueSize
<1>7. CASE StoreIncQueueSize
  BY <1>7 DEF StoreIncQueueSize, Broadcast, Awake
<1>8. CASE MainUnlock
  BY <1>8 DEF MainUnlock, Unlock
<1>9. CASE AcceptExits \/ \E c \in Conns : AcceptConn(c)
  BY <1>9 DEF AcceptExits, AcceptConn, Die
<1> QED
  BY <1>1, <1>2, <1>3, <1>4, <1>5, <1>6, <1>7, <1>8, <1>9, NotInOverload
  DEF PlainMain, enqueue

\* So does a spurious wakeup: the thread asks for the mutex again.
LEMMA SpuriousExclusive ==
  ASSUME ControlOK, Exclusive, NEW t \in Threads, SpuriousWakeup(t)
  PROVE  Exclusive'
BY MainIsNotAWorker
DEF ControlOK, Exclusive, SpuriousWakeup, Goto, Awake, Critical, PlainMainPC, EnqueuePC

\* So does every step before handle_overload() is called.
LEMMA StepExclusive ==
  TypeOK /\ (~overloaded => Exclusive) /\ [Next]_vars => (~overloaded => Exclusive)'
<1> SUFFICES ASSUME TypeOK, ~overloaded => Exclusive, [Next]_vars, ~overloaded'
             PROVE  Exclusive'
  OBVIOUS
<1>1. ControlOK
  BY DEF TypeOK, ControlOK
<1>2. CASE UNCHANGED vars
  BY <1>2 DEF vars, progVars, Exclusive, Critical
<1>3. CASE Next
  <2>1. ~overloaded /\ pc'[Main] # "overload"
    BY <1>3 DEF Next
  <2>2. CASE main \/ AcceptExits \/ \E c \in Conns : AcceptConn(c)
    BY <2>1, <2>2, <1>1, MasterExclusive
  <2>3. CASE \E w \in Workers : thread_function(w) \/ RequestDone(w) \/ RequestExits(w)
    BY <2>1, <2>3, <1>1, WorkerExclusive
  <2>4. CASE \E t \in Threads : SpuriousWakeup(t)
    BY <2>1, <2>4, <1>1, SpuriousExclusive
  <2> QED
    BY <1>3, <2>2, <2>3, <2>4 DEF Next, Environment
<1> QED
  BY <1>2, <1>3

\* Until handle_overload() is first called, for any number of workers and under
\* any policy, the lock/unlock pairs of thread_function() and main() keep the
\* list and the counters to one thread at a time.
THEOREM MutualExclusionHolds == Spec => []MutualExclusion
<1>1. Init => TypeOK /\ (~overloaded => Exclusive)
  BY InitTyped, MainIsNotAWorker DEF Init, Exclusive, Critical, PlainMainPC, Threads
<1>2. TypeOK /\ (~overloaded => Exclusive) => MutualExclusion
  BY DEF Exclusive, MutualExclusion
<1> QED
  BY <1>1, <1>2, StepTyped, StepExclusive, PTL DEF Spec

-----------------------------------------------------------------------------
(* The counters, until handle_overload() is first called.                  *)

\* A step of one worker adds it to Counted, removes it, or does neither.
LEMMA CountedStep ==
  ASSUME NEW w \in Workers
  PROVE  /\ IsFiniteSet(Counted) /\ Cardinality(Counted) \in Nat
         /\ Counted' = Counted \cup {w} /\ w \notin Counted =>
              Cardinality(Counted') = Cardinality(Counted) + 1
         /\ Counted' = Counted \ {w} /\ w \in Counted =>
              Cardinality(Counted') = Cardinality(Counted) - 1
<1>1. IsFiniteSet(Counted)
  BY WorkersAssumption, FS_Subset DEF Counted
<1> QED
  BY <1>1, FS_CardinalityType, FS_AddElement, FS_RemoveElement

Counters == Registers /\ Bounded

\* A step that moves no thread into or out of what the counters count.
LEMMA QuietStep ==
  ASSUME ControlOK, DataOK, Exclusive, Counters, countVars' = countVars,
         Counted' = Counted,
         pc'[Main] \in EnqueuePC => pc[Main] \in EnqueuePC,
         pc'[Main] = "incq2" => reg'[Main] = queue_size,
         \A w \in Workers :
           /\ pc'[w] \in {"inch", "inch2"} => pc[w] \in {"inch", "inch2"}
           /\ pc'[w] = "decq2" => reg'[w] = queue_size
           /\ pc'[w] \in {"inch2", "dech2"} => reg'[w] = currently_handled
  PROVE  Counters'
BY DEF Counters, Registers, Bounded, countVars

\* A step of a worker keeps the counters true and within the limit.
LEMMA WorkerCounters ==
  ASSUME ControlOK, DataOK, Exclusive, Counters, NEW w \in Workers,
         thread_function(w) \/ RequestDone(w) \/ RequestExits(w)
  PROVE  Counters'
<1> USE MainIsNotAWorker DEF ControlOK, Goto
<1>1. CASE Lock(w, "lock", "check") \/ Lock(w, "lock2", "dech")
  <2>1. Counted' = Counted
    BY <1>1 DEF Lock, Counted
  <2> QED
    BY <1>1, <2>1, QuietStep DEF Lock, Counters, Registers, localVars, countVars
<1>2. CASE Dequeue(w)
  <2>1. Counted' = Counted
    BY <1>2 DEF Dequeue, DequeueCheck, DequeueRead, DequeueUnlink, DequeueTailCheck,
                DequeueTailSet, DequeueFree, CondWait, Fault, Die, Counted
  <2> QED
    BY <1>2, <2>1, QuietStep
    DEF Dequeue, DequeueCheck, DequeueRead, DequeueUnlink, DequeueTailCheck,
        DequeueTailSet, DequeueFree, CondWait, Fault, Die, Counters, Registers,
        localVars, countVars
<1>3. CASE LoadQueueSize(w, "decq", "decq2")
  <2>1. Counted' = Counted
    BY <1>3 DEF LoadQueueSize, Counted
  <2> QED
    BY <1>3, <2>1, QuietStep DEF LoadQueueSize, Counters, Registers, countVars, DataOK
<1>4. CASE StoreDecQueueSize(w)
  <2>1. Counted' = Counted
    BY <1>4 DEF StoreDecQueueSize, Counted
  <2>2. reg[w] = queue_size /\ queue_size' = queue_size - 1
    BY <1>4 DEF StoreDecQueueSize, Counters, Registers
  <2>3. \A t \in Threads \ {w} : ~Critical(t)
    BY <1>4 DEF StoreDecQueueSize, Exclusive, Critical
  <2>4. Bounded'
    BY <1>4, <2>1, <2>2, <2>3, QmaxSizeAssumption
    DEF StoreDecQueueSize, Counters, Bounded, DataOK, Critical, EnqueuePC
  <2>5. Registers'
    BY <1>4, <2>3 DEF StoreDecQueueSize, Registers, Critical, DataOK
  <2> QED
    BY <2>4, <2>5 DEF Counters
<1>5. CASE LoadHandled(w, "inch", "inch2") \/ LoadHandled(w, "dech", "dech2")
  <2>1. Counted' = Counted
    BY <1>5 DEF LoadHandled, Counted
  <2> QED
    BY <1>5, <2>1, QuietStep DEF LoadHandled, Counters, Registers, countVars, DataOK
<1>6. CASE StoreHandled(w, "inch2", "unlock", 1)
  <2>1. Counted' = Counted \cup {w} /\ w \notin Counted
    BY <1>6 DEF StoreHandled, Counted
  <2>2. reg[w] = currently_handled /\ currently_handled' = currently_handled + 1
    BY <1>6 DEF StoreHandled, Counters, Registers
  <2>3. \A t \in Threads \ {w} : ~Critical(t)
    BY <1>6 DEF StoreHandled, Exclusive, Critical
  <2>4. currently_handled' = Cardinality(Counted')
    BY <2>1, <2>2, CountedStep DEF Counters, Bounded
  <2>5. Bounded'
    BY <1>6, <2>2, <2>3, <2>4, QmaxSizeAssumption
    DEF StoreHandled, Counters, Bounded, DataOK, Critical, EnqueuePC
  <2>6. Registers'
    BY <1>6, <2>3 DEF StoreHandled, Registers, Critical, DataOK
  <2> QED
    BY <2>5, <2>6 DEF Counters
<1>7. CASE StoreHandled(w, "dech2", "signal", -1)
  <2>1. Counted' = Counted \ {w} /\ w \in Counted
    BY <1>7 DEF StoreHandled, Counted
  <2>2. reg[w] = currently_handled /\ currently_handled' = currently_handled - 1
    BY <1>7 DEF StoreHandled, Counters, Registers, DataOK
  <2>3. \A t \in Threads \ {w} : ~Critical(t)
    BY <1>7 DEF StoreHandled, Exclusive, Critical
  <2>4. currently_handled' = Cardinality(Counted')
    BY <2>1, <2>2, CountedStep DEF Counters, Bounded
  <2>5. Bounded'
    <3>1. queue_size' + currently_handled' < QmaxSize
      BY <1>7, <2>2, QmaxSizeAssumption DEF StoreHandled, Counters, Bounded, DataOK
    <3>2. queue_size' + currently_handled' <= QmaxSize
      BY <1>7, <2>2, QmaxSizeAssumption DEF StoreHandled, Counters, Bounded, DataOK
    <3> QED
      BY <2>4, <3>1, <3>2 DEF Bounded
  <2>6. Registers'
    BY <1>7, <2>3 DEF StoreHandled, Registers, Critical, DataOK
  <2> QED
    BY <2>5, <2>6 DEF Counters
<1>8. CASE WorkerUnlock(w) \/ RequestDone(w) \/ RequestExits(w) \/ WorkerClose(w)
  <2>1. Counted' = Counted
    BY <1>8 DEF WorkerUnlock, RequestDone, RequestExits, WorkerClose, Die, Counted
  <2> QED
    BY <1>8, <2>1, QuietStep
    DEF WorkerUnlock, RequestDone, RequestExits, WorkerClose, Die, Counters, Registers,
        localVars, countVars
<1>9. CASE WorkerSignal(w)
  <2>1. Counted' = Counted
    BY <1>9 DEF WorkerSignal, Broadcast, Awake, Counted
  <2> QED
    BY <1>9, <2>1, QuietStep
    DEF WorkerSignal, Broadcast, Awake, Counters, Registers, localVars, countVars,
        EnqueuePC
<1> QED
  BY <1>1, <1>2, <1>3, <1>4, <1>5, <1>6, <1>7, <1>8, <1>9 DEF thread_function

\* So does a step of the master outside handle_overload().
LEMMA MasterCounters ==
  ASSUME ControlOK, DataOK, Exclusive, Counters, pc'[Main] # "overload",
         main \/ AcceptExits \/ \E c \in Conns : AcceptConn(c)
  PROVE  Counters'
<1> USE MainIsNotAWorker DEF ControlOK, Goto
<1>1. CASE Lock(Main, "mlock", "decide") \/ MainUnlock
  <2>1. Counted' = Counted
    BY <1>1 DEF Lock, MainUnlock, Counted
  <2> QED
    BY <1>1, <2>1, QuietStep
    DEF Lock, MainUnlock, Counters, Registers, localVars, countVars, EnqueuePC
<1>2. CASE Decide
  <2>1. Counted' = Counted
    BY <1>2 DEF Decide, Reject, Counted
  <2>2. Registers'
    BY <1>2 DEF Decide, Reject, Counters, Registers, localVars, countVars
  <2>3. pc'[Main] \in EnqueuePC => queue_size + currently_handled # QmaxSize
    BY <1>2 DEF Decide, Reject, EnqueuePC
  <2>4. Bounded'
    <3>1. countVars' = countVars /\ \A w \in Workers : pc'[w] = pc[w]
      BY <1>2 DEF Decide, Reject, countVars
    <3>2. pc'[Main] \in EnqueuePC => queue_size + currently_handled < QmaxSize
      BY <2>3, QmaxSizeAssumption DEF Counters, Bounded, DataOK
    <3> QED
      BY <2>1, <3>1, <3>2 DEF Counters, Bounded, countVars
  <2> QED
    BY <2>2, <2>4 DEF Counters
<1>3. CASE enqueue
  <2>1. Counted' = Counted
    BY <1>3 DEF enqueue, EnqueueHead, EnqueueSetHead, EnqueueCompare, EnqueueSetTail,
                EnqueueLink, Fault, Die, Counted
  <2> QED
    BY <1>3, <2>1, QuietStep
    DEF enqueue, EnqueueHead, EnqueueSetHead, EnqueueCompare, EnqueueSetTail,
        EnqueueLink, Fault, Die, Counters, Registers, localVars, countVars, EnqueuePC
<1>4. CASE LoadQueueSize(Main, "incq", "incq2")
  <2>1. Counted' = Counted
    BY <1>4 DEF LoadQueueSize, Counted
  <2> QED
    BY <1>4, <2>1, QuietStep
    DEF LoadQueueSize, Counters, Registers, countVars, DataOK, EnqueuePC
<1>5. CASE StoreIncQueueSize
  <2>1. Counted' = Counted
    BY <1>5 DEF StoreIncQueueSize, Broadcast, Awake, Counted
  <2>2. reg[Main] = queue_size /\ queue_size' = queue_size + 1
    BY <1>5 DEF StoreIncQueueSize, Broadcast, Counters, Registers
  <2>3. \A w \in Workers : ~Critical(w)
    BY <1>5 DEF StoreIncQueueSize, Broadcast, Exclusive, Critical
  <2>4. Bounded'
    BY <1>5, <2>1, <2>2, <2>3, QmaxSizeAssumption
    DEF StoreIncQueueSize, Broadcast, Awake, Counters, Bounded, DataOK, Critical, EnqueuePC
  <2>5. Registers'
    BY <1>5, <2>3 DEF StoreIncQueueSize, Broadcast, Awake, Registers, Critical, DataOK
  <2> QED
    BY <2>4, <2>5 DEF Counters
<1>6. CASE AcceptExits \/ \E c \in Conns : AcceptConn(c)
  <2>1. Counted' = Counted
    BY <1>6 DEF AcceptExits, AcceptConn, Die, Counted
  <2> QED
    BY <1>6, <2>1, QuietStep
    DEF AcceptExits, AcceptConn, Die, Counters, Registers, localVars, countVars, EnqueuePC
<1> QED
  BY <1>1, <1>2, <1>3, <1>4, <1>5, <1>6, NotInOverload DEF PlainMain, Exclusive

\* A spurious wakeup does not touch the counters.
LEMMA SpuriousCounters ==
  ASSUME ControlOK, DataOK, Exclusive, Counters, NEW t \in Threads, SpuriousWakeup(t)
  PROVE  Counters'
<1> USE MainIsNotAWorker DEF ControlOK, Goto
<1>1. Counted' = Counted
  BY DEF SpuriousWakeup, Awake, Counted
<1> QED
  BY <1>1, QuietStep
  DEF SpuriousWakeup, Awake, Counters, Registers, localVars, countVars, EnqueuePC

\* The inductive invariant is preserved by every step.
LEMMA StepCounters == IInv /\ [Next]_vars => IInv'
<1> SUFFICES ASSUME IInv, [Next]_vars PROVE IInv'
  OBVIOUS
<1>1. TypeOK' /\ (~overloaded' => Exclusive')
  BY StepTyped, StepExclusive DEF IInv
<1>2. ASSUME ~overloaded' PROVE Counters'
  <2>1. ControlOK /\ DataOK
    BY DEF IInv, TypeOK, ControlOK, DataOK
  <2>2. CASE UNCHANGED vars
    BY <1>2, <2>2 DEF vars, progVars, IInv, Counters, Registers, Bounded, Counted
  <2>3. CASE Next
    <3>1. ~overloaded /\ pc'[Main] # "overload"
      BY <1>2, <2>3 DEF Next
    <3>2. Exclusive /\ Counters
      BY <3>1 DEF IInv, Counters
    <3>3. CASE main \/ AcceptExits \/ \E c \in Conns : AcceptConn(c)
      BY <2>1, <3>1, <3>2, <3>3, MasterCounters
    <3>4. CASE \E w \in Workers : thread_function(w) \/ RequestDone(w) \/ RequestExits(w)
      BY <2>1, <3>2, <3>4, WorkerCounters
    <3>5. CASE \E t \in Threads : SpuriousWakeup(t)
      BY <2>1, <3>2, <3>5, SpuriousCounters
    <3> QED
      BY <2>3, <3>3, <3>4, <3>5 DEF Next, Environment
  <2> QED
    BY <2>2, <2>3
<1> QED
  BY <1>1, <1>2 DEF IInv, Counters

\* It holds when the server starts.
LEMMA InitCounters == Init => IInv
<1> SUFFICES ASSUME Init PROVE IInv
  OBVIOUS
<1>1. TypeOK /\ Exclusive
  BY InitTyped, MainIsNotAWorker DEF Init, Exclusive, Critical, PlainMainPC, Threads
<1>2. Counted = {}
  BY MainIsNotAWorker DEF Init, Counted
<1>3. Bounded
  BY <1>2, FS_EmptySet, QmaxSizeAssumption, MainIsNotAWorker
  DEF Init, Bounded, EnqueuePC
<1>4. Registers
  BY MainIsNotAWorker DEF Init, Registers
<1> QED
  BY <1>1, <1>3, <1>4 DEF IInv

\* Until handle_overload() is first called, the increments and decrements of
\* queue_size and currently_handled lose no update: currently_handled is the
\* number of workers that have taken a request and not yet given it back, and
\* the sum that main() compares with QmaxSize never exceeds it, so that its
\* test for equality cannot be jumped over.
THEOREM CountersHold ==
  Spec => [](~overloaded => /\ currently_handled = Cardinality(Counted)
                            /\ queue_size + currently_handled <= QmaxSize)
<1>1. IInv => (~overloaded => /\ currently_handled = Cardinality(Counted)
                              /\ queue_size + currently_handled <= QmaxSize)
  BY DEF IInv, Bounded
<1> QED
  BY <1>1, InitCounters, StepCounters, PTL DEF Spec
=============================================================================
