------------------------------- MODULE Server -------------------------------
(***************************************************************************)
(* The thread pool of the web server ("Threads and synchronization"):      *)
(* server.c (master thread, worker threads, overload policies) and the     *)
(* linked list of FIFO_queue.c that they share, at the level of the        *)
(* single reads and writes of the shared globals.                          *)
(*                                                                         *)
(* The steps are this fine because the code is not always under the        *)
(* mutex: main() calls handle_overload() after it has released the mutex   *)
(* and goes on to enqueue() without taking it again, and its last          *)
(* pthread_mutex_unlock() then releases a mutex it does not own.  POSIX    *)
(* leaves that undefined; the default glibc mutex of this build clears the *)
(* lock word whoever holds it, which is what Unlock says below.            *)
(*                                                                         *)
(* A step has one write of a shared global at most.  Reads that follow one *)
(* another in a statement or two are in the step of the write or the test  *)
(* they lead to: the reads of head in lines 39-42 of dequeue() are one     *)
(* step, and so is one turn of the walk of random_drop().                  *)
(*                                                                         *)
(* A queue node is named by the connection it carries (a connection is     *)
(* queued at most once).  A dereference of NULL ends the process           *)
(* ("crashed"); an access to a node already freed is undefined behaviour   *)
(* with no bound on its outcomes, and ends the behaviour in "corrupted".   *)
(***************************************************************************)
EXTENDS Integers, FiniteSets

CONSTANTS
  Workers,    \* the worker threads, poolSize of them (argv[2])
  Main,       \* the master thread
  QmaxSize,   \* the size limit given on the command line (argv[3])
  Policies,   \* the overload policies the server may be started with (argv[4])
  MaxConn,    \* bound: the number of connections clients open
  NULL

ASSUME WorkersAssumption == IsFiniteSet(Workers) /\ Main \notin Workers
ASSUME QmaxSizeAssumption == QmaxSize \in Nat
ASSUME PoliciesAssumption == Policies \subseteq {"dt", "block", "dh", "random", "other"}
ASSUME MaxConnAssumption == MaxConn \in Nat /\ NULL \notin Int

Threads == Workers \cup {Main}
Conns == 1..MaxConn       \* in the order in which they are accepted
Ptr == Conns \cup {NULL}

VARIABLES
  mutex,              \* TRUE: the lock word is set
  queue_size, currently_handled,
  head, tail, next,   \* the list of FIFO_queue.c
  freed,              \* nodes given back by free()
  pc,                 \* control state; "wait" is blocked in pthread_cond_wait
  fd,                 \* fd_request of a worker, connfd of the master
  tmp,                \* the node a dequeue() is working on
  reg,                \* register of a read-modify-write in progress
  walk,               \* random_drop(): higher, tmp_preior and node_to_delete
  conn,               \* state of each connection's descriptor
  proc,               \* state of the server process
  policy,             \* argv[4]
  overloaded,         \* history: handle_overload() has been called
  bare                \* history: main() has gone on from there without the mutex

queueVars == <<head, tail, next, freed>>
countVars == <<queue_size, currently_handled>>
localVars == <<fd, tmp, reg, walk>>
progVars == <<mutex, queue_size, currently_handled, head, tail, next,
          freed, pc, fd, tmp, reg, walk, conn, proc>>
vars == <<progVars, policy, overloaded, bare>>

WorkerPC == {"lock", "wait", "check", "read", "unlink", "tailchk", "tailset",
             "free", "decq", "decq2", "inch", "inch2", "unlock", "handle",
             "lock2", "dech", "dech2", "signal", "close"}
MainPC == {"accept", "mlock", "decide", "overload", "ovlock", "ovblock",
           "ovrandom", "drop", "dropwalk", "dropcut", "dropfree", "droplast",
           "droptail", "dropcount", "wait", "check", "read", "unlink",
           "tailchk", "tailset", "free", "decq", "decq2", "dhclose",
           "ehead", "ehead0", "ecmp", "etail1", "enext1", "enext2", "etail",
           "incq", "incq2", "munlock"}

Walks == [higher : Int, prior : Ptr, left : Int]
Walk(higher, prior, left) == [higher |-> higher, prior |-> prior, left |-> left]

Init ==
  /\ mutex = FALSE
  /\ queue_size = 0 /\ currently_handled = 0
  /\ head = NULL /\ tail = NULL
  /\ next = [c \in Conns |-> NULL]
  /\ freed = {}
  /\ pc = [t \in Threads |-> IF t = Main THEN "accept" ELSE "lock"]
  /\ fd = [t \in Threads |-> NULL]
  /\ tmp = [t \in Threads |-> NULL]
  /\ reg = [t \in Threads |-> 0]
  /\ walk = Walk(0, NULL, 0)
  /\ conn = [c \in Conns |-> "pending"]
  /\ proc = "up"
  /\ policy \in Policies
  /\ overloaded = FALSE /\ bare = FALSE

-----------------------------------------------------------------------------
(* pthread primitives and process exit.                                    *)

\* Thread t is at p and goes on to q.
Goto(t, p, q) ==
  /\ proc = "up"
  /\ pc[t] = p
  /\ pc' = [pc EXCEPT ![t] = q]

\* pthread_mutex_lock, from p to q.
Lock(t, p, q) ==
  /\ ~mutex
  /\ mutex' = TRUE
  /\ Goto(t, p, q)
  /\ UNCHANGED <<countVars, queueVars, localVars, conn, proc>>

Unlock == mutex' = FALSE

\* Where a thread woken up in pthread_cond_wait goes to take the mutex again.
Awake(t) == IF t = Main THEN "ovlock" ELSE "lock"

\* pthread_cond_wait: release the mutex and block, in one step.
CondWait(t, p) ==
  /\ Goto(t, p, "wait")
  /\ Unlock

\* pthread_cond_broadcast (if b) by t, which goes from p to q.
Broadcast(t, p, q, b) ==
  /\ proc = "up"
  /\ pc[t] = p
  /\ pc' = [u \in Threads |-> IF u = t THEN q
                             ELSE IF b /\ pc[u] = "wait" THEN Awake(u)
                             ELSE pc[u]]

\* pthread_cond_wait may return without a broadcast.
SpuriousWakeup(t) ==
  /\ Goto(t, "wait", Awake(t))
  /\ UNCHANGED <<mutex, countVars, queueVars, localVars, conn, proc>>

\* Thread t, at p, ends the process: in state s.
Die(t, p, s) ==
  /\ proc = "up"
  /\ pc[t] = p
  /\ proc' = s
  /\ UNCHANGED <<mutex, countVars, queueVars, pc, localVars, conn>>

\* Thread t, at p, dereferences the pointer ptr, which is NULL or dangling.
Fault(t, p, ptr) ==
  \/ ptr = NULL /\ Die(t, p, "crashed")
  \/ ptr \in freed /\ Die(t, p, "corrupted")

Valid(ptr) == ptr # NULL /\ ptr \notin freed

-----------------------------------------------------------------------------
(* dequeue(), called by a worker and by the master (policy "dh").          *)

\* if(head==NULL) return NULL;  a worker then waits, the master does not look.
DequeueCheck(t) ==
  /\ \/ /\ head # NULL
        /\ Goto(t, "check", "read")
        /\ UNCHANGED <<mutex, tmp>>
     \/ /\ head = NULL
        /\ t \in Workers
        /\ CondWait(t, "check")
        /\ UNCHANGED tmp
     \/ /\ head = NULL
        /\ t = Main
        /\ Goto(t, "check", "decq")
        /\ tmp' = [tmp EXCEPT ![t] = NULL]
        /\ UNCHANGED mutex
  /\ UNCHANGED <<countVars, queueVars, fd, reg, walk, conn, proc>>

\* *time=head->arival_toto; *result=*head->fd; tmp=head;
DequeueRead(t) ==
  \/ /\ Valid(head)
     /\ Goto(t, "read", "unlink")
     /\ tmp' = [tmp EXCEPT ![t] = head]
     /\ fd' = IF t = Main THEN fd ELSE [fd EXCEPT ![t] = head]
     /\ UNCHANGED <<mutex, countVars, queueVars, reg, walk, conn, proc>>
  \/ Fault(t, "read", head)

\* head=head->next;
DequeueUnlink(t) ==
  \/ /\ Valid(head)
     /\ Goto(t, "unlink", "tailchk")
     /\ head' = next[head]
     /\ UNCHANGED <<mutex, countVars, tail, next, freed, localVars, conn, proc>>
  \/ Fault(t, "unlink", head)

\* if(head==NULL)
DequeueTailCheck(t) ==
  /\ Goto(t, "tailchk", IF head = NULL THEN "tailset" ELSE "free")
  /\ UNCHANGED <<mutex, countVars, queueVars, localVars, conn, proc>>

\* tail=NULL;
DequeueTailSet(t) ==
  /\ Goto(t, "tailset", "free")
  /\ tail' = NULL
  /\ UNCHANGED <<mutex, countVars, head, next, freed, localVars, conn, proc>>

\* Mutant of DequeueFree: free(head) for free(tmp).
DequeueFreeWrong(t) ==
  /\ Goto(t, "free", "decq")
  /\ freed' = freed \cup {head}
  /\ UNCHANGED <<mutex, countVars, head, tail, next, localVars, conn, proc>>

\* free(tmp); return result;
DequeueFree(t) ==
  \/ /\ Valid(tmp[t])
     /\ Goto(t, "free", "decq")
     /\ freed' = freed \cup {tmp[t]}
     /\ tmp' = IF t = Main THEN tmp ELSE [tmp EXCEPT ![t] = NULL]
     /\ UNCHANGED <<mutex, countVars, head, tail, next, fd, reg, walk, conn, proc>>
  \/ Fault(t, "free", tmp[t])

Dequeue(t) ==
  \/ DequeueCheck(t) \/ DequeueRead(t) \/ DequeueUnlink(t)
  \/ DequeueTailCheck(t) \/ DequeueTailSet(t) \/ DequeueFree(t)

\* queue_size--, a load and a store.
LoadQueueSize(t, p, q) ==
  /\ Goto(t, p, q)
  /\ reg' = [reg EXCEPT ![t] = queue_size]
  /\ UNCHANGED <<mutex, countVars, queueVars, fd, tmp, walk, conn, proc>>

\* Mutant of StoreDecQueueSize: the mutex is released too early.
StoreDecQueueSizeUnlocked(t) ==
  /\ Goto(t, "decq2", IF t = Main THEN "dhclose" ELSE "inch")
  /\ queue_size' = reg[t] - 1
  /\ Unlock
  /\ UNCHANGED <<currently_handled, queueVars, localVars, conn, proc>>

StoreDecQueueSize(t) ==
  /\ Goto(t, "decq2", IF t = Main THEN "dhclose" ELSE "inch")
  /\ queue_size' = reg[t] - 1
  /\ reg' = [reg EXCEPT ![t] = 0]
  /\ UNCHANGED <<mutex, currently_handled, queueVars, fd, tmp, walk, conn, proc>>

-----------------------------------------------------------------------------
(* thread_function(): a worker.                                            *)

\* currently_handled++ (line 35) and currently_handled-- (line 40).
LoadHandled(w, p, q) ==
  /\ Goto(w, p, q)
  /\ reg' = [reg EXCEPT ![w] = currently_handled]
  /\ UNCHANGED <<mutex, countVars, queueVars, fd, tmp, walk, conn, proc>>

StoreHandled(w, p, q, d) ==
  /\ Goto(w, p, q)
  /\ currently_handled' = reg[w] + d
  /\ reg' = [reg EXCEPT ![w] = 0]
  /\ UNCHANGED <<mutex, queue_size, queueVars, fd, tmp, walk, conn, proc>>

\* pthread_mutex_unlock before the request is handled.
WorkerUnlock(w) ==
  /\ Goto(w, "unlock", "handle")
  /\ Unlock
  /\ UNCHANGED <<countVars, queueVars, localVars, conn, proc>>

\* requestHandle() returns.  Its own steps are internal to the worker.
RequestDone(w) ==
  /\ Goto(w, "handle", "lock2")
  /\ UNCHANGED <<mutex, countVars, queueVars, localVars, conn, proc>>

\* A Rio_ wrapper meets an I/O error in requestHandle(): unix_error() calls
\* exit(0), which ends the whole process.
RequestExits(w) == Die(w, "handle", "exited")

\* Wake everyone up when the server was full, or became so but for one.
WorkerSignal(w) ==
  /\ Broadcast(w, "signal", "close",
               currently_handled + queue_size \in {QmaxSize, QmaxSize - 1})
  /\ UNCHANGED <<mutex, countVars, queueVars, localVars, conn, proc>>

\* close(*fd_request); free(fd_request); pthread_mutex_unlock
WorkerClose(w) ==
  /\ Goto(w, "close", "lock")
  /\ conn' = [conn EXCEPT ![fd[w]] = "closed"]
  /\ fd' = [fd EXCEPT ![w] = NULL]
  /\ Unlock
  /\ UNCHANGED <<countVars, queueVars, tmp, reg, walk, proc>>

thread_function(w) ==
  \/ Lock(w, "lock", "check")
  \/ Dequeue(w)
  \/ LoadQueueSize(w, "decq", "decq2") \/ StoreDecQueueSize(w)
  \/ LoadHandled(w, "inch", "inch2") \/ StoreHandled(w, "inch2", "unlock", 1)
  \/ WorkerUnlock(w)
  \/ Lock(w, "lock2", "dech")
  \/ LoadHandled(w, "dech", "dech2") \/ StoreHandled(w, "dech2", "signal", -1)
  \/ WorkerSignal(w) \/ WorkerClose(w)

-----------------------------------------------------------------------------
(* main(): the master thread.                                              *)

\* Mutant of Reject: close(connfd) is forgotten.
RejectNoClose ==
  /\ Goto(Main, "decide", "accept")
  /\ fd' = [fd EXCEPT ![Main] = NULL]
  /\ Unlock
  /\ UNCHANGED <<countVars, queueVars, tmp, reg, walk, conn, proc>>

\* The master drops the connection it has just accepted, unlocks, continues.
Reject ==
  /\ Goto(Main, "decide", "accept")
  /\ conn' = [conn EXCEPT ![fd[Main]] = "closed"]
  /\ fd' = [fd EXCEPT ![Main] = NULL]
  /\ Unlock
  /\ UNCHANGED <<countVars, queueVars, tmp, reg, walk, proc>>

\* connfd = Accept(...); fdConnec = malloc; *fdConnec = connfd;
AcceptConn(c) ==
  /\ conn[c] = "pending"
  /\ \A d \in Conns : conn[d] = "pending" => c <= d
  /\ Goto(Main, "accept", "mlock")
  /\ conn' = [conn EXCEPT ![c] = "open"]
  /\ fd' = [fd EXCEPT ![Main] = c]
  /\ UNCHANGED <<mutex, countVars, queueVars, tmp, reg, walk, proc>>

\* accept() fails: the Accept wrapper ends the process.
AcceptExits == Die(Main, "accept", "exited")

\* Mutant of Decide: the test looks at queue_size alone.
DecideQueueOnly ==
  \/ queue_size = QmaxSize /\ Reject
  \/ /\ queue_size # QmaxSize
     /\ Goto(Main, "decide", "ehead")
     /\ UNCHANGED <<mutex, countVars, queueVars, localVars, conn, proc>>

\* Lines 119-136: the test on the two counters.
Decide ==
  LET handledFull == currently_handled = QmaxSize /\ policy # "block"
      full == queue_size + currently_handled = QmaxSize
  IN
  \/ handledFull /\ Reject
  \/ ~handledFull /\ full /\ policy = "dt" /\ Reject
  \/ /\ ~handledFull /\ full /\ policy # "dt"
     /\ Goto(Main, "decide", "overload")
     /\ Unlock
     /\ UNCHANGED <<countVars, queueVars, localVars, conn, proc>>
  \/ /\ ~handledFull /\ ~full
     /\ Goto(Main, "decide", "ehead")
     /\ UNCHANGED <<mutex, countVars, queueVars, localVars, conn, proc>>

-----------------------------------------------------------------------------
(* handle_overload(): main() has released the mutex before the call.       *)

\* The policy's name matches no branch: return at once.
OverloadOther ==
  /\ policy = "other"
  /\ Goto(Main, "overload", "ehead")
  /\ UNCHANGED <<mutex, countVars, queueVars, localVars, conn, proc>>

OverloadLock ==
  \/ policy = "block" /\ Lock(Main, "overload", "ovblock")
  \/ policy = "dh" /\ Lock(Main, "overload", "check")
  \/ policy = "random" /\ Lock(Main, "overload", "ovrandom")
  \/ Lock(Main, "ovlock", "ovblock")

\* while(queue_size+currently_handled==QmaxSize) pthread_cond_wait;  unlock
OverloadBlock ==
  /\ \/ /\ queue_size + currently_handled = QmaxSize
        /\ CondWait(Main, "ovblock")
     \/ /\ queue_size + currently_handled # QmaxSize
        /\ Goto(Main, "ovblock", "ehead")
        /\ Unlock
  /\ UNCHANGED <<countVars, queueVars, localVars, conn, proc>>

\* Policy "dh", after dequeue(NULL) and queue_size--: close(*tmp); free(tmp);
OverloadDropHead ==
  \/ /\ tmp[Main] # NULL
     /\ Goto(Main, "dhclose", "ehead")
     /\ conn' = [conn EXCEPT ![tmp[Main]] = "closed"]
     /\ tmp' = [tmp EXCEPT ![Main] = NULL]
     /\ Unlock
     /\ UNCHANGED <<countVars, queueVars, fd, reg, walk, proc>>
  \/ tmp[Main] = NULL /\ Die(Main, "dhclose", "crashed")

\* Policy "random": test again under the mutex; random_drop(queue_size) sets
\* up its loop, or returns at once when the list is empty.
OverloadRandom ==
  /\ \/ /\ queue_size + currently_handled # QmaxSize
        /\ Goto(Main, "ovrandom", "ehead")
        /\ Unlock
        /\ UNCHANGED <<reg, walk>>
     \/ /\ queue_size + currently_handled = QmaxSize
        /\ Goto(Main, "ovrandom", IF head = NULL THEN "dropcount" ELSE "drop")
        /\ reg' = [reg EXCEPT ![Main] = queue_size]
        /\ walk' = Walk(queue_size, NULL, 0)
        /\ UNCHANGED mutex
  /\ UNCHANGED <<countVars, queueVars, fd, tmp, conn, proc>>

\* to_be_deleted of random_drop(n): a quarter of n, rounded up.
ToBeDeleted(n) == IF n % 4 = 0 THEN n \div 4 ELSE 1 + n \div 4

\* The nodes of the list: the least set that has head and is closed under next.
Queued ==
  {c \in Conns : \A S \in SUBSET Conns :
     head \in S \cup {NULL} /\ (\A d \in S : next[d] \in S \cup {NULL}) => c \in S}

ListLength == Cardinality(Queued)

\* One round of random_drop()'s loop.  A place is drawn, and a walk starts at
\* the second node; the function returns when there is none.
DropDraw ==
  /\ walk.higher > reg[Main] - ToBeDeleted(reg[Main])
  /\ \/ /\ Valid(head)
        /\ Goto(Main, "drop", IF next[head] = NULL THEN "dropcount" ELSE "dropwalk")
        /\ \E r \in 0..walk.higher :   \* Randoms(0,higher)
             walk' = Walk(walk.higher, head, r - 1)
        /\ tmp' = [tmp EXCEPT ![Main] = next[head]]
        /\ UNCHANGED <<mutex, countVars, queueVars, fd, reg, conn, proc>>
     \/ Fault(Main, "drop", head)

\* while(node_to_delete!=0&&tmp->next): a place of -1 is the last node.
DropWalk ==
  \/ /\ walk.left # 0 /\ Valid(tmp[Main]) /\ next[tmp[Main]] # NULL /\ Valid(walk.prior)
     /\ Goto(Main, "dropwalk", "dropwalk")
     /\ walk' = Walk(walk.higher, next[walk.prior], walk.left - 1)
     /\ tmp' = [tmp EXCEPT ![Main] = next[@]]
     /\ UNCHANGED <<mutex, countVars, queueVars, fd, reg, conn, proc>>
  \/ /\ walk.left = 0 \/ (Valid(tmp[Main]) /\ next[tmp[Main]] = NULL)
     /\ Goto(Main, "dropwalk", "dropcut")
     /\ UNCHANGED <<mutex, countVars, queueVars, localVars, conn, proc>>
  \/ walk.left # 0 /\ (Fault(Main, "dropwalk", tmp[Main]) \/ Fault(Main, "dropwalk", walk.prior))

\* Mutant of DropCut: the victim stays in the list.
DropCutLinked ==
  /\ Goto(Main, "dropcut", IF tmp[Main] = tail THEN "droplast" ELSE "dropfree")
  /\ UNCHANGED <<mutex, countVars, queueVars, localVars, conn, proc>>

\* if(tmp==tail), and in both branches tmp_preior->next=tmp->next;
DropCut ==
  \/ /\ Valid(walk.prior) /\ Valid(tmp[Main])
     /\ Goto(Main, "dropcut", IF tmp[Main] = tail THEN "droplast" ELSE "dropfree")
     /\ next' = [next EXCEPT ![walk.prior] = next[tmp[Main]]]
     /\ UNCHANGED <<mutex, countVars, head, tail, freed, localVars, conn, proc>>
  \/ Fault(Main, "dropcut", walk.prior) \/ Fault(Main, "dropcut", tmp[Main])

\* close(tmp->fd) is given the address of the descriptor, not its value: it
\* fails, and the connection stays open.  free(tmp); and the loop's higher--
DropFree(p, q) ==
  \/ /\ Valid(tmp[Main])
     /\ Goto(Main, p, q)
     /\ freed' = freed \cup {tmp[Main]}
     /\ tmp' = [tmp EXCEPT ![Main] = NULL]
     /\ walk' = Walk(walk.higher - 1, walk.prior, 0)
     /\ UNCHANGED <<mutex, countVars, head, tail, next, fd, reg, conn, proc>>
  \/ Fault(Main, p, tmp[Main])

\* tail=tmp_preior;
DropTail ==
  /\ Goto(Main, "droptail", "drop")
  /\ tail' = walk.prior
  /\ UNCHANGED <<mutex, countVars, head, next, freed, localVars, conn, proc>>

DropLoopEnds ==
  /\ walk.higher <= reg[Main] - ToBeDeleted(reg[Main])
  /\ Goto(Main, "drop", "dropcount")
  /\ UNCHANGED <<mutex, countVars, queueVars, localVars, conn, proc>>

random_drop ==
  \/ DropDraw \/ DropWalk \/ DropCut
  \/ DropFree("droplast", "droptail") \/ DropTail \/ DropFree("dropfree", "drop")
  \/ DropLoopEnds

\* queue_size after random_drop(), as handle_overload() computes it; unlock.
OverloadRandomCount ==
  /\ Goto(Main, "dropcount", "ehead")
  /\ queue_size' = IF queue_size % 4 = 0 THEN 3 * (queue_size \div 4)
                                         ELSE queue_size - (queue_size \div 4) + 1
  /\ reg' = [reg EXCEPT ![Main] = 0]
  /\ walk' = Walk(0, NULL, 0)
  /\ Unlock
  /\ UNCHANGED <<currently_handled, queueVars, fd, tmp, conn, proc>>

handle_overload ==
  \/ OverloadOther \/ OverloadLock \/ OverloadBlock
  \/ Dequeue(Main) \/ LoadQueueSize(Main, "decq", "decq2")
  \/ StoreDecQueueSize(Main) \/ OverloadDropHead
  \/ OverloadRandom \/ random_drop \/ OverloadRandomCount

-----------------------------------------------------------------------------
(* enqueue(fdConnec,time), by the master only.                             *)

\* Mutant of EnqueueHead: the new node goes to the front.
EnqueueHeadFront ==
  /\ Goto(Main, "ehead", "ehead0")
  /\ next' = [next EXCEPT ![fd[Main]] = head]
  /\ UNCHANGED <<mutex, countVars, head, tail, freed, localVars, conn, proc>>

\* newnode->next = NULL; if(head==NULL)
EnqueueHead ==
  /\ Goto(Main, "ehead", IF head = NULL THEN "ehead0" ELSE "ecmp")
  /\ next' = [next EXCEPT ![fd[Main]] = NULL]
  /\ UNCHANGED <<mutex, countVars, head, tail, freed, localVars, conn, proc>>

\* Mutant of EnqueueSetHead: tail is not set with head.
EnqueueSetHeadOnly ==
  /\ Goto(Main, "ehead0", "incq")
  /\ head' = fd[Main]
  /\ UNCHANGED <<mutex, countVars, tail, next, freed, localVars, conn, proc>>

\* head=newnode;
EnqueueSetHead ==
  /\ Goto(Main, "ehead0", "etail")
  /\ head' = fd[Main]
  /\ UNCHANGED <<mutex, countVars, tail, next, freed, localVars, conn, proc>>

\* if(tail==head && tail!=NULL)
EnqueueCompare ==
  /\ Goto(Main, "ecmp", IF tail = head /\ tail # NULL THEN "etail1" ELSE "enext2")
  /\ UNCHANGED <<mutex, countVars, queueVars, localVars, conn, proc>>

\* tail=newnode;
EnqueueSetTail(p, q) ==
  /\ Goto(Main, p, q)
  /\ tail' = fd[Main]
  /\ UNCHANGED <<mutex, countVars, head, next, freed, localVars, conn, proc>>

\* ptr->next=newnode;
EnqueueLink(p, q, ptr) ==
  \/ /\ Valid(ptr)
     /\ Goto(Main, p, q)
     /\ next' = [next EXCEPT ![ptr] = fd[Main]]
     /\ UNCHANGED <<mutex, countVars, head, tail, freed, localVars, conn, proc>>
  \/ Fault(Main, p, ptr)

enqueue ==
  \/ EnqueueHead \/ EnqueueSetHead \/ EnqueueSetTail("etail", "incq")
  \/ EnqueueCompare
  \/ EnqueueSetTail("etail1", "enext1") \/ EnqueueLink("enext1", "incq", head)
  \/ EnqueueLink("enext2", "etail", tail)

\* Mutant of StoreIncQueueSize: ++queue_size is forgotten.
StoreIncQueueSizeLost ==
  /\ Broadcast(Main, "incq2", "munlock", TRUE)
  /\ reg' = [reg EXCEPT ![Main] = 0]
  /\ UNCHANGED <<mutex, countVars, queueVars, fd, tmp, walk, conn, proc>>

\* Mutant of StoreIncQueueSize: queue_size++ for ++queue_size in the test.
StoreIncQueueSizePost ==
  /\ queue_size' = reg[Main] + 1
  /\ reg' = [reg EXCEPT ![Main] = 0]
  /\ Broadcast(Main, "incq2", "munlock", queue_size + currently_handled = 1)
  /\ UNCHANGED <<mutex, currently_handled, queueVars, fd, tmp, walk, conn, proc>>

\* if(++queue_size+currently_handled==1) pthread_cond_broadcast
StoreIncQueueSize ==
  /\ queue_size' = reg[Main] + 1
  /\ reg' = [reg EXCEPT ![Main] = 0]
  /\ Broadcast(Main, "incq2", "munlock", queue_size' + currently_handled = 1)
  /\ UNCHANGED <<mutex, currently_handled, queueVars, fd, tmp, walk, conn, proc>>

\* The last unlock of the loop, of a mutex that may be free or another's.
MainUnlock ==
  /\ Goto(Main, "munlock", "accept")
  /\ fd' = [fd EXCEPT ![Main] = NULL]
  /\ Unlock
  /\ UNCHANGED <<countVars, queueVars, tmp, reg, walk, conn, proc>>

main ==
  \/ Lock(Main, "mlock", "decide") \/ Decide
  \/ handle_overload
  \/ enqueue
  \/ LoadQueueSize(Main, "incq", "incq2") \/ StoreIncQueueSize
  \/ MainUnlock

-----------------------------------------------------------------------------

Environment ==
  \/ \E c \in Conns : AcceptConn(c)
  \/ AcceptExits
  \/ \E w \in Workers : RequestExits(w)
  \/ \E t \in Threads : SpuriousWakeup(t)

Next ==
  /\ \/ Environment
     \/ main
     \/ \E w \in Workers : thread_function(w) \/ RequestDone(w)
  /\ overloaded' = (overloaded \/ pc'[Main] = "overload")
  /\ bare' = (bare \/ (overloaded /\ pc'[Main] = "ehead"))
  /\ UNCHANGED policy

Spec == Init /\ [][Next]_vars

(* The scheduler runs every thread that can run, a thread that keeps asking *)
(* for the mutex gets it in the end, and requestHandle() returns.  Nothing  *)
(* is assumed of clients, of I/O errors or of spurious wakeups.             *)
ThreadFairness ==
  /\ WF_progVars(main)
  /\ SF_progVars(pc[Main] \in {"mlock", "overload", "ovlock"} /\ main)
  /\ \A w \in Workers : /\ WF_progVars(thread_function(w))
                         /\ SF_progVars(pc[w] \in {"lock", "lock2"} /\ thread_function(w))

FairSpec == Spec /\ ThreadFairness /\ \A w \in Workers : WF_progVars(RequestDone(w))

-----------------------------------------------------------------------------
(* Properties.                                                             *)

\* Under every policy, whatever the races do, the pointers of the list point to
\* nodes or are NULL, and every thread is at a place of its own code.
TypeOK ==
  /\ mutex \in BOOLEAN
  /\ queue_size \in Int /\ currently_handled \in Int
  /\ head \in Ptr /\ tail \in Ptr
  /\ next \in [Conns -> Ptr]
  /\ freed \subseteq Conns
  /\ pc \in [Threads -> WorkerPC \cup MainPC]
  /\ pc[Main] \in MainPC
  /\ \A w \in Workers : pc[w] \in WorkerPC
  /\ fd \in [Threads -> Ptr]
  /\ tmp \in [Threads -> Ptr]
  /\ reg \in [Threads -> Int]
  /\ walk \in Walks
  /\ conn \in [Conns -> {"pending", "open", "closed"}]
  /\ proc \in {"up", "exited", "crashed", "corrupted"}
  /\ policy \in Policies
  /\ overloaded \in BOOLEAN /\ bare \in BOOLEAN

\* The control states between a lock and the unlock that the code pairs with it.
Critical(t) ==
  IF t = Main
    THEN pc[t] \notin {"accept", "mlock", "overload", "ovlock", "wait"}
    ELSE pc[t] \notin {"lock", "wait", "handle", "lock2"}

\* Workers that are handling a request, as currently_handled should count them.
Handling == {w \in Workers : pc[w] \in {"handle", "lock2"}}

\* Until handle_overload() is first called, at most one thread is in a
\* section of code that reads or writes the list and the two counters.
MutualExclusion ==
  ~overloaded =>
    \A t, u \in Threads : Critical(t) /\ Critical(u) => t = u

\* Until then, whenever the mutex is free the two counters tell the truth:
\* queue_size is the length of the list, currently_handled the number of
\* workers between their two critical sections.
CountersAgree ==
  ~overloaded /\ ~mutex =>
    /\ queue_size = ListLength
    /\ currently_handled = Cardinality(Handling)

\* Until then, the connections in the server (queued, or held by a worker
\* until it closes them) are never more than the limit of the command line.
CapacityBound ==
  ~overloaded =>
    Cardinality((Queued \cup {fd[w] : w \in Workers}) \ {NULL}) <= QmaxSize

\* Until then, dequeue() and enqueue() dereference neither NULL nor a node
\* that was freed.
NoFault == ~overloaded => proc \notin {"crashed", "corrupted"}

\* Until then, a connection that is open is in the queue or held by exactly
\* one thread: none is forgotten without close(), none is served twice.
HeldOnce ==
  ~overloaded /\ proc = "up" =>
    \A c \in Conns :
      conn[c] = "open" /\ ~mutex =>
        Cardinality({t \in Threads : fd[t] = c}) + (IF c \in Queued THEN 1 ELSE 0) = 1

\* Until then, no wakeup is lost: when the mutex is free and the queue is not
\* empty, some worker is not asleep in pthread_cond_wait.  The broadcast of
\* main() is only made for the first request in the server.
NoLostWakeup ==
  ~overloaded /\ ~mutex /\ head # NULL => \E w \in Workers : pc[w] # "wait"

\* Under every policy, and whatever the races after handle_overload() do to
\* the counters, the list stays in the order of arrival.
QueueSorted == \A c \in Queued : next[c] # NULL => c < next[c]

\* Under policy "dt" every connection that is accepted is closed in the end
\* (served or rejected), unless an I/O error ends the process.
EveryRequestAnswered ==
  \A c \in Conns : conn[c] = "open" ~> conn[c] = "closed" \/ proc # "up"

\* In the first call of random_drop(), which has the mutex to itself, the list
\* has no freed node from one round to the next, the range drawn from is not
\* empty (a bound of -1 is a division by zero in Randoms), and the walk keeps
\* tmp_preior one node behind tmp, both in the list.  In later calls a worker
\* may be in dequeue() at the same time, and none of this holds.
DropWalkSafe ==
  ~bare /\ pc[Main] \in {"drop", "dropwalk", "dropcut"} =>
    /\ walk.higher >= 0
    /\ head # NULL /\ Queued \cap freed = {}
    /\ pc[Main] # "drop" => {walk.prior, tmp[Main]} \subseteq Queued
                           /\ next[walk.prior] = tmp[Main]
=============================================================================
