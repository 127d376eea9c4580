--------------------------- MODULE RequestProofs ---------------------------
(***************************************************************************)
(* What a worker does with its connection, for every set of workers and    *)
(* connections, every text and every size of the buffers: its children,    *)
(* and what it reads.                                                      *)
(*                                                                         *)
(* Two layers, each kept by every step:                                    *)
(*   IInv       a connection has one worker at most and no child before    *)
(*              the fork; the workers that wait are paired with the        *)
(*              children not reaped, whichever child a wait takes;         *)
(*   ReadInv    lines, line begun and buffer are together what was read.   *)
(* The properties alone are not inductive: they say nothing of the places  *)
(* between two calls, at which clients, children and other workers go on.  *)
(***************************************************************************)
EXTENDS Request, TLAPS, WellFoundedInduction

(* Induction over numbers, with a set in place of a predicate.             *)

\* A set of natural numbers that is not empty has a least element.
LEMMA LeastNat ==
  ASSUME NEW S, S \subseteq Nat, S # {}
  PROVE  \E x \in S : \A y \in S : x =< y
<1>1. PICK x \in S : \A y \in S : <<y, x>> \notin OpToRel(<, Nat)
  BY NatLessThanWellFounded, WFMin, Zenon
<1>2. ASSUME NEW y \in S PROVE x =< y
  <2>1. x \in Nat /\ y \in Nat
    OBVIOUS
  <2>2. ~(y < x)
    BY <1>1, <2>1, Zenon DEF OpToRel
  <2> QED
    BY <2>1, <2>2
<1> QED
  BY <1>2

\* A set that has 0, and the successor of each number in it, has every number.
LEMMA NatSetInduction ==
  ASSUME NEW S, 0 \in S, \A n \in Nat : n \in S => n + 1 \in S
  PROVE  Nat \subseteq S
<1> DEFINE F == Nat \ S
<1> SUFFICES ASSUME F # {} PROVE FALSE
  OBVIOUS
<1>1. PICK m \in F : \A y \in F : m =< y
  <2>1. F \subseteq Nat
    OBVIOUS
  <2> HIDE DEF F
  <2> QED
    BY <2>1, LeastNat, Zenon
<1>2. m # 0 /\ m - 1 \in Nat /\ ~(m =< m - 1)
  OBVIOUS
<1>3. m - 1 \in S
  BY <1>1, <1>2
<1>4. (m - 1) + 1 = m
  OBVIOUS
<1> QED
  BY <1>2, <1>3, <1>4

-----------------------------------------------------------------------------

\* Places of a worker in requestHandle() up to its fork.
Early == {"request", "headers", "spin", "stat", "open", "write", "fork"}

Waiters == {w \in Workers : pc[w] = "wait"}
Children == {c \in Conns : child[c] \in {"running", "zombie"}}

\* Control, descriptors and children have their types.
Typed ==
  /\ pc \in [Workers -> Early \cup {"idle", "wait", "done"}]
  /\ fd \in [Workers -> Conns \cup {0}]
  /\ open \in [Conns -> {"queued", "open", "closed"}]
  /\ child \in [Conns -> {"none", "running", "zombie", "reaped"}]

\* A worker has a connection of its own, which has no child before the fork.
Own ==
  /\ \A w \in Workers : pc[w] # "idle" => fd[w] \in Conns /\ open[fd[w]] = "open"
  /\ \A v, w \in Workers : v # w /\ pc[v] # "idle" /\ pc[w] # "idle" => fd[v] # fd[w]
  /\ \A w \in Workers : pc[w] \in Early => child[fd[w]] = "none"
  /\ \A c \in Conns : open[c] = "queued" => child[c] = "none"

\* One child for each worker that waits, and the other way round.
Pairs(f, W, C) == /\ f \in [W -> C]
                  /\ \A v, w \in W : f[v] = f[w] => v = w
                  /\ \A c \in C : \E w \in W : f[w] = c
Paired(W, C) == \E f : Pairs(f, W, C)

IInv == Typed /\ Own /\ Paired(Waiters, Children)

-----------------------------------------------------------------------------

\* A new element on each side is paired with the other.
LEMMA PairMore ==
  ASSUME NEW W, NEW C, Paired(W, C), NEW w, w \notin W, NEW c, c \notin C
  PROVE  Paired(W \cup {w}, C \cup {c})
<1>1. PICK f : Pairs(f, W, C)
  BY DEF Paired
<1> DEFINE g == [x \in W \cup {w} |-> IF x = w THEN c ELSE f[x]]
<1>2. Pairs(g, W \cup {w}, C \cup {c})
  <2>1. g \in [W \cup {w} -> C \cup {c}]
    BY <1>1 DEF Pairs
  <2>2. \A v, x \in W \cup {w} : g[v] = g[x] => v = x
    BY <1>1 DEF Pairs
  <2>3. \A d \in C \cup {c} : \E x \in W \cup {w} : g[x] = d
    BY <1>1 DEF Pairs
  <2> QED
    BY <2>1, <2>2, <2>3 DEF Pairs
<1> QED
  BY <1>2 DEF Paired

\* When one element of each side goes, their partners are paired.
LEMMA PairLess ==
  ASSUME NEW W, NEW C, Paired(W, C), NEW w \in W, NEW c \in C
  PROVE  Paired(W \ {w}, C \ {c})
<1>1. PICK f : Pairs(f, W, C)
  BY DEF Paired
<1> DEFINE g == [x \in W \ {w} |-> IF f[x] = c THEN f[w] ELSE f[x]]
<1>2. Pairs(g, W \ {w}, C \ {c})
  <2>1. g \in [W \ {w} -> C \ {c}]
    BY <1>1 DEF Pairs
  <2>2. \A v, x \in W \ {w} : g[v] = g[x] => v = x
    BY <1>1 DEF Pairs
  <2>3. ASSUME NEW d \in C \ {c} PROVE \E x \in W \ {w} : g[x] = d
    <3>1. PICK x \in W : f[x] = d
      BY <1>1 DEF Pairs
    <3>2. PICK y \in W : f[y] = c
      BY <1>1 DEF Pairs
    <3> QED
      BY <1>1, <3>1, <3>2 DEF Pairs
  <2> QED
    BY <2>1, <2>2, <2>3 DEF Pairs
<1> QED
  BY <1>2 DEF Paired

\* Whatever touches neither control, descriptors nor children keeps the invariant.
LEMMA Elsewhere ==
  ASSUME IInv, UNCHANGED <<pc, fd, open, child>>
  PROVE  IInv'
  BY DEF IInv, Typed, Own, Waiters, Children

\* So does a worker that moves on inside requestHandle() before the fork, or that
\* leaves it without one.
LEMMA MovesOn ==
  ASSUME IInv, NEW w \in Workers, NEW q \in Early \cup {"done"},
         pc[w] \in Early, pc' = [pc EXCEPT ![w] = q], UNCHANGED <<fd, open, child>>
  PROVE  IInv'
<1>1. Typed' /\ Own'
  BY DEF IInv, Typed, Own, Early
<1>2. Waiters' = Waiters /\ Children' = Children
  BY DEF IInv, Typed, Waiters, Children, Early
<1> QED
  BY <1>1, <1>2 DEF IInv

\* requestHandle() takes a connection that no other worker has.
LEMMA TakesOwn ==
  ASSUME IInv, NEW w \in Workers, NEW c \in Conns, requestHandle(w, c)
  PROVE  IInv'
<1>1. Typed' /\ Own'
  BY DEF IInv, Typed, Own, Early, requestHandle, Goto, childVars
<1>2. Waiters' = Waiters /\ Children' = Children
  BY DEF IInv, Typed, Waiters, Children, Early, requestHandle, Goto, childVars
<1> QED
  BY <1>1, <1>2 DEF IInv

\* A fork adds one worker that waits and one child, which was not there.
LEMMA Forks ==
  ASSUME IInv, NEW w \in Workers, Fork(w)
  PROVE  IInv'
<1>1. pc[w] = "fork" /\ pc' = [pc EXCEPT ![w] = "wait"] /\ UNCHANGED <<fd, open>>
      /\ child' = [child EXCEPT ![fd[w]] = "running"]
  BY DEF Fork, Goto
<1>2. fd[w] \in Conns /\ child[fd[w]] = "none"
  BY <1>1 DEF IInv, Own, Early
<1>3. Typed' /\ Own'
  BY <1>1, <1>2 DEF IInv, Typed, Own, Early
<1>4. Waiters' = Waiters \cup {w} /\ w \notin Waiters
  BY <1>1 DEF IInv, Typed, Waiters
<1>5. Children' = Children \cup {fd[w]} /\ fd[w] \notin Children
  BY <1>1, <1>2 DEF IInv, Typed, Children
<1>6. Paired(Waiters', Children')
  BY <1>4, <1>5, PairMore DEF IInv
<1> QED
  BY <1>3, <1>6 DEF IInv

\* A wait takes one of each away, though not always the worker's own child.
LEMMA Waits ==
  ASSUME IInv, NEW w \in Workers, Wait(w)
  PROVE  IInv'
<1>1. pc[w] = "wait" /\ pc' = [pc EXCEPT ![w] = "done"] /\ UNCHANGED <<fd, open>>
  BY DEF Wait, Goto
<1>2. PICK c \in Conns : child[c] = "zombie" /\ child' = [child EXCEPT ![c] = "reaped"]
  BY Zenon DEF Wait
<1>3. Typed' /\ Own'
  BY <1>1, <1>2 DEF IInv, Typed, Own, Early
<1>4. Waiters' = Waiters \ {w} /\ w \in Waiters
  BY <1>1 DEF IInv, Typed, Waiters
<1>5. Children' = Children \ {c} /\ c \in Children
  BY <1>2 DEF IInv, Typed, Children
<1>6. Paired(Waiters', Children')
  BY <1>4, <1>5, PairLess DEF IInv
<1> QED
  BY <1>3, <1>6 DEF IInv

\* A worker that is done has no part in the count when it closes its connection.
LEMMA Closes ==
  ASSUME IInv, NEW w \in Workers, Close(w)
  PROVE  IInv'
<1>1. Typed' /\ Own'
  BY DEF IInv, Typed, Own, Early, Close, Goto, childVars
<1>2. Waiters' = Waiters /\ Children' = Children
  BY DEF IInv, Typed, Waiters, Children, Close, Goto, childVars
<1> QED
  BY <1>1, <1>2 DEF IInv

\* A child that ends is still there to be waited for.
LEMMA ChildEnds ==
  ASSUME IInv, NEW c \in Conns, CgiRuns(c)
  PROVE  IInv'
<1>1. child[c] = "running" /\ child' = [child EXCEPT ![c] = "zombie"] /\ UNCHANGED <<pc, fd, open>>
  BY DEF CgiRuns, workVars
<1>2. Typed' /\ Own'
  BY <1>1 DEF IInv, Typed, Own, Early
<1>3. Waiters' = Waiters /\ Children' = Children
  BY <1>1 DEF IInv, Typed, Waiters, Children
<1> QED
  BY <1>2, <1>3 DEF IInv

\* A line that was read moves the worker on, or not at all.
LEMMA ReadsLine ==
  ASSUME IInv, NEW w \in Workers, NEW l, GetsLine(w, l), UNCHANGED <<fd, open, child>>
  PROVE  IInv'
<1>1. pc[w] \in Early /\ \E q \in Early : pc' = [pc EXCEPT ![w] = q]
  BY DEF GetsLine, Early
<1> QED
  BY <1>1, MovesOn, Zenon

\* Every step of a worker keeps the invariant.
LEMMA WorkerStep ==
  ASSUME IInv, NEW w \in Workers, Worker(w)
  PROVE  IInv'
<1>1. CASE TakeByte(w)
  <2>1. UNCHANGED <<fd, open, child>> /\ (UNCHANGED pc \/ GetsLine(w, Append(line[w], Head(rio[w]))))
    BY <1>1 DEF TakeByte, childVars
  <2> QED
    BY <2>1, Elsewhere, ReadsLine
<1>2. CASE Refill(w)
  BY <1>2, Elsewhere DEF Refill, workVars, childVars
<1>3. CASE EndOfFile(w)
  <2>1. UNCHANGED <<fd, open, child>>
    BY <1>3 DEF EndOfFile, childVars
  <2>2. \/ \E l : GetsLine(w, l)
        \/ pc[w] = "headers" /\ pc' = [pc EXCEPT ![w] = "spin"]
    BY <1>3, Zenon DEF EndOfFile, Goto
  <2> QED
    BY <2>1, <2>2, ReadsLine, MovesOn DEF Early
<1>4. CASE Stat(w)
  <2>1. pc[w] = "stat" /\ UNCHANGED <<fd, open, child>>
        /\ \E q \in Early : pc' = [pc EXCEPT ![w] = q]
    BY <1>4 DEF Stat, Goto, childVars, Early
  <2> QED
    BY <2>1, MovesOn, Zenon DEF Early
<1>5. CASE requestServeStatic(w)
  BY <1>5, MovesOn, Zenon DEF requestServeStatic, Goto, childVars, Early
<1>6. CASE EmptyFile(w)
  BY <1>6, Elsewhere DEF EmptyFile, Fails, workVars, childVars
<1>7. CASE Rio_writen(w)
  BY <1>7, Elsewhere DEF Rio_writen, childVars
<1>8. CASE Written(w)
  <2>1. pc[w] = "write" /\ UNCHANGED <<fd, open, child>>
        /\ \E q \in Early \cup {"done"} : pc' = [pc EXCEPT ![w] = q]
    BY <1>8, Zenon DEF Written, Goto, childVars, Early
  <2> QED
    BY <2>1, MovesOn, Zenon DEF Early
<1> QED
  BY <1>1, <1>2, <1>3, <1>4, <1>5, <1>6, <1>7, <1>8, Forks, Waits, Closes DEF Worker

\* The invariant is inductive.
LEMMA Inductive == IInv /\ [Next]_vars => IInv'
<1> SUFFICES ASSUME IInv, [Next]_vars PROVE IInv'
  OBVIOUS
<1>1. CASE UNCHANGED vars
  BY <1>1, Elsewhere DEF vars, workVars, childVars
<1>2. ASSUME NEW c \in Conns, Send(c) \/ HangUp(c) PROVE IInv'
  BY <1>2, Elsewhere DEF Send, HangUp, workVars, childVars
<1>3. ASSUME NEW w \in Workers, Fails(w) PROVE IInv'
  BY <1>3, Elsewhere DEF Fails, workVars, childVars
<1> QED
  BY <1>1, <1>2, <1>3, ChildEnds, WorkerStep, TakesOwn DEF Next

\* At first every worker is idle and there is no child.
LEMMA InitControl == Init => IInv
<1> SUFFICES ASSUME Init PROVE IInv
  OBVIOUS
<1>1. Typed /\ Own
  BY DEF Init, Typed, Own, Early
<1>2. Waiters = {} /\ Children = {}
  BY DEF Init, Waiters, Children
<1>3. Pairs([w \in {} |-> w], {}, {})
  BY DEF Pairs
<1> QED
  BY <1>1, <1>2, <1>3 DEF IInv, Paired

\* Two workers that serve CGI requests may take each other's children in
\* requestServeDynamic, and yet every wait has a child and every child a wait.
THEOREM WaitersMatchChildrenHolds == Spec => []WaitersMatchChildren
<1>1. Init => IInv
  BY InitControl
<1>2. ASSUME IInv PROVE WaitersMatchChildren
  <2>1. PICK f : Pairs(f, Waiters, Children)
    BY <1>2 DEF IInv, Paired
  <2>2. f \in Bijection(Waiters, Children)
    BY <2>1 DEF Pairs, Bijection, Injection, Surjection, IsInjective
  <2> QED
    BY <2>2 DEF WaitersMatchChildren, Waiters, Children
<1> QED
  BY <1>1, <1>2, Inductive, PTL DEF Spec

-----------------------------------------------------------------------------
(* What was read.  The clients, the buffers and the lines. *)

Clients ==
  /\ text \in [Conns -> Seq(Symbols)] /\ sent \in [Conns -> Nat] /\ got \in [Conns -> Nat]
  /\ hung \in [Conns -> BOOLEAN]
  /\ \A c \in Conns : got[c] =< sent[c] /\ sent[c] =< Len(text[c]) /\ (hung[c] => sent[c] = Len(text[c]))
  /\ \A c \in Conns : open[c] = "queued" => got[c] = 0

Buffers ==
  /\ rio \in [Workers -> Seq(Symbols)] /\ line \in [Workers -> Seq(Symbols)]
  /\ lines \in [Workers -> Seq(Seq(Symbols))]

\* Nothing is left to read on the connection of w.
AtEnd(w) == rio[w] = <<>> /\ line[w] = <<>> /\ hung[fd[w]] /\ got[fd[w]] = Len(text[fd[w]])

\* A line as rio_readlineb returns it before the end of the file.
Cut(l) == /\ Len(l) < MAXLINE /\ l # <<>> /\ \A k \in 1 .. Len(l) - 1 : l[k] # "nl"
Ended(l) == l[Len(l)] = "nl" \/ Len(l) = MAXLINE - 1

\* What worker w has of a text that is not empty: lines, a line begun, the buffer.
Reads(w) ==
  /\ Joined(lines[w]) \o line[w] \o rio[w] = SubSeq(text[fd[w]], 1, got[fd[w]])
  /\ Len(line[w]) < MAXLINE - 1 /\ \A k \in 1 .. Len(line[w]) : line[w][k] # "nl"
  /\ pc[w] = "request" => lines[w] = <<>>
  /\ \A i \in 1 .. Len(lines[w]) : /\ Cut(lines[w][i])
                                   /\ Ended(lines[w][i]) \/ (i = Len(lines[w]) /\ AtEnd(w))

ReadInv == Clients /\ Buffers /\ \A w \in Workers : Handling(w) => Reads(w)

-----------------------------------------------------------------------------
(* What Joined computes.                                                   *)

\* Concatenation.
Cat(A, B) == A \o B

\* A function whose i-th value joins the first i sequences of s.
Joins(f, s) == f = [i \in 0 .. Len(s) |-> IF i = 0 THEN <<>> ELSE Cat(f[i - 1], s[i])]

\* Such a function, value by value.
LEMMA JoinsStep ==
  ASSUME NEW f, NEW s, Joins(f, s), Len(s) \in Nat
  PROVE  f[0] = <<>> /\ \A i \in 1 .. Len(s) : f[i] = Cat(f[i - 1], s[i])
<1> DEFINE b(i) == IF i = 0 THEN <<>> ELSE Cat(f[i - 1], s[i])
<1>1. f = [i \in 0 .. Len(s) |-> b(i)]
  BY Zenon DEF Joins
<1> HIDE DEF b
<1>2. \A i \in 0 .. Len(s) : f[i] = b(i)
  BY <1>1
<1>3. f[0] = <<>>
  BY <1>2 DEF b
<1>4. ASSUME NEW i \in 1 .. Len(s) PROVE f[i] = Cat(f[i - 1], s[i])
  BY <1>2 DEF b
<1> QED
  BY <1>3, <1>4

\* t begins with s.
Begins(s, t) == /\ Len(s) \in Nat /\ Len(t) \in Nat /\ Len(s) =< Len(t)
                /\ \A i \in 1 .. Len(s) : s[i] = t[i]

\* Two such functions agree as far as their sequences do.
LEMMA JoinUnique ==
  ASSUME NEW s, NEW t, NEW f, NEW g, Joins(f, s), Joins(g, t), Begins(s, t)
  PROVE  f[Len(s)] = g[Len(s)]
<1> DEFINE S == {n \in Nat : n =< Len(s) => f[n] = g[n]}
<1>0. Len(s) \in Nat /\ Len(t) \in Nat /\ Len(s) =< Len(t)
  BY DEF Begins
<1>1. 0 \in S
  BY <1>0, JoinsStep
<1>2. ASSUME NEW n \in Nat, n \in S PROVE n + 1 \in S
  <2> SUFFICES ASSUME n + 1 =< Len(s) PROVE f[n + 1] = g[n + 1]
    OBVIOUS
  <2>1. n + 1 \in 1 .. Len(s) /\ n + 1 \in 1 .. Len(t) /\ s[n + 1] = t[n + 1] /\ (n + 1) - 1 = n
    BY <1>0 DEF Begins
  <2>2. f[n] = g[n]
    BY <1>0, <1>2
  <2>3. f[n + 1] = Cat(f[n], s[n + 1])
    BY <1>0, <2>1, JoinsStep
  <2>4. g[n + 1] = Cat(g[n], t[n + 1])
    BY <1>0, <2>1, JoinsStep
  <2> QED
    BY <2>1, <2>2, <2>3, <2>4
<1>3. Nat \subseteq S
  <2> HIDE DEF S
  <2> QED
    BY <1>1, <1>2, NatSetInduction
<1> QED
  BY <1>0, <1>3

\* There is such a function, and its values are sequences over T.
LEMMA JoinExists ==
  ASSUME NEW T, NEW s \in Seq(Seq(T))
  PROVE  \E f : Joins(f, s) /\ f[Len(s)] \in Seq(T)
<1> DEFINE P(f, n) == f[0] = <<>> /\ \A i \in 1 .. n : f[i] = Cat(f[i - 1], s[i])
           Q(n) == \E f \in [0 .. n -> Seq(T)] : P(f, n)
           S == {n \in Nat : n =< Len(s) => Q(n)}
<1>1. Q(0)
  <2> DEFINE e == [i \in 0 .. 0 |-> <<>>]
  <2>1. e \in [0 .. 0 -> Seq(T)]
    OBVIOUS
  <2>2. P(e, 0)
    OBVIOUS
  <2> HIDE DEF e, P
  <2> QED
    BY <2>1, <2>2
<1>2. ASSUME NEW n \in Nat, n + 1 =< Len(s), Q(n) PROVE Q(n + 1)
  <2> HIDE DEF P
  <2>1. PICK f \in [0 .. n -> Seq(T)] : P(f, n)
    BY <1>2
  <2> DEFINE g == [i \in 0 .. n + 1 |-> IF i =< n THEN f[i] ELSE Cat(f[n], s[n + 1])]
  <2>2. Cat(f[n], s[n + 1]) \in Seq(T)
    <3>1. s[n + 1] \in Seq(T) /\ f[n] \in Seq(T)
      BY <1>2
    <3> QED
      BY <3>1 DEF Cat
  <2>3. g \in [0 .. n + 1 -> Seq(T)]
    BY <2>2
  <2>4. f[0] = <<>> /\ \A i \in 1 .. n : f[i] = Cat(f[i - 1], s[i])
    BY <2>1 DEF P
  <2>5. g[0] = <<>>
    BY <2>4
  <2>6. g[n + 1] = Cat(g[(n + 1) - 1], s[n + 1])
    BY <1>2
  <2>7. ASSUME NEW i \in 1 .. n PROVE g[i] = Cat(g[i - 1], s[i])
    <3>1. g[i] = f[i] /\ g[i - 1] = f[i - 1]
      OBVIOUS
    <3> HIDE DEF g
    <3> QED
      BY <2>4, <3>1
  <2>8. \A i \in 1 .. n + 1 : i \in 1 .. n \/ i = n + 1
    OBVIOUS
  <2> HIDE DEF g
  <2>9. P(g, n + 1)
    BY <2>5, <2>6, <2>7, <2>8 DEF P
  <2> QED
    BY <2>3, <2>9
<1> HIDE DEF Q
<1>3. Nat \subseteq S
  <2>1. 0 \in S
    BY <1>1
  <2>2. ASSUME NEW n \in Nat, n \in S PROVE n + 1 \in S
    BY <1>2, <2>2
  <2> HIDE DEF S
  <2> QED
    BY <2>1, <2>2, NatSetInduction, Zenon
<1>4. Q(Len(s)) /\ Len(s) \in Nat
  BY <1>3
<1>5. PICK f \in [0 .. Len(s) -> Seq(T)] : P(f, Len(s))
  BY <1>4 DEF Q
<1>6. Joins(f, s)
  <2> DEFINE b(i) == IF i = 0 THEN <<>> ELSE Cat(f[i - 1], s[i])
  <2>1. f = [i \in 0 .. Len(s) |-> f[i]]
    BY <1>5
  <2>2. \A i \in 0 .. Len(s) : f[i] = b(i)
    BY <1>4, <1>5
  <2> HIDE DEF b
  <2>3. f = [i \in 0 .. Len(s) |-> b(i)]
    BY <2>1, <2>2
  <2> QED
    BY <2>3, Zenon DEF Joins, b
<1> QED
  BY <1>4, <1>5, <1>6

\* Joined is the last value of such a function.
LEMMA JoinedJoins ==
  ASSUME NEW T, NEW s \in Seq(Seq(T))
  PROVE  \E f : Joins(f, s) /\ Joined(s) = f[Len(s)] /\ f[Len(s)] \in Seq(T)
<1>1. PICK f : Joins(f, s) /\ f[Len(s)] \in Seq(T)
  BY JoinExists
<1> DEFINE c == CHOOSE h : h = [i \in 0 .. Len(s) |-> IF i = 0 THEN <<>> ELSE Cat(h[i - 1], s[i])]
<1>2. Joins(c, s)
  BY <1>1, Zenon DEF Joins
<1>3. Joined(s) = c[Len(s)]
  BY Zenon DEF Joined, Cat
<1> HIDE DEF c
<1>4. Begins(s, s)
  BY DEF Begins
<1>5. c[Len(s)] = f[Len(s)]
  BY <1>1, <1>2, <1>4, JoinUnique
<1> QED
  BY <1>1, <1>2, <1>3, <1>5

\* What is joined is a sequence over T.
LEMMA JoinedType ==
  ASSUME NEW T, NEW s \in Seq(Seq(T))
  PROVE  Joined(s) \in Seq(T)
BY JoinedJoins

\* No lines joined are nothing.
LEMMA JoinedNothing == Joined(<<>>) = <<>>
<1>1. <<>> \in Seq(Seq(Symbols)) /\ Len(<<>>) = 0
  OBVIOUS
<1>2. PICK f : Joins(f, <<>>) /\ Joined(<<>>) = f[Len(<<>>)]
  BY <1>1, JoinedJoins, Zenon
<1>3. f[0] = <<>>
  BY <1>1, <1>2, JoinsStep
<1> QED
  BY <1>1, <1>2, <1>3

\* One more sequence at the end is one more piece of what is joined.
LEMMA JoinedLonger ==
  ASSUME NEW T, NEW s \in Seq(Seq(T)), NEW a \in Seq(Seq(T)), Begins(s, a), Len(a) = Len(s) + 1
  PROVE  Joined(a) = Cat(Joined(s), a[Len(a)])
<1>1. PICK f : Joins(f, s) /\ Joined(s) = f[Len(s)]
  BY JoinedJoins
<1>2. PICK g : Joins(g, a) /\ Joined(a) = g[Len(a)]
  BY JoinedJoins
<1>3. f[Len(s)] = g[Len(s)]
  BY <1>1, <1>2, JoinUnique
<1>4. g[Len(a)] = Cat(g[Len(a) - 1], a[Len(a)]) /\ Len(a) - 1 = Len(s)
  <2>1. Len(a) \in 1 .. Len(a) /\ Len(a) \in Nat /\ Len(a) - 1 = Len(s)
    OBVIOUS
  <2> QED
    BY <1>2, <2>1, JoinsStep
<1> QED
  BY <1>1, <1>2, <1>3, <1>4

\* rio_readlineb() has one more line: what was joined goes on with it.
LEMMA JoinedAppend ==
  ASSUME NEW T, NEW s \in Seq(Seq(T)), NEW x \in Seq(T)
  PROVE  Joined(Append(s, x)) = Joined(s) \o x
<1> SUFFICES ASSUME NEW a, a = Append(s, x) PROVE Joined(a) = Joined(s) \o x
  BY Zenon
<1>1. s \in Seq(Seq(T)) /\ x \in Seq(T)
  OBVIOUS
<1>2. a \in Seq(Seq(T)) /\ Len(a) = Len(s) + 1 /\ Len(s) \in Nat
      /\ a[Len(s) + 1] = x /\ \A i \in 1 .. Len(s) : a[i] = s[i]
  BY <1>1
<1>3. Begins(s, a) /\ a[Len(a)] = x
  BY <1>2 DEF Begins
<1> QED
  BY <1>2, <1>3, JoinedLonger, Zenon DEF Cat

-----------------------------------------------------------------------------
(* Facts about sequences. *)

\* Three pieces in a row.
Row(A, B, C) == (A \o B) \o C

\* Nothing before or after a sequence.
LEMMA CatNothing ==
  ASSUME NEW T, NEW s \in Seq(T)
  PROVE  s \o <<>> = s /\ <<>> \o s = s
  OBVIOUS

\* The last element after Append.
LEMMA LastAppended ==
  ASSUME NEW s, s \in Seq(Seq(Symbols)), NEW x, x \in Seq(Symbols)
  PROVE  /\ Len(Append(s, x)) \in 1 .. Len(Append(s, x))
         /\ Append(s, x)[Len(Append(s, x))] = x
  OBVIOUS

\* The piece of a sequence that is all of it.
LEMMA WholeSequence ==
  ASSUME NEW T, NEW s \in Seq(T)
  PROVE  SubSeq(s, 1, Len(s)) = s
  OBVIOUS

\* Concatenation is associative.
LEMMA CatAssociative ==
  ASSUME NEW T, NEW A \in Seq(T), NEW B \in Seq(T), NEW C \in Seq(T)
  PROVE  Cat(A, B) \in Seq(T) /\ Cat(Cat(A, B), C) = Cat(A, Cat(B, C))
<1>1. (A \o B) \o C = A \o (B \o C)
  OBVIOUS
<1> QED
  BY <1>1 DEF Cat

\* The first element of C may be counted to the piece before it.
LEMMA TakeOne ==
  ASSUME NEW T, NEW A \in Seq(T), NEW B \in Seq(T), NEW C \in Seq(T), C # <<>>
  PROVE  Row(A, B, C) = Row(A, Append(B, Head(C)), Tail(C))
<1> DEFINE H == <<Head(C)>>
           r == Tail(C)
<1>1. H \in Seq(T) /\ r \in Seq(T) /\ C = Cat(H, r) /\ Append(B, Head(C)) = Cat(B, H)
  BY DEF Cat
<1> HIDE DEF H, r
<1>2. Cat(A, B) \in Seq(T) /\ Cat(Cat(A, B), H) = Cat(A, Cat(B, H))
  BY <1>1, CatAssociative
<1>3. Cat(Cat(Cat(A, B), H), r) = Cat(Cat(A, B), Cat(H, r))
  BY <1>1, <1>2, CatAssociative
<1>4. Row(A, B, C) = Cat(Cat(A, B), C) /\ Row(A, Cat(B, H), r) = Cat(Cat(A, Cat(B, H)), r)
  BY Zenon DEF Row, Cat
<1> QED
  BY <1>1, <1>2, <1>3, <1>4, Zenon DEF r

\* The pieces it moves between are sequences again.
LEMMA TakeOneTypes ==
  ASSUME NEW T, NEW B \in Seq(T), NEW C \in Seq(T), C # <<>>
  PROVE  /\ Head(C) \in T /\ Tail(C) \in Seq(T)
         /\ Append(B, Head(C)) \in Seq(T) /\ Append(B, Head(C)) # <<>>
  OBVIOUS

\* The line grows by a byte that is not its first newline but may be its last byte.
LEMMA OneMore ==
  ASSUME NEW b \in Seq(Symbols), NEW l \in Seq(Symbols), Len(l) = Len(b) + 1,
         \A k \in 1 .. Len(l) - 1 : l[k] = b[k],
         Len(b) < MAXLINE - 1, \A k \in 1 .. Len(b) : b[k] # "nl"
  PROVE  Cut(l)
<1>1. Len(b) \in Nat /\ Len(l) \in Nat
  OBVIOUS
<1>2. Len(l) < MAXLINE /\ Len(l) # 0
  BY <1>1, SizesAssumption
<1>3. l # <<>>
  BY <1>2
<1>4. ASSUME NEW k \in 1 .. Len(l) - 1 PROVE l[k] # "nl"
  <2>1. k \in 1 .. Len(b)
    BY <1>1
  <2> QED
    BY <2>1
<1> QED
  BY <1>2, <1>3, <1>4 DEF Cut

\* Two neighbouring pieces of a sequence are one.
LEMMA NextPiece ==
  ASSUME NEW T, NEW t \in Seq(T), NEW m \in Nat, NEW n \in Nat, m + n =< Len(t)
  PROVE  /\ SubSeq(t, m + 1, m + n) \in Seq(T) /\ SubSeq(t, 1, m) \in Seq(T)
         /\ Cat(SubSeq(t, 1, m), SubSeq(t, m + 1, m + n)) = SubSeq(t, 1, m + n)
<1>1. SubSeq(t, m + 1, m + n) \in Seq(T) /\ SubSeq(t, 1, m) \in Seq(T)
      /\ SubSeq(t, 1, m + n) \in Seq(T)
  OBVIOUS
<1>2. Len(SubSeq(t, 1, m)) = m /\ Len(SubSeq(t, m + 1, m + n)) = n /\ Len(SubSeq(t, 1, m + n)) = m + n
  OBVIOUS
<1> QED
  BY <1>1, <1>2 DEF Cat

\* The same, for the text of a client.
LEMMA NextSymbols ==
  ASSUME NEW t, t \in Seq(Symbols), NEW m, m \in Nat, NEW n, n \in Nat, m + n =< Len(t)
  PROVE  /\ SubSeq(t, m + 1, m + n) \in Seq(Symbols) /\ SubSeq(t, 1, m) \in Seq(Symbols)
         /\ Cat(SubSeq(t, 1, m), SubSeq(t, m + 1, m + n)) = SubSeq(t, 1, m + n)
  BY NextPiece, Zenon

-----------------------------------------------------------------------------
(* The reader. *)

\* A worker whose reader and connection are left alone has read what it had read.
LEMMA StillReads ==
  ASSUME NEW v \in Workers, Reads(v), text' = text, fd'[v] = fd[v], rio'[v] = rio[v],
         line'[v] = line[v], lines'[v] = lines[v], got'[fd[v]] = got[fd[v]],
         hung[fd[v]] => hung'[fd[v]], pc'[v] = "request" => pc[v] = "request"
  PROVE  Reads(v)'
<1>1. AtEnd(v) => AtEnd(v)'
  BY DEF AtEnd
<1>2. \A i \in 1 .. Len(lines[v]) : /\ Cut(lines[v][i])
                                    /\ Ended(lines[v][i]) \/ (i = Len(lines[v]) /\ AtEnd(v)')
  BY <1>1 DEF Reads
<1> QED
  BY <1>2, Zenon DEF Reads, Cut, Ended

\* A line that rio_readlineb returns is the next piece of what was read.
LEMMA LineReads ==
  ASSUME Clients, Buffers, NEW w \in Workers, fd[w] \in Conns, NEW l \in Seq(Symbols),
         text' = text, fd' = fd, got' = got, pc'[w] # "request",
         line'[w] = <<>>, lines'[w] = Append(lines[w], l), rio'[w] \in Seq(Symbols),
         Joined(lines[w]) \o l \o rio'[w] = SubSeq(text[fd[w]], 1, got[fd[w]]),
         \A i \in 1 .. Len(lines[w]) : Cut(lines[w][i]) /\ Ended(lines[w][i]),
         Cut(l), Ended(l) \/ AtEnd(w)'
  PROVE  Reads(w)'
<1>1. lines[w] \in Seq(Seq(Symbols))
  BY DEF Buffers
<1>2. Joined(lines'[w]) = Joined(lines[w]) \o l
  BY <1>1, JoinedAppend, Zenon
<1>3. Joined(lines[w]) \o l \in Seq(Symbols)
  BY <1>1, JoinedType
<1>4. (Joined(lines[w]) \o l) \o <<>> = Joined(lines[w]) \o l
  BY <1>3, CatNothing
<1>5. Joined(lines'[w]) \o line'[w] \o rio'[w] = SubSeq(text'[fd'[w]], 1, got'[fd'[w]])
  BY <1>2, <1>4, Zenon
<1>6. ASSUME NEW i \in 1 .. Len(lines'[w])
      PROVE  Cut(lines'[w][i]) /\ (Ended(lines'[w][i]) \/ (i = Len(lines'[w]) /\ AtEnd(w)'))
  <2>1. Len(lines'[w]) = Len(lines[w]) + 1
    BY <1>1
  <2>2. CASE i = Len(lines[w]) + 1
    <3>1. lines'[w][i] = l
      BY <1>1, <2>2
    <3> QED
      BY <2>1, <2>2, <3>1
  <2>3. CASE i # Len(lines[w]) + 1
    <3>1. i \in 1 .. Len(lines[w]) /\ lines'[w][i] = lines[w][i]
      BY <1>1, <2>1, <2>3
    <3> QED
      BY <3>1
  <2> QED
    BY <2>2, <2>3
<1>7. Len(line'[w]) < MAXLINE - 1 /\ \A k \in 1 .. Len(line'[w]) : line'[w][k] # "nl"
  BY SizesAssumption
<1>8. Reads(w)' <=>
        /\ Joined(lines'[w]) \o line'[w] \o rio'[w] = SubSeq(text'[fd'[w]], 1, got'[fd'[w]])
        /\ Len(line'[w]) < MAXLINE - 1 /\ \A k \in 1 .. Len(line'[w]) : line'[w][k] # "nl"
        /\ pc'[w] = "request" => lines'[w] = <<>>
        /\ \A i \in 1 .. Len(lines'[w]) :
             Cut(lines'[w][i]) /\ (Ended(lines'[w][i]) \/ (i = Len(lines'[w]) /\ AtEnd(w)'))
  BY Zenon DEF Reads, Cut, Ended
<1> QED
  BY <1>5, <1>6, <1>7, <1>8, Zenon

\* One byte goes from the buffer to the line that is being assembled.
LEMMA TakeByteShape ==
  ASSUME IInv, ReadInv, NEW w \in Workers, TakeByte(w)
  PROVE  /\ UNCHANGED <<text, sent, hung, got, fd, open>> /\ pc[w] \in {"request", "headers"}
         /\ fd[w] \in Conns /\ Head(rio[w]) \in Symbols
         /\ rio[w] \in Seq(Symbols) /\ rio[w] # <<>> /\ rio' = [rio EXCEPT ![w] = Tail(rio[w])]
         /\ rio'[w] = Tail(rio[w]) /\ Tail(rio[w]) \in Seq(Symbols)
         /\ line[w] \in Seq(Symbols) /\ Append(line[w], Head(rio[w])) \in Seq(Symbols)
         /\ Append(line[w], Head(rio[w])) # <<>>
         /\ lines[w] \in Seq(Seq(Symbols)) /\ Joined(lines[w]) \in Seq(Symbols)
<1>1. UNCHANGED <<text, sent, hung, got, fd, open>> /\ pc[w] \in {"request", "headers"}
      /\ rio' = [rio EXCEPT ![w] = Tail(rio[w])] /\ rio[w] # <<>>
  BY DEF TakeByte, clientVars, Reading
<1>2. fd[w] \in Conns
  BY <1>1 DEF IInv, Own
<1>3. rio[w] \in Seq(Symbols) /\ line[w] \in Seq(Symbols) /\ lines[w] \in Seq(Seq(Symbols)) /\ rio'[w] = Tail(rio[w])
  BY <1>1 DEF ReadInv, Buffers
<1>4. Joined(lines[w]) \in Seq(Symbols)
  BY <1>3, JoinedType
<1>5. Head(rio[w]) \in Symbols /\ Tail(rio[w]) \in Seq(Symbols)
      /\ Append(line[w], Head(rio[w])) \in Seq(Symbols) /\ Append(line[w], Head(rio[w])) # <<>>
  BY <1>1, <1>3, TakeOneTypes, Zenon
<1> QED
  BY <1>1, <1>2, <1>3, <1>4, <1>5, Zenon

\* A line that w returns leaves the control of the other workers and their readers alone.
LEMMA GetsLineShape ==
  ASSUME IInv, NEW w \in Workers, NEW l, GetsLine(w, l), lines \in [Workers -> Seq(Seq(Symbols))],
         line \in [Workers -> Seq(Symbols)]
  PROVE  /\ line' = [line EXCEPT ![w] = <<>>] /\ lines' = [lines EXCEPT ![w] = Append(lines[w], l)]
         /\ pc'[w] \in {"headers", "write", "stat"} /\ line'[w] = <<>>
         /\ lines'[w] = Append(lines[w], l)
         /\ \A v \in Workers : v # w => pc'[v] = pc[v] /\ lines'[v] = lines[v] /\ line'[v] = line[v]
<1>1. line' = [line EXCEPT ![w] = <<>>] /\ lines' = [lines EXCEPT ![w] = Append(lines[w], l)]
  BY DEF GetsLine
<1>2. \E q \in {"headers", "write", "stat"} : pc' = [pc EXCEPT ![w] = q]
  BY DEF GetsLine
<1> QED
  BY <1>1, <1>2 DEF IInv, Typed

\* TakeByte keeps the invariant of the reader.
LEMMA TakeByteReads ==
  ASSUME IInv, ReadInv, NEW w \in Workers, TakeByte(w)
  PROVE  ReadInv'
<1> DEFINE l == Append(line[w], Head(rio[w]))
           F == Joined(lines[w])
           c == fd[w]
<1>0. /\ UNCHANGED <<text, sent, hung, got, fd, open>> /\ pc[w] \in {"request", "headers"}
      /\ c \in Conns /\ Head(rio[w]) \in Symbols
      /\ rio[w] \in Seq(Symbols) /\ rio[w] # <<>> /\ rio' = [rio EXCEPT ![w] = Tail(rio[w])]
      /\ rio'[w] = Tail(rio[w]) /\ Tail(rio[w]) \in Seq(Symbols)
      /\ line[w] \in Seq(Symbols) /\ l \in Seq(Symbols) /\ l # <<>>
      /\ lines[w] \in Seq(Seq(Symbols)) /\ F \in Seq(Symbols)
  BY TakeByteShape, Zenon
<1>1. Clients'
  BY <1>0 DEF ReadInv, Clients
<1>2. /\ l[Len(l)] = Head(rio[w]) /\ Len(l) = Len(line[w]) + 1
      /\ \A k \in 1 .. Len(l) - 1 : l[k] = line[w][k]
  BY <1>0
<1>3. ASSUME Reads(w)
      PROVE  /\ F \o l \o Tail(rio[w]) = SubSeq(text[c], 1, got[c]) /\ Cut(l)
             /\ \A i \in 1 .. Len(lines[w]) : Cut(lines[w][i]) /\ Ended(lines[w][i])
  <2>1. F \o line[w] \o rio[w] = SubSeq(text[c], 1, got[c])
    BY <1>3 DEF Reads
  <2>2. F \o l \o Tail(rio[w]) = SubSeq(text[c], 1, got[c])
    <3>1. (F \o line[w]) \o rio[w] = (F \o l) \o Tail(rio[w])
      <4> HIDE DEF F
      <4>1. Row(F, line[w], rio[w]) = Row(F, Append(line[w], Head(rio[w])), Tail(rio[w]))
        BY <1>0, TakeOne
      <4> QED
        BY <4>1, Zenon DEF Row
    <3> QED
      BY <2>1, <3>1, Zenon
  <2>3. Len(line[w]) < MAXLINE - 1 /\ \A k \in 1 .. Len(line[w]) : line[w][k] # "nl"
    BY <1>3 DEF Reads
  <2>4. Cut(l)
    <3> HIDE DEF l
    <3> QED
      BY <1>0, <1>2, <2>3, OneMore, Zenon
  <2>5. \A i \in 1 .. Len(lines[w]) : Cut(lines[w][i]) /\ Ended(lines[w][i])
    BY <1>0, <1>3 DEF Reads, AtEnd
  <2> QED
    BY <2>2, <2>4, <2>5, Zenon
<1>4. CASE l[Len(l)] = "nl" \/ Full(l)
  <2>1. GetsLine(w, l)
    BY <1>4, Zenon DEF TakeByte
  <2> HIDE DEF l
  <2>2. /\ line' = [line EXCEPT ![w] = <<>>] /\ lines' = [lines EXCEPT ![w] = Append(lines[w], l)]
        /\ pc'[w] \in {"headers", "write", "stat"} /\ line'[w] = <<>>
        /\ lines'[w] = Append(lines[w], l)
        /\ \A v \in Workers : v # w => pc'[v] = pc[v] /\ lines'[v] = lines[v] /\ line'[v] = line[v]
    BY <2>1, GetsLineShape, Zenon DEF ReadInv, Buffers
  <2>3. Buffers'
    BY <1>0, <2>2 DEF ReadInv, Buffers
  <2>4. ASSUME Handling(w)' PROVE Reads(w)'
    <3>1. Reads(w)
      BY <1>0, <2>4, SMTT(30) DEF ReadInv, Handling
    <3>2. Ended(l)
      BY <1>2, <1>4 DEF Ended, Full
    <3> QED
      BY <1>0, <1>3, <2>2, <3>1, <3>2, LineReads, Zenon DEF ReadInv
  <2>5. ASSUME NEW v \in Workers, v # w, Handling(v)' PROVE Reads(v)'
    <3>1. Handling(v) /\ rio'[v] = rio[v]
      BY <1>0, <2>2, <2>5 DEF Handling, ReadInv, Buffers
    <3>2. Reads(v)
      BY <3>1 DEF ReadInv
    <3> QED
      BY <1>0, <2>2, <2>5, <3>1, <3>2, StillReads, SMTT(30)
  <2> QED
    BY <1>1, <2>3, <2>4, <2>5 DEF ReadInv
<1>5. CASE ~(l[Len(l)] = "nl" \/ Full(l))
  <2>1. line' = [line EXCEPT ![w] = l] /\ UNCHANGED <<lines, pc>>
    BY <1>5, Zenon DEF TakeByte
  <2> HIDE DEF l
  <2>3. Buffers'
    BY <1>0, <2>1 DEF ReadInv, Buffers
  <2>4. ASSUME Handling(w)' PROVE Reads(w)'
    <3>1. Reads(w)
      BY <1>0, <2>1, <2>4 DEF ReadInv, Handling
    <3>2. line'[w] = l
      BY <2>1 DEF ReadInv, Buffers
    <3>3. Len(l) < MAXLINE - 1 /\ \A k \in 1 .. Len(l) : l[k] # "nl"
      BY <1>0, <1>2, <1>3, <1>5, <3>1, SizesAssumption DEF Cut, Full
    <3>4. Joined(lines[w]) \o l \o Tail(rio[w]) = SubSeq(text[fd[w]], 1, got[fd[w]])
          /\ \A i \in 1 .. Len(lines[w]) : Cut(lines[w][i]) /\ Ended(lines[w][i])
      BY <1>3, <3>1, Zenon
    <3>5. pc[w] = "request" => lines[w] = <<>>
      BY <3>1 DEF Reads
    <3> QED
      BY <1>0, <2>1, <3>2, <3>3, <3>4, <3>5, Zenon DEF Reads, Cut, Ended
  <2>5. ASSUME NEW v \in Workers, v # w, Handling(v)' PROVE Reads(v)'
    <3>1. Handling(v) /\ rio'[v] = rio[v] /\ line'[v] = line[v]
      BY <1>0, <2>1, <2>5 DEF Handling, ReadInv, Buffers
    <3>2. Reads(v)
      BY <3>1 DEF ReadInv
    <3> QED
      BY <1>0, <2>1, <2>5, <3>1, <3>2, StillReads, SMTT(30)
  <2> QED
    BY <1>1, <2>3, <2>4, <2>5 DEF ReadInv
<1> QED
  BY <1>4, <1>5

\* No more is read at once than the smaller of two numbers.
LEMMA MinOfTwo ==
  ASSUME NEW a \in Int, NEW b \in Int
  PROVE  Min({a, b}) =< a /\ Min({a, b}) =< b /\ Min({a, b}) \in Int
<1>1. \E x \in {a, b} : \A y \in {a, b} : x =< y
  OBVIOUS
<1> QED
  BY <1>1 DEF Min

\* read() takes bytes that have arrived and were not read before.
LEMMA RefillReads ==
  ASSUME IInv, ReadInv, NEW w \in Workers, Refill(w)
  PROVE  ReadInv'
<1> DEFINE c == fd[w]
<1>1. UNCHANGED <<text, sent, hung, line, lines, pc, fd, open>>
      /\ pc[w] \in {"request", "headers"} /\ rio[w] = <<>>
  BY DEF Refill, clientVars, workVars, Reading
<1>2. PICK n \in 1 .. Min({RIO_BUFSIZE, sent[c] - got[c]}) :
         /\ rio' = [rio EXCEPT ![w] = SubSeq(text[c], got[c] + 1, got[c] + n)]
         /\ got' = [got EXCEPT ![c] = @ + n]
  BY Zenon DEF Refill
<1>3. c \in Conns
  BY <1>1 DEF IInv, Own
<1>4. /\ text[c] \in Seq(Symbols) /\ sent[c] \in Nat /\ got[c] \in Nat
      /\ got[c] =< sent[c] /\ sent[c] =< Len(text[c]) /\ open[c] # "queued"
      /\ line[w] \in Seq(Symbols) /\ lines[w] \in Seq(Seq(Symbols)) /\ RIO_BUFSIZE \in Nat
  BY <1>1, <1>3, SizesAssumption, Zenon DEF ReadInv, Clients, Buffers, IInv, Own
<1>5. n \in Nat /\ n > 0 /\ got[c] + n =< sent[c]
  <2>1. sent[c] - got[c] \in Int /\ RIO_BUFSIZE \in Int
    BY <1>4
  <2>2. Min({RIO_BUFSIZE, sent[c] - got[c]}) =< sent[c] - got[c] /\ Min({RIO_BUFSIZE, sent[c] - got[c]}) \in Int
    BY <2>1, MinOfTwo, Zenon
  <2> HIDE DEF c
  <2> QED
    BY <1>4, <2>1, <2>2, SMTT(30)
<1>6. /\ rio'[w] = SubSeq(text[c], got[c] + 1, got[c] + n) /\ rio'[w] \in Seq(Symbols)
      /\ got'[c] = got[c] + n
      /\ SubSeq(text[c], 1, got[c]) \o rio'[w] = SubSeq(text[c], 1, got'[c])
      /\ SubSeq(text[c], 1, got[c]) \in Seq(Symbols)
  <2>1. rio'[w] = SubSeq(text[c], got[c] + 1, got[c] + n) /\ got'[c] = got[c] + n
    BY <1>2, <1>3, Zenon DEF ReadInv, Clients, Buffers
  <2>2. got[c] + n =< Len(text[c])
    BY <1>4, <1>5
  <2>3. /\ SubSeq(text[c], got[c] + 1, got[c] + n) \in Seq(Symbols) /\ SubSeq(text[c], 1, got[c]) \in Seq(Symbols)
        /\ Cat(SubSeq(text[c], 1, got[c]), SubSeq(text[c], got[c] + 1, got[c] + n)) = SubSeq(text[c], 1, got[c] + n)
    <3> HIDE DEF c
    <3> QED
      BY <1>4, <1>5, <2>2, NextSymbols, Zenon
  <2> QED
    BY <2>1, <2>3, Zenon DEF Cat
<1>7. Clients'
  <2>1. got' \in [Conns -> Nat] /\ \A d \in Conns : d # c => got'[d] = got[d]
    <3>1. got \in [Conns -> Nat] /\ got[c] + n \in Nat
      BY <1>4, <1>5 DEF ReadInv, Clients
    <3> HIDE DEF c
    <3> QED
      BY <1>2, <1>3, <3>1
  <2>2. ASSUME NEW d \in Conns
        PROVE  /\ got'[d] =< sent[d] /\ sent[d] =< Len(text[d]) /\ (hung[d] => sent[d] = Len(text[d]))
               /\ open[d] = "queued" => got'[d] = 0
    <3>1. /\ got[d] =< sent[d] /\ sent[d] =< Len(text[d]) /\ (hung[d] => sent[d] = Len(text[d]))
          /\ open[d] = "queued" => got[d] = 0
      BY Zenon DEF ReadInv, Clients
    <3>2. CASE d # c
      BY <2>1, <3>1, <3>2, Zenon
    <3>3. CASE d = c
      BY <1>4, <1>5, <1>6, <3>1, <3>3, Zenon
    <3> QED
      BY <3>2, <3>3, Zenon
  <2> QED
    BY <1>1, <2>1, <2>2, Zenon DEF ReadInv, Clients
<1>8. Buffers'
  BY <1>1, <1>2, <1>6, Zenon DEF ReadInv, Buffers
<1>9. ASSUME Handling(w)' PROVE Reads(w)'
  <2>1. Reads(w)
    BY <1>1, <1>9, SMTT(30) DEF ReadInv, Handling
  <2> DEFINE F == Joined(lines[w])
  <2>2. F \in Seq(Symbols)
    BY <1>4, JoinedType
  <2>3. (F \o line[w]) \o <<>> = SubSeq(text[c], 1, got[c])
    BY <1>1, <2>1, Zenon DEF Reads
  <2>4. F \o line[w] = SubSeq(text[c], 1, got[c])
    <3> HIDE DEF F
    <3>1. F \o line[w] \in Seq(Symbols)
      BY <1>4, <2>2
    <3> QED
      BY <2>3, <3>1, CatNothing, Zenon
  <2>5. F \o line[w] \o rio'[w] = SubSeq(text[c], 1, got'[c])
    BY <1>6, <2>4, Zenon
  <2>6. \A i \in 1 .. Len(lines[w]) : Cut(lines[w][i]) /\ Ended(lines[w][i])
    <3>1. ~AtEnd(w)
      BY <1>3, <1>4, <1>5, SMTT(30) DEF AtEnd, ReadInv, Clients
    <3> QED
      BY <2>1, <3>1 DEF Reads
  <2>7. /\ Len(line[w]) < MAXLINE - 1 /\ \A k \in 1 .. Len(line[w]) : line[w][k] # "nl"
        /\ pc[w] = "request" => lines[w] = <<>>
    BY <2>1 DEF Reads
  <2> QED
    BY <1>1, <2>5, <2>6, <2>7, SMTT(30) DEF Reads, Cut, Ended
<1>10. ASSUME NEW v \in Workers, v # w, Handling(v)' PROVE Reads(v)'
  <2>1. Handling(v) /\ rio'[v] = rio[v] /\ fd[v] # c /\ got'[fd[v]] = got[fd[v]]
    <3>1. Handling(v) /\ rio'[v] = rio[v]
      BY <1>1, <1>2, <1>10 DEF Handling, ReadInv, Buffers
    <3>2. fd[v] # c /\ fd[v] \in Conns
      BY <1>1, <1>10, <3>1 DEF Handling, IInv, Own
    <3> QED
      BY <1>2, <3>1, <3>2 DEF ReadInv, Clients
  <2>2. Reads(v)
    BY <2>1 DEF ReadInv
  <2> QED
    BY <1>1, <1>10, <2>1, <2>2, StillReads, Zenon
<1> QED
  BY <1>7, <1>8, <1>9, <1>10 DEF ReadInv

\* A client that hangs up after a text that is not empty has sent part of a request line.
LEMMA SomeRequest ==
  ASSUME IInv, ReadInv, NEW w \in Workers, Handling(w), pc[w] = "request", rio[w] = <<>>,
         got[fd[w]] = Len(text[fd[w]])
  PROVE  line[w] # <<>>
<1> SUFFICES ASSUME line[w] = <<>> PROVE FALSE
  OBVIOUS
<1>1. fd[w] \in Conns /\ text[fd[w]] # <<>>
  BY DEF IInv, Own, Handling
<1>2. text[fd[w]] \in Seq(Symbols)
  BY <1>1 DEF ReadInv, Clients
<1>3. Joined(lines[w]) \o <<>> \o <<>> = SubSeq(text[fd[w]], 1, Len(text[fd[w]])) /\ lines[w] = <<>>
  BY Zenon DEF ReadInv, Reads
<1>4. SubSeq(text[fd[w]], 1, Len(text[fd[w]])) = text[fd[w]]
  BY <1>2, WholeSequence
<1>5. Joined(lines[w]) = <<>>
  BY <1>3, JoinedNothing
<1>6. <<>> \o <<>> \o <<>> = <<>>
  OBVIOUS
<1> QED
  BY <1>1, <1>3, <1>4, <1>5, <1>6, Zenon

\* At the end of the file a line that was begun is returned as it is.
LEMMA EndOfFileReads ==
  ASSUME IInv, ReadInv, NEW w \in Workers, EndOfFile(w)
  PROVE  ReadInv'
<1> DEFINE c == fd[w]
           l == line[w]
<1>1. UNCHANGED <<text, sent, hung, got, rio, fd, open>> /\ rio[w] = <<>>
      /\ pc[w] \in {"request", "headers"} /\ hung[c] /\ got[c] = Len(text[c])
  BY DEF EndOfFile, clientVars, Reading
<1>2. c \in Conns
  BY <1>1, SMTT(30) DEF IInv, Own
<1>3. Clients'
  BY <1>1 DEF ReadInv, Clients
<1>4. l \in Seq(Symbols) /\ lines[w] \in Seq(Seq(Symbols)) /\ rio[w] \in Seq(Symbols)
      /\ lines \in [Workers -> Seq(Seq(Symbols))] /\ line \in [Workers -> Seq(Symbols)]
  BY DEF ReadInv, Buffers
<1>5. CASE l # <<>> /\ GetsLine(w, l)
  <2>2. /\ line' = [line EXCEPT ![w] = <<>>] /\ lines' = [lines EXCEPT ![w] = Append(lines[w], l)]
        /\ pc'[w] \in {"headers", "write", "stat"} /\ line'[w] = <<>>
        /\ lines'[w] = Append(lines[w], l)
        /\ \A v \in Workers : v # w => pc'[v] = pc[v] /\ lines'[v] = lines[v] /\ line'[v] = line[v]
    <3> HIDE DEF l
    <3> QED
      BY <1>4, <1>5, GetsLineShape, Zenon
  <2>3. Buffers'
    BY <1>1, <1>4, <2>2 DEF ReadInv, Buffers
  <2>4. ASSUME Handling(w)' PROVE Reads(w)'
    <3>1. Reads(w)
      BY <1>1, <2>4 DEF ReadInv, Handling
    <3>2. AtEnd(w)'
      BY <1>1, <2>2 DEF AtEnd
    <3>3. Joined(lines[w]) \o l \o rio'[w] = SubSeq(text[c], 1, got[c])
      BY <1>1, <3>1, Zenon DEF Reads
    <3>4. Cut(l)
      <4>1. Len(line[w]) < MAXLINE - 1 /\ \A k \in 1 .. Len(line[w]) : line[w][k] # "nl"
        BY <3>1 DEF Reads
      <4>2. \A k \in 1 .. Len(line[w]) - 1 : line[w][k] # "nl"
        BY <1>4, <4>1
      <4> QED
        BY <1>4, <1>5, <4>1, <4>2, SizesAssumption DEF Cut
    <3>5. \A i \in 1 .. Len(lines[w]) : Cut(lines[w][i]) /\ Ended(lines[w][i])
      BY <1>5, <3>1 DEF Reads, AtEnd
    <3> HIDE DEF l
    <3> QED
      BY <1>1, <1>2, <1>4, <2>2, <3>2, <3>3, <3>4, <3>5, LineReads, Zenon DEF ReadInv
  <2>5. ASSUME NEW v \in Workers, v # w, Handling(v)' PROVE Reads(v)'
    <3>1. Handling(v)
      BY <1>1, <2>2, <2>5 DEF Handling
    <3>2. Reads(v)
      BY <3>1 DEF ReadInv
    <3> QED
      BY <1>1, <2>2, <2>5, <3>2, StillReads, SMTT(30)
  <2> QED
    BY <1>3, <2>3, <2>4, <2>5 DEF ReadInv
<1>6. ASSUME NEW u \in DOMAIN Uri \cup {"post"}, line[w] = <<>>, pc[w] = "request", GetsLine(w, <<u>>)
      PROVE  ReadInv'
  <2>1. <<u>> \in Seq(Symbols)
    BY DEF Symbols
  <2>2. /\ line' = [line EXCEPT ![w] = <<>>] /\ lines' = [lines EXCEPT ![w] = Append(lines[w], <<u>>)]
        /\ pc'[w] \in {"headers", "write", "stat"} /\ line'[w] = <<>>
        /\ \A v \in Workers : v # w => pc'[v] = pc[v] /\ lines'[v] = lines[v] /\ line'[v] = line[v]
    BY <1>4, <1>6, GetsLineShape
  <2>3. Buffers'
    BY <1>1, <1>4, <2>1, <2>2 DEF ReadInv, Buffers
  <2>4. ~Handling(w)'
    BY <1>1, <1>6, <2>2, SomeRequest, SMTT(30) DEF Handling
  <2>5. ASSUME NEW v \in Workers, v # w, Handling(v)' PROVE Reads(v)'
    <3>1. Handling(v)
      BY <1>1, <2>2, <2>5 DEF Handling
    <3>2. Reads(v)
      BY <3>1 DEF ReadInv
    <3> QED
      BY <1>1, <2>2, <2>5, <3>2, StillReads, SMTT(30)
  <2> QED
    BY <1>3, <2>3, <2>4, <2>5 DEF ReadInv
<1>7. CASE Goto(w, "headers", "spin") /\ UNCHANGED <<line, lines>>
  <2>1. Buffers'
    BY <1>1, <1>7 DEF ReadInv, Buffers
  <2>2. \A v \in Workers : (pc'[v] = "request" => pc[v] = "request") /\ (pc'[v] # "idle" => pc[v] # "idle")
    BY <1>7, SMTT(30) DEF Goto, IInv, Typed
  <2>3. ASSUME NEW v \in Workers, Handling(v)' PROVE Reads(v)'
    <3>1. Handling(v)
      BY <1>1, <2>2, <2>3 DEF Handling
    <3>2. Reads(v)
      BY <3>1 DEF ReadInv
    <3> QED
      BY <1>1, <1>7, <2>2, <3>2, StillReads
  <2> QED
    BY <1>3, <2>1, <2>3 DEF ReadInv
<1> QED
  BY <1>5, <1>6, <1>7, Zenon DEF EndOfFile

\* requestHandle() starts with an empty reader on a connection that was not read.
LEMMA HandleReads ==
  ASSUME IInv, ReadInv, NEW w \in Workers, NEW c \in Conns, requestHandle(w, c)
  PROVE  ReadInv'
<1>1. /\ UNCHANGED <<text, sent, hung, got>> /\ open[c] = "queued" /\ fd' = [fd EXCEPT ![w] = c]
      /\ open' = [open EXCEPT ![c] = "open"] /\ pc' = [pc EXCEPT ![w] = "request"]
      /\ rio' = [rio EXCEPT ![w] = <<>>] /\ line' = [line EXCEPT ![w] = <<>>]
      /\ lines' = [lines EXCEPT ![w] = <<>>]
  BY DEF requestHandle, Goto, clientVars
<1>2. Clients' /\ got[c] = 0
  BY <1>1 DEF ReadInv, Clients, IInv, Typed
<1>3. Buffers'
  BY <1>1 DEF ReadInv, Buffers
<1>4. fd'[w] = c /\ rio'[w] = <<>> /\ line'[w] = <<>> /\ lines'[w] = <<>>
      /\ \A v \in Workers : v # w => /\ pc'[v] = pc[v] /\ fd'[v] = fd[v] /\ rio'[v] = rio[v]
                                     /\ line'[v] = line[v] /\ lines'[v] = lines[v]
  BY <1>1, SMTT(30) DEF IInv, Typed, ReadInv, Buffers
<1>5. Reads(w)'
  <2>1. Joined(<<>>) \o <<>> \o <<>> = <<>>
    <3>1. Joined(<<>>) = <<>>
      BY JoinedNothing
    <3>2. <<>> \o <<>> \o <<>> = <<>>
      OBVIOUS
    <3> QED
      BY <3>1, <3>2, Zenon
  <2>2. SubSeq(text[c], 1, 0) = <<>>
    OBVIOUS
  <2>3. Joined(lines'[w]) \o line'[w] \o rio'[w] = SubSeq(text'[fd'[w]], 1, got'[fd'[w]])
    BY <1>1, <1>2, <1>4, <2>1, <2>2, Zenon
  <2>4. Len(line'[w]) = 0 /\ Len(lines'[w]) = 0
    BY <1>4
  <2> QED
    BY <1>4, <2>3, <2>4, SizesAssumption DEF Reads
<1>6. ASSUME NEW v \in Workers, v # w, Handling(v)' PROVE Reads(v)'
  <2>1. Handling(v)
    BY <1>1, <1>4, <1>6 DEF Handling
  <2>2. Reads(v)
    BY <2>1, SMTT(30) DEF ReadInv
  <2> QED
    BY <1>1, <1>4, <1>6, <2>2, StillReads, Zenon
<1> QED
  BY <1>2, <1>3, <1>5, <1>6 DEF ReadInv

\* The steps that do not read keep what was read.
LEMMA OtherReads ==
  ASSUME ReadInv, Clients', UNCHANGED <<text, got, rio, line, lines, fd>>,
         \A v \in Workers : (pc'[v] = "request" => pc[v] = "request") /\ (pc'[v] # "idle" => pc[v] # "idle"),
         \A v \in Workers : hung[fd[v]] => hung'[fd[v]]
  PROVE  ReadInv'
<1>1. Buffers'
  BY DEF ReadInv, Buffers
<1>2. ASSUME NEW v \in Workers, Handling(v)' PROVE Reads(v)'
  <2>1. Handling(v)
    BY <1>2 DEF Handling
  <2>2. Reads(v)
    BY <2>1 DEF ReadInv
  <2> QED
    BY <2>2, StillReads
<1> QED
  BY <1>1, <1>2 DEF ReadInv

\* Every step of a worker keeps the invariant of the reader.
LEMMA WorkerReads ==
  ASSUME IInv, ReadInv, NEW w \in Workers, Worker(w)
  PROVE  ReadInv'
<1>1. CASE Stat(w) \/ requestServeStatic(w) \/ Written(w) \/ Fork(w) \/ Wait(w) \/ Close(w)
  <2>1. UNCHANGED <<text, sent, hung, got, rio, line, lines, fd>>
        /\ (open' = open \/ open' = [open EXCEPT ![fd[w]] = "closed"])
    BY <1>1 DEF Stat, requestServeStatic, Written, Fork, Wait, Close, clientVars, readVars
  <2>2. \E q \in {"write", "open", "fork", "done", "wait", "idle"} : pc[w] # "idle" /\ pc' = [pc EXCEPT ![w] = q]
    BY <1>1, Zenon DEF Stat, requestServeStatic, Written, Fork, Wait, Close, Goto
  <2>3. Clients'
    BY <2>1 DEF ReadInv, Clients, IInv, Typed
  <2>4. \A v \in Workers : (pc'[v] = "request" => pc[v] = "request") /\ (pc'[v] # "idle" => pc[v] # "idle")
    BY <2>2 DEF IInv, Typed
  <2> QED
    BY <2>1, <2>3, <2>4, OtherReads, SMTT(30)
<1>2. CASE EmptyFile(w) \/ Rio_writen(w)
  <2>1. UNCHANGED <<text, sent, hung, got, rio, line, lines, fd, pc, open>>
    BY <1>2 DEF EmptyFile, Fails, Rio_writen, clientVars, readVars, workVars
  <2>2. Clients'
    BY <2>1 DEF ReadInv, Clients
  <2> QED
    BY <2>1, <2>2, OtherReads
<1> QED
  BY <1>1, <1>2, TakeByteReads, RefillReads, EndOfFileReads DEF Worker

\* The invariant of the reader is inductive, given the one on control.
LEMMA ReadInductive == IInv /\ ReadInv /\ [Next]_vars => ReadInv'
<1> SUFFICES ASSUME IInv, ReadInv, [Next]_vars PROVE ReadInv'
  OBVIOUS
<1>1. CASE UNCHANGED vars
  <2>1. UNCHANGED <<text, sent, hung, got, rio, line, lines, fd, pc, open>>
    BY <1>1 DEF vars, clientVars, readVars, workVars
  <2>2. Clients'
    BY <2>1 DEF ReadInv, Clients
  <2> QED
    BY <2>1, <2>2, OtherReads
<1>2. ASSUME NEW c \in Conns, Send(c) \/ HangUp(c) \/ CgiRuns(c) PROVE ReadInv'
  <2>1. UNCHANGED <<text, got, rio, line, lines, fd, pc, open>>
    BY <1>2 DEF Send, HangUp, CgiRuns, clientVars, readVars, workVars
  <2>2. Clients'
    <3>1. CASE Send(c)
      <4>1. sent[c] < Len(text[c]) /\ sent' = [sent EXCEPT ![c] = @ + 1] /\ hung' = hung
        BY <3>1 DEF Send
      <4>2. ~hung[c]
        BY <4>1 DEF ReadInv, Clients
      <4> QED
        BY <2>1, <4>1, <4>2 DEF ReadInv, Clients
    <3>2. CASE HangUp(c)
      BY <2>1, <3>2 DEF HangUp, ReadInv, Clients
    <3>3. CASE CgiRuns(c)
      BY <2>1, <3>3 DEF CgiRuns, clientVars, ReadInv, Clients
    <3> QED
      BY <1>2, <3>1, <3>2, <3>3
  <2>3. \A d \in Conns : hung[d] => hung'[d]
    BY <1>2, Zenon DEF Send, HangUp, CgiRuns, clientVars, ReadInv, Clients
  <2>4. ASSUME NEW v \in Workers, Handling(v)' PROVE Reads(v)'
    <3>1. Handling(v) /\ fd[v] \in Conns
      BY <2>1, <2>4 DEF Handling, IInv, Own
    <3>2. Reads(v)
      BY <3>1 DEF ReadInv
    <3> QED
      BY <2>1, <2>3, <3>1, <3>2, StillReads, Zenon
  <2>5. Buffers'
    BY <2>1 DEF ReadInv, Buffers
  <2> QED
    BY <2>2, <2>4, <2>5 DEF ReadInv
<1>3. ASSUME NEW w \in Workers, Fails(w) PROVE ReadInv'
  <2>1. UNCHANGED <<text, sent, hung, got, rio, line, lines, fd, pc, open>>
    BY <1>3 DEF Fails, clientVars, readVars, workVars
  <2>2. Clients'
    BY <2>1 DEF ReadInv, Clients
  <2> QED
    BY <2>1, <2>2, OtherReads
<1> QED
  BY <1>1, <1>2, <1>3, WorkerReads, HandleReads DEF Next

\* Nothing is read at first.
LEMMA ReadInit == Init => ReadInv
<1> SUFFICES ASSUME Init PROVE ReadInv
  OBVIOUS
<1>1. text \in [Conns -> Seq(Symbols)]
  <2>1. \A c \in Conns : text[c] \in Texts[c]
    BY DEF Init
  <2>2. \A c \in Conns : text[c] \in Seq(Symbols)
    BY <2>1, TextsAssumption, SMTT(30)
  <2>3. text = [c \in Conns |-> text[c]]
    BY DEF Init
  <2> QED
    BY <2>2, <2>3, Zenon
<1>2. Clients
  BY <1>1 DEF Init, Clients
<1>3. Buffers
  BY DEF Init, Buffers
<1>4. \A w \in Workers : ~Handling(w)
  BY DEF Init, Handling
<1> QED
  BY <1>2, <1>3, <1>4 DEF ReadInv

\* The server is up or has exited.
LEMMA ProcStep ==
  ASSUME proc \in {"up", "exited"}, [Next]_vars
  PROVE  proc' \in {"up", "exited"}
<1>1. CASE UNCHANGED vars
  BY <1>1 DEF vars
<1>2. ASSUME NEW c \in Conns, Send(c) \/ HangUp(c) \/ CgiRuns(c) PROVE proc' \in {"up", "exited"}
  BY <1>2 DEF Send, HangUp, CgiRuns
<1>3. ASSUME NEW w \in Workers, Worker(w) \/ Fails(w) PROVE proc' \in {"up", "exited"}
  <2>1. CASE TakeByte(w) \/ Refill(w) \/ EndOfFile(w)
    BY <2>1, Zenon DEF TakeByte, Refill, EndOfFile
  <2>2. CASE Stat(w) \/ requestServeStatic(w) \/ Rio_writen(w) \/ Written(w)
    BY <2>2, Zenon DEF Stat, requestServeStatic, Rio_writen, Written
  <2>3. CASE Fork(w) \/ Wait(w) \/ Close(w) \/ Fails(w) \/ EmptyFile(w)
    BY <2>3, Zenon DEF Fork, Wait, Close, Fails, EmptyFile
  <2> QED
    BY <1>3, <2>1, <2>2, <2>3 DEF Worker
<1>4. ASSUME NEW w \in Workers, NEW c \in Conns, requestHandle(w, c) PROVE proc' \in {"up", "exited"}
  BY <1>4 DEF requestHandle
<1> QED
  BY <1>1, <1>2, <1>3, <1>4 DEF Next

\* What the lines, the line begun and the buffer hold is what the property says.
LEMMA ReadsFaithful ==
  ASSUME IInv, ReadInv, proc \in {"up", "exited"}
  PROVE  LinesFaithful
<1>1. TypeOK
  BY DEF TypeOK, IInv, Typed, Early, ReadInv, Clients
<1>2. ASSUME NEW w \in Workers, Handling(w)
      PROVE  /\ Joined(lines[w]) \o line[w] \o rio[w] = SubSeq(text[fd[w]], 1, got[fd[w]])
             /\ \A i \in DOMAIN lines[w] : LET l == lines[w][i] IN
                   /\ Len(l) < MAXLINE /\ \A k \in 1 .. Len(l) - 1 : l[k] # "nl"
                   /\ l[Len(l)] = "nl" \/ Len(l) = MAXLINE - 1 \/ (hung[fd[w]] /\ i = Len(lines[w]))
  <2>1. Reads(w)
    BY <1>2 DEF ReadInv
  <2>2. Joined(lines[w]) \o line[w] \o rio[w] = SubSeq(text[fd[w]], 1, got[fd[w]])
    BY <2>1 DEF Reads
  <2>3. ASSUME NEW i \in DOMAIN lines[w]
        PROVE  LET l == lines[w][i] IN
                 /\ Len(l) < MAXLINE /\ \A k \in 1 .. Len(l) - 1 : l[k] # "nl"
                 /\ l[Len(l)] = "nl" \/ Len(l) = MAXLINE - 1 \/ (hung[fd[w]] /\ i = Len(lines[w]))
    <3>1. i \in 1 .. Len(lines[w])
      BY DEF ReadInv, Buffers
    <3>2. Cut(lines[w][i]) /\ (Ended(lines[w][i]) \/ (i = Len(lines[w]) /\ AtEnd(w)))
      BY <2>1, <3>1 DEF Reads
    <3> QED
      BY <3>2 DEF Cut, Ended, AtEnd
  <2> QED
    BY <2>2, <2>3
<1> QED
  BY <1>1, <1>2, Zenon DEF LinesFaithful

\* Whatever the sizes of the buffers and of the pieces in which bytes arrive, the lines
\* that rio_readlineb returned, the line it is assembling and its buffer are what was read.
THEOREM LinesFaithfulHolds == Spec => []LinesFaithful
<1> DEFINE Inv == IInv /\ ReadInv /\ proc \in {"up", "exited"}
<1>1. Init => Inv
  BY InitControl, ReadInit DEF Init
<1>2. Inv /\ [Next]_vars => Inv'
  BY Inductive, ReadInductive, ProcStep
<1>3. Inv => LinesFaithful
  BY ReadsFaithful
<1> QED
  BY <1>1, <1>2, <1>3, PTL DEF Spec
=============================================================================
