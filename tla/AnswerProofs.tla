---------------------------- MODULE AnswerProofs ----------------------------
(***************************************************************************)
(* What the clients of the server get, for the same instances.             *)
(*                                                                         *)
(* To IInv and ReadInv come two layers, each kept by every step:           *)
(*   WriteInv   what was written and what is about to be are together the  *)
(*              server's part, and a child comes after all of it;          *)
(*   HeaderInv  where requestReadhdrs() is in the text, and that it has    *)
(*              seen the empty line when it returns.                       *)
(***************************************************************************)
EXTENDS RequestProofs

(* What was written. *)

Kinds == {"status", "type", "length", "body", "header", "file", "cgi", "log"}
Part == (Nat \X Kinds) \X Nat

\* What the server itself writes in answer to u.
First(u) == IF Answer(u) # 200 THEN requestError(Answer(u))
            ELSE IF requestParseURI(u).static THEN ServerPart("static") ELSE ServerPart("dynamic")

\* What a worker at p, with request r and the parts x to write, has done for a
\* client whose text begins with u, that has got o, and whose child is ch.
Served(p, r, u, o, x, ch) ==
  /\ p # "request" => r = u
  /\ p \in {"headers", "spin", "stat", "open"} => u # "post"
  /\ p \in {"request", "headers", "spin", "stat", "open"} => o = <<>>
  /\ p = "open" => Answer(u) = 200 /\ requestParseURI(u).static
  /\ p = "write" => Cat(o, x) = First(u)
  /\ p = "fork" => Dynamic(u) /\ o = First(u)
  /\ p \in {"wait", "done"} => IF Dynamic(u) THEN ch # "none" ELSE o = First(u)

Serves(w) == Served(pc[w], req[w], text[fd[w]][1], out[fd[w]], resp[w], child[fd[w]])

\* What has become of connection c.
Answered(c) ==
  LET u == text[c][1] IN
  /\ open[c] = "queued" => out[c] = <<>>
  /\ open[c] = "closed" => IF Dynamic(u) THEN child[c] # "none" ELSE out[c] = First(u)
  /\ child[c] # "none" => Dynamic(u)
  /\ child[c] \in {"none", "running"} => c \notin unrun
  /\ child[c] = "running" => out[c] = First(u) /\ c \in holds[c]
  /\ child[c] \in {"zombie", "reaped"} /\ c \notin unrun => out[c] = Cat(First(u), CgiPart)
  /\ StdoutTty \/ c \notin unrun => IsPrefix(out[c], Expected(c))

WriteInv ==
  /\ out \in [Conns -> Seq(Part)] /\ resp \in [Workers -> Seq(Part)]
  /\ req \in [Workers -> Symbols \cup {"none"}] /\ holds \in [Conns -> SUBSET Conns]
  /\ \A w \in Workers : Handling(w) => Serves(w)
  /\ \A c \in Conns : text[c] # <<>> => Answered(c)

\* What one Rio_writen writes is a sequence of parts.
LEMMA PartsType ==
  ASSUME NEW what \in Nat \X Kinds
  PROVE  Parts(what) \in Seq(Part)
<1>1. PieceSize \in Nat
  BY SizesAssumption
<1>2. \A k \in 1 .. PieceSize : <<what, k>> \in Part
  BY <1>1 DEF Part
<1> QED
  BY <1>1, <1>2 DEF Parts

\* Concatenating sequences of parts makes a sequence of parts.
LEMMA CatType ==
  ASSUME NEW T, NEW A \in Seq(T), NEW B \in Seq(T)
  PROVE  Cat(A, B) \in Seq(T)
  BY DEF Cat

\* The parts of a 4xx or 5xx answer.
LEMMA ErrorType ==
  ASSUME NEW a \in Nat
  PROVE  requestError(a) \in Seq(Part)
<1> DEFINE s == <<a, "status">>
           t == <<a, "type">>
           n == <<a, "length">>
           b == <<a, "body">>
<1>1. s \in Nat \X Kinds /\ t \in Nat \X Kinds /\ n \in Nat \X Kinds /\ b \in Nat \X Kinds
  BY DEF Kinds
<1>2. requestError(a) = Cat(Cat(Cat(Parts(s), Parts(t)), Parts(n)), Parts(b))
  BY Zenon DEF requestError, Cat
<1> HIDE DEF s, t, n, b
<1>3. Parts(s) \in Seq(Part) /\ Parts(t) \in Seq(Part) /\ Parts(n) \in Seq(Part) /\ Parts(b) \in Seq(Part)
  BY <1>1, PartsType
<1>4. Cat(Parts(s), Parts(t)) \in Seq(Part)
  BY <1>3, CatType
<1>5. Cat(Cat(Parts(s), Parts(t)), Parts(n)) \in Seq(Part)
  BY <1>3, <1>4, CatType
<1> QED
  BY <1>2, <1>3, <1>5, CatType

\* The parts of a 200 answer, of a CGI program's output and of a log line.
LEMMA ServerPartType ==
  ServerPart("static") \in Seq(Part) /\ ServerPart("dynamic") \in Seq(Part)
  /\ CgiPart \in Seq(Part) /\ Parts(<<0, "log">>) \in Seq(Part)
<1> DEFINE h == <<200, "header">>
           f == <<200, "file">>
           g == <<200, "cgi">>
           l == <<0, "log">>
<1>1. h \in Nat \X Kinds /\ f \in Nat \X Kinds /\ g \in Nat \X Kinds /\ l \in Nat \X Kinds
  BY DEF Kinds
<1>2. ServerPart("static") = Cat(Parts(h), Parts(f)) /\ ServerPart("dynamic") = Parts(h)
      /\ CgiPart = Parts(g)
  BY DEF ServerPart, Cat, CgiPart
<1>3. Parts(h) \in Seq(Part) /\ Parts(f) \in Seq(Part) /\ Parts(g) \in Seq(Part) /\ Parts(l) \in Seq(Part)
  <2> HIDE DEF h, f, g, l
  <2> QED
    BY <1>1, PartsType
<1>4. Cat(Parts(h), Parts(f)) \in Seq(Part)
  <2> HIDE DEF h, f
  <2> QED
    BY <1>3, CatType
<1> QED
  BY <1>2, <1>3, <1>4, Zenon

\* Every answer is a number, and that to a method other than GET is 501.
LEMMA AnswerType ==
  ASSUME NEW u
  PROVE  Answer(u) \in Nat /\ (u = "post" => Answer(u) = 501)
  BY DEF Answer

\* What the server itself writes is a sequence of parts.
LEMMA FirstType ==
  ASSUME NEW u
  PROVE  First(u) \in Seq(Part)
  BY AnswerType, ErrorType, ServerPartType DEF First

\* What the client should receive is what the server writes, and what its program writes.
LEMMA ExpectedIs ==
  ASSUME NEW c \in Conns
  PROVE  Expected(c) = IF Dynamic(text[c][1]) THEN Cat(First(text[c][1]), CgiPart) ELSE First(text[c][1])
  BY AnswerType DEF Expected, Dynamic, First, Cat

\* What comes first in a concatenation is a prefix of it.
LEMMA PrefixOfCat ==
  ASSUME NEW T, NEW A \in Seq(T), NEW B \in Seq(T)
  PROVE  IsPrefix(A, Cat(A, B)) /\ IsPrefix(<<>>, A) /\ IsPrefix(A, A)
<1>1. Cat(A, B) \in Seq(T) /\ Len(Cat(A, B)) = Len(A) + Len(B)
      /\ \A i \in 1 .. Len(A) : Cat(A, B)[i] = A[i]
  BY DEF Cat
<1>2. SubSeq(Cat(A, B), 1, Len(A)) = SubSeq(A, 1, Len(A))
  BY <1>1
<1>3. Len(A) \in Nat /\ Len(B) \in Nat
  OBVIOUS
<1>4. IsPrefix(A, Cat(A, B))
  BY <1>1, <1>2, <1>3 DEF IsPrefix
<1>5. SubSeq(<<>>, 1, 0) = <<>> /\ SubSeq(A, 1, 0) = <<>> /\ Len(<<>>) = 0
  OBVIOUS
<1> QED
  BY <1>3, <1>4, <1>5 DEF IsPrefix

-----------------------------------------------------------------------------
(* The writers. *)

\* A worker that does not move has done what it had done, if nothing was written on its connection.
LEMMA StillServes ==
  ASSUME NEW v \in Workers, Serves(v), text' = text, fd'[v] = fd[v], pc'[v] = pc[v], req'[v] = req[v],
         resp'[v] = resp[v], out'[fd[v]] = out[fd[v]],
         child[fd[v]] # "none" => child'[fd[v]] # "none"
  PROVE  Serves(v)'
<1>1. text'[fd'[v]][1] = text[fd[v]][1] /\ out'[fd'[v]] = out[fd[v]] /\ child'[fd'[v]] = child'[fd[v]]
  BY Zenon
<1>2. ASSUME NEW p, NEW r, NEW u, NEW o, NEW x, NEW ch, NEW ch2,
             Served(p, r, u, o, x, ch), ch # "none" => ch2 # "none"
      PROVE  Served(p, r, u, o, x, ch2)
  BY <1>2, Zenon DEF Served
<1>3. Served(pc[v], req[v], text[fd[v]][1], out[fd[v]], resp[v], child'[fd[v]])
  BY <1>2, Zenon DEF Serves
<1> QED
  BY <1>1, <1>3, Zenon DEF Serves

\* Nothing becomes of a connection that is left alone.
LEMMA StillAnswered ==
  ASSUME NEW c \in Conns, Answered(c), text' = text, open'[c] = open[c], out'[c] = out[c],
         child'[c] = child[c], holds'[c] = holds[c], c \in unrun' <=> c \in unrun
  PROVE  Answered(c)'
<1>1. Expected(c)' = Expected(c)
  BY Zenon DEF Expected
<1> QED
  BY <1>1, Zenon DEF Answered, Cat

\* A worker that only moves on, on its own connection, leaves the rest alone.
LEMMA WorkerServes ==
  ASSUME IInv, WriteInv, NEW w \in Workers, pc[w] # "idle",
         UNCHANGED <<text, fd, open, out, child, holds, unrun>>,
         req' \in [Workers -> Symbols \cup {"none"}], resp' \in [Workers -> Seq(Part)],
         \A v \in Workers : v # w => pc'[v] = pc[v] /\ req'[v] = req[v] /\ resp'[v] = resp[v],
         Handling(w)' => Serves(w)'
  PROVE  WriteInv'
<1>1. ASSUME NEW v \in Workers, v # w, Handling(v)' PROVE Serves(v)'
  <2>1. Handling(v)
    BY <1>1, Zenon DEF Handling
  <2>2. Serves(v)
    BY <2>1, Zenon DEF WriteInv
  <2> QED
    BY <1>1, <2>2, StillServes, Zenon
<1>2. ASSUME NEW c \in Conns, text'[c] # <<>> PROVE Answered(c)'
  <2>1. Answered(c)
    BY <1>2, Zenon DEF WriteInv
  <2> QED
    BY <2>1, StillAnswered, Zenon
<1> QED
  BY <1>1, <1>2, Zenon DEF WriteInv

\* The first n symbols of t are line l and what comes after it.
OneLine(l, r, t, n) == Row(<<>>, l, r) = SubSeq(t, 1, n)

\* The first line that is read begins with the first symbol of the text.
LEMMA FirstSymbol ==
  ASSUME NEW t \in Seq(Symbols), NEW n \in Nat, n =< Len(t), NEW l \in Seq(Symbols), l # <<>>,
         NEW r \in Seq(Symbols), OneLine(l, r, t, n)
  PROVE  l[1] = t[1]
<1>1. Len(l) \in Nat /\ Len(l) # 0 /\ Len(r) \in Nat
  OBVIOUS
<1>2. <<>> \o l = l
  BY CatNothing
<1>3. Len(l \o r) = Len(l) + Len(r) /\ (l \o r)[1] = l[1]
  BY <1>1
<1>4. Len(SubSeq(t, 1, n)) = n
  OBVIOUS
<1>5. l \o r = SubSeq(t, 1, n) /\ n > 0
  BY <1>1, <1>2, <1>3, <1>4 DEF Row, OneLine
<1>6. SubSeq(t, 1, n)[1] = t[1]
  BY <1>5
<1> QED
  BY <1>3, <1>5, <1>6

\* requestHandle() has read the request line, or a header line.
LEMMA LineServes ==
  ASSUME IInv, ReadInv, WriteInv, NEW w \in Workers, NEW l \in Seq(Symbols), l # <<>>, GetsLine(w, l),
         UNCHANGED <<text, fd, open, out, child, holds, unrun>>,
         Handling(w) /\ pc[w] = "request" => l[1] = text[fd[w]][1]
  PROVE  WriteInv'
<1>1. l[1] \in Symbols
  OBVIOUS
<1>2. requestError(501) \in Seq(Part)
  BY ErrorType, SMTT(30)
<1>3. fd[w] \in Conns /\ pc[w] \in {"request", "headers"}
  BY SMTT(30) DEF GetsLine, IInv, Own
<1>4. out[fd[w]] \in Seq(Part)
  BY <1>3 DEF WriteInv
<1>5. CASE pc[w] = "request" /\ l[1] = "post"
  <2>1. pc' = [pc EXCEPT ![w] = "write"] /\ resp' = [resp EXCEPT ![w] = requestError(501)]
        /\ req' = [req EXCEPT ![w] = l[1]]
    BY <1>5, Zenon DEF GetsLine
  <2>2. /\ pc'[w] = "write" /\ resp'[w] = requestError(501) /\ req'[w] = l[1]
        /\ \A v \in Workers : v # w => pc'[v] = pc[v] /\ req'[v] = req[v] /\ resp'[v] = resp[v]
    BY <2>1, SMTT(30) DEF IInv, Typed, WriteInv
  <2>3. ASSUME Handling(w)' PROVE Serves(w)'
    <3>1. Handling(w) /\ Serves(w) /\ text[fd[w]][1] = "post"
      BY <1>5, <2>3, Zenon DEF Handling, WriteInv
    <3>2. out[fd[w]] = <<>>
      BY <1>5, <3>1, Zenon DEF Serves, Served
    <3>3. First("post") = requestError(501)
      <4>1. Answer("post") = 501
        BY AnswerType, Zenon
      <4>2. Answer("post") # 200
        BY <4>1
      <4>3. First("post") = requestError(Answer("post"))
        BY <4>2, Zenon DEF First
      <4> QED
        BY <4>1, <4>3, Zenon
    <3>4. Cat(<<>>, requestError(501)) = requestError(501)
      BY <1>2, CatNothing DEF Cat
    <3>5. ASSUME NEW x, NEW ch, Cat(<<>>, x) = First("post") PROVE Served("write", "post", "post", <<>>, x, ch)
      BY <3>5, Zenon DEF Served
    <3>6. Served(pc'[w], req'[w], text[fd[w]][1], out[fd[w]], resp'[w], child[fd[w]])
      <4>1. Served("write", "post", "post", <<>>, requestError(501), child[fd[w]])
        BY <3>3, <3>4, <3>5, Zenon
      <4>2. req'[w] = "post"
        BY <1>5, <2>2, Zenon
      <4> QED
        BY <2>2, <3>1, <3>2, <4>1, <4>2, Zenon
    <3> QED
      BY <3>6, Zenon DEF Serves
  <2> QED
    BY <1>1, <1>2, <1>5, <2>1, <2>2, <2>3, WorkerServes, Zenon DEF WriteInv
<1>6. CASE pc[w] = "request" /\ l[1] # "post"
  <2>1. pc' = [pc EXCEPT ![w] = "headers"] /\ resp' = resp /\ req' = [req EXCEPT ![w] = l[1]]
    BY <1>6, Zenon DEF GetsLine
  <2>2. /\ pc'[w] = "headers" /\ req'[w] = l[1]
        /\ \A v \in Workers : v # w => pc'[v] = pc[v] /\ req'[v] = req[v] /\ resp'[v] = resp[v]
    BY <2>1 DEF IInv, Typed, WriteInv
  <2>3. ASSUME Handling(w)' PROVE Serves(w)'
    <3>1. Handling(w) /\ Serves(w) /\ text[fd[w]][1] = l[1]
      BY <1>6, <2>3, Zenon DEF Handling, WriteInv
    <3>2. out[fd[w]] = <<>>
      BY <1>6, <3>1, Zenon DEF Serves, Served
    <3> QED
      BY <1>6, <2>2, <3>1, <3>2, Zenon DEF Serves, Served
  <2> QED
    BY <1>1, <1>6, <2>1, <2>2, <2>3, WorkerServes, Zenon DEF WriteInv
<1>7. CASE pc[w] = "headers"
  <2>1. (\E q \in {"stat", "headers"} : pc' = [pc EXCEPT ![w] = q]) /\ UNCHANGED <<req, resp>>
    BY <1>7, Zenon DEF GetsLine
  <2>2. pc'[w] \in {"stat", "headers"} /\ \A v \in Workers : v # w => pc'[v] = pc[v]
    BY <2>1, Zenon DEF IInv, Typed
  <2>3. ASSUME Handling(w)' PROVE Serves(w)'
    <3>1. Handling(w) /\ Serves(w)
      BY <1>7, <2>3, Zenon DEF Handling, WriteInv
    <3> QED
      BY <1>7, <2>1, <2>2, <3>1, Zenon DEF Serves, Served
  <2> QED
    BY <1>7, <2>1, <2>2, <2>3, WorkerServes, Zenon DEF WriteInv
<1> QED
  BY <1>3, <1>5, <1>6, <1>7

\* Reading keeps the invariant of the writers.
LEMMA TakeByteServes ==
  ASSUME IInv, ReadInv, WriteInv, NEW w \in Workers, TakeByte(w)
  PROVE  WriteInv'
<1> DEFINE l == Append(line[w], Head(rio[w]))
           F == Joined(lines[w])
           c == fd[w]
<1>0. /\ UNCHANGED <<text, sent, hung, got, fd, open>> /\ pc[w] \in {"request", "headers"}
      /\ c \in Conns /\ Head(rio[w]) \in Symbols
      /\ rio[w] \in Seq(Symbols) /\ rio[w] # <<>> /\ rio' = [rio EXCEPT ![w] = Tail(rio[w])]
      /\ rio'[w] = Tail(rio[w]) /\ Tail(rio[w]) \in Seq(Symbols)
      /\ line[w] \in Seq(Symbols) /\ l \in Seq(Symbols) /\ l # <<>>
      /\ lines[w] \in Seq(Seq(Symbols)) /\ F \in Seq(Symbols)
  BY TakeByteShape, Zenon
<1>1. UNCHANGED <<text, fd, open, out, child, holds, unrun>>
  BY DEF TakeByte, clientVars, childVars
<1>2. ASSUME Handling(w), pc[w] = "request" PROVE l[1] = text[c][1]
  <2>1. F \o line[w] \o rio[w] = SubSeq(text[c], 1, got[c]) /\ lines[w] = <<>>
    BY <1>2, Zenon DEF ReadInv, Reads
  <2>2. Row(F, line[w], rio[w]) = Row(F, l, Tail(rio[w]))
    <3> HIDE DEF F
    <3> QED
      BY <1>0, TakeOne, SMTT(30)
  <2>3. F \o l \o Tail(rio[w]) = SubSeq(text[c], 1, got[c])
    BY <2>1, <2>2, Zenon DEF Row
  <2>4. F = <<>>
    BY <2>1, JoinedNothing
  <2>5. text[c] \in Seq(Symbols) /\ got[c] \in Nat /\ got[c] =< Len(text[c])
    <3> HIDE DEF l, F, c
    <3>1. text[c] \in Seq(Symbols) /\ sent[c] \in Nat /\ got[c] \in Nat
      BY <1>0, Zenon DEF ReadInv, Clients
    <3>2. got[c] =< sent[c] /\ sent[c] =< Len(text[c])
      BY <1>0, Zenon DEF ReadInv, Clients
    <3>3. Len(text[c]) \in Nat
      BY <3>1
    <3> QED
      BY <3>1, <3>2, <3>3
  <2> HIDE DEF l, F, c
  <2>6. OneLine(l, Tail(rio[w]), text[c], got[c])
    BY <2>3, <2>4, Zenon DEF Row, OneLine
  <2>7. l \in Seq(Symbols) /\ l # <<>> /\ Tail(rio[w]) \in Seq(Symbols)
    BY <1>0, Zenon
  <2> QED
    BY <2>5, <2>6, <2>7, FirstSymbol, Zenon
<1>3. CASE l[Len(l)] = "nl" \/ Full(l)
  <2>1. GetsLine(w, l)
    BY <1>3, Zenon DEF TakeByte
  <2> HIDE DEF l
  <2> QED
    BY <1>0, <1>1, <1>2, <2>1, LineServes
<1>4. CASE ~(l[Len(l)] = "nl" \/ Full(l))
  <2>1. UNCHANGED <<pc, req, resp>>
    BY <1>4, Zenon DEF TakeByte
  <2>2. Handling(w)' => Serves(w)'
    <3> SUFFICES ASSUME Handling(w)' PROVE Serves(w)'
      OBVIOUS
    <3>1. Handling(w)
      BY <1>0, <2>1, Zenon DEF Handling
    <3>2. Serves(w)
      BY <3>1 DEF WriteInv
    <3> QED
      BY <1>0, <1>1, <2>1, <3>2, StillServes, Zenon
  <2> HIDE DEF l, F, c
  <2> QED
    BY <1>0, <1>1, <2>1, <2>2, WorkerServes, Zenon DEF WriteInv
<1> QED
  BY <1>3, <1>4

\* The end of the file: the line begun is the request line, or a header line.
LEMMA EndOfFileServes ==
  ASSUME IInv, ReadInv, WriteInv, NEW w \in Workers, EndOfFile(w)
  PROVE  WriteInv'
<1> DEFINE c == fd[w]
           l == line[w]
<1>1. UNCHANGED <<text, fd, open, out, child, holds, unrun>> /\ rio[w] = <<>>
      /\ pc[w] \in {"request", "headers"} /\ hung[c] /\ got[c] = Len(text[c])
  BY SMTT(30) DEF EndOfFile, clientVars, childVars, Reading
<1>2. c \in Conns /\ l \in Seq(Symbols)
  BY <1>1 DEF IInv, Own, ReadInv, Buffers
<1>3. CASE l # <<>> /\ GetsLine(w, l)
  <2>1. ASSUME Handling(w), pc[w] = "request" PROVE l[1] = text[c][1]
    <3>1. Joined(lines[w]) \o l \o <<>> = SubSeq(text[c], 1, got[c]) /\ lines[w] = <<>>
      BY <1>1, <2>1, Zenon DEF ReadInv, Reads
    <3>2. Joined(lines[w]) = <<>>
      BY <3>1, JoinedNothing
    <3>3. text[c] \in Seq(Symbols) /\ got[c] \in Nat /\ got[c] =< Len(text[c]) /\ <<>> \in Seq(Symbols)
      BY <1>1, <1>2 DEF ReadInv, Clients
    <3> HIDE DEF l, c
    <3>4. OneLine(l, <<>>, text[c], got[c])
      BY <3>1, <3>2, Zenon DEF Row, OneLine
    <3> QED
      BY <1>2, <1>3, <3>3, <3>4, FirstSymbol, Zenon
  <2> HIDE DEF l
  <2> QED
    BY <1>1, <1>2, <1>3, <2>1, LineServes, Zenon
<1>4. ASSUME NEW u \in DOMAIN Uri \cup {"post"}, line[w] = <<>>, pc[w] = "request", GetsLine(w, <<u>>)
      PROVE  WriteInv'
  <2>1. <<u>> \in Seq(Symbols) /\ <<u>> # <<>>
    BY DEF Symbols
  <2>2. ~Handling(w)
    BY <1>1, <1>4, SomeRequest
  <2>3. PICK l2 \in Seq(Symbols) : l2 = <<u>>
    BY <2>1, Zenon
  <2> QED
    BY <1>1, <1>4, <2>1, <2>2, <2>3, LineServes, Zenon
<1>5. CASE Goto(w, "headers", "spin") /\ UNCHANGED <<req, resp>>
  <2>1. pc[w] = "headers" /\ pc'[w] = "spin" /\ \A v \in Workers : v # w => pc'[v] = pc[v]
    BY <1>5 DEF Goto, IInv, Typed
  <2>2. ASSUME Handling(w)' PROVE Serves(w)'
    <3>1. Handling(w) /\ Serves(w)
      BY <1>1, <2>1, <2>2, Zenon DEF Handling, WriteInv
    <3> QED
      BY <1>1, <1>5, <2>1, <3>1, Zenon DEF Serves, Served
  <2> QED
    BY <1>1, <1>5, <2>1, <2>2, WorkerServes, Zenon DEF WriteInv
<1> QED
  BY <1>3, <1>4, <1>5, Zenon DEF EndOfFile

\* requestHandle() has looked at the file and answers with an error, or goes on.
LEMMA StatServes ==
  ASSUME IInv, WriteInv, NEW w \in Workers, Stat(w)
  PROVE  WriteInv'
<1> DEFINE u == req[w]
<1>1. UNCHANGED <<text, fd, open, out, child, holds, unrun, req>> /\ pc[w] = "stat"
  BY DEF Stat, clientVars, childVars
<1>2. fd[w] \in Conns /\ requestError(Answer(u)) \in Seq(Part) /\ ServerPart("dynamic") \in Seq(Part)
  BY <1>1, AnswerType, ErrorType, ServerPartType, Zenon DEF IInv, Own
<1>3. ASSUME Handling(w)
      PROVE  out[fd[w]] = <<>> /\ text[fd[w]][1] = u /\ u # "post"
  BY <1>1, <1>3, ZenonT(40) DEF WriteInv, Serves, Served
<1>4. ASSUME NEW R \in Seq(Part), pc' = [pc EXCEPT ![w] = "write"], resp' = [resp EXCEPT ![w] = R],
             u # "post" => First(u) = R
      PROVE  WriteInv'
  <2>1. pc'[w] = "write" /\ resp'[w] = R
        /\ \A v \in Workers : v # w => pc'[v] = pc[v] /\ resp'[v] = resp[v]
    BY <1>4, Zenon DEF IInv, Typed, WriteInv
  <2>2. ASSUME Handling(w)' PROVE Serves(w)'
    <3>1. Handling(w)
      BY <1>1, <2>2 DEF Handling
    <3>2. Cat(<<>>, R) = R
      BY CatNothing DEF Cat
    <3> QED
      BY <1>1, <1>3, <1>4, <2>1, <3>1, <3>2, Zenon DEF Serves, Served
  <2> QED
    BY <1>1, <1>4, <2>1, <2>2, WorkerServes, Zenon DEF WriteInv
<1>5. CASE Answer(u) # 200 /\ Goto(w, "stat", "write") /\ resp' = [resp EXCEPT ![w] = requestError(Answer(u))]
  <2>1. First(u) = requestError(Answer(u))
    BY <1>5 DEF First
  <2> QED
    BY <1>2, <1>4, <1>5, <2>1, Zenon DEF Goto
<1>6. CASE Answer(u) = 200 /\ ~requestParseURI(u).static /\ Goto(w, "stat", "write")
           /\ resp' = [resp EXCEPT ![w] = ServerPart("dynamic")]
  <2>1. First(u) = ServerPart("dynamic")
    BY <1>6 DEF First
  <2> QED
    BY <1>2, <1>4, <1>6, <2>1, Zenon DEF Goto
<1>7. CASE Answer(u) = 200 /\ requestParseURI(u).static /\ Goto(w, "stat", "open") /\ resp' = resp
  <2>1. pc'[w] = "open" /\ \A v \in Workers : v # w => pc'[v] = pc[v]
    BY <1>7 DEF Goto, IInv, Typed
  <2>2. ASSUME Handling(w)' PROVE Serves(w)'
    <3>1. Handling(w)
      BY <1>1, <2>2 DEF Handling
    <3> QED
      BY <1>1, <1>3, <1>7, <2>1, <3>1, Zenon DEF Serves, Served
  <2>3. resp' = resp /\ req' \in [Workers -> Symbols \cup {"none"}] /\ resp' \in [Workers -> Seq(Part)]
    BY <1>1, <1>7, Zenon DEF WriteInv
  <2> QED
    BY <1>1, <2>1, <2>2, <2>3, WorkerServes, Zenon
<1> QED
  BY <1>5, <1>6, <1>7, Zenon DEF Stat

\* requestServeStatic() is about to write header and file.
LEMMA StaticServes ==
  ASSUME IInv, WriteInv, NEW w \in Workers, requestServeStatic(w)
  PROVE  WriteInv'
<1>1. UNCHANGED <<text, fd, open, out, child, holds, unrun, req>> /\ pc[w] = "open"
      /\ pc' = [pc EXCEPT ![w] = "write"] /\ resp' = [resp EXCEPT ![w] = ServerPart("static")]
  BY DEF requestServeStatic, Goto, clientVars, childVars
<1>2. ServerPart("static") \in Seq(Part)
  BY ServerPartType
<1>3. pc'[w] = "write" /\ resp'[w] = ServerPart("static")
      /\ \A v \in Workers : v # w => pc'[v] = pc[v] /\ resp'[v] = resp[v]
  BY <1>1, Zenon DEF IInv, Typed, WriteInv
<1>4. ASSUME Handling(w)' PROVE Serves(w)'
  <2>1. Serves(w)
    BY <1>1, <1>4 DEF Handling, WriteInv
  <2>2. out[fd[w]] = <<>> /\ req[w] = text[fd[w]][1] /\ Answer(text[fd[w]][1]) = 200
        /\ requestParseURI(text[fd[w]][1]).static
    BY <1>1, <2>1, Zenon DEF Serves, Served
  <2>3. First(text[fd[w]][1]) = ServerPart("static")
    BY <2>2, Zenon DEF First
  <2>4. Cat(<<>>, ServerPart("static")) = ServerPart("static")
    BY <1>2, CatNothing, SMTT(30) DEF Cat
  <2> QED
    BY <1>1, <1>3, <2>2, <2>3, <2>4, Zenon DEF Serves, Served
<1>5. req' \in [Workers -> Symbols \cup {"none"}] /\ resp' \in [Workers -> Seq(Part)]
  BY <1>1, <1>2 DEF WriteInv
<1> QED
  BY <1>1, <1>3, <1>4, <1>5, WorkerServes

\* A part goes from what is left to what was written.
LEMMA PartMoves ==
  ASSUME NEW o \in Seq(Part), NEW r \in Seq(Part), r # <<>>
  PROVE  /\ Append(o, Head(r)) \in Seq(Part) /\ Tail(r) \in Seq(Part)
         /\ Cat(Append(o, Head(r)), Tail(r)) = Cat(o, r)
<1>1. Append(o, Head(r)) \in Seq(Part) /\ Tail(r) \in Seq(Part)
  OBVIOUS
<1>2. Row(<<>>, o, r) = Row(<<>>, Append(o, Head(r)), Tail(r))
  <2>1. PICK e \in Seq(Part) : e = <<>>
    <3>1. <<>> \in Seq(Part)
      OBVIOUS
    <3> QED
      BY <3>1, Zenon
  <2>2. Row(e, o, r) = Row(e, Append(o, Head(r)), Tail(r))
    BY TakeOne
  <2> QED
    BY <2>1, <2>2, Zenon
<1>3. <<>> \o o = o /\ <<>> \o Append(o, Head(r)) = Append(o, Head(r))
  BY <1>1, CatNothing
<1> QED
  BY <1>1, <1>2, <1>3 DEF Row, Cat

\* What was written so far is a prefix of what the client should receive.
LEMMA PrefixOfExpected ==
  ASSUME NEW c \in Conns, NEW o \in Seq(Part), NEW r \in Seq(Part), Cat(o, r) = First(text[c][1])
  PROVE  IsPrefix(o, Expected(c))
<1> DEFINE u == text[c][1]
<1>1. IsPrefix(o, Cat(o, r))
  BY PrefixOfCat
<1>2. Cat(Cat(o, r), CgiPart) = Cat(o, Cat(r, CgiPart)) /\ Cat(r, CgiPart) \in Seq(Part)
  BY ServerPartType, CatAssociative
<1>3. IsPrefix(o, Cat(o, Cat(r, CgiPart)))
  BY <1>2, PrefixOfCat
<1>4. Expected(c) = IF Dynamic(u) THEN Cat(First(u), CgiPart) ELSE First(u)
  BY ExpectedIs
<1> QED
  BY <1>1, <1>2, <1>3, <1>4, Zenon

\* Rio_writen writes the next part of the worker's own answer.
LEMMA WritenServes ==
  ASSUME IInv, WriteInv, NEW w \in Workers, Rio_writen(w)
  PROVE  WriteInv'
<1> DEFINE c == fd[w]
<1>1. UNCHANGED <<text, fd, open, child, holds, unrun, req, pc>> /\ pc[w] = "write" /\ resp[w] # <<>>
      /\ out' = [out EXCEPT ![c] = Append(out[c], Head(resp[w]))] /\ resp' = [resp EXCEPT ![w] = Tail(resp[w])]
  BY SMTT(30) DEF Rio_writen, clientVars, childVars
<1>2. c \in Conns /\ open[c] = "open" /\ child[c] = "none"
  BY <1>1, SMTT(30) DEF IInv, Own, Early
<1>3. out[c] \in Seq(Part) /\ resp[w] \in Seq(Part)
      /\ out'[c] = Append(out[c], Head(resp[w])) /\ resp'[w] = Tail(resp[w])
  BY <1>1, <1>2, SMTT(30) DEF WriteInv
<1>4. out'[c] \in Seq(Part) /\ resp'[w] \in Seq(Part) /\ Cat(out'[c], resp'[w]) = Cat(out[c], resp[w])
  BY <1>1, <1>3, PartMoves, SMTT(30)
<1>5. out' \in [Conns -> Seq(Part)] /\ resp' \in [Workers -> Seq(Part)]
  BY <1>1, <1>2, <1>3, <1>4 DEF WriteInv
<1>6. ASSUME Handling(w)' PROVE Serves(w)'
  <2>1. Serves(w)
    BY <1>1, <1>6, Zenon DEF Handling, WriteInv
  <2> QED
    BY <1>1, <1>4, <2>1, Zenon DEF Serves, Served
<1>7. ASSUME NEW v \in Workers, v # w, Handling(v)' PROVE Serves(v)'
  <2>1. Handling(v) /\ fd[v] # c /\ fd[v] \in Conns
    BY <1>1, <1>7 DEF Handling, IInv, Own
  <2>2. Serves(v) /\ out'[fd[v]] = out[fd[v]] /\ resp'[v] = resp[v]
    BY <1>1, <1>7, <2>1, Zenon DEF WriteInv
  <2> QED
    BY <1>1, <2>2, StillServes, Zenon
<1>8. ASSUME text[c] # <<>> PROVE Answered(c)'
  <2>1. Answered(c) /\ Serves(w)
    BY <1>1, <1>2, <1>8, Zenon DEF Handling, WriteInv
  <2>2. Cat(out'[c], resp'[w]) = First(text[c][1])
    BY <1>1, <1>4, <2>1, Zenon DEF Serves, Served
  <2>3. IsPrefix(out'[c], Expected(c))
    BY <1>2, <1>4, <2>2, PrefixOfExpected, Zenon
  <2>4. Expected(c)' = Expected(c)
    BY <1>1 DEF Expected
  <2>5. c \notin unrun
    BY <1>2, <2>1, Zenon DEF Answered
  <2> QED
    BY <1>1, <1>2, <2>3, <2>4, <2>5, Zenon DEF Answered
<1>9. ASSUME NEW d \in Conns, d # c, text'[d] # <<>> PROVE Answered(d)'
  <2>1. Answered(d) /\ out'[d] = out[d]
    BY <1>1, <1>9 DEF WriteInv
  <2> QED
    BY <1>1, <2>1, StillAnswered, Zenon
<1>10. \A v \in Workers : Handling(v)' => Serves(v)'
  BY <1>6, <1>7
<1>11. \A d \in Conns : text'[d] # <<>> => Answered(d)'
  BY <1>1, <1>8, <1>9, SMTT(30)
<1>12. req' \in [Workers -> Symbols \cup {"none"}] /\ holds' \in [Conns -> SUBSET Conns]
  BY <1>1 DEF WriteInv
<1> QED
  BY <1>5, <1>10, <1>11, <1>12, Zenon DEF WriteInv

\* All of the server's part is written: a CGI request goes on to fork.
LEMMA WrittenServes ==
  ASSUME IInv, WriteInv, NEW w \in Workers, Written(w)
  PROVE  WriteInv'
<1>1. UNCHANGED <<text, fd, open, out, child, holds, unrun, req, resp>> /\ pc[w] = "write" /\ resp[w] = <<>>
      /\ pc' = [pc EXCEPT ![w] = IF Dynamic(req[w]) THEN "fork" ELSE "done"]
  BY SMTT(30) DEF Written, Goto, clientVars, childVars
<1>2. pc'[w] = (IF Dynamic(req[w]) THEN "fork" ELSE "done") /\ \A v \in Workers : v # w => pc'[v] = pc[v]
  BY <1>1 DEF IInv, Typed
<1>3. fd[w] \in Conns /\ out[fd[w]] \in Seq(Part)
  BY <1>1, Zenon DEF IInv, Own, WriteInv
<1>4. ASSUME Handling(w)' PROVE Serves(w)'
  <2>1. Serves(w)
    BY <1>1, <1>4, Zenon DEF Handling, WriteInv
  <2>2. Cat(out[fd[w]], <<>>) = out[fd[w]]
    BY <1>3, CatNothing DEF Cat
  <2>3. req[w] = text[fd[w]][1] /\ out[fd[w]] = First(text[fd[w]][1])
    <3>1. Served("write", req[w], text[fd[w]][1], out[fd[w]], <<>>, child[fd[w]])
      BY <1>1, <2>1, Zenon DEF Serves
    <3> QED
      BY <2>2, <3>1, Zenon DEF Served
  <2>4. ASSUME NEW r, NEW o, NEW x, NEW ch, o = First(r)
        PROVE  /\ Dynamic(r) => Served("fork", r, r, o, x, ch)
               /\ ~Dynamic(r) => Served("done", r, r, o, x, ch)
    BY <2>4, Zenon DEF Served
  <2>5. Served(pc'[w], req[w], text[fd[w]][1], out[fd[w]], resp[w], child[fd[w]])
    BY <1>2, <2>3, <2>4, Zenon
  <2> QED
    BY <1>1, <2>5, Zenon DEF Serves
<1>5. req' \in [Workers -> Symbols \cup {"none"}] /\ resp' \in [Workers -> Seq(Part)]
  BY <1>1, Zenon DEF WriteInv
<1> QED
  BY <1>1, <1>2, <1>4, <1>5, WorkerServes, SMTT(30)

\* The child is there, with the connection, and has not written yet.
LEMMA ForkServes ==
  ASSUME IInv, WriteInv, NEW w \in Workers, Fork(w)
  PROVE  WriteInv'
<1> DEFINE c == fd[w]
<1>1. UNCHANGED <<text, fd, open, out, unrun, req, resp>> /\ pc[w] = "fork" /\ pc' = [pc EXCEPT ![w] = "wait"]
      /\ child' = [child EXCEPT ![c] = "running"]
      /\ holds' = [holds EXCEPT ![c] = {d \in Conns : open[d] # "closed"}]
  BY DEF Fork, Goto, clientVars
<1>2. c \in Conns /\ open[c] = "open" /\ child[c] = "none"
  BY <1>1 DEF IInv, Own, Early
<1>3. /\ pc'[w] = "wait" /\ child'[c] = "running" /\ c \in holds'[c] /\ holds' \in [Conns -> SUBSET Conns]
      /\ \A v \in Workers : v # w => pc'[v] = pc[v]
      /\ \A d \in Conns : d # c => child'[d] = child[d] /\ holds'[d] = holds[d]
  BY <1>1, <1>2, Zenon DEF IInv, Typed, WriteInv
<1>4. ASSUME Handling(w)
      PROVE  /\ req[w] = text[c][1] /\ Dynamic(text[c][1]) /\ out[c] = First(text[c][1])
  BY <1>1, <1>4, Zenon DEF WriteInv, Serves, Served
<1>5. ASSUME NEW v \in Workers, Handling(v)' PROVE Serves(v)'
  <2>1. CASE v = w
    <3>1. Handling(w)
      BY <1>1, <1>5, <2>1 DEF Handling
    <3> QED
      BY <1>1, <1>3, <1>4, <2>1, <3>1, Zenon DEF Serves, Served
  <2>2. CASE v # w
    <3>1. Handling(v) /\ fd[v] # c /\ fd[v] \in Conns
      BY <1>1, <1>3, <1>5, <2>2 DEF Handling, IInv, Own
    <3>2. Serves(v) /\ child'[fd[v]] = child[fd[v]]
      BY <1>3, <3>1, Zenon DEF WriteInv
    <3> QED
      BY <1>1, <1>3, <2>2, <3>2, StillServes, Zenon
  <2> QED
    BY <2>1, <2>2
<1>6. ASSUME NEW d \in Conns, text'[d] # <<>> PROVE Answered(d)'
  <2>1. Answered(d)
    BY <1>1, <1>6, Zenon DEF WriteInv
  <2>2. CASE d = c
    <3>1. Handling(w)
      BY <1>1, <1>6, <2>2 DEF Handling
    <3>2. c \notin unrun /\ (StdoutTty \/ c \notin unrun => IsPrefix(out[c], Expected(c)))
      BY <1>2, <2>1, <2>2, Zenon DEF Answered
    <3>3. Expected(c)' = Expected(c)
      BY <1>1, Zenon DEF Expected
    <3> QED
      BY <1>1, <1>2, <1>3, <1>4, <2>2, <3>1, <3>2, <3>3, Zenon DEF Answered
  <2>3. CASE d # c
    BY <1>1, <1>3, <2>1, <2>3, StillAnswered
  <2> QED
    BY <2>2, <2>3
<1>7. out' \in [Conns -> Seq(Part)] /\ resp' \in [Workers -> Seq(Part)] /\ req' \in [Workers -> Symbols \cup {"none"}]
  BY <1>1, Zenon DEF WriteInv
<1> QED
  BY <1>3, <1>5, <1>6, <1>7, Zenon DEF WriteInv

\* A worker that reaps a child, its own or not, may go on.
LEMMA WaitServes ==
  ASSUME IInv, WriteInv, NEW w \in Workers, Wait(w)
  PROVE  WriteInv'
<1>1. UNCHANGED <<text, fd, open, out, holds, unrun, req, resp>> /\ pc[w] = "wait" /\ pc' = [pc EXCEPT ![w] = "done"]
  BY DEF Wait, Goto, clientVars
<1>2. PICK c \in Conns : child[c] = "zombie" /\ child' = [child EXCEPT ![c] = "reaped"]
  BY Zenon DEF Wait
<1>3. /\ pc'[w] = "done" /\ child'[c] = "reaped" /\ \A v \in Workers : v # w => pc'[v] = pc[v]
      /\ \A d \in Conns : d # c => child'[d] = child[d]
      /\ \A d \in Conns : child[d] # "none" => child'[d] # "none"
  BY <1>1, <1>2 DEF IInv, Typed
<1>4. ASSUME NEW v \in Workers, Handling(v)' PROVE Serves(v)'
  <2>1. Handling(v) /\ fd[v] \in Conns
    BY <1>1, <1>3, <1>4 DEF Handling, IInv, Own
  <2>2. Serves(v) /\ (child[fd[v]] # "none" => child'[fd[v]] # "none")
    BY <1>3, <2>1, Zenon DEF WriteInv
  <2>3. CASE v = w
    BY <1>1, <1>3, <2>2, <2>3, Zenon DEF Serves, Served
  <2>4. CASE v # w
    BY <1>1, <1>3, <2>2, <2>4, StillServes, Zenon
  <2> QED
    BY <2>3, <2>4, SMTT(30)
<1>5. ASSUME NEW d \in Conns, text'[d] # <<>> PROVE Answered(d)'
  <2>1. Answered(d)
    BY <1>1, <1>5, Zenon DEF WriteInv
  <2>2. CASE d = c
    <3>1. Expected(c)' = Expected(c)
      BY <1>1, Zenon DEF Expected
    <3> QED
      BY <1>1, <1>2, <1>3, <2>1, <2>2, <3>1, Zenon DEF Answered
  <2>3. CASE d # c
    BY <1>1, <1>3, <2>1, <2>3, StillAnswered, Zenon
  <2> QED
    BY <2>2, <2>3
<1>6. /\ out' \in [Conns -> Seq(Part)] /\ resp' \in [Workers -> Seq(Part)]
      /\ req' \in [Workers -> Symbols \cup {"none"}] /\ holds' \in [Conns -> SUBSET Conns]
  BY <1>1, Zenon DEF WriteInv
<1> QED
  BY <1>4, <1>5, <1>6, Zenon DEF WriteInv

\* The worker closes the connection; what it did for the client stays done.
LEMMA CloseServes ==
  ASSUME IInv, WriteInv, NEW w \in Workers, Close(w)
  PROVE  WriteInv'
<1> DEFINE c == fd[w]
<1>1. UNCHANGED <<text, fd, out, child, holds, unrun, req, resp>> /\ pc[w] = "done" /\ pc' = [pc EXCEPT ![w] = "idle"]
      /\ open' = [open EXCEPT ![c] = "closed"]
  BY DEF Close, Goto, clientVars, childVars
<1>2. c \in Conns
  BY <1>1, Zenon DEF IInv, Own
<1>3. /\ pc'[w] = "idle" /\ open'[c] = "closed" /\ \A v \in Workers : v # w => pc'[v] = pc[v]
      /\ \A d \in Conns : d # c => open'[d] = open[d]
  BY <1>1, <1>2, SMTT(30) DEF IInv, Typed
<1>4. ASSUME NEW v \in Workers, Handling(v)' PROVE Serves(v)'
  <2>1. v # w /\ Handling(v)
    BY <1>1, <1>3, <1>4 DEF Handling
  <2>2. Serves(v)
    BY <2>1, SMTT(30) DEF WriteInv
  <2> QED
    BY <1>1, <1>3, <2>1, <2>2, StillServes, SMTT(30)
<1>5. ASSUME NEW d \in Conns, text'[d] # <<>> PROVE Answered(d)'
  <2>1. Answered(d)
    BY <1>1, <1>5 DEF WriteInv
  <2>2. CASE d = c
    <3>1. Handling(w)
      BY <1>1, <1>5, <2>2 DEF Handling
    <3>2. IF Dynamic(text[c][1]) THEN child[c] # "none" ELSE out[c] = First(text[c][1])
      BY <1>1, <3>1, Zenon DEF WriteInv, Serves, Served
    <3>3. Expected(c)' = Expected(c)
      BY <1>1, Zenon DEF Expected
    <3> QED
      BY <1>1, <1>3, <2>1, <2>2, <3>2, <3>3, Zenon DEF Answered
  <2>3. CASE d # c
    BY <1>1, <1>3, <2>1, <2>3, StillAnswered, Zenon
  <2> QED
    BY <2>2, <2>3
<1>6. /\ out' \in [Conns -> Seq(Part)] /\ resp' \in [Workers -> Seq(Part)]
      /\ req' \in [Workers -> Symbols \cup {"none"}] /\ holds' \in [Conns -> SUBSET Conns]
  BY <1>1, Zenon DEF WriteInv
<1> QED
  BY <1>4, <1>5, <1>6, Zenon DEF WriteInv

\* A CGI program writes after the server's part, or could not be run.
LEMMA CgiServes ==
  ASSUME IInv, WriteInv, NEW c \in Conns, CgiRuns(c)
  PROVE  WriteInv'
<1> DEFINE u == text[c][1]
<1>1. UNCHANGED <<text, fd, pc, open, holds, req, resp>> /\ child[c] = "running" /\ child' = [child EXCEPT ![c] = "zombie"]
  BY Zenon DEF CgiRuns, clientVars, workVars
<1>2. out[c] \in Seq(Part) /\ CgiPart \in Seq(Part) /\ Parts(<<0, "log">>) \in Seq(Part)
  BY ServerPartType DEF WriteInv
<1>3. \/ out' = [out EXCEPT ![c] = Cat(out[c], CgiPart)] /\ unrun' = unrun
      \/ /\ out' = IF StdoutTty THEN out ELSE [out EXCEPT ![c] = Cat(out[c], Parts(<<0, "log">>))]
         /\ unrun' = unrun \cup {c}
  BY Zenon DEF CgiRuns, Cat
<1>4. Cat(out[c], CgiPart) \in Seq(Part) /\ Cat(out[c], Parts(<<0, "log">>)) \in Seq(Part)
  BY <1>2, CatType
<1>5. /\ out' \in [Conns -> Seq(Part)] /\ child'[c] = "zombie"
      /\ \A d \in Conns : d # c => out'[d] = out[d] /\ child'[d] = child[d] /\ (d \in unrun' <=> d \in unrun)
  BY <1>1, <1>3, <1>4, Zenon DEF IInv, Typed, WriteInv
<1>6. \/ out'[c] = Cat(out[c], CgiPart) /\ unrun' = unrun
      \/ c \in unrun' /\ (StdoutTty => out'[c] = out[c])
  BY <1>3 DEF WriteInv
<1>7. ASSUME NEW v \in Workers, Handling(v)' PROVE Serves(v)'
  <2>1. Handling(v) /\ fd[v] \in Conns
    BY <1>1, <1>7, Zenon DEF Handling, IInv, Own
  <2>2. Serves(v)
    BY <2>1, Zenon DEF WriteInv
  <2>3. CASE fd[v] = c
    <3>1. pc[v] \in {"wait", "done"}
      BY <1>1, <2>1, <2>3, Zenon DEF Handling, IInv, Typed, Own, Early
    <3>2. Dynamic(u)
      BY <1>1, <2>1, <2>3, Zenon DEF Handling, WriteInv, Answered
    <3>3. req[v] = text[fd[v]][1]
      BY <2>2, <3>1, Zenon DEF Serves, Served
    <3> QED
      BY <1>1, <1>5, <2>3, <3>1, <3>2, <3>3, Zenon DEF Serves, Served
  <2>4. CASE fd[v] # c
    BY <1>1, <1>5, <2>1, <2>2, <2>4, StillServes, Zenon
  <2> QED
    BY <2>3, <2>4
<1>8. ASSUME NEW d \in Conns, text'[d] # <<>> PROVE Answered(d)'
  <2>1. Answered(d)
    BY <1>1, <1>8 DEF WriteInv
  <2>2. CASE d = c
    <3>1. Dynamic(u) /\ c \notin unrun /\ out[c] = First(u) /\ IsPrefix(out[c], Expected(c)) /\ open[c] # "queued"
      BY <1>1, <2>1, <2>2, Zenon DEF Answered, IInv, Own
    <3>2. Expected(c)' = Expected(c) /\ Expected(c) = Cat(First(u), CgiPart)
      <4>1. Expected(c) = Cat(First(u), CgiPart)
        BY <3>1, ExpectedIs, Zenon
      <4> QED
        BY <1>1, <4>1, Zenon DEF Expected
    <3>3. IsPrefix(Cat(First(u), CgiPart), Cat(First(u), CgiPart))
      BY <1>4, <3>1, PrefixOfCat
    <3>4. CASE out'[c] = Cat(out[c], CgiPart) /\ unrun' = unrun
      BY <1>1, <1>5, <2>2, <3>1, <3>2, <3>3, <3>4, Zenon DEF Answered
    <3>5. CASE c \in unrun' /\ (StdoutTty => out'[c] = out[c])
      BY <1>1, <1>5, <2>2, <3>1, <3>2, <3>5, Zenon DEF Answered
    <3> QED
      BY <1>6, <3>4, <3>5
  <2>3. CASE d # c
    BY <1>1, <1>5, <2>1, <2>3, StillAnswered
  <2> QED
    BY <2>2, <2>3
<1>9. /\ resp' \in [Workers -> Seq(Part)]
      /\ req' \in [Workers -> Symbols \cup {"none"}] /\ holds' \in [Conns -> SUBSET Conns]
  BY <1>1 DEF WriteInv
<1> QED
  BY <1>5, <1>7, <1>8, <1>9, Zenon DEF WriteInv

\* requestHandle() starts with nothing written on the connection.
LEMMA HandleServes ==
  ASSUME IInv, WriteInv, NEW w \in Workers, NEW c \in Conns, requestHandle(w, c)
  PROVE  WriteInv'
<1>1. /\ UNCHANGED <<text, out, child, holds, unrun, req, resp>> /\ open[c] = "queued" /\ fd' = [fd EXCEPT ![w] = c]
      /\ open' = [open EXCEPT ![c] = "open"] /\ pc' = [pc EXCEPT ![w] = "request"]
  BY DEF requestHandle, Goto, clientVars, childVars
<1>2. fd'[w] = c /\ pc'[w] = "request" /\ open'[c] = "open"
      /\ \A v \in Workers : v # w => pc'[v] = pc[v] /\ fd'[v] = fd[v]
      /\ \A d \in Conns : d # c => open'[d] = open[d]
  BY <1>1 DEF IInv, Typed
<1>3. ASSUME NEW v \in Workers, Handling(v)' PROVE Serves(v)'
  <2>1. CASE v = w
    <3>1. out[c] = <<>>
      <4>1. text[c] # <<>>
        BY <1>1, <1>2, <1>3, <2>1, Zenon DEF Handling
      <4>2. Answered(c)
        BY <4>1, Zenon DEF WriteInv
      <4> QED
        BY <1>1, <4>2, Zenon DEF Answered
    <3> QED
      BY <1>1, <1>2, <2>1, <3>1, Zenon DEF Serves, Served
  <2>2. CASE v # w
    <3>1. Serves(v)
      BY <1>1, <1>2, <1>3, <2>2, Zenon DEF Handling, WriteInv
    <3> QED
      BY <1>1, <1>2, <2>2, <3>1, StillServes, Zenon
  <2> QED
    BY <2>1, <2>2
<1>4. ASSUME NEW d \in Conns, text'[d] # <<>> PROVE Answered(d)'
  <2>1. Answered(d)
    BY <1>1, <1>4, Zenon DEF WriteInv
  <2>2. CASE d = c
    <3>1. Expected(c)' = Expected(c)
      BY <1>1, Zenon DEF Expected
    <3> QED
      BY <1>1, <1>2, <2>1, <2>2, <3>1, Zenon DEF Answered
  <2>3. CASE d # c
    BY <1>1, <1>2, <2>1, <2>3, StillAnswered
  <2> QED
    BY <2>2, <2>3
<1>5. /\ out' \in [Conns -> Seq(Part)] /\ resp' \in [Workers -> Seq(Part)]
      /\ req' \in [Workers -> Symbols \cup {"none"}] /\ holds' \in [Conns -> SUBSET Conns]
  BY <1>1, Zenon DEF WriteInv
<1> QED
  BY <1>3, <1>4, <1>5, Zenon DEF WriteInv

\* Steps that neither write nor move a worker keep the invariant of the writers.
LEMMA OtherServes ==
  ASSUME WriteInv, UNCHANGED <<text, fd, pc, open, out, child, holds, unrun, req, resp>>
  PROVE  WriteInv'
<1>1. ASSUME NEW v \in Workers, Handling(v)' PROVE Serves(v)'
  <2>1. Serves(v)
    BY <1>1, Zenon DEF Handling, WriteInv
  <2> QED
    BY <2>1, StillServes
<1>2. ASSUME NEW d \in Conns, text'[d] # <<>> PROVE Answered(d)'
  <2>1. Answered(d)
    BY <1>2, SMTT(30) DEF WriteInv
  <2> QED
    BY <2>1, StillAnswered
<1>3. /\ out' \in [Conns -> Seq(Part)] /\ resp' \in [Workers -> Seq(Part)]
      /\ req' \in [Workers -> Symbols \cup {"none"}] /\ holds' \in [Conns -> SUBSET Conns]
  BY DEF WriteInv
<1> QED
  BY <1>1, <1>2, <1>3, SMTT(30) DEF WriteInv

\* The invariant of the writers is inductive, given those on control and on the reader.
LEMMA WriteInductive == IInv /\ ReadInv /\ WriteInv /\ [Next]_vars => WriteInv'
<1> SUFFICES ASSUME IInv, ReadInv, WriteInv, [Next]_vars PROVE WriteInv'
  OBVIOUS
<1>1. CASE UNCHANGED vars
  BY <1>1, OtherServes DEF vars, clientVars, childVars, workVars
<1>2. ASSUME NEW c \in Conns, Send(c) \/ HangUp(c) PROVE WriteInv'
  BY <1>2, OtherServes DEF Send, HangUp, childVars, workVars
<1>3. ASSUME NEW w \in Workers, Fails(w) \/ Refill(w) \/ EmptyFile(w) PROVE WriteInv'
  BY <1>3, OtherServes, Zenon DEF Fails, Refill, EmptyFile, clientVars, childVars, workVars
<1>4. ASSUME NEW w \in Workers, Worker(w) PROVE WriteInv'
  BY <1>3, <1>4, TakeByteServes, EndOfFileServes, StatServes, StaticServes, WritenServes, WrittenServes,
     ForkServes, WaitServes, CloseServes DEF Worker
<1> QED
  BY <1>1, <1>2, <1>3, <1>4, CgiServes, HandleServes DEF Next

\* Nothing is written at first.
LEMMA WriteInit == Init => WriteInv
<1> SUFFICES ASSUME Init PROVE WriteInv
  OBVIOUS
<1>1. \A w \in Workers : ~Handling(w)
  BY DEF Init, Handling
<1>2. ASSUME NEW c \in Conns PROVE Answered(c)
  <2>1. open[c] = "queued" /\ out[c] = <<>> /\ child[c] = "none" /\ unrun = {}
    BY <1>2, Zenon DEF Init
  <2>2. IsPrefix(<<>>, Expected(c))
    <3>1. First(text[c][1]) \in Seq(Part) /\ CgiPart \in Seq(Part)
      BY FirstType, ServerPartType
    <3>2. Expected(c) \in Seq(Part)
      BY <3>1, ExpectedIs, CatType, SMTT(30)
    <3> QED
      BY <3>2, PrefixOfCat
  <2> QED
    BY <2>1, <2>2 DEF Answered
<1>3. /\ out \in [Conns -> Seq(Part)] /\ resp \in [Workers -> Seq(Part)]
      /\ req \in [Workers -> Symbols \cup {"none"}] /\ holds \in [Conns -> SUBSET Conns]
  BY DEF Init
<1> QED
  BY <1>1, <1>2, <1>3, SMTT(30) DEF WriteInv

\* Where a child's inherited log lines are not written (the server's standard output is a
\* terminal) or no CGI program failed to run, a client receives the parts of its answer in
\* order, whichever workers and children write at the same time.
THEOREM AnswerInOrderHolds == Spec => [](StdoutTty \/ unrun = {} => AnswerInOrder)
<1> DEFINE Inv == IInv /\ ReadInv /\ WriteInv
<1>1. Init => Inv
  BY InitControl, ReadInit, WriteInit
<1>2. Inv /\ [Next]_vars => Inv'
  BY Inductive, ReadInductive, WriteInductive
<1>3. Inv => (StdoutTty \/ unrun = {} => AnswerInOrder)
  BY Zenon DEF WriteInv, Answered, AnswerInOrder
<1> QED
  BY <1>1, <1>2, <1>3, PTL DEF Spec

\* No client sees the end of the file before the whole answer, unless its CGI program could
\* not be run: a worker may close the connection with its own child still running, but the
\* child has the connection too, and writes all of its part before it ends.
THEOREM AnswerWholeHolds == Spec => []AnswerWhole
<1> DEFINE Inv == IInv /\ ReadInv /\ WriteInv
<1>1. Init => Inv
  BY InitControl, ReadInit, WriteInit
<1>2. Inv /\ [Next]_vars => Inv'
  BY Inductive, ReadInductive, WriteInductive
<1>3. Inv => AnswerWhole
  <2> SUFFICES ASSUME Inv, NEW c \in Conns, EndSeen(c), text[c] # <<>>, c \notin unrun
               PROVE  out[c] = Expected(c)
    BY DEF AnswerWhole
  <2>1. Answered(c) /\ open[c] = "closed" /\ (c \in holds[c] => child[c] # "running")
    BY Zenon DEF WriteInv, EndSeen
  <2>2. Expected(c) = IF Dynamic(text[c][1]) THEN Cat(First(text[c][1]), CgiPart) ELSE First(text[c][1])
    BY ExpectedIs
  <2>3. child[c] \in {"none", "running", "zombie", "reaped"}
    BY DEF IInv, Typed
  <2> QED
    BY <2>1, <2>2, <2>3, Zenon DEF Answered
<1> QED
  BY <1>1, <1>2, <1>3, PTL DEF Spec

-----------------------------------------------------------------------------
(* The empty line. *)

Late == {"stat", "open", "write", "fork", "wait", "done"}

\* The lines read, in a row, end with a newline, or with a full buffer without one.
EndsLine(f) == f # <<>> /\ f[Len(f)] = "nl"
EndsFull(f) == /\ Len(f) >= MAXLINE - 1
               /\ \A k \in Len(f) - MAXLINE + 2 .. Len(f) : f[k] # "nl"

\* Where worker w is in requestReadhdrs(), or what it has seen there.
Headers(w) ==
  /\ pc[w] = "headers" => \/ EndsLine(Joined(lines[w])) \/ EndsFull(Joined(lines[w])) \/ AtEnd(w)
  /\ pc[w] \in Late /\ req[w] # "post" /\ ~LongLine(text[fd[w]]) => HasBlank(Joined(lines[w]))

HeaderInv == \A w \in Workers : Handling(w) => Headers(w)

\* The symbols of two pieces in a row.
LEMMA CatSymbols ==
  ASSUME NEW A \in Seq(Symbols), NEW B \in Seq(Symbols)
  PROVE  /\ Cat(A, B) \in Seq(Symbols) /\ Len(Cat(A, B)) = Len(A) + Len(B)
         /\ \A k \in 1 .. Len(A) : Cat(A, B)[k] = A[k]
         /\ \A k \in 1 .. Len(B) : Cat(A, B)[Len(A) + k] = B[k]
  BY DEF Cat

\* After a line the lines end as that line ends.
LEMMA EndsAfter ==
  ASSUME NEW f \in Seq(Symbols), NEW l \in Seq(Symbols), Cut(l), Ended(l)
  PROVE  EndsLine(Cat(f, l)) \/ EndsFull(Cat(f, l))
<1> DEFINE g == Cat(f, l)
<1>1. g \in Seq(Symbols) /\ Len(g) = Len(f) + Len(l) /\ Len(f) \in Nat /\ Len(l) \in Nat /\ Len(l) # 0
  BY DEF Cat, Cut
<1>2. ASSUME NEW k \in 1 .. Len(l) PROVE g[Len(f) + k] = l[k]
  BY <1>1, <1>2 DEF Cat
<1> HIDE DEF g
<1>3. g # <<>> /\ g[Len(g)] = l[Len(l)]
  BY <1>1, <1>2
<1>4. CASE l[Len(l)] = "nl"
  BY <1>3, <1>4 DEF EndsLine, g
<1>5. CASE l[Len(l)] # "nl"
  <2>1. Len(l) = MAXLINE - 1
    BY <1>5 DEF Ended
  <2>2. ASSUME NEW k \in Len(g) - MAXLINE + 2 .. Len(g) PROVE g[k] # "nl"
    <3>1. k - Len(f) \in 1 .. Len(l) /\ Len(f) + (k - Len(f)) = k
      BY <1>1, <2>1, SizesAssumption
    <3>2. g[k] = l[k - Len(f)]
      BY <1>2, <3>1
    <3>3. l[k - Len(f)] # "nl"
      BY <1>1, <1>5, <3>1 DEF Cut
    <3> QED
      BY <3>2, <3>3
  <2>3. Len(g) >= MAXLINE - 1
    BY <1>1, <2>1, SizesAssumption
  <2> QED
    BY <2>2, <2>3 DEF EndsFull, g
<1> QED
  BY <1>4, <1>5

\* An empty line after a newline is the empty line that ends the headers.
LEMMA BlankAfter ==
  ASSUME NEW f \in Seq(Symbols), EndsLine(f), NEW l \in Seq(Symbols), l = Blank
  PROVE  HasBlank(Cat(f, l))
<1> DEFINE g == Cat(f, l)
<1>1. Len(f) \in Nat /\ Len(f) # 0 /\ f[Len(f)] = "nl"
  BY DEF EndsLine
<1>2. Len(l) = 1 /\ l[1] = "nl"
  BY DEF Blank
<1>3. Len(g) = Len(f) + 1 /\ g[Len(f)] = "nl" /\ g[Len(f) + 1] = "nl"
  <2>1. /\ Len(g) = Len(f) + Len(l) /\ \A k \in 1 .. Len(f) : g[k] = f[k]
        /\ \A k \in 1 .. Len(l) : g[Len(f) + k] = l[k]
    BY CatSymbols, Zenon
  <2> HIDE DEF g
  <2> QED
    BY <1>1, <1>2, <2>1
<1>4. Len(f) + 1 \in 2 .. Len(g) /\ (Len(f) + 1) - 1 = Len(f)
  BY <1>1, <1>3
<1> HIDE DEF g
<1>5. HasBlank(g)
  BY <1>3, <1>4 DEF HasBlank
<1> QED
  BY <1>5 DEF g

\* The first n symbols of t are f, then l, then r.
ThreePieces(f, l, r, t, n) == Row(f, l, r) = SubSeq(t, 1, n)

\* A line after a full buffer without a newline is the rest of a long line.
LEMMA LongAfter ==
  ASSUME NEW f \in Seq(Symbols), EndsFull(f), NEW l \in Seq(Symbols), l # <<>>, NEW r \in Seq(Symbols),
         NEW t \in Seq(Symbols), NEW n \in Nat, n =< Len(t), ThreePieces(f, l, r, t, n)
  PROVE  LongLine(t)
<1>1. Len(f) \in Nat /\ Len(l) \in Nat /\ Len(l) # 0 /\ Len(r) \in Nat /\ Len(t) \in Nat
  BY SMTT(30)
<1> DEFINE g == Cat(f, l)
           h == Cat(g, r)
<1>2. g \in Seq(Symbols) /\ Len(g) = Len(f) + Len(l) /\ \A k \in 1 .. Len(f) : g[k] = f[k]
  BY CatSymbols
<1>3. Len(h) = Len(g) + Len(r) /\ \A k \in 1 .. Len(g) : h[k] = g[k]
  <2> HIDE DEF g
  <2> QED
    BY <1>2, CatSymbols, Zenon
<1>4. h = SubSeq(t, 1, n)
  BY Zenon DEF ThreePieces, Row, Cat
<1>5. Len(SubSeq(t, 1, n)) = n /\ \A k \in 1 .. n : SubSeq(t, 1, n)[k] = t[k]
  OBVIOUS
<1> HIDE DEF g, h
<1>6. n >= Len(f) + 1 /\ \A k \in 1 .. Len(f) : t[k] = f[k]
  BY <1>1, <1>2, <1>3, <1>4, <1>5
<1> DEFINE i == Len(f) - MAXLINE + 2
           j == Len(f) + 1
<1>7. i \in 1 .. Len(t) /\ j \in 1 .. Len(t) /\ j - i >= MAXLINE - 1
  BY <1>1, <1>6, SizesAssumption DEF EndsFull
<1>8. ASSUME NEW k \in i .. j - 1 PROVE t[k] # "nl"
  <2>1. k \in 1 .. Len(f) /\ k \in Len(f) - MAXLINE + 2 .. Len(f)
    BY <1>1, <1>7, <1>8, SizesAssumption, SMTT(30)
  <2> QED
    BY <1>6, <2>1 DEF EndsFull
<1> HIDE DEF i, j
<1> QED
  BY <1>7, <1>8 DEF LongLine

\* A worker that reads no line has seen in the headers what it had seen.
LEMMA StillHeaders ==
  ASSUME NEW v \in Workers, Headers(v), text' = text, fd'[v] = fd[v], lines'[v] = lines[v], req'[v] = req[v],
         AtEnd(v) => AtEnd(v)', pc'[v] = "headers" => pc[v] = "headers", pc'[v] \in Late => pc[v] \in Late
  PROVE  Headers(v)'
<1>1. Headers(v)' <=>
        /\ pc'[v] = "headers" => \/ EndsLine(Joined(lines'[v])) \/ EndsFull(Joined(lines'[v])) \/ AtEnd(v)'
        /\ pc'[v] \in Late /\ req'[v] # "post" /\ ~LongLine(text'[fd'[v]]) => HasBlank(Joined(lines'[v]))
  BY Zenon DEF Headers, EndsLine, EndsFull, LongLine, HasBlank, Late
<1>2. pc'[v] = "headers" => \/ EndsLine(Joined(lines'[v])) \/ EndsFull(Joined(lines'[v])) \/ AtEnd(v)'
  BY Zenon DEF Headers
<1>3. pc'[v] \in Late /\ req'[v] # "post" /\ ~LongLine(text'[fd'[v]]) => HasBlank(Joined(lines'[v]))
  <2>1. HasBlank(Joined(lines[v])) <=> HasBlank(Joined(lines'[v]))
    BY Zenon
  <2>2. LongLine(text'[fd'[v]]) <=> LongLine(text[fd[v]])
    BY Zenon
  <2> QED
    BY <2>1, <2>2, Zenon DEF Headers
<1> QED
  BY <1>1, <1>2, <1>3

\* A line that was read is the request line, a header line or the empty line.
LEMMA LineHeaders ==
  ASSUME IInv, ReadInv, ReadInv', HeaderInv, WriteInv, NEW w \in Workers, NEW l \in Seq(Symbols), GetsLine(w, l),
         UNCHANGED <<text, fd, got>>, ~AtEnd(w), Handling(w)'
  PROVE  Headers(w)'
<1> DEFINE F == Joined(lines[w])
           t == text[fd[w]]
           n == got[fd[w]]
<1>1. lines[w] \in Seq(Seq(Symbols)) /\ lines \in [Workers -> Seq(Seq(Symbols))] /\ line \in [Workers -> Seq(Symbols)]
      /\ rio'[w] \in Seq(Symbols)
  BY DEF ReadInv, Buffers
<1>2. /\ pc'[w] \in {"headers", "write", "stat"} /\ line'[w] = <<>> /\ lines'[w] = Append(lines[w], l)
  BY <1>1, GetsLineShape, Zenon
<1>3. F \in Seq(Symbols) /\ Joined(lines'[w]) = Cat(F, l)
  BY <1>1, <1>2, JoinedType, JoinedAppend, Zenon DEF Cat
<1>4. pc[w] \in {"request", "headers"} /\ fd[w] \in Conns /\ Handling(w)
  BY Zenon DEF GetsLine, IInv, Own, Handling
<1>5. t \in Seq(Symbols) /\ n \in Nat /\ n =< Len(t)
  BY <1>4 DEF ReadInv, Clients
<1>6. Reads(w)'
  BY DEF ReadInv
<1>7. Cut(l) /\ (Ended(l) \/ AtEnd(w)')
  <2>1. Len(lines'[w]) \in 1 .. Len(lines'[w]) /\ lines'[w][Len(lines'[w])] = l
    <3>1. /\ Len(Append(lines[w], l)) \in 1 .. Len(Append(lines[w], l))
          /\ Append(lines[w], l)[Len(Append(lines[w], l))] = l
      BY <1>1, LastAppended, Zenon
    <3>2. lines'[w] = Append(lines[w], l)
      BY <1>2, Zenon
    <3> HIDE DEF F, t, n
    <3> QED
      BY <3>1, <3>2
  <2>2. \A i \in 1 .. Len(lines'[w]) :
           Cut(lines'[w][i]) /\ (Ended(lines'[w][i]) \/ (i = Len(lines'[w]) /\ AtEnd(w)'))
    BY <1>6, Zenon DEF Reads, Cut, Ended
  <2>3. Cut(lines'[w][Len(lines'[w])]) /\ (Ended(lines'[w][Len(lines'[w])]) \/ AtEnd(w)')
    BY <2>1, <2>2, SMTT(30)
  <2> QED
    BY <2>1, <2>3
<1>8. ThreePieces(F, l, rio'[w], t, n)
  <2>1. Joined(lines'[w]) \o line'[w] \o rio'[w] = SubSeq(text'[fd'[w]], 1, got'[fd'[w]])
    BY <1>6, SMTT(30) DEF Reads
  <2>2. Cat(F, l) \in Seq(Symbols)
    BY <1>3, CatType
  <2>3. Cat(F, l) \o <<>> = Cat(F, l)
    BY <2>2, CatNothing
  <2>4. Cat(F, l) \o rio'[w] = SubSeq(t, 1, n)
    BY <1>2, <1>3, <2>1, <2>3, Zenon
  <2> QED
    BY <2>4, Zenon DEF ThreePieces, Row, Cat
<1> HIDE DEF F, t, n
<1>9. EndsLine(Joined(lines'[w])) \/ EndsFull(Joined(lines'[w])) \/ AtEnd(w)'
  BY <1>3, <1>7, EndsAfter
<1>10. Headers(w)' <=>
        /\ pc'[w] = "headers" => \/ EndsLine(Joined(lines'[w])) \/ EndsFull(Joined(lines'[w])) \/ AtEnd(w)'
        /\ pc'[w] \in Late /\ req'[w] # "post" /\ ~LongLine(text'[fd'[w]]) => HasBlank(Joined(lines'[w]))
  BY Zenon DEF Headers, EndsLine, EndsFull, LongLine, HasBlank, Late
<1>11. CASE pc[w] = "request"
  <2>1. pc'[w] = "headers" \/ req'[w] = "post"
    <3>1. IF l[1] = "post" THEN req' = [req EXCEPT ![w] = l[1]] ELSE pc' = [pc EXCEPT ![w] = "headers"]
      BY <1>11 DEF GetsLine
    <3> QED
      BY <3>1, Zenon DEF IInv, Typed, WriteInv
  <2> QED
    BY <1>9, <1>10, <2>1 DEF Late
<1>12. CASE pc[w] = "headers"
  <2>1. pc'[w] = IF EmptyLine(l) THEN "stat" ELSE "headers"
    BY <1>12 DEF GetsLine, IInv, Typed
  <2>2. CASE EmptyLine(l)
    <3>1. l = Blank /\ l # <<>>
      BY <2>2 DEF EmptyLine, Blank
    <3>2. EndsLine(F) \/ EndsFull(F)
      BY <1>4, <1>12, Zenon DEF HeaderInv, Headers, F
    <3>3. CASE EndsLine(F)
      <4>1. HasBlank(Joined(lines'[w]))
        BY <1>3, <3>1, <3>3, BlankAfter
      <4> QED
        BY <1>10, <2>1, <2>2, <4>1, Zenon
    <3>4. CASE EndsFull(F)
      <4>1. LongLine(t)
        BY <1>1, <1>3, <1>5, <1>8, <3>1, <3>4, LongAfter, Zenon
      <4>2. LongLine(text'[fd'[w]])
        BY <4>1 DEF t
      <4> QED
        BY <1>10, <2>1, <2>2, <4>2, Zenon
    <3> QED
      BY <3>2, <3>3, <3>4
  <2>3. CASE ~EmptyLine(l)
    BY <1>9, <1>10, <2>1, <2>3, Zenon DEF Late
  <2> QED
    BY <2>2, <2>3
<1> QED
  BY <1>4, <1>11, <1>12

\* Steps that read nothing, and those of other workers, keep what was seen of the headers.
LEMMA OtherHeaders ==
  ASSUME HeaderInv, NEW v \in Workers, Handling(v)', text' = text, fd'[v] = fd[v],
         lines'[v] = lines[v], req'[v] = req[v], AtEnd(v) => AtEnd(v)',
         pc'[v] = "headers" => pc[v] = "headers", pc'[v] \in Late => pc[v] \in Late,
         pc[v] = "idle" => pc'[v] = "idle"
  PROVE  Headers(v)'
<1>1. Handling(v)
  BY DEF Handling
<1>2. Headers(v)
  BY <1>1, Zenon DEF HeaderInv
<1> QED
  BY <1>2, StillHeaders, SMTT(30)

\* A byte taken ends a line or leaves the lines as they are.
LEMMA TakeByteHeaders ==
  ASSUME IInv, ReadInv, ReadInv', WriteInv, HeaderInv, NEW w \in Workers, TakeByte(w)
  PROVE  HeaderInv'
<1> DEFINE l == Append(line[w], Head(rio[w]))
<1>0. /\ UNCHANGED <<text, sent, hung, got, fd, open>> /\ pc[w] \in {"request", "headers"}
      /\ rio[w] # <<>> /\ rio' = [rio EXCEPT ![w] = Tail(rio[w])] /\ l \in Seq(Symbols)
  BY TakeByteShape, Zenon
<1>1. ~AtEnd(w)
  BY <1>0 DEF AtEnd
<1>2. CASE l[Len(l)] = "nl" \/ Full(l)
  <2>1. GetsLine(w, l)
    BY <1>2, Zenon DEF TakeByte
  <2> HIDE DEF l
  <2>2. \A v \in Workers : v # w => pc'[v] = pc[v] /\ lines'[v] = lines[v] /\ line'[v] = line[v]
    BY <1>0, <2>1, GetsLineShape, Zenon DEF ReadInv, Buffers
  <2>3. \A v \in Workers : v # w => req'[v] = req[v] /\ rio'[v] = rio[v]
    BY <1>0, <2>1, Zenon DEF GetsLine, WriteInv, ReadInv, Buffers
  <2>4. ASSUME Handling(w)' PROVE Headers(w)'
    BY <1>0, <1>1, <2>1, <2>4, LineHeaders
  <2>5. ASSUME NEW v \in Workers, v # w, Handling(v)' PROVE Headers(v)'
    <3>1. AtEnd(v) => AtEnd(v)'
      BY <1>0, <2>2, <2>3, <2>5 DEF AtEnd
    <3> QED
      BY <1>0, <2>2, <2>3, <2>5, <3>1, OtherHeaders, Zenon
  <2> QED
    BY <2>4, <2>5 DEF HeaderInv
<1>3. CASE ~(l[Len(l)] = "nl" \/ Full(l))
  <2>1. line' = [line EXCEPT ![w] = l] /\ UNCHANGED <<lines, pc, req>>
    BY <1>3, Zenon DEF TakeByte
  <2> HIDE DEF l
  <2>2. ASSUME NEW v \in Workers, Handling(v)' PROVE Headers(v)'
    <3>1. AtEnd(v) => AtEnd(v)'
      <4>1. CASE v = w
        BY <1>1, <4>1, SMTT(30)
      <4>2. CASE v # w
        BY <1>0, <2>1, <4>2 DEF AtEnd, ReadInv, Buffers
      <4> QED
        BY <4>1, <4>2
    <3> QED
      BY <1>0, <2>1, <2>2, <3>1, OtherHeaders, Zenon
  <2> QED
    BY <2>2 DEF HeaderInv
<1> QED
  BY <1>2, <1>3

\* The end of the file ends the line that was begun.
LEMMA EndOfFileHeaders ==
  ASSUME IInv, ReadInv, ReadInv', WriteInv, HeaderInv, NEW w \in Workers, EndOfFile(w)
  PROVE  HeaderInv'
<1> DEFINE l == line[w]
<1>1. UNCHANGED <<text, sent, hung, got, rio, fd, open>> /\ rio[w] = <<>>
      /\ pc[w] \in {"request", "headers"} /\ got[fd[w]] = Len(text[fd[w]])
  BY Zenon DEF EndOfFile, clientVars, Reading
<1>2. l \in Seq(Symbols) /\ lines \in [Workers -> Seq(Seq(Symbols))] /\ line \in [Workers -> Seq(Symbols)]
  BY DEF ReadInv, Buffers
<1>3. ASSUME NEW m \in Seq(Symbols), GetsLine(w, m), NEW v \in Workers, v # w, Handling(v)'
      PROVE  Headers(v)'
  <2>1. pc'[v] = pc[v] /\ lines'[v] = lines[v] /\ line'[v] = line[v]
    BY <1>2, <1>3, GetsLineShape, Zenon
  <2>2. req'[v] = req[v]
    BY <1>3, Zenon DEF GetsLine, WriteInv
  <2>3. AtEnd(v) => AtEnd(v)'
    BY <1>1, <2>1, Zenon DEF AtEnd
  <2> QED
    BY <1>1, <1>3, <2>1, <2>2, <2>3, OtherHeaders, Zenon
<1>4. CASE l # <<>> /\ GetsLine(w, l)
  <2>1. ~AtEnd(w)
    BY <1>4 DEF AtEnd
  <2> HIDE DEF l
  <2>2. ASSUME Handling(w)' PROVE Headers(w)'
    BY <1>1, <1>2, <1>4, <2>1, <2>2, LineHeaders, Zenon
  <2> QED
    BY <1>2, <1>3, <1>4, <2>2 DEF HeaderInv
<1>5. ASSUME NEW u \in DOMAIN Uri \cup {"post"}, line[w] = <<>>, pc[w] = "request", GetsLine(w, <<u>>)
      PROVE  HeaderInv'
  <2>1. <<u>> \in Seq(Symbols)
    BY DEF Symbols
  <2>2. ~Handling(w)'
    BY <1>1, <1>5, SomeRequest, Zenon DEF Handling
  <2> QED
    BY <1>3, <1>5, <2>1, <2>2, Zenon DEF HeaderInv
<1>6. CASE Goto(w, "headers", "spin") /\ UNCHANGED <<line, lines, req>>
  <2>1. \A v \in Workers : /\ pc'[v] = "headers" => pc[v] = "headers"
                           /\ pc'[v] \in Late => pc[v] \in Late
    BY <1>6 DEF Goto, IInv, Typed, Late
  <2>2. ASSUME NEW v \in Workers, Handling(v)' PROVE Headers(v)'
    <3>1. AtEnd(v) => AtEnd(v)'
      BY <1>1, <1>6, Zenon DEF AtEnd
    <3>2. pc[v] = "idle" => pc'[v] = "idle"
      BY <1>6 DEF Goto, IInv, Typed
    <3> QED
      BY <1>1, <1>6, <2>1, <2>2, <3>1, <3>2, OtherHeaders, Zenon
  <2> QED
    BY <2>2 DEF HeaderInv
<1> QED
  BY <1>4, <1>5, <1>6, Zenon DEF EndOfFile

\* A refill belongs to one worker, which was not at the end of its connection.
LEMMA RefillHeaders ==
  ASSUME IInv, ReadInv, HeaderInv, NEW w \in Workers, Refill(w)
  PROVE  HeaderInv'
<1> DEFINE c == fd[w]
<1>1. UNCHANGED <<text, sent, hung, line, lines, pc, fd, open, req>>
      /\ pc[w] \in {"request", "headers"} /\ rio[w] = <<>>
  BY DEF Refill, clientVars, workVars, Reading
<1>2. PICK n \in 1 .. Min({RIO_BUFSIZE, sent[c] - got[c]}) :
         /\ rio' = [rio EXCEPT ![w] = SubSeq(text[c], got[c] + 1, got[c] + n)]
         /\ got' = [got EXCEPT ![c] = @ + n]
  BY Zenon DEF Refill
<1>3. c \in Conns
  BY <1>1 DEF IInv, Own
<1>4. sent[c] \in Nat /\ got[c] \in Nat /\ RIO_BUFSIZE \in Nat /\ (hung[c] => sent[c] = Len(text[c]))
  BY <1>1, <1>3, SizesAssumption, Zenon DEF ReadInv, Clients
<1>5. got[c] < sent[c]
  <2>1. sent[c] - got[c] \in Int /\ RIO_BUFSIZE \in Int
    BY <1>4
  <2>2. Min({RIO_BUFSIZE, sent[c] - got[c]}) =< sent[c] - got[c] /\ Min({RIO_BUFSIZE, sent[c] - got[c]}) \in Int
    BY <2>1, MinOfTwo, Zenon
  <2> HIDE DEF c
  <2> QED
    BY <1>4, <2>1, <2>2
<1>6. ~AtEnd(w)
  BY <1>4, <1>5 DEF AtEnd
<1>7. ASSUME NEW v \in Workers, Handling(v)' PROVE Headers(v)'
  <2>1. AtEnd(v) => AtEnd(v)'
    <3>1. CASE v = w
      BY <1>6, <3>1
    <3>2. CASE v # w
      <4>1. fd[v] # c /\ fd[v] \in Conns
        BY <1>1, <1>7, <3>2, Zenon DEF Handling, IInv, Own
      <4> QED
        BY <1>1, <1>2, <3>2, <4>1, Zenon DEF AtEnd, ReadInv, Clients, Buffers
    <3> QED
      BY <3>1, <3>2, SMTT(30)
  <2> QED
    BY <1>1, <1>7, <2>1, OtherHeaders, Zenon
<1> QED
  BY <1>7 DEF HeaderInv

\* Steps that leave the reader alone keep the worker's place before or after the headers.
LEMMA PlaceHeaders ==
  ASSUME HeaderInv, UNCHANGED <<text, got, rio, line, lines, fd, req>>,
         \A v \in Workers : hung[fd[v]] => hung'[fd[v]],
         \A v \in Workers : /\ pc'[v] = "headers" => pc[v] = "headers"
                            /\ pc'[v] \in Late => pc[v] \in Late
                            /\ pc[v] = "idle" => pc'[v] = "idle"
  PROVE  HeaderInv'
<1>1. ASSUME NEW v \in Workers, Handling(v)' PROVE Headers(v)'
  <2>1. AtEnd(v) => AtEnd(v)'
    BY DEF AtEnd
  <2> QED
    BY <1>1, <2>1, OtherHeaders, Zenon
<1> QED
  BY <1>1 DEF HeaderInv

\* Every step of a worker keeps what was seen of the headers.
LEMMA WorkerHeaders ==
  ASSUME IInv, ReadInv, ReadInv', WriteInv, HeaderInv, NEW w \in Workers, Worker(w)
  PROVE  HeaderInv'
<1>1. CASE Stat(w) \/ requestServeStatic(w) \/ Written(w) \/ Fork(w) \/ Wait(w) \/ Close(w)
  <2>1. UNCHANGED <<text, hung, got, rio, line, lines, fd, req>>
    BY <1>1, Zenon DEF Stat, requestServeStatic, Written, Fork, Wait, Close, clientVars, readVars
  <2>2. \E q \in {"write", "open", "fork", "done", "wait", "idle"} : pc[w] \in Late /\ pc' = [pc EXCEPT ![w] = q]
    BY <1>1, Zenon DEF Stat, requestServeStatic, Written, Fork, Wait, Close, Goto, Late
  <2>3. \A v \in Workers : /\ pc'[v] = "headers" => pc[v] = "headers"
                           /\ pc'[v] \in Late => pc[v] \in Late
                           /\ pc[v] = "idle" => pc'[v] = "idle"
    BY <2>2 DEF IInv, Typed, Late
  <2> QED
    BY <2>1, <2>3, PlaceHeaders
<1>2. CASE EmptyFile(w) \/ Rio_writen(w)
  <2>1. UNCHANGED <<text, hung, got, rio, line, lines, fd, pc, req>>
    BY <1>2 DEF EmptyFile, Fails, Rio_writen, clientVars, readVars, workVars
  <2> QED
    BY <2>1, PlaceHeaders, SMTT(30)
<1> QED
  BY <1>1, <1>2, TakeByteHeaders, RefillHeaders, EndOfFileHeaders, SMTT(30) DEF Worker

\* A worker that begins a request has read no header.
LEMMA HandleHeaders ==
  ASSUME IInv, ReadInv, HeaderInv, NEW w \in Workers, NEW c \in Conns, requestHandle(w, c)
  PROVE  HeaderInv'
<1>1. /\ UNCHANGED <<text, sent, hung, got, req>> /\ fd' = [fd EXCEPT ![w] = c]
      /\ pc' = [pc EXCEPT ![w] = "request"]
      /\ rio' = [rio EXCEPT ![w] = <<>>] /\ line' = [line EXCEPT ![w] = <<>>]
      /\ lines' = [lines EXCEPT ![w] = <<>>]
  BY DEF requestHandle, Goto, clientVars
<1>2. pc'[w] = "request"
      /\ \A v \in Workers : v # w => /\ pc'[v] = pc[v] /\ fd'[v] = fd[v] /\ rio'[v] = rio[v]
                                     /\ line'[v] = line[v] /\ lines'[v] = lines[v]
  BY <1>1 DEF IInv, Typed, ReadInv, Buffers
<1>3. Headers(w)'
  BY <1>2, Zenon DEF Headers, Late
<1>4. ASSUME NEW v \in Workers, v # w, Handling(v)' PROVE Headers(v)'
  <2>1. AtEnd(v) => AtEnd(v)'
    BY <1>1, <1>2, <1>4, Zenon DEF AtEnd
  <2> QED
    BY <1>1, <1>2, <1>4, <2>1, OtherHeaders
<1> QED
  BY <1>3, <1>4 DEF HeaderInv

\* HeaderInv is inductive, given the invariants of control, reader and writers.
LEMMA HeaderInductive == IInv /\ ReadInv /\ WriteInv /\ HeaderInv /\ [Next]_vars => HeaderInv'
<1> SUFFICES ASSUME IInv, ReadInv, WriteInv, HeaderInv, [Next]_vars PROVE HeaderInv'
  OBVIOUS
<1>0. ReadInv'
  BY ReadInductive, SMTT(30)
<1>1. CASE UNCHANGED vars
  <2>1. UNCHANGED <<text, hung, got, rio, line, lines, fd, pc, req>>
    BY <1>1 DEF vars, clientVars, readVars, workVars
  <2> QED
    BY <2>1, PlaceHeaders
<1>2. ASSUME NEW c \in Conns, Send(c) \/ HangUp(c) \/ CgiRuns(c) PROVE HeaderInv'
  <2>1. UNCHANGED <<text, got, rio, line, lines, fd, pc, req>>
    BY <1>2 DEF Send, HangUp, CgiRuns, clientVars, readVars, workVars
  <2>2. \A d \in Conns : hung[d] => hung'[d]
    BY <1>2, Zenon DEF Send, HangUp, CgiRuns, clientVars, ReadInv, Clients
  <2>3. ASSUME NEW v \in Workers, Handling(v)' PROVE Headers(v)'
    <3>1. fd[v] \in Conns
      BY <2>1, <2>3, Zenon DEF Handling, IInv, Own
    <3>2. AtEnd(v) => AtEnd(v)'
      BY <2>1, <2>2, <3>1 DEF AtEnd
    <3> QED
      BY <2>1, <2>3, <3>2, OtherHeaders, Zenon
  <2> QED
    BY <2>3, SMTT(30) DEF HeaderInv
<1>3. ASSUME NEW w \in Workers, Fails(w) PROVE HeaderInv'
  <2>1. UNCHANGED <<text, hung, got, rio, line, lines, fd, pc, req>>
    BY <1>3 DEF Fails, clientVars, readVars, workVars
  <2> QED
    BY <2>1, PlaceHeaders, Zenon
<1> QED
  BY <1>0, <1>1, <1>2, <1>3, WorkerHeaders, HandleHeaders DEF Next

\* requestReadhdrs() "reads and discards everything up to an empty text line": a GET is not
\* looked at before its empty line was read, unless a line is longer than the buffer.
THEOREM HeadersFirstHolds == Spec => []HeadersFirst
<1>1. Init => HeaderInv
  <2> SUFFICES ASSUME Init PROVE HeaderInv
    OBVIOUS
  <2> QED
    BY Zenon DEF Init, HeaderInv, Handling
<1>2. HeaderInv => HeadersFirst
  BY DEF HeaderInv, Headers, HeadersFirst, Late
<1> QED
  BY InitControl, Inductive, ReadInit, ReadInductive, WriteInit, WriteInductive, <1>1, HeaderInductive, <1>2, PTL DEF Spec
=============================================================================
