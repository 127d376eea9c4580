------------------------------ MODULE Request ------------------------------
(***************************************************************************)
(* What a worker of the web server does with a connection: requestHandle() *)
(* of request.c with the Rio package and the wrappers of helper.c.         *)
(*                                                                         *)
(* A client sends a text and may hang up after it.  read() hands over what *)
(* has arrived in pieces of any size; write() takes pieces of any size.    *)
(* The texts are sequences of symbols: the first one of a request line     *)
(* stands for its method and URI, "h" for any character of a header line,  *)
(* "nl" for the end of a line.  Lines longer than a buffer are therefore   *)
(* cut where the code cuts them.                                           *)
(*                                                                         *)
(* The wrappers end the whole process when a call fails.  The CGI programs *)
(* are children of the server: they inherit every descriptor open at the   *)
(* fork, and any worker may reap them (the pid that requestServeDynamic    *)
(* waits for is always 0, which means any child).                          *)
(***************************************************************************)
EXTENDS Integers, Sequences, FiniteSetsExt

CONSTANTS Workers,
          Texts,        \* connection -> the texts its client may send
          Uri,          \* name of a URI -> what requestParseURI and stat see of it
          MAXLINE,      \* size of a line buffer
          RIO_BUFSIZE,  \* size of the buffer of rio_t
          PieceSize,    \* bound: how many parts one Rio_writen can be split into
          StdoutTty     \* the server's own standard output is a terminal

Conns == DOMAIN Texts
Symbols == DOMAIN Uri \cup {"post", "h", "nl"}
Files == {"missing", "irregular", "unreadable", "plain", "empty", "program"}

ASSUME SizesAssumption == MAXLINE \in Nat \ {0, 1} /\ RIO_BUFSIZE \in Nat \ {0}
                          /\ PieceSize \in Nat \ {0}
ASSUME TextsAssumption == \A c \in Conns : \A t \in Texts[c] :
    /\ t \in Seq(Symbols)
    /\ t # <<>> => t[1] \in DOMAIN Uri \cup {"post"} /\ Range(Tail(t)) \subseteq {"h", "nl"}
ASSUME UriAssumption == \A u \in DOMAIN Uri :
    Uri[u] \in [dots : BOOLEAN, cgi : BOOLEAN, file : Files]

VARIABLES text, sent, hung,  \* of a client: its text, how much has arrived, hung up
          got,      \* connection -> how much read() has taken
          open,     \* connection -> the server's descriptor: "queued", "open", "closed"
          out,      \* connection -> what was written to it
          pc, fd,   \* of a worker
          rio,      \* worker -> the unread bytes of its rio_t
          line,     \* worker -> the line rio_readlineb is assembling
          lines,    \* worker -> the lines it has read on this connection
          req,      \* worker -> the method and URI of the request
          resp,     \* worker -> what is left to write, one part per Rio_writen
          child,    \* connection -> state of its CGI process
          holds,    \* connection -> connections its CGI process has open
          unrun,    \* history: connections whose CGI program could not be run
          proc      \* the server process

clientVars == <<text, sent, hung>>
readVars == <<got, rio, line, lines>>
childVars == <<child, holds, unrun>>
workVars == <<pc, fd, req, resp>>
vars == <<clientVars, readVars, childVars, workVars, open, out, proc>>

Blank == <<"nl">>

---------------------------------------------------------------------------
(* requestParseURI: a URI with ".." names the home page; one without "cgi"  *)
(* is static.                                                               *)
requestParseURI(u) == [static |-> Uri[u].dots \/ ~Uri[u].cgi,
                       file   |-> IF Uri[u].dots THEN "plain" ELSE Uri[u].file]

(* What the worker sends is cut in parts, each <<what, number>>. *)
Parts(what) == [k \in 1 .. PieceSize |-> <<what, k>>]

(* requestError: three header lines and a body. *)
requestError(code) == Parts(<<code, "status">>) \o Parts(<<code, "type">>)
                      \o Parts(<<code, "length">>) \o Parts(<<code, "body">>)

ServerPart(kind) == IF kind = "static" THEN Parts(<<200, "header">>) \o Parts(<<200, "file">>)
                                       ELSE Parts(<<200, "header">>)
CgiPart == Parts(<<200, "cgi">>)

(* The answer to a request line, and all that its client should receive. *)
Answer(u) == IF u = "post" THEN 501
             ELSE LET r == requestParseURI(u) IN
                  CASE r.file = "missing" -> 404
                    [] r.static /\ r.file \in {"irregular", "unreadable"} -> 403
                    [] ~r.static /\ r.file # "program" -> 403
                    [] OTHER -> 200

Expected(c) == LET u == text[c][1] IN
    IF Answer(u) # 200 THEN requestError(Answer(u))
    ELSE IF requestParseURI(u).static THEN ServerPart("static")
    ELSE ServerPart("dynamic") \o CgiPart

---------------------------------------------------------------------------
Init == /\ text \in {t \in [Conns -> UNION {Texts[c] : c \in Conns}] : \A c \in Conns : t[c] \in Texts[c]}
        /\ sent = [c \in Conns |-> 0] /\ hung = [c \in Conns |-> FALSE]
        /\ got = [c \in Conns |-> 0]
        /\ open = [c \in Conns |-> "queued"]
        /\ out = [c \in Conns |-> <<>>]
        /\ pc = [w \in Workers |-> "idle"] /\ fd = [w \in Workers |-> 0]
        /\ rio = [w \in Workers |-> <<>>]
        /\ line = [w \in Workers |-> <<>>] /\ lines = [w \in Workers |-> <<>>]
        /\ req = [w \in Workers |-> "none"] /\ resp = [w \in Workers |-> <<>>]
        /\ child = [c \in Conns |-> "none"] /\ holds = [c \in Conns |-> {}] /\ unrun = {}
        /\ proc = "up"

(* The client (external). *)
Send(c) == /\ sent[c] < Len(text[c])
           /\ sent' = [sent EXCEPT ![c] = @ + 1]
           /\ UNCHANGED <<text, hung, readVars, childVars, workVars, open, out, proc>>

HangUp(c) == /\ sent[c] = Len(text[c]) /\ ~hung[c]
             /\ hung' = [hung EXCEPT ![c] = TRUE]
             /\ UNCHANGED <<text, sent, readVars, childVars, workVars, open, out, proc>>

---------------------------------------------------------------------------
Goto(w, p, q) == proc = "up" /\ pc[w] = p /\ pc' = [pc EXCEPT ![w] = q]

(* requestHandle is called with a connection from the queue; it sets up its *)
(* reader (Rio_readinitb).                                                  *)
requestHandle(w, c) ==
    /\ open[c] = "queued"
    /\ Goto(w, "idle", "request")
    /\ fd' = [fd EXCEPT ![w] = c]
    /\ open' = [open EXCEPT ![c] = "open"]
    /\ rio' = [rio EXCEPT ![w] = <<>>]
    /\ line' = [line EXCEPT ![w] = <<>>] /\ lines' = [lines EXCEPT ![w] = <<>>]
    /\ UNCHANGED <<clientVars, got, childVars, req, resp, out, proc>>

(* Mutants: the loop ends at any line, or compares with a bare newline. *)
AnyLine(l) == l[Len(l)] = "nl"
NoCarriageReturn(l) == l = <<"lf">>

(* strcmp(buf, "\r\n") in requestReadhdrs. *)
EmptyLine(l) == l = Blank

(* rio_readlineb has a line l for its caller: the request line (sscanf and  *)
(* the test of the method) or a header line (the loop of requestReadhdrs).  *)
GetsLine(w, l) ==
    /\ proc = "up"
    /\ line' = [line EXCEPT ![w] = <<>>]
    /\ lines' = [lines EXCEPT ![w] = Append(@, l)]
    /\ \/ /\ pc[w] = "request"
          /\ req' = [req EXCEPT ![w] = l[1]]
          /\ IF l[1] = "post"
             THEN /\ pc' = [pc EXCEPT ![w] = "write"]
                  /\ resp' = [resp EXCEPT ![w] = requestError(501)]
             ELSE pc' = [pc EXCEPT ![w] = "headers"] /\ UNCHANGED resp
       \/ /\ pc[w] = "headers"
          /\ pc' = [pc EXCEPT ![w] = IF EmptyLine(l) THEN "stat" ELSE "headers"]
          /\ UNCHANGED <<req, resp>>

Reading(w) == proc = "up" /\ pc[w] \in {"request", "headers"}

(* Mutant: the loop of rio_readlineb runs up to maxlen. *)
OverFull(l) == Len(l) = MAXLINE

Full(l) == Len(l) = MAXLINE - 1

(* One turn of the loop of rio_readlineb: rio_read gives a byte it has. *)
TakeByte(w) ==
    /\ Reading(w) /\ rio[w] # <<>>
    /\ LET l == Append(line[w], Head(rio[w])) IN
       IF l[Len(l)] = "nl" \/ Full(l)
       THEN GetsLine(w, l)
       ELSE line' = [line EXCEPT ![w] = l] /\ UNCHANGED <<lines, pc, req, resp>>
    /\ rio' = [rio EXCEPT ![w] = Tail(@)]
    /\ UNCHANGED <<clientVars, got, childVars, fd, open, out, proc>>

(* rio_read finds its buffer empty and read() brings n bytes. *)
Refill(w) ==
    /\ Reading(w) /\ rio[w] = <<>>
    /\ LET c == fd[w] IN \E n \in 1 .. Min({RIO_BUFSIZE, sent[c] - got[c]}) :
          /\ rio' = [rio EXCEPT ![w] = SubSeq(text[c], got[c] + 1, got[c] + n)]
          /\ got' = [got EXCEPT ![c] = @ + n]
    /\ UNCHANGED <<clientVars, line, lines, childVars, workVars, open, out, proc>>

(* read() returns 0.  With part of a line read, that is the line; with      *)
(* nothing read rio_readlineb leaves the caller's buffer alone: the request *)
(* line is whatever was there, and requestReadhdrs, which does not look at  *)
(* the result, sees its last line again and calls again, for ever.          *)
EndOfFile(w) ==
    /\ Reading(w) /\ rio[w] = <<>>
    /\ hung[fd[w]] /\ got[fd[w]] = Len(text[fd[w]])
    /\ \/ line[w] # <<>> /\ GetsLine(w, line[w])
       \/ /\ line[w] = <<>> /\ pc[w] = "request"
          /\ \E u \in DOMAIN Uri \cup {"post"} : GetsLine(w, <<u>>)
       \/ /\ line[w] = <<>> /\ Goto(w, "headers", "spin")
          /\ UNCHANGED <<line, lines, req, resp>>
    /\ UNCHANGED <<clientVars, got, rio, childVars, fd, open, out, proc>>

---------------------------------------------------------------------------
(* requestHandle after the headers: stat and the tests of the mode. *)
Stat(w) ==
    /\ pc[w] = "stat"
    /\ LET a == Answer(req[w])
           static == requestParseURI(req[w]).static
       IN \/ a # 200 /\ Goto(w, "stat", "write") /\ resp' = [resp EXCEPT ![w] = requestError(a)]
          \/ a = 200 /\ static /\ Goto(w, "stat", "open") /\ UNCHANGED resp
          \/ a = 200 /\ ~static /\ Goto(w, "stat", "write") /\ resp' = [resp EXCEPT ![w] = ServerPart("dynamic")]
    /\ UNCHANGED <<clientVars, readVars, childVars, req, fd, open, out, proc>>

(* requestServeStatic opens and maps the file, and writes header and file. *)
requestServeStatic(w) ==
    /\ Goto(w, "open", "write")
    /\ requestParseURI(req[w]).file # "empty"
    /\ resp' = [resp EXCEPT ![w] = ServerPart("static")]
    /\ UNCHANGED <<clientVars, readVars, childVars, req, fd, open, out, proc>>

(* write() inside Rio_writen takes the next part. *)
Rio_writen(w) ==
    /\ proc = "up" /\ pc[w] = "write" /\ resp[w] # <<>>
    /\ out' = [out EXCEPT ![fd[w]] = Append(@, Head(resp[w]))]
    /\ resp' = [resp EXCEPT ![w] = Tail(@)]
    /\ UNCHANGED <<clientVars, readVars, childVars, pc, req, fd, open, proc>>

(* Mutant: no return after the 403 of a CGI program. *)
DynamicAnyway(u) == u # "post" /\ ~requestParseURI(u).static

(* requestHandle has called requestServeDynamic. *)
Dynamic(u) == u # "post" /\ Answer(u) = 200 /\ ~requestParseURI(u).static

(* Mutant: a short write() is not continued. *)
WrittenShort(w) ==
    /\ Goto(w, "write", IF Dynamic(req[w]) THEN "fork" ELSE "done")
    /\ resp' = [resp EXCEPT ![w] = <<>>]
    /\ UNCHANGED <<clientVars, readVars, childVars, req, fd, open, out, proc>>

(* All is written.  A CGI request goes on to fork. *)
Written(w) ==
    /\ resp[w] = <<>>
    /\ Goto(w, "write", IF Dynamic(req[w]) THEN "fork" ELSE "done")
    /\ UNCHANGED <<clientVars, readVars, childVars, req, resp, fd, open, out, proc>>

(* requestServeDynamic forks; the child has every descriptor open now. *)
Fork(w) ==
    /\ Goto(w, "fork", "wait")
    /\ child' = [child EXCEPT ![fd[w]] = "running"]
    /\ holds' = [holds EXCEPT ![fd[w]] = {c \in Conns : open[c] # "closed"}]
    /\ UNCHANGED <<clientVars, readVars, unrun, req, resp, fd, open, out, proc>>

(* Mutant: every child that has ended is reaped. *)
WaitAll(w) ==
    /\ \E c \in Conns : child[c] = "zombie"
    /\ Goto(w, "wait", "done")
    /\ child' = [c \in Conns |-> IF child[c] = "zombie" THEN "reaped" ELSE child[c]]
    /\ UNCHANGED <<clientVars, readVars, holds, unrun, req, resp, fd, open, out, proc>>

(* waitpid(0, ...): some child that has ended is reaped. *)
Wait(w) ==
    /\ Goto(w, "wait", "done")
    /\ \E c \in Conns : child[c] = "zombie" /\ child' = [child EXCEPT ![c] = "reaped"]
    /\ UNCHANGED <<clientVars, readVars, holds, unrun, req, resp, fd, open, out, proc>>

(* thread_function closes the descriptor after requestHandle. *)
Close(w) ==
    /\ Goto(w, "done", "idle")
    /\ open' = [open EXCEPT ![fd[w]] = "closed"]
    /\ UNCHANGED <<clientVars, readVars, childVars, req, resp, fd, out, proc>>

(* A call of a wrapper fails: exit(0) ends the server. *)
Fails(w) ==
    /\ proc = "up" /\ pc[w] \in {"request", "headers", "open", "write", "fork"}
    /\ proc' = "exited"
    /\ UNCHANGED <<clientVars, readVars, childVars, workVars, open, out>>

(* mmap of length 0 always fails. *)
EmptyFile(w) ==
    /\ pc[w] = "open" /\ requestParseURI(req[w]).file = "empty"
    /\ Fails(w)

(* The child: Setenv, Dup2 to the standard output and Execve, then what the *)
(* CGI program writes until it ends.  If execve fails the child calls       *)
(* exit(0), which writes out log lines it may have inherited unflushed.     *)
CgiRuns(c) ==
    /\ child[c] = "running"
    /\ child' = [child EXCEPT ![c] = "zombie"]
    /\ \/ out' = [out EXCEPT ![c] = @ \o CgiPart] /\ UNCHANGED unrun
       \/ /\ out' = IF StdoutTty THEN out ELSE [out EXCEPT ![c] = @ \o Parts(<<0, "log">>)]
          /\ unrun' = unrun \cup {c}
    /\ UNCHANGED <<clientVars, readVars, holds, workVars, open, proc>>

---------------------------------------------------------------------------
Worker(w) == \/ TakeByte(w) \/ Refill(w) \/ EndOfFile(w)
             \/ Stat(w) \/ requestServeStatic(w) \/ EmptyFile(w) \/ Rio_writen(w) \/ Written(w)
             \/ Fork(w) \/ Wait(w) \/ Close(w)

Next == \/ \E c \in Conns : Send(c) \/ HangUp(c) \/ CgiRuns(c)
        \/ \E w \in Workers : Worker(w) \/ Fails(w) \/ \E c \in Conns : requestHandle(w, c)

(* Clients send what they have to send, workers and CGI programs go on.     *)
Spec == /\ Init /\ [][Next]_vars
        /\ \A c \in Conns : /\ WF_vars(Send(c)) /\ WF_vars(CgiRuns(c))
                            /\ WF_vars(\E w \in Workers : requestHandle(w, c))
        /\ \A w \in Workers : WF_vars(Worker(w))

---------------------------------------------------------------------------
(* Every variable keeps its type. *)
TypeOK == /\ \A c \in Conns : got[c] <= sent[c] /\ sent[c] <= Len(text[c])
          /\ open \in [Conns -> {"queued", "open", "closed"}]
          /\ child \in [Conns -> {"none", "running", "zombie", "reaped"}]
          /\ pc \in [Workers -> {"idle", "request", "headers", "spin", "stat", "open", "write",
                                 "fork", "wait", "done"}]
          /\ proc \in {"up", "exited"}

(* All that is in the sequences of ss, and s as the beginning of t. *)
Joined(ss) == LET upTo[i \in 0 .. Len(ss)] == IF i = 0 THEN <<>> ELSE upTo[i - 1] \o ss[i] IN upTo[Len(ss)]
IsPrefix(s, t) == Len(s) <= Len(t) /\ s = SubSeq(t, 1, Len(s))

Handling(w) == pc[w] # "idle" /\ text[fd[w]] # <<>>
HasBlank(t) == \E i \in 2 .. Len(t) : t[i - 1] = "nl" /\ t[i] = "nl"
LongLine(t) == \E i, j \in 1 .. Len(t) : j - i >= MAXLINE - 1 /\ \A k \in i .. j - 1 : t[k] # "nl"

(* Whatever the sizes in which bytes arrive, the lines that rio_readlineb    *)
(* has returned, the line it is assembling and what is left in its buffer    *)
(* are together what was read, and a line ends at a newline, when the        *)
(* caller's buffer is full but for the final 0, or at the end of the file;   *)
(* read() never takes more than has arrived.                                 *)
LinesFaithful == TypeOK /\ \A w \in Workers : Handling(w) =>
    /\ Joined(lines[w]) \o line[w] \o rio[w] = SubSeq(text[fd[w]], 1, got[fd[w]])
    /\ \A i \in DOMAIN lines[w] : LET l == lines[w][i] IN
          /\ Len(l) < MAXLINE /\ \A k \in 1 .. Len(l) - 1 : l[k] # "nl"
          /\ l[Len(l)] = "nl" \/ Len(l) = MAXLINE - 1 \/ (hung[fd[w]] /\ i = Len(lines[w]))

(* requestReadhdrs "reads and discards everything up to an empty text line": *)
(* a GET is not looked at before its empty line was read.  Not promised for  *)
(* a text with a line longer than the buffer.                                *)
HeadersFirst == \A w \in Workers :
    Handling(w) /\ req[w] # "post" /\ ~LongLine(text[fd[w]])
       /\ pc[w] \in {"stat", "open", "write", "fork", "wait", "done"} =>
    HasBlank(Joined(lines[w]))

(* A client receives the parts of the one answer to its request, in order,   *)
(* whichever workers and children write at the same time.                    *)
AnswerInOrder == \A c \in Conns : text[c] # <<>> => IsPrefix(out[c], Expected(c))

(* The client sees the end of the file when every copy of the descriptor is  *)
(* closed, the inherited ones of other clients' CGI programs included.       *)
EndSeen(c) == open[c] = "closed" /\ \A d \in Conns : c \in holds[d] => child[d] # "running"

(* While the server is up no client sees the end before the whole answer,    *)
(* although a worker may return from requestServeDynamic, and close the      *)
(* connection, with another worker's child reaped and its own still running. *)
AnswerWhole == \A c \in Conns :
    EndSeen(c) /\ text[c] # <<>> /\ c \notin unrun => out[c] = Expected(c)

(* waitpid(0) always finds a child to wait for: the workers that wait can be *)
(* paired with the children not reaped, so none of either is left over.      *)
WaitersMatchChildren ==
    Bijection({w \in Workers : pc[w] = "wait"},
              {c \in Conns : child[c] \in {"running", "zombie"}}) # {}

(* A client that sends a whole request sees the end of an answer, as long as *)
(* the server is up.                                                         *)
RequestsEnd == \A c \in Conns :
    [](text[c] # <<>> /\ (HasBlank(text[c]) \/ (text[c][1] = "post" /\ Len(text[c]) > 1))
        => <>(EndSeen(c) \/ proc # "up"))
=============================================================================
