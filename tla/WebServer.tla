----------------------------- MODULE WebServer ------------------------------
(***************************************************************************)
(* The server of code/: WebServer's loop on epoll, its pool of threads,    *)
(* the HttpConn objects (parser, response, the two iovecs) and the MySQL   *)
(* pool that the login and registration forms use.                         *)
(*                                                                         *)
(* A line of a request stands for its text; "body", a form with a name     *)
(* and a password, is the only one without CRLF.  A readv takes what has   *)
(* arrived.  The responses are reduced to whether the headers and the file *)
(* are still to be written.                                                *)
(* With timeoutMS_ > 0 the first getNextTick reads the front of an empty   *)
(* heap and the process dies, so add, adjust and the timer's callbacks     *)
(* never run.                                                              *)
(***************************************************************************)
EXTENDS Integers, Sequences, FiniteSets

CONSTANTS
    Worker,     \* the threads of the pool
    Piece,      \* what a client may send at a time: sequences of lines
    trigMode,   \* the constructor's trigger mode, 0 .. 3
    connSize,   \* the connections of SqlConnPool
    MAX_FD,     \* the limit on userCount; descriptors do not run out before
    MaxClient,  \* bound on the clients that connect
    MaxPiece    \* bound on the pieces sent

VARIABLES
    timeoutMS_, mpc,                    \* the main thread
    backlog, edge, inq, eof, armed,     \* the kernel: sockets and epoll
    conn, userCount,                    \* users_ and HttpConn::userCount
    tasks, wpc, wtask,                  \* the thread pool
    connQue, semId,                     \* SqlConnPool: the sizes
    clients, pieces                     \* for the bounds

kernel == <<backlog, edge, inq, eof, armed>>
sqlVars == <<connQue, semId>>
bounds == <<clients, pieces>>
vars == <<timeoutMS_, mpc, kernel, conn, userCount, tasks, wpc, wtask, sqlVars,
          bounds>>

ASSUME WebAssumption ==
    /\ trigMode \in 0 .. 3 /\ MaxClient \in Nat /\ MaxPiece \in Nat
    /\ connSize \in Nat /\ MAX_FD \in Nat

Fd == 1 .. MAX_FD

RequestLine == {"get", "login", "register"}
HeaderLine == {"keep-alive", "urlencoded"}
Line == RequestLine \cup HeaderLine \cup {"", "body"}

(* InitEventMode_ *)
listenET == trigMode \in {2, 3}
isET == trigMode \in {1, 3}

(* The fields of an HttpRequest that matter. *)
Request == [state : {"REQUEST_LINE", "HEADERS", "BODY", "FINISH"},
            method : RequestLine \cup {""}, keep : BOOLEAN, form : BOOLEAN,
            verify : BOOLEAN]

(* HttpRequest::Init, and an HttpConn before its first init, which leaves  *)
(* the iovecs with whatever is there.                                      *)
NoRequest == [state |-> "REQUEST_LINE", method |-> "", keep |-> FALSE,
              form |-> FALSE, verify |-> FALSE]
NoConn == [isClose |-> TRUE, rbuf |-> <<>>, keep |-> FALSE,
           iov |-> <<0, 0>>, iovCnt |-> 0]

Init ==
    /\ timeoutMS_ \in {0, 60000} /\ mpc = "loop"
    /\ backlog = 0 /\ edge = FALSE
    /\ inq = [f \in Fd |-> <<>>] /\ eof = [f \in Fd |-> FALSE]
    /\ armed = [f \in Fd |-> "none"]
    /\ \E len \in 0 .. 1 :
          conn = [f \in Fd |-> [NoConn EXCEPT !.iov = <<0, len>>]]
    /\ userCount = 0
    /\ tasks = <<>>
    /\ wpc = [w \in Worker |-> "idle"] /\ wtask = [w \in Worker |-> <<>>]
    /\ connQue = connSize /\ semId = connSize
    /\ clients = 0 /\ pieces = 0

-----------------------------------------------------------------------------
(* What one line does to the request: ParseRequestLine_, ParseHeader_ with *)
(* the test for the end of the headers, ParseBody_ with ParsePost_.        *)
ParseLine_(r, b) ==
    CASE r.state = "REQUEST_LINE" ->
            [r EXCEPT !.state = "HEADERS", !.method = Head(b)]
      [] r.state = "HEADERS" ->
            [r EXCEPT !.keep = @ \/ Head(b) = "keep-alive",
                      !.form = @ \/ Head(b) = "urlencoded",
                      !.state = IF b = <<"">> THEN "FINISH"
                                ELSE IF Head(b) \in HeaderLine THEN "HEADERS"
                                ELSE "BODY"]
      [] r.state = "BODY" ->
            [r EXCEPT !.state = "FINISH",
                      !.verify = /\ r.method \in {"login", "register"} /\ r.form
                                 /\ Head(b) = "body"]

(* parse: <<result, request, what is left in the buffer>>.  A line that is *)
(* refused, and one without CRLF, stay in the buffer.                      *)
parse[r \in Request, b \in Seq(Line)] ==
    IF b = <<>> \/ r.state = "FINISH" THEN <<TRUE, r, b>>
    ELSE IF r.state = "REQUEST_LINE" /\ Head(b) \notin RequestLine
           THEN <<FALSE, r, b>>
    ELSE IF Head(b) = "body" THEN <<TRUE, ParseLine_(r, b), b>>
    ELSE parse[ParseLine_(r, b), Tail(b)]

-----------------------------------------------------------------------------
(* The clients. *)
Connect ==
    /\ clients < MaxClient /\ clients' = clients + 1
    /\ backlog' = backlog + 1 /\ edge' = TRUE
    /\ UNCHANGED <<timeoutMS_, mpc, inq, eof, armed, conn, userCount, tasks,
                   wpc, wtask, sqlVars, pieces>>

(* A client that has sent its form waits for the answer. *)
Arrive(f, piece) ==
    /\ armed[f] # "none" /\ ~eof[f] /\ pieces < MaxPiece
    /\ \A i \in DOMAIN conn[f].rbuf : conn[f].rbuf[i] # "body"
    /\ \A i \in DOMAIN inq[f] : inq[f][i] # "body"
    /\ inq' = [inq EXCEPT ![f] = @ \o piece]
    /\ pieces' = pieces + 1
    /\ UNCHANGED <<timeoutMS_, mpc, backlog, edge, eof, armed, conn, userCount,
                   tasks, wpc, wtask, sqlVars, clients>>

Quit(f) ==
    /\ armed[f] # "none" /\ ~eof[f]
    /\ eof' = [eof EXCEPT ![f] = TRUE]
    /\ UNCHANGED <<timeoutMS_, mpc, backlog, edge, inq, armed, conn, userCount,
                   tasks, wpc, wtask, sqlVars, bounds>>

-----------------------------------------------------------------------------
(* The main thread.  Start with a timeout: getNextTick, at once. *)
getNextTick ==
    /\ mpc = "loop" /\ timeoutMS_ > 0
    /\ mpc' = "crashed"
    /\ UNCHANGED <<timeoutMS_, kernel, conn, userCount, tasks, wpc, wtask,
                   sqlVars, bounds>>

(* An event of the listening socket, ... *)
ListenEvent ==
    /\ mpc = "loop" /\ timeoutMS_ = 0
    /\ IF listenET THEN edge ELSE backlog > 0
    /\ edge' = FALSE /\ mpc' = "listen"
    /\ UNCHANGED <<timeoutMS_, backlog, inq, eof, armed, conn, userCount, tasks,
                   wpc, wtask, sqlVars, bounds>>

(* ... DealListen_: an accept, which returns the lowest free descriptor,   *)
(* with AddClient_ and init, or SendError_, or the end of the backlog.     *)
init(f) ==
    /\ conn' = [conn EXCEPT ![f] = [NoConn EXCEPT !.isClose = FALSE,
                                                  !.iov = conn[f].iov]]
    /\ userCount' = userCount + 1

AddClient_(f) ==
    /\ mpc = "listen" /\ backlog > 0 /\ userCount < MAX_FD
    /\ armed[f] = "none" /\ \A g \in 1 .. f - 1 : armed[g] # "none"
    /\ backlog' = backlog - 1
    /\ init(f)
    /\ armed' = [armed EXCEPT ![f] = "in"]
    /\ mpc' = IF listenET THEN "listen" ELSE "loop"
    /\ UNCHANGED <<timeoutMS_, edge, inq, eof, tasks, wpc, wtask, sqlVars, bounds>>

SendError_ ==
    /\ mpc = "listen" /\ backlog > 0 /\ userCount >= MAX_FD
    /\ backlog' = backlog - 1 /\ mpc' = "loop"
    /\ UNCHANGED <<timeoutMS_, edge, inq, eof, armed, conn, userCount, tasks,
                   wpc, wtask, sqlVars, bounds>>

AcceptFails ==
    /\ mpc = "listen" /\ backlog = 0
    /\ mpc' = "loop"
    /\ UNCHANGED <<timeoutMS_, kernel, conn, userCount, tasks, wpc, wtask,
                   sqlVars, bounds>>

(* Mutant: without EPOLLONESHOT. *)
DealEvent_shared(f) ==
    /\ mpc = "loop" /\ timeoutMS_ = 0 /\ ~eof[f]
    /\ \/ armed[f] = "in" /\ inq[f] # <<>> /\ tasks' = Append(tasks, <<"read", f>>)
       \/ armed[f] = "out" /\ tasks' = Append(tasks, <<"write", f>>)
    /\ UNCHANGED <<timeoutMS_, mpc, kernel, conn, userCount, wpc, wtask,
                   sqlVars, bounds>>

(* AddTask queues a task and wakes a thread for it. *)
AddTask(task) == tasks' = Append(tasks, task)

(* DealRead_ and DealWrite_; EPOLLONESHOT has disarmed the descriptor. *)
DealEvent(f) ==
    /\ mpc = "loop" /\ timeoutMS_ = 0 /\ ~eof[f]
    /\ \/ armed[f] = "in" /\ inq[f] # <<>> /\ AddTask(<<"read", f>>)
       \/ armed[f] = "out" /\ AddTask(<<"write", f>>)
    /\ armed' = [armed EXCEPT ![f] = "off"]
    /\ UNCHANGED <<timeoutMS_, mpc, backlog, edge, inq, eof, conn, userCount,
                   wpc, wtask, sqlVars, bounds>>

(* Mutant: a connection that hung up is not counted off. *)
CloseConn__half(f, iov) ==
    /\ armed' = [armed EXCEPT ![f] = "none"]
    /\ inq' = [inq EXCEPT ![f] = <<>>] /\ eof' = [eof EXCEPT ![f] = FALSE]
    /\ conn' = [conn EXCEPT ![f] = [NoConn EXCEPT !.iov = iov]]
    /\ userCount' = IF eof[f] THEN userCount ELSE userCount - 1

(* Close: the flag, the counter, and close.  (What init will clear before  *)
(* it is used again is cleared here.)                                      *)
Close(f, iov) ==
    /\ conn' = [conn EXCEPT ![f] = [NoConn EXCEPT !.iov = iov]]
    /\ userCount' = IF conn[f].isClose THEN userCount ELSE userCount - 1
    /\ inq' = [inq EXCEPT ![f] = <<>>] /\ eof' = [eof EXCEPT ![f] = FALSE]

(* CloseConn_: DelFd and Close. *)
CloseConn_(f, iov) == armed' = [armed EXCEPT ![f] = "none"] /\ Close(f, iov)

(* EPOLLRDHUP: the main thread closes the connection itself. *)
HangUp(f) ==
    /\ mpc = "loop" /\ timeoutMS_ = 0 /\ eof[f] /\ armed[f] \in {"in", "out"}
    /\ CloseConn_(f, conn[f].iov)
    /\ UNCHANGED <<timeoutMS_, mpc, backlog, edge, tasks, wpc, wtask,
                   sqlVars, bounds>>

-----------------------------------------------------------------------------
(* A thread of the pool takes a task. *)
TakeTask(w) ==
    /\ wpc[w] = "idle" /\ tasks # <<>>
    /\ tasks' = Tail(tasks)
    /\ wtask' = [wtask EXCEPT ![w] = Head(tasks)]
    /\ wpc' = [wpc EXCEPT ![w] = Head(tasks)[1]]
    /\ UNCHANGED <<timeoutMS_, mpc, kernel, conn, userCount, sqlVars, bounds>>

client(w) == wtask[w][2]
Goto(w, l) == wpc' = [wpc EXCEPT ![w] = l]

(* The task ends: with ModFd, or with CloseConn_. *)
Finish(w) == Goto(w, "idle") /\ wtask' = [wtask EXCEPT ![w] = <<>>]
ModFd(w, events) == armed' = [armed EXCEPT ![client(w)] = events]
Closes(w, iov) == CloseConn_(client(w), iov) /\ Finish(w)

(* OnRead_: read; on the end of the stream or an error the connection is   *)
(* closed, and what was read is not answered.                              *)
OnRead_(w) ==
    /\ wpc[w] = "read"
    /\ LET f == client(w)
           ends == eof[f] /\ (isET \/ inq[f] = <<>>) IN
       \/ /\ ends /\ Closes(w, conn[f].iov)
       \/ /\ ~ends
          /\ conn' = [conn EXCEPT ![f].rbuf = @ \o inq[f]]
          /\ inq' = [inq EXCEPT ![f] = <<>>]
          /\ Goto(w, "process")
          /\ UNCHANGED <<eof, armed, userCount, wtask>>
    /\ UNCHANGED <<timeoutMS_, mpc, backlog, edge, tasks, sqlVars, bounds>>

(* OnProcess, first part: request_.Init and parse, if there is something   *)
(* to parse.                                                               *)
OnProcess(w) ==
    /\ wpc[w] = "process"
    /\ LET f == client(w)
           p == parse[NoRequest, conn[f].rbuf] IN
       \/ /\ conn[f].rbuf = <<>>
          /\ conn' = [conn EXCEPT ![f].keep = FALSE]
          /\ ModFd(w, "in") /\ Finish(w)
       \/ /\ conn[f].rbuf # <<>>
          /\ conn' = [conn EXCEPT ![f].keep = p[2].keep, ![f].rbuf = p[3]]
          /\ Goto(w, IF p[2].verify THEN "GetConn" ELSE "MakeResponse")
          /\ UNCHANGED <<armed, wtask>>
    /\ UNCHANGED <<timeoutMS_, mpc, backlog, edge, inq, eof, userCount, tasks,
                   sqlVars, bounds>>

(* UserVerify.  GetConn looks at the queue, without the lock; with nothing *)
(* there assert(sql) ends the process.                                     *)
GetConn(w) ==
    /\ wpc[w] = "GetConn"
    /\ Goto(w, "sem_wait")
    /\ mpc' = IF connQue = 0 THEN "crashed" ELSE mpc
    /\ UNCHANGED <<timeoutMS_, kernel, conn, userCount, tasks, wtask, sqlVars,
                   bounds>>

sem_wait(w) ==
    /\ wpc[w] = "sem_wait" /\ semId > 0
    /\ semId' = semId - 1
    /\ Goto(w, "pop")
    /\ UNCHANGED <<timeoutMS_, mpc, kernel, conn, userCount, tasks, wtask,
                   connQue, bounds>>

pop(w) ==
    /\ wpc[w] = "pop"
    /\ connQue' = connQue - 1
    /\ Goto(w, "~SqlConnRAII")
    /\ UNCHANGED <<timeoutMS_, mpc, kernel, conn, userCount, tasks, wtask,
                   semId, bounds>>

(* Mutant: the temporary keeps the connection until the end of UserVerify, *)
(* which an error of mysql_query leaves early.                             *)
FreeConn_leaks(w) ==
    /\ \/ /\ wpc[w] = "~SqlConnRAII" /\ Goto(w, "mysql_query")
          /\ UNCHANGED <<connQue, semId>>
       \/ /\ wpc[w] = "FreeConn" /\ Goto(w, "MakeResponse")
          /\ connQue' = connQue + 1 /\ semId' = semId + 1
    /\ UNCHANGED <<timeoutMS_, mpc, kernel, conn, userCount, tasks, wtask,
                   bounds>>

(* The SqlConnRAII of UserVerify is a temporary: it gives the connection   *)
(* back before the first query, and FreeConn gives it back once more.      *)
FreeConn(w) ==
    /\ \/ wpc[w] = "~SqlConnRAII" /\ Goto(w, "mysql_query")
       \/ wpc[w] = "FreeConn" /\ Goto(w, "MakeResponse")
    /\ connQue' = connQue + 1 /\ semId' = semId + 1
    /\ UNCHANGED <<timeoutMS_, mpc, kernel, conn, userCount, tasks, wtask,
                   bounds>>

(* The queries, which may fail: SELECT, INSERT. *)
mysql_query(w) ==
    /\ wpc[w] = "mysql_query"
    /\ Goto(w, "FreeConn") \/ Goto(w, "MakeResponse")
    /\ UNCHANGED <<timeoutMS_, mpc, kernel, conn, userCount, tasks, wtask,
                   sqlVars, bounds>>

(* MakeResponse and the rest of process: the headers, and the file if      *)
(* there is one; otherwise iov_[1] keeps its length.                       *)
MakeResponse(w, file) ==
    /\ wpc[w] = "MakeResponse"
    /\ conn' = [conn EXCEPT
          ![client(w)].iov = <<1, IF file THEN 1 ELSE conn[client(w)].iov[2]>>,
          ![client(w)].iovCnt = IF file THEN 2 ELSE 1]
    /\ ModFd(w, "out") /\ Finish(w)
    /\ UNCHANGED <<timeoutMS_, mpc, backlog, edge, inq, eof, userCount, tasks,
                   sqlVars, bounds>>

(* What write may leave of the two iovecs. *)
Written(c, iov) ==
    /\ iov[1] <= c.iov[1] /\ iov[2] <= c.iov[2]
    /\ iov[1] > 0 \/ c.iovCnt = 1 => iov[2] = c.iov[2]

(* OnWrite_: write sends some of the headers and the file, until nothing   *)
(* is left, the socket is full (EAGAIN), or an error.  Kept alive, the     *)
(* connection goes on with what is in the buffer.                          *)
OnWrite_(w, iov, again) ==
    /\ wpc[w] = "write" /\ Written(conn[client(w)], iov)
    /\ LET f == client(w)
           c == [conn[f] EXCEPT !.iov = iov] IN
       \/ /\ iov = <<0, 0>> /\ c.keep
          /\ conn' = [conn EXCEPT ![f] = c]
          /\ Goto(w, "process")
          /\ UNCHANGED <<inq, eof, armed, userCount, wtask>>
       \/ /\ iov # <<0, 0>> /\ again
          /\ conn' = [conn EXCEPT ![f] = c]
          /\ ModFd(w, "out") /\ Finish(w)
          /\ UNCHANGED <<inq, eof, userCount>>
       \/ /\ IF iov = <<0, 0>> THEN ~c.keep ELSE ~again
          /\ Closes(w, iov)
    /\ UNCHANGED <<timeoutMS_, mpc, backlog, edge, tasks, sqlVars, bounds>>

-----------------------------------------------------------------------------
Work(w) ==
    /\ mpc # "crashed"
    /\ \/ TakeTask(w) \/ OnRead_(w) \/ OnProcess(w)
       \/ GetConn(w) \/ sem_wait(w) \/ pop(w) \/ FreeConn(w) \/ mysql_query(w)
       \/ \E file \in BOOLEAN : MakeResponse(w, file)
       \/ \E iov \in (0 .. 1) \X (0 .. 1), again \in BOOLEAN : OnWrite_(w, iov, again)

Main ==
    \/ getNextTick \/ ListenEvent \/ SendError_ \/ AcceptFails
    \/ \E f \in Fd : AddClient_(f) \/ DealEvent(f) \/ HangUp(f)

Next ==
    \/ Main
    \/ \E w \in Worker : Work(w)
    \/ /\ mpc # "crashed"
       /\ \/ Connect
          \/ \E f \in Fd : Quit(f) \/ \E piece \in Piece : Arrive(f, piece)

Spec == Init /\ [][Next]_vars

-----------------------------------------------------------------------------
(* The connections that tasks, queued or running, have. *)
Queued(f) == \E i \in DOMAIN tasks : tasks[i][2] = f
Running(f) == \E w \in Worker : wtask[w] # <<>> /\ client(w) = f

(* Although the pool's threads and the main thread work on the HttpConn    *)
(* objects without a lock, at most one task, queued or running, has a      *)
(* connection, and only while epoll is disarmed for it (EPOLLONESHOT until *)
(* ModFd, the last thing a task does), so that neither another thread nor  *)
(* CloseConn_ of the main thread can touch it; and no path of a task       *)
(* leaves a connection disarmed and forgotten.                             *)
ExclusiveClient ==
    /\ \A i, j \in DOMAIN tasks : tasks[i][2] = tasks[j][2] => i = j
    /\ \A w, v \in Worker : wtask[w] # <<>> /\ wtask[v] # <<>>
                            /\ client(w) = client(v) => w = v
    /\ \A f \in Fd : /\ ~(Queued(f) /\ Running(f))
                     /\ armed[f] = "off" <=> Queued(f) \/ Running(f)

(* userCount is the number of open connections, however descriptors are    *)
(* reused and whichever thread closes: the limit of DealListen_ is right.  *)
UsersCounted ==
    /\ \A f \in Fd : conn[f].isClose <=> armed[f] = "none"
    /\ userCount = Cardinality({f \in Fd : armed[f] # "none"})

(* As many MySQL connections as threads: main.cpp asks for 12 and 6. *)
EnoughConns == IsFiniteSet(Worker) /\ Cardinality(Worker) <= connSize

(* With as many MySQL connections as threads, GetConn never finds the      *)
(* queue empty, and assert(sql) in UserVerify never ends the server,       *)
(* whatever queries fail: every way out of UserVerify has given back what  *)
(* it took.                                                                *)
SqlAvailable ==
    /\ connQue + Cardinality({w \in Worker : wpc[w] = "~SqlConnRAII"}) >= connSize
    /\ timeoutMS_ = 0 => mpc # "crashed"
=============================================================================
