--------------------------- MODULE WebServerProofs --------------------------
(* At most one task has a connection, userCount counts the open ones, and  *)
(* the MySQL pool's semaphore counts its queue: for any number of threads, *)
(* clients and descriptors, in either trigger mode, and however parse, the *)
(* MySQL pool and the writes turn out.                                     *)
EXTENDS WebServer, SequenceTheorems, FiniteSetTheorems, TLAPS

Task == {"read", "write"} \X Fd
Busy == {"read", "write", "process", "GetConn", "sem_wait", "pop",
         "~SqlConnRAII", "mysql_query", "FreeConn", "MakeResponse"}

(* The inductive invariant: the variables ExclusiveClient speaks of are of *)
(* their types, and a thread has a task exactly while it is at work.       *)
TaskInv ==
    /\ armed \in [Fd -> {"none", "in", "out", "off"}]
    /\ tasks \in Seq(Task)
    /\ wtask \in [Worker -> Task \cup {<<>>}]
    /\ wpc \in [Worker -> Busy \cup {"idle"}]
    /\ \A w \in Worker : wpc[w] = "idle" <=> wtask[w] = <<>>
    /\ ExclusiveClient

(* No task is the empty sequence. *)
LEMMA NoTask == <<>> \notin Task
  BY DEF Task

(* What is in a queue of tasks, and what Append and Tail make of it. *)
LEMMA TaskElements ==
    ASSUME NEW s \in Seq(Task)
    PROVE  /\ DOMAIN s = 1 .. Len(s) /\ Len(s) \in Nat
           /\ \A i \in DOMAIN s : s[i] \in Task
  BY LenProperties, ElementOfSeq

\* AddTask adds a task at the end of the queue.
LEMMA TaskAppend ==
    ASSUME NEW s \in Seq(Task), NEW e \in Task
    PROVE  /\ Append(s, e) \in Seq(Task)
           /\ DOMAIN Append(s, e) = 1 .. Len(s) + 1
           /\ \A i \in DOMAIN s : Append(s, e)[i] = s[i]
           /\ Append(s, e)[Len(s) + 1] = e
  BY AppendProperties, LenProperties, TaskElements

\* A pool thread takes the first task of the queue.
LEMMA TaskTail ==
    ASSUME NEW s \in Seq(Task), s # <<>>
    PROVE  /\ Tail(s) \in Seq(Task) /\ Head(s) = s[1] /\ 1 \in DOMAIN s
           /\ DOMAIN Tail(s) = 1 .. Len(s) - 1
           /\ \A i \in 1 .. Len(s) - 1 : Tail(s)[i] = s[i + 1]
<1>1. Len(s) > 0 /\ Len(s) \in Nat /\ Len(Tail(s)) = Len(s) - 1
      /\ Tail(s) \in Seq(Task) /\ Head(s) = s[1]
      /\ \A i \in 1 .. Len(s) - 1 : Tail(s)[i] = s[i + 1]
  BY HeadTailProperties, LenProperties, EmptySeq
<1> QED  BY <1>1, TaskElements

-----------------------------------------------------------------------------
(* Steps that move no task and re-arm nothing that a task has. *)
LEMMA Rests ==
    ASSUME TaskInv, UNCHANGED <<tasks, wtask>>,
           wpc' \in [Worker -> Busy \cup {"idle"}],
           \A w \in Worker : wpc'[w] = "idle" <=> wpc[w] = "idle",
           armed' \in [Fd -> {"none", "in", "out", "off"}],
           \A f \in Fd : armed'[f] = "off" <=> armed[f] = "off"
    PROVE  TaskInv'
  BY DEF TaskInv, ExclusiveClient, Queued, Running, client

(* The end of a task: its connection is re-armed, or closed. *)
LEMMA Ends ==
    ASSUME TaskInv, NEW w \in Worker, wpc[w] # "idle",
           NEW events \in {"none", "in", "out"},
           armed' = [armed EXCEPT ![client(w)] = events],
           Finish(w), UNCHANGED tasks
    PROVE  TaskInv'
<1> DEFINE f == client(w)
<1>1. wtask[w] # <<>> /\ f \in Fd
  BY NoTask DEF TaskInv, client, Task
<1>2. /\ wpc' \in [Worker -> Busy \cup {"idle"}] /\ wpc'[w] = "idle"
      /\ wtask' \in [Worker -> Task \cup {<<>>}] /\ wtask'[w] = <<>>
      /\ \A v \in Worker \ {w} : wpc'[v] = wpc[v] /\ wtask'[v] = wtask[v]
  BY DEF TaskInv, Finish, Goto
<1>3. /\ armed' \in [Fd -> {"none", "in", "out", "off"}]
      /\ armed'[f] # "off"
      /\ \A g \in Fd \ {f} : armed'[g] = armed[g]
  BY <1>1 DEF TaskInv
<1>4. ~Queued(f) /\ \A v \in Worker \ {w} : wtask[v] # <<>> => client(v) # f
  BY <1>1 DEF TaskInv, ExclusiveClient, Queued, Running
<1>5. \A g \in Fd : /\ Queued(g)' <=> Queued(g)
                    /\ Running(g)' <=> Running(g) /\ g # f
  BY <1>1, <1>2, <1>4 DEF Queued, Running, client
<1>6. ExclusiveClient'
  BY <1>1, <1>2, <1>3, <1>4, <1>5 DEF TaskInv, ExclusiveClient, client
<1> QED  BY <1>2, <1>3, <1>6 DEF TaskInv

(* A step within a task. *)
LEMMA Works ==
    ASSUME TaskInv, NEW w \in Worker, wpc[w] # "idle",
           NEW l \in Busy, Goto(w, l), UNCHANGED <<armed, tasks, wtask>>
    PROVE  TaskInv'
  BY Rests DEF TaskInv, Goto, Busy

(* Steps that leave the variables of TaskInv alone. *)
LEMMA Stays ==
    ASSUME TaskInv, UNCHANGED <<armed, tasks, wpc, wtask>>
    PROVE  TaskInv'
  BY Rests DEF TaskInv
-----------------------------------------------------------------------------
(* Nothing is queued, running or armed at the start. *)
LEMMA TaskInit == Init => TaskInv
<1> SUFFICES ASSUME Init PROVE TaskInv
  OBVIOUS
<1>1. tasks \in Seq(Task) /\ DOMAIN tasks = {}
  BY EmptySeq DEF Init
<1> QED  BY <1>1 DEF Init, TaskInv, ExclusiveClient, Queued, Running

(* The steps of the main thread. *)
LEMMA MainStep == ASSUME TaskInv, Main PROVE TaskInv'
<1>1. CASE getNextTick \/ ListenEvent \/ SendError_ \/ AcceptFails
  BY <1>1, Stays DEF getNextTick, ListenEvent, SendError_, AcceptFails, kernel
<1>2. ASSUME NEW f \in Fd, AddClient_(f) PROVE TaskInv'
  BY <1>2, Rests DEF AddClient_, TaskInv
<1>3. ASSUME NEW f \in Fd, HangUp(f) PROVE TaskInv'
  BY <1>3, Rests DEF HangUp, CloseConn_, TaskInv
<1>4. ASSUME NEW f \in Fd, DealEvent(f) PROVE TaskInv'
  <2>0. PICK op \in {"read", "write"} : tasks' = Append(tasks, <<op, f>>)
    BY <1>4 DEF DealEvent, AddTask
  <2> DEFINE e == <<op, f>>
  <2>1. e \in Task /\ tasks' = Append(tasks, e) /\ e[2] = f
    BY <2>0 DEF Task
  <2>2. /\ tasks' \in Seq(Task) /\ DOMAIN tasks' = 1 .. Len(tasks) + 1
        /\ DOMAIN tasks = 1 .. Len(tasks) /\ Len(tasks) \in Nat
        /\ \A i \in DOMAIN tasks : tasks'[i] = tasks[i]
        /\ tasks'[Len(tasks) + 1] = e
    BY <2>1, TaskAppend, TaskElements DEF TaskInv
  <2>3. armed[f] # "off" /\ ~Queued(f) /\ ~Running(f)
    BY <1>4 DEF DealEvent, TaskInv, ExclusiveClient
  <2>4. /\ armed' \in [Fd -> {"none", "in", "out", "off"}] /\ armed'[f] = "off"
        /\ \A g \in Fd \ {f} : armed'[g] = armed[g]
        /\ UNCHANGED <<wpc, wtask>>
    BY <1>4 DEF DealEvent, TaskInv
  <2>5. \A g \in Fd : Queued(g)' <=> Queued(g) \/ g = f
    BY <2>1, <2>2 DEF Queued
  <2>6. \A g \in Fd : Running(g)' <=> Running(g)
    BY <2>4 DEF Running, client
  <2>7. \A i, j \in DOMAIN tasks' : tasks'[i][2] = tasks'[j][2] => i = j
    BY <2>1, <2>2, <2>3 DEF Queued, TaskInv, ExclusiveClient
  <2>8. ExclusiveClient'
    BY <2>3, <2>4, <2>5, <2>6, <2>7 DEF TaskInv, ExclusiveClient, client
  <2> QED  BY <2>2, <2>4, <2>8 DEF TaskInv
<1> QED  BY <1>1, <1>2, <1>3, <1>4 DEF Main

(* A thread takes the first task of the queue. *)
LEMMA TakeStep == ASSUME TaskInv, NEW w \in Worker, TakeTask(w) PROVE TaskInv'
<1> DEFINE e == Head(tasks)
<1>1. /\ tasks' \in Seq(Task) /\ e = tasks[1] /\ 1 \in DOMAIN tasks
      /\ DOMAIN tasks' = 1 .. Len(tasks) - 1
      /\ DOMAIN tasks = 1 .. Len(tasks) /\ Len(tasks) \in Nat
      /\ \A i \in 1 .. Len(tasks) - 1 : tasks'[i] = tasks[i + 1]
      /\ e \in Task
  BY TaskTail, TaskElements DEF TakeTask, TaskInv
<1>2. e[1] \in {"read", "write"} /\ e[2] \in Fd /\ e # <<>>
  BY <1>1, NoTask DEF Task
<1> HIDE DEF e
<1>3. /\ wtask' \in [Worker -> Task \cup {<<>>}] /\ wtask'[w] = e
      /\ wpc' \in [Worker -> Busy \cup {"idle"}] /\ wpc'[w] \in Busy
      /\ \A v \in Worker \ {w} : wpc'[v] = wpc[v] /\ wtask'[v] = wtask[v]
      /\ wtask[w] = <<>> /\ UNCHANGED armed
  BY <1>1, <1>2 DEF TakeTask, TaskInv, kernel, Busy, e
<1>4. Queued(e[2]) /\ ~Running(e[2])
  BY <1>1, <1>2 DEF Queued, TaskInv, ExclusiveClient
<1>5. \A i \in DOMAIN tasks' : i + 1 \in DOMAIN tasks /\ tasks'[i] = tasks[i + 1]
  BY <1>1
<1>6. \A i, j \in DOMAIN tasks' : tasks'[i][2] = tasks'[j][2] => i = j
  <2> SUFFICES ASSUME NEW i \in DOMAIN tasks', NEW j \in DOMAIN tasks',
                      tasks'[i][2] = tasks'[j][2]
               PROVE  i = j
    OBVIOUS
  <2>1. i + 1 = j + 1
    BY <1>5 DEF TaskInv, ExclusiveClient
  <2> QED  BY <2>1, <1>1
<1>7. \A g \in Fd : Queued(g)' <=> Queued(g) /\ g # e[2]
  <2> SUFFICES ASSUME NEW g \in Fd PROVE Queued(g)' <=> Queued(g) /\ g # e[2]
    OBVIOUS
  <2>1. ASSUME Queued(g)' PROVE Queued(g) /\ g # e[2]
    <3>1. PICK i \in DOMAIN tasks' : tasks'[i][2] = g
      BY <2>1 DEF Queued
    <3>2. i + 1 \in DOMAIN tasks /\ tasks[i + 1][2] = g /\ i + 1 # 1
      BY <3>1, <1>5, <1>1
    <3> QED  BY <3>2, <1>1 DEF Queued, TaskInv, ExclusiveClient
  <2>2. ASSUME Queued(g), g # e[2] PROVE Queued(g)'
    <3>1. PICK i \in DOMAIN tasks : tasks[i][2] = g
      BY <2>2 DEF Queued
    <3>2. i - 1 \in DOMAIN tasks' /\ tasks'[i - 1] = tasks[i]
      BY <3>1, <2>2, <1>1
    <3> QED  BY <3>1, <3>2 DEF Queued
  <2> QED  BY <2>1, <2>2
<1>8. \A g \in Fd : Running(g)' <=> Running(g) \/ g = e[2]
  BY <1>2, <1>3 DEF Running, client
<1>9. \A v \in Worker \ {w} : wtask[v] # <<>> => wtask[v][2] # e[2]
  BY <1>4 DEF Running, client
<1>10. ExclusiveClient'
  <2>1. \A g \in Fd : /\ ~(Queued(g)' /\ Running(g)')
                      /\ armed'[g] = "off" <=> Queued(g)' \/ Running(g)'
    BY <1>3, <1>4, <1>7, <1>8 DEF TaskInv, ExclusiveClient
  <2>2. \A u, v \in Worker : wtask'[u] # <<>> /\ wtask'[v] # <<>>
                             /\ wtask'[u][2] = wtask'[v][2] => u = v
    BY <1>3, <1>9 DEF TaskInv, ExclusiveClient, client
  <2> QED  BY <1>6, <2>1, <2>2 DEF ExclusiveClient, client
<1> QED  BY <1>1, <1>2, <1>3, <1>10 DEF TaskInv, Busy

(* The steps of the pool's threads. *)
LEMMA WorkStep == ASSUME TaskInv, NEW w \in Worker, Work(w) PROVE TaskInv'
<1>1. CASE TakeTask(w)
  BY <1>1, TakeStep
<1>2. CASE OnRead_(w)
  <2>1. wpc[w] # "idle" /\ UNCHANGED tasks
    BY <1>2 DEF OnRead_
  <2>2. CASE Closes(w, conn[client(w)].iov)
    BY <2>1, <2>2, Ends DEF Closes, CloseConn_
  <2>3. CASE Goto(w, "process") /\ UNCHANGED <<armed, wtask>>
    BY <2>1, <2>3, Works DEF Busy
  <2> QED  BY <1>2, <2>2, <2>3 DEF OnRead_
<1>3. CASE OnProcess(w)
  <2>1. wpc[w] # "idle" /\ UNCHANGED tasks
    BY <1>3 DEF OnProcess
  <2>2. CASE ModFd(w, "in") /\ Finish(w)
    BY <2>1, <2>2, Ends DEF ModFd
  <2>3. ASSUME NEW l \in {"GetConn", "MakeResponse"}, Goto(w, l),
               UNCHANGED <<armed, wtask>>
        PROVE TaskInv'
    BY <2>1, <2>3, Works DEF Busy
  <2>4. \/ ModFd(w, "in") /\ Finish(w)
        \/ \E l \in {"GetConn", "MakeResponse"} :
              Goto(w, l) /\ UNCHANGED <<armed, wtask>>
    BY <1>3 DEF OnProcess
  <2> QED  BY <2>2, <2>3, <2>4
<1>4. CASE GetConn(w) \/ sem_wait(w) \/ pop(w)
  BY <1>4, Works DEF GetConn, sem_wait, pop, kernel, Busy
<1>5. CASE FreeConn(w)
  BY <1>5, Works DEF FreeConn, kernel, Busy
<1>6. CASE mysql_query(w)
  BY <1>6, Works DEF mysql_query, kernel, Busy
<1>7. ASSUME NEW file \in BOOLEAN, MakeResponse(w, file) PROVE TaskInv'
  BY <1>7, Ends DEF MakeResponse, ModFd
<1>8. ASSUME NEW iov \in (0 .. 1) \X (0 .. 1), NEW again \in BOOLEAN,
             OnWrite_(w, iov, again)
      PROVE  TaskInv'
  <2>1. wpc[w] # "idle" /\ UNCHANGED tasks
    BY <1>8 DEF OnWrite_
  <2>2. CASE Goto(w, "process") /\ UNCHANGED <<armed, wtask>>
    BY <2>1, <2>2, Works DEF Busy
  <2>3. CASE ModFd(w, "out") /\ Finish(w)
    BY <2>1, <2>3, Ends DEF ModFd
  <2>4. CASE Closes(w, iov)
    BY <2>1, <2>4, Ends DEF Closes, CloseConn_
  <2> QED  BY <1>8, <2>2, <2>3, <2>4 DEF OnWrite_
<1> QED  BY <1>1, <1>2, <1>3, <1>4, <1>5, <1>6, <1>7, <1>8 DEF Work

(* Every step of the server keeps the invariant. *)
LEMMA TaskStep == TaskInv /\ [Next]_vars => TaskInv'
<1> SUFFICES ASSUME TaskInv, [Next]_vars PROVE TaskInv'
  OBVIOUS
<1>1. CASE Main
  BY <1>1, MainStep
<1>2. ASSUME NEW w \in Worker, Work(w) PROVE TaskInv'
  BY <1>2, WorkStep
<1>3. CASE Connect
  BY <1>3, Stays DEF Connect
<1>4. ASSUME NEW f \in Fd, Quit(f) PROVE TaskInv'
  BY <1>4, Stays DEF Quit
<1>5. ASSUME NEW f \in Fd, NEW piece \in Piece, Arrive(f, piece) PROVE TaskInv'
  BY <1>5, Stays DEF Arrive
<1>6. CASE UNCHANGED vars
  BY <1>6, Stays DEF vars, kernel
<1> QED  BY <1>1, <1>2, <1>3, <1>4, <1>5, <1>6 DEF Next

(* A connection is in the hands of one task at a time, and is disarmed     *)
(* exactly while it is: HttpConn needs no lock, and DealRead_, DealWrite_, *)
(* OnRead_, OnProcess, OnWrite_ and CloseConn_ forget no connection.       *)
THEOREM ExclusiveCorrect == Spec => []ExclusiveClient
<1>1. TaskInv => ExclusiveClient
  BY DEF TaskInv
<1> QED  BY TaskInit, TaskStep, <1>1, PTL DEF Spec

-----------------------------------------------------------------------------
(* The connections that are open. *)
OpenFds == {f \in Fd : armed[f] # "none"}

(* The inductive invariant behind UsersCounted: TaskInv, by which a task   *)
(* never closes what is closed already, and that every HttpConn has its    *)
(* flag.                                                                   *)
UserInv ==
    /\ TaskInv
    /\ DOMAIN conn = Fd
    /\ \A f \in Fd : "isClose" \in DOMAIN conn[f] /\ conn[f].isClose \in BOOLEAN
    /\ UsersCounted

(* The open connections can be counted, and one more or one less counts    *)
(* for one.                                                                *)
LEMMA OpenCounts ==
    /\ Cardinality(OpenFds) \in Nat
    /\ \A f \in Fd : f \notin OpenFds =>
          Cardinality(OpenFds \cup {f}) = Cardinality(OpenFds) + 1
    /\ \A f \in OpenFds : Cardinality(OpenFds \ {f}) = Cardinality(OpenFds) - 1
<1>1. IsFiniteSet(Fd)
  BY WebAssumption, FS_Interval DEF Fd
<1>2. IsFiniteSet(OpenFds)
  BY <1>1, FS_Subset DEF OpenFds
<1> QED  BY <1>2, FS_CardinalityType, FS_AddElement, FS_RemoveElement

(* Steps that open and close nothing. *)
LEMMA SameUsers ==
    ASSUME UserInv, TaskInv', UNCHANGED userCount,
           DOMAIN conn' = Fd,
           \A f \in Fd : /\ "isClose" \in DOMAIN conn'[f]
                         /\ conn'[f].isClose = conn[f].isClose
                         /\ armed'[f] = "none" <=> armed[f] = "none"
    PROVE  UserInv'
<1>1. OpenFds' = OpenFds
  BY DEF OpenFds
<1>2. UsersCounted'
  BY <1>1 DEF UserInv, UsersCounted, OpenFds
<1> QED  BY <1>2 DEF UserInv

(* CloseConn_ of an open connection, whichever thread calls it. *)
LEMMA Hangs ==
    ASSUME UserInv, TaskInv', NEW f \in Fd, armed[f] # "none", NEW iov,
           CloseConn_(f, iov)
    PROVE  UserInv'
<1>1. ~conn[f].isClose /\ userCount' = userCount - 1
  BY DEF UserInv, UsersCounted, CloseConn_, Close
<1>2. OpenFds' = OpenFds \ {f} /\ f \in OpenFds
  BY DEF OpenFds, CloseConn_, UserInv, TaskInv
<1>3. /\ DOMAIN conn' = Fd
      /\ \A g \in Fd : "isClose" \in DOMAIN conn'[g] /\ conn'[g].isClose \in BOOLEAN
      /\ \A g \in Fd : conn'[g].isClose <=> armed'[g] = "none"
  BY DEF CloseConn_, Close, NoConn, UserInv, TaskInv, UsersCounted
<1>4. userCount' = Cardinality(OpenFds')
  BY <1>1, <1>2, OpenCounts DEF UserInv, UsersCounted, OpenFds
<1> QED  BY <1>3, <1>4 DEF UserInv, UsersCounted, OpenFds

(* A step of a thread writes only the buffers of its connection. *)
LEMMA Keeps ==
    ASSUME UserInv, NEW f \in Fd, NEW c,
           "isClose" \in DOMAIN c, c.isClose = conn[f].isClose,
           conn' = [conn EXCEPT ![f] = c]
    PROVE  /\ DOMAIN conn' = Fd
           /\ \A g \in Fd : /\ "isClose" \in DOMAIN conn'[g]
                            /\ conn'[g].isClose = conn[g].isClose
  BY DEF UserInv

(* Nothing is connected at the start. *)
LEMMA UserInit == Init => UserInv
<1> SUFFICES ASSUME Init PROVE UserInv
  OBVIOUS
<1>1. /\ DOMAIN conn = Fd
      /\ \A f \in Fd : "isClose" \in DOMAIN conn[f] /\ conn[f].isClose = TRUE
  BY DEF Init, NoConn
<1>2. \A f \in Fd : armed[f] = "none"
  BY DEF Init
<1>3. userCount = Cardinality({f \in Fd : armed[f] # "none"})
  <2>1. {f \in Fd : armed[f] # "none"} = {}
    BY <1>2
  <2>2. userCount = 0 /\ Cardinality({}) = 0
    BY FS_EmptySet DEF Init
  <2> QED  BY <2>1, <2>2
<1>4. UsersCounted
  BY <1>1, <1>2, <1>3 DEF UsersCounted
<1> QED  BY <1>1, <1>4, TaskInit DEF UserInv

(* The steps of the main thread. *)
LEMMA UserMain == ASSUME UserInv, TaskInv', Main PROVE UserInv'
<1>1. CASE getNextTick \/ ListenEvent \/ SendError_ \/ AcceptFails
  BY <1>1, SameUsers
  DEF getNextTick, ListenEvent, SendError_, AcceptFails, kernel, UserInv
<1>2. ASSUME NEW f \in Fd, AddClient_(f) PROVE UserInv'
  <2>1. OpenFds' = OpenFds \cup {f} /\ f \notin OpenFds
    BY <1>2 DEF AddClient_, OpenFds, UserInv, TaskInv
  <2>2. /\ DOMAIN conn' = Fd
        /\ \A g \in Fd : "isClose" \in DOMAIN conn'[g] /\ conn'[g].isClose \in BOOLEAN
        /\ \A g \in Fd : conn'[g].isClose <=> armed'[g] = "none"
    BY <1>2 DEF AddClient_, init, NoConn, UserInv, TaskInv, UsersCounted
  <2>3. userCount' = Cardinality(OpenFds')
    BY <1>2, <2>1, OpenCounts DEF AddClient_, init, UserInv, UsersCounted, OpenFds
  <2> QED  BY <2>2, <2>3 DEF UserInv, UsersCounted, OpenFds
<1>3. ASSUME NEW f \in Fd, DealEvent(f) PROVE UserInv'
  BY <1>3, SameUsers DEF DealEvent, UserInv, TaskInv
<1>4. ASSUME NEW f \in Fd, HangUp(f) PROVE UserInv'
  BY <1>4, Hangs DEF HangUp
<1> QED  BY <1>1, <1>2, <1>3, <1>4 DEF Main

(* The steps of the pool's threads. *)
LEMMA UserWork == ASSUME UserInv, TaskInv', NEW w \in Worker, Work(w) PROVE UserInv'
<1> DEFINE f == client(w)
<1>0. ASSUME wpc[w] # "idle" PROVE f \in Fd /\ armed[f] = "off"
  <2>1. wtask[w] \in Task /\ wtask[w] # <<>>
    BY <1>0 DEF UserInv, TaskInv
  <2>2. f \in Fd
    BY <2>1 DEF Task, client
  <2> QED  BY <2>1, <2>2 DEF UserInv, TaskInv, ExclusiveClient, Running
<1>1. CASE TakeTask(w) \/ GetConn(w) \/ sem_wait(w) \/ pop(w) \/ FreeConn(w)
           \/ mysql_query(w)
  BY <1>1, SameUsers
  DEF TakeTask, GetConn, sem_wait, pop, FreeConn, mysql_query, kernel, UserInv
<1>2. CASE OnRead_(w)
  <2>1. f \in Fd /\ armed[f] = "off"
    BY <1>0, <1>2 DEF OnRead_
  <2>2. CASE Closes(w, conn[f].iov)
    BY <2>1, <2>2, Hangs DEF Closes
  <2>3. CASE /\ conn' = [conn EXCEPT ![f].rbuf = @ \o inq[f]]
             /\ UNCHANGED <<armed, userCount>>
    <3> DEFINE c == [conn[f] EXCEPT !.rbuf = @ \o inq[f]]
    <3>1. "isClose" \in DOMAIN c /\ c.isClose = conn[f].isClose
      BY <2>1 DEF UserInv
    <3>2. conn' = [conn EXCEPT ![f] = c]
      BY <2>3
    <3> QED  BY <2>1, <2>3, <3>1, <3>2, Keeps, SameUsers
  <2> QED  BY <1>2, <2>2, <2>3 DEF OnRead_
<1>3. CASE OnProcess(w)
  <2>1. f \in Fd /\ armed[f] = "off" /\ UNCHANGED userCount
    BY <1>0, <1>3 DEF OnProcess
  <2>2. \A g \in Fd : armed'[g] = "none" <=> armed[g] = "none"
    BY <1>3, <2>1 DEF OnProcess, ModFd, UserInv, TaskInv
  <2>3. \E c : /\ "isClose" \in DOMAIN c /\ c.isClose = conn[f].isClose
               /\ conn' = [conn EXCEPT ![f] = c]
    BY <1>3, <2>1 DEF OnProcess, UserInv
  <2> QED  BY <2>1, <2>2, <2>3, Keeps, SameUsers
<1>4. ASSUME NEW file \in BOOLEAN, MakeResponse(w, file) PROVE UserInv'
  <2>1. f \in Fd /\ armed[f] = "off" /\ UNCHANGED userCount
    BY <1>0, <1>4 DEF MakeResponse
  <2>2. \A g \in Fd : armed'[g] = "none" <=> armed[g] = "none"
    BY <1>4, <2>1 DEF MakeResponse, ModFd, UserInv, TaskInv
  <2>3. \E c : /\ "isClose" \in DOMAIN c /\ c.isClose = conn[f].isClose
               /\ conn' = [conn EXCEPT ![f] = c]
    BY <1>4, <2>1 DEF MakeResponse, UserInv
  <2> QED  BY <2>1, <2>2, <2>3, Keeps, SameUsers
<1>5. ASSUME NEW iov \in (0 .. 1) \X (0 .. 1), NEW again \in BOOLEAN,
             OnWrite_(w, iov, again)
      PROVE  UserInv'
  <2> DEFINE c == [conn[f] EXCEPT !.iov = iov]
  <2>1. f \in Fd /\ armed[f] = "off"
    BY <1>0, <1>5 DEF OnWrite_
  <2>2. "isClose" \in DOMAIN c /\ c.isClose = conn[f].isClose
    BY <2>1 DEF UserInv
  <2>3. CASE /\ conn' = [conn EXCEPT ![f] = c] /\ UNCHANGED userCount
             /\ UNCHANGED armed \/ ModFd(w, "out")
    <3>1. \A g \in Fd : armed'[g] = "none" <=> armed[g] = "none"
      BY <2>1, <2>3 DEF ModFd, UserInv, TaskInv
    <3> QED  BY <2>1, <2>2, <2>3, <3>1, Keeps, SameUsers
  <2>4. CASE Closes(w, iov)
    BY <2>1, <2>4, Hangs DEF Closes
  <2> QED  BY <1>5, <2>3, <2>4 DEF OnWrite_
<1> QED  BY <1>1, <1>2, <1>3, <1>4, <1>5 DEF Work

(* Every step of the server keeps the count. *)
LEMMA UserStep == UserInv /\ [Next]_vars => UserInv'
<1> SUFFICES ASSUME UserInv, [Next]_vars PROVE UserInv'
  OBVIOUS
<1>0. TaskInv'
  BY TaskStep DEF UserInv
<1>1. CASE Main
  BY <1>0, <1>1, UserMain
<1>2. ASSUME NEW w \in Worker, Work(w) PROVE UserInv'
  BY <1>0, <1>2, UserWork
<1>3. CASE Connect
  BY <1>0, <1>3, SameUsers DEF Connect, UserInv
<1>4. ASSUME NEW f \in Fd, Quit(f) PROVE UserInv'
  BY <1>0, <1>4, SameUsers DEF Quit, UserInv
<1>5. ASSUME NEW f \in Fd, NEW piece \in Piece, Arrive(f, piece) PROVE UserInv'
  BY <1>0, <1>5, SameUsers DEF Arrive, UserInv
<1>6. CASE UNCHANGED vars
  BY <1>0, <1>6, SameUsers DEF vars, kernel, UserInv
<1> QED  BY <1>1, <1>2, <1>3, <1>4, <1>5, <1>6 DEF Next

(* HttpConn::userCount, which DealListen_ compares with MAX_FD, is the     *)
(* number of open connections, and the flag of Close tells the open ones:  *)
(* no interleaving of the main thread's CloseConn_ with those of the       *)
(* pool's threads counts a connection twice or not at all.                 *)
THEOREM UsersCorrect == Spec => []UsersCounted
<1>1. UserInv => UsersCounted
  BY DEF UserInv
<1> QED  BY UserInit, UserStep, <1>1, PTL DEF Spec

-----------------------------------------------------------------------------
(* The threads between GetConn and the first FreeConn. *)
Holder == {w \in Worker : wpc[w] = "~SqlConnRAII"}

(* The inductive invariant behind SqlAvailable.  The count of the queue    *)
(* may exceed connSize (FreeConn runs twice), never fall short of it by    *)
(* more than the threads that hold a connection.                           *)
SqlInv ==
    /\ TaskInv
    /\ connQue \in Int
    /\ timeoutMS_ \in {0, 60000}
    /\ SqlAvailable

(* The holders can be counted, and one more or one less counts for one;    *)
(* a thread that holds none leaves fewer than there are threads.           *)
LEMMA HolderCounts ==
    ASSUME EnoughConns
    PROVE  /\ Cardinality(Holder) \in Nat
           /\ \A w \in Worker : w \notin Holder =>
                 /\ Cardinality(Holder \cup {w}) = Cardinality(Holder) + 1
                 /\ Cardinality(Holder) < connSize
           /\ \A w \in Holder : Cardinality(Holder \ {w}) = Cardinality(Holder) - 1
<1>1. IsFiniteSet(Worker) /\ Holder \subseteq Worker
  BY DEF EnoughConns, Holder
<1>2. IsFiniteSet(Holder)
  BY <1>1, FS_Subset
<1>3. Cardinality(Holder) \in Nat
  BY <1>2, FS_CardinalityType
<1>4. ASSUME NEW w \in Worker, w \notin Holder
      PROVE  /\ Cardinality(Holder \cup {w}) = Cardinality(Holder) + 1
             /\ Cardinality(Holder) < connSize
  <2>1. /\ IsFiniteSet(Holder \cup {w})
        /\ Cardinality(Holder \cup {w}) = Cardinality(Holder) + 1
    BY <1>2, <1>4, FS_AddElement
  <2>2. Holder \cup {w} \subseteq Worker
    BY <1>1
  <2>3. Cardinality(Holder \cup {w}) <= Cardinality(Worker)
    BY <1>1, <2>2, FS_Subset
  <2>4. Cardinality(Worker) \in Nat /\ Cardinality(Worker) <= connSize
    BY <1>1, FS_CardinalityType DEF EnoughConns
  <2> QED  BY <1>3, <2>1, <2>3, <2>4, WebAssumption
<1>5. \A w \in Holder : Cardinality(Holder \ {w}) = Cardinality(Holder) - 1
  BY <1>2, FS_RemoveElement
<1> QED  BY <1>3, <1>4, <1>5

(* Steps that touch neither the queue nor the holders. *)
LEMMA SameSql ==
    ASSUME SqlInv, TaskInv', UNCHANGED <<connQue, timeoutMS_>>, Holder' = Holder,
           mpc' # "crashed" \/ mpc' = mpc \/ timeoutMS_ # 0
    PROVE  SqlInv'
<1>1. (connQue + Cardinality(Holder) >= connSize)'
  BY DEF SqlInv, SqlAvailable, Holder
<1> QED  BY <1>1 DEF SqlInv, SqlAvailable, Holder

(* A thread that goes from a place without a connection to another one. *)
LEMMA OffSql ==
    ASSUME TaskInv, NEW w \in Worker, NEW l, Goto(w, l),
           wpc[w] # "~SqlConnRAII", l # "~SqlConnRAII"
    PROVE  Holder' = Holder
  BY DEF Holder, TaskInv, Goto

(* The pool is full at the start. *)
LEMMA SqlInit == ASSUME EnoughConns PROVE Init => SqlInv
<1> SUFFICES ASSUME Init PROVE SqlInv
  OBVIOUS
<1>1. connQue = connSize /\ connQue \in Int /\ Cardinality(Holder) \in Nat
  BY HolderCounts, WebAssumption DEF Init
<1>2. connQue + Cardinality(Holder) >= connSize
  BY <1>1, WebAssumption
<1>3. timeoutMS_ \in {0, 60000} /\ mpc # "crashed"
  BY DEF Init
<1> QED  BY <1>1, <1>2, <1>3, TaskInit DEF SqlInv, SqlAvailable, Holder

(* The steps of UserVerify. *)
LEMMA SqlVerify ==
    ASSUME EnoughConns, SqlInv, TaskInv', NEW w \in Worker,
           GetConn(w) \/ sem_wait(w) \/ pop(w) \/ FreeConn(w) \/ mysql_query(w)
    PROVE  SqlInv'
<1>0. connQue \in Int /\ connQue + Cardinality(Holder) >= connSize
  BY DEF SqlInv, SqlAvailable, Holder
<1>1. CASE GetConn(w)
  <2>1. w \notin Holder
    BY <1>1 DEF GetConn, Holder
  <2>2. /\ connQue \in Int /\ Cardinality(Holder) \in Nat
        /\ Cardinality(Holder) < connSize
        /\ connQue + Cardinality(Holder) >= connSize
    BY <1>0, <2>1, HolderCounts
  <2>3. connQue # 0
    BY <2>2, WebAssumption
  <2>4. Holder' = Holder
    BY <1>1, OffSql DEF GetConn, SqlInv
  <2> QED  BY <1>1, <2>3, <2>4, SameSql DEF GetConn, sqlVars
<1>2. CASE sem_wait(w)
  <2>1. Holder' = Holder
    BY <1>2, OffSql DEF sem_wait, SqlInv
  <2> QED  BY <1>2, <2>1, SameSql DEF sem_wait
<1>3. CASE pop(w)
  <2>1. Holder' = Holder \cup {w} /\ w \notin Holder
    BY <1>3 DEF pop, Goto, Holder, SqlInv, TaskInv
  <2>2. /\ connQue \in Int /\ Cardinality(Holder) \in Nat
        /\ Cardinality(Holder') = Cardinality(Holder) + 1
        /\ connQue + Cardinality(Holder) >= connSize
    BY <1>0, <2>1, HolderCounts
  <2>3. connQue' = connQue - 1 /\ UNCHANGED <<timeoutMS_, mpc>>
    BY <1>3 DEF pop
  <2>4. connQue' \in Int /\ connQue' + Cardinality(Holder') >= connSize
    BY <2>2, <2>3, WebAssumption
  <2> QED  BY <2>3, <2>4 DEF SqlInv, SqlAvailable, Holder
<1>4. CASE FreeConn(w)
  <2>0. connQue' = connQue + 1 /\ UNCHANGED <<timeoutMS_, mpc>>
    BY <1>4 DEF FreeConn
  <2>1. \/ Holder' = Holder \ {w} /\ w \in Holder
        \/ Holder' = Holder
    BY <1>4 DEF FreeConn, Goto, Holder, SqlInv, TaskInv
  <2>2. /\ connQue \in Int /\ Cardinality(Holder) \in Nat
        /\ Cardinality(Holder') \in {Cardinality(Holder), Cardinality(Holder) - 1}
        /\ connQue + Cardinality(Holder) >= connSize
    BY <1>0, <2>1, HolderCounts
  <2>3. connQue' \in Int /\ connQue' + Cardinality(Holder') >= connSize
    BY <2>0, <2>2, WebAssumption
  <2> QED  BY <2>0, <2>3 DEF SqlInv, SqlAvailable, Holder
<1>5. CASE mysql_query(w)
  <2>1. Holder' = Holder
    BY <1>5, OffSql DEF mysql_query, SqlInv
  <2> QED  BY <1>5, <2>1, SameSql DEF mysql_query, sqlVars
<1> QED  BY <1>1, <1>2, <1>3, <1>4, <1>5

(* The other steps of the pool's threads. *)
LEMMA SqlWork ==
    ASSUME EnoughConns, SqlInv, TaskInv', NEW w \in Worker, Work(w)
    PROVE  SqlInv'
<1> SUFFICES ASSUME ~(GetConn(w) \/ sem_wait(w) \/ pop(w) \/ FreeConn(w)
                      \/ mysql_query(w))
             PROVE  SqlInv'
  BY SqlVerify
<1>1. CASE TakeTask(w)
  <2>1. Head(tasks) \in Task
    BY <1>1, TaskTail, TaskElements DEF TakeTask, SqlInv, TaskInv
  <2>2. Head(tasks)[1] # "~SqlConnRAII"
    BY <2>1 DEF Task
  <2>3. Holder' = Holder
    BY <1>1, <2>2 DEF TakeTask, Holder, SqlInv, TaskInv
  <2> QED  BY <1>1, <2>3, SameSql DEF TakeTask, sqlVars
<1>2. CASE OnRead_(w)
  <2>1. Goto(w, "process") \/ Goto(w, "idle")
    BY <1>2 DEF OnRead_, Closes, Finish
  <2>2. Holder' = Holder
    BY <1>2, <2>1, OffSql DEF OnRead_, SqlInv
  <2> QED  BY <1>2, <2>2, SameSql DEF OnRead_, sqlVars
<1>3. CASE OnProcess(w)
  <2>1. /\ wpc[w] = "process"
        /\ \E l \in {"idle", "GetConn", "MakeResponse"} : Goto(w, l)
    BY <1>3 DEF OnProcess, Finish
  <2>2. Holder' = Holder
    BY <2>1, OffSql DEF SqlInv
  <2> QED  BY <1>3, <2>2, SameSql DEF OnProcess, sqlVars
<1>4. ASSUME NEW file \in BOOLEAN, MakeResponse(w, file) PROVE SqlInv'
  <2>1. Holder' = Holder
    BY <1>4, OffSql DEF MakeResponse, Finish, SqlInv
  <2> QED  BY <1>4, <2>1, SameSql DEF MakeResponse, sqlVars
<1>5. ASSUME NEW iov \in (0 .. 1) \X (0 .. 1), NEW again \in BOOLEAN,
             OnWrite_(w, iov, again)
      PROVE  SqlInv'
  <2>1. Goto(w, "process") \/ Goto(w, "idle")
    BY <1>5 DEF OnWrite_, Closes, Finish
  <2>2. Holder' = Holder
    BY <1>5, <2>1, OffSql DEF OnWrite_, SqlInv
  <2> QED  BY <1>5, <2>2, SameSql DEF OnWrite_, sqlVars
<1> QED  BY <1>1, <1>2, <1>3, <1>4, <1>5 DEF Work

(* Every step of the server keeps the count of MySQL connections. *)
LEMMA SqlStep == ASSUME EnoughConns PROVE SqlInv /\ [Next]_vars => SqlInv'
<1> SUFFICES ASSUME SqlInv, [Next]_vars PROVE SqlInv'
  OBVIOUS
<1>0. TaskInv'
  BY TaskStep DEF SqlInv
<1>1. CASE Main
  <2>1. UNCHANGED <<wpc, connQue, timeoutMS_>>
    BY <1>1
    DEF Main, getNextTick, ListenEvent, SendError_, AcceptFails, AddClient_,
        DealEvent, HangUp, sqlVars
  <2>2. Holder' = Holder
    BY <2>1 DEF Holder
  <2>3. mpc' # "crashed" \/ mpc' = mpc \/ timeoutMS_ # 0
    <3>1. CASE getNextTick
      BY <3>1 DEF getNextTick
    <3>2. CASE ListenEvent \/ SendError_ \/ AcceptFails
      BY <3>2 DEF ListenEvent, SendError_, AcceptFails
    <3>3. ASSUME NEW f \in Fd, AddClient_(f) \/ DealEvent(f) \/ HangUp(f)
          PROVE  mpc' # "crashed" \/ mpc' = mpc
      BY <3>3 DEF AddClient_, DealEvent, HangUp
    <3> QED  BY <1>1, <3>1, <3>2, <3>3 DEF Main
  <2> QED  BY <1>0, <2>1, <2>2, <2>3, SameSql
<1>2. ASSUME NEW w \in Worker, Work(w) PROVE SqlInv'
  BY <1>0, <1>2, SqlWork
<1>3. CASE UNCHANGED <<wpc, connQue, timeoutMS_, mpc>>
  <2>1. Holder' = Holder
    BY <1>3 DEF Holder
  <2> QED  BY <1>0, <1>3, <2>1, SameSql
<1>4. CASE Connect \/ \E f \in Fd : Quit(f) \/ \E piece \in Piece : Arrive(f, piece)
  BY <1>3, <1>4 DEF Connect, Quit, Arrive, sqlVars
<1>5. CASE UNCHANGED vars
  BY <1>3, <1>5 DEF vars, sqlVars
<1> QED  BY <1>1, <1>2, <1>4, <1>5 DEF Next

(* With at least as many MySQL connections as threads (main.cpp asks for   *)
(* 12 and 6), every way through UserVerify, failed queries and the second  *)
(* FreeConn included, leaves one for GetConn to find, and assert(sql)      *)
(* never ends the server.                                                  *)
THEOREM SqlCorrect == ASSUME EnoughConns PROVE Spec => []SqlAvailable
<1>1. SqlInv => SqlAvailable
  BY DEF SqlInv
<1> QED  BY SqlInit, SqlStep, <1>1, PTL DEF Spec
=============================================================================
