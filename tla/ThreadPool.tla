------------------------------ MODULE ThreadPool ------------------------------
(***************************************************************************)
(* ThreadPool (logs_code/ThreadPoll.hpp): threads that log an ERROR or a   *)
(* FATAL message enqueue a backup task and block on its future; the pool's *)
(* threads run the tasks; the destructor stops the pool and joins them.    *)
(*                                                                         *)
(* A section that holds queue_mutex is one action.  The notifications of   *)
(* enqueue and of the destructor come after the unlock and are actions of  *)
(* their own.  A client has one task at a time, since serialize calls      *)
(* get() on the future at once, so a task is named by its client.          *)
(***************************************************************************)
EXTENDS Integers, Sequences, FiniteSets

CONSTANTS
    Client,         \* the threads that enqueue
    Worker          \* the pool's threads

ASSUME PoolAssumption ==
    /\ IsFiniteSet(Client)
    /\ IsFiniteSet(Worker)
    /\ Worker # {}                  \* thread_count is at least 1

VARIABLES
    stop,
    tasks,          \* the queue of tasks
    client,         \* client[c]: where c is in enqueue(...).get()
    ready,          \* ready[c]: the future of c's task is ready
    pool,           \* pool[w]: where w is in its loop
    task,           \* task[w]: the task w took last
    dtor            \* where the destructor is

poolVars == <<stop, tasks, client, ready, pool, task, dtor>>

ClientState == {"out", "notify", "get"}
PoolState == {"lock", "asleep", "run", "returned"}
DtorState == {"uncalled", "notify", "join", "done"}

PoolInit ==
    /\ stop = FALSE
    /\ tasks = <<>>
    /\ client = [c \in Client |-> "out"]
    /\ ready = [c \in Client |-> FALSE]
    /\ pool = [w \in Worker |-> "lock"]
    /\ task = [w \in Worker |-> {}]
    /\ dtor = "uncalled"

Sleeping == {w \in Worker : pool[w] = "asleep"}

-----------------------------------------------------------------------------
(* enqueue, and get() on the future that it returns.                       *)

EnqueueTask_NotifyIfEmpty(c) ==
    /\ dtor # "done"
    /\ client[c] = "out"
    /\ ~stop
    /\ tasks' = Append(tasks, c)
    /\ ready' = [ready EXCEPT ![c] = FALSE]
    /\ client' = [client EXCEPT ![c] = IF tasks = <<>> THEN "notify" ELSE "get"]
    /\ UNCHANGED <<stop, pool, task, dtor>>

EnqueueTask(c) ==
    /\ dtor # "done"
    /\ client[c] = "out"
    /\ ~stop
    /\ tasks' = Append(tasks, c)
    /\ ready' = [ready EXCEPT ![c] = FALSE]
    /\ client' = [client EXCEPT ![c] = "notify"]
    /\ UNCHANGED <<stop, pool, task, dtor>>

\* A stopped pool takes no task: enqueue throws and serialize goes on.
EnqueueThrows(c) ==
    /\ dtor # "done"
    /\ client[c] = "out"
    /\ stop
    /\ UNCHANGED poolVars

EnqueueNotify(c) ==
    /\ client[c] = "notify"
    /\ client' = [client EXCEPT ![c] = "get"]
    /\ \/ \E w \in Sleeping : pool' = [pool EXCEPT ![w] = "lock"]
       \/ Sleeping = {} /\ UNCHANGED pool
    /\ UNCHANGED <<stop, tasks, ready, task, dtor>>

Get(c) ==
    /\ client[c] = "get"
    /\ ready[c]
    /\ client' = [client EXCEPT ![c] = "out"]
    /\ UNCHANGED <<stop, tasks, ready, pool, task, dtor>>

-----------------------------------------------------------------------------
(* The loop of a pool thread.                                              *)

MayProceed == stop \/ tasks # <<>>

Sleep(w) ==
    /\ pool[w] = "lock"
    /\ ~MayProceed
    /\ pool' = [pool EXCEPT ![w] = "asleep"]
    /\ UNCHANGED <<stop, tasks, client, ready, task, dtor>>

PoolWakeup(w) ==
    /\ pool[w] = "asleep"
    /\ pool' = [pool EXCEPT ![w] = "lock"]
    /\ UNCHANGED <<stop, tasks, client, ready, task, dtor>>

Return_OnStop(w) ==
    /\ pool[w] = "lock"
    /\ stop
    /\ pool' = [pool EXCEPT ![w] = "returned"]
    /\ UNCHANGED <<stop, tasks, client, ready, task, dtor>>

Return(w) ==
    /\ pool[w] = "lock"
    /\ stop /\ tasks = <<>>
    /\ pool' = [pool EXCEPT ![w] = "returned"]
    /\ UNCHANGED <<stop, tasks, client, ready, task, dtor>>

Take_NoPop(w) ==
    /\ pool[w] = "lock"
    /\ tasks # <<>>
    /\ task' = [task EXCEPT ![w] = {Head(tasks)}]
    /\ pool' = [pool EXCEPT ![w] = "run"]
    /\ UNCHANGED <<stop, tasks, client, ready, dtor>>

Take(w) ==
    /\ pool[w] = "lock"
    /\ tasks # <<>>
    /\ task' = [task EXCEPT ![w] = {Head(tasks)}]
    /\ tasks' = Tail(tasks)
    /\ pool' = [pool EXCEPT ![w] = "run"]
    /\ UNCHANGED <<stop, client, ready, dtor>>

\* The packaged_task makes the future ready, with a value or an exception.
Run(w) ==
    /\ pool[w] = "run"
    /\ ready' = [c \in Client |-> ready[c] \/ c \in task[w]]
    /\ task' = [task EXCEPT ![w] = {}]
    /\ pool' = [pool EXCEPT ![w] = "lock"]
    /\ UNCHANGED <<stop, tasks, client, dtor>>

-----------------------------------------------------------------------------
(* ~ThreadPool.                                                            *)

SetStop ==
    /\ dtor = "uncalled"
    /\ stop' = TRUE
    /\ dtor' = "notify"
    /\ UNCHANGED <<tasks, client, ready, pool, task>>

NotifyAll_One ==
    /\ dtor = "notify"
    /\ \/ \E w \in Sleeping : pool' = [pool EXCEPT ![w] = "lock"]
       \/ Sleeping = {} /\ UNCHANGED pool
    /\ dtor' = "join"
    /\ UNCHANGED <<stop, tasks, client, ready, task>>

NotifyAll ==
    /\ dtor = "notify"
    /\ pool' = [w \in Worker |-> IF w \in Sleeping THEN "lock" ELSE pool[w]]
    /\ dtor' = "join"
    /\ UNCHANGED <<stop, tasks, client, ready, task>>

(***************************************************************************)
(* Every join has returned and the members are destroyed.  That no thread  *)
(* is still inside enqueue is up to the owner: both mains delete tp after  *)
(* joining the threads that use it.                                        *)
(***************************************************************************)
JoinAll ==
    /\ dtor = "join"
    /\ \A w \in Worker : pool[w] = "returned"
    /\ \A c \in Client : client[c] # "notify"
    /\ dtor' = "done"
    /\ UNCHANGED <<stop, tasks, client, ready, pool, task>>

ClientStep(c) == EnqueueNotify(c) \/ Get(c)
WorkerStep(w) == Sleep(w) \/ Return(w) \/ Take(w) \/ Run(w)
DtorStep == NotifyAll \/ JoinAll

PoolEnded == dtor = "done" /\ UNCHANGED poolVars

PoolNext ==
    \/ \E c \in Client : EnqueueTask(c) \/ EnqueueThrows(c) \/ ClientStep(c)
    \/ \E w \in Worker : WorkerStep(w) \/ PoolWakeup(w)
    \/ SetStop
    \/ DtorStep
    \/ PoolEnded

PoolSpec == PoolInit /\ [][PoolNext]_poolVars

(***************************************************************************)
(* Every thread that can run is run, and a task ends (start_backup gives   *)
(* up after five failed connects).  Nobody has to enqueue or to destroy    *)
(* the pool, and spurious wakeups are owed to nobody.                      *)
(***************************************************************************)
FairPoolSpec ==
    /\ PoolSpec
    /\ \A c \in Client : WF_poolVars(ClientStep(c))
    /\ \A w \in Worker : WF_poolVars(WorkerStep(w))
    /\ WF_poolVars(DtorStep)

-----------------------------------------------------------------------------
(* Properties.                                                             *)

\* Every variable has its type.
PoolTypeOK ==
    /\ stop \in BOOLEAN
    /\ tasks \in Seq(Client)
    /\ client \in [Client -> ClientState]
    /\ ready \in [Client -> BOOLEAN]
    /\ pool \in [Worker -> PoolState]
    /\ task \in [Worker -> SUBSET Client]
    /\ dtor \in DtorState

InQueue(q, c) == \E i \in 1 .. Len(q) : q[i] = c
Distinct(q) == \A i, j \in 1 .. Len(q) : q[i] = q[j] => i = j
Held(c) == \E w \in Worker : c \in task[w]

(***************************************************************************)
(* A client that waits for its future has its task in exactly one place:   *)
(* the queue, once, or one worker's hands, or done.  So no accepted task   *)
(* is lost or run twice (enqueue, the pop and the run of the loop).        *)
(***************************************************************************)
TaskInOnePlace ==
    /\ Distinct(tasks)
    /\ \A v, w \in Worker : v # w => task[v] \cap task[w] = {}
    /\ \A c \in Client :
          /\ ~(InQueue(tasks, c) /\ Held(c))
          /\ client[c] # "out" => (InQueue(tasks, c) \/ Held(c) <=> ~ready[c])
          /\ client[c] = "out" => ~InQueue(tasks, c) /\ ~Held(c)

(***************************************************************************)
(* No wakeup is lost although enqueue notifies after it has unlocked:      *)
(* while a worker sleeps, each queued task has a worker that is on its way *)
(* to the queue or a notification still to come (ThreadPoll.hpp:80).       *)
(***************************************************************************)
NoLostWakeup ==
    Sleeping # {} =>
        Len(tasks) =< Cardinality({w \in Worker : pool[w] = "lock"})
                        + Cardinality({c \in Client : client[c] = "notify"})

(***************************************************************************)
(* The destructor returns only after every accepted task has been run: no  *)
(* client is left waiting for a future that nobody will make ready.        *)
(***************************************************************************)
AllTasksRun ==
    dtor = "done" => \A c \in Client : client[c] = "get" => ready[c]

\* The destructor returns: every worker wakes up, drains the queue and ends.
DestructorReturns == dtor # "uncalled" ~> dtor = "done"

=============================================================================
