----------------------------- MODULE AsyncLogger -----------------------------
(***************************************************************************)
(* The logging system as the mains of the repository run it: AsyncLogger   *)
(* (logs_code/AsyncLogger.hpp), LoggerManager (logs_code/Manager.hpp), the *)
(* pool that backs up severe messages and the worker that writes them all, *)
(* from main's set-up to the destructors after main.                       *)
(*                                                                         *)
(* AsyncWorker and ThreadPool each assume something of their callers: that *)
(* Push is called between construction and destruction, that the worker is *)
(* not destroyed during a Push, nor the pool during an enqueue.  Here the  *)
(* calls are made under the conditions of the calling code alone, and the  *)
(* composition is checked against both specifications.                     *)
(***************************************************************************)
EXTENDS Integers, Sequences, FiniteSets

CONSTANTS
    Thread,         \* the threads that log
    Severe,         \* the messages logged with Error or Fatal
    Message, MsgLen, BufferSize, Threshold, LinearGrowth, IntMod, MaxAlloc,
    Safe, MaxCalls, \* of AsyncWorker
    Worker          \* of ThreadPool

\* What AsyncWorker and ThreadPool assume of their constants.
ASSUME LoggerAssumption ==
    /\ IsFiniteSet(Thread) /\ IsFiniteSet(Worker) /\ Worker # {}
    /\ Message # {} /\ Severe \subseteq Message
    /\ MsgLen \in [Message -> Nat \ {0}]
    /\ {BufferSize, IntMod} \subseteq Nat \ {0}
    /\ {Threshold, LinearGrowth, MaxAlloc, MaxCalls} \subseteq Nat
    /\ Safe \in BOOLEAN

VARIABLES
    callback_, stop_, productor, consumer, caller, data, worker, calls,
    pushed, flushed,                                    \* AsyncWorker
    stop, tasks, client, ready, pool, task, dtor,       \* ThreadPool
    main,           \* where main is
    app,            \* app[t]: where t is in Info, Error, ...
    msg,            \* msg[t]: the message t is logging
    backed          \* history: backed[m] counts the backups run of m

workerVars == <<callback_, stop_, productor, consumer, caller, data, worker,
                calls, pushed, flushed>>
poolVars == <<stop, tasks, client, ready, pool, task, dtor>>
vars == <<workerVars, poolVars, main, app, msg, backed>>

W  == INSTANCE AsyncWorker WITH Producer <- Thread
TP == INSTANCE ThreadPool WITH Client <- Thread

Init ==
    /\ W!Init
    /\ TP!PoolInit
    /\ main = "build"
    /\ app = [t \in Thread |-> "out"]
    /\ msg = [t \in Thread |-> W!NoData]
    /\ backed = [m \in Message |-> 0]

-----------------------------------------------------------------------------
(* A thread logs.                                                          *)

\* Info(...), Error(...) etc. up to the test of the level in serialize.
Log(t, m) ==
    /\ main = "run"
    /\ app[t] = "out"
    /\ calls + Cardinality({u \in Thread : app[u] \in {"backup", "get", "push"}})
         < MaxCalls
    /\ msg' = [msg EXCEPT ![t] = m]
    /\ app' = [app EXCEPT ![t] = IF m \in Severe THEN "backup" ELSE "push"]
    /\ UNCHANGED <<workerVars, poolVars, main, backed>>

\* auto ret = tp->enqueue(start_backup, data); ret.get();
Enqueue_NoGet(t) ==
    /\ app[t] = "backup"
    /\ TP!EnqueueTask(t)
    /\ app' = [app EXCEPT ![t] = "push"]
    /\ UNCHANGED <<workerVars, main, msg, backed>>

Enqueue(t) ==
    /\ app[t] = "backup"
    /\ TP!EnqueueTask(t)
    /\ app' = [app EXCEPT ![t] = "get"]
    /\ UNCHANGED <<workerVars, main, msg, backed>>

EnqueueNotify_None(t) ==
    /\ client[t] = "notify"
    /\ client' = [client EXCEPT ![t] = "get"]
    /\ UNCHANGED <<stop, tasks, ready, pool, task, dtor>>
    /\ UNCHANGED <<workerVars, main, app, msg, backed>>

EnqueueNotify(t) ==
    /\ TP!EnqueueNotify(t)
    /\ UNCHANGED <<workerVars, main, app, msg, backed>>

Get(t) ==
    /\ app[t] = "get"
    /\ TP!Get(t)
    /\ app' = [app EXCEPT ![t] = "push"]
    /\ UNCHANGED <<workerVars, main, msg, backed>>

\* Flush(data): asyncworker->Push, under no condition of its own.
Push(t) ==
    /\ app[t] = "push"
    /\ app' = [app EXCEPT ![t] = "pushing"]
    /\ calls' = calls + 1
    /\ caller' = [caller EXCEPT ![t] = "contending"]
    /\ data' = [data EXCEPT ![t] = msg[t]]
    /\ UNCHANGED <<callback_, stop_, productor, consumer, worker, pushed,
                   flushed, poolVars, main, msg, backed>>

PushWait(t) ==
    /\ W!WaitForRoom(t)
    /\ UNCHANGED <<poolVars, main, app, msg, backed>>

PushDone(t) ==
    /\ W!Write(t) \/ W!WriteThrows(t)
    /\ app' = [app EXCEPT ![t] = "out"]
    /\ UNCHANGED <<poolVars, main, msg, backed>>

-----------------------------------------------------------------------------
(* The worker's thread and the pool's threads.                             *)

ThreadEntry ==
    /\ W!ThreadEntry
    /\ UNCHANGED <<poolVars, main, app, msg, backed>>

PoolLoop(w) ==
    /\ TP!Sleep(w) \/ TP!Return(w) \/ TP!Take(w)
    /\ UNCHANGED <<workerVars, main, app, msg, backed>>

RunBackup(w) ==
    /\ TP!Run(w)
    /\ backed' = [m \in Message |->
                     backed[m] + Cardinality({t \in task[w] : msg[t] = m})]
    /\ UNCHANGED <<workerVars, main, app, msg>>

\* A wait returns without a notification.
SpuriousWakeup ==
    \/ /\ \E t \in Thread : W!SpuriousWakeup(t)
       /\ UNCHANGED <<poolVars, main, app, msg, backed>>
    \/ /\ \E w \in Worker : TP!PoolWakeup(w)
       /\ UNCHANGED <<workerVars, main, app, msg, backed>>

-----------------------------------------------------------------------------
(* main, and the destructor of the static LoggerManager after it.          *)

FinishConstructor ==
    /\ W!FinishConstructor
    /\ UNCHANGED <<poolVars, main, app, msg, backed>>

\* AddLogger(Glb->Build()); only then are the threads that log started.
AddLogger_Early ==
    /\ main = "build"
    /\ main' = "run"
    /\ UNCHANGED <<workerVars, poolVars, app, msg, backed>>

AddLogger ==
    /\ main = "build"
    /\ callback_
    /\ main' = "run"
    /\ UNCHANGED <<workerVars, poolVars, app, msg, backed>>

\* t1.join(); delete(tp);
DeletePool_NoJoin ==
    /\ main = "run"
    /\ TP!SetStop
    /\ main' = "delete"
    /\ UNCHANGED <<workerVars, app, msg, backed>>

DeletePool ==
    /\ main = "run"
    /\ \A t \in Thread : app[t] = "out"
    /\ TP!SetStop
    /\ main' = "delete"
    /\ UNCHANGED <<workerVars, app, msg, backed>>

NotifyAll_None ==
    /\ dtor = "notify"
    /\ dtor' = "join"
    /\ UNCHANGED <<stop, tasks, client, ready, pool, task>>
    /\ UNCHANGED <<workerVars, main, app, msg, backed>>

NotifyAll ==
    /\ TP!NotifyAll
    /\ UNCHANGED <<workerVars, main, app, msg, backed>>

PoolJoined ==
    /\ dtor = "join"
    /\ \A w \in Worker : pool[w] = "returned"
    /\ dtor' = "done"
    /\ main' = "return"
    /\ UNCHANGED <<workerVars, stop, tasks, client, ready, pool, task, app, msg,
                   backed>>

\* ~LoggerManager drops the last reference to the logger: ~AsyncWorker.
DestroyLogger ==
    /\ main = "return"
    /\ stop_' = TRUE
    /\ main' = "join"
    /\ UNCHANGED <<callback_, productor, consumer, caller, data, worker, calls,
                   pushed, flushed, poolVars, app, msg, backed>>

WorkerJoined_NoJoin ==
    /\ main = "join"
    /\ main' = "exited"
    /\ UNCHANGED <<workerVars, poolVars, app, msg, backed>>

WorkerJoined ==
    /\ main = "join"
    /\ worker = "returned"
    /\ main' = "exited"
    /\ UNCHANGED <<workerVars, poolVars, app, msg, backed>>

MainStep ==
    FinishConstructor \/ AddLogger \/ NotifyAll \/ PoolJoined \/ DestroyLogger
        \/ WorkerJoined

LogStep(t) ==
    Enqueue(t) \/ EnqueueNotify(t) \/ Get(t) \/ Push(t) \/ PushWait(t)
        \/ PushDone(t)

PoolStep(w) == PoolLoop(w) \/ RunBackup(w)

Ended ==
    /\ main = "exited" \/ worker = "crashed"
    /\ UNCHANGED vars

Next ==
    \/ /\ worker # "crashed"
       /\ \/ \E t \in Thread : LogStep(t) \/ \E m \in Message : Log(t, m)
          \/ \E w \in Worker : PoolStep(w)
          \/ SpuriousWakeup
          \/ ThreadEntry
          \/ DeletePool
          \/ MainStep
    \/ Ended

Spec == Init /\ [][Next]_vars

(***************************************************************************)
(* Every thread that can run is run; only whether and what to log, and     *)
(* when main goes on to delete the pool, is left open.                     *)
(***************************************************************************)
FairSpec ==
    /\ Spec
    /\ WF_vars(MainStep)
    /\ WF_vars(ThreadEntry)
    /\ \A t \in Thread : WF_vars(LogStep(t))
    /\ \A w \in Worker : WF_vars(PoolStep(w))

-----------------------------------------------------------------------------
(* Properties.                                                             *)

(***************************************************************************)
(* The code around AsyncWorker uses it as its specification assumes: no    *)
(* Push before the constructor has returned or after the destructor has    *)
(* begun, and no destructor during a Push.                                 *)
(***************************************************************************)
WorkerContract == W!Spec

(***************************************************************************)
(* The code around ThreadPool uses it as its specification assumes: the    *)
(* pool is gone only when no thread is inside enqueue.                     *)
(***************************************************************************)
PoolContract == TP!PoolSpec

(***************************************************************************)
(* A severe message reaches the buffer only after its backup has been run  *)
(* (serialize waits for the future before it calls Flush).                 *)
(***************************************************************************)
BackedUpFirst ==
    \A m \in Severe :
        Cardinality({i \in 1 .. Len(pushed) : pushed[i] = m}) =< backed[m]

(***************************************************************************)
(* When the process ends in order, every message that a call of Info,      *)
(* Error, ... has put into the buffer has been written.                    *)
(***************************************************************************)
WrittenAtExit == main = "exited" => flushed = pushed

\* Every call that logs returns.
LogReturns ==
    \A t \in Thread :
        app[t] # "out" ~> (app[t] = "out" \/ worker = "crashed")

\* Once main deletes the pool the process ends: no join blocks for ever.
Exits == main = "delete" ~> main = "exited"

=============================================================================
