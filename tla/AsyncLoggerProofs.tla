-------------------------- MODULE AsyncLoggerProofs --------------------------
(***************************************************************************)
(* The composed logging system, for any threads, messages and sizes: the   *)
(* calls that AsyncLogger and main make stay within what AsyncWorker and   *)
(* ThreadPool assume, so that their theorems hold of the composition; with *)
(* them, everything pushed is written at exit and no severe message is     *)
(* pushed before its backup.                                               *)
(***************************************************************************)
EXTENDS AsyncLogger, FiniteSetTheorems, SequenceTheorems, TLAPS

AppState == {"out", "backup", "get", "push", "pushing"}
MainState == {"build", "run", "delete", "return", "join", "exited"}

(* Where a thread is in serialize decides where it is in the two parts. *)
Places ==
    /\ app \in [Thread -> AppState] /\ msg \in [Thread -> Message]
    /\ caller \in [Thread -> {"out", "contending", "asleep"}]
    /\ client \in [Thread -> {"out", "notify", "get"}]
    /\ data \in [Thread -> Message]
    /\ \A t \in Thread : /\ caller[t] # "out" <=> app[t] = "pushing"
                         /\ client[t] # "out" <=> app[t] = "get"
                         /\ app[t] = "pushing" => data[t] = msg[t]

(* Where main is decides what has been built and destroyed. *)
Stages ==
    /\ main \in MainState
    /\ main # "run" => \A t \in Thread : app[t] = "out"
    /\ main # "build" => callback_
    /\ stop_ <=> main \in {"join", "exited"}
    /\ dtor \in {"notify", "join"} <=> main = "delete"
    /\ dtor = "done" <=> main \in {"return", "join", "exited"}
    /\ main = "exited" => worker = "returned"

(* The calls that Log has let in are within the bound. *)
Pending == {t \in Thread : app[t] \in {"backup", "get", "push"}}

Budget == calls \in Nat /\ calls + Cardinality(Pending) <= MaxCalls

LoggerInv == Places /\ Stages /\ Budget

-----------------------------------------------------------------------------
\* What stands for no message is a message: there is one.
LEMMA NoMessage == W!NoData \in Message
  BY LoggerAssumption DEF W!NoData

\* No call is under way before main.
LEMMA PlacesInit == Init => Places
<1> SUFFICES ASSUME Init PROVE Places
  OBVIOUS
<1>1. /\ app = [t \in Thread |-> "out"] /\ msg = [t \in Thread |-> W!NoData]
      /\ caller = [t \in Thread |-> "out"] /\ data = [t \in Thread |-> W!NoData]
      /\ client = [t \in Thread |-> "out"]
  BY DEF Init, W!Init, TP!PoolInit
<1> QED  BY <1>1, NoMessage DEF Places, AppState

(* The steps that move one thread. *)
LEMMA PlacesStep == Places /\ Next => Places'
<1> SUFFICES ASSUME Places, Next PROVE Places'
  OBVIOUS
<1> USE DEF Places, AppState
<1>1. ASSUME NEW t \in Thread, NEW m \in Message, Log(t, m) PROVE Places'
  BY <1>1 DEF Log, workerVars, poolVars
<1>2. ASSUME NEW t \in Thread, Enqueue(t) PROVE Places'
  BY <1>2 DEF Enqueue, TP!EnqueueTask, workerVars
<1>3. ASSUME NEW t \in Thread, EnqueueNotify(t) PROVE Places'
  BY <1>3 DEF EnqueueNotify, TP!EnqueueNotify, workerVars
<1>4. ASSUME NEW t \in Thread, Get(t) PROVE Places'
  BY <1>4 DEF Get, TP!Get, workerVars
<1>5. ASSUME NEW t \in Thread, Push(t) PROVE Places'
  BY <1>5 DEF Push, poolVars
<1>6. ASSUME NEW t \in Thread, PushWait(t) PROVE Places'
  BY <1>6 DEF PushWait, W!WaitForRoom, poolVars
<1>7. ASSUME NEW t \in Thread, PushDone(t) PROVE Places'
  BY <1>7 DEF PushDone, W!Write, W!WriteThrows, poolVars
<1>8. CASE ThreadEntry
  <2>1. UNCHANGED <<app, msg, client, data>>
    BY <1>8 DEF ThreadEntry, W!ThreadEntry, W!Swap, W!Flush, W!FlushUninitialised,
                W!Check, poolVars
  <2>2. \/ caller' = caller
        \/ \E p \in Thread : caller[p] = "asleep"
                             /\ caller' = [caller EXCEPT ![p] = "contending"]
    BY <1>8 DEF ThreadEntry, W!ThreadEntry, W!Swap, W!Flush, W!FlushUninitialised,
                W!Check, W!NotifyProductor, W!Asleep
  <2> QED  BY <2>1, <2>2
<1>9. CASE SpuriousWakeup
  BY <1>9 DEF SpuriousWakeup, W!SpuriousWakeup, TP!PoolWakeup, workerVars, poolVars
<1>10. ASSUME NEW w \in Worker, PoolStep(w) PROVE Places'
  BY <1>10 DEF PoolStep, PoolLoop, RunBackup, TP!Sleep, TP!Return, TP!Take, TP!Run,
               workerVars
<1>11. CASE DeletePool \/ MainStep \/ Ended
  <2>1. UNCHANGED <<app, msg, caller, client, data>>
    BY <1>11 DEF DeletePool, TP!SetStop, MainStep, FinishConstructor,
                 W!FinishConstructor, AddLogger, NotifyAll, TP!NotifyAll, PoolJoined,
                 DestroyLogger, WorkerJoined, Ended, workerVars, poolVars, vars
  <2> QED  BY <2>1
<1> QED  BY <1>1, <1>2, <1>3, <1>4, <1>5, <1>6, <1>7, <1>8, <1>9, <1>10, <1>11
         DEF Next, LogStep

-----------------------------------------------------------------------------
\* Before main, the stages agree.
LEMMA StagesInit == Init => Stages
<1> SUFFICES ASSUME Init PROVE Stages
  OBVIOUS
<1>1. /\ main = "build" /\ app = [t \in Thread |-> "out"]
      /\ stop_ = FALSE /\ dtor = "uncalled"
  BY DEF Init, W!Init, TP!PoolInit
<1> QED  BY <1>1 DEF Stages, MainState

(* Where a thread logs, main has not gone on from "run". *)
LEMMA StagesStep == Places /\ Stages /\ Next => Stages'
<1> SUFFICES ASSUME Places, Stages, Next PROVE Stages'
  OBVIOUS
<1>1. ASSUME NEW t \in Thread, LogStep(t) \/ \E m \in Message : Log(t, m)
      PROVE  Stages'
  <2>1. main = "run"
    <3>1. app[t] # "out" \/ main = "run"
      BY <1>1 DEF LogStep, Log, Enqueue, EnqueueNotify, TP!EnqueueNotify, Get, Push,
                  PushWait, W!WaitForRoom, PushDone, W!Write, W!WriteThrows, Places
    <3> QED  BY <3>1 DEF Stages
  <2>2. UNCHANGED <<main, callback_, stop_, dtor>>
    BY <1>1 DEF LogStep, Log, Enqueue, TP!EnqueueTask, EnqueueNotify, TP!EnqueueNotify,
                Get, TP!Get, Push, PushWait, W!WaitForRoom, PushDone, W!Write,
                W!WriteThrows, workerVars, poolVars
  <2> QED  BY <2>1, <2>2 DEF Stages
<1>2. CASE ThreadEntry
  <2>1. UNCHANGED <<main, app, callback_, stop_, dtor>>
    BY <1>2 DEF ThreadEntry, W!ThreadEntry, W!Swap, W!Flush, W!FlushUninitialised,
                W!Check, poolVars
  <2>2. worker # "returned"
    BY <1>2 DEF ThreadEntry, W!ThreadEntry, W!Swap, W!Flush, W!FlushUninitialised,
                W!Check
  <2> QED  BY <2>1, <2>2 DEF Stages
<1>3. CASE SpuriousWakeup
  <2>1. UNCHANGED <<main, app, callback_, stop_, dtor, worker>>
    BY <1>3 DEF SpuriousWakeup, W!SpuriousWakeup, TP!PoolWakeup, workerVars,
                poolVars
  <2> QED  BY <2>1 DEF Stages
<1>4. ASSUME NEW w \in Worker, PoolStep(w) PROVE Stages'
  <2>1. UNCHANGED <<main, app, callback_, stop_, dtor, worker>>
    BY <1>4 DEF PoolStep, PoolLoop, RunBackup, TP!Sleep, TP!Return, TP!Take, TP!Run,
                workerVars
  <2> QED  BY <2>1 DEF Stages
<1>5. CASE DeletePool
  <2>1. /\ main = "run" /\ main' = "delete" /\ \A t \in Thread : app[t] = "out"
        /\ dtor' = "notify" /\ UNCHANGED <<app, callback_, stop_, worker>>
    BY <1>5 DEF DeletePool, TP!SetStop, workerVars
  <2> QED  BY <2>1 DEF Stages, MainState
<1>6. CASE FinishConstructor
  <2>1. callback_' = TRUE /\ UNCHANGED <<main, app, stop_, dtor, worker>>
    BY <1>6 DEF FinishConstructor, W!FinishConstructor, poolVars
  <2> QED  BY <2>1 DEF Stages
<1>7. CASE AddLogger
  <2>1. /\ main = "build" /\ callback_ /\ main' = "run"
        /\ UNCHANGED <<app, callback_, stop_, dtor, worker>>
    BY <1>7 DEF AddLogger, workerVars, poolVars
  <2> QED  BY <2>1 DEF Stages, MainState
<1>8. CASE NotifyAll
  <2>1. /\ dtor = "notify" /\ dtor' = "join"
        /\ UNCHANGED <<main, app, callback_, stop_, worker>>
    BY <1>8 DEF NotifyAll, TP!NotifyAll, workerVars
  <2> QED  BY <2>1 DEF Stages
<1>9. CASE PoolJoined
  <2>1. /\ dtor = "join" /\ dtor' = "done" /\ main' = "return"
        /\ UNCHANGED <<app, callback_, stop_, worker>>
    BY <1>9 DEF PoolJoined, workerVars
  <2> QED  BY <2>1 DEF Stages, MainState
<1>10. CASE DestroyLogger
  <2>1. /\ main = "return" /\ main' = "join" /\ stop_' = TRUE
        /\ UNCHANGED <<app, callback_, dtor, worker>>
    BY <1>10 DEF DestroyLogger, poolVars
  <2> QED  BY <2>1 DEF Stages, MainState
<1>11. CASE WorkerJoined
  <2>1. /\ main = "join" /\ main' = "exited" /\ worker = "returned"
        /\ UNCHANGED <<app, callback_, stop_, dtor, worker>>
    BY <1>11 DEF WorkerJoined, workerVars, poolVars
  <2> QED  BY <2>1 DEF Stages, MainState
<1>12. CASE Ended
  <2>1. UNCHANGED <<main, app, callback_, stop_, dtor, worker>>
    BY <1>12 DEF Ended, vars, workerVars, poolVars
  <2> QED  BY <2>1 DEF Stages
<1> QED  BY <1>1, <1>2, <1>3, <1>4, <1>5, <1>6, <1>7, <1>8, <1>9, <1>10, <1>11, <1>12
         DEF Next, MainStep

-----------------------------------------------------------------------------
\* Finitely many threads log.
LEMMA PendingFinite == IsFiniteSet(Pending) /\ Cardinality(Pending) \in Nat
<1>1. Pending \subseteq Thread /\ IsFiniteSet(Thread)
  BY LoggerAssumption DEF Pending
<1>2. IsFiniteSet(Pending)
  BY <1>1, FS_Subset
<1> QED  BY <1>2, FS_CardinalityType

\* No call is counted before main.
LEMMA BudgetInit == Init => Budget
<1> SUFFICES ASSUME Init PROVE Budget
  OBVIOUS
<1>1. calls = 0 /\ app = [t \in Thread |-> "out"]
  BY DEF Init, W!Init
<1>2. Pending = {}
  BY <1>1 DEF Pending
<1>3. Cardinality(Pending) = 0 /\ MaxCalls \in Nat
  BY <1>2, FS_EmptySet, LoggerAssumption
<1> QED  BY <1>1, <1>3 DEF Budget

(* Log lets a call in only if it fits; Push takes its place; PushDone and *)
(* the others leave the sum.                                               *)
LEMMA BudgetStep == Places /\ Budget /\ Next => Budget'
<1> SUFFICES ASSUME Places, Budget, Next PROVE Budget'
  OBVIOUS
<1>0. /\ calls \in Nat /\ calls + Cardinality(Pending) <= MaxCalls
      /\ IsFiniteSet(Pending) /\ Cardinality(Pending) \in Nat /\ MaxCalls \in Nat
      /\ app \in [Thread -> AppState]
  BY PendingFinite, LoggerAssumption DEF Budget, Places
<1>1. ASSUME NEW t \in Thread, NEW m \in Message, Log(t, m) PROVE Budget'
  <2>1. /\ calls + Cardinality(Pending) < MaxCalls /\ calls' = calls
        /\ app[t] = "out" /\ app' = [app EXCEPT ![t] = IF m \in Severe THEN "backup"
                                                      ELSE "push"]
    BY <1>1 DEF Log, Pending, workerVars
  <2>2. Pending' = Pending \cup {t} /\ t \notin Pending
    BY <1>0, <2>1 DEF Pending
  <2>3. Cardinality(Pending') = Cardinality(Pending) + 1
    BY <1>0, <2>2, FS_AddElement
  <2> QED  BY <1>0, <2>1, <2>3 DEF Budget
<1>2. ASSUME NEW t \in Thread, Push(t) PROVE Budget'
  <2>1. /\ calls' = calls + 1 /\ app[t] = "push"
        /\ app' = [app EXCEPT ![t] = "pushing"]
    BY <1>2 DEF Push
  <2>2. Pending' = Pending \ {t} /\ t \in Pending
    BY <1>0, <2>1 DEF Pending
  <2>3. Cardinality(Pending') = Cardinality(Pending) - 1
    BY <1>0, <2>2, FS_RemoveElement
  <2> QED  BY <1>0, <2>1, <2>3 DEF Budget
<1>3. ASSUME calls' = calls, Pending' = Pending PROVE Budget'
  BY <1>0, <1>3 DEF Budget
<1>4. ASSUME NEW t \in Thread, LogStep(t), ~Push(t) PROVE Budget'
  <2>1. calls' = calls
    BY <1>4 DEF LogStep, Enqueue, EnqueueNotify, Get, PushWait, W!WaitForRoom, PushDone,
                W!Write, W!WriteThrows, workerVars
  <2>2. \/ app' = app
        \/ app[t] = "backup" /\ app' = [app EXCEPT ![t] = "get"]
        \/ app[t] = "get" /\ app' = [app EXCEPT ![t] = "push"]
        \/ app[t] = "pushing" /\ app' = [app EXCEPT ![t] = "out"]
    BY <1>4 DEF LogStep, Enqueue, EnqueueNotify, Get, PushWait, PushDone, W!Write,
                W!WriteThrows, Places
  <2>3. Pending' = Pending
    BY <1>0, <2>2 DEF Pending
  <2> QED  BY <1>3, <2>1, <2>3
<1>5. CASE UNCHANGED <<calls, app>>
  <2>1. Pending' = Pending
    BY <1>5 DEF Pending
  <2> QED  BY <1>3, <1>5, <2>1
<1>6. CASE ThreadEntry \/ SpuriousWakeup
  BY <1>5, <1>6 DEF ThreadEntry, W!ThreadEntry, W!Swap, W!Flush, W!FlushUninitialised,
                    W!Check, SpuriousWakeup, W!SpuriousWakeup, workerVars
<1>7. ASSUME NEW w \in Worker, PoolStep(w) PROVE Budget'
  BY <1>5, <1>7 DEF PoolStep, PoolLoop, RunBackup, workerVars
<1>8. CASE DeletePool \/ MainStep \/ Ended
  BY <1>5, <1>8 DEF DeletePool, MainStep, FinishConstructor, W!FinishConstructor,
                    AddLogger, NotifyAll, PoolJoined, DestroyLogger, WorkerJoined,
                    Ended, workerVars, vars
<1> QED  BY <1>1, <1>2, <1>4, <1>6, <1>7, <1>8 DEF Next

\* The invariant holds before main.
LEMMA LoggerInit == Init => LoggerInv
  BY PlacesInit, StagesInit, BudgetInit DEF LoggerInv

\* Every step of the program keeps the invariant.
LEMMA LoggerStep == LoggerInv /\ [Next]_vars => LoggerInv'
<1> SUFFICES ASSUME LoggerInv, [Next]_vars PROVE LoggerInv'
  OBVIOUS
<1>1. CASE Next
  BY <1>1, PlacesStep, StagesStep, BudgetStep DEF LoggerInv
<1>2. CASE UNCHANGED vars
  BY <1>2 DEF LoggerInv, Places, Stages, Budget, Pending, vars, workerVars, poolVars
<1> QED  BY <1>1, <1>2

-----------------------------------------------------------------------------
(* A step of the composition is a step of AsyncWorker: Push is a CallPush, *)
(* made while the worker is there and within the bound, DestroyLogger is   *)
(* Stop with no thread inside Push.                                        *)
LEMMA WorkerSteps == LoggerInv /\ [Next]_vars => [W!Next]_(W!vars)
<1> SUFFICES ASSUME LoggerInv, [Next]_vars PROVE [W!Next]_(W!vars)
  OBVIOUS
<1>0. Places /\ Stages /\ Budget
  BY DEF LoggerInv
<1>1. CASE UNCHANGED workerVars
  BY <1>1 DEF workerVars, W!vars
<1>2. ASSUME NEW t \in Thread, Push(t), worker # "crashed" PROVE W!Next
  <2>1. t \in Pending /\ app[t] # "out" /\ app[t] # "pushing"
    BY <1>2 DEF Push, Pending
  <2>2. callback_ /\ ~stop_ /\ caller[t] = "out" /\ msg[t] \in Message
    BY <1>0, <2>1 DEF Stages, Places
  <2>3. calls < MaxCalls
    <3>1. /\ calls \in Nat /\ calls + Cardinality(Pending) <= MaxCalls
          /\ Cardinality(Pending) \in Nat /\ IsFiniteSet(Pending) /\ MaxCalls \in Nat
      BY <1>0, PendingFinite, LoggerAssumption DEF Budget
    <3>2. Cardinality(Pending) # 0
      BY <2>1, <3>1, FS_EmptySet
    <3> QED  BY <3>1, <3>2
  <2>4. W!CallPush(t, msg[t])
    BY <1>2, <2>2, <2>3 DEF Push, W!CallPush, W!ProcessAlive
  <2> QED  BY <2>2, <2>4 DEF W!Next
<1>3. ASSUME DestroyLogger, worker # "crashed" PROVE W!Next
  <2>1. main = "return"
    BY <1>3 DEF DestroyLogger
  <2>2. callback_ /\ ~stop_ /\ \A t \in Thread : caller[t] = "out"
    BY <1>0, <2>1 DEF Stages, Places
  <2>3. W!Stop
    BY <1>3, <2>2 DEF DestroyLogger, W!Stop, W!ProcessAlive
  <2> QED  BY <2>3 DEF W!Next
<1>4. ASSUME NEW t \in Thread, PushWait(t) \/ PushDone(t) PROVE W!Next
  BY <1>4 DEF PushWait, PushDone, W!Next, W!PushStep
<1>5. CASE ThreadEntry
  BY <1>5 DEF ThreadEntry, W!Next
<1>6. CASE FinishConstructor
  BY <1>6 DEF FinishConstructor, W!Next
<1>7. CASE SpuriousWakeup
  BY <1>1, <1>7 DEF SpuriousWakeup, W!Next
<1>8. ASSUME NEW t \in Thread, NEW m \in Message, Log(t, m) PROVE UNCHANGED workerVars
  BY <1>8 DEF Log
<1>9. ASSUME NEW t \in Thread, Enqueue(t) \/ EnqueueNotify(t) \/ Get(t)
      PROVE  UNCHANGED workerVars
  BY <1>9 DEF Enqueue, EnqueueNotify, Get
<1>10. ASSUME NEW w \in Worker, PoolStep(w) PROVE UNCHANGED workerVars
  BY <1>10 DEF PoolStep, PoolLoop, RunBackup
<1>11. CASE DeletePool \/ AddLogger \/ NotifyAll \/ PoolJoined \/ WorkerJoined
  BY <1>1, <1>11 DEF DeletePool, AddLogger, NotifyAll, PoolJoined, WorkerJoined
<1>12. CASE Ended \/ UNCHANGED vars
  BY <1>1, <1>12 DEF Ended, vars
<1> QED  BY <1>1, <1>2, <1>3, <1>4, <1>5, <1>6, <1>7, <1>8, <1>9, <1>10, <1>11, <1>12
         DEF Next, LogStep, MainStep

(* AsyncLogger and main use AsyncWorker as its specification assumes:      *)
(* constructed before the first Push, destroyed after the last one.        *)
THEOREM WorkerContractHolds == Spec => WorkerContract
<1>1. Init => W!Init
  BY DEF Init
<1> QED  BY <1>1, LoggerInit, LoggerStep, WorkerSteps, PTL
         DEF Spec, WorkerContract, W!Spec

(* A step of the composition is a step of ThreadPool. *)
LEMMA PoolSteps == LoggerInv /\ [Next]_vars => [TP!PoolNext]_(TP!poolVars)
<1> SUFFICES ASSUME LoggerInv, [Next]_vars PROVE [TP!PoolNext]_(TP!poolVars)
  OBVIOUS
<1>0. Places /\ Stages
  BY DEF LoggerInv
<1>1. CASE UNCHANGED poolVars
  BY <1>1 DEF poolVars, TP!poolVars
<1>2. ASSUME PoolJoined PROVE TP!PoolNext
  <2>1. dtor = "join"
    BY <1>2 DEF PoolJoined
  <2>2. \A t \in Thread : client[t] # "notify"
    BY <1>0, <2>1 DEF Stages, Places
  <2>3. TP!JoinAll
    BY <1>2, <2>2 DEF PoolJoined, TP!JoinAll
  <2> QED  BY <2>3 DEF TP!PoolNext, TP!DtorStep
<1>3. ASSUME NEW t \in Thread, Enqueue(t) \/ EnqueueNotify(t) \/ Get(t) PROVE TP!PoolNext
  BY <1>3 DEF Enqueue, EnqueueNotify, Get, TP!PoolNext, TP!ClientStep
<1>4. ASSUME NEW w \in Worker, PoolStep(w) PROVE TP!PoolNext
  BY <1>4 DEF PoolStep, PoolLoop, RunBackup, TP!PoolNext, TP!WorkerStep
<1>5. CASE DeletePool
  BY <1>5 DEF DeletePool, TP!PoolNext
<1>6. CASE NotifyAll
  BY <1>6 DEF NotifyAll, TP!PoolNext, TP!DtorStep
<1>7. CASE SpuriousWakeup
  BY <1>1, <1>7 DEF SpuriousWakeup, TP!PoolNext
<1>8. ASSUME NEW t \in Thread, NEW m \in Message, Log(t, m) PROVE UNCHANGED poolVars
  BY <1>8 DEF Log
<1>9. ASSUME NEW t \in Thread, Push(t) \/ PushWait(t) \/ PushDone(t)
      PROVE  UNCHANGED poolVars
  BY <1>9 DEF Push, PushWait, PushDone
<1>10. CASE ThreadEntry \/ FinishConstructor \/ AddLogger \/ DestroyLogger
            \/ WorkerJoined
  BY <1>1, <1>10 DEF ThreadEntry, FinishConstructor, AddLogger, DestroyLogger,
                     WorkerJoined
<1>11. CASE Ended \/ UNCHANGED vars
  BY <1>1, <1>11 DEF Ended, vars
<1> QED  BY <1>1, <1>2, <1>3, <1>4, <1>5, <1>6, <1>7, <1>8, <1>9, <1>10, <1>11
         DEF Next, LogStep, MainStep

(* main joins the threads that log before it deletes the pool, so that the *)
(* pool is not destroyed during an enqueue.                                *)
THEOREM PoolContractHolds == Spec => PoolContract
<1>1. Init => TP!PoolInit
  BY DEF Init
<1> QED  BY <1>1, LoggerInit, LoggerStep, PoolSteps, PTL
         DEF Spec, PoolContract, TP!PoolSpec

-----------------------------------------------------------------------------
(* The messages in the buffer, and the threads whose backup has been run   *)
(* but whose message is not in the buffer yet.                             *)
Written(m) == {i \in 1 .. Len(pushed) : pushed[i] = m}

Past(m) == {t \in Thread : /\ msg[t] = m
                           /\ app[t] \in {"push", "pushing"} \/ (app[t] = "get" /\ ready[t])}

Backups ==
    \A m \in Severe :
        backed[m] \in Nat /\ Cardinality(Written(m)) + Cardinality(Past(m)) <= backed[m]

(* What the theorems of the two parts say of their histories. *)
PartTypes ==
    /\ pushed \in Seq(Message)
    /\ task \in [Worker -> SUBSET Thread] /\ ready \in [Thread -> BOOLEAN]

\* The counts are natural numbers.
LEMMA CountsFinite ==
    ASSUME NEW m, PartTypes
    PROVE  /\ IsFiniteSet(Past(m)) /\ Cardinality(Past(m)) \in Nat
           /\ IsFiniteSet(Written(m)) /\ Cardinality(Written(m)) \in Nat
<1>1. Past(m) \subseteq Thread /\ IsFiniteSet(Thread)
  BY LoggerAssumption DEF Past
<1>2. Len(pushed) \in Nat
  BY DEF PartTypes
<1>3. Written(m) \subseteq 1 .. Len(pushed) /\ IsFiniteSet(1 .. Len(pushed))
  BY <1>2, FS_Interval DEF Written
<1>4. IsFiniteSet(Past(m)) /\ IsFiniteSet(Written(m))
  BY <1>1, <1>3, FS_Subset
<1> QED  BY <1>4, FS_CardinalityType

(* No thread passes its backup, nothing is written, no backup is run. *)
LEMMA BackupsRest ==
    ASSUME Backups, PartTypes, pushed' = pushed, backed' = backed,
           \A m \in Severe : Past(m)' \subseteq Past(m)
    PROVE  Backups'
<1> SUFFICES ASSUME NEW m \in Severe
             PROVE  backed'[m] \in Nat
                    /\ Cardinality(Written(m)') + Cardinality(Past(m)') <= backed'[m]
  BY DEF Backups
<1>1. /\ IsFiniteSet(Past(m)) /\ Cardinality(Past(m)) \in Nat
      /\ Cardinality(Written(m)) \in Nat
  BY CountsFinite
<1>2. /\ IsFiniteSet(Past(m)') /\ Cardinality(Past(m)') \in Nat
      /\ Cardinality(Past(m)') <= Cardinality(Past(m))
  BY <1>1, FS_Subset, FS_CardinalityType
<1>3. Written(m)' = Written(m)
  BY DEF Written
<1>4. backed[m] \in Nat /\ Cardinality(Written(m)) + Cardinality(Past(m)) <= backed[m]
  BY DEF Backups
<1> QED  BY <1>1, <1>2, <1>3, <1>4

(* Push writes the message of a thread that is past its backup. *)
LEMMA BackupsWrite ==
    ASSUME Places, Backups, PartTypes, NEW t \in Thread, PushDone(t), W!Write(t)
    PROVE  Backups'
<1>1. /\ app[t] = "pushing" /\ data[t] = msg[t] /\ msg[t] \in Message
      /\ app \in [Thread -> AppState]
  BY DEF Places, W!Write
<1>2. /\ pushed' = Append(pushed, msg[t]) /\ app' = [app EXCEPT ![t] = "out"]
      /\ msg' = msg /\ ready' = ready /\ backed' = backed
  BY <1>1 DEF W!Write, PushDone, poolVars
<1>3. \A m : Past(m)' = Past(m) \ {t}
  BY <1>1, <1>2 DEF Past
<1>4. ASSUME NEW m, m = msg[t] PROVE t \in Past(m)
  BY <1>1, <1>4 DEF Past
<1> DEFINE n == Len(pushed)
<1>5. n \in Nat /\ Len(pushed') = n + 1 /\ pushed'[n + 1] = msg[t]
      /\ \A i \in 1 .. n : pushed'[i] = pushed[i]
  BY <1>1, <1>2, AppendProperties DEF PartTypes
<1>6. 1 .. n + 1 = (1 .. n) \cup {n + 1} /\ n + 1 \notin 1 .. n
  BY <1>5
<1> SUFFICES ASSUME NEW m \in Severe
             PROVE  backed'[m] \in Nat
                    /\ Cardinality(Written(m)') + Cardinality(Past(m)') <= backed'[m]
  BY DEF Backups
<1>7. /\ backed[m] \in Nat /\ Cardinality(Written(m)) + Cardinality(Past(m)) <= backed[m]
      /\ IsFiniteSet(Past(m)) /\ Cardinality(Past(m)) \in Nat
      /\ IsFiniteSet(Written(m)) /\ Cardinality(Written(m)) \in Nat
  BY CountsFinite DEF Backups
<1>8. CASE m = msg[t]
  <2>1. Written(m)' = Written(m) \cup {n + 1} /\ n + 1 \notin Written(m)
    BY <1>5, <1>6, <1>8 DEF Written
  <2>2. Cardinality(Written(m)') = Cardinality(Written(m)) + 1
    BY <1>7, <2>1, FS_AddElement
  <2>3. Cardinality(Past(m)') = Cardinality(Past(m)) - 1
    BY <1>3, <1>4, <1>7, <1>8, FS_RemoveElement
  <2> QED  BY <1>2, <1>7, <2>2, <2>3
<1>9. CASE m # msg[t]
  <2>1. Written(m)' = Written(m)
    BY <1>5, <1>6, <1>9 DEF Written
  <2>2. Past(m)' = Past(m)
    BY <1>3, <1>9 DEF Past
  <2> QED  BY <1>2, <1>7, <2>1, <2>2
<1> QED  BY <1>8, <1>9

(* A pool thread runs the backups that it has taken. *)
LEMMA BackupsRun ==
    ASSUME Places, Backups, PartTypes, NEW w \in Worker, RunBackup(w)
    PROVE  Backups'
<1>1. /\ pushed' = pushed /\ app' = app /\ msg' = msg
      /\ ready' = [t \in Thread |-> ready[t] \/ t \in task[w]]
      /\ backed' = [m \in Message |->
                       backed[m] + Cardinality({t \in task[w] : msg[t] = m})]
  BY DEF RunBackup, TP!Run, workerVars
<1> SUFFICES ASSUME NEW m \in Severe
             PROVE  backed'[m] \in Nat
                    /\ Cardinality(Written(m)') + Cardinality(Past(m)') <= backed'[m]
  BY DEF Backups
<1> DEFINE N == {t \in task[w] : msg[t] = m}
<1>2. /\ backed[m] \in Nat /\ Cardinality(Written(m)) + Cardinality(Past(m)) <= backed[m]
      /\ IsFiniteSet(Past(m)) /\ Cardinality(Past(m)) \in Nat
      /\ Cardinality(Written(m)) \in Nat
  BY CountsFinite DEF Backups
<1>3. IsFiniteSet(N) /\ Cardinality(N) \in Nat
  <2>1. N \subseteq Thread /\ IsFiniteSet(Thread)
    BY LoggerAssumption DEF PartTypes
  <2>2. IsFiniteSet(N)
    BY <2>1, FS_Subset
  <2> QED  BY <2>2, FS_CardinalityType
<1>4. backed'[m] = backed[m] + Cardinality(N)
  BY <1>1, LoggerAssumption
<1>5. Past(m)' \subseteq Past(m) \cup N
  BY <1>1 DEF Past, PartTypes
<1>6. Written(m)' = Written(m)
  BY <1>1 DEF Written
<1> HIDE DEF N
<1>7. /\ IsFiniteSet(Past(m) \cup N)
      /\ Cardinality(Past(m) \cup N) \in Nat
      /\ Cardinality(Past(m) \cup N) <= Cardinality(Past(m)) + Cardinality(N)
  <2>1. /\ IsFiniteSet(Past(m) \cup N) /\ IsFiniteSet(Past(m) \cap N)
        /\ Cardinality(Past(m) \cup N)
             = Cardinality(Past(m)) + Cardinality(N) - Cardinality(Past(m) \cap N)
    BY <1>2, <1>3, FS_Union, FS_Intersection
  <2>2. Cardinality(Past(m) \cap N) \in Nat /\ Cardinality(Past(m) \cup N) \in Nat
    BY <2>1, FS_CardinalityType
  <2> QED  BY <1>2, <1>3, <2>1, <2>2
<1>8. /\ Cardinality(Past(m)') \in Nat
      /\ Cardinality(Past(m)') <= Cardinality(Past(m) \cup N)
  <2>1. IsFiniteSet(Past(m)') /\ Cardinality(Past(m)') <= Cardinality(Past(m) \cup N)
    BY <1>5, <1>7, FS_Subset
  <2> QED  BY <2>1, FS_CardinalityType
<1> QED  BY <1>2, <1>3, <1>4, <1>6, <1>7, <1>8

\* Nothing is in the buffer before main.
LEMMA BackupsInit == Init => Backups
<1> SUFFICES ASSUME Init PROVE Backups
  OBVIOUS
<1>1. /\ pushed = <<>> /\ app = [t \in Thread |-> "out"]
      /\ backed = [m \in Message |-> 0]
  BY DEF Init, W!Init
<1>2. ASSUME NEW m \in Severe
      PROVE  backed[m] \in Nat /\ Cardinality(Written(m)) + Cardinality(Past(m)) <= backed[m]
  <2>1. Past(m) = {}
    BY <1>1 DEF Past
  <2>2. Written(m) = {}
    <3>1. Len(pushed) = 0 /\ 1 .. 0 = {}
      BY <1>1
    <3> QED  BY <3>1 DEF Written
  <2>3. Cardinality({}) = 0 /\ backed[m] = 0
    BY <1>1, FS_EmptySet, LoggerAssumption
  <2> QED  BY <2>1, <2>2, <2>3
<1> QED  BY <1>2 DEF Backups

\* Every step of the program keeps the count of the backups.
LEMMA BackupsStep == Places /\ PartTypes /\ Backups /\ [Next]_vars => Backups'
<1> SUFFICES ASSUME Places, PartTypes, Backups, [Next]_vars PROVE Backups'
  OBVIOUS
<1>0. app \in [Thread -> AppState] /\ msg \in [Thread -> Message]
      /\ ready \in [Thread -> BOOLEAN]
  BY DEF Places, PartTypes
<1>1. ASSUME NEW t \in Thread, NEW m \in Message, Log(t, m) PROVE Backups'
  <2>1. /\ app[t] = "out" /\ msg' = [msg EXCEPT ![t] = m]
        /\ app' = [app EXCEPT ![t] = IF m \in Severe THEN "backup" ELSE "push"]
        /\ pushed' = pushed /\ backed' = backed /\ ready' = ready
    BY <1>1 DEF Log, workerVars, poolVars
  <2>2. \A s \in Severe : Past(s)' \subseteq Past(s)
    BY <1>0, <2>1 DEF Past
  <2> QED  BY <2>1, <2>2, BackupsRest
<1>2. ASSUME NEW t \in Thread, Enqueue(t) PROVE Backups'
  <2>1. /\ app[t] = "backup" /\ app' = [app EXCEPT ![t] = "get"] /\ msg' = msg
        /\ pushed' = pushed /\ backed' = backed /\ ready' = [ready EXCEPT ![t] = FALSE]
    BY <1>2 DEF Enqueue, TP!EnqueueTask, workerVars
  <2>2. \A s \in Severe : Past(s)' \subseteq Past(s)
    BY <1>0, <2>1 DEF Past
  <2> QED  BY <2>1, <2>2, BackupsRest
<1>3. ASSUME NEW t \in Thread, Get(t) PROVE Backups'
  <2>1. /\ app[t] = "get" /\ ready[t] /\ app' = [app EXCEPT ![t] = "push"]
        /\ msg' = msg /\ pushed' = pushed /\ backed' = backed /\ ready' = ready
    BY <1>3 DEF Get, TP!Get, workerVars
  <2>2. \A s \in Severe : Past(s)' \subseteq Past(s)
    BY <1>0, <2>1 DEF Past
  <2> QED  BY <2>1, <2>2, BackupsRest
<1>4. ASSUME NEW t \in Thread, Push(t) PROVE Backups'
  <2>1. /\ app[t] = "push" /\ app' = [app EXCEPT ![t] = "pushing"]
        /\ msg' = msg /\ pushed' = pushed /\ backed' = backed /\ ready' = ready
    BY <1>4 DEF Push, poolVars
  <2>2. \A s \in Severe : Past(s)' \subseteq Past(s)
    BY <1>0, <2>1 DEF Past
  <2> QED  BY <2>1, <2>2, BackupsRest
<1>5. ASSUME NEW t \in Thread, PushDone(t) PROVE Backups'
  <2>1. CASE W!Write(t)
    BY <1>5, <2>1, BackupsWrite
  <2>2. CASE W!WriteThrows(t)
    <3>1. /\ app' = [app EXCEPT ![t] = "out"]
          /\ msg' = msg /\ pushed' = pushed /\ backed' = backed /\ ready' = ready
      BY <1>5, <2>2 DEF PushDone, W!WriteThrows, poolVars
    <3>2. \A s \in Severe : Past(s)' \subseteq Past(s)
      BY <1>0, <3>1 DEF Past
    <3> QED  BY <3>1, <3>2, BackupsRest
  <2> QED  BY <1>5, <2>1, <2>2 DEF PushDone
<1>6. ASSUME NEW w \in Worker, RunBackup(w) PROVE Backups'
  BY <1>6, BackupsRun
<1>7. CASE UNCHANGED <<app, msg, pushed, backed, ready>>
  <2>1. \A s \in Severe : Past(s)' \subseteq Past(s)
    BY <1>7 DEF Past
  <2> QED  BY <1>7, <2>1, BackupsRest
<1>8. ASSUME NEW t \in Thread, EnqueueNotify(t) \/ PushWait(t)
      PROVE  UNCHANGED <<app, msg, pushed, backed, ready>>
  BY <1>8 DEF EnqueueNotify, TP!EnqueueNotify, PushWait, W!WaitForRoom, workerVars,
              poolVars
<1>9. ASSUME NEW w \in Worker, PoolLoop(w)
      PROVE  UNCHANGED <<app, msg, pushed, backed, ready>>
  BY <1>9 DEF PoolLoop, TP!Sleep, TP!Return, TP!Take, workerVars
<1>10. CASE ThreadEntry \/ SpuriousWakeup
  BY <1>7, <1>10 DEF ThreadEntry, W!ThreadEntry, W!Swap, W!Flush, W!FlushUninitialised,
                     W!Check, SpuriousWakeup, W!SpuriousWakeup, TP!PoolWakeup,
                     workerVars, poolVars
<1>11. CASE DeletePool \/ MainStep \/ Ended \/ UNCHANGED vars
  BY <1>7, <1>11 DEF DeletePool, TP!SetStop, MainStep, FinishConstructor,
                     W!FinishConstructor, AddLogger, NotifyAll, TP!NotifyAll, PoolJoined,
                     DestroyLogger, WorkerJoined, Ended, workerVars, poolVars, vars
<1> QED  BY <1>1, <1>2, <1>3, <1>4, <1>5, <1>6, <1>7, <1>8, <1>9, <1>10, <1>11
         DEF Next, LogStep, PoolStep

(* What the invariant says of the buffer. *)
LEMMA BackupsEnough == PartTypes /\ Backups => BackedUpFirst
<1> SUFFICES ASSUME PartTypes, Backups, NEW m \in Severe
             PROVE  Cardinality(Written(m)) <= backed[m]
  BY DEF BackedUpFirst, Written
<1>1. Cardinality(Past(m)) \in Nat /\ Cardinality(Written(m)) \in Nat
  BY CountsFinite
<1>2. backed[m] \in Nat /\ Cardinality(Written(m)) + Cardinality(Past(m)) <= backed[m]
  BY DEF Backups
<1> QED  BY <1>1, <1>2

(* What the modules of the worker assume of their constants. *)
LEMMA BufferFacts ==
    /\ Message # {}
    /\ MsgLen \in [Message -> Nat \ {0}]
    /\ BufferSize \in Nat \ {0}
    /\ Threshold \in Nat
    /\ LinearGrowth \in Nat
    /\ IntMod \in Nat \ {0}
    /\ MaxAlloc \in Nat
BY LoggerAssumption

\* The same of AsyncWorker.
LEMMA WorkerFacts == Safe \in BOOLEAN /\ MaxCalls \in Nat
BY LoggerAssumption

-----------------------------------------------------------------------------
(* The theorems of the worker and of the pool, for this program.           *)

WP == INSTANCE WorkerPoolProofs WITH Producer <- Thread, Client <- Thread

\* What ThreadPool assumes of its constants.
LEMMA PoolFacts ==
    /\ WP!IsFiniteSet(Thread)
    /\ WP!IsFiniteSet(Worker)
    /\ Worker # {}
BY LoggerAssumption, Zenon DEF IsFiniteSet, WP!IsFiniteSet

(* The worker that the logger drives is the worker of those theorems. *)
LEMMA SameWorkerInit == W!Init => WP!Init
BY Zenon DEF W!Init, WP!Init, W!NewBuffer, WP!NewBuffer, W!NoData, WP!NoData

\* So are its steps.
LEMMA SameWorkerNext == W!Next => WP!Next
BY Zenon DEF W!Next, WP!Next, W!vars, WP!vars, W!FinishConstructor,
             WP!FinishConstructor, W!CallPush, WP!CallPush, W!PushStep,
             WP!PushStep, W!WaitForRoom, WP!WaitForRoom, W!Write, WP!Write,
             W!WriteThrows, WP!WriteThrows, W!HasRoom, WP!HasRoom,
             W!WriteableSize, WP!WriteableSize, W!ResizeThrows,
             WP!ResizeThrows, W!NeedsGrowth, WP!NeedsGrowth, W!GrownSize,
             WP!GrownSize, W!AsInt, WP!AsInt, W!BufferPush, WP!BufferPush,
             W!ToBeEnough, WP!ToBeEnough, W!SpuriousWakeup, WP!SpuriousWakeup,
             W!Stop, WP!Stop, W!ThreadEntry, WP!ThreadEntry, W!Swap, WP!Swap,
             W!NotifyProductor, WP!NotifyProductor, W!Asleep, WP!Asleep,
             W!IsEmpty, WP!IsEmpty, W!Flush, WP!Flush, W!Reset, WP!Reset,
             W!FlushUninitialised, WP!FlushUninitialised, W!Check, WP!Check,
             W!Ended, WP!Ended, W!ProcessAlive, WP!ProcessAlive


(* The same of the pool. *)
LEMMA SamePoolInit == TP!PoolInit => WP!PoolInit
BY Zenon DEF TP!PoolInit, WP!PoolInit

\* And of its steps.
LEMMA SamePoolNext == TP!PoolNext => WP!PoolNext
BY Zenon DEF TP!PoolNext, WP!PoolNext, TP!poolVars, WP!poolVars, TP!EnqueueTask,
             WP!EnqueueTask, TP!EnqueueThrows, WP!EnqueueThrows,
             TP!EnqueueNotify, WP!EnqueueNotify, TP!Get, WP!Get, TP!Sleep,
             WP!Sleep, TP!PoolWakeup, WP!PoolWakeup, TP!Return,
             WP!Return, TP!Take, WP!Take, TP!Run, WP!Run, TP!SetStop,
             WP!SetStop, TP!NotifyAll, WP!NotifyAll, TP!JoinAll, WP!JoinAll,
             TP!ClientStep, WP!ClientStep, TP!WorkerStep, WP!WorkerStep,
             TP!DtorStep, WP!DtorStep, TP!PoolEnded, WP!PoolEnded, TP!Sleeping,
             WP!Sleeping, TP!MayProceed, WP!MayProceed

(* The worker and the pool inside the program have the invariants that are *)
(* proved of them alone.                                                   *)
LEMMA PartInvariants == Spec => [](PartTypes /\ WP!DrainedOnReturn)
<1>1. [W!Next]_(W!vars) => [WP!Next]_(WP!vars)
  BY SameWorkerNext, Zenon DEF W!vars, WP!vars
<1>2. [TP!PoolNext]_(TP!poolVars) => [WP!PoolNext]_(WP!poolVars)
  BY SamePoolNext, Zenon DEF TP!poolVars, WP!poolVars
<1>3. Spec => WP!Spec
  BY <1>1, WorkerContractHolds, SameWorkerInit, PTL DEF WorkerContract, W!Spec, WP!Spec
<1>4. Spec => WP!PoolSpec
  BY <1>2, PoolContractHolds, SamePoolInit, PTL DEF PoolContract, TP!PoolSpec, WP!PoolSpec
<1>5. WP!Spec => [](WP!TypeOK /\ WP!DrainedOnReturn)
  BY WP!TypeCorrect, WP!DrainCorrect, BufferFacts, WorkerFacts, PoolFacts, PTL
<1>6. WP!PoolSpec => []WP!PoolTypeOK
  BY WP!PoolInductive, BufferFacts, WorkerFacts, PoolFacts, PTL DEF WP!PoolInv
<1>7. WP!TypeOK /\ WP!PoolTypeOK => PartTypes
  BY Zenon DEF WP!TypeOK, WP!PoolTypeOK, PartTypes
<1> QED  BY <1>3, <1>4, <1>5, <1>6, <1>7, PTL

(* When the process exits after main, every record that a Push wrote has   *)
(* been handed to the flush: ~LoggerManager waits for the worker.          *)
THEOREM WrittenCorrect == Spec => []WrittenAtExit
<1>1. Stages /\ WP!DrainedOnReturn => WrittenAtExit
  BY Zenon DEF Stages, WP!DrainedOnReturn, WrittenAtExit
<1> QED  BY <1>1, LoggerInit, LoggerStep, PartInvariants, PTL DEF Spec, LoggerInv

(* A severe record is in the buffer only after a backup of it has run: the *)
(* logging thread waits for the future before it calls Push.               *)
THEOREM BackedUpCorrect == Spec => []BackedUpFirst
BY BackupsEnough, LoggerInit, LoggerStep, PartInvariants, BackupsInit, BackupsStep, PTL
   DEF Spec, LoggerInv
=============================================================================
