------------------------------- MODULE BlockLog -------------------------------
(***************************************************************************)
(* The web server's log (code/log/log.cpp, log.h) on its blocking queue:   *)
(* threads that log with the LOG_ macros, the thread that writes what is   *)
(* queued, and the destructor at the end of the process.  The state after  *)
(* Log::init is the initial one.  A record stands for its text by the      *)
(* thread that logged it; file names are left out, for which file is open  *)
(* is no part of what is stated, only whether one is.                      *)
(***************************************************************************)
EXTENDS Integers, Sequences

CONSTANTS
    Writer,         \* the threads that log
    capacity_,      \* of the queue: BlockDeque's default, 1000
    maxQueueSize,   \* what init is given; above 0 it makes the log asynchronous
    MAX_LINES,
    MaxDay,         \* bound: the last day of the clock
    MaxCalls        \* bound: calls of write in all

ASSUME LogAssumption ==
    /\ capacity_ \in Nat \ {0} /\ MAX_LINES \in Nat \ {0}
    /\ {maxQueueSize, MaxDay, MaxCalls} \subseteq Nat
    /\ Writer # {} /\ "free" \notin Writer

VARIABLES
    deq_, isClose_, producer, item, consumer, got, closing,     \* the queue
    mtx_,           \* the thread that holds it, or "free"
    lineCount_, toDay_, day,
    pc,             \* each writer's place in LOG_BASE
    t,              \* the day each writer read from the clock
    count,          \* lineCount_ as each writer loaded it to add one
    closed,         \* fp_ is a stream that was closed
    stale,          \* writers about to fflush a stream that was closed
    writing,        \* the place of AsyncWrite_
    dtor,           \* the place of ~Log
    crashed,
    calls, lines,   \* calls of write; those that have counted their line
    pushed, direct, written     \* history: records queued, records put by
                                \* write itself (how many), by AsyncWrite_

queueVars == <<deq_, isClose_, producer, item, consumer, got, closing>>
rollVars == <<lineCount_, toDay_, t, count>>
fileVars == <<closed, stale, crashed>>
history == <<calls, lines, pushed, direct, written>>
vars == <<queueVars, mtx_, rollVars, day, pc, fileVars, writing, dtor, history>>

Q == INSTANCE BlockDeque WITH Producer <- Writer, Item <- Writer

isAsync_ == maxQueueSize > 0

Init ==
    /\ Q!Init
    /\ item = [w \in Writer |-> w]
    /\ mtx_ = "free"
    /\ lineCount_ = 0 /\ toDay_ = 1 /\ day = 1
    /\ pc = [w \in Writer |-> "out"]
    /\ t = [w \in Writer |-> 1]
    /\ count = [w \in Writer |-> 0]
    /\ closed = FALSE /\ stale = {} /\ crashed = FALSE
    /\ writing = IF isAsync_ THEN "pop" ELSE "none"
    /\ dtor = "uncalled"
    /\ calls = 0 /\ lines = 0 /\ direct = 0
    /\ pushed = <<>> /\ written = <<>>

\* Writer w goes from one place to another in a process that is alive.
Goes(w, from, to) ==
    /\ ~crashed
    /\ pc[w] = from
    /\ pc' = [pc EXCEPT ![w] = to]
    /\ UNCHANGED <<day, writing, dtor>>

Lock_None(w) == mtx_' = w
Lock(w) == mtx_ = "free" /\ mtx_' = w

Unlock_None == UNCHANGED mtx_
Unlock == mtx_' = "free"

\* Log::flush up to its fflush.
FlushQueue == IF isAsync_ THEN Q!Flush ELSE UNCHANGED queueVars

-----------------------------------------------------------------------------
(* write: the tests for a new day or a full file, made without mtx_.       *)

Call(w) ==
    /\ dtor = "uncalled"
    /\ calls < MaxCalls
    /\ Goes(w, "out", "check")
    /\ calls' = calls + 1
    /\ t' = [t EXCEPT ![w] = day]
    /\ UNCHANGED <<queueVars, mtx_, lineCount_, toDay_, count, fileVars, lines,
                   pushed, direct, written>>

NewFileNeeded(w) ==
    toDay_ # t[w] \/ (lineCount_ # 0 /\ lineCount_ % MAX_LINES = 0)

Check(w) ==
    /\ Goes(w, "check", IF NewFileNeeded(w) THEN "roll" ELSE "line")
    /\ UNCHANGED <<queueVars, mtx_, rollVars, fileVars, history>>

\* mtx_ is taken and released before the name of the new file is made.
Roll(w) ==
    /\ mtx_ = "free"
    /\ Goes(w, "roll", IF toDay_ # t[w] THEN "new day" ELSE "reopen")
    /\ UNCHANGED <<queueVars, mtx_, rollVars, fileVars, history>>

FirstCount == 0

NewDay(w) ==
    /\ Goes(w, "new day", "reopen")
    /\ toDay_' = t[w]
    /\ lineCount_' = FirstCount
    /\ UNCHANGED <<queueVars, mtx_, t, count, fileVars, history>>

Reopen(w) ==
    /\ Goes(w, "reopen", "fclose")
    /\ Lock(w)
    /\ FlushQueue
    /\ UNCHANGED <<rollVars, fileVars, history>>

\* Who has read fp_ and has not called fflush yet will use a closed stream.
Fclose(w) ==
    /\ Goes(w, "fclose", "fopen")
    /\ closed' = TRUE
    /\ stale' = stale \cup {v \in Writer : pc[v] = "fflush"}
    /\ UNCHANGED <<queueVars, mtx_, rollVars, crashed, history>>

Fopen(w) ==
    /\ Goes(w, "fopen", "line")
    /\ closed' = FALSE
    /\ Unlock
    /\ UNCHANGED <<queueVars, rollVars, stale, crashed, history>>

-----------------------------------------------------------------------------
(* write: the record, under mtx_.                                          *)

\* lineCount_++ loads and stores: NewDay writes it without mtx_.
Line(w) ==
    /\ Goes(w, "line", "store")
    /\ Lock(w)
    /\ count' = [count EXCEPT ![w] = lineCount_]
    /\ UNCHANGED <<queueVars, lineCount_, toDay_, t, fileVars, history>>

full_Above == Len(deq_) > capacity_
full == Len(deq_) >= capacity_

Counted(w) ==
    /\ lineCount_' = count[w] + 1
    /\ lines' = lines + 1
    /\ UNCHANGED <<toDay_, t, count, fileVars, calls, pushed, written>>

Queue(w) ==
    /\ isAsync_ /\ ~full
    /\ Goes(w, "store", "push")
    /\ Counted(w)
    /\ Q!CallPush(w, w)
    /\ UNCHANGED <<mtx_, direct>>

\* push_back does not wait here: PushNeverWaits.
PushBack(w) ==
    /\ Goes(w, "push", "flush")
    /\ Q!PushBack(w)
    /\ pushed' = Append(pushed, item[w])
    /\ Unlock
    /\ UNCHANGED <<rollVars, fileVars, calls, lines, direct, written>>

Direct(w) ==
    /\ ~isAsync_ \/ full
    /\ Goes(w, "store", "flush")
    /\ Counted(w)
    /\ direct' = direct + 1
    /\ Unlock
    /\ UNCHANGED queueVars

-----------------------------------------------------------------------------
(* flush, which LOG_BASE calls after write and without mtx_.               *)

Flush(w) ==
    /\ Goes(w, "flush", "read fp")
    /\ FlushQueue
    /\ UNCHANGED <<mtx_, rollVars, fileVars, history>>

ReadFp(w) ==
    /\ Goes(w, "read fp", "fflush")
    /\ stale' = IF closed THEN stale \cup {w} ELSE stale
    /\ UNCHANGED <<queueVars, mtx_, rollVars, closed, crashed, history>>

\* fflush of a closed stream is undefined: nothing happens, or the process dies.
Fflush(w) ==
    /\ Goes(w, "fflush", "out")
    /\ crashed' \in (IF w \in stale THEN BOOLEAN ELSE {FALSE})
    /\ stale' = stale \ {w}
    /\ UNCHANGED <<queueVars, mtx_, rollVars, closed, history>>

-----------------------------------------------------------------------------
(* AsyncWrite_.                                                            *)

PopStep ==
    /\ ~crashed
    /\ writing = "pop"
    /\ \/ (Q!CallPop \/ Q!PopWait) /\ UNCHANGED writing
       \/ Q!Pop /\ writing' = "puts"
       \/ Q!PopClosed /\ writing' = "returned"
    /\ UNCHANGED <<mtx_, rollVars, day, pc, fileVars, dtor, history>>

Fputs ==
    /\ ~crashed
    /\ writing = "puts"
    /\ mtx_ = "free"
    /\ written' = Append(written, got)
    /\ writing' = "pop"
    /\ UNCHANGED <<queueVars, mtx_, rollVars, day, pc, fileVars, dtor, calls, lines,
                   pushed, direct>>

SpuriousWakeup ==
    /\ ~crashed
    /\ Q!SpuriousWakeup
    /\ UNCHANGED <<mtx_, rollVars, day, pc, fileVars, writing, dtor, history>>

-----------------------------------------------------------------------------
(* ~Log, at the end of the process: no thread logs any more.               *)

\* The destructor goes from one place to another.
Ends(from, to) ==
    /\ ~crashed
    /\ dtor = from
    /\ dtor' = to
    /\ UNCHANGED <<mtx_, rollVars, day, pc, stale, crashed, writing, history>>

DtorStart ==
    /\ \A w \in Writer : pc[w] = "out"
    /\ Ends("uncalled", IF isAsync_ THEN "drain" ELSE "fclose")
    /\ UNCHANGED <<queueVars, closed>>

\* while(!deque_->empty()) deque_->flush();
Drained_Assumed == TRUE
Drained == deq_ = <<>>

DtorDrain == ~Drained /\ Ends("drain", "drain") /\ Q!Flush /\ UNCHANGED closed

DtorClose == Drained /\ Ends("drain", "close") /\ Q!Close /\ UNCHANGED closed

DtorNotify ==
    /\ \/ Ends("close", "close") /\ Q!CloseNotifyProducers
       \/ Ends("close", "join") /\ Q!CloseNotifyConsumer
    /\ UNCHANGED closed

DtorJoin ==
    /\ writing = "returned"
    /\ Ends("join", "fclose")
    /\ UNCHANGED <<queueVars, closed>>

DtorFclose ==
    /\ mtx_ = "free"
    /\ Ends("fclose", "done")
    /\ FlushQueue
    /\ closed' = TRUE

-----------------------------------------------------------------------------
Tick ==
    /\ ~crashed
    /\ day < MaxDay
    /\ day' = day + 1
    /\ UNCHANGED <<queueVars, mtx_, rollVars, pc, fileVars, writing, dtor, history>>

Ended == (crashed \/ dtor = "done") /\ UNCHANGED vars

WriterStep(w) ==
    \/ Check(w) \/ Roll(w) \/ NewDay(w) \/ Reopen(w) \/ Fclose(w) \/ Fopen(w)
    \/ Line(w) \/ Queue(w) \/ PushBack(w) \/ Direct(w)
    \/ Flush(w) \/ ReadFp(w) \/ Fflush(w)

AsyncWrite_ == PopStep \/ Fputs

DtorStep == DtorDrain \/ DtorClose \/ DtorNotify \/ DtorJoin \/ DtorFclose

Next ==
    \/ \E w \in Writer : Call(w) \/ WriterStep(w)
    \/ AsyncWrite_ \/ SpuriousWakeup
    \/ DtorStart \/ DtorStep
    \/ Tick \/ Ended

Spec == Init /\ [][Next]_vars

(***************************************************************************)
(* Threads run; one that contends for mtx_ gets it in the end.  Nobody has *)
(* to log, to end the process, or to be woken for no reason.               *)
(***************************************************************************)
FairSpec ==
    /\ Spec
    /\ \A w \in Writer : SF_vars(WriterStep(w))
    /\ SF_vars(AsyncWrite_)
    /\ WF_vars(DtorStep)

-----------------------------------------------------------------------------
(* Properties.                                                             *)

\* The places of a writer in LOG_BASE, write and flush.
Place == {"out", "check", "roll", "new day", "reopen", "fclose", "fopen", "line",
          "store", "push", "flush", "read fp", "fflush"}

\* Every variable has its type.
TypeOK ==
    /\ deq_ \in Seq(Writer) /\ isClose_ \in BOOLEAN
    /\ producer \in [Writer -> Q!ProducerState] /\ item \in [Writer -> Writer]
    /\ consumer \in Q!ConsumerState /\ got \in Writer /\ closing \in Q!CloseState
    /\ mtx_ \in Writer \cup {"free"}
    /\ lineCount_ \in Nat /\ toDay_ \in Nat /\ day \in Nat
    /\ pc \in [Writer -> Place]
    /\ t \in [Writer -> Nat] /\ count \in [Writer -> Nat]
    /\ closed \in BOOLEAN /\ crashed \in BOOLEAN /\ stale \subseteq Writer
    /\ writing \in {"none", "pop", "puts", "returned"}
    /\ dtor \in {"uncalled", "drain", "close", "join", "fclose", "done"}
    /\ calls \in Nat /\ lines \in Nat /\ direct \in Nat
    /\ pushed \in Seq(Writer) /\ written \in Seq(Writer)

(***************************************************************************)
(* write holds mtx_, which AsyncWrite_ needs to empty the queue, while it  *)
(* calls push_back: were the queue full again after write's test, push_back*)
(* would wait for a pop that waits for mtx_.  It never is, although full   *)
(* and push_back take the queue's mutex separately.                        *)
(***************************************************************************)
PushNeverWaits ==
    \A w \in Writer : producer[w] = "push" => Len(deq_) < capacity_

\* What AsyncWrite_ has popped and not put yet.
Held == IF writing = "puts" THEN <<got>> ELSE <<>>

(***************************************************************************)
(* Every record that write has counted is in the file, in the queue, in    *)
(* AsyncWrite_'s hand or in that of the one push_back under way: none is   *)
(* lost or put twice, neither by Close, which clears the queue, nor when   *)
(* the queue is full.  Queued records are put in the order they came.      *)
(***************************************************************************)
NothingLost ==
    /\ pushed = written \o Held \o deq_
    /\ lines = Len(pushed) + direct
                 + (IF \E w \in Writer : pc[w] = "push" THEN 1 ELSE 0)

(***************************************************************************)
(* No record is put into a stream that was closed: whoever may put one,    *)
(* with mtx_ or able to take it, finds fp_ open.                           *)
(***************************************************************************)
StreamOpen ==
    /\ mtx_ = "free" /\ writing = "puts" => ~closed
    /\ \A w \in Writer : pc[w] \in {"store", "push"} => ~closed

\* When ~Log has returned every record of the process has been put.
PutAtExit == dtor = "done" => Len(written) + direct = lines

\* Every use of a LOG_ macro returns, unless the process died.
LogReturns == \A w \in Writer : pc[w] # "out" ~> (pc[w] = "out" \/ crashed)

(***************************************************************************)
(* ~Log empties and closes the queue, and returns if the writing thread    *)
(* sleeps on the queue when Close notifies it.  (If that thread is still   *)
(* between two calls of pop it goes to sleep on the closed queue, and join *)
(* waits for a spurious wakeup: pop looks at isClose_ after a wait only.)  *)
(***************************************************************************)
DtorEnds ==
    /\ dtor # "uncalled" ~> dtor \in {"join", "fclose", "done"}
    /\ (dtor = "join" /\ consumer = "woken") ~> dtor = "done"

=============================================================================
