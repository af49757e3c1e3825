----------------------------- MODULE AsyncWorker -----------------------------
(***************************************************************************)
(* mylog::AsyncWorker (logs_code/AsyncWorker.hpp): any number of threads   *)
(* push log messages into buffer_productor_; one worker thread swaps it    *)
(* with buffer_consumer_ and hands that to the callback, outside the lock. *)
(*                                                                         *)
(* Every section that holds mtx_ is one action.  The emptiness test at the *)
(* end of the worker's loop reads buffer_productor_ without the lock and   *)
(* is an action of its own.                                                *)
(***************************************************************************)
EXTENDS LogBuffer, FiniteSets

CONSTANTS
    Producer,       \* the threads that log
    Safe,           \* async_type_ = ASYNC_SAFE
    MaxCalls        \* bound: the number of Push calls in a behaviour

ASSUME WorkerAssumption ==
    /\ Safe \in BOOLEAN
    /\ MaxCalls \in Nat

VARIABLES
    callback_,      \* has the constructor initialised callback_?
    stop_,
    productor,      \* buffer_productor_
    consumer,       \* buffer_consumer_
    caller,         \* caller[p]: where p is in Push
    data,           \* data[p]: the message p is pushing
    worker,         \* the next statement of ThreadEntry
    calls,          \* number of Push calls made
    pushed,         \* history: messages in the order Push wrote them
    flushed         \* history: messages in the order the callback got them

vars == <<callback_, stop_, productor, consumer, caller, data, worker, calls,
          pushed, flushed>>

(***************************************************************************)
(* A caller is outside Push, contending for mtx_ (at the start of Push or  *)
(* when cond_productor_ has released it), or asleep on cond_productor_.    *)
(***************************************************************************)
CallerState == {"out", "contending", "asleep"}
WorkerState == {"swap", "flush", "check", "returned", "crashed"}

\* data[p] before the first Push of p; its value is never read.
NoData == CHOOSE m \in Message : TRUE

Init ==
    /\ callback_ = FALSE
    /\ stop_ = FALSE
    /\ productor = NewBuffer
    /\ consumer = NewBuffer
    /\ caller = [p \in Producer |-> "out"]
    /\ data = [p \in Producer |-> NoData]
    /\ worker = "swap"
    /\ calls = 0
    /\ pushed = <<>>
    /\ flushed = <<>>

(***************************************************************************)
(* An exception that leaves the worker's thread ends the process.          *)
(***************************************************************************)
ProcessAlive == worker # "crashed"

(***************************************************************************)
(* The member thread_ is declared, and so started, before callback_: the   *)
(* worker may be running before this step of the constructor.              *)
(***************************************************************************)
FinishConstructor ==
    /\ ProcessAlive
    /\ ~callback_
    /\ callback_' = TRUE
    /\ UNCHANGED <<stop_, productor, consumer, caller, data, worker, calls,
                   pushed, flushed>>

(***************************************************************************)
(* A thread enters Push.  It reaches the worker through a shared_ptr that  *)
(* it holds for the whole call, so none is inside Push once ~AsyncWorker   *)
(* has run.                                                                *)
(***************************************************************************)
CallPush(p, m) ==
    /\ ProcessAlive
    /\ callback_
    /\ ~stop_
    /\ caller[p] = "out"
    /\ calls < MaxCalls
    /\ calls' = calls + 1
    /\ caller' = [caller EXCEPT ![p] = "contending"]
    /\ data' = [data EXCEPT ![p] = m]
    /\ UNCHANGED <<callback_, stop_, productor, consumer, worker, pushed,
                   flushed>>

\* The predicate of cond_productor_.wait; an unsafe worker does not wait.
HasRoom(p) == Safe => MsgLen[data[p]] =< WriteableSize(productor)

(***************************************************************************)
(* Push with the lock: wait for room, or write and return, or let the      *)
(* exception of a failed resize pass to the caller.  notify_one on         *)
(* cond_consumer_ wakes nobody: see Swap.                                  *)
(***************************************************************************)
WaitForRoom(p) ==
    /\ ProcessAlive
    /\ caller[p] = "contending"
    /\ ~HasRoom(p)
    /\ caller' = [caller EXCEPT ![p] = "asleep"]
    /\ UNCHANGED <<callback_, stop_, productor, consumer, data, worker, calls,
                   pushed, flushed>>

Write(p) ==
    /\ ProcessAlive
    /\ caller[p] = "contending"
    /\ HasRoom(p)
    /\ ~ResizeThrows(productor, MsgLen[data[p]])
    /\ productor' = BufferPush(productor, data[p])
    /\ pushed' = Append(pushed, data[p])
    /\ caller' = [caller EXCEPT ![p] = "out"]
    /\ UNCHANGED <<callback_, stop_, consumer, data, worker, calls, flushed>>

WriteThrows(p) ==
    /\ ProcessAlive
    /\ caller[p] = "contending"
    /\ HasRoom(p)
    /\ ResizeThrows(productor, MsgLen[data[p]])
    /\ caller' = [caller EXCEPT ![p] = "out"]
    /\ UNCHANGED <<callback_, stop_, productor, consumer, data, worker, calls,
                   pushed, flushed>>

SpuriousWakeup(p) ==
    /\ ProcessAlive
    /\ caller[p] = "asleep"
    /\ caller' = [caller EXCEPT ![p] = "contending"]
    /\ UNCHANGED <<callback_, stop_, productor, consumer, data, worker, calls,
                   pushed, flushed>>

(***************************************************************************)
(* ~AsyncWorker calls Stop: the last shared_ptr is gone, so no thread is   *)
(* inside Push.  Its join returns when worker = "returned".                *)
(***************************************************************************)
Stop ==
    /\ ProcessAlive
    /\ callback_
    /\ ~stop_
    /\ \A p \in Producer : caller[p] = "out"
    /\ stop_' = TRUE
    /\ UNCHANGED <<callback_, productor, consumer, caller, data, worker, calls,
                   pushed, flushed>>

-----------------------------------------------------------------------------
(* The worker thread: ThreadEntry.                                         *)

Asleep == {p \in Producer : caller[p] = "asleep"}

\* cond_productor_.notify_one(), called for a safe worker only.
NotifyProductor_None == UNCHANGED caller

NotifyProductor ==
    \/ /\ Safe /\ Asleep # {}
       /\ \E p \in Asleep : caller' = [caller EXCEPT ![p] = "contending"]
    \/ /\ ~Safe \/ Asleep = {}
       /\ UNCHANGED caller

(***************************************************************************)
(* The section under mtx_.  The wait is entered only when stop_ holds and  *)
(* its predicate is stop_ || !IsEmpty(), so it returns at once: the worker *)
(* never sleeps and swaps whatever is there.                               *)
(***************************************************************************)
Swap_Copy ==
    /\ worker = "swap"
    /\ consumer' = productor
    /\ UNCHANGED productor
    /\ NotifyProductor
    /\ worker' = "flush"
    /\ UNCHANGED <<callback_, stop_, data, calls, pushed, flushed>>

Swap ==
    /\ worker = "swap"
    /\ (IsEmpty(productor) /\ stop_) => (stop_ \/ ~IsEmpty(productor))
    /\ productor' = consumer
    /\ consumer' = productor
    /\ NotifyProductor
    /\ worker' = "flush"
    /\ UNCHANGED <<callback_, stop_, data, calls, pushed, flushed>>

\* callback_(buffer_consumer_); buffer_consumer_.Reset();
Flush_NoReset ==
    /\ worker = "flush"
    /\ callback_
    /\ flushed' = flushed \o consumer.items
    /\ UNCHANGED consumer
    /\ worker' = "check"
    /\ UNCHANGED <<callback_, stop_, productor, caller, data, calls, pushed>>

Flush ==
    /\ worker = "flush"
    /\ callback_
    /\ flushed' = flushed \o consumer.items
    /\ consumer' = Reset(consumer)
    /\ worker' = "check"
    /\ UNCHANGED <<callback_, stop_, productor, caller, data, calls, pushed>>

\* Calling a std::function that is not constructed yet is undefined: it
\* throws or faults, and either ends the process.
FlushUninitialised ==
    /\ worker = "flush"
    /\ ~callback_
    /\ worker' = "crashed"
    /\ UNCHANGED <<callback_, stop_, productor, consumer, caller, data, calls,
                   pushed, flushed>>

\* if (stop_ && buffer_productor_.IsEmpty()) return;
Check_StopOnly ==
    /\ worker = "check"
    /\ worker' = IF stop_ THEN "returned" ELSE "swap"
    /\ UNCHANGED <<callback_, stop_, productor, consumer, caller, data, calls,
                   pushed, flushed>>

Check_Inverted ==
    /\ worker = "check"
    /\ worker' = IF stop_ /\ ~IsEmpty(productor) THEN "returned" ELSE "swap"
    /\ UNCHANGED <<callback_, stop_, productor, consumer, caller, data, calls,
                   pushed, flushed>>

Check ==
    /\ worker = "check"
    /\ worker' = IF stop_ /\ IsEmpty(productor) THEN "returned" ELSE "swap"
    /\ UNCHANGED <<callback_, stop_, productor, consumer, caller, data, calls,
                   pushed, flushed>>

ThreadEntry == Swap \/ Flush \/ FlushUninitialised \/ Check

\* Inside Push a thread is scheduled until it sleeps or returns.
PushStep(p) == WaitForRoom(p) \/ Write(p) \/ WriteThrows(p)

\* The process has ended, or only the destructor's return is left.
Ended ==
    /\ worker \in {"returned", "crashed"}
    /\ UNCHANGED vars

Next ==
    \/ FinishConstructor
    \/ \E p \in Producer :
          \/ \E m \in Message : CallPush(p, m)
          \/ PushStep(p)
          \/ SpuriousWakeup(p)
    \/ Stop
    \/ ThreadEntry
    \/ Ended

Spec == Init /\ [][Next]_vars

(***************************************************************************)
(* The scheduler runs every thread that is runnable: the worker, and a     *)
(* thread that contends for mtx_, which no thread holds across a blocking  *)
(* call.  Nothing obliges a thread to call Push or the owner to destroy    *)
(* the worker, and no spurious wakeup is owed to anyone.                   *)
(***************************************************************************)
FairSpec ==
    /\ Spec
    /\ WF_vars(FinishConstructor)
    /\ WF_vars(ThreadEntry)
    /\ \A p \in Producer : WF_vars(PushStep(p))

-----------------------------------------------------------------------------
(* Properties.                                                             *)

\* Every variable has its type.
TypeOK ==
    /\ callback_ \in BOOLEAN
    /\ stop_ \in BOOLEAN
    /\ productor \in Buffer
    /\ consumer \in Buffer
    /\ caller \in [Producer -> CallerState]
    /\ data \in [Producer -> Message]
    /\ worker \in WorkerState
    /\ calls \in 0 .. MaxCalls
    /\ pushed \in Seq(Message)
    /\ flushed \in Seq(Message)

(***************************************************************************)
(* The double buffer neither loses, repeats nor reorders a message: what   *)
(* was pushed is what the callback was given, followed by what is still in *)
(* the consumer's buffer, followed by the producers' buffer (Push, Swap    *)
(* and the callback of ThreadEntry together).                              *)
(***************************************************************************)
NothingLost == pushed = flushed \o consumer.items \o productor.items

(***************************************************************************)
(* Push never copies past the end of either vector: "make sure that the    *)
(* capacity is sufficient" (AsyncBuffer.hpp:19, of ToBeEnough), after the  *)
(* wait for room of a safe worker and without it for an unsafe one.        *)
(***************************************************************************)
NoOverrun == WithinBounds(productor) /\ WithinBounds(consumer)

(***************************************************************************)
(* What the sizes must satisfy for that: an int holds every size that can  *)
(* be had and, when Push does not wait, one growth makes room for the      *)
(* longest message.                                                        *)
(***************************************************************************)
SizesAdequate ==
    /\ BufferSize =< MaxAlloc
    /\ 2 * MaxAlloc < IntMod
    /\ \/ Safe
       \/ \A m \in Message : MsgLen[m] =< 2 * BufferSize /\ MsgLen[m] =< LinearGrowth

(***************************************************************************)
(* When the worker thread has returned, and so when ~AsyncWorker returns   *)
(* from join, every message pushed has been handed to the callback.        *)
(***************************************************************************)
DrainedOnReturn == worker = "returned" => flushed = pushed

(***************************************************************************)
(* AsyncWorker implements the abstract log: a message is accepted when     *)
(* Push writes it, delivered when the callback gets it, the log is closed  *)
(* by Stop and finished when the worker's thread returns.                  *)
(***************************************************************************)
Log == INSTANCE LogFifo WITH
    accepted  <- pushed,
    delivered <- flushed,
    closed    <- stop_,
    finished  <- worker = "returned"

ImplementsLog == Log!Spec

(***************************************************************************)
(* Every call of Push returns to its caller (a message no longer than the  *)
(* buffer: a longer one waits for room that can never exist).              *)
(***************************************************************************)
PushReturns ==
    \A p \in Producer :
        caller[p] # "out" ~> (caller[p] = "out" \/ worker = "crashed")

\* Once Stop is called the worker's loop returns, so that join does too.
StopReturns == stop_ ~> (worker = "returned")

=============================================================================
