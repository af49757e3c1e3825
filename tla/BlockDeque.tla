------------------------------ MODULE BlockDeque ------------------------------
(***************************************************************************)
(* The bounded blocking queue of the web server's log (code/log/           *)
(* blockqueue.h): push_back, pop, flush, Close.  Its mutex is held for one *)
(* pass of a loop's test, so such a pass is an action.  A thread that      *)
(* waits on a condition variable is "asleep"; a notification or a spurious *)
(* wakeup moves it back to its loop.  push_front, clear and the timed pop  *)
(* have no caller.                                                         *)
(***************************************************************************)
EXTENDS Naturals, Sequences

CONSTANTS
    Producer,       \* the threads that call push_back
    Item,
    capacity_       \* the capacity the constructor was given

VARIABLES
    deq_, isClose_,
    producer,       \* each producer's place in push_back
    item,           \* the argument of each producer's last call
    consumer,       \* the consumer's place in pop
    got,            \* what its last successful pop returned
    closing         \* the place of the thread that calls Close

vars == <<deq_, isClose_, producer, item, consumer, got, closing>>

ProducerState == {"out", "push", "asleep"}
ConsumerState == {"out", "pop", "asleep", "woken", "closed"}
CloseState == {"uncalled", "producers", "consumer", "done"}

Init ==
    /\ deq_ = <<>>
    /\ isClose_ = FALSE
    /\ producer = [p \in Producer |-> "out"]
    /\ item \in [Producer -> Item]
    /\ consumer = "out"
    /\ got \in Item
    /\ closing = "uncalled"

-----------------------------------------------------------------------------
(* push_back.                                                              *)

\* condConsumer_.notify_one, and notify_all: there is one consumer.
NotifyConsumer_None == UNCHANGED consumer

NotifyConsumer == consumer' = IF consumer = "asleep" THEN "woken" ELSE consumer

CallPush(p, i) ==
    /\ producer[p] = "out"
    /\ producer' = [producer EXCEPT ![p] = "push"]
    /\ item' = [item EXCEPT ![p] = i]
    /\ UNCHANGED <<deq_, isClose_, consumer, got, closing>>

PushWait(p) ==
    /\ producer[p] = "push"
    /\ Len(deq_) >= capacity_
    /\ producer' = [producer EXCEPT ![p] = "asleep"]
    /\ UNCHANGED <<deq_, isClose_, item, consumer, got, closing>>

PushBack(p) ==
    /\ producer[p] = "push"
    /\ Len(deq_) < capacity_
    /\ deq_' = Append(deq_, item[p])
    /\ producer' = [producer EXCEPT ![p] = "out"]
    /\ NotifyConsumer
    /\ UNCHANGED <<isClose_, item, got, closing>>

-----------------------------------------------------------------------------
(* pop.  The closed flag is looked at after a wait only.                   *)

CallPop ==
    /\ consumer = "out"
    /\ consumer' = "pop"
    /\ UNCHANGED <<deq_, isClose_, producer, item, got, closing>>

\* The loop's test is reached at the start and after a wait on an open queue.
AtTest == consumer = "pop" \/ (consumer = "woken" /\ ~isClose_)

PopWait ==
    /\ AtTest
    /\ deq_ = <<>>
    /\ consumer' = "asleep"
    /\ UNCHANGED <<deq_, isClose_, producer, item, got, closing>>

Sleeping == {p \in Producer : producer[p] = "asleep"}

\* condProducer_.notify_one.
NotifyProducer ==
    IF Sleeping = {}
    THEN UNCHANGED producer
    ELSE \E p \in Sleeping : producer' = [producer EXCEPT ![p] = "push"]

PopFront_None == UNCHANGED deq_
PopFront == deq_' = Tail(deq_)

Pop ==
    /\ AtTest
    /\ deq_ # <<>>
    /\ got' = Head(deq_)
    /\ PopFront
    /\ consumer' = "out"
    /\ NotifyProducer
    /\ UNCHANGED <<isClose_, item, closing>>

PopClosed ==
    /\ consumer = "woken"
    /\ isClose_
    /\ consumer' = "closed"
    /\ UNCHANGED <<deq_, isClose_, producer, item, got, closing>>

-----------------------------------------------------------------------------
(* flush, Close and spurious wakeups.                                      *)

Flush ==
    /\ NotifyConsumer
    /\ UNCHANGED <<deq_, isClose_, producer, item, got, closing>>

Close ==
    /\ closing = "uncalled"
    /\ deq_' = <<>>
    /\ isClose_' = TRUE
    /\ closing' = "producers"
    /\ UNCHANGED <<producer, item, consumer, got>>

CloseNotifyProducers ==
    /\ closing = "producers"
    /\ producer' = [p \in Producer |->
                      IF producer[p] = "asleep" THEN "push" ELSE producer[p]]
    /\ closing' = "consumer"
    /\ UNCHANGED <<deq_, isClose_, item, consumer, got>>

CloseNotifyConsumer ==
    /\ closing = "consumer"
    /\ NotifyConsumer
    /\ closing' = "done"
    /\ UNCHANGED <<deq_, isClose_, producer, item, got>>

SpuriousWakeup ==
    /\ consumer = "asleep"
    /\ consumer' = "woken"
    /\ UNCHANGED <<deq_, isClose_, producer, item, got, closing>>

SpuriousPush(p) ==
    /\ producer[p] = "asleep"
    /\ producer' = [producer EXCEPT ![p] = "push"]
    /\ UNCHANGED <<deq_, isClose_, item, consumer, got, closing>>

Next ==
    \/ \E p \in Producer : \/ \E i \in Item : CallPush(p, i)
                           \/ PushWait(p) \/ PushBack(p) \/ SpuriousPush(p)
    \/ CallPop \/ PopWait \/ Pop \/ PopClosed \/ SpuriousWakeup
    \/ Flush
    \/ Close \/ CloseNotifyProducers \/ CloseNotifyConsumer

Spec == Init /\ [][Next]_vars

=============================================================================
