------------------------------- MODULE DbPool -------------------------------
(***************************************************************************)
(* DbConnectionPool: a queue of connections behind a mutex and a condition *)
(* variable, the threads that borrow one for the length of a statement and *)
(* the thread that checks the idle ones.  init has run.                    *)
(*                                                                         *)
(* A critical section that does not block is one step, taken when the      *)
(* mutex is free; the checking thread is the only one that keeps the mutex *)
(* while it sleeps.  Whether a connection answers a ping, reconnects or    *)
(* executes a statement is up to MySQL.                                    *)
(***************************************************************************)
EXTENDS Loops, Integers, Sequences, FiniteSets, Functions

CONSTANT
    Conn        \* the connections that init creates

VARIABLES
    connections_,   \* the queue
    dpc,            \* where each thread is in getConnection or its use
    holds,          \* holds[t]: the connection thread t has taken, a set
    asleep,         \* the checking thread sleeps, holding the mutex
    toCheck         \* the connections it still has to ping, outside the lock

poolVars == <<connections_, dpc, holds, asleep, toCheck>>

ASSUME ConnAssumption == IsFiniteSet(Conn) /\ Conn # {}

(* "unwind": as "release", with an exception on its way to the handler,    *)
(* which is at "failed" then.                                              *)
PoolPc == {"none", "get", "waiting", "ping", "reconnect", "use", "release",
           "unwind", "failed"}

PoolTypeOK ==
    /\ connections_ \in Seq(Conn)
    /\ dpc \in [Thread -> PoolPc]
    /\ holds \in [Thread -> SUBSET Conn]
    /\ asleep \in BOOLEAN
    /\ toCheck \in SUBSET Conn

(* init: every connection is in the queue, once. *)
PoolInit ==
    /\ connections_ \in [1 .. Cardinality(Conn) -> Conn]
    /\ Range(connections_) = Conn /\ IsInjective(connections_)
    /\ dpc = [t \in Thread |-> "none"]
    /\ holds = [t \in Thread |-> {}]
    /\ asleep = FALSE
    /\ toCheck = {}

(* MysqlUtil asks for a connection. *)
Begin(t) ==
    /\ dpc[t] = "none"
    /\ dpc' = [dpc EXCEPT ![t] = "get"]
    /\ UNCHANGED <<connections_, holds, asleep, toCheck>>

(* getConnection under the lock: the first connection, ... *)
Take(t) ==
    /\ dpc[t] = "get" /\ ~asleep /\ connections_ # <<>>
    /\ holds' = [holds EXCEPT ![t] = {Head(connections_)}]
    /\ connections_' = Tail(connections_)
    /\ dpc' = [dpc EXCEPT ![t] = "ping"]
    /\ UNCHANGED <<asleep, toCheck>>

(* ... or a wait for one. *)
Wait(t) ==
    /\ dpc[t] = "get" /\ ~asleep /\ connections_ = <<>>
    /\ dpc' = [dpc EXCEPT ![t] = "waiting"]
    /\ UNCHANGED <<connections_, holds, asleep, toCheck>>

SpuriousWakeup(t) ==
    /\ dpc[t] = "waiting" /\ ~asleep
    /\ dpc' = [dpc EXCEPT ![t] = "get"]
    /\ UNCHANGED <<connections_, holds, asleep, toCheck>>

(* Outside the lock: ping, ... *)
Ping(t, ok) ==
    /\ dpc[t] = "ping"
    /\ dpc' = [dpc EXCEPT ![t] = IF ok THEN "use" ELSE "reconnect"]
    /\ UNCHANGED <<connections_, holds, asleep, toCheck>>

(* ... and reconnect when it was not answered, which may throw. *)
reconnect(t, ok) ==
    /\ dpc[t] = "reconnect"
    /\ dpc' = [dpc EXCEPT ![t] = IF ok THEN "use" ELSE "unwind"]
    /\ UNCHANGED <<connections_, holds, asleep, toCheck>>

(* The statement runs, or throws. *)
Use(t, ok) ==
    /\ dpc[t] = "use"
    /\ dpc' = [dpc EXCEPT ![t] = IF ok THEN "release" ELSE "unwind"]
    /\ UNCHANGED <<connections_, holds, asleep, toCheck>>

After(t) == IF dpc[t] = "release" THEN "none" ELSE "failed"

(* Mutant: a connection that failed is not put back. *)
Release_lost(t) ==
    /\ dpc[t] \in {"release", "unwind"} /\ ~asleep
    /\ \E c \in holds[t] :
          connections_' = IF dpc[t] = "unwind" THEN connections_
                                              ELSE Append(connections_, c)
    /\ holds' = [holds EXCEPT ![t] = {}]
    /\ dpc' = [dpc EXCEPT ![t] = After(t)]
    /\ UNCHANGED <<asleep, toCheck>>

(* Mutant: nobody is woken. *)
Release_silent(t) ==
    /\ dpc[t] \in {"release", "unwind"} /\ ~asleep
    /\ \E c \in holds[t] : connections_' = Append(connections_, c)
    /\ holds' = [holds EXCEPT ![t] = {}]
    /\ dpc' = [dpc EXCEPT ![t] = After(t)]
    /\ UNCHANGED <<asleep, toCheck>>

(* The deleter, or the catch block: the connection goes back and           *)
(* notify_one wakes one of the waiting threads, if any.                    *)
Release(t) ==
    /\ dpc[t] \in {"release", "unwind"} /\ ~asleep
    /\ \E c \in holds[t] : connections_' = Append(connections_, c)
    /\ holds' = [holds EXCEPT ![t] = {}]
    /\ \/ /\ \A u \in Thread : dpc[u] # "waiting"
          /\ dpc' = [dpc EXCEPT ![t] = After(t)]
       \/ \E u \in Thread :
             /\ dpc[u] = "waiting"
             /\ dpc' = [dpc EXCEPT ![t] = After(t), ![u] = "get"]
    /\ UNCHANGED <<asleep, toCheck>>

(* The handler catches the exception. *)
Caught(t) ==
    /\ dpc[t] = "failed"
    /\ dpc' = [dpc EXCEPT ![t] = "none"]
    /\ UNCHANGED <<connections_, holds, asleep, toCheck>>

(* checkConnections: with nothing in the queue it sleeps for a second      *)
(* under the lock; otherwise it copies the queue ...                       *)
CheckLook ==
    /\ ~asleep /\ toCheck = {}
    /\ asleep' = (connections_ = <<>>)
    /\ toCheck' = Range(connections_)
    /\ UNCHANGED <<connections_, dpc, holds>>

CheckWake ==
    /\ asleep /\ asleep' = FALSE
    /\ UNCHANGED <<connections_, dpc, holds, toCheck>>

(* ... and pings each, which a thread may have taken by then. *)
CheckPing(c) ==
    /\ c \in toCheck
    /\ toCheck' = toCheck \ {c}
    /\ UNCHANGED <<connections_, dpc, holds, asleep>>

Check == CheckLook \/ CheckWake \/ \E c \in Conn : CheckPing(c)

Borrow(t) ==
    \/ Take(t) \/ Wait(t) \/ Release(t)
    \/ \E ok \in BOOLEAN : Ping(t, ok) \/ reconnect(t, ok)

PoolNext ==
    \/ Check
    \/ \E t \in Thread :
       \/ Begin(t) \/ Borrow(t) \/ SpuriousWakeup(t) \/ Caught(t)
       \/ \E ok \in BOOLEAN : Use(t, ok)

PoolSpec == PoolInit /\ [][PoolNext]_poolVars

(* Whatever the threads and the checking thread do, and whichever pings,   *)
(* reconnects and statements fail, every connection is in one place: once  *)
(* in the queue, or with one thread (the deleter and the catch block of    *)
(* getConnection put it back exactly once).                                *)
ConnInOnePlace ==
    /\ IsInjective(connections_)
    /\ \A t \in Thread : Range(connections_) \cap holds[t] = {}
    /\ \A t, u \in Thread : t # u => holds[t] \cap holds[u] = {}
    /\ \A c \in Conn : c \in Range(connections_) \/ \E t \in Thread : c \in holds[t]
=============================================================================
