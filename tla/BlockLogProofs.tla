---------------------------- MODULE BlockLogProofs ----------------------------
(***************************************************************************)
(* What the web server's log guarantees for any number of threads, any     *)
(* capacity and any file length: push_back never waits under mtx_, nothing *)
(* is put into a closed stream, and no record is lost.                     *)
(***************************************************************************)
EXTENDS BlockLog, SequenceTheorems, TLAPS

\* The places at which a writer holds mtx_.
Locked == {"fclose", "fopen", "store", "push"}

\* mtx_ is held by the writer that is at such a place, and by no other.
MutexInv == \A w \in Writer : mtx_ = w <=> pc[w] \in Locked

\* A writer is in push_back when its place says so, and finds room there.
PushInv ==
    \A w \in Writer :
        /\ pc[w] = "push" => producer[w] = "push" /\ Len(deq_) < capacity_ /\ isAsync_
        /\ pc[w] # "push" => producer[w] = "out"

\* fp_ is closed while a writer opens the next file, and at the very end.
ClosedInv == closed => (\E w \in Writer : pc[w] = "fopen") \/ dtor = "done"

\* The destructor runs when nobody logs, and goes on when the queue is empty.
DtorInv ==
    /\ dtor # "uncalled" => \A w \in Writer : pc[w] = "out"
    /\ dtor \in {"close", "join", "fclose", "done"} => deq_ = <<>>
    /\ dtor \in {"fclose", "done"} => writing \in {"returned", "none"}
    /\ writing = "none" <=> ~isAsync_
    /\ writing = "none" => deq_ = <<>>

SInv == TypeOK /\ MutexInv /\ PushInv /\ ClosedInv /\ DtorInv

IInv == SInv /\ NothingLost

-----------------------------------------------------------------------------
(* The control state.                                                      *)

\* The log as Log::init leaves it satisfies the control invariant.
LEMMA SafeInit == Init => SInv
<1> SUFFICES ASSUME Init PROVE SInv
  OBVIOUS
<1>1. TypeOK
  <2>1. deq_ \in Seq(Writer) /\ pushed \in Seq(Writer) /\ written \in Seq(Writer)
    BY DEF Init, Q!Init
  <2>2. item \in [Writer -> Writer] /\ got \in Writer
    BY DEF Init, Q!Init
  <2>3. producer \in [Writer -> Q!ProducerState]
    BY DEF Init, Q!Init, Q!ProducerState
  <2>4. t \in [Writer -> Nat] /\ count \in [Writer -> Nat]
    BY DEF Init
  <2>5. QED
    BY <2>1, <2>2, <2>3, <2>4 DEF Init, Q!Init, TypeOK, Place, Q!ConsumerState,
       Q!CloseState
<1>2. MutexInv /\ PushInv
  BY LogAssumption DEF Init, Q!Init, MutexInv, PushInv, Locked
<1>3. ClosedInv /\ DtorInv
  BY DEF Init, Q!Init, ClosedInv, DtorInv
<1>4. QED
  BY <1>1, <1>2, <1>3 DEF SInv

\* The conjuncts of TypeOK by the variables that actions leave alone together.
QueueType ==
    /\ deq_ \in Seq(Writer) /\ isClose_ \in BOOLEAN
    /\ producer \in [Writer -> Q!ProducerState] /\ item \in [Writer -> Writer]
    /\ consumer \in Q!ConsumerState /\ got \in Writer /\ closing \in Q!CloseState
RollType ==
    /\ lineCount_ \in Nat /\ toDay_ \in Nat
    /\ t \in [Writer -> Nat] /\ count \in [Writer -> Nat]
FileType == closed \in BOOLEAN /\ crashed \in BOOLEAN /\ stale \subseteq Writer
HistType ==
    /\ calls \in Nat /\ lines \in Nat /\ direct \in Nat
    /\ pushed \in Seq(Writer) /\ written \in Seq(Writer)
PlaceType ==
    /\ mtx_ \in Writer \cup {"free"} /\ day \in Nat /\ pc \in [Writer -> Place]
    /\ writing \in {"none", "pop", "puts", "returned"}
    /\ dtor \in {"uncalled", "drain", "close", "join", "fclose", "done"}

\* They make up TypeOK, before and after a step.
LEMMA TypeSplit ==
    /\ TypeOK <=> QueueType /\ RollType /\ FileType /\ HistType /\ PlaceType
    /\ TypeOK' <=> QueueType' /\ RollType' /\ FileType' /\ HistType' /\ PlaceType'
BY Zenon DEF TypeOK, QueueType, RollType, FileType, HistType, PlaceType

\* What a step leaves alone keeps its type.
LEMMA Frames ==
    ASSUME TypeOK
    PROVE  /\ UNCHANGED queueVars => QueueType'
           /\ UNCHANGED rollVars => RollType'
           /\ UNCHANGED fileVars => FileType'
           /\ UNCHANGED history => HistType'
BY TypeSplit, Zenon DEF queueVars, rollVars, fileVars, history, QueueType, RollType,
   FileType, HistType

\* A writer that goes to a place keeps the types of places, given that of mtx_.
LEMMA GoesType ==
    ASSUME TypeOK, NEW w \in Writer, NEW from, NEW to \in Place, Goes(w, from, to),
           mtx_' \in Writer \cup {"free"}
    PROVE  PlaceType'
<1>1. pc' \in [Writer -> Place]
  BY DEF TypeOK, Goes
<1>2. QED
  BY <1>1 DEF TypeOK, Goes, PlaceType

\* Every step preserves the types.
LEMMA TypeStep == ASSUME TypeOK, [Next]_vars PROVE TypeOK'
<1> USE DEF Q!ProducerState, Q!ConsumerState, Q!CloseState
<1>0. QueueType /\ RollType /\ FileType /\ HistType /\ PlaceType
  BY TypeSplit
<1>1. ASSUME NEW w \in Writer, Call(w) PROVE TypeOK'
  <2>1. mtx_' \in Writer \cup {"free"}
    BY <1>0, <1>1 DEF Call, PlaceType
  <2>2. PlaceType'
    BY <1>1, <2>1, GoesType DEF Call, Place
  <2>3. RollType'
    BY <1>0, <1>1 DEF Call, RollType, PlaceType
  <2>4. HistType'
    BY <1>0, <1>1 DEF Call, HistType
  <2>5. QED
    BY <1>1, <2>2, <2>3, <2>4, Frames, TypeSplit DEF Call
<1>2. ASSUME NEW w \in Writer, Check(w) PROVE TypeOK'
  <2>1. mtx_' \in Writer \cup {"free"}
    BY <1>0, <1>2 DEF Check, PlaceType
  <2>2. PlaceType'
    BY <1>2, <2>1, GoesType DEF Check, Place
  <2>3. QED
    BY <1>2, <2>2, Frames, TypeSplit DEF Check
<1>3. ASSUME NEW w \in Writer, Roll(w) PROVE TypeOK'
  <2>1. mtx_' \in Writer \cup {"free"}
    BY <1>0, <1>3 DEF Roll, PlaceType
  <2>2. PlaceType'
    BY <1>3, <2>1, GoesType DEF Roll, Place
  <2>3. QED
    BY <1>3, <2>2, Frames, TypeSplit DEF Roll
<1>4. ASSUME NEW w \in Writer, NewDay(w) PROVE TypeOK'
  <2>1. mtx_' \in Writer \cup {"free"}
    BY <1>0, <1>4 DEF NewDay, PlaceType
  <2>2. PlaceType'
    BY <1>4, <2>1, GoesType DEF NewDay, Place
  <2>3. RollType'
    BY <1>0, <1>4 DEF NewDay, FirstCount, RollType
  <2>4. QED
    BY <1>4, <2>2, <2>3, Frames, TypeSplit DEF NewDay
<1>5. ASSUME NEW w \in Writer, Reopen(w) PROVE TypeOK'
  <2>1. mtx_' \in Writer \cup {"free"}
    BY <1>0, <1>5 DEF Reopen, Lock, PlaceType
  <2>2. PlaceType'
    BY <1>5, <2>1, GoesType DEF Reopen, Place
  <2>3. QueueType'
    BY <1>0, <1>5 DEF Reopen, FlushQueue, Q!Flush, Q!NotifyConsumer, QueueType, queueVars
  <2>4. QED
    BY <1>5, <2>2, <2>3, Frames, TypeSplit DEF Reopen
<1>6. ASSUME NEW w \in Writer, Fclose(w) PROVE TypeOK'
  <2>1. mtx_' \in Writer \cup {"free"}
    BY <1>0, <1>6 DEF Fclose, PlaceType
  <2>2. PlaceType'
    BY <1>6, <2>1, GoesType DEF Fclose, Place
  <2>3. FileType'
    BY <1>0, <1>6 DEF Fclose, FileType
  <2>4. QED
    BY <1>6, <2>2, <2>3, Frames, TypeSplit DEF Fclose
<1>7. ASSUME NEW w \in Writer, Fopen(w) PROVE TypeOK'
  <2>1. mtx_' \in Writer \cup {"free"}
    BY <1>0, <1>7 DEF Fopen, Unlock, PlaceType
  <2>2. PlaceType'
    BY <1>7, <2>1, GoesType DEF Fopen, Place
  <2>3. FileType'
    BY <1>0, <1>7 DEF Fopen, FileType
  <2>4. QED
    BY <1>7, <2>2, <2>3, Frames, TypeSplit DEF Fopen
<1>8. ASSUME NEW w \in Writer, Line(w) PROVE TypeOK'
  <2>1. mtx_' \in Writer \cup {"free"}
    BY <1>0, <1>8 DEF Line, Lock, PlaceType
  <2>2. PlaceType'
    BY <1>8, <2>1, GoesType DEF Line, Place
  <2>3. RollType'
    BY <1>0, <1>8 DEF Line, RollType
  <2>4. QED
    BY <1>8, <2>2, <2>3, Frames, TypeSplit DEF Line
<1>9. ASSUME NEW w \in Writer, Queue(w) PROVE TypeOK'
  <2>1. mtx_' \in Writer \cup {"free"}
    BY <1>0, <1>9 DEF Queue, PlaceType
  <2>2. PlaceType'
    BY <1>9, <2>1, GoesType DEF Queue, Place
  <2>3. QueueType'
    BY <1>0, <1>9 DEF Queue, Q!CallPush, QueueType
  <2>4. RollType'
    BY <1>0, <1>9 DEF Queue, Counted, RollType
  <2>5. HistType'
    BY <1>0, <1>9 DEF Queue, Counted, HistType
  <2>6. QED
    BY <1>9, <2>2, <2>3, <2>4, <2>5, Frames, TypeSplit DEF Queue, Counted
<1>10. ASSUME NEW w \in Writer, PushBack(w) PROVE TypeOK'
  <2>1. mtx_' \in Writer \cup {"free"}
    BY <1>0, <1>10 DEF PushBack, Unlock, PlaceType
  <2>2. PlaceType'
    BY <1>10, <2>1, GoesType DEF PushBack, Place
  <2>3. QueueType'
    BY <1>0, <1>10 DEF PushBack, Q!PushBack, Q!NotifyConsumer, QueueType
  <2>4. HistType'
    BY <1>0, <1>10 DEF PushBack, HistType, QueueType
  <2>5. QED
    BY <1>10, <2>2, <2>3, <2>4, Frames, TypeSplit DEF PushBack
<1>11. ASSUME NEW w \in Writer, Direct(w) PROVE TypeOK'
  <2>1. mtx_' \in Writer \cup {"free"}
    BY <1>0, <1>11 DEF Direct, Unlock, PlaceType
  <2>2. PlaceType'
    BY <1>11, <2>1, GoesType DEF Direct, Place
  <2>3. RollType'
    BY <1>0, <1>11 DEF Direct, Counted, RollType
  <2>4. HistType'
    BY <1>0, <1>11 DEF Direct, Counted, HistType
  <2>5. QED
    BY <1>11, <2>2, <2>3, <2>4, Frames, TypeSplit DEF Direct, Counted
<1>12. ASSUME NEW w \in Writer, Flush(w) PROVE TypeOK'
  <2>1. mtx_' \in Writer \cup {"free"}
    BY <1>0, <1>12 DEF Flush, PlaceType
  <2>2. PlaceType'
    BY <1>12, <2>1, GoesType DEF Flush, Place
  <2>3. QueueType'
    BY <1>0, <1>12 DEF Flush, FlushQueue, Q!Flush, Q!NotifyConsumer, QueueType, queueVars
  <2>4. QED
    BY <1>12, <2>2, <2>3, Frames, TypeSplit DEF Flush
<1>13. ASSUME NEW w \in Writer, ReadFp(w) PROVE TypeOK'
  <2>1. mtx_' \in Writer \cup {"free"}
    BY <1>0, <1>13 DEF ReadFp, PlaceType
  <2>2. PlaceType'
    BY <1>13, <2>1, GoesType DEF ReadFp, Place
  <2>3. FileType'
    BY <1>0, <1>13 DEF ReadFp, FileType
  <2>4. QED
    BY <1>13, <2>2, <2>3, Frames, TypeSplit DEF ReadFp
<1>14. ASSUME NEW w \in Writer, Fflush(w) PROVE TypeOK'
  <2>1. mtx_' \in Writer \cup {"free"}
    BY <1>0, <1>14 DEF Fflush, PlaceType
  <2>2. PlaceType'
    BY <1>14, <2>1, GoesType DEF Fflush, Place
  <2>3. FileType'
    BY <1>0, <1>14 DEF Fflush, FileType
  <2>4. QED
    BY <1>14, <2>2, <2>3, Frames, TypeSplit DEF Fflush
<1>15. CASE PopStep
  <2>1. PlaceType'
    BY <1>0, <1>15 DEF PopStep, PlaceType
  <2>2. QueueType'
    BY <1>0, <1>15 DEF PopStep, Q!CallPop, Q!PopWait, Q!Pop, Q!PopFront, Q!PopClosed,
       Q!NotifyProducer, Q!Sleeping, QueueType
  <2>3. QED
    BY <1>15, <2>1, <2>2, Frames, TypeSplit DEF PopStep
<1>16. CASE Fputs
  <2>1. PlaceType'
    BY <1>0, <1>16 DEF Fputs, PlaceType
  <2>2. HistType'
    BY <1>0, <1>16 DEF Fputs, QueueType, HistType
  <2>3. QED
    BY <1>16, <2>1, <2>2, Frames, TypeSplit DEF Fputs
<1>17. CASE SpuriousWakeup
  <2>1. PlaceType'
    BY <1>0, <1>17 DEF SpuriousWakeup, PlaceType
  <2>2. QueueType'
    BY <1>0, <1>17 DEF SpuriousWakeup, Q!SpuriousWakeup, QueueType
  <2>3. QED
    BY <1>17, <2>1, <2>2, Frames, TypeSplit DEF SpuriousWakeup
<1>18. CASE DtorStart
  <2>1. PlaceType'
    BY <1>0, <1>18 DEF DtorStart, Ends, PlaceType
  <2>2. FileType'
    BY <1>0, <1>18 DEF DtorStart, Ends, FileType
  <2>3. QED
    BY <1>18, <2>1, <2>2, Frames, TypeSplit DEF DtorStart, Ends
<1>19. CASE DtorDrain
  <2>1. PlaceType'
    BY <1>0, <1>19 DEF DtorDrain, Ends, PlaceType
  <2>2. QueueType'
    BY <1>0, <1>19 DEF DtorDrain, Ends, Q!Flush, Q!NotifyConsumer, QueueType
  <2>3. FileType'
    BY <1>0, <1>19 DEF DtorDrain, Ends, FileType
  <2>4. QED
    BY <1>19, <2>1, <2>2, <2>3, Frames, TypeSplit DEF DtorDrain, Ends
<1>20. CASE DtorClose
  <2>1. PlaceType'
    BY <1>0, <1>20 DEF DtorClose, Ends, PlaceType
  <2>2. QueueType'
    BY <1>0, <1>20 DEF DtorClose, Ends, Q!Close, QueueType
  <2>3. FileType'
    BY <1>0, <1>20 DEF DtorClose, Ends, FileType
  <2>4. QED
    BY <1>20, <2>1, <2>2, <2>3, Frames, TypeSplit DEF DtorClose, Ends
<1>21. CASE DtorNotify
  <2>1. PlaceType'
    BY <1>0, <1>21 DEF DtorNotify, Ends, PlaceType
  <2>2. QueueType'
    BY <1>0, <1>21 DEF DtorNotify, Ends, Q!CloseNotifyProducers, Q!CloseNotifyConsumer,
       Q!NotifyConsumer, QueueType
  <2>3. FileType'
    BY <1>0, <1>21 DEF DtorNotify, Ends, FileType
  <2>4. QED
    BY <1>21, <2>1, <2>2, <2>3, Frames, TypeSplit DEF DtorNotify, Ends
<1>22. CASE DtorJoin
  <2>1. PlaceType'
    BY <1>0, <1>22 DEF DtorJoin, Ends, PlaceType
  <2>2. FileType'
    BY <1>0, <1>22 DEF DtorJoin, Ends, FileType
  <2>3. QED
    BY <1>22, <2>1, <2>2, Frames, TypeSplit DEF DtorJoin, Ends
<1>23. CASE DtorFclose
  <2>1. PlaceType'
    BY <1>0, <1>23 DEF DtorFclose, Ends, PlaceType
  <2>2. FileType'
    BY <1>0, <1>23 DEF DtorFclose, Ends, FileType
  <2>3. QueueType'
    BY <1>0, <1>23 DEF DtorFclose, FlushQueue, Q!Flush, Q!NotifyConsumer, QueueType,
       queueVars
  <2>4. QED
    BY <1>23, <2>1, <2>2, <2>3, Frames, TypeSplit DEF DtorFclose, Ends
<1>24. CASE Tick
  <2>1. PlaceType'
    BY <1>0, <1>24 DEF Tick, PlaceType
  <2>2. QED
    BY <1>24, <2>1, Frames, TypeSplit DEF Tick
<1>25. CASE UNCHANGED vars
  BY <1>0, <1>25, Frames, TypeSplit DEF vars, PlaceType
<1>26. QED
  BY <1>1, <1>2, <1>3, <1>4, <1>5, <1>6, <1>7, <1>8, <1>9, <1>10, <1>11, <1>12, <1>13,
     <1>14, <1>15, <1>16, <1>17, <1>18, <1>19, <1>20, <1>21, <1>22, <1>23, <1>24, <1>25
  DEF Next, WriterStep, AsyncWrite_, DtorStep, Ended

\* Every step preserves the ownership of mtx_.
LEMMA MutexStep == ASSUME TypeOK, MutexInv, [Next]_vars PROVE MutexInv'
<1> USE DEF TypeOK, MutexInv, Locked, queueVars, rollVars, fileVars, history
<1>1. ASSUME NEW w \in Writer, Call(w) PROVE MutexInv'
  BY <1>1, LogAssumption DEF Goes, Call
<1>2. ASSUME NEW w \in Writer, Check(w) PROVE MutexInv'
  BY <1>2, LogAssumption DEF Goes, Check
<1>3. ASSUME NEW w \in Writer, Roll(w) PROVE MutexInv'
  BY <1>3, LogAssumption DEF Goes, Roll
<1>4. ASSUME NEW w \in Writer, NewDay(w) PROVE MutexInv'
  BY <1>4, LogAssumption DEF Goes, NewDay, FirstCount
<1>5. ASSUME NEW w \in Writer, Reopen(w) PROVE MutexInv'
  BY <1>5, LogAssumption DEF Goes, Reopen, Lock, FlushQueue, Q!Flush, Q!NotifyConsumer
<1>6. ASSUME NEW w \in Writer, Fclose(w) PROVE MutexInv'
  BY <1>6, LogAssumption DEF Goes, Fclose
<1>7. ASSUME NEW w \in Writer, Fopen(w) PROVE MutexInv'
  BY <1>7, LogAssumption DEF Goes, Fopen, Unlock
<1>8. ASSUME NEW w \in Writer, Line(w) PROVE MutexInv'
  BY <1>8, LogAssumption DEF Goes, Line, Lock
<1>9. ASSUME NEW w \in Writer, Queue(w) PROVE MutexInv'
  BY <1>9, LogAssumption DEF Goes, Queue, Counted, full, Q!CallPush
<1>10. ASSUME NEW w \in Writer, PushBack(w) PROVE MutexInv'
  BY <1>10, LogAssumption DEF Goes, PushBack, Unlock, Q!PushBack, Q!NotifyConsumer
<1>11. ASSUME NEW w \in Writer, Direct(w) PROVE MutexInv'
  BY <1>11, LogAssumption DEF Goes, Direct, Counted, Unlock
<1>12. ASSUME NEW w \in Writer, Flush(w) PROVE MutexInv'
  BY <1>12, LogAssumption DEF Goes, Flush, FlushQueue, Q!Flush, Q!NotifyConsumer
<1>13. ASSUME NEW w \in Writer, ReadFp(w) PROVE MutexInv'
  BY <1>13, LogAssumption DEF Goes, ReadFp
<1>14. ASSUME NEW w \in Writer, Fflush(w) PROVE MutexInv'
  BY <1>14, LogAssumption DEF Goes, Fflush
<1>15. CASE PopStep
  BY <1>15, LogAssumption DEF PopStep, Q!CallPop, Q!PopWait, Q!Pop, Q!PopFront,
     Q!AtTest, Q!PopClosed, Q!NotifyProducer, Q!Sleeping
<1>16. CASE Fputs
  BY <1>16, LogAssumption DEF Fputs
<1>17. CASE SpuriousWakeup
  BY <1>17, LogAssumption DEF SpuriousWakeup, Q!SpuriousWakeup
<1>18. CASE DtorStart
  BY <1>18, LogAssumption DEF DtorStart, Ends
<1>19. CASE DtorDrain
  BY <1>19, LogAssumption DEF DtorDrain, Ends, Q!Flush, Q!NotifyConsumer
<1>20. CASE DtorClose
  BY <1>20, LogAssumption DEF DtorClose, Ends, Drained, Q!Close
<1>21. CASE DtorNotify
  BY <1>21, LogAssumption DEF DtorNotify, Ends, Q!CloseNotifyProducers,
     Q!CloseNotifyConsumer, Q!NotifyConsumer
<1>22. CASE DtorJoin
  BY <1>22, LogAssumption DEF DtorJoin, Ends
<1>23. CASE DtorFclose
  BY <1>23, LogAssumption DEF DtorFclose, Ends, FlushQueue, Q!Flush, Q!NotifyConsumer
<1>24. CASE Tick
  BY <1>24, LogAssumption DEF Tick
<1>25. CASE UNCHANGED vars
  BY <1>25, LogAssumption DEF vars
<1>26. QED
  BY <1>1, <1>2, <1>3, <1>4, <1>5, <1>6, <1>7, <1>8, <1>9, <1>10, <1>11, <1>12, <1>13,
     <1>14, <1>15, <1>16, <1>17, <1>18, <1>19, <1>20, <1>21, <1>22, <1>23, <1>24, <1>25
  DEF Next, WriterStep, AsyncWrite_, DtorStep, Ended

\* Every step preserves what is known of the writers in push_back.
LEMMA PushStep == ASSUME SInv, [Next]_vars PROVE PushInv'
<1> USE DEF SInv, TypeOK, MutexInv, PushInv, Locked, queueVars, rollVars, fileVars,
history
<1>1. ASSUME NEW w \in Writer, Call(w) PROVE PushInv'
  BY <1>1, LogAssumption DEF Goes, Call
<1>2. ASSUME NEW w \in Writer, Check(w) PROVE PushInv'
  BY <1>2, LogAssumption DEF Goes, Check
<1>3. ASSUME NEW w \in Writer, Roll(w) PROVE PushInv'
  BY <1>3, LogAssumption DEF Goes, Roll
<1>4. ASSUME NEW w \in Writer, NewDay(w) PROVE PushInv'
  BY <1>4, LogAssumption DEF Goes, NewDay, FirstCount
<1>5. ASSUME NEW w \in Writer, Reopen(w) PROVE PushInv'
  BY <1>5, LogAssumption DEF Goes, Reopen, Lock, FlushQueue, Q!Flush, Q!NotifyConsumer
<1>6. ASSUME NEW w \in Writer, Fclose(w) PROVE PushInv'
  BY <1>6, LogAssumption DEF Goes, Fclose
<1>7. ASSUME NEW w \in Writer, Fopen(w) PROVE PushInv'
  BY <1>7, LogAssumption DEF Goes, Fopen, Unlock
<1>8. ASSUME NEW w \in Writer, Line(w) PROVE PushInv'
  BY <1>8, LogAssumption DEF Goes, Line, Lock
<1>9. ASSUME NEW w \in Writer, Queue(w) PROVE PushInv'
  BY <1>9, LogAssumption DEF Goes, Queue, Counted, full, Q!CallPush
<1>10. ASSUME NEW w \in Writer, PushBack(w) PROVE PushInv'
  BY <1>10, LogAssumption DEF Goes, PushBack, Unlock, Q!PushBack, Q!NotifyConsumer
<1>11. ASSUME NEW w \in Writer, Direct(w) PROVE PushInv'
  BY <1>11, LogAssumption DEF Goes, Direct, Counted, Unlock
<1>12. ASSUME NEW w \in Writer, Flush(w) PROVE PushInv'
  BY <1>12, LogAssumption DEF Goes, Flush, FlushQueue, Q!Flush, Q!NotifyConsumer
<1>13. ASSUME NEW w \in Writer, ReadFp(w) PROVE PushInv'
  BY <1>13, LogAssumption DEF Goes, ReadFp
<1>14. ASSUME NEW w \in Writer, Fflush(w) PROVE PushInv'
  BY <1>14, LogAssumption DEF Goes, Fflush
<1>15. CASE PopStep
  <2>1. Q!Sleeping = {} /\ pc' = pc
    BY <1>15 DEF PopStep, Q!Sleeping
  <2>2. UNCHANGED producer
    BY <1>15, <2>1 DEF PopStep, Q!CallPop, Q!PopWait, Q!Pop, Q!PopClosed, Q!NotifyProducer
  <2>3. Len(deq_') =< Len(deq_)
    BY <1>15 DEF PopStep, Q!CallPop, Q!PopWait, Q!Pop, Q!PopFront, Q!PopClosed
  <2>4. deq_' \in Seq(Writer)
    BY TypeStep
  <2>5. QED
    BY <2>1, <2>2, <2>3, <2>4, LogAssumption
<1>16. CASE Fputs
  BY <1>16, LogAssumption DEF Fputs
<1>17. CASE SpuriousWakeup
  BY <1>17, LogAssumption DEF SpuriousWakeup, Q!SpuriousWakeup
<1>18. CASE DtorStart
  BY <1>18, LogAssumption DEF DtorStart, Ends
<1>19. CASE DtorDrain
  BY <1>19, LogAssumption DEF DtorDrain, Ends, Q!Flush, Q!NotifyConsumer
<1>20. CASE DtorClose
  BY <1>20, LogAssumption DEF DtorClose, Ends, Drained, Q!Close
<1>21. CASE DtorNotify
  BY <1>21, LogAssumption DEF DtorNotify, Ends, Q!CloseNotifyProducers,
     Q!CloseNotifyConsumer, Q!NotifyConsumer
<1>22. CASE DtorJoin
  BY <1>22, LogAssumption DEF DtorJoin, Ends
<1>23. CASE DtorFclose
  BY <1>23, LogAssumption DEF DtorFclose, Ends, FlushQueue, Q!Flush, Q!NotifyConsumer
<1>24. CASE Tick
  BY <1>24, LogAssumption DEF Tick
<1>25. CASE UNCHANGED vars
  BY <1>25, LogAssumption DEF vars
<1>26. QED
  BY <1>1, <1>2, <1>3, <1>4, <1>5, <1>6, <1>7, <1>8, <1>9, <1>10, <1>11, <1>12, <1>13,
     <1>14, <1>15, <1>16, <1>17, <1>18, <1>19, <1>20, <1>21, <1>22, <1>23, <1>24, <1>25
  DEF Next, WriterStep, AsyncWrite_, DtorStep, Ended

\* Every step preserves what is known of the stream.
LEMMA ClosedStep == ASSUME SInv, [Next]_vars PROVE ClosedInv'
<1> USE DEF SInv, TypeOK, ClosedInv, MutexInv, Locked, queueVars, rollVars, fileVars,
history
<1>1. ASSUME NEW w \in Writer, Call(w) PROVE ClosedInv'
  BY <1>1, LogAssumption DEF Goes, Call
<1>2. ASSUME NEW w \in Writer, Check(w) PROVE ClosedInv'
  BY <1>2, LogAssumption DEF Goes, Check
<1>3. ASSUME NEW w \in Writer, Roll(w) PROVE ClosedInv'
  <2>1. UNCHANGED <<closed, dtor>> /\ pc[w] = "roll"
    BY <1>3 DEF Goes, Roll
  <2>2. \A u \in Writer : pc[u] = "fopen" => pc'[u] = "fopen"
    BY <1>3, <2>1 DEF Goes, Roll
  <2> QED  BY <2>1, <2>2
<1>4. ASSUME NEW w \in Writer, NewDay(w) PROVE ClosedInv'
  BY <1>4, LogAssumption DEF Goes, NewDay, FirstCount
<1>5. ASSUME NEW w \in Writer, Reopen(w) PROVE ClosedInv'
  BY <1>5, LogAssumption DEF Goes, Reopen, Lock, FlushQueue, Q!Flush, Q!NotifyConsumer
<1>6. ASSUME NEW w \in Writer, Fclose(w) PROVE ClosedInv'
  BY <1>6, LogAssumption DEF Goes, Fclose
<1>7. ASSUME NEW w \in Writer, Fopen(w) PROVE ClosedInv'
  BY <1>7, LogAssumption DEF Goes, Fopen, Unlock
<1>8. ASSUME NEW w \in Writer, Line(w) PROVE ClosedInv'
  BY <1>8, LogAssumption DEF Goes, Line, Lock
<1>9. ASSUME NEW w \in Writer, Queue(w) PROVE ClosedInv'
  BY <1>9, LogAssumption DEF Goes, Queue, Counted, full, Q!CallPush
<1>10. ASSUME NEW w \in Writer, PushBack(w) PROVE ClosedInv'
  BY <1>10, LogAssumption DEF Goes, PushBack, Unlock, Q!PushBack, Q!NotifyConsumer
<1>11. ASSUME NEW w \in Writer, Direct(w) PROVE ClosedInv'
  BY <1>11, LogAssumption DEF Goes, Direct, Counted, Unlock
<1>12. ASSUME NEW w \in Writer, Flush(w) PROVE ClosedInv'
  BY <1>12, LogAssumption DEF Goes, Flush, FlushQueue, Q!Flush, Q!NotifyConsumer
<1>13. ASSUME NEW w \in Writer, ReadFp(w) PROVE ClosedInv'
  BY <1>13, LogAssumption DEF Goes, ReadFp
<1>14. ASSUME NEW w \in Writer, Fflush(w) PROVE ClosedInv'
  BY <1>14, LogAssumption DEF Goes, Fflush
<1>15. CASE PopStep
  BY <1>15, LogAssumption DEF PopStep, Q!CallPop, Q!PopWait, Q!Pop, Q!PopFront,
     Q!AtTest, Q!PopClosed, Q!NotifyProducer, Q!Sleeping
<1>16. CASE Fputs
  BY <1>16, LogAssumption DEF Fputs
<1>17. CASE SpuriousWakeup
  BY <1>17, LogAssumption DEF SpuriousWakeup, Q!SpuriousWakeup
<1>18. CASE DtorStart
  BY <1>18, LogAssumption DEF DtorStart, Ends
<1>19. CASE DtorDrain
  BY <1>19, LogAssumption DEF DtorDrain, Ends, Q!Flush, Q!NotifyConsumer
<1>20. CASE DtorClose
  BY <1>20, LogAssumption DEF DtorClose, Ends, Drained, Q!Close
<1>21. CASE DtorNotify
  BY <1>21, LogAssumption DEF DtorNotify, Ends, Q!CloseNotifyProducers,
     Q!CloseNotifyConsumer, Q!NotifyConsumer
<1>22. CASE DtorJoin
  BY <1>22, LogAssumption DEF DtorJoin, Ends
<1>23. CASE DtorFclose
  BY <1>23, LogAssumption DEF DtorFclose, Ends, FlushQueue, Q!Flush, Q!NotifyConsumer
<1>24. CASE Tick
  BY <1>24, LogAssumption DEF Tick
<1>25. CASE UNCHANGED vars
  BY <1>25, LogAssumption DEF vars
<1>26. QED
  BY <1>1, <1>2, <1>3, <1>4, <1>5, <1>6, <1>7, <1>8, <1>9, <1>10, <1>11, <1>12, <1>13,
     <1>14, <1>15, <1>16, <1>17, <1>18, <1>19, <1>20, <1>21, <1>22, <1>23, <1>24, <1>25
  DEF Next, WriterStep, AsyncWrite_, DtorStep, Ended

\* Every step preserves what is known of the destructor.
LEMMA DtorStepInv == ASSUME SInv, [Next]_vars PROVE DtorInv'
<1> USE DEF SInv, TypeOK, DtorInv, PushInv, queueVars, rollVars, fileVars, history
<1>1. ASSUME NEW w \in Writer, Call(w) PROVE DtorInv'
  BY <1>1, LogAssumption DEF Goes, Call
<1>2. ASSUME NEW w \in Writer, Check(w) PROVE DtorInv'
  BY <1>2, LogAssumption DEF Goes, Check
<1>3. ASSUME NEW w \in Writer, Roll(w) PROVE DtorInv'
  BY <1>3, LogAssumption DEF Goes, Roll
<1>4. ASSUME NEW w \in Writer, NewDay(w) PROVE DtorInv'
  BY <1>4, LogAssumption DEF Goes, NewDay, FirstCount
<1>5. ASSUME NEW w \in Writer, Reopen(w) PROVE DtorInv'
  BY <1>5, LogAssumption DEF Goes, Reopen, Lock, FlushQueue, Q!Flush, Q!NotifyConsumer
<1>6. ASSUME NEW w \in Writer, Fclose(w) PROVE DtorInv'
  BY <1>6, LogAssumption DEF Goes, Fclose
<1>7. ASSUME NEW w \in Writer, Fopen(w) PROVE DtorInv'
  BY <1>7, LogAssumption DEF Goes, Fopen, Unlock
<1>8. ASSUME NEW w \in Writer, Line(w) PROVE DtorInv'
  BY <1>8, LogAssumption DEF Goes, Line, Lock
<1>9. ASSUME NEW w \in Writer, Queue(w) PROVE DtorInv'
  BY <1>9, LogAssumption DEF Goes, Queue, Counted, full, Q!CallPush
<1>10. ASSUME NEW w \in Writer, PushBack(w) PROVE DtorInv'
  BY <1>10, LogAssumption DEF Goes, PushBack, Unlock, Q!PushBack, Q!NotifyConsumer
<1>11. ASSUME NEW w \in Writer, Direct(w) PROVE DtorInv'
  BY <1>11, LogAssumption DEF Goes, Direct, Counted, Unlock
<1>12. ASSUME NEW w \in Writer, Flush(w) PROVE DtorInv'
  BY <1>12, LogAssumption DEF Goes, Flush, FlushQueue, Q!Flush, Q!NotifyConsumer
<1>13. ASSUME NEW w \in Writer, ReadFp(w) PROVE DtorInv'
  BY <1>13, LogAssumption DEF Goes, ReadFp
<1>14. ASSUME NEW w \in Writer, Fflush(w) PROVE DtorInv'
  BY <1>14, LogAssumption DEF Goes, Fflush
<1>15. CASE PopStep
  BY <1>15, LogAssumption DEF PopStep, Q!CallPop, Q!PopWait, Q!Pop, Q!PopFront,
     Q!AtTest, Q!PopClosed, Q!NotifyProducer, Q!Sleeping
<1>16. CASE Fputs
  BY <1>16, LogAssumption DEF Fputs
<1>17. CASE SpuriousWakeup
  BY <1>17, LogAssumption DEF SpuriousWakeup, Q!SpuriousWakeup
<1>18. CASE DtorStart
  BY <1>18, LogAssumption DEF DtorStart, Ends
<1>19. CASE DtorDrain
  BY <1>19, LogAssumption DEF DtorDrain, Ends, Q!Flush, Q!NotifyConsumer
<1>20. CASE DtorClose
  BY <1>20, LogAssumption DEF DtorClose, Ends, Drained, Q!Close
<1>21. CASE DtorNotify
  BY <1>21, LogAssumption DEF DtorNotify, Ends, Q!CloseNotifyProducers,
     Q!CloseNotifyConsumer, Q!NotifyConsumer
<1>22. CASE DtorJoin
  BY <1>22, LogAssumption DEF DtorJoin, Ends
<1>23. CASE DtorFclose
  BY <1>23, LogAssumption DEF DtorFclose, Ends, FlushQueue, Q!Flush, Q!NotifyConsumer
<1>24. CASE Tick
  BY <1>24, LogAssumption DEF Tick
<1>25. CASE UNCHANGED vars
  BY <1>25, LogAssumption DEF vars
<1>26. QED
  BY <1>1, <1>2, <1>3, <1>4, <1>5, <1>6, <1>7, <1>8, <1>9, <1>10, <1>11, <1>12, <1>13,
     <1>14, <1>15, <1>16, <1>17, <1>18, <1>19, <1>20, <1>21, <1>22, <1>23, <1>24, <1>25
  DEF Next, WriterStep, AsyncWrite_, DtorStep, Ended

\* Every step preserves the control invariant.
LEMMA SafeStep == SInv /\ [Next]_vars => SInv'
BY TypeStep, MutexStep, PushStep, ClosedStep, DtorStepInv DEF SInv

-----------------------------------------------------------------------------
(* The records.                                                            *)

\* Taking the head of the queue into the hand leaves the stream as it was.
LEMMA TakeHead ==
    ASSUME NEW S, NEW w \in Seq(S), NEW q \in Seq(S), q # <<>>
    PROVE  w \o <<>> \o q = w \o <<Head(q)>> \o Tail(q)
<1>1. q = <<Head(q)>> \o Tail(q)
  BY HeadTailProperties, SMT
<1>2. Head(q) \in S /\ Tail(q) \in Seq(S)
  BY HeadTailProperties
<1>3. w \o <<>> = w
  BY EmptySeq, ConcatEmptySeq
<1>4. w \o (<<Head(q)>> \o Tail(q)) = w \o <<Head(q)>> \o Tail(q)
  BY <1>2, SMT
<1>5. QED
  BY <1>1, <1>3, <1>4, Zenon

\* Appending to the queue appends to the stream.
LEMMA AppendTail ==
    ASSUME NEW w \in Seq(Writer), NEW h \in Seq(Writer),
           NEW q \in Seq(Writer), NEW e \in Writer
    PROVE  Append(w \o h \o q, e) = w \o h \o Append(q, e)
<1>1. w \o h \in Seq(Writer) /\ <<e>> \in Seq(Writer)
  OBVIOUS
<1>2. w \o h \o q \in Seq(Writer)
  BY <1>1
<1>3. Append(w \o h \o q, e) = w \o h \o q \o <<e>>
  BY <1>2, AppendIsConcat
<1>4. Append(q, e) = q \o <<e>>
  BY AppendIsConcat
<1>5. w \o h \o q \o <<e>> = w \o h \o (q \o <<e>>)
  BY <1>1, SMT
<1>6. QED
  BY <1>3, <1>4, <1>5, Zenon

\* Putting what is held appends it to what was put.
LEMMA PutHeld ==
    ASSUME NEW S, NEW w \in Seq(S), NEW q \in Seq(S), NEW e \in S
    PROVE  w \o <<e>> \o q = Append(w, e) \o <<>> \o q
BY SMT

\* The stream of queued records, split as NothingLost says.
Stream == pushed = written \o Held \o deq_

\* Every step preserves it.
LEMMA StreamStep == ASSUME SInv, Stream, [Next]_vars PROVE Stream'
<1> USE DEF queueVars, history
<1>0. deq_ \in Seq(Writer) /\ written \in Seq(Writer) /\ Held \in Seq(Writer)
      /\ got \in Writer /\ item \in [Writer -> Writer]
  BY DEF SInv, TypeOK, Held
<1>1. ASSUME NEW w \in Writer, Call(w) PROVE Stream'
  BY <1>1 DEF Stream, Held, Goes, Call
<1>2. ASSUME NEW w \in Writer, Check(w) PROVE Stream'
  BY <1>2 DEF Stream, Held, Goes, Check
<1>3. ASSUME NEW w \in Writer, Roll(w) PROVE Stream'
  BY <1>3 DEF Stream, Held, Goes, Roll
<1>4. ASSUME NEW w \in Writer, NewDay(w) PROVE Stream'
  BY <1>4 DEF Stream, Held, Goes, NewDay
<1>5. ASSUME NEW w \in Writer, Reopen(w) PROVE Stream'
  BY <1>5 DEF Stream, Held, Goes, Reopen, FlushQueue, Q!Flush
<1>6. ASSUME NEW w \in Writer, Fclose(w) PROVE Stream'
  BY <1>6 DEF Stream, Held, Goes, Fclose
<1>7. ASSUME NEW w \in Writer, Fopen(w) PROVE Stream'
  BY <1>7 DEF Stream, Held, Goes, Fopen
<1>8. ASSUME NEW w \in Writer, Line(w) PROVE Stream'
  BY <1>8 DEF Stream, Held, Goes, Line
<1>9. ASSUME NEW w \in Writer, Flush(w) PROVE Stream'
  BY <1>9 DEF Stream, Held, Goes, Flush, FlushQueue, Q!Flush
<1>10. ASSUME NEW w \in Writer, ReadFp(w) PROVE Stream'
  BY <1>10 DEF Stream, Held, Goes, ReadFp
<1>11. ASSUME NEW w \in Writer, Fflush(w) PROVE Stream'
  BY <1>11 DEF Stream, Held, Goes, Fflush
<1>12. ASSUME NEW w \in Writer, Queue(w) PROVE Stream'
  BY <1>12 DEF Stream, Held, Goes, Queue, Counted, Q!CallPush
<1>13. ASSUME NEW w \in Writer, Direct(w) PROVE Stream'
  BY <1>13 DEF Stream, Held, Goes, Direct, Counted
<1>14. ASSUME NEW w \in Writer, PushBack(w) PROVE Stream'
  <2>1. pushed' = Append(written \o Held \o deq_, item[w])
    BY <1>14 DEF PushBack, Stream
  <2>2. deq_' = Append(deq_, item[w]) /\ written' = written /\ Held' = Held
    BY <1>14 DEF PushBack, Goes, Q!PushBack, Held
  <2>3. Append(written \o Held \o deq_, item[w])
          = written \o Held \o Append(deq_, item[w])
    <3>1. item[w] \in Writer
      BY <1>0
    <3>2. \A h \in Seq(Writer), q \in Seq(Writer), e \in Writer :
             Append(written \o h \o q, e) = written \o h \o Append(q, e)
      BY <1>0, AppendTail
    <3>3. QED
      BY <1>0, <3>1, <3>2, Zenon
  <2>4. QED
    BY <2>1, <2>2, <2>3, Zenon DEF Stream
<1>15. CASE PopStep
  <2>1. CASE Q!Pop /\ writing' = "puts"
    <3>1. Held = <<>> /\ Held' = <<Head(deq_)>> /\ deq_' = Tail(deq_) /\ deq_ # <<>>
      BY <1>15, <2>1 DEF PopStep, Q!Pop, Q!PopFront, Held
    <3>2. written' = written /\ pushed' = pushed
      BY <1>15 DEF PopStep
    <3>3. written \o <<>> \o deq_ = written \o <<Head(deq_)>> \o Tail(deq_)
      BY <1>0, <3>1, TakeHead
    <3>4. QED
      BY <3>1, <3>2, <3>3, Zenon DEF Stream
  <2>2. CASE ~(Q!Pop /\ writing' = "puts")
    BY <1>15, <2>2 DEF PopStep, Q!CallPop, Q!PopWait, Q!PopClosed, Stream, Held
  <2>3. QED
    BY <2>1, <2>2
<1>16. CASE Fputs
  <2>1. Held = <<got>> /\ Held' = <<>> /\ written' = Append(written, got)
    BY <1>16 DEF Fputs, Held
  <2>2. deq_' = deq_ /\ pushed' = pushed
    BY <1>16 DEF Fputs
  <2>3. written \o <<got>> \o deq_ = Append(written, got) \o <<>> \o deq_
    BY <1>0, PutHeld
  <2>4. QED
    BY <2>1, <2>2, <2>3, Zenon DEF Stream
<1>17. CASE SpuriousWakeup
  BY <1>17 DEF Stream, Held, SpuriousWakeup, Q!SpuriousWakeup
<1>18. CASE DtorStart
  BY <1>18 DEF Stream, Held, DtorStart, Ends
<1>19. CASE DtorDrain
  BY <1>19 DEF Stream, Held, DtorDrain, Ends, Q!Flush
<1>20. CASE DtorClose
  BY <1>20 DEF Stream, Held, DtorClose, Ends, Drained, Q!Close
<1>21. CASE DtorNotify
  BY <1>21 DEF Stream, Held, DtorNotify, Ends, Q!CloseNotifyProducers,
     Q!CloseNotifyConsumer
<1>22. CASE DtorJoin
  BY <1>22 DEF Stream, Held, DtorJoin, Ends
<1>23. CASE DtorFclose
  BY <1>23 DEF Stream, Held, DtorFclose, Ends, FlushQueue, Q!Flush
<1>24. CASE Tick
  BY <1>24 DEF Stream, Held, Tick
<1>25. CASE UNCHANGED vars
  BY <1>25 DEF Stream, Held, vars
<1>26. QED
  BY <1>1, <1>2, <1>3, <1>4, <1>5, <1>6, <1>7, <1>8, <1>9, <1>10, <1>11, <1>12, <1>13,
     <1>14, <1>15, <1>16, <1>17, <1>18, <1>19, <1>20, <1>21, <1>22, <1>23, <1>24, <1>25
  DEF Next, WriterStep, AsyncWrite_, DtorStep, Ended

\* Some writer is in push_back.
Pushing == \E w \in Writer : pc[w] = "push"

\* The count of lines, as NothingLost says.
Count == lines = Len(pushed) + direct + (IF Pushing THEN 1 ELSE 0)

\* Every step preserves it: at most one writer is in push_back.
LEMMA CountStep == ASSUME SInv, Count, [Next]_vars PROVE Count'
<1> USE DEF history
<1>0. /\ pc \in [Writer -> Place] /\ pushed \in Seq(Writer)
      /\ lines \in Nat /\ direct \in Nat
  BY DEF SInv, TypeOK
<1>1. ASSUME NEW w \in Writer, Call(w) PROVE Count'
  <2>1. Pushing' <=> Pushing
    BY <1>0, <1>1 DEF Pushing, Goes, Call
  <2>2. QED
    BY <1>1, <2>1 DEF Count, Call
<1>2. ASSUME NEW w \in Writer, Check(w) PROVE Count'
  <2>1. Pushing' <=> Pushing
    BY <1>0, <1>2 DEF Pushing, Goes, Check
  <2>2. QED
    BY <1>2, <2>1 DEF Count, Check
<1>3. ASSUME NEW w \in Writer, Roll(w) PROVE Count'
  <2>1. Pushing' <=> Pushing
    BY <1>0, <1>3 DEF Pushing, Goes, Roll
  <2>2. QED
    BY <1>3, <2>1 DEF Count, Roll
<1>4. ASSUME NEW w \in Writer, NewDay(w) PROVE Count'
  <2>1. Pushing' <=> Pushing
    BY <1>0, <1>4 DEF Pushing, Goes, NewDay
  <2>2. QED
    BY <1>4, <2>1 DEF Count, NewDay
<1>5. ASSUME NEW w \in Writer, Reopen(w) PROVE Count'
  <2>1. Pushing' <=> Pushing
    BY <1>0, <1>5 DEF Pushing, Goes, Reopen
  <2>2. QED
    BY <1>5, <2>1 DEF Count, Reopen
<1>6. ASSUME NEW w \in Writer, Fclose(w) PROVE Count'
  <2>1. Pushing' <=> Pushing
    BY <1>0, <1>6 DEF Pushing, Goes, Fclose
  <2>2. QED
    BY <1>6, <2>1 DEF Count, Fclose
<1>7. ASSUME NEW w \in Writer, Fopen(w) PROVE Count'
  <2>1. Pushing' <=> Pushing
    BY <1>0, <1>7 DEF Pushing, Goes, Fopen
  <2>2. QED
    BY <1>7, <2>1 DEF Count, Fopen
<1>8. ASSUME NEW w \in Writer, Line(w) PROVE Count'
  <2>1. Pushing' <=> Pushing
    BY <1>0, <1>8 DEF Pushing, Goes, Line
  <2>2. QED
    BY <1>8, <2>1 DEF Count, Line
<1>9. ASSUME NEW w \in Writer, Flush(w) PROVE Count'
  <2>1. Pushing' <=> Pushing
    BY <1>0, <1>9 DEF Pushing, Goes, Flush
  <2>2. QED
    BY <1>9, <2>1 DEF Count, Flush
<1>10. ASSUME NEW w \in Writer, ReadFp(w) PROVE Count'
  <2>1. Pushing' <=> Pushing
    BY <1>0, <1>10 DEF Pushing, Goes, ReadFp
  <2>2. QED
    BY <1>10, <2>1 DEF Count, ReadFp
<1>11. ASSUME NEW w \in Writer, Fflush(w) PROVE Count'
  <2>1. Pushing' <=> Pushing
    BY <1>0, <1>11 DEF Pushing, Goes, Fflush
  <2>2. QED
    BY <1>11, <2>1 DEF Count, Fflush
<1>12. ASSUME NEW w \in Writer, Queue(w) PROVE Count'
  <2>1. ~Pushing
    BY <1>0, <1>12 DEF SInv, MutexInv, Locked, Pushing, Goes, Queue
  <2>2. Pushing'
    BY <1>0, <1>12 DEF Pushing, Goes, Queue
  <2>3. QED
    BY <1>0, <1>12, <2>1, <2>2 DEF Count, Queue, Counted
<1>13. ASSUME NEW w \in Writer, PushBack(w) PROVE Count'
  <2>1. Pushing
    BY <1>13 DEF Pushing, Goes, PushBack
  <2>2. ~Pushing'
    BY <1>0, <1>13 DEF SInv, MutexInv, Locked, Pushing, Goes, PushBack
  <2>3. Len(pushed') = Len(pushed) + 1
    BY <1>0, <1>13 DEF SInv, TypeOK, PushBack
  <2>4. QED
    BY <1>0, <1>13, <2>1, <2>2, <2>3 DEF Count, PushBack
<1>14. ASSUME NEW w \in Writer, Direct(w) PROVE Count'
  <2>1. Pushing' <=> Pushing
    BY <1>0, <1>14 DEF Pushing, Goes, Direct
  <2>2. QED
    BY <1>0, <1>14, <2>1 DEF Count, Direct, Counted
<1>15. ASSUME UNCHANGED <<pc, lines, pushed, direct>> PROVE Count'
  BY <1>15 DEF Count, Pushing
<1>16. QED
  BY <1>1, <1>2, <1>3, <1>4, <1>5, <1>6, <1>7, <1>8, <1>9, <1>10, <1>11, <1>12, <1>13,
     <1>14, <1>15
  DEF Next, WriterStep, AsyncWrite_, DtorStep, Ended, PopStep, Fputs, SpuriousWakeup,
      DtorStart, DtorDrain, DtorClose, DtorNotify, DtorJoin, DtorFclose, Ends, Tick, vars

-----------------------------------------------------------------------------
(* The results.                                                            *)

\* The inductive invariant holds in every state.
THEOREM Inductive == Spec => []IInv
<1>1. NothingLost <=> Stream /\ Count
  BY Zenon DEF NothingLost, Stream, Count, Pushing
<1>2. Init => IInv
  <2> SUFFICES ASSUME Init PROVE IInv
    OBVIOUS
  <2>1. Held = <<>> /\ deq_ = <<>> /\ written = <<>> /\ pushed = <<>>
    BY DEF Init, Q!Init, Held
  <2>2. Stream
    BY <2>1, EmptySeq, ConcatEmptySeq DEF Stream
  <2>3. Count
    BY DEF Init, Count, Pushing
  <2>4. QED
    BY <1>1, <2>2, <2>3, SafeInit DEF IInv
<1>3. IInv /\ [Next]_vars => IInv'
  <2>1. NothingLost' <=> Stream' /\ Count'
    BY Zenon DEF NothingLost, Stream, Count, Pushing
  <2>2. QED
    BY <1>1, <2>1, SafeStep, StreamStep, CountStep DEF IInv
<1>4. QED
  BY <1>2, <1>3, PTL DEF Spec

(***************************************************************************)
(* push_back never finds the queue full while write holds mtx_, for any    *)
(* capacity and any number of threads: the log cannot deadlock there.      *)
(***************************************************************************)
THEOREM PushCorrect == Spec => []PushNeverWaits
<1>1. IInv => PushNeverWaits
  BY DEF IInv, SInv, PushInv, PushNeverWaits
<1>2. QED
  BY <1>1, Inductive, PTL

\* No counted record is lost or put twice, and queued ones keep their order.
THEOREM RecordsCorrect == Spec => []NothingLost
<1>1. IInv => NothingLost
  BY DEF IInv
<1>2. QED
  BY <1>1, Inductive, PTL

\* No record is put into a stream that write has closed to open the next.
THEOREM StreamCorrect == Spec => []StreamOpen
<1>1. IInv => StreamOpen
  BY LogAssumption DEF IInv, SInv, TypeOK, MutexInv, Locked, ClosedInv, DtorInv,
     StreamOpen
<1>2. QED
  BY <1>1, Inductive, PTL

\* When ~Log has returned every record has been put.
THEOREM ExitCorrect == Spec => []PutAtExit
<1>1. IInv => PutAtExit
  <2> SUFFICES ASSUME IInv, dtor = "done" PROVE Len(written) + direct = lines
    BY DEF PutAtExit
  <2>1. deq_ = <<>> /\ Held = <<>> /\ ~\E w \in Writer : pc[w] = "push"
    BY DEF IInv, SInv, DtorInv, Held
  <2>2. written \in Seq(Writer) /\ lines \in Nat /\ direct \in Nat
    BY DEF IInv, SInv, TypeOK
  <2>3. pushed = written
    BY <2>1, <2>2, ConcatEmptySeq DEF IInv, NothingLost
  <2>4. lines = Len(pushed) + direct + 0
    BY <2>1 DEF IInv, NothingLost
  <2>5. QED
    BY <2>2, <2>3, <2>4
<1>2. QED
  BY <1>1, Inductive, PTL

=============================================================================
