-------------------------- MODULE WorkerPoolProofs --------------------------
(***************************************************************************)
(* The two parts of the logging library, each for itself.                  *)
(*                                                                         *)
(* What AsyncWorker guarantees for any set of producers, any messages and  *)
(* any sizes: types, that the double buffer loses, repeats and reorders    *)
(* nothing, that the worker returns with everything flushed and, for sizes *)
(* that are adequate, that no write leaves a buffer.                       *)
(*                                                                         *)
(* What the thread pool guarantees for any number of clients and threads:  *)
(* an accepted task is in one place until it is run, the destructor leaves *)
(* no task behind, and no wakeup is lost.                                  *)
(***************************************************************************)
EXTENDS AsyncWorker, ThreadPool, SequenceTheorems, FiniteSetTheorems, TLAPS

-----------------------------------------------------------------------------
(* Facts about the buffer.                                                 *)

\* A fresh buffer and a reset one are buffers (the constructor and Reset).
LEMMA NewBufferType == NewBuffer \in Buffer
BY BufferAssumption DEF NewBuffer, Buffer

\* Buffer::Reset leaves a buffer.
LEMMA ResetType == ASSUME NEW b \in Buffer PROVE Reset(b) \in Buffer
<1>1. b.size \in Nat /\ <<>> \in Seq(Message)
  BY DEF Buffer
<1>2. QED
  BY <1>1 DEF Reset, Buffer

\* The conversion to int keeps a size that an int can hold.
LEMMA AsIntExact == ASSUME NEW n \in Nat, 2 * n < IntMod PROVE AsInt(n) = n
<1>1. n % IntMod = n
  BY BufferAssumption
<1>2. QED
  BY <1>1 DEF AsInt

\* Growing changes the size only, and a size that resize grants is a natural.
LEMMA ToBeEnoughType ==
    ASSUME NEW b \in Buffer, NEW len \in Nat, ~ResizeThrows(b, len)
    PROVE  /\ ToBeEnough(b, len) \in Buffer
           /\ ToBeEnough(b, len).write_pos = b.write_pos
           /\ ToBeEnough(b, len).items = b.items
<1>1. NeedsGrowth(b, len) => GrownSize(b) \in Nat
  BY BufferAssumption DEF ResizeThrows
<1>2. QED
  BY <1>1 DEF ToBeEnough, Buffer

\* Push appends its message and moves write_pos_ by the message's length.
LEMMA BufferPushEffect ==
    ASSUME NEW b \in Buffer, NEW m \in Message, ~ResizeThrows(b, MsgLen[m])
    PROVE  /\ BufferPush(b, m) \in Buffer
           /\ BufferPush(b, m).size = ToBeEnough(b, MsgLen[m]).size
           /\ BufferPush(b, m).write_pos = b.write_pos + MsgLen[m]
           /\ BufferPush(b, m).items = Append(b.items, m)
<1>1. MsgLen[m] \in Nat
  BY BufferAssumption
<1> DEFINE roomy == ToBeEnough(b, MsgLen[m])
<1>2. /\ roomy \in Buffer
      /\ roomy.write_pos = b.write_pos
      /\ roomy.items = b.items
  BY <1>1, ToBeEnoughType
<1>3. BufferPush(b, m) = [size      |-> roomy.size,
                          write_pos |-> b.write_pos + MsgLen[m],
                          items     |-> Append(b.items, m)]
  BY <1>2 DEF BufferPush
<1> HIDE DEF roomy
<1>4. /\ roomy.size \in Nat
      /\ b.write_pos + MsgLen[m] \in Nat
      /\ Append(b.items, m) \in Seq(Message)
  BY <1>1, <1>2 DEF Buffer
<1>5. QED
  BY <1>3, <1>4 DEF Buffer, roomy

-----------------------------------------------------------------------------
\* The initial state has the types.
LEMMA TypeInit == Init => TypeOK
<1> SUFFICES ASSUME Init PROVE TypeOK
  OBVIOUS
<1>1. NoData \in Message
  BY BufferAssumption DEF NoData
<1>2. data \in [Producer -> Message]
  BY <1>1 DEF Init
<1>3. caller \in [Producer -> CallerState]
  BY DEF Init, CallerState
<1>4. productor \in Buffer /\ consumer \in Buffer
  BY NewBufferType DEF Init
<1>5. calls \in 0 .. MaxCalls
  BY WorkerAssumption DEF Init
<1>6. pushed \in Seq(Message) /\ flushed \in Seq(Message)
  BY DEF Init
<1>7. QED
  BY <1>2, <1>3, <1>4, <1>5, <1>6 DEF Init, TypeOK, WorkerState

\* Each step of Push, Stop and ThreadEntry keeps them.
LEMMA TypeStep == TypeOK /\ [Next]_vars => TypeOK'
<1> SUFFICES ASSUME TypeOK, [Next]_vars PROVE TypeOK'
  OBVIOUS
<1> USE DEF TypeOK, CallerState, WorkerState
<1>1. CASE FinishConstructor
  BY <1>1 DEF FinishConstructor
<1>2. ASSUME NEW p \in Producer, NEW m \in Message, CallPush(p, m)
      PROVE  TypeOK'
  BY <1>2, WorkerAssumption DEF CallPush
<1>3. ASSUME NEW p \in Producer, WaitForRoom(p) PROVE TypeOK'
  BY <1>3 DEF WaitForRoom
<1>4. ASSUME NEW p \in Producer, Write(p) PROVE TypeOK'
  <2>1. data[p] \in Message /\ ~ResizeThrows(productor, MsgLen[data[p]])
    BY <1>4 DEF Write
  <2>2. productor' \in Buffer
    BY <1>4, <2>1, BufferPushEffect DEF Write
  <2>3. pushed' \in Seq(Message)
    BY <1>4, <2>1 DEF Write
  <2>4. QED
    BY <1>4, <2>2, <2>3 DEF Write
<1>5. ASSUME NEW p \in Producer, WriteThrows(p) PROVE TypeOK'
  BY <1>5 DEF WriteThrows
<1>6. ASSUME NEW p \in Producer, SpuriousWakeup(p) PROVE TypeOK'
  BY <1>6 DEF SpuriousWakeup
<1>7. CASE Stop
  BY <1>7 DEF Stop
<1>8. CASE Swap
  BY <1>8 DEF Swap, NotifyProductor, Asleep
<1>9. CASE Flush
  <2>1. consumer.items \in Seq(Message)
    BY DEF Buffer
  <2>2. flushed' \in Seq(Message)
    BY <1>9, <2>1 DEF Flush
  <2>3. QED
    BY <1>9, <2>2, ResetType DEF Flush
<1>10. CASE FlushUninitialised
  BY <1>10 DEF FlushUninitialised
<1>11. CASE Check
  BY <1>11 DEF Check
<1>12. CASE UNCHANGED vars
  BY <1>12 DEF vars
<1>13. QED
  BY <1>1, <1>2, <1>3, <1>4, <1>5, <1>6, <1>7, <1>8, <1>9, <1>10, <1>11,
     <1>12 DEF Next, PushStep, ThreadEntry, Ended

\* Every variable has its type in every state of AsyncWorker.
THEOREM TypeCorrect == Spec => []TypeOK
BY TypeInit, TypeStep, PTL DEF Spec

-----------------------------------------------------------------------------
(***************************************************************************)
(* NothingLost is inductive as it stands; DrainedOnReturn needs to know    *)
(* that IsEmpty, which compares positions, means that there is no message, *)
(* that the consumer's buffer is empty except between Swap and Flush, that *)
(* the destructor runs when no thread is inside Push, and that the         *)
(* producers' buffer is empty when the worker returns.                     *)
(***************************************************************************)
PositionsAgree ==
    /\ productor.write_pos = 0 <=> productor.items = <<>>
    /\ consumer.write_pos = 0 <=> consumer.items = <<>>

ConsumerDrained == worker \in {"swap", "check", "returned"} => consumer.items = <<>>

QuietAfterStop == stop_ => \A p \in Producer : caller[p] = "out"

ReturnedEmpty == worker = "returned" => stop_ /\ productor.items = <<>>

IInv ==
    /\ TypeOK
    /\ NothingLost
    /\ PositionsAgree
    /\ ConsumerDrained
    /\ QuietAfterStop
    /\ ReturnedEmpty

\* The empty buffer that Reset leaves keeps the positions in agreement.
LEMMA ResetEmpty == ASSUME NEW b \in Buffer
                    PROVE  Reset(b).write_pos = 0 /\ Reset(b).items = <<>>
BY DEF Reset, Buffer

\* The worker as constructed satisfies the inductive invariant.
LEMMA InductiveInit == Init => IInv
<1> SUFFICES ASSUME Init PROVE IInv
  OBVIOUS
<1>1. TypeOK
  BY TypeInit
<1>2. productor.items = <<>> /\ consumer.items = <<>>
  BY DEF Init, NewBuffer
<1>3. productor.write_pos = 0 /\ consumer.write_pos = 0
  BY DEF Init, NewBuffer
<1>4. NothingLost
  BY <1>2 DEF NothingLost, Init
<1>5. QED
  BY <1>1, <1>2, <1>3, <1>4
  DEF Init, IInv, PositionsAgree, ConsumerDrained, QuietAfterStop, ReturnedEmpty

\* Concatenation of messages is associative.
LEMMA StreamAssociative ==
    ASSUME NEW f \in Seq(Message), NEW c \in Seq(Message), NEW p \in Seq(Message)
    PROVE  (f \o c) \o p = f \o (c \o p)
BY ConcatAssociative

\* Appending to the producers' buffer appends to the whole stream (Push).
LEMMA AppendToStream ==
    ASSUME NEW f \in Seq(Message), NEW c \in Seq(Message),
           NEW p \in Seq(Message), NEW m \in Message
    PROVE  Append((f \o c) \o p, m) = (f \o c) \o Append(p, m)
<1>1. f \o c \in Seq(Message) /\ <<m>> \in Seq(Message)
  OBVIOUS
<1>2. (f \o c) \o p \in Seq(Message)
  BY <1>1
<1>3. Append((f \o c) \o p, m) = ((f \o c) \o p) \o <<m>>
  BY <1>2, AppendIsConcat
<1>4. Append(p, m) = p \o <<m>>
  BY AppendIsConcat
<1>5. ((f \o c) \o p) \o <<m>> = (f \o c) \o (p \o <<m>>)
  BY <1>1, StreamAssociative, Zenon
<1>6. QED
  BY <1>3, <1>4, <1>5, Zenon

\* Neither an empty middle part nor where it is moved to matters (Swap, Reset).
LEMMA EmptyPart ==
    ASSUME NEW f \in Seq(Message), NEW p \in Seq(Message)
    PROVE  /\ (f \o <<>>) \o p = (f \o p) \o <<>>
           /\ (f \o <<>>) \o p = f \o p
<1>1. f \o p \in Seq(Message)
  OBVIOUS
<1>2. f \o <<>> = f /\ (f \o p) \o <<>> = f \o p
  BY <1>1, ConcatEmptySeq
<1>3. QED
  BY <1>2

\* The inductive invariant survives each step, one case per action.
LEMMA InductiveStep == IInv /\ [Next]_vars => IInv'
<1> SUFFICES ASSUME IInv, [Next]_vars PROVE IInv'
  OBVIOUS
<1>a. TypeOK /\ TypeOK'
  BY TypeStep DEF IInv
<1>b. /\ productor.items \in Seq(Message) /\ consumer.items \in Seq(Message)
      /\ pushed \in Seq(Message) /\ flushed \in Seq(Message)
  BY <1>a DEF TypeOK, Buffer
<1> USE DEF IInv, PositionsAgree, ConsumerDrained, QuietAfterStop, ReturnedEmpty
<1>1. CASE FinishConstructor
  BY <1>1, <1>a DEF FinishConstructor, NothingLost
<1>2. ASSUME NEW p \in Producer, NEW m \in Message, CallPush(p, m)
      PROVE  IInv'
  BY <1>2, <1>a DEF CallPush, NothingLost
<1>3. ASSUME NEW p \in Producer, WaitForRoom(p) PROVE IInv'
  BY <1>3, <1>a DEF WaitForRoom, NothingLost, TypeOK
<1>4. ASSUME NEW p \in Producer, Write(p) PROVE IInv'
  <2>1. data[p] \in Message /\ ~ResizeThrows(productor, MsgLen[data[p]])
    BY <1>4, <1>a DEF Write, TypeOK
  <2>2. /\ productor'.items = Append(productor.items, data[p])
        /\ productor'.write_pos = productor.write_pos + MsgLen[data[p]]
    BY <1>4, <1>a, <2>1, BufferPushEffect DEF Write, TypeOK
  <2>3. MsgLen[data[p]] \in Nat \ {0} /\ productor.write_pos \in Nat
    BY <1>a, <2>1, BufferAssumption DEF TypeOK, Buffer
  <2>4. productor'.items # <<>> /\ productor'.write_pos # 0
    <3>1. Append(productor.items, data[p]) # <<>>
      BY <1>b, <2>1, AppendProperties
    <3>2. productor.write_pos + MsgLen[data[p]] # 0
      BY <2>3
    <3>3. QED
      BY <2>2, <3>1, <3>2, Zenon
  <2>5. NothingLost'
    <3>1. pushed' = Append((flushed \o consumer.items) \o productor.items, data[p])
      BY <1>4 DEF Write, NothingLost
    <3>2. @ = (flushed \o consumer.items) \o Append(productor.items, data[p])
      BY <1>b, <2>1, AppendToStream, Zenon
    <3>3. flushed' = flushed /\ consumer' = consumer
      BY <1>4 DEF Write
    <3>4. QED
      BY <2>2, <3>1, <3>2, <3>3, Zenon DEF NothingLost
  <2>6. ~stop_ /\ worker # "returned"
    BY <1>4 DEF Write
  <2>7. QED
    BY <1>4, <1>a, <2>4, <2>5, <2>6 DEF Write
<1>5. ASSUME NEW p \in Producer, WriteThrows(p) PROVE IInv'
  BY <1>5, <1>a DEF WriteThrows, NothingLost, TypeOK
<1>6. ASSUME NEW p \in Producer, SpuriousWakeup(p) PROVE IInv'
  BY <1>6, <1>a DEF SpuriousWakeup, NothingLost, TypeOK
<1>7. CASE Stop
  BY <1>7, <1>a DEF Stop, NothingLost
<1>8. CASE Swap
  <2>1. consumer.items = <<>>
    BY <1>8 DEF Swap
  <2>2. NothingLost'
    BY <1>8, <1>b, <2>1, EmptyPart DEF Swap, NothingLost
  <2>3. QuietAfterStop'
    BY <1>8 DEF Swap, NotifyProductor, Asleep
  <2>4. QED
    BY <1>8, <1>a, <2>2, <2>3 DEF Swap
<1>9. CASE Flush
  <2>1. consumer'.items = <<>> /\ consumer'.write_pos = 0
    BY <1>9, <1>a, ResetEmpty DEF Flush, TypeOK
  <2>2. NothingLost'
    BY <1>9, <1>b, <2>1, EmptyPart DEF Flush, NothingLost
  <2>3. QED
    BY <1>9, <1>a, <2>1, <2>2 DEF Flush
<1>10. CASE FlushUninitialised
  BY <1>10, <1>a DEF FlushUninitialised, NothingLost
<1>11. CASE Check
  BY <1>11, <1>a DEF Check, IsEmpty, NothingLost
<1>12. CASE UNCHANGED vars
  BY <1>12, <1>a DEF vars, NothingLost
<1>13. QED
  BY <1>1, <1>2, <1>3, <1>4, <1>5, <1>6, <1>7, <1>8, <1>9, <1>10, <1>11, <1>12
  DEF Next, PushStep, ThreadEntry, Ended

\* The inductive invariant holds in every state.
THEOREM Inductive == Spec => []IInv
BY InductiveInit, InductiveStep, PTL DEF Spec

(***************************************************************************)
(* The double buffer of AsyncWorker loses, repeats and reorders nothing.   *)
(***************************************************************************)
THEOREM FifoCorrect == Spec => []NothingLost
<1>1. IInv => NothingLost
  BY DEF IInv
<1>2. QED
  BY <1>1, Inductive, PTL

(***************************************************************************)
(* When the worker's thread returns, everything pushed was flushed.        *)
(***************************************************************************)
THEOREM DrainCorrect == Spec => []DrainedOnReturn
<1>1. IInv => DrainedOnReturn
  <2> SUFFICES ASSUME IInv, worker = "returned" PROVE flushed = pushed
    BY DEF DrainedOnReturn
  <2>1. consumer.items = <<>> /\ productor.items = <<>>
    BY DEF IInv, ConsumerDrained, ReturnedEmpty
  <2>2. flushed \in Seq(Message) /\ <<>> \in Seq(Message)
    BY DEF IInv, TypeOK
  <2>3. (flushed \o <<>>) \o <<>> = flushed
    BY <2>2, EmptyPart, ConcatEmptySeq
  <2>4. QED
    BY <2>1, <2>3 DEF IInv, NothingLost
<1>2. QED
  BY <1>1, Inductive, PTL

-----------------------------------------------------------------------------
(* Sizes.                                                                  *)

Sized(b) == BufferSize =< b.size /\ b.size =< MaxAlloc /\ WithinBounds(b)

SizeInv == TypeOK /\ Sized(productor) /\ Sized(consumer)

(***************************************************************************)
(* For adequate sizes ToBeEnough makes room for a message that Push has    *)
(* let through: the longest one if it does not wait, and one no longer     *)
(* than the space left if it does.                                         *)
(***************************************************************************)
LEMMA PushFits ==
    ASSUME SizesAdequate, NEW b \in Buffer, NEW m \in Message, Sized(b),
           Safe => MsgLen[m] =< WriteableSize(b), ~ResizeThrows(b, MsgLen[m])
    PROVE  Sized(BufferPush(b, m))
<1> DEFINE len == MsgLen[m]
<1>1. /\ len \in Nat /\ b.size \in Nat /\ b.write_pos \in Nat
      /\ BufferSize \in Nat /\ MaxAlloc \in Nat /\ IntMod \in Nat
      /\ LinearGrowth \in Nat /\ Threshold \in Nat
  BY BufferAssumption DEF Buffer
<1>2. BufferSize =< b.size /\ b.size =< MaxAlloc /\ b.write_pos =< b.size
  BY DEF Sized, WithinBounds
<1>3. \/ len =< b.size - b.write_pos
      \/ len =< 2 * BufferSize /\ len =< LinearGrowth
  BY DEF SizesAdequate, WriteableSize
<1>4. AsInt(b.size) = b.size
  <2>1. 2 * b.size < IntMod
    BY <1>1, <1>2 DEF SizesAdequate
  <2>2. QED
    BY <1>1, <2>1, AsIntExact
<1>5. /\ BufferPush(b, m).size = ToBeEnough(b, len).size
      /\ BufferPush(b, m).write_pos = b.write_pos + len
  BY BufferPushEffect
<1> HIDE DEF len
<1>6. CASE NeedsGrowth(b, len)
  <2>1. ToBeEnough(b, len).size = GrownSize(b)
    BY <1>6 DEF ToBeEnough, Buffer
  <2>2. GrownSize(b) =< MaxAlloc
    BY <1>1, <1>6 DEF ResizeThrows, len
  <2>3. GrownSize(b) = IF b.size < Threshold THEN 3 * b.size
                                             ELSE LinearGrowth + b.size
    BY <1>1, <1>4 DEF GrownSize
  <2>4. BufferSize =< GrownSize(b) /\ b.write_pos + len =< GrownSize(b)
    BY <1>1, <1>2, <1>3, <2>3
  <2>5. QED
    BY <1>5, <2>1, <2>2, <2>4 DEF Sized, WithinBounds
<1>7. CASE ~NeedsGrowth(b, len)
  <2>1. ToBeEnough(b, len).size = b.size
    BY <1>7 DEF ToBeEnough, Buffer
  <2>2. b.write_pos + len =< b.size
    BY <1>1, <1>2, <1>7 DEF NeedsGrowth, WriteableSize
  <2>3. QED
    BY <1>2, <1>5, <2>1, <2>2 DEF Sized, WithinBounds
<1>8. QED
  BY <1>6, <1>7

\* Every step keeps both buffers within their sizes.
LEMMA SizeStep ==
    ASSUME SizesAdequate PROVE SizeInv /\ [Next]_vars => SizeInv'
<1> SUFFICES ASSUME SizeInv, [Next]_vars PROVE SizeInv'
  OBVIOUS
<1>a. TypeOK /\ TypeOK'
  BY TypeStep DEF SizeInv
<1>1. ASSUME NEW p \in Producer, Write(p) PROVE SizeInv'
  <2>1. /\ data[p] \in Message /\ productor \in Buffer
        /\ ~ResizeThrows(productor, MsgLen[data[p]])
        /\ Safe => MsgLen[data[p]] =< WriteableSize(productor)
    BY <1>1, <1>a DEF Write, HasRoom, TypeOK
  <2>2. Sized(BufferPush(productor, data[p]))
    BY <2>1, PushFits DEF SizeInv
  <2>3. QED
    BY <1>1, <1>a, <2>2 DEF Write, SizeInv
<1>2. CASE Flush
  <2>1. Sized(Reset(consumer))
    BY <1>a DEF SizeInv, Sized, WithinBounds, Reset, TypeOK, Buffer
  <2>2. QED
    BY <1>2, <1>a, <2>1 DEF Flush, SizeInv
<1>3. CASE Swap
  BY <1>3, <1>a DEF Swap, SizeInv
<1>4. CASE UNCHANGED <<productor, consumer>>
  BY <1>4, <1>a DEF SizeInv
<1>5. QED
  BY <1>1, <1>2, <1>3, <1>4
  DEF Next, FinishConstructor, CallPush, PushStep, WaitForRoom, WriteThrows,
      SpuriousWakeup, Stop, ThreadEntry, FlushUninitialised, Check, Ended, vars

(***************************************************************************)
(* With adequate sizes no Push copies past the end of a buffer, in either  *)
(* mode and however often the buffers have grown.                          *)
(***************************************************************************)
THEOREM BoundsCorrect == ASSUME SizesAdequate PROVE Spec => []NoOverrun
<1>1. Init => SizeInv
  <2> SUFFICES ASSUME Init PROVE SizeInv
    OBVIOUS
  <2>1. Sized(NewBuffer)
    BY BufferAssumption DEF Sized, NewBuffer, WithinBounds, SizesAdequate
  <2>2. QED
    BY <2>1, TypeInit DEF Init, SizeInv
<1>2. SizeInv => NoOverrun
  BY DEF SizeInv, Sized, NoOverrun
<1>3. QED
  BY <1>1, <1>2, SizeStep, PTL DEF Spec

-----------------------------------------------------------------------------
(* Refinement.                                                             *)

\* A sequence extended by a part of what follows it is a prefix of the whole.
LEMMA DeliveredPrefix ==
    ASSUME NEW f \in Seq(Message), NEW c \in Seq(Message), NEW p \in Seq(Message)
    PROVE  f \o c = SubSeq((f \o c) \o p, 1, Len(f) + Len(c))
<1> DEFINE whole == (f \o c) \o p
           n == Len(f) + Len(c)
<1>1. f \o c \in Seq(Message) /\ Len(f \o c) = n /\ n \in Nat
  BY ConcatProperties
<1>2. whole \in Seq(Message) /\ Len(whole) = n + Len(p)
  BY <1>1, ConcatProperties
<1>3. \A i \in 1 .. n : whole[i] = (f \o c)[i]
  BY <1>1, ConcatProperties
<1>4. /\ SubSeq(whole, 1, n) \in Seq(Message)
      /\ Len(SubSeq(whole, 1, n)) = n
      /\ \A i \in 1 .. n : SubSeq(whole, 1, n)[i] = whole[i]
  BY <1>1, <1>2
<1> HIDE DEF whole, n
<1>5. f \o c = SubSeq(whole, 1, n)
  BY <1>1, <1>3, <1>4, SeqEqual
<1>6. QED
  BY <1>5 DEF whole, n

\* Each step of AsyncWorker is a step of the abstract log or a stutter.
LEMMA LogStep == IInv /\ IInv' /\ [Next]_vars => [Log!Next]_(Log!vars)
<1> SUFFICES ASSUME IInv, IInv', [Next]_vars PROVE [Log!Next]_(Log!vars)
  OBVIOUS
<1>a. /\ productor.items \in Seq(Message) /\ consumer.items \in Seq(Message)
      /\ pushed \in Seq(Message) /\ flushed \in Seq(Message)
  BY DEF IInv, TypeOK, Buffer
<1>1. ASSUME NEW p \in Producer, Write(p) PROVE Log!Accept
  <2>1. data[p] \in Message
    BY DEF IInv, TypeOK
  <2>2. ~stop_
    BY <1>1 DEF IInv, QuietAfterStop, Write
  <2>3. QED
    BY <1>1, <2>1, <2>2 DEF Write, Log!Accept
<1>2. CASE Flush
  <2>1. CASE consumer.items = <<>>
    <3>1. flushed' = flushed
      BY <1>2, <1>a, <2>1, ConcatEmptySeq DEF Flush
    <3>2. QED
      BY <1>2, <3>1 DEF Flush, Log!vars
  <2>2. CASE consumer.items # <<>>
    <3> DEFINE n == Len(flushed) + Len(consumer.items)
    <3>1. flushed' = SubSeq(pushed, 1, n)
      BY <1>2, <1>a, DeliveredPrefix DEF Flush, IInv, NothingLost
    <3>2. /\ Len(pushed) = n + Len(productor.items)
          /\ Len(flushed) \in Nat /\ Len(productor.items) \in Nat
      BY <1>a, ConcatProperties DEF IInv, NothingLost
    <3>3. Len(consumer.items) \in Nat \ {0}
      BY <1>a, <2>2, EmptySeq
    <3>4. n \in Len(flushed) + 1 .. Len(pushed)
      <4>1. ASSUME NEW a \in Nat, NEW b \in Nat \ {0}, NEW c \in Nat
            PROVE  a + b \in a + 1 .. (a + b) + c
        OBVIOUS
      <4>2. QED
        BY <3>2, <3>3, <4>1, Zenon
    <3> HIDE DEF n
    <3>5. Log!Deliver
      BY <1>2, <3>1, <3>4 DEF Flush, Log!Deliver
    <3>6. QED
      BY <3>5 DEF Log!Next
  <2>3. QED
    BY <2>1, <2>2
<1>3. CASE Stop
  BY <1>3 DEF Stop, Log!Next, Log!Close, IInv, ReturnedEmpty
<1>4. CASE Check
  <2>1. CASE worker' = "returned"
    <3>1. stop_ /\ consumer'.items = <<>> /\ productor'.items = <<>>
      BY <1>4, <2>1 DEF Check, IInv, ConsumerDrained, ReturnedEmpty
    <3>2. pushed = (flushed \o <<>>) \o <<>>
      BY <1>4, <3>1 DEF Check, IInv, NothingLost
    <3>3. flushed = pushed
      BY <1>a, <3>2, ConcatEmptySeq
    <3>4. QED
      BY <1>4, <2>1, <3>1, <3>3 DEF Check, Log!Next, Log!Finish
  <2>2. CASE worker' # "returned"
    BY <1>4, <2>2 DEF Check, Log!vars
  <2>3. QED
    BY <2>1, <2>2
<1>5. CASE FinishConstructor
  BY <1>5 DEF FinishConstructor, Log!vars
<1>6. ASSUME NEW p \in Producer, NEW m \in Message, CallPush(p, m)
      PROVE  UNCHANGED Log!vars
  BY <1>6 DEF CallPush, Log!vars
<1>7. ASSUME NEW p \in Producer,
             WaitForRoom(p) \/ WriteThrows(p) \/ SpuriousWakeup(p)
      PROVE  UNCHANGED Log!vars
  BY <1>7 DEF WaitForRoom, WriteThrows, SpuriousWakeup, Log!vars
<1>8. CASE Swap
  BY <1>8 DEF Swap, Log!vars
<1>9. CASE FlushUninitialised
  BY <1>9 DEF FlushUninitialised, Log!vars
<1>10. CASE UNCHANGED vars
  BY <1>10 DEF vars, Log!vars
<1>11. QED
  BY <1>1, <1>2, <1>3, <1>4, <1>5, <1>6, <1>7, <1>8, <1>9, <1>10
  DEF Next, PushStep, ThreadEntry, Ended, Log!Next

(***************************************************************************)
(* The double-buffered worker implements the abstract log: its Push, Swap, *)
(* callback and Stop show the threads that log nothing but an in-order     *)
(* log that finishes when it is closed and delivered.                      *)
(***************************************************************************)
THEOREM Refinement == Spec => ImplementsLog
<1>1. Init => Log!Init
  BY DEF Init, Log!Init
<1>2. QED
  BY <1>1, LogStep, Inductive, PTL DEF Spec, Log!Spec, ImplementsLog

-----------------------------------------------------------------------------
(* Types.                                                                  *)

\* Every variable has its type in the initial state and after every step.
LEMMA PoolTypeInit == PoolInit => PoolTypeOK
<1> SUFFICES ASSUME PoolInit PROVE PoolTypeOK
  OBVIOUS
<1>1. tasks \in Seq(Client)
  BY DEF PoolInit
<1>2. client \in [Client -> ClientState] /\ pool \in [Worker -> PoolState]
  BY DEF PoolInit, ClientState, PoolState
<1>3. ready \in [Client -> BOOLEAN] /\ task \in [Worker -> SUBSET Client]
  BY DEF PoolInit
<1>4. QED
  BY <1>1, <1>2, <1>3 DEF PoolInit, PoolTypeOK, DtorState

\* Every step of clients, workers and destructor preserves the types.
LEMMA PoolTypeStep == PoolTypeOK /\ [PoolNext]_poolVars => PoolTypeOK'
<1> SUFFICES ASSUME PoolTypeOK, [PoolNext]_poolVars PROVE PoolTypeOK'
  OBVIOUS
<1> USE DEF PoolTypeOK, ClientState, PoolState, DtorState
<1>1. ASSUME NEW c \in Client, EnqueueTask(c) PROVE PoolTypeOK'
  BY <1>1 DEF EnqueueTask
<1>2. ASSUME NEW c \in Client, EnqueueNotify(c) PROVE PoolTypeOK'
  BY <1>2 DEF EnqueueNotify, Sleeping
<1>3. ASSUME NEW c \in Client, Get(c) PROVE PoolTypeOK'
  BY <1>3 DEF Get
<1>4. ASSUME NEW w \in Worker, Sleep(w) \/ PoolWakeup(w) \/ Return(w)
      PROVE  PoolTypeOK'
  BY <1>4 DEF Sleep, PoolWakeup, Return
<1>5. ASSUME NEW w \in Worker, Take(w) PROVE PoolTypeOK'
  <2>1. Head(tasks) \in Client /\ Tail(tasks) \in Seq(Client)
    BY <1>5, HeadTailProperties DEF Take
  <2>2. QED
    BY <1>5, <2>1 DEF Take
<1>6. ASSUME NEW w \in Worker, Run(w) PROVE PoolTypeOK'
  <2>1. ready' \in [Client -> BOOLEAN]
    BY <1>6, Zenon DEF Run
  <2>2. QED
    BY <1>6, <2>1 DEF Run
<1>7. CASE SetStop
  BY <1>7 DEF SetStop
<1>8. CASE DtorStep
  BY <1>8 DEF DtorStep, NotifyAll, JoinAll
<1>9. CASE UNCHANGED poolVars
  BY <1>9 DEF poolVars
<1>10. QED
  BY <1>1, <1>2, <1>3, <1>4, <1>5, <1>6, <1>7, <1>8, <1>9
  DEF PoolNext, ClientStep, WorkerStep, EnqueueThrows, PoolEnded

-----------------------------------------------------------------------------
(* The queue.                                                              *)

\* What enqueue's emplace adds to the queue.
LEMMA AppendToQueue ==
    ASSUME NEW q \in Seq(Client), NEW c \in Client, Distinct(q), ~InQueue(q, c)
    PROVE  /\ Distinct(Append(q, c))
           /\ \A d \in Client : InQueue(Append(q, c), d) <=> InQueue(q, d) \/ d = c
<1> DEFINE r == Append(q, c)
<1>1. /\ Len(r) = Len(q) + 1 /\ Len(q) \in Nat
      /\ \A i \in 1 .. Len(q) : r[i] = q[i]
      /\ r[Len(q) + 1] = c
  BY AppendProperties
<1> HIDE DEF r
<1>2. \A i \in 1 .. Len(r) : i \in 1 .. Len(q) \/ i = Len(q) + 1
  BY <1>1
<1>3. Distinct(r)
  BY <1>1, <1>2 DEF Distinct, InQueue
<1>4. ASSUME NEW d \in Client PROVE InQueue(r, d) <=> InQueue(q, d) \/ d = c
  <2>1. InQueue(r, d) => InQueue(q, d) \/ d = c
    BY <1>1, <1>2 DEF InQueue
  <2>2. \A i \in 1 .. Len(q) : i \in 1 .. Len(r)
    BY <1>1
  <2>3. Len(q) + 1 \in 1 .. Len(r)
    BY <1>1
  <2>4. QED
    BY <1>1, <2>1, <2>2, <2>3 DEF InQueue
<1>5. QED
  BY <1>3, <1>4 DEF r

\* What the pop of a pool thread takes from the queue.
LEMMA PopFromQueue ==
    ASSUME NEW q \in Seq(Client), q # <<>>, Distinct(q)
    PROVE  /\ Head(q) \in Client
           /\ Tail(q) \in Seq(Client)
           /\ Len(Tail(q)) = Len(q) - 1
           /\ Distinct(Tail(q))
           /\ ~InQueue(Tail(q), Head(q))
           /\ \A d \in Client : InQueue(q, d) <=> InQueue(Tail(q), d) \/ d = Head(q)
<1> DEFINE r == Tail(q)
           h == Head(q)
<1>1. /\ h \in Client /\ r \in Seq(Client)
      /\ Len(q) \in Nat \ {0} /\ Len(r) = Len(q) - 1
      /\ \A i \in 1 .. Len(r) : r[i] = q[i + 1]
      /\ h = q[1]
  BY HeadTailProperties, EmptySeq
<1> HIDE DEF r, h
<1>2. \A i \in 1 .. Len(r) : i + 1 \in 1 .. Len(q) /\ i + 1 # 1
  BY <1>1
<1>3. 1 \in 1 .. Len(q)
  BY <1>1
<1>4. Distinct(r)
  <2> SUFFICES ASSUME NEW i \in 1 .. Len(r), NEW j \in 1 .. Len(r), r[i] = r[j]
               PROVE  i = j
    BY DEF Distinct
  <2>1. q[i + 1] = q[j + 1] /\ i + 1 \in 1 .. Len(q) /\ j + 1 \in 1 .. Len(q)
    BY <1>1, <1>2
  <2>2. i + 1 = j + 1
    BY <2>1 DEF Distinct
  <2>3. QED
    BY <1>1, <2>2
<1>5. ~InQueue(r, h)
  BY <1>1, <1>2, <1>3 DEF InQueue, Distinct
<1>6. ASSUME NEW d \in Client PROVE InQueue(q, d) <=> InQueue(r, d) \/ d = h
  <2>1. ASSUME NEW i \in 1 .. Len(q), q[i] = d PROVE InQueue(r, d) \/ d = h
    <3>1. CASE i = 1
      BY <1>1, <2>1, <3>1
    <3>2. CASE i # 1
      <4>1. i - 1 \in 1 .. Len(r) /\ (i - 1) + 1 = i
        BY <1>1, <3>2
      <4>2. r[i - 1] = d
        BY <1>1, <2>1, <4>1
      <4>3. QED
        BY <4>1, <4>2 DEF InQueue
    <3>3. QED
      BY <3>1, <3>2
  <2>2. InQueue(r, d) => InQueue(q, d)
    BY <1>1, <1>2 DEF InQueue
  <2>3. d = h => InQueue(q, d)
    BY <1>1, <1>3 DEF InQueue
  <2>4. QED
    BY <2>1, <2>2, <2>3 DEF InQueue
<1>7. QED
  BY <1>1, <1>4, <1>5, <1>6 DEF r, h

-----------------------------------------------------------------------------
(***************************************************************************)
(* The inductive invariant.  AllTasksRun needs TaskInOnePlace, that only a *)
(* running worker holds a task, that a worker returns from an empty queue  *)
(* that stays empty because the pool is stopped, and what the destructor   *)
(* has established by the time it is done.                                 *)
(***************************************************************************)
HeldWhileRunning == \A w \in Worker : pool[w] # "run" => task[w] = {}

PoolReturnedEmpty == \A w \in Worker : pool[w] = "returned" => stop /\ tasks = <<>>

DtorProgress ==
    /\ stop <=> dtor # "uncalled"
    /\ dtor = "done" => \A w \in Worker : pool[w] = "returned"

PoolInv ==
    /\ PoolTypeOK
    /\ TaskInOnePlace
    /\ HeldWhileRunning
    /\ PoolReturnedEmpty
    /\ DtorProgress

\* The pool as constructed satisfies the inductive invariant.
LEMMA PoolInductiveInit == PoolInit => PoolInv
<1> SUFFICES ASSUME PoolInit PROVE PoolInv
  OBVIOUS
<1>1. Len(tasks) = 0
  BY DEF PoolInit
<1>2. Distinct(tasks) /\ \A c \in Client : ~InQueue(tasks, c)
  BY <1>1 DEF Distinct, InQueue
<1>3. \A c \in Client : ~Held(c)
  BY DEF PoolInit, Held
<1>4. TaskInOnePlace
  BY <1>2, <1>3 DEF PoolInit, TaskInOnePlace
<1>5. HeldWhileRunning /\ PoolReturnedEmpty /\ DtorProgress
  BY DEF PoolInit, HeldWhileRunning, PoolReturnedEmpty, DtorProgress
<1>6. QED
  BY <1>4, <1>5, PoolTypeInit DEF PoolInv

\* A task enters the queue; its client was outside, so it had none.
LEMMA EnqueueKeeps ==
    ASSUME PoolInv, PoolTypeOK', NEW c \in Client, EnqueueTask(c) PROVE PoolInv'
<1>1. PoolTypeOK
  BY DEF PoolInv
<1>2. Distinct(tasks) /\ ~InQueue(tasks, c) /\ ~Held(c) /\ tasks \in Seq(Client)
  BY DEF PoolInv, TaskInOnePlace, EnqueueTask, PoolTypeOK
<1>3. /\ tasks' = Append(tasks, c) /\ task' = task /\ pool' = pool
      /\ stop' = stop /\ dtor' = dtor /\ ~stop
      /\ client' = [client EXCEPT ![c] = "notify"]
      /\ ready' = [ready EXCEPT ![c] = FALSE]
  BY DEF EnqueueTask
<1>4. /\ Distinct(tasks')
      /\ \A d \in Client : InQueue(tasks', d) <=> InQueue(tasks, d) \/ d = c
  BY <1>2, <1>3, AppendToQueue
<1>5. \A d \in Client : Held(d)' <=> Held(d)
  BY <1>3 DEF Held
<1>6. ASSUME NEW d \in Client
      PROVE  /\ ~(InQueue(tasks', d) /\ Held(d)')
             /\ client'[d] # "out" => (InQueue(tasks', d) \/ Held(d)' <=> ~ready'[d])
             /\ client'[d] = "out" => ~InQueue(tasks', d) /\ ~Held(d)'
  <2>1. CASE d = c
    BY <1>1, <1>2, <1>3, <1>4, <1>5, <2>1 DEF PoolTypeOK
  <2>2. CASE d # c
    <3>1. client'[d] = client[d] /\ ready'[d] = ready[d]
      BY <1>1, <1>3, <2>2 DEF PoolTypeOK
    <3>2. QED
      BY <1>4, <1>5, <2>2, <3>1 DEF PoolInv, TaskInOnePlace
  <2>3. QED
    BY <2>1, <2>2
<1>7. TaskInOnePlace'
  BY <1>3, <1>4, <1>6 DEF TaskInOnePlace, PoolInv
<1>8. HeldWhileRunning' /\ PoolReturnedEmpty' /\ DtorProgress'
  BY <1>3 DEF PoolInv, HeldWhileRunning, PoolReturnedEmpty, DtorProgress
<1>9. QED
  BY <1>7, <1>8 DEF PoolInv

\* A task moves from the head of the queue to the worker that takes it.
LEMMA TakeKeeps ==
    ASSUME PoolInv, PoolTypeOK', NEW w \in Worker, Take(w) PROVE PoolInv'
<1> DEFINE h == Head(tasks)
<1>1. PoolTypeOK /\ tasks # <<>> /\ Distinct(tasks)
  BY DEF PoolInv, TaskInOnePlace, Take
<1>2. /\ tasks' = Tail(tasks) /\ task' = [task EXCEPT ![w] = {h}]
      /\ pool' = [pool EXCEPT ![w] = "run"]
      /\ stop' = stop /\ dtor' = dtor /\ client' = client /\ ready' = ready
  BY DEF Take
<1>3. /\ h \in Client
      /\ Distinct(tasks')
      /\ ~InQueue(tasks', h)
      /\ \A d \in Client : InQueue(tasks, d) <=> InQueue(tasks', d) \/ d = h
  BY <1>1, <1>2, PopFromQueue DEF PoolTypeOK
<1> HIDE DEF h
<1>4. task[w] = {} /\ ~Held(h)
  BY <1>3 DEF PoolInv, HeldWhileRunning, TaskInOnePlace, Take
<1>5. \A d \in Client : Held(d)' <=> Held(d) \/ d = h
  <2>1. task'[w] = {h} /\ \A v \in Worker : v # w => task'[v] = task[v]
    BY <1>1, <1>2 DEF PoolTypeOK
  <2>2. QED
    BY <1>4, <2>1, Zenon DEF Held
<1>6. \A u, v \in Worker : u # v => task'[u] \cap task'[v] = {}
  <2>1. task'[w] = {h} /\ \A v \in Worker : v # w => task'[v] = task[v]
    BY <1>1, <1>2 DEF PoolTypeOK
  <2>2. \A v \in Worker : h \notin task[v]
    BY <1>4 DEF Held
  <2>3. QED
    BY <2>1, <2>2 DEF PoolInv, TaskInOnePlace
<1>7. \A d \in Client :
        /\ ~(InQueue(tasks', d) /\ Held(d)')
        /\ client'[d] # "out" => (InQueue(tasks', d) \/ Held(d)' <=> ~ready'[d])
        /\ client'[d] = "out" => ~InQueue(tasks', d) /\ ~Held(d)'
  BY <1>2, <1>3, <1>5, Zenon DEF PoolInv, TaskInOnePlace
<1>8. TaskInOnePlace'
  BY <1>3, <1>6, <1>7 DEF TaskInOnePlace
<1>9. \A v \in Worker : pool[v] # "returned"
  BY <1>1 DEF PoolInv, PoolReturnedEmpty
<1>10. HeldWhileRunning' /\ PoolReturnedEmpty' /\ DtorProgress'
  BY <1>1, <1>2, <1>9, PoolAssumption
  DEF PoolInv, HeldWhileRunning, PoolReturnedEmpty, DtorProgress, PoolTypeOK
<1>11. QED
  BY <1>8, <1>10 DEF PoolInv

\* The worker runs the task that it holds and makes its future ready.
LEMMA RunKeeps ==
    ASSUME PoolInv, PoolTypeOK', NEW w \in Worker, Run(w) PROVE PoolInv'
<1>1. PoolTypeOK
  BY DEF PoolInv
<1>2. /\ task' = [task EXCEPT ![w] = {}] /\ pool' = [pool EXCEPT ![w] = "lock"]
      /\ tasks' = tasks /\ stop' = stop /\ dtor' = dtor /\ client' = client
      /\ \A d \in Client : ready'[d] <=> ready[d] \/ d \in task[w]
  BY DEF Run
<1>3. task'[w] = {} /\ \A v \in Worker : v # w => task'[v] = task[v]
  BY <1>1, <1>2 DEF PoolTypeOK
<1>4. \A d \in Client : Held(d)' <=> Held(d) /\ d \notin task[w]
  BY <1>3 DEF Held, PoolInv, TaskInOnePlace
<1>5. \A d \in Client : d \in task[w] => Held(d)
  BY DEF Held
<1>6. \A u, v \in Worker : u # v => task'[u] \cap task'[v] = {}
  BY <1>3 DEF PoolInv, TaskInOnePlace
<1>7. \A d \in Client :
        /\ ~(InQueue(tasks', d) /\ Held(d)')
        /\ client'[d] # "out" => (InQueue(tasks', d) \/ Held(d)' <=> ~ready'[d])
        /\ client'[d] = "out" => ~InQueue(tasks', d) /\ ~Held(d)'
  BY <1>2, <1>4, <1>5, Zenon DEF PoolInv, TaskInOnePlace
<1>8. TaskInOnePlace'
  BY <1>2, <1>6, <1>7 DEF TaskInOnePlace, PoolInv
<1>9. HeldWhileRunning' /\ PoolReturnedEmpty' /\ DtorProgress'
  BY <1>1, <1>2
  DEF PoolInv, HeldWhileRunning, PoolReturnedEmpty, DtorProgress, PoolTypeOK, Run
<1>10. QED
  BY <1>8, <1>9 DEF PoolInv

\* The inductive invariant survives every step, one case per action.
LEMMA PoolInductiveStep == PoolInv /\ [PoolNext]_poolVars => PoolInv'
<1> SUFFICES ASSUME PoolInv, [PoolNext]_poolVars PROVE PoolInv'
  OBVIOUS
<1>a. PoolTypeOK /\ PoolTypeOK'
  BY PoolTypeStep DEF PoolInv
<1> USE DEF PoolInv, HeldWhileRunning, PoolReturnedEmpty, DtorProgress
<1>1. ASSUME NEW c \in Client, EnqueueTask(c) PROVE PoolInv'
  BY <1>1, <1>a, EnqueueKeeps
<1>2. ASSUME NEW c \in Client, EnqueueNotify(c) PROVE PoolInv'
  <2>1. \A d \in Client : client'[d] = "out" <=> client[d] = "out"
    BY <1>2, <1>a DEF EnqueueNotify, PoolTypeOK
  <2>2. TaskInOnePlace'
    BY <1>2, <2>1 DEF EnqueueNotify, TaskInOnePlace, Held
  <2>3. HeldWhileRunning' /\ PoolReturnedEmpty' /\ DtorProgress'
    BY <1>2, <1>a DEF EnqueueNotify, Sleeping, PoolTypeOK
  <2>4. QED
    BY <1>a, <2>2, <2>3
<1>3. ASSUME NEW c \in Client, Get(c) PROVE PoolInv'
  <2>1. /\ client'[c] = "out" /\ ready[c] /\ client[c] = "get"
        /\ \A d \in Client : d # c => client'[d] = client[d]
    BY <1>3, <1>a DEF Get, PoolTypeOK
  <2>2. TaskInOnePlace'
    BY <1>3, <2>1 DEF Get, TaskInOnePlace, Held
  <2>3. QED
    BY <1>3, <1>a, <2>2 DEF Get
<1>4. ASSUME NEW w \in Worker, Sleep(w) \/ PoolWakeup(w) \/ Return(w)
      PROVE  PoolInv'
  <2>1. TaskInOnePlace'
    BY <1>4 DEF Sleep, PoolWakeup, Return, TaskInOnePlace, Held
  <2>2. HeldWhileRunning' /\ PoolReturnedEmpty' /\ DtorProgress'
    BY <1>4, <1>a DEF Sleep, PoolWakeup, Return, PoolTypeOK
  <2>3. QED
    BY <1>a, <2>1, <2>2
<1>5. ASSUME NEW w \in Worker, Take(w) PROVE PoolInv'
  BY <1>5, <1>a, TakeKeeps
<1>6. ASSUME NEW w \in Worker, Run(w) PROVE PoolInv'
  BY <1>6, <1>a, RunKeeps
<1>7. CASE SetStop
  BY <1>7, <1>a DEF SetStop, TaskInOnePlace, Held
<1>8. CASE NotifyAll
  <2>1. TaskInOnePlace'
    BY <1>8 DEF NotifyAll, TaskInOnePlace, Held
  <2>2. HeldWhileRunning' /\ PoolReturnedEmpty' /\ DtorProgress'
    BY <1>8, <1>a DEF NotifyAll, Sleeping, PoolTypeOK
  <2>3. QED
    BY <1>a, <2>1, <2>2
<1>9. CASE JoinAll
  BY <1>9, <1>a DEF JoinAll, TaskInOnePlace, Held
<1>10. CASE UNCHANGED poolVars
  BY <1>10, <1>a DEF poolVars, TaskInOnePlace, Held
<1>11. QED
  BY <1>1, <1>2, <1>3, <1>4, <1>5, <1>6, <1>7, <1>8, <1>9, <1>10
  DEF PoolNext, ClientStep, WorkerStep, DtorStep, EnqueueThrows, PoolEnded

\* The inductive invariant holds in every state.
THEOREM PoolInductive == PoolSpec => []PoolInv
BY PoolInductiveInit, PoolInductiveStep, PTL DEF PoolSpec

(***************************************************************************)
(* A task that enqueue accepted is in the queue once, or with one worker,  *)
(* or done, whatever the interleaving: it is neither lost nor run twice.   *)
(***************************************************************************)
THEOREM TaskCorrect == PoolSpec => []TaskInOnePlace
<1>1. PoolInv => TaskInOnePlace
  BY DEF PoolInv
<1>2. QED
  BY <1>1, PoolInductive, PTL

(***************************************************************************)
(* When ~ThreadPool returns, the future of every accepted task is ready.   *)
(***************************************************************************)
THEOREM ShutdownCorrect == PoolSpec => []AllTasksRun
<1>1. PoolInv => AllTasksRun
  <2> SUFFICES ASSUME PoolInv, dtor = "done", NEW c \in Client, client[c] = "get"
               PROVE  ready[c]
    BY DEF AllTasksRun
  <2>1. \A w \in Worker : pool[w] = "returned"
    BY DEF PoolInv, DtorProgress
  <2>2. tasks = <<>>
    BY <2>1, PoolAssumption DEF PoolInv, PoolReturnedEmpty
  <2>3. ~Held(c)
    BY <2>1 DEF PoolInv, HeldWhileRunning, Held
  <2>4. ~InQueue(tasks, c)
    BY <2>2 DEF InQueue
  <2>5. QED
    BY <2>3, <2>4 DEF PoolInv, TaskInOnePlace
<1>2. QED
  BY <1>1, PoolInductive, PTL

-----------------------------------------------------------------------------
(* Wakeups.                                                                *)

AtLock == {w \in Worker : pool[w] = "lock"}
Notifying == {c \in Client : client[c] = "notify"}

\* Both are finite, so that their cardinalities are numbers to count with.
LEMMA CountsFinite ==
    /\ IsFiniteSet(AtLock) /\ Cardinality(AtLock) \in Nat
    /\ IsFiniteSet(Notifying) /\ Cardinality(Notifying) \in Nat
<1>1. AtLock \subseteq Worker /\ Notifying \subseteq Client
  BY DEF AtLock, Notifying
<1>2. IsFiniteSet(AtLock) /\ IsFiniteSet(Notifying)
  BY <1>1, FS_Subset, PoolAssumption
<1>3. QED
  BY <1>2, FS_CardinalityType

\* NoLostWakeup in terms of the two sets.
LEMMA WakeupCounts ==
    NoLostWakeup <=>
        (Sleeping # {} => Len(tasks) =< Cardinality(AtLock) + Cardinality(Notifying))
BY DEF NoLostWakeup, AtLock, Notifying

\* No step leaves a sleeping worker and a task that nobody will come for.
LEMMA WakeupStep == PoolTypeOK /\ NoLostWakeup /\ [PoolNext]_poolVars => NoLostWakeup'
<1> SUFFICES ASSUME PoolTypeOK, NoLostWakeup, [PoolNext]_poolVars, (Sleeping # {})'
             PROVE  Len(tasks') =< Cardinality(AtLock') + Cardinality(Notifying')
  BY DEF NoLostWakeup, AtLock, Notifying, Sleeping
<1> DEFINE L == Cardinality(AtLock)
           N == Cardinality(Notifying)
<1>a. /\ IsFiniteSet(AtLock) /\ L \in Nat /\ IsFiniteSet(Notifying) /\ N \in Nat
      /\ Len(tasks) \in Nat /\ tasks \in Seq(Client)
  BY CountsFinite DEF PoolTypeOK
<1>b. Cardinality(AtLock') \in Nat /\ Cardinality(Notifying') \in Nat
  <2>1. AtLock' \subseteq Worker /\ Notifying' \subseteq Client
    BY DEF AtLock, Notifying
  <2>2. IsFiniteSet(AtLock') /\ IsFiniteSet(Notifying')
    BY <2>1, FS_Subset, PoolAssumption
  <2>3. QED
    BY <2>2, FS_CardinalityType
<1>c. Sleeping # {} => Len(tasks) =< L + N
  BY WakeupCounts
<1>1. ASSUME NEW c \in Client, EnqueueTask(c)
      PROVE  Len(tasks') =< Cardinality(AtLock') + Cardinality(Notifying')
  <2>1. Sleeping # {} /\ AtLock' = AtLock
    BY <1>1 DEF EnqueueTask, Sleeping, AtLock
  <2>2. Notifying' = Notifying \cup {c} /\ c \notin Notifying
    BY <1>1 DEF EnqueueTask, Notifying, PoolTypeOK
  <2>3. Cardinality(Notifying') = N + 1
    BY <1>a, <2>2, FS_AddElement
  <2>4. Len(tasks') = Len(tasks) + 1
    BY <1>1, <1>a DEF EnqueueTask
  <2>5. QED
    BY <1>a, <1>c, <2>1, <2>3, <2>4
<1>2. ASSUME NEW c \in Client, EnqueueNotify(c)
      PROVE  Len(tasks') =< Cardinality(AtLock') + Cardinality(Notifying')
  <2>1. Sleeping # {}
    BY <1>2 DEF EnqueueNotify, Sleeping
  <2>2. PICK w \in Sleeping : pool' = [pool EXCEPT ![w] = "lock"]
    BY <1>2, <2>1 DEF EnqueueNotify
  <2>3. AtLock' = AtLock \cup {w} /\ w \notin AtLock
    BY <2>2 DEF AtLock, Sleeping, PoolTypeOK
  <2>4. Notifying' = Notifying \ {c} /\ c \in Notifying
    BY <1>2 DEF EnqueueNotify, Notifying, PoolTypeOK
  <2>5. Cardinality(AtLock') = L + 1
    BY <1>a, <2>3, FS_AddElement
  <2>6. Cardinality(Notifying') = N - 1
    BY <1>a, <2>4, FS_RemoveElement
  <2>7. tasks' = tasks
    BY <1>2 DEF EnqueueNotify
  <2>8. QED
    BY <1>a, <1>c, <2>1, <2>5, <2>6, <2>7
<1>3. ASSUME NEW c \in Client, Get(c)
      PROVE  Len(tasks') =< Cardinality(AtLock') + Cardinality(Notifying')
  <2>1. /\ Sleeping # {} /\ AtLock' = AtLock /\ Notifying' = Notifying
        /\ tasks' = tasks
    BY <1>3 DEF Get, Sleeping, AtLock, Notifying, PoolTypeOK
  <2>2. QED
    BY <1>c, <2>1
<1>4. ASSUME NEW w \in Worker, Sleep(w) \/ Return(w)
      PROVE  Len(tasks') =< Cardinality(AtLock') + Cardinality(Notifying')
  <2>1. tasks' = <<>>
    BY <1>4 DEF Sleep, Return, MayProceed
  <2>2. Len(tasks') = 0
    BY <2>1
  <2>3. QED
    BY <1>b, <2>2
<1>5. ASSUME NEW w \in Worker, Take(w)
      PROVE  Len(tasks') =< Cardinality(AtLock') + Cardinality(Notifying')
  <2>1. Sleeping # {} /\ Notifying' = Notifying
    BY <1>5 DEF Take, Sleeping, Notifying, PoolTypeOK
  <2>2. AtLock' = AtLock \ {w} /\ w \in AtLock
    BY <1>5 DEF Take, AtLock, PoolTypeOK
  <2>3. Cardinality(AtLock') = L - 1
    BY <1>a, <2>2, FS_RemoveElement
  <2>4. Len(tasks') = Len(tasks) - 1
    BY <1>5, <1>a, HeadTailProperties DEF Take
  <2>5. QED
    BY <1>a, <1>c, <2>1, <2>3, <2>4
<1>6. ASSUME NEW w \in Worker, PoolWakeup(w) \/ Run(w)
      PROVE  Len(tasks') =< Cardinality(AtLock') + Cardinality(Notifying')
  <2>1. Sleeping # {} /\ Notifying' = Notifying /\ tasks' = tasks
    BY <1>6 DEF PoolWakeup, Run, Sleeping, Notifying, PoolTypeOK
  <2>2. AtLock' = AtLock \cup {w} /\ w \notin AtLock
    BY <1>6 DEF PoolWakeup, Run, AtLock, PoolTypeOK
  <2>3. Cardinality(AtLock') = L + 1
    BY <1>a, <2>2, FS_AddElement
  <2>4. QED
    BY <1>a, <1>c, <2>1, <2>3
<1>7. CASE NotifyAll
  BY <1>7 DEF NotifyAll, Sleeping, PoolTypeOK
<1>8. CASE UNCHANGED <<tasks, client, pool>>
  <2>1. /\ Sleeping # {} /\ AtLock' = AtLock /\ Notifying' = Notifying
        /\ tasks' = tasks
    BY <1>8 DEF Sleeping, AtLock, Notifying
  <2>2. QED
    BY <1>c, <2>1
<1>9. QED
  BY <1>1, <1>2, <1>3, <1>4, <1>5, <1>6, <1>7, <1>8
  DEF PoolNext, ClientStep, WorkerStep, DtorStep, EnqueueThrows, SetStop, JoinAll,
      PoolEnded, poolVars

(***************************************************************************)
(* enqueue's notify_one after the unlock never leaves a queued task        *)
(* without a worker that will look at the queue.                           *)
(***************************************************************************)
THEOREM WakeupCorrect == PoolSpec => []NoLostWakeup
<1>1. PoolInit => NoLostWakeup
  BY DEF PoolInit, NoLostWakeup, Sleeping
<1>2. PoolInv => PoolTypeOK
  BY DEF PoolInv
<1>3. QED
  BY <1>1, <1>2, WakeupStep, PoolInductive, PTL DEF PoolSpec

=============================================================================
