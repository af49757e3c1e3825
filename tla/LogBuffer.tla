------------------------------ MODULE LogBuffer ------------------------------
(***************************************************************************)
(* mylog::Buffer (logs_code/AsyncBuffer.hpp): the byte buffer that the     *)
(* asynchronous logger fills and drains.  The bytes are abstracted to the  *)
(* sequence of messages they hold; the two numbers the code computes with, *)
(* buffer_.size() and write_pos_, are kept.  read_pos_ is 0 in every state *)
(* (the constructor and Reset set it, MoveReadPos has no caller), so it is *)
(* not part of the record.                                                 *)
(***************************************************************************)
EXTENDS Integers, Sequences

CONSTANTS
    Message,        \* the log messages
    MsgLen,         \* MsgLen[m] is data.size() of message m
    BufferSize,     \* g_conf_data->buffer_size
    Threshold,      \* g_conf_data->threshold
    LinearGrowth,   \* g_conf_data->linear_growth
    IntMod,         \* 2^w for the w bits of an int (scaled down with the sizes)
    MaxAlloc        \* the largest vector the allocator grants

ASSUME BufferAssumption ==
    /\ Message # {}
    /\ MsgLen \in [Message -> Nat \ {0}]      \* format() ends in a newline
    /\ BufferSize \in Nat \ {0}
    /\ Threshold \in Nat
    /\ LinearGrowth \in Nat
    /\ IntMod \in Nat \ {0}
    /\ MaxAlloc \in Nat

Buffer == [size : Nat, write_pos : Nat, items : Seq(Message)]

NewBuffer == [size |-> BufferSize, write_pos |-> 0, items |-> <<>>]

IsEmpty(b) == b.write_pos = 0

WriteableSize(b) == b.size - b.write_pos

Reset(b) == [size |-> b.size, write_pos |-> 0, items |-> <<>>]

(***************************************************************************)
(* int buffersize = buffer_.size(): the conversion of a size_t to a        *)
(* narrower signed integer keeps the value modulo 2^w.                     *)
(***************************************************************************)
AsInt(n) ==
    LET r == n % IntMod
    IN  IF 2 * r < IntMod THEN r ELSE r - IntMod

GrownSize(b) ==
    IF b.size < Threshold
    THEN 2 * b.size + AsInt(b.size)
    ELSE LinearGrowth + AsInt(b.size)

NeedsGrowth(b, len) == len >= WriteableSize(b)

(***************************************************************************)
(* resize throws (bad_alloc, length_error) when the size asked for, which  *)
(* a negative sum turns into a huge size_t, is more than can be had.       *)
(***************************************************************************)
ResizeThrows(b, len) ==
    NeedsGrowth(b, len) /\ GrownSize(b) \notin 0 .. MaxAlloc

ToBeEnough_Exact(b, len) ==
    [b EXCEPT !.size = IF NeedsGrowth(b, len) THEN b.write_pos + len - 1 ELSE @]

ToBeEnough(b, len) ==
    [b EXCEPT !.size = IF NeedsGrowth(b, len) THEN GrownSize(b) ELSE @]

BufferPush(b, m) ==
    LET roomy == ToBeEnough(b, MsgLen[m])
    IN  [size      |-> roomy.size,
         write_pos |-> roomy.write_pos + MsgLen[m],
         items     |-> Append(roomy.items, m)]

(***************************************************************************)
(* The bytes written so far lie inside the vector.  Past this point the    *)
(* std::copy of Push writes outside buffer_ and the program is undefined.  *)
(***************************************************************************)
WithinBounds(b) == b.write_pos =< b.size

=============================================================================
