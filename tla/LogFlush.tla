------------------------------- MODULE LogFlush -------------------------------
(***************************************************************************)
(* The sinks of the logger (logs_code/LogFlush.hpp) as RealFlush of        *)
(* AsyncLogger drives them from the worker's thread: first a FileFlush,    *)
(* then a RollFileFlush, the pair that examples/test.cpp builds.  Bytes    *)
(* are counted, not kept.  A byte that fwrite took is in the process, in   *)
(* the kernel or on the disk; the process can be killed and the machine    *)
(* can lose power between any two calls, and the program started again.    *)
(***************************************************************************)
EXTENDS Integers, FiniteSetsExt

CONSTANTS
    FlushModes,     \* the settings of flush_log that are tried
    max_size_,      \* a rolled file is full from this size on
    Chunk,          \* the lengths RealFlush may be given; 0 is one of them,
                    \* because the worker also flushes an empty buffer
    MaxBytes,       \* bound: bytes given to the sinks in all
    Clock,          \* the seconds of an hour at which things happen
    MaxRestarts     \* bound: how often the program is started again

ASSUME FlushAssumption ==
    /\ FlushModes \subseteq 0 .. 2 /\ FlushModes # {}
    /\ {max_size_, MaxBytes, MaxRestarts} \subseteq Nat
    /\ Chunk \subseteq Nat /\ Chunk # {} /\ IsFiniteSet(Chunk)  \* a length is a size_t
    /\ Clock \subseteq 0 .. 3599 /\ Clock # {}

VARIABLES
    flush_log,      \* g_conf_data->flush_log: 0, 1 fflush, 2 fsync
    pc,             \* the next call of RealFlush, "idle" between two of them
    chunk,          \* the length being flushed
    log,            \* the file of FileFlush
    rolls,          \* the files of RollFileFlush, by name
    fs_,            \* the name of the open one, or NoFile
    cur_size_, cnt_,
    now, restarts,
    acked,          \* history: bytes of this run's RealFlush calls that returned
    base            \* history: bytes in the two sinks, and on disk, when this
                    \* run started

vars == <<flush_log, pc, chunk, log, rolls, fs_, cur_size_, cnt_, now, restarts,
          acked, base>>

NoFile == <<>>
File == [size : Nat, kernel : Nat, disk : Nat, opens : Nat]
NewFile == [size |-> 0, kernel |-> 0, disk |-> 0, opens |-> 0]

TotalSize(files) == SumFunction([n \in DOMAIN files |-> files[n].size])
TotalDisk(files) == SumFunction([n \in DOMAIN files |-> files[n].disk])

Init ==
    /\ flush_log \in FlushModes
    /\ pc = "idle"
    /\ chunk = 0
    /\ log = [NewFile EXCEPT !.opens = 1]
    /\ rolls = <<>>
    /\ fs_ = NoFile
    /\ cur_size_ = 0
    /\ cnt_ = 1
    /\ now = Min(Clock)
    /\ restarts = 0
    /\ acked = 0
    /\ base = [log |-> 0, rolls |-> 0, logDisk |-> 0, rollsDisk |-> 0]

-----------------------------------------------------------------------------
(* stdio and the file system (external).                                   *)

\* fwrite: the library may pass on any part of what it buffers.
Fwrite(f, n) ==
    {[f EXCEPT !.size = @ + n, !.kernel = k] : k \in f.kernel .. f.size + n}

Fflush(f) == [f EXCEPT !.kernel = f.size]
Fsync(f) == [f EXCEPT !.disk = f.kernel]

Killed(f) == [f EXCEPT !.size = f.kernel]
PowerLost(f) == {[f EXCEPT !.size = k, !.kernel = k, !.disk = k] : k \in f.disk .. f.kernel}

-----------------------------------------------------------------------------
(* The calls of RealFlush, in order.                                       *)

RealFlush(n) ==
    /\ pc = "idle"
    /\ log.size + n =< MaxBytes
    /\ chunk' = n
    /\ pc' = "file_write"
    /\ UNCHANGED <<flush_log, log, rolls, fs_, cur_size_, cnt_, now, restarts, acked, base>>

FileWrite ==
    /\ pc = "file_write"
    /\ log' \in Fwrite(log, chunk)
    /\ pc' = "file_sync"
    /\ UNCHANGED <<flush_log, chunk, rolls, fs_, cur_size_, cnt_, now, restarts, acked, base>>

\* What both sinks do after fwrite.
Synced_NoFlush(f) == IF flush_log = 2 THEN Fsync(f) ELSE f

Synced(f) ==
    CASE flush_log = 1 -> Fflush(f)
      [] flush_log = 2 -> Fsync(Fflush(f))
      [] OTHER -> f

FileSync ==
    /\ pc = "file_sync"
    /\ log' = Synced(log)
    /\ pc' = "roll"
    /\ UNCHANGED <<flush_log, chunk, rolls, fs_, cur_size_, cnt_, now, restarts, acked, base>>

NeedsRoll_OffByOne == fs_ = NoFile \/ cur_size_ > max_size_

NeedsRoll == fs_ = NoFile \/ cur_size_ >= max_size_

(***************************************************************************)
(* The name is the date and time, each field printed without padding or    *)
(* separator, and the count of files that this run has opened.             *)
(***************************************************************************)
Printed(a, b) == IF b < 10 THEN 10 * a + b ELSE 100 * a + b

CreateFilename == <<Printed((now \div 60) + 1, (now % 60) + 1), cnt_>>

\* fopen(name, "ab") appends to a file of that name if there is one.
Reopened_Truncate(files, name) ==
    [n \in DOMAIN files \cup {name} |->
        IF n = name THEN [NewFile EXCEPT !.opens = 1] ELSE files[n]]

Reopened(files, name) ==
    LET f == IF name \in DOMAIN files THEN files[name] ELSE NewFile
    IN  [n \in DOMAIN files \cup {name} |->
            IF n = name THEN [f EXCEPT !.opens = @ + 1] ELSE files[n]]

\* fclose passes what is buffered to the kernel, and does not fsync.
Closed(files) ==
    [n \in DOMAIN files |-> IF n = fs_ THEN Fflush(files[n]) ELSE files[n]]

InitLogFile ==
    /\ pc = "roll"
    /\ IF NeedsRoll
       THEN /\ rolls' = Reopened(Closed(rolls), CreateFilename)
            /\ fs_' = CreateFilename
            /\ cnt_' = cnt_ + 1
            /\ cur_size_' = 0
       ELSE UNCHANGED <<rolls, fs_, cnt_, cur_size_>>
    /\ pc' = "roll_write"
    /\ UNCHANGED <<flush_log, chunk, log, now, restarts, acked, base>>

RollWrite_Cut ==
    /\ pc = "roll_write"
    /\ \E f \in Fwrite(rolls[fs_], Min({chunk, max_size_ - cur_size_})) :
          rolls' = [rolls EXCEPT ![fs_] = f]
    /\ cur_size_' = cur_size_ + chunk
    /\ pc' = "roll_sync"
    /\ UNCHANGED <<flush_log, chunk, log, fs_, cnt_, now, restarts, acked, base>>

RollWrite ==
    /\ pc = "roll_write"
    /\ \E f \in Fwrite(rolls[fs_], chunk) : rolls' = [rolls EXCEPT ![fs_] = f]
    /\ cur_size_' = cur_size_ + chunk
    /\ pc' = "roll_sync"
    /\ UNCHANGED <<flush_log, chunk, log, fs_, cnt_, now, restarts, acked, base>>

RollSync ==
    /\ pc = "roll_sync"
    /\ rolls' = [rolls EXCEPT ![fs_] = Synced(@)]
    /\ pc' = "idle"
    /\ acked' = acked + chunk
    /\ UNCHANGED <<flush_log, chunk, log, fs_, cur_size_, cnt_, now, restarts, base>>

-----------------------------------------------------------------------------
(* The world around: the clock, the end of the process, a new start.       *)

Tick ==
    /\ now' \in {t \in Clock : t > now}
    /\ UNCHANGED <<flush_log, pc, chunk, log, rolls, fs_, cur_size_, cnt_, restarts, acked, base>>

Running == pc \notin {"killed", "exited", "power_lost"}

(***************************************************************************)
(* The process dies: from outside, or because an fopen that fails leaves   *)
(* fs_ NULL for the fwrite that follows.                                   *)
(***************************************************************************)
Kill ==
    /\ Running
    /\ log' = Killed(log)
    /\ rolls' = [n \in DOMAIN rolls |-> Killed(rolls[n])]
    /\ pc' = "killed"
    /\ UNCHANGED <<flush_log, chunk, fs_, cur_size_, cnt_, now, restarts, acked, base>>

PowerLoss ==
    /\ Running
    /\ log' \in PowerLost(log)
    /\ rolls' \in [DOMAIN rolls -> UNION {PowerLost(rolls[n]) : n \in DOMAIN rolls}]
    /\ \A n \in DOMAIN rolls : rolls'[n] \in PowerLost(rolls[n])
    /\ pc' = "power_lost"
    /\ UNCHANGED <<flush_log, chunk, fs_, cur_size_, cnt_, now, restarts, acked, base>>

\* exit() flushes the streams that no destructor closes.
Exit ==
    /\ pc = "idle"
    /\ log' = Fflush(log)
    /\ rolls' = Closed(rolls)
    /\ pc' = "exited"
    /\ UNCHANGED <<flush_log, chunk, fs_, cur_size_, cnt_, now, restarts, acked, base>>

Restart ==
    /\ ~Running
    /\ restarts < MaxRestarts
    /\ restarts' = restarts + 1
    /\ pc' = "idle"
    /\ log' = [log EXCEPT !.opens = @ + 1]
    /\ fs_' = NoFile
    /\ cur_size_' = 0
    /\ cnt_' = 1
    /\ acked' = 0
    /\ base' = [log |-> log.size, rolls |-> TotalSize(rolls),
                logDisk |-> log.disk, rollsDisk |-> TotalDisk(rolls)]
    /\ flush_log' \in FlushModes        \* config.conf is read again
    /\ UNCHANGED <<chunk, rolls, now>>

\* The program is not started again.
Ended ==
    /\ ~Running /\ restarts = MaxRestarts
    /\ UNCHANGED vars

Next ==
    \/ \E n \in Chunk : RealFlush(n)
    \/ FileWrite \/ FileSync \/ InitLogFile \/ RollWrite \/ RollSync
    \/ Tick \/ Kill \/ PowerLoss \/ Exit \/ Restart
    \/ Ended

Spec == Init /\ [][Next]_vars

-----------------------------------------------------------------------------
(* Properties.                                                             *)

(***************************************************************************)
(* What RealFlush has returned for survives: an orderly exit always, the   *)
(* death of the process from flush_log 1 on, a power loss with 2           *)
(* (Util.hpp:174, "1 calls fflush, 2 calls fsync").                        *)
(***************************************************************************)
AckedSurvives ==
    LET AllThere(l, r) == log.size >= l + acked /\ TotalSize(rolls) >= r + acked
    IN  /\ pc = "exited" => AllThere(base.log, base.rolls)
        /\ pc = "killed" /\ flush_log >= 1 => AllThere(base.log, base.rolls)
        /\ pc = "power_lost" /\ flush_log = 2
              => AllThere(base.logDisk, base.rollsDisk)

\* Between two calls of RealFlush both sinks have got the same bytes.
SinksAgree ==
    pc = "idle" => log.size - base.log = TotalSize(rolls) - base.rolls

(***************************************************************************)
(* Each time a rolled file is opened it takes less than max_size_ bytes    *)
(* and one chunk more (InitLogFile rolls before a write, not after).       *)
(***************************************************************************)
RolledBounded ==
    \A n \in DOMAIN rolls :
        rolls[n].size =< rolls[n].opens * (Max({max_size_, 1}) - 1 + Max(Chunk))

(***************************************************************************)
(* Rolling, reopening and restarting take no byte away from the files:     *)
(* only a dying process or machine does (fopen's mode is "ab").            *)
(***************************************************************************)
NothingOverwritten ==
    [][pc' \notin {"killed", "power_lost"}
         => TotalSize(rolls') >= TotalSize(rolls) /\ log'.size >= log.size]_vars

=============================================================================
