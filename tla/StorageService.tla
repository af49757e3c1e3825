--------------------------- MODULE StorageService ---------------------------
(***************************************************************************)
(* The file storage server (HttpServer/src/server): the libevent handlers  *)
(* of Service.hpp, the table of DataManager.hpp and its storage file, and  *)
(* the files of FileUtil.  One thread runs the handlers one after another; *)
(* the process may be killed between any two file operations and started   *)
(* again, and a write may fail.                                            *)
(*                                                                         *)
(* A file holds a sequence: <<>> when it is cut off (opening it for        *)
(* writing truncates it), <<d>> for the data d and <<"z", d>> for d        *)
(* packed.  Directories are not modelled: they are created when needed.    *)
(***************************************************************************)
EXTENDS Integers, Sequences, FiniteSets, Functions

CONSTANTS
    Name,       \* file names, that is base64_decode(FileName)
    Data,       \* contents of an upload
    Size,       \* Size[d]: length of d
    IntMax      \* the largest value of Json's asInt

ASSUME StorageAssumption ==
    /\ Size \in [Data -> Nat \ {0}]
    /\ IntMax \in Nat

VARIABLES
    proc,       \* "down", "load" (in InitLoad) or "up"
    pc,         \* the step of the handler being run, "idle" between events
    req,        \* the request being handled
    table_,     \* DataManager::table_, from file names (url_ less its prefix)
    toLoad,     \* entries read by InitLoad and not inserted yet
    infoFile,   \* what storage_info_ (storage.data) deserialises to
    disk,       \* the stored files, from <<tier, name>>
    reply,      \* the replies to the last request and the file sent
    acked,      \* history: data and tier of the last upload of each name
                \* answered 200, or <<>>
    dirty,      \* history: files being written, or left damaged
    torn        \* history: storage_info_ was ever left damaged

serverVars == <<proc, pc, req, table_, toLoad, infoFile, disk, reply,
                acked, dirty, torn>>

Tier == {"low", "deep"}
Empty == [n \in {} |-> <<>>]
NoReq == [op |-> "none"]
NoReply == [codes |-> <<>>]

(* bundle::pack and unpack, and the two ways of storing. *)
Pack(d) == <<"z", d>>
Unpack(c) == IF Len(c) = 2 THEN <<c[2]>> ELSE <<>>
Stored(t, d) == IF t = "deep" THEN Pack(d) ELSE <<d>>

Put(f, k, v) == [x \in DOMAIN f \cup {k} |-> IF x = k THEN v ELSE f[x]]
Drop(f, k) == Restrict(f, DOMAIN f \ {k})

Exists(p) == p \in DOMAIN disk

-----------------------------------------------------------------------------
Init ==
    /\ proc = "down" /\ pc = "idle" /\ req = NoReq
    /\ table_ = Empty /\ toLoad = Empty /\ infoFile = Empty
    /\ disk = Empty
    /\ reply = NoReply
    /\ acked = [n \in Name |-> <<>>]
    /\ dirty = {} /\ torn = FALSE

(* main: DataManager's constructor calls InitLoad, which reads the whole   *)
(* storage file before it inserts anything.                                *)
Start ==
    /\ proc = "down"
    /\ proc' = "load"
    /\ table_' = Empty
    /\ toLoad' = infoFile
    /\ UNCHANGED <<pc, req, infoFile, disk, reply, acked, dirty, torn>>

(* One turn of InitLoad's loop: Insert stores the entry and rewrites the   *)
(* storage file with the entries loaded so far; asInt throws for a size    *)
(* that does not fit, and nothing catches it.                              *)
InitLoad(n) ==
    /\ proc = "load" /\ n \in DOMAIN toLoad
    /\ IF toLoad[n].fsize_ <= IntMax
         THEN /\ table_' = Put(table_, n, toLoad[n])
              /\ infoFile' = table_'
              /\ toLoad' = Drop(toLoad, n)
              /\ UNCHANGED <<proc, torn>>
         ELSE /\ proc' = "down" /\ table_' = Empty /\ toLoad' = Empty
              /\ torn' = (torn \/ table_ # Empty)
              /\ UNCHANGED infoFile
    /\ UNCHANGED <<pc, req, disk, reply, acked, dirty>>

(* RunModule, once the table is loaded: the event loop runs. *)
RunModule ==
    /\ proc = "load" /\ toLoad = Empty
    /\ proc' = "up"
    /\ UNCHANGED <<pc, req, table_, toLoad, infoFile, disk, reply, acked,
                   dirty, torn>>

-----------------------------------------------------------------------------
(* GenHandler runs one handler at a time, for one request. *)
GenHandler == proc = "up" /\ pc = "idle"

Answer(code) == reply' = [codes |-> <<code>>]

(* A path that is none of the three. *)
NotFound ==
    /\ GenHandler
    /\ Answer(404)
    /\ UNCHANGED <<proc, pc, req, table_, toLoad, infoFile, disk, acked,
                   dirty, torn>>

(* Upload refused: no body, no known storage type, the file cannot be      *)
(* opened or what Compress packed is empty.                                *)
UploadRefused(code) ==
    /\ GenHandler
    /\ Answer(code)
    /\ UNCHANGED <<proc, pc, req, table_, toLoad, infoFile, disk, acked,
                   dirty, torn>>

(* Upload of data d under name n: SetContent opens the file. *)
Upload(n, t, d) ==
    /\ GenHandler
    /\ req' = [op |-> "upload", name |-> n, tier |-> t, data |-> d, good |-> TRUE]
    /\ disk' = Put(disk, <<t, n>>, <<>>)
    /\ dirty' = dirty \cup {<<t, n>>}
    /\ reply' = NoReply
    /\ pc' = "write"
    /\ UNCHANGED <<proc, table_, toLoad, infoFile, acked, torn>>

(* SetContent writes; it returns true whether the write was good or not. *)
SetContent(good) ==
    /\ proc = "up" /\ pc = "write"
    /\ disk' = Put(disk, <<req.tier, req.name>>,
                   IF good THEN Stored(req.tier, req.data) ELSE <<>>)
    /\ req' = [req EXCEPT !.good = good]
    /\ pc' = "insert"
    /\ UNCHANGED <<proc, table_, toLoad, infoFile, reply, acked, dirty,
                   torn>>

(* NewStorageInfo reads the file's attributes; the times are only shown.   *)
NewStorageInfo(t, c) ==
    [tier |-> t,
     fsize_ |-> IF c = <<>> THEN 0 ELSE Size[c[Len(c)]]]

(* Mutant: an entry that is already there is replaced without Storage. *)
Insert_unsaved(opened) ==
    /\ proc = "up" /\ pc = "insert"
    /\ table_' = Put(table_, req.name,
                     NewStorageInfo(req.tier, disk[<<req.tier, req.name>>]))
    /\ IF req.name \in DOMAIN table_
         THEN pc' = "done" /\ UNCHANGED <<infoFile, torn>>
         ELSE /\ infoFile' = IF opened THEN Empty ELSE infoFile
              /\ torn' = (torn \/ ~opened)
              /\ pc' = IF opened THEN "store" ELSE "done"
    /\ UNCHANGED <<proc, req, toLoad, disk, reply, acked, dirty>>

(* Insert, then Storage opens (and so truncates) the storage file; when it *)
(* cannot, the error is only logged.                                       *)
Insert(opened) ==
    /\ proc = "up" /\ pc = "insert"
    /\ table_' = Put(table_, req.name,
                     NewStorageInfo(req.tier, disk[<<req.tier, req.name>>]))
    /\ infoFile' = IF opened THEN Empty ELSE infoFile
    /\ torn' = (torn \/ ~opened)
    /\ pc' = IF opened THEN "store" ELSE "done"
    /\ UNCHANGED <<proc, req, toLoad, disk, reply, acked, dirty>>

(* Storage writes the table; again a failed write is not reported. *)
Storage(good) ==
    /\ proc = "up" /\ pc = "store"
    /\ infoFile' = IF good THEN table_ ELSE Empty
    /\ torn' = (torn \/ ~good)
    /\ pc' = "done"
    /\ UNCHANGED <<proc, req, table_, toLoad, disk, reply, acked, dirty>>

UploadDone ==
    /\ proc = "up" /\ pc = "done"
    /\ Answer(200)
    /\ acked' = [acked EXCEPT ![req.name] = <<req.data, req.tier>>]
    /\ dirty' = IF req.good THEN dirty \ {<<req.tier, req.name>>} ELSE dirty
    /\ pc' = "idle" /\ req' = NoReq
    /\ UNCHANGED <<proc, table_, toLoad, infoFile, disk, torn>>

-----------------------------------------------------------------------------
(* ListShow: the page lists every entry (its names, here). *)
ListShow ==
    /\ GenHandler
    /\ reply' = [codes |-> <<200>>, list |-> DOMAIN table_]
    /\ UNCHANGED <<proc, pc, req, table_, toLoad, infoFile, disk, acked,
                   dirty, torn>>

(* GetOneByURL takes rwlock_ twice and never gives it back: the C library  *)
(* refuses the second call of the thread that holds it, and no other       *)
(* thread ever asks.                                                       *)
(*                                                                         *)
(* Download of a URL that is not in the table: info stays as constructed,  *)
(* its path is empty, and what is opened and sent with 200 is the          *)
(* directory of plain files.                                               *)
DownloadUnknown(n) ==
    /\ GenHandler /\ n \notin DOMAIN table_
    /\ Answer(200)
    /\ UNCHANGED <<proc, pc, req, table_, toLoad, infoFile, disk, acked,
                   dirty, torn>>

(* Mutant: an unpacked copy found on the disk is not unpacked again. *)
Download_reused(n, retrans) ==
    /\ GenHandler /\ n \in DOMAIN table_
    /\ req' = [op |-> "download", name |-> n, tier |-> table_[n].tier,
               retrans |-> retrans]
    /\ disk' = IF table_[n].tier = "deep" /\ Exists(<<"deep", n>>)
                    /\ ~Exists(<<"low", n>>)
                 THEN Put(disk, <<"low", n>>, Unpack(disk[<<"deep", n>>]))
                 ELSE disk
    /\ reply' = NoReply /\ pc' = "send"
    /\ UNCHANGED <<proc, table_, toLoad, infoFile, acked, dirty, torn>>

(* Download of a known one; a packed file is unpacked among the plain ones *)
(* under its own name first.  retrans: the If-Range header is the entry's  *)
(* ETag, which only changes the code of the reply.                         *)
Download(n, retrans) ==
    /\ GenHandler /\ n \in DOMAIN table_
    /\ req' = [op |-> "download", name |-> n, tier |-> table_[n].tier,
               retrans |-> retrans]
    /\ LET src == <<"deep", n>> IN
       disk' = IF table_[n].tier = "deep" /\ Exists(src)
                 THEN Put(disk, <<"low", n>>, Unpack(disk[src]))
                 ELSE disk
    /\ reply' = NoReply
    /\ pc' = "send"
    /\ UNCHANGED <<proc, table_, toLoad, infoFile, acked, dirty, torn>>

(* The rest of Download: the checks, the reply and the removal of the      *)
(* unpacked copy.  A missing packed file is answered twice.                *)
DownloadSend ==
    /\ proc = "up" /\ pc = "send"
    /\ LET low == <<"low", req.name>>
           code == IF req.retrans THEN 206 ELSE 200 IN
       IF Exists(low)
         THEN /\ reply' = [codes |-> <<code>>, name |-> req.name,
                           body |-> disk[low]]
              /\ disk' = IF req.tier = "deep" THEN Drop(disk, low) ELSE disk
         ELSE /\ reply' = [codes |-> IF req.tier = "deep" THEN <<500, 404>>
                                                         ELSE <<404>>]
              /\ UNCHANGED disk
    /\ pc' = "idle" /\ req' = NoReq
    /\ UNCHANGED <<proc, table_, toLoad, infoFile, acked, dirty, torn>>

-----------------------------------------------------------------------------
(* The process is killed, at any point. *)
Crash ==
    /\ proc # "down"
    /\ proc' = "down"
    /\ torn' = (torn \/ pc = "store" \/ (toLoad # Empty /\ table_ # Empty))
    /\ table_' = Empty /\ toLoad' = Empty
    /\ pc' = "idle" /\ req' = NoReq
    /\ UNCHANGED <<infoFile, disk, reply, acked, dirty>>

(* A stored file is removed by hand, which Download provides for. *)
Remove(p) ==
    /\ pc = "idle" /\ Exists(p)
    /\ disk' = Drop(disk, p)
    /\ dirty' = dirty \cup {p}
    /\ UNCHANGED <<proc, pc, req, table_, toLoad, infoFile, reply, acked,
                   torn>>

-----------------------------------------------------------------------------
(* Properties.                                                             *)

(* What Download sends with 200 or 206 is the data of the last upload      *)
(* acknowledged under that name, whichever of the two directories holds    *)
(* it, whatever uploads, downloads and crashes came between, unless that   *)
(* very file was left damaged by a fault or is being replaced, or the      *)
(* table, read back after Storage failed, names the other directory.       *)
DownloadFaithful ==
    "body" \in DOMAIN reply /\ reply.name \in DOMAIN table_ =>
        LET n == reply.name
            t == table_[n].tier
        IN \/ <<t, n>> \in dirty
           \/ acked[n][2] # t
           \/ reply.body = <<acked[n][1]>>

(* Once InitLoad is over and between two events, every acknowledged upload *)
(* is in the table and the storage file says the same as the table: only a *)
(* crash between the truncation and the write of the storage file, one     *)
(* among the rewrites of InitLoad, or a failed write can lose an entry.    *)
DurableListed ==
    proc = "up" /\ pc = "idle" /\ ~torn =>
        /\ \A n \in Name : acked[n] # <<>> => n \in DOMAIN table_
        /\ infoFile = table_
=============================================================================
