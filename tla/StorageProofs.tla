---------------------------- MODULE StorageProofs ----------------------------
(* The storage server keeps what it has acknowledged, and sends it back,   *)
(* for any names, contents, requests and faults.                           *)
EXTENDS StorageClient, SequenceTheorems, TLAPS

(* The client's part of the state, as far as the server sees it. *)
ClientInv == ver \in 1 .. Len(LocalData) /\ body \in Data

-----------------------------------------------------------------------------
(* The inductive invariant: where the handler is, and what it carries.     *)

Saving == {"write", "insert", "store", "done"}
UploadReq == [op : {"upload"}, name : Name, tier : Tier, data : Data, good : BOOLEAN]
DownloadReq == [op : {"download"}, name : Name, tier : Tier, retrans : BOOLEAN]
Path == <<req.tier, req.name>>

Says(f, n, t) == n \in DOMAIN f /\ f[n].tier = t

Typed ==
    /\ proc \in {"down", "load", "up"} /\ pc \in Saving \cup {"idle", "send"}
    /\ \A f \in {table_, toLoad, infoFile} :
          DOMAIN f \subseteq Name /\ \A n \in DOMAIN f : f[n].tier \in Tier
    /\ acked \in [Name -> {<<>>} \cup (Data \X Tier)]
    /\ torn \in BOOLEAN

(* InitLoad starts from the storage file and rewrites it entry by entry. *)
Loading ==
    /\ proc # "up" => pc = "idle"
    /\ proc # "load" => toLoad = Empty
    /\ proc = "down" => table_ = Empty
    /\ proc = "load" => infoFile = IF table_ = Empty THEN toLoad ELSE table_

(* An upload under way has its file among the dirty ones; once SetContent  *)
(* is over the file is what was to be stored, once Insert is the table     *)
(* says where.  A packed file to be sent has its plain copy.               *)
Handling ==
    /\ pc # "idle" => "body" \notin DOMAIN reply
    /\ pc \in Saving => req \in UploadReq /\ Path \in dirty
    /\ pc \in {"insert", "store", "done"} /\ req.good =>
          Exists(Path) /\ disk[Path] = Stored(req.tier, req.data)
    /\ pc \in {"store", "done"} => Says(table_, req.name, req.tier)
    /\ pc = "send" =>
          /\ req \in DownloadReq /\ Says(table_, req.name, req.tier)
          /\ req.tier = "deep" /\ Exists(Path) =>
                /\ Exists(<<"low", req.name>>)
                /\ disk[<<"low", req.name>>] = Unpack(disk[Path])

(* DurableListed, at the other places too. *)
Listed ==
    ~torn =>
       /\ \A n \in Name : acked[n] # <<>> =>
             /\ proc = "down" => n \in DOMAIN infoFile
             /\ proc = "load" => n \in DOMAIN table_ \cup DOMAIN toLoad
             /\ proc = "up" => n \in DOMAIN table_
       /\ proc = "up" /\ pc # "store" => infoFile = table_

(* Some table names directory t for n: the one in memory, what InitLoad    *)
(* has still to insert or the storage file.                                *)
Known(n, t) == Says(table_, n, t) \/ Says(toLoad, n, t) \/ Says(infoFile, n, t)

Right(n) ==
    LET p == <<acked[n][2], n>>
    IN  p \in dirty \/ (Exists(p) /\ disk[p] = Stored(acked[n][2], acked[n][1]))

(* What a table names is damaged, or it is what was acknowledged there.    *)
Files ==
    \A n \in Name :
        /\ acked[n] = <<>> => \A t \in Tier : Known(n, t) => <<t, n>> \in dirty
        /\ acked[n] # <<>> => (Known(n, acked[n][2]) => Right(n))

(* A table that is wrong about n was read so from the storage file. *)
Agree ==
    proc = "up" =>
       \A n \in DOMAIN table_ :
           /\ acked[n] # <<>> /\ table_[n].tier # acked[n][2]
           /\ ~(pc \in {"store", "done"} /\ req.name = n)
           => ~Says(infoFile, n, acked[n][2])

Sent ==
    "body" \in DOMAIN reply =>
        LET n == reply.name
        IN  /\ n \in Name
            /\ acked[n] # <<>> /\ Known(n, acked[n][2]) =>
                  reply.body = <<acked[n][1]>> \/ <<acked[n][2], n>> \in dirty

StorageInv == Typed /\ Loading /\ Handling /\ Listed /\ Files /\ Agree /\ Sent

-----------------------------------------------------------------------------
LEMMA EmptyFacts == DOMAIN Empty = {}
  BY DEF Empty

(* The handlers that only answer. *)
ReplyOnly ==
    /\ GenHandler /\ "body" \notin DOMAIN reply'
    /\ UNCHANGED <<proc, pc, req, table_, toLoad, infoFile, disk, acked, dirty, torn>>

(* A step of the server, whoever causes it. *)
ServerStep ==
    \/ Start \/ RunModule \/ ReplyOnly \/ UploadDone \/ DownloadSend \/ Crash
    \/ \E n \in Name : InitLoad(n)
    \/ \E n \in Name, t \in Tier, d \in Data : Upload(n, t, d)
    \/ \E ok \in BOOLEAN : SetContent(ok) \/ Insert(ok) \/ Storage(ok)
    \/ \E n \in Name, retrans \in BOOLEAN : Download(n, retrans)
    \/ \E p \in Tier \X Name : Remove(p)
    \/ UNCHANGED serverVars

LEMMA ClientInit == InitAll => ClientInv
<1> SUFFICES ASSUME InitAll PROVE ClientInv
  OBVIOUS
<1>1. LocalData \in Seq(Data) /\ Len(LocalData) \in Nat /\ Len(LocalData) # 0
  BY ClientAssumption, EmptySeq, LenProperties
<1>2. LocalData[1] \in Data
  BY <1>1, ElementOfSeq
<1> QED  BY <1>1, <1>2 DEF InitAll, ClientInv

LEMMA ClientStep == ClientInv /\ [Next]_vars => ClientInv'
<1> SUFFICES ASSUME ClientInv, [Next]_vars PROVE ClientInv'
  OBVIOUS
<1>1. LocalData \in Seq(Data) /\ Len(LocalData) \in Nat
  BY ClientAssumption, LenProperties
<1>2. CASE Edit
  BY <1>1, <1>2 DEF Edit, ClientInv
<1>3. CASE ClientUpload
  <2>1. LocalData[ver] \in Data
    BY <1>1, ElementOfSeq DEF ClientInv
  <2> QED  BY <1>3, <2>1 DEF ClientUpload, ClientInv
<1>4. CASE ver' = ver /\ body' = body
  BY <1>4 DEF ClientInv
<1>5. CASE Settle \/ Record \/ NoAnswer \/ Deliver \/ DeliverRefused \/ Answered
  BY <1>4, <1>5 DEF Settle, Record, NoAnswer, Deliver, DeliverRefused, Answered
<1>6. CASE ClientRestart \/ Serve \/ Visit \/ Break \/ UNCHANGED vars
  BY <1>4, <1>6 DEF ClientRestart, Serve, Visit, Break, Quiet, clientVars, vars
<1> QED  BY <1>2, <1>3, <1>5, <1>6 DEF Next, Client

LEMMA ServerSteps == ClientInv /\ [Next]_vars => ServerStep
<1> SUFFICES ASSUME ClientInv, [Next]_vars PROVE ServerStep
  OBVIOUS
<1>1. CASE UNCHANGED serverVars
  BY <1>1 DEF ServerStep
<1>2. CASE Edit \/ Settle \/ ClientUpload \/ Record \/ NoAnswer \/ ClientRestart
           \/ UNCHANGED vars
  BY <1>1, <1>2 DEF Edit, Settle, ClientUpload, Record, NoAnswer, ClientRestart, vars
<1>3. CASE Deliver
  BY <1>3, ClientAssumption DEF Deliver, ClientInv, ServerStep
<1>4. ASSUME NEW c, UploadRefused(c) PROVE ReplyOnly
  BY <1>4 DEF UploadRefused, Answer, ReplyOnly
<1>5. ASSUME NotFound \/ ListShow \/ \E n \in Name : DownloadUnknown(n) PROVE ReplyOnly
  BY <1>5 DEF NotFound, ListShow, DownloadUnknown, Answer, ReplyOnly
<1>6. CASE DeliverRefused
  BY <1>4, <1>6 DEF DeliverRefused, ServerStep
<1>7. CASE Answered
  BY <1>7 DEF Answered, ServerStep
<1>8. CASE Serve
  BY <1>8 DEF Serve, ServerStep
<1>9. CASE Visit
  BY <1>4, <1>5, <1>9, ClientAssumption DEF Visit, ServerStep
<1>10. CASE Break
  BY <1>10 DEF Break, ServerStep
<1> QED  BY <1>2, <1>3, <1>6, <1>7, <1>8, <1>9, <1>10 DEF Next, Client

(* What the steps that change a table or a directory make of it. *)
LEMMA InitLoadEffect ==
    ASSUME NEW n \in Name, InitLoad(n), toLoad[n].fsize_ <= IntMax
    PROVE  /\ proc = "load" /\ n \in DOMAIN toLoad
           /\ DOMAIN table_' = DOMAIN table_ \cup {n} /\ table_'[n] = toLoad[n]
           /\ \A x \in DOMAIN table_ : x # n => table_'[x] = table_[x]
           /\ table_' # Empty /\ infoFile' = table_'
           /\ DOMAIN toLoad' = DOMAIN toLoad \ {n}
           /\ \A x \in DOMAIN toLoad' : toLoad'[x] = toLoad[x]
           /\ UNCHANGED <<proc, torn, pc, req, disk, reply, acked, dirty>>
<1>1. /\ table_' = Put(table_, n, toLoad[n]) /\ toLoad' = Drop(toLoad, n)
      /\ infoFile' = table_' /\ proc = "load" /\ n \in DOMAIN toLoad
      /\ UNCHANGED <<proc, torn, pc, req, disk, reply, acked, dirty>>
  BY DEF InitLoad
<1>2. /\ DOMAIN table_' = DOMAIN table_ \cup {n} /\ table_'[n] = toLoad[n]
      /\ \A x \in DOMAIN table_ : x # n => table_'[x] = table_[x]
      /\ table_' # Empty
  BY <1>1 DEF Put, Empty
<1>3. /\ DOMAIN toLoad' = DOMAIN toLoad \ {n}
      /\ \A x \in DOMAIN toLoad : x # n => toLoad'[x] = toLoad[x]
  BY <1>1 DEF Drop, Restrict
<1> QED  BY <1>1, <1>2, <1>3

LEMMA InsertEffect ==
    ASSUME NEW ok \in BOOLEAN, Insert(ok)
    PROVE  /\ DOMAIN table_' = DOMAIN table_ \cup {req.name}
           /\ table_'[req.name].tier = req.tier
           /\ \A x \in DOMAIN table_ : x # req.name => table_'[x] = table_[x]
<1> DEFINE e == NewStorageInfo(req.tier, disk[Path])
<1>1. table_' = Put(table_, req.name, e)
  BY DEF Insert, Path
<1>2. e.tier = req.tier
  BY DEF NewStorageInfo
<1> HIDE DEF e
<1> QED  BY <1>1, <1>2 DEF Put

LEMMA UploadEffect ==
    ASSUME NEW n \in Name, NEW t \in Tier, NEW d \in Data, Upload(n, t, d)
    PROVE  /\ <<t, n>> \in DOMAIN disk' /\ DOMAIN disk \subseteq DOMAIN disk'
           /\ \A p \in DOMAIN disk : p # <<t, n>> => disk'[p] = disk[p]
<1>1. disk' = Put(disk, <<t, n>>, <<>>)
  BY DEF Upload
<1> DEFINE p == <<t, n>>
<1> HIDE DEF p
<1>2. disk' = Put(disk, p, <<>>)
  BY <1>1 DEF p
<1>3. /\ DOMAIN disk' = DOMAIN disk \cup {p}
      /\ \A x \in DOMAIN disk : x # p => disk'[x] = disk[x]
  BY <1>2 DEF Put
<1> QED  BY <1>3 DEF p

LEMMA SetContentEffect ==
    ASSUME NEW ok \in BOOLEAN, SetContent(ok)
    PROVE  /\ Path \in DOMAIN disk' /\ DOMAIN disk \subseteq DOMAIN disk'
           /\ ok => disk'[Path] = Stored(req.tier, req.data)
           /\ \A p \in DOMAIN disk : p # Path => disk'[p] = disk[p]
<1> DEFINE v == IF ok THEN Stored(req.tier, req.data) ELSE <<>>
<1>1. disk' = Put(disk, Path, v)
  BY DEF SetContent, Path
<1>2. ok => v = Stored(req.tier, req.data)
  OBVIOUS
<1> HIDE DEF v
<1> QED  BY <1>1, <1>2 DEF Put

LEMMA DownloadEffect ==
    ASSUME NEW n \in Name, NEW retrans \in BOOLEAN, Download(n, retrans)
    PROVE  /\ \A p \in DOMAIN disk :
                 p # <<"low", n>> \/ table_[n].tier # "deep" =>
                    p \in DOMAIN disk' /\ disk'[p] = disk[p]
           /\ table_[n].tier = "deep" /\ <<"deep", n>> \in DOMAIN disk' =>
                 /\ <<"low", n>> \in DOMAIN disk'
                 /\ disk'[<<"low", n>>] = Unpack(disk'[<<"deep", n>>])
<1> DEFINE low == <<"low", n>>
           deep == <<"deep", n>>
<1>1. low # deep
  OBVIOUS
<1>2. disk' = IF table_[n].tier = "deep" /\ deep \in DOMAIN disk
                THEN Put(disk, low, Unpack(disk[deep])) ELSE disk
  BY DEF Download, Exists
<1> HIDE DEF low, deep
<1> DEFINE v == Unpack(disk[deep])
           Kept == \A p \in DOMAIN disk : p # low \/ table_[n].tier # "deep" =>
                      p \in DOMAIN disk' /\ disk'[p] = disk[p]
           Copied == table_[n].tier = "deep" /\ deep \in DOMAIN disk' =>
                        low \in DOMAIN disk' /\ disk'[low] = Unpack(disk'[deep])
<1>3. ASSUME table_[n].tier = "deep" /\ deep \in DOMAIN disk PROVE Kept /\ Copied
  <2>1. disk' = Put(disk, low, v)
    BY <1>2, <1>3
  <2> HIDE DEF v
  <2>2. /\ DOMAIN disk' = DOMAIN disk \cup {low} /\ disk'[low] = v
        /\ \A p \in DOMAIN disk : p # low => disk'[p] = disk[p]
    BY <2>1 DEF Put
  <2>3. disk'[deep] = disk[deep]
    BY <1>1, <1>3, <2>2
  <2>4. disk'[low] = Unpack(disk'[deep])
    BY <2>2, <2>3 DEF v
  <2> QED  BY <1>3, <2>2, <2>4
<1>4. ASSUME ~(table_[n].tier = "deep" /\ deep \in DOMAIN disk) PROVE Kept /\ Copied
  <2>1. disk' = disk
    BY <1>2, <1>4
  <2> QED  BY <1>4, <2>1
<1>5. Kept /\ Copied
  BY <1>3, <1>4
<1> QED  BY <1>5 DEF low, deep

LEMMA SendEffect ==
    ASSUME DownloadSend
    PROVE  /\ \A p \in DOMAIN disk :
                 p # <<"low", req.name>> \/ req.tier # "deep" =>
                    p \in DOMAIN disk' /\ disk'[p] = disk[p]
           /\ "body" \in DOMAIN reply' =>
                 /\ <<"low", req.name>> \in DOMAIN disk
                 /\ reply'.name = req.name /\ reply'.body = disk[<<"low", req.name>>]
<1> DEFINE low == <<"low", req.name>>
<1>1. /\ low \in DOMAIN disk =>
            disk' = IF req.tier = "deep" THEN Drop(disk, low) ELSE disk
      /\ low \notin DOMAIN disk => disk' = disk /\ "body" \notin DOMAIN reply'
      /\ low \in DOMAIN disk => reply'.name = req.name /\ reply'.body = disk[low]
  BY DEF DownloadSend, Exists
<1> HIDE DEF low
<1>2. \A p \in DOMAIN disk : p # low \/ req.tier # "deep" =>
         p \in DOMAIN disk' /\ disk'[p] = disk[p]
  BY <1>1 DEF Drop, Restrict
<1> QED  BY <1>1, <1>2 DEF low

LEMMA RemoveEffect ==
    ASSUME NEW p, Remove(p)
    PROVE  \A x \in DOMAIN disk : x # p => x \in DOMAIN disk' /\ disk'[x] = disk[x]
  BY DEF Remove, Drop, Restrict

-----------------------------------------------------------------------------
(* Typed, Loading and Handling. *)

LEMMA PlacesInit == InitAll => Typed /\ Loading /\ Handling
  BY EmptyFacts DEF InitAll, Init, Typed, Loading, Handling, Saving

LEMMA PlacesStep ==
    Typed /\ Loading /\ Handling /\ ServerStep => Typed' /\ Loading' /\ Handling'
<1> SUFFICES ASSUME Typed, Loading, Handling, ServerStep
             PROVE  Typed' /\ Loading' /\ Handling'
  OBVIOUS
<1> USE DEF Typed, Loading, Saving
<1>1. CASE Start
  BY <1>1, EmptyFacts DEF Start, Handling
<1>2. CASE RunModule
  BY <1>2 DEF RunModule, Handling
<1>3. CASE ReplyOnly
  BY <1>3 DEF ReplyOnly, GenHandler, Handling
<1>4. CASE UploadDone
  <2>1. req \in UploadReq
    BY <1>4 DEF UploadDone, Handling
  <2>2. acked' \in [Name -> {<<>>} \cup (Data \X Tier)]
    BY <1>4, <2>1 DEF UploadDone, UploadReq
  <2> QED  BY <1>4, <2>2 DEF UploadDone, Handling
<1>5. CASE DownloadSend
  BY <1>5 DEF DownloadSend, Handling
<1>6. CASE Crash
  BY <1>6, EmptyFacts DEF Crash, Handling
<1>7. ASSUME NEW n \in Name, InitLoad(n) PROVE Typed' /\ Loading' /\ Handling'
  <2>1. CASE toLoad[n].fsize_ <= IntMax
    <3> DEFINE Ok(f) == DOMAIN f \subseteq Name /\ \A x \in DOMAIN f : f[x].tier \in Tier
    <3>1. Ok(table_) /\ Ok(toLoad)
      OBVIOUS
    <3>2. Ok(table_') /\ Ok(toLoad') /\ Ok(infoFile')
      <4>1. /\ n \in DOMAIN toLoad /\ infoFile' = table_'
            /\ DOMAIN table_' = DOMAIN table_ \cup {n} /\ table_'[n] = toLoad[n]
            /\ \A x \in DOMAIN table_ : x # n => table_'[x] = table_[x]
            /\ DOMAIN toLoad' = DOMAIN toLoad \ {n}
            /\ \A x \in DOMAIN toLoad' : toLoad'[x] = toLoad[x]
        BY <1>7, <2>1, InitLoadEffect
      <4>2. toLoad[n].tier \in Tier /\ \A x \in DOMAIN table_ : table_[x].tier \in Tier
        BY <3>1, <4>1
      <4>3. \A x \in DOMAIN table_' : table_'[x].tier \in Tier
        BY <4>1, <4>2
      <4>4. Ok(toLoad')
        BY <3>1, <4>1
      <4> QED  BY <3>1, <4>1, <4>3, <4>4
    <3>3. Loading'
      BY <1>7, <2>1, InitLoadEffect
    <3> QED  BY <1>7, <2>1, <3>2, <3>3, InitLoadEffect DEF Handling
  <2>2. CASE ~(toLoad[n].fsize_ <= IntMax)
    BY <1>7, <2>2, EmptyFacts DEF InitLoad, Handling
  <2> QED  BY <2>1, <2>2
<1>8. ASSUME NEW n \in Name, NEW t \in Tier, NEW d \in Data, Upload(n, t, d)
      PROVE  Typed' /\ Loading' /\ Handling'
  <2>1. "body" \notin DOMAIN reply'
    BY <1>8 DEF Upload, NoReply
  <2>2. req' \in UploadReq /\ Path' \in dirty'
    BY <1>8 DEF Upload, UploadReq, Path
  <2> QED  BY <1>8, <2>1, <2>2 DEF Upload, GenHandler, Handling
<1>9. ASSUME NEW ok \in BOOLEAN, SetContent(ok) PROVE Typed' /\ Loading' /\ Handling'
  <2>1. req \in UploadReq /\ Path \in dirty /\ "body" \notin DOMAIN reply
    BY <1>9 DEF SetContent, Handling
  <2>2. req' \in UploadReq /\ req'.good = ok /\ Path' = Path
        /\ req'.tier = req.tier /\ req'.data = req.data
    BY <1>9, <2>1 DEF SetContent, UploadReq, Path
  <2>3. ok => Path \in DOMAIN disk' /\ disk'[Path] = Stored(req.tier, req.data)
    BY <1>9, SetContentEffect
  <2> QED  BY <1>9, <2>1, <2>2, <2>3 DEF SetContent, Handling, Exists
<1>10. ASSUME NEW ok \in BOOLEAN, Insert(ok) PROVE Typed' /\ Loading' /\ Handling'
  <2>1. req \in UploadReq /\ req.name \in Name
    BY <1>10 DEF Insert, Handling, UploadReq
  <2>2. /\ Says(table_', req.name, req.tier) /\ DOMAIN table_' \subseteq Name
        /\ \A n \in DOMAIN table_' : table_'[n].tier \in Tier
    BY <1>10, <2>1, InsertEffect DEF Says, UploadReq
  <2>3. Typed' /\ Loading'
    BY <1>10, <2>2, EmptyFacts DEF Insert
  <2> QED  BY <1>10, <2>1, <2>2, <2>3 DEF Insert, Handling, Exists, Path
<1>11. ASSUME NEW ok \in BOOLEAN, Storage(ok) PROVE Typed' /\ Loading' /\ Handling'
  BY <1>11, EmptyFacts DEF Storage, Handling, Exists, Path
<1>12. ASSUME NEW n \in Name, NEW retrans \in BOOLEAN, Download(n, retrans)
       PROVE  Typed' /\ Loading' /\ Handling'
  <2>1. /\ proc = "up" /\ pc = "idle" /\ n \in DOMAIN table_ /\ table_[n].tier \in Tier
        /\ req' = [op |-> "download", name |-> n, tier |-> table_[n].tier,
                   retrans |-> retrans]
        /\ pc' = "send" /\ "body" \notin DOMAIN reply'
        /\ UNCHANGED <<proc, table_, toLoad, infoFile, acked, dirty, torn>>
    BY <1>12 DEF Download, GenHandler, NoReply
  <2>2. req' \in DownloadReq /\ Says(table_', req'.name, req'.tier)
    BY <2>1 DEF DownloadReq, Says
  <2>3. req'.tier = "deep" /\ Path' \in DOMAIN disk' =>
           /\ <<"low", req'.name>> \in DOMAIN disk'
           /\ disk'[<<"low", req'.name>>] = Unpack(disk'[Path'])
    BY <1>12, <2>1, DownloadEffect DEF Path
  <2> QED  BY <2>1, <2>2, <2>3 DEF Handling, Exists
<1>13. ASSUME NEW p \in Tier \X Name, Remove(p) PROVE Typed' /\ Loading' /\ Handling'
  BY <1>13 DEF Remove, Handling
<1>14. CASE UNCHANGED serverVars
  BY <1>14 DEF serverVars, Handling, Exists, Path
<1> QED  BY <1>1, <1>2, <1>3, <1>4, <1>5, <1>6, <1>7, <1>8, <1>9, <1>10, <1>11, <1>12,
            <1>13, <1>14 DEF ServerStep

-----------------------------------------------------------------------------
(* Listed: what is acknowledged stays in the table and the storage file. *)

LEMMA ListedInit == InitAll => Listed
  BY EmptyFacts DEF InitAll, Init, Listed

LEMMA ListedStep ==
    Typed /\ Loading /\ Handling /\ Listed /\ ServerStep => Listed'
<1> SUFFICES ASSUME Typed, Loading, Handling, Listed, ServerStep, ~torn'
             PROVE  Listed'
  BY DEF Listed
<1> USE DEF Listed
<1>1. CASE Start
  BY <1>1, EmptyFacts DEF Start
<1>2. CASE RunModule
  BY <1>2, EmptyFacts DEF RunModule, Loading
<1>3. CASE ReplyOnly
  BY <1>3 DEF ReplyOnly
<1>4. CASE UploadDone
  <2>1. req.name \in DOMAIN table_ /\ \A n \in Name : n # req.name => acked'[n] = acked[n]
    BY <1>4 DEF UploadDone, Handling, Says, Typed
  <2> QED  BY <1>4, <2>1 DEF UploadDone
<1>5. CASE DownloadSend
  BY <1>5 DEF DownloadSend
<1>6. CASE Crash
  <2>1. proc = "up" => infoFile = table_
    BY <1>6 DEF Crash, Typed
  <2>2. proc = "load" => DOMAIN infoFile = DOMAIN table_ \cup DOMAIN toLoad
    BY <1>6, EmptyFacts DEF Crash, Loading, Typed
  <2> QED  BY <1>6, <2>1, <2>2 DEF Crash, Typed
<1>7. ASSUME NEW n \in Name, InitLoad(n) PROVE Listed'
  <2>1. CASE toLoad[n].fsize_ <= IntMax
    <3>1. /\ DOMAIN table_' = DOMAIN table_ \cup {n}
          /\ DOMAIN toLoad' = DOMAIN toLoad \ {n}
          /\ proc = "load" /\ UNCHANGED <<proc, torn, acked>>
      BY <1>7, <2>1, InitLoadEffect
    <3> QED  BY <3>1
  <2>2. CASE ~(toLoad[n].fsize_ <= IntMax)
    <3>1. /\ proc = "load" /\ proc' = "down" /\ table_ = Empty /\ ~torn
          /\ UNCHANGED <<infoFile, acked>>
      BY <1>7, <2>2 DEF InitLoad, Typed
    <3> QED  BY <3>1, EmptyFacts DEF Loading
  <2> QED  BY <2>1, <2>2
<1>8. ASSUME NEW n \in Name, NEW t \in Tier, NEW d \in Data, Upload(n, t, d)
      PROVE  Listed'
  BY <1>8 DEF Upload, GenHandler
<1>9. ASSUME NEW ok \in BOOLEAN, SetContent(ok) PROVE Listed'
  BY <1>9 DEF SetContent
<1>10. ASSUME NEW ok \in BOOLEAN, Insert(ok) PROVE Listed'
  <2>1. DOMAIN table_ \subseteq DOMAIN table_'
    BY <1>10, InsertEffect
  <2>2. /\ proc = "up" /\ proc' = proc /\ pc' = "store" /\ acked' = acked /\ ~torn
    BY <1>10 DEF Insert, Typed
  <2> QED  BY <2>1, <2>2
<1>11. ASSUME NEW ok \in BOOLEAN, Storage(ok) PROVE Listed'
  BY <1>11 DEF Storage, Typed
<1>12. ASSUME NEW n \in Name, NEW retrans \in BOOLEAN, Download(n, retrans)
       PROVE  Listed'
  BY <1>12 DEF Download, GenHandler
<1>13. ASSUME NEW p \in Tier \X Name, Remove(p) PROVE Listed'
  BY <1>13 DEF Remove
<1>14. CASE UNCHANGED serverVars
  BY <1>14 DEF serverVars
<1> QED  BY <1>1, <1>2, <1>3, <1>4, <1>5, <1>6, <1>7, <1>8, <1>9, <1>10, <1>11, <1>12,
            <1>13, <1>14 DEF ServerStep

-----------------------------------------------------------------------------
(* Files, Agree and Sent: what is acknowledged is what is sent. *)

LEMMA AckedType ==
    ASSUME Typed, NEW n \in Name, acked[n] # <<>>
    PROVE  acked[n] \in Data \X Tier /\ acked[n][1] \in Data /\ acked[n][2] \in Tier
<1>1. acked[n] \in Data \X Tier
  BY DEF Typed
<1> QED  BY <1>1

LEMMA AgreeStep ==
    Typed /\ Loading /\ Handling /\ Agree /\ ServerStep => Agree'
<1> SUFFICES ASSUME Typed, Loading, Handling, Agree, ServerStep, proc' = "up",
                    NEW n \in DOMAIN table_',
                    acked'[n] # <<>>, table_'[n].tier # acked'[n][2],
                    ~(pc' \in {"store", "done"} /\ req'.name = n)
             PROVE  ~Says(infoFile', n, acked'[n][2])
  BY DEF Agree
<1>1. CASE Start \/ Crash
  BY <1>1 DEF Start, Crash
<1>2. CASE RunModule
  <2>1. infoFile' = table_'
    BY <1>2 DEF RunModule, Loading
  <2> QED  BY <2>1 DEF Says
<1>3. CASE ReplyOnly
  BY <1>3 DEF ReplyOnly, Agree
<1>4. CASE UploadDone
  <2>1. /\ proc = "up" /\ UNCHANGED <<table_, infoFile>>
        /\ req \in UploadReq /\ Says(table_, req.name, req.tier)
    BY <1>4 DEF UploadDone, Handling, Saving
  <2>2. n # req.name
    <3>1. acked'[req.name] = <<req.data, req.tier>>
      BY <1>4, <2>1 DEF UploadDone, Typed, UploadReq
    <3> QED  BY <2>1, <3>1 DEF Says
  <2>3. n \in Name /\ acked'[n] = acked[n]
    BY <1>4, <2>1, <2>2 DEF UploadDone, Typed
  <2> QED  BY <2>1, <2>2, <2>3 DEF Agree
<1>5. CASE DownloadSend
  BY <1>5 DEF DownloadSend, Agree
<1>7. ASSUME NEW m \in Name, InitLoad(m) PROVE FALSE
  BY <1>7 DEF InitLoad
<1>8. ASSUME NEW m \in Name, NEW t \in Tier, NEW d \in Data, Upload(m, t, d)
      PROVE  ~Says(infoFile', n, acked'[n][2])
  BY <1>8 DEF Upload, GenHandler, Agree
<1>9. ASSUME NEW ok \in BOOLEAN, SetContent(ok) PROVE ~Says(infoFile', n, acked'[n][2])
  BY <1>9 DEF SetContent, Agree
<1>10. ASSUME NEW ok \in BOOLEAN, Insert(ok) PROVE ~Says(infoFile', n, acked'[n][2])
  <2>1. /\ proc = "up" /\ pc = "insert" /\ pc' \in {"store", "done"} /\ req' = req
        /\ acked' = acked /\ (infoFile' = Empty \/ infoFile' = infoFile)
    BY <1>10 DEF Insert
  <2>2. n # req.name /\ n \in DOMAIN table_ /\ table_'[n] = table_[n]
    BY <1>10, <2>1, InsertEffect
  <2>3. ~Says(infoFile, n, acked[n][2])
    BY <2>1, <2>2 DEF Agree
  <2> QED  BY <2>1, <2>3, EmptyFacts DEF Says
<1>11. ASSUME NEW ok \in BOOLEAN, Storage(ok) PROVE ~Says(infoFile', n, acked'[n][2])
  <2>1. infoFile' = table_' \/ infoFile' = Empty
    BY <1>11 DEF Storage
  <2> QED  BY <2>1, EmptyFacts DEF Says
<1>12. ASSUME NEW m \in Name, NEW retrans \in BOOLEAN, Download(m, retrans)
       PROVE  ~Says(infoFile', n, acked'[n][2])
  BY <1>12 DEF Download, GenHandler, Agree
<1>13. ASSUME NEW p \in Tier \X Name, Remove(p)
       PROVE  ~Says(infoFile', n, acked'[n][2])
  BY <1>13 DEF Remove, Agree
<1>14. CASE UNCHANGED serverVars
  BY <1>14 DEF serverVars, Agree
<1> QED  BY <1>1, <1>2, <1>3, <1>4, <1>5, <1>7, <1>8, <1>9, <1>10, <1>11, <1>12,
            <1>13, <1>14 DEF ServerStep

(* Between two events, and while a file is sent, a table entry for another *)
(* directory than the acknowledged one leaves no trace of that one.        *)
LEMMA KnownUp ==
    ASSUME Typed, Loading, Agree, proc = "up", pc \in {"idle", "send"},
           NEW n \in DOMAIN table_, acked[n] # <<>>, Known(n, acked[n][2])
    PROVE  table_[n].tier = acked[n][2]
<1>1. ~Says(toLoad, n, acked[n][2])
  BY EmptyFacts DEF Loading, Says
<1>2. table_[n].tier # acked[n][2] => ~Says(infoFile, n, acked[n][2])
  BY DEF Agree
<1> QED  BY <1>1, <1>2 DEF Known, Says

(* No step makes a table name a directory that none named, unless the file *)
(* there is being written.                                                 *)
LEMMA News ==
    ASSUME Typed, Loading, Handling, ServerStep, ~UploadDone,
           NEW n \in Name, NEW t \in Tier, Known(n, t)'
    PROVE  Known(n, t) \/ <<t, n>> \in dirty'
<1>1. CASE UNCHANGED <<table_, toLoad, infoFile>>
  BY <1>1 DEF Known
<1>2. CASE Start
  BY <1>2, EmptyFacts DEF Start, Known, Says
<1>3. CASE RunModule \/ ReplyOnly \/ DownloadSend \/ UNCHANGED serverVars
  BY <1>1, <1>3 DEF RunModule, ReplyOnly, DownloadSend, serverVars
<1>4. CASE Crash
  BY <1>4, EmptyFacts DEF Crash, Known, Says
<1>5. ASSUME NEW m \in Name, InitLoad(m) PROVE Known(n, t)
  <2>1. CASE toLoad[m].fsize_ <= IntMax
    <3>1. /\ m \in DOMAIN toLoad /\ infoFile' = table_'
          /\ DOMAIN table_' = DOMAIN table_ \cup {m} /\ table_'[m] = toLoad[m]
          /\ \A x \in DOMAIN table_ : x # m => table_'[x] = table_[x]
          /\ DOMAIN toLoad' = DOMAIN toLoad \ {m}
          /\ \A x \in DOMAIN toLoad' : toLoad'[x] = toLoad[x]
      BY <1>5, <2>1, InitLoadEffect
    <3>2. Says(table_', n, t) => Says(table_, n, t) \/ Says(toLoad, n, t)
      BY <3>1 DEF Says
    <3>3. Says(toLoad', n, t) => Says(toLoad, n, t)
      BY <3>1 DEF Says
    <3>4. Says(table_', n, t) \/ Says(toLoad', n, t) \/ Says(infoFile', n, t)
      BY DEF Known
    <3>5. Says(table_, n, t) \/ Says(toLoad, n, t)
      BY <3>1, <3>2, <3>3, <3>4
    <3> QED  BY <3>5 DEF Known
  <2>2. CASE ~(toLoad[m].fsize_ <= IntMax)
    BY <1>5, <2>2, EmptyFacts DEF InitLoad, Known, Says
  <2> QED  BY <2>1, <2>2
<1>6. ASSUME NEW m \in Name, NEW u \in Tier, NEW d \in Data, Upload(m, u, d)
      PROVE  Known(n, t)
  BY <1>6 DEF Upload, Known
<1>7. ASSUME NEW ok \in BOOLEAN, SetContent(ok) PROVE Known(n, t)
  BY <1>7 DEF SetContent, Known
<1>8. ASSUME NEW ok \in BOOLEAN, Insert(ok) PROVE Known(n, t) \/ <<t, n>> \in dirty'
  <2>1. /\ Path \in dirty' /\ toLoad' = toLoad
        /\ infoFile' = Empty \/ infoFile' = infoFile
    BY <1>8 DEF Insert, Handling, Saving
  <2>2. Says(table_', n, t) => Says(table_, n, t) \/ <<t, n>> = Path
    BY <1>8, InsertEffect DEF Says, Path
  <2>3. ~Says(Empty, n, t)
    BY EmptyFacts DEF Says
  <2> QED  BY <2>1, <2>2, <2>3 DEF Known
<1>9. ASSUME NEW ok \in BOOLEAN, Storage(ok) PROVE Known(n, t)
  <2>1. ~Says(Empty, n, t)
    BY EmptyFacts DEF Says
  <2> QED  BY <1>9, <2>1 DEF Storage, Known
<1>10. ASSUME NEW m \in Name, NEW retrans \in BOOLEAN, Download(m, retrans)
       PROVE  Known(n, t)
  BY <1>10 DEF Download, Known
<1>11. ASSUME NEW p \in Tier \X Name, Remove(p) PROVE Known(n, t)
  BY <1>11 DEF Remove, Known
<1> QED  BY <1>2, <1>3, <1>4, <1>5, <1>6, <1>7, <1>8, <1>9, <1>10, <1>11 DEF ServerStep

(* No step changes the acknowledged file of a name that a table still      *)
(* leads to, unless it marks that file as being written or damaged: the    *)
(* plain copy that Download makes and removes is never that file.          *)
LEMMA Untouched ==
    ASSUME Typed, Loading, Handling, Agree, ServerStep, ~UploadDone,
           NEW n \in Name, acked[n] # <<>>, Known(n, acked[n][2]),
           <<acked[n][2], n>> \notin dirty', <<acked[n][2], n>> \in DOMAIN disk
    PROVE  /\ <<acked[n][2], n>> \in DOMAIN disk'
           /\ disk'[<<acked[n][2], n>>] = disk[<<acked[n][2], n>>]
<1> DEFINE a == acked[n][2]
           p == <<a, n>>
           Same == p \in DOMAIN disk' /\ disk'[p] = disk[p]
<1> SUFFICES Same
  OBVIOUS
<1>1. CASE UNCHANGED disk
  BY <1>1
<1>2. CASE Start \/ RunModule \/ ReplyOnly \/ Crash \/ UNCHANGED serverVars
  BY <1>1, <1>2 DEF Start, RunModule, ReplyOnly, Crash, serverVars
<1>3. CASE DownloadSend
  <2>1. /\ proc = "up" /\ pc = "send" /\ req.name \in DOMAIN table_
        /\ table_[req.name].tier = req.tier
    BY <1>3 DEF DownloadSend, Handling, Says
  <2>2. ASSUME p = <<"low", req.name>> PROVE req.tier # "deep"
    <3>1. n = req.name /\ a = "low"
      BY <2>2
    <3>2. table_[n].tier = a
      BY <2>1, <3>1, KnownUp
    <3> QED  BY <2>1, <3>1, <3>2
  <2> HIDE DEF p
  <2> QED  BY <1>3, <2>2, SendEffect DEF p
<1>4. ASSUME NEW m \in Name, InitLoad(m) PROVE Same
  BY <1>1, <1>4 DEF InitLoad
<1>5. ASSUME NEW m \in Name, NEW u \in Tier, NEW d \in Data, Upload(m, u, d) PROVE Same
  <2>1. <<u, m>> \in dirty'
    BY <1>5 DEF Upload
  <2> QED  BY <1>5, <2>1, UploadEffect
<1>6. ASSUME NEW ok \in BOOLEAN, SetContent(ok) PROVE Same
  <2>1. Path \in dirty'
    BY <1>6 DEF SetContent, Handling, Saving
  <2> QED  BY <1>6, <2>1, SetContentEffect
<1>7. ASSUME NEW ok \in BOOLEAN, Insert(ok) \/ Storage(ok) PROVE Same
  BY <1>1, <1>7 DEF Insert, Storage
<1>8. ASSUME NEW m \in Name, NEW retrans \in BOOLEAN, Download(m, retrans) PROVE Same
  <2>1. proc = "up" /\ pc = "idle" /\ m \in DOMAIN table_
    BY <1>8 DEF Download, GenHandler
  <2>2. ASSUME p = <<"low", m>> PROVE table_[m].tier # "deep"
    <3>1. n = m /\ a = "low"
      BY <2>2
    <3>2. table_[n].tier = a
      BY <2>1, <3>1, KnownUp
    <3> QED  BY <3>1, <3>2
  <2> QED  BY <1>8, <2>2, DownloadEffect
<1>9. ASSUME NEW q \in Tier \X Name, Remove(q) PROVE Same
  <2>1. q \in dirty'
    BY <1>9 DEF Remove
  <2> QED  BY <1>9, <2>1, RemoveEffect
<1> QED  BY <1>2, <1>3, <1>4, <1>5, <1>6, <1>7, <1>8, <1>9 DEF ServerStep

(* acked and the end of a file's being written change in UploadDone only. *)
LEMMA AckedSteps ==
    ASSUME ServerStep, ~UploadDone
    PROVE  acked' = acked /\ dirty \subseteq dirty'
  BY DEF ServerStep, Start, RunModule, ReplyOnly, DownloadSend, Crash, InitLoad, Upload,
         SetContent, Insert, Storage, Download, Remove, serverVars

LEMMA FilesStep ==
    Typed /\ Loading /\ Handling /\ Files /\ Agree /\ ServerStep => Files'
<1> SUFFICES ASSUME Typed, Loading, Handling, Files, Agree, ServerStep, NEW n \in Name
             PROVE  /\ acked'[n] = <<>> =>
                          \A t \in Tier : Known(n, t)' => <<t, n>> \in dirty'
                    /\ acked'[n] # <<>> => (Known(n, acked[n][2])' => Right(n)')
  BY DEF Files
<1>1. CASE UploadDone
  <2>1. /\ req \in UploadReq /\ Path \in dirty
        /\ req.good => Exists(Path) /\ disk[Path] = Stored(req.tier, req.data)
        /\ UNCHANGED <<table_, toLoad, infoFile, disk>>
        /\ dirty' = IF req.good THEN dirty \ {Path} ELSE dirty
        /\ acked' = [acked EXCEPT ![req.name] = <<req.data, req.tier>>]
    BY <1>1 DEF UploadDone, Handling, Saving, Path
  <2>2. CASE n = req.name
    <3>1. acked'[n] = <<req.data, req.tier>>
      BY <2>1, <2>2 DEF Typed
    <3>2. Right(n)'
      <4>1. <<acked'[n][2], n>> = Path /\ acked'[n][2] = req.tier /\ acked'[n][1] = req.data
        BY <2>2, <3>1 DEF Path
      <4> QED  BY <2>1, <4>1 DEF Right, Exists, UploadReq
    <3> QED  BY <3>1, <3>2
  <2>3. CASE n # req.name
    <3>1. acked'[n] = acked[n]
      BY <2>1, <2>3 DEF Typed
    <3>2. \A t : <<t, n>> \in dirty => <<t, n>> \in dirty'
      BY <2>1, <2>3 DEF Path
    <3>3. \A t : Known(n, t)' <=> Known(n, t)
      BY <2>1 DEF Known
    <3>4. Right(n) => Right(n)'
      BY <2>1, <3>1, <3>2 DEF Right, Exists
    <3> QED  BY <3>1, <3>2, <3>3, <3>4 DEF Files
  <2> QED  BY <2>2, <2>3
<1>2. CASE ~UploadDone
  <2>1. acked' = acked /\ dirty \subseteq dirty'
    BY <1>2, AckedSteps
  <2>2. CASE acked[n] = <<>>
    BY <1>2, <2>1, <2>2, News DEF Files
  <2>3. CASE acked[n] # <<>>
    <3>1. PICK t \in Tier : t = acked[n][2]
      BY <2>3, AckedType
    <3> SUFFICES ASSUME Known(n, acked[n][2])', <<acked[n][2], n>> \notin dirty'
                 PROVE  Right(n)'
      BY <2>1, <2>3 DEF Right
    <3>2. Known(n, t)'
      BY <2>1, <3>1 DEF Known
    <3>3. Known(n, acked[n][2]) /\ <<acked[n][2], n>> \notin dirty
      BY <1>2, <2>1, <3>1, <3>2, News
    <3>4. Exists(<<acked[n][2], n>>)
          /\ disk[<<acked[n][2], n>>] = Stored(acked[n][2], acked[n][1])
      BY <2>3, <3>3 DEF Files, Right
    <3>5. /\ <<acked[n][2], n>> \in DOMAIN disk'
          /\ disk'[<<acked[n][2], n>>] = disk[<<acked[n][2], n>>]
      BY <1>2, <2>1, <2>3, <3>3, <3>4, Untouched DEF Exists
    <3> QED  BY <2>1, <3>4, <3>5 DEF Right, Exists
  <2> QED  BY <2>2, <2>3
<1> QED  BY <1>1, <1>2

LEMMA SentStep ==
    Typed /\ Loading /\ Handling /\ Files /\ Agree /\ Sent /\ ServerStep => Sent'
<1> SUFFICES ASSUME Typed, Loading, Handling, Files, Agree, Sent, ServerStep,
                    "body" \in DOMAIN reply'
             PROVE  Sent'
  BY DEF Sent
<1>1. ~UploadDone
  BY DEF UploadDone, Answer
<1>2. acked' = acked /\ dirty \subseteq dirty'
  BY <1>1, AckedSteps
<1>3. CASE DownloadSend
  <2> DEFINE n == req.name
             a == acked[n][2]
  <2>1. /\ proc = "up" /\ pc = "send" /\ n \in DOMAIN table_ /\ n \in Name
        /\ table_[n].tier = req.tier /\ req.tier \in Tier
        /\ UNCHANGED <<table_, toLoad, infoFile>>
        /\ req.tier = "deep" /\ Exists(<<req.tier, n>>) =>
              disk[<<"low", n>>] = Unpack(disk[<<req.tier, n>>])
    BY <1>3 DEF DownloadSend, Handling, Says, DownloadReq, Path
  <2>2. reply'.name = n /\ reply'.body = disk[<<"low", n>>]
    BY <1>3, SendEffect
  <2>3. ASSUME acked[n] # <<>>, Known(n, a), <<a, n>> \notin dirty
        PROVE  reply'.body = <<acked[n][1]>>
    <3>1. table_[n].tier = a
      BY <2>1, <2>3, KnownUp
    <3>2. Exists(<<a, n>>) /\ disk[<<a, n>>] = Stored(a, acked[n][1])
      BY <2>1, <2>3 DEF Files, Right
    <3>3. CASE a = "low"
      <4>1. Stored(a, acked[n][1]) = <<acked[n][1]>>
        BY <3>3 DEF Stored
      <4> QED  BY <2>2, <3>2, <3>3, <4>1
    <3>4. CASE a = "deep"
      <4>1. Unpack(Stored(a, acked[n][1])) = <<acked[n][1]>>
        BY <3>4 DEF Stored, Pack, Unpack
      <4> QED  BY <2>1, <2>2, <3>1, <3>2, <3>4, <4>1
    <3> QED  BY <2>1, <3>1, <3>3, <3>4 DEF Tier
  <2> QED  BY <1>2, <2>1, <2>2, <2>3 DEF Sent, Known
<1>4. CASE reply' = reply
  <2> DEFINE n == reply.name
  <2>1. n \in Name
    BY <1>4 DEF Sent
  <2> SUFFICES ASSUME acked[n] # <<>>, Known(n, acked[n][2])',
                      <<acked[n][2], n>> \notin dirty'
               PROVE  reply.body = <<acked[n][1]>>
    BY <1>2, <1>4, <2>1 DEF Sent
  <2>2. PICK t \in Tier : t = acked[n][2]
    BY <2>1, AckedType
  <2>3. PICK m \in Name : m = n
    BY <2>1
  <2>4. Known(m, t)'
    BY <1>2, <1>4, <2>2, <2>3 DEF Known
  <2>5. Known(m, t) /\ <<t, n>> \notin dirty
    BY <1>1, <1>2, <2>2, <2>3, <2>4, News
  <2> QED  BY <1>4, <2>2, <2>3, <2>5 DEF Sent
<1>5. CASE UNCHANGED serverVars
  BY <1>4, <1>5 DEF serverVars
<1>6. ASSUME reply' = NoReply PROVE FALSE
  BY <1>6 DEF NoReply
<1>7. ~ReplyOnly
  BY DEF ReplyOnly
<1>8. ASSUME Start \/ RunModule \/ Crash PROVE reply' = reply
  BY <1>8 DEF Start, RunModule, Crash
<1>9. ASSUME NEW n \in Name, InitLoad(n) PROVE reply' = reply
  BY <1>9 DEF InitLoad
<1>10. ASSUME NEW n \in Name, NEW t \in Tier, NEW d \in Data, Upload(n, t, d) PROVE FALSE
  BY <1>6, <1>10 DEF Upload
<1>11. ASSUME NEW ok \in BOOLEAN, SetContent(ok) \/ Insert(ok) \/ Storage(ok)
       PROVE  reply' = reply
  BY <1>11 DEF SetContent, Insert, Storage
<1>12. ASSUME NEW n \in Name, NEW retrans \in BOOLEAN, Download(n, retrans) PROVE FALSE
  BY <1>6, <1>12 DEF Download
<1>13. ASSUME NEW p \in Tier \X Name, Remove(p) PROVE reply' = reply
  BY <1>13 DEF Remove
<1> QED  BY <1>1, <1>3, <1>4, <1>5, <1>7, <1>8, <1>9, <1>10, <1>11, <1>12, <1>13
            DEF ServerStep

-----------------------------------------------------------------------------
LEMMA StorageInit == InitAll => StorageInv
<1> SUFFICES ASSUME InitAll PROVE StorageInv
  OBVIOUS
<1>1. Typed /\ Loading /\ Handling /\ Listed
  BY PlacesInit, ListedInit
<1>2. Files /\ Agree /\ Sent
  BY EmptyFacts DEF InitAll, Init, Files, Agree, Sent, Known, Says, NoReply
<1> QED  BY <1>1, <1>2 DEF StorageInv

LEMMA StorageStep == StorageInv /\ ClientInv /\ [Next]_vars => StorageInv'
  BY ServerSteps, PlacesStep, ListedStep, FilesStep, AgreeStep, SentStep DEF StorageInv

THEOREM StorageInductive == Spec => [](StorageInv /\ ClientInv)
<1>1. InitAll => StorageInv /\ ClientInv
  BY StorageInit, ClientInit
<1>2. StorageInv /\ ClientInv /\ [Next]_vars => (StorageInv /\ ClientInv)'
  BY StorageStep, ClientStep
<1> QED  BY <1>1, <1>2, PTL DEF Spec

(* Every upload that Upload answered with 200 stays in DataManager's table *)
(* and the storage file says the same as the table, whenever the event     *)
(* loop is between two requests, unless storage.data was cut off: for any  *)
(* names, contents, requests, crashes and restarts.                        *)
THEOREM ListedCorrect == Spec => []DurableListed
<1>1. StorageInv => DurableListed
  BY DEF StorageInv, Listed, DurableListed
<1> QED  BY <1>1, StorageInductive, PTL

(* What Service::Download sends is the data of the last acknowledged       *)
(* Upload of that name, packed or plain, unless that file was left damaged *)
(* or is being replaced, or Storage could not record its directory: for    *)
(* any names, contents, requests, crashes and restarts.                    *)
THEOREM DownloadCorrect == Spec => []DownloadFaithful
<1>1. ASSUME StorageInv PROVE DownloadFaithful
  <2> SUFFICES ASSUME "body" \in DOMAIN reply, reply.name \in DOMAIN table_,
                      <<table_[reply.name].tier, reply.name>> \notin dirty,
                      acked[reply.name][2] = table_[reply.name].tier
               PROVE  reply.body = <<acked[reply.name][1]>>
    BY DEF DownloadFaithful
  <2>1. Typed /\ Files /\ Sent
    BY <1>1 DEF StorageInv
  <2>2. reply.name \in Name /\ table_[reply.name].tier \in Tier
    BY <2>1 DEF Typed
  <2>3. Known(reply.name, table_[reply.name].tier)
    BY DEF Known, Says
  <2>4. acked[reply.name] # <<>>
    BY <2>1, <2>2, <2>3 DEF Files
  <2> QED  BY <2>1, <2>3, <2>4 DEF Sent
<1> QED  BY <1>1, StorageInductive, PTL
=============================================================================
