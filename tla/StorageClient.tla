---------------------------- MODULE StorageClient ----------------------------
(***************************************************************************)
(* The backup client (HttpServer/src/client) against the storage server:   *)
(* RunModule scans the local files, uploads what its table does not know   *)
(* and records it.  Other users upload and download through the web page   *)
(* at the same time.  One local file is enough: files are treated one      *)
(* after another and share nothing but if_upload_success, which also links *)
(* the successive uploads of one file.                                     *)
(***************************************************************************)
EXTENDS StorageService

CONSTANTS
    LocalTier,  \* the directory the local file is in
    Decoded,    \* what the server's base64_decode makes of the FileName
                \* header, which the client sends as it is
    WebName,    \* names uploaded through the web page
    LocalData,  \* LocalData[v]: content of version v of the local file
    MaxFault    \* bound on crashes, failed writes and lost connections

ASSUME ClientAssumption ==
    /\ LocalTier \in Tier /\ Decoded \in Name
    /\ WebName \subseteq Name
    /\ LocalData \in Seq(Data) /\ LocalData # <<>>
    /\ MaxFault \in Nat

VARIABLES
    cpc,                \* the client: "scan", "sent", "waiting" or "ret"
    body,               \* the data being sent
    ver,                \* version of the local file: its GetFileIdentifier
    fresh,              \* modified less than 5 seconds ago
    if_upload_success,  \* the client's global
    recorded,           \* its table: the identifier stored for the file, or 0
    faults

clientVars == <<cpc, body, ver, fresh, if_upload_success, recorded>>
vars == <<serverVars, clientVars, faults>>

InitAll ==
    /\ Init
    /\ cpc = "scan" /\ body = LocalData[1] /\ ver = 1 /\ fresh = TRUE
    /\ if_upload_success = FALSE /\ recorded = 0
    /\ faults = 0

Fault == faults < MaxFault /\ faults' = faults + 1

(* The user edits the file; five seconds pass. *)
Edit ==
    /\ ver < Len(LocalData)
    /\ ver' = ver + 1 /\ fresh' = TRUE
    /\ UNCHANGED <<serverVars, cpc, body, if_upload_success, recorded, faults>>

Settle ==
    /\ fresh /\ fresh' = FALSE
    /\ UNCHANGED <<serverVars, cpc, body, ver, if_upload_success, recorded, faults>>

(* Mutant: only a file that is not in the table is uploaded. *)
IfNeedUpload_new == recorded = 0 /\ ~fresh

(* IfNeedUpload: not what is recorded, and not changed just now. *)
IfNeedUpload == recorded # ver /\ ~fresh

(* RunModule calls Upload, which makes the request. *)
ClientUpload ==
    /\ cpc = "scan" /\ IfNeedUpload
    /\ cpc' = "sent" /\ body' = LocalData[ver]
    /\ UNCHANGED <<serverVars, ver, fresh, if_upload_success, recorded,
                   faults>>

(* The server starts on it, ... *)
Deliver ==
    /\ cpc = "sent"
    /\ Upload(Decoded, LocalTier, body)
    /\ cpc' = "waiting"
    /\ UNCHANGED <<body, ver, fresh, if_upload_success, recorded, faults>>

(* ... refuses it, ... *)
DeliverRefused ==
    /\ cpc = "sent" /\ Fault
    /\ UploadRefused(500)
    /\ if_upload_success' = FALSE
    /\ cpc' = "ret"
    /\ UNCHANGED <<body, ver, fresh, recorded>>

(* ... or answers it: upload_callback with the code. *)
Answered ==
    /\ cpc = "waiting"
    /\ UploadDone
    /\ if_upload_success' = TRUE
    /\ cpc' = "ret"
    /\ UNCHANGED <<body, ver, fresh, recorded, faults>>

(* upload_callback with no request: no connection, or it broke. *)
NoAnswer ==
    /\ \/ cpc = "sent" /\ proc # "up" /\ UNCHANGED faults
       \/ cpc \in {"sent", "waiting"} /\ Fault
    /\ cpc' = "ret"
    /\ UNCHANGED <<serverVars, body, ver, fresh, if_upload_success, recorded>>

(* The client's DataManager: Insert, which stores the whole table. *)
ClientInsert == recorded' = ver

(* RunModule after Upload: Insert with the identifier the file has now. *)
Record ==
    /\ cpc = "ret"
    /\ IF if_upload_success THEN ClientInsert ELSE UNCHANGED recorded
    /\ cpc' = "scan"
    /\ UNCHANGED <<serverVars, body, ver, fresh, if_upload_success, faults>>

(* The client is started again: InitLoad reads the table back, empty when  *)
(* Storage was cut off between truncating and writing its file.            *)
ClientRestart ==
    /\ Fault
    /\ if_upload_success' = FALSE /\ cpc' = "scan"
    /\ \/ UNCHANGED recorded
       \/ cpc = "ret" /\ if_upload_success /\ recorded' = 0
    /\ UNCHANGED <<serverVars, body, ver, fresh>>

-----------------------------------------------------------------------------
Quiet == UNCHANGED <<clientVars, faults>>

(* The server's own steps, for any request. *)
Serve ==
    \/ /\ \/ Start \/ RunModule \/ (\E n \in Name : InitLoad(n))
          \/ SetContent(TRUE) \/ Insert(TRUE) \/ Storage(TRUE)
          \/ cpc # "waiting" /\ UploadDone
          \/ DownloadSend
       /\ Quiet
    \/ /\ SetContent(FALSE) \/ Insert(FALSE) \/ Storage(FALSE)
       /\ Fault /\ UNCHANGED clientVars

(* Requests through the web page. *)
Visit ==
    /\ \/ NotFound \/ ListShow
       \/ \E c \in {400, 500} : UploadRefused(c)
       \/ \E n \in WebName, t \in Tier, d \in Data : Upload(n, t, d)
       \/ \E n \in Name : DownloadUnknown(n)
       \/ \E n \in Name, retrans \in BOOLEAN : Download(n, retrans)
    /\ Quiet

Break ==
    \/ /\ Crash /\ Fault
       /\ cpc' = IF cpc \in {"sent", "waiting"} THEN "ret" ELSE cpc
       /\ UNCHANGED <<body, ver, fresh, if_upload_success, recorded>>
    \/ /\ \E p \in Tier \X Name : Remove(p)
       /\ Fault /\ UNCHANGED clientVars

Client == ClientUpload \/ Record \/ NoAnswer

Next ==
    \/ Edit \/ Settle \/ Client \/ Deliver \/ DeliverRefused \/ Answered
    \/ ClientRestart \/ Serve \/ Visit \/ Break

(* The server's and the client's loops run on, time passes, and libevent   *)
(* serves a waiting request however many others come.                      *)
Fairness ==
    /\ WF_vars(Serve) /\ WF_vars(Answered) /\ SF_vars(Deliver)
    /\ WF_vars(ClientUpload \/ Record) /\ WF_vars(Settle)

Spec == InitAll /\ [][Next]_vars /\ Fairness
=============================================================================
