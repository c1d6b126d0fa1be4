---------------------------- MODULE StorageCalls ----------------------------
(***************************************************************************)
(* One thread of duplicacy calls the operations of a storage while the       *)
(* service drops requests, loses answers, is busy, lets the token expire,    *)
(* and another computer works on the same chunk.                             *)
(***************************************************************************)
EXTENDS FileBackends, ObjectBackends, DriveBackends

CONSTANTS Backends,      \* the storages to look at
          AttemptCap,    \* bound: attempts after which a retry loop is cut short
          MaxVersions,   \* bound: versions of one file on B2 and Google Drive
          OtherOps       \* what the other computer does: "upload", "collect", "resurrect"

\* The storages CreateStorage makes.
Storages == {"local", "samba", "sftp", "webdav", "filefabric", "s3", "s3c", "wasabi", "azure", "dropbox",
             "swift", "storj", "gcs", "b2", "onedrive", "onebusiness", "hubic", "acd", "gcd"}

ASSUME BoundsAssumption == AttemptCap \in Nat \ {0} /\ MaxVersions \in Nat \ {0}
ASSUME BackendsAssumption == Backends \subseteq Storages

VARIABLES backend,  \* the storage in use
          store,    \* the files the service keeps
          dirs,     \* the directories of a service that has some
          known,    \* what the client remembers: directories, file ids, the upload URL
          token,    \* "valid", "expired" or "revoked"
          call      \* the running operation, or the last one

vars == <<backend, store, dirs, known, token, call>>

-----------------------------------------------------------------------------
ListFiles(b, d) ==
    CASE b = "local" -> LocalListFiles(d)      [] b = "samba" -> SambaListFiles(d)
      [] b = "sftp" -> SFTPListFiles(d)        [] b = "webdav" -> WebDAVListFiles(d)
      [] b = "filefabric" -> FileFabricListFiles(d)
      [] b \in {"s3", "wasabi"} -> S3ListFiles(d) [] b = "s3c" -> S3CListFiles(d)
      [] b = "azure" -> AzureListFiles(d)      [] b = "dropbox" -> DropboxListFiles(d)
      [] b = "swift" -> SwiftListFiles(d)      [] b = "storj" -> StorjListFiles(d)
      [] b = "gcs" -> GCSListFiles(d)          [] b = "b2" -> B2ListFiles(d)
      [] b \in {"onedrive", "onebusiness"} -> OneDriveListFiles(d)
      [] b = "hubic" -> HubicListFiles(d)      [] b = "acd" -> ACDListFiles(d)
      [] b = "gcd" -> GCDListFiles(d)

DeleteFile(b, p) ==
    CASE b = "local" -> LocalDeleteFile(p)     [] b = "samba" -> SambaDeleteFile(p)
      [] b = "sftp" -> SFTPDeleteFile(p)       [] b = "webdav" -> WebDAVDeleteFile(p)
      [] b = "filefabric" -> FileFabricDeleteFile(p)
      [] b \in {"s3", "wasabi"} -> S3DeleteFile(p) [] b = "s3c" -> S3CDeleteFile(p)
      [] b = "azure" -> AzureDeleteFile(p)     [] b = "dropbox" -> DropboxDeleteFile(p)
      [] b = "swift" -> SwiftDeleteFile(p)     [] b = "storj" -> StorjDeleteFile(p)
      [] b = "gcs" -> GCSDeleteFile(p)         [] b = "b2" -> B2DeleteFile(p)
      [] b \in {"onedrive", "onebusiness"} -> OneDriveDeleteFile(p)
      [] b = "hubic" -> HubicDeleteFile(p)     [] b = "acd" -> ACDDeleteFile(p)
      [] b = "gcd" -> GCDDeleteFile(p)

MoveFile(b, p, q) ==
    CASE b = "local" -> LocalMoveFile(p, q)    [] b = "samba" -> SambaMoveFile(p, q)
      [] b = "sftp" -> SFTPMoveFile(p, q)      [] b = "webdav" -> WebDAVMoveFile(p, q)
      [] b = "filefabric" -> FileFabricMoveFile(p, q)
      [] b = "s3" -> S3MoveFile(p, q)          [] b = "wasabi" -> WasabiMoveFile(p, q)
      [] b = "s3c" -> S3CMoveFile(p, q)
      [] b = "azure" -> AzureMoveFile(p, q)    [] b = "dropbox" -> DropboxMoveFile(p, q)
      [] b = "swift" -> SwiftMoveFile(p, q)    [] b = "storj" -> StorjMoveFile(p, q)
      [] b = "gcs" -> GCSMoveFile(p, q)        [] b = "b2" -> B2MoveFile(p, q)
      [] b \in {"onedrive", "onebusiness"} -> OneDriveMoveFile(p, q)
      [] b = "hubic" -> HubicMoveFile(p, q)    [] b = "acd" -> ACDMoveFile(p, q)
      [] b = "gcd" -> GCDMoveFile(p, q)

CreateDirectory(b, d) ==
    CASE b = "local" -> LocalCreateDirectory(d) [] b = "samba" -> SambaCreateDirectory(d)
      [] b = "sftp" -> SFTPCreateDirectory(d)  [] b = "webdav" -> WebDAVCreateDirectory(d)
      [] b = "filefabric" -> FileFabricCreateDirectory(d)
      [] b \in {"s3", "wasabi"} -> S3CreateDirectory(d) [] b = "s3c" -> S3CCreateDirectory(d)
      [] b = "azure" -> AzureCreateDirectory(d) [] b = "dropbox" -> DropboxCreateDirectory(d)
      [] b = "swift" -> SwiftCreateDirectory(d) [] b = "storj" -> StorjCreateDirectory(d)
      [] b = "gcs" -> GCSCreateDirectory(d)    [] b = "b2" -> B2CreateDirectory(d)
      [] b \in {"onedrive", "onebusiness"} -> OneDriveCreateDirectory(d)
      [] b = "hubic" -> HubicCreateDirectory(d) [] b = "acd" -> ACDCreateDirectory(d)
      [] b = "gcd" -> GCDCreateDirectory(d)

GetFileInfo(b, p) ==
    CASE b = "local" -> LocalGetFileInfo(p)    [] b = "samba" -> SambaGetFileInfo(p)
      [] b = "sftp" -> SFTPGetFileInfo(p)      [] b = "webdav" -> WebDAVGetFileInfo(p)
      [] b = "filefabric" -> FileFabricGetFileInfo(p)
      [] b \in {"s3", "wasabi"} -> S3GetFileInfo(p) [] b = "s3c" -> S3CGetFileInfo(p)
      [] b = "azure" -> AzureGetFileInfo(p)    [] b = "dropbox" -> DropboxGetFileInfo(p)
      [] b = "swift" -> SwiftGetFileInfo(p)    [] b = "storj" -> StorjGetFileInfo(p)
      [] b = "gcs" -> GCSGetFileInfo(p)        [] b = "b2" -> B2GetFileInfo(p)
      [] b \in {"onedrive", "onebusiness"} -> OneDriveGetFileInfo(p)
      [] b = "hubic" -> HubicGetFileInfo(p)    [] b = "acd" -> ACDGetFileInfo(p)
      [] b = "gcd" -> GCDGetFileInfo(p)

DownloadFile(b, p) ==
    CASE b = "local" -> LocalDownloadFile(p)   [] b = "samba" -> SambaDownloadFile(p)
      [] b = "sftp" -> SFTPDownloadFile(p)     [] b = "webdav" -> WebDAVDownloadFile(p)
      [] b = "filefabric" -> FileFabricDownloadFile(p)
      [] b \in {"s3", "wasabi"} -> S3DownloadFile(p) [] b = "s3c" -> S3CDownloadFile(p)
      [] b = "azure" -> AzureDownloadFile(p)   [] b = "dropbox" -> DropboxDownloadFile(p)
      [] b = "swift" -> SwiftDownloadFile(p)   [] b = "storj" -> StorjDownloadFile(p)
      [] b = "gcs" -> GCSDownloadFile(p)       [] b = "b2" -> B2DownloadFile(p)
      [] b \in {"onedrive", "onebusiness"} -> OneDriveDownloadFile(p)
      [] b = "hubic" -> HubicDownloadFile(p)   [] b = "acd" -> ACDDownloadFile(p)
      [] b = "gcd" -> GCDDownloadFile(p)

UploadFile(b, p) ==
    CASE b = "local" -> LocalUploadFile(p)     [] b = "samba" -> SambaUploadFile(p)
      [] b = "sftp" -> SFTPUploadFile(p)       [] b = "webdav" -> WebDAVUploadFile(p)
      [] b = "filefabric" -> FileFabricUploadFile(p)
      [] b \in {"s3", "wasabi"} -> S3UploadFile(p) [] b = "s3c" -> S3CUploadFile(p)
      [] b = "azure" -> AzureUploadFile(p)     [] b = "dropbox" -> DropboxUploadFile(p)
      [] b = "swift" -> SwiftUploadFile(p)     [] b = "storj" -> StorjUploadFile(p)
      [] b = "gcs" -> GCSUploadFile(p)         [] b = "b2" -> B2UploadFile(p)
      [] b \in {"onedrive", "onebusiness"} -> OneDriveUploadFile(b, p)
      [] b = "hubic" -> HubicUploadFile(p)     [] b = "acd" -> ACDUploadFile(p)
      [] b = "gcd" -> GCDUploadFile(p)

\* The requests of an operation.
Requests(b, op, p, q) ==
    CASE op = "list" -> ListFiles(b, p)        [] op = "delete" -> DeleteFile(b, p)
      [] op = "move" -> MoveFile(b, p, q)      [] op = "mkdir" -> CreateDirectory(b, p)
      [] op = "info" -> GetFileInfo(b, p)      [] op = "download" -> DownloadFile(b, p)
      [] op = "upload" -> UploadFile(b, p)

\* The calls the commands make: chunks are uploaded, turned into fossils and
\* back, downloaded and deleted under both names, directories are listed.
Calls == [op : {"list"}, path : {"chunks", "revisions", "ids"}, to : {"none"}]
         \union [op : {"delete", "info", "download"}, path : {"chunk", "fossil"}, to : {"none"}]
         \union [op : {"upload"}, path : {"chunk"}, to : {"none"}]
         \union [op : {"mkdir"}, path : {"chunks"}, to : {"none"}]
         \union {[op |-> "move", path |-> "chunk", to |-> "fossil"],
                 [op |-> "move", path |-> "fossil", to |-> "chunk"]}

Programs == [b \in Backends |-> [c \in Calls |-> Requests(b, c.op, c.path, c.to)]]

-----------------------------------------------------------------------------
\* A version of the chunk under two markers of B2, which a deletion in between
\* them leaves: the marker of a fossil, the version deleted, another marker.
HiddenTwice(st) == \E i \in 2..Len(st["chunk"]) : st["chunk"][i - 1] = "hide" /\ st["chunk"][i] = "hide"

\* since and ever are the files that were there all the time, or at some time,
\* since the call began, raced whether the other computer moved the chunk meanwhile,
\* and twice whether it was hidden twice: what the caller may conclude is about them.
Running(c, st) ==
    [op |-> c.op, path |-> c.path, to |-> c.to, pc |-> 1, tries |-> 0, cursor |-> 0, listed |-> {},
     result |-> "none", since |-> PresentIn(backend, st), ever |-> PresentIn(backend, st), raced |-> FALSE,
     twice |-> HiddenTwice(st)]

\* The chunk, its fossil or neither; revisions and ids are always there.  A
\* directory exists when something is in it, and the services' Create... functions
\* make the rest but for "chunks", which stands for a nested directory.
Init ==
    /\ backend \in Backends
    /\ \E n \in {"chunk", "fossil", "none"} :
          /\ store = [m \in Names |-> IF m \in {"rev1", "rev2", "id1", "id2"} THEN <<"data">>
                                      ELSE IF n = "fossil" /\ backend = "b2" /\ m = "chunk" THEN <<"hide", "data">>
                                      ELSE IF m = n /\ ~(backend = "b2" /\ n = "fossil") THEN <<"data">> ELSE <<>>]
          /\ dirs \in {Dirs, Dirs \ {"fossils", "chunks"}}
          /\ n # "none" => DirOf(backend, n) \in dirs
    /\ known = {}
    /\ token = "valid"
    /\ call = [Running([op |-> "none", path |-> "none", to |-> "none"], NoFile) EXCEPT !.result = "ok"]

\* The call with its conclusions brought up to date with the files st.
Seeing(c, st) == [c EXCEPT !.since = @ \intersect PresentIn(backend, st),
                           !.ever = @ \union PresentIn(backend, st),
                           !.twice = @ \/ HiddenTwice(st)]

\* Within the bound on versions.
Room == Len(store["chunk"]) + Len(store["fossil"]) < MaxVersions

\* After a panic, or when a call hangs, the command is started anew.
Start(c) ==
    /\ call.result # "none"
    /\ c.op \in {"upload", "move"} => Room
    /\ call' = [Running(c, store) EXCEPT
                   !.result = IF Programs[backend][c] = << >> THEN "ok" ELSE "none"]
    /\ known' = IF call.result \in {"panic", "hung"} THEN {} ELSE known
    /\ UNCHANGED <<backend, store, dirs, token>>

Program == Programs[backend][[op |-> call.op, path |-> call.path, to |-> call.to]]
Current == Program[call.pc]

\* The call after an answer led to x: a result, or a request to go on with.  The
\* attempts of requests that are retried together are counted together.
Goto(c, x) ==
    LET j == CASE x = "next" -> c.pc + 1 [] x = "jump" -> Current.target [] OTHER -> 0
        together == j \in DOMAIN Program /\ Program[j].from # 0 /\ Program[j].from = Current.from
    IN  IF j = 0 THEN [c EXCEPT !.result = x, !.pc = 0, !.tries = 0, !.cursor = 0]
        ELSE IF j > Len(Program) THEN [c EXCEPT !.result = "ok", !.pc = 0, !.tries = 0, !.cursor = 0]
        ELSE [c EXCEPT !.pc = j, !.tries = IF together THEN @ ELSE 0]

\* A request is passed over when the client remembers what it would give.
Skip ==
    /\ call.result = "none"
    /\ Current.unless \in known
    /\ call' = Goto(call, "next")
    /\ UNCHANGED <<backend, store, dirs, known, token>>

\* What the service and the network may make of the request.
Changing == {"put", "copy", "delete", "rename", "mkdir", "hide", "drop", "purge", "unhide"}
OfFile == {"stat", "get", "delete", "copy", "rename"}
Grows(r) == r.verb \in {"put", "hide"} /\ backend \in {"b2", "gcd"}

PossibleAnswers(r) ==
    LET v == Verdict(backend, store, dirs, call.cursor, r)
    IN  IF r.verb = "fail" THEN {v}
        ELSE IF r.verb = "await" THEN {"ok", "dropped"}
        ELSE IF backend = "local" THEN {v, "rejected"}
        ELSE IF backend \in TokenServices /\ token # "valid" THEN {"unauthorized", "busy", "dropped"}
        ELSE {v, "busy", "rejected", "dropped"}
             \union (IF v = "ok" /\ r.verb \in Changing /\ (Grows(r) => Room)
                     THEN {"lost"} ELSE {})
             \union (IF r.verb = "put" /\ backend \in {"s3", "wasabi"} THEN {"damaged"} ELSE {})
             \union (IF r.verb \in OfFile /\ backend \in FalselyMissing THEN {"missing"} ELSE {})

\* The number of attempts, cut short.
AttemptsOf(r) == IF r.attempts < AttemptCap THEN r.attempts ELSE AttemptCap

\* What the client remembers after the answer.
Remembered(r, a) ==
    IF a = "ok" /\ r.verb = "prepare" /\ r.unless = "uploadurl" THEN known \union {"uploadurl"}
    ELSE IF \/ a = "ok" /\ r.verb \in {"mkdir", "statdir"}
            \/ a = "taken" /\ r.verb = "mkdir" /\ backend = "webdav"
         THEN known \union {r.path}
    ELSE IF backend = "acd" /\ a = "ok"
         THEN CASE r.verb \in {"stat", "put"} -> known \union {r.path}
                [] r.verb = "rename" -> (known \ {r.path}) \union {r.to}
                [] OTHER -> known
    ELSE known

\* The request is sent again: counted or not, and for an upload to B2 to another URL.
Retry(r, a) ==
    /\ a \in r.retried
    /\ \/ /\ call.tries + 1 < AttemptsOf(r)
          /\ call' = Seeing([call EXCEPT !.tries = @ + 1, !.cursor = IF a = "lost" THEN -@ ELSE @,
                                         !.pc = IF r.from = 0 THEN @ ELSE r.from], store')
          /\ known' = known \ (IF r.verb = "put" THEN {"uploadurl"} ELSE {})
       \/ /\ a \in r.uncounted
          /\ call' = Seeing(call, store')
          /\ known' = known
       \/ /\ a \in r.resetting
          /\ call' = Seeing([call EXCEPT !.tries = 1, !.pc = IF r.from = 0 THEN @ ELSE r.from], store')
          /\ known' = known \ (IF r.verb = "put" THEN {"uploadurl"} ELSE {})

\* A listing or a purge goes on with what is left.
LastOf(page) == CHOOSE i \in page : \A j \in page : j <= i
MoreToCome(r, page) ==
    \/ r.verb = "pages" /\ page # {} /\ Listed(backend, store, r, LastOf(page)) # {}
    \/ r.verb = "purge" /\ call.cursor > 1

\* The answer is final: it has been waited for often enough, or it is not one to retry.
Conclude(r, a) ==
    LET page == IF r.verb \in {"list", "pages", "first"} THEN Listed(backend, store, r, call.cursor) ELSE {}
        got  == IF a # "ok" THEN call
                ELSE [call EXCEPT !.listed = @ \union {NameSeq[i] : i \in page},
                                  !.cursor = IF r.verb \in {"marker", "newest"} THEN Found(store, r)
                                             ELSE IF r.verb = "purge" THEN @ - 1
                                             ELSE IF MoreToCome(r, page) THEN LastOf(page) ELSE 0]
    IN  /\ a \in r.retried => call.tries + 1 >= AttemptsOf(r)
        /\ known' = Remembered(r, a)
        /\ call' = Seeing(IF a = "ok" /\ MoreToCome(r, page) THEN [got EXCEPT !.tries = 0]
                          ELSE Goto(got, IF a = "ok" /\ r.verb = "marker" /\ got.cursor = 0 THEN "ok" ELSE r.on[a]),
                          store')

\* The answer a to the request r arrives, or its absence is noticed.
Answered(r, a) ==
    /\ store' = IF a \in {"ok", "lost"} THEN Applied(backend, store, call.cursor, r) ELSE store
    /\ dirs' = IF a \in {"ok", "lost"} /\ r.verb = "mkdir" THEN dirs \union {r.path} ELSE dirs
    /\ \/ /\ a = "unauthorized" /\ r.refresh /\ token = "expired"
          /\ token' = "valid"
          /\ Retry(r, a) \/ Conclude(r, a)
       \/ \* RefreshToken fails; only B2's call does not look at that
          /\ a = "unauthorized" /\ r.refresh /\ token = "revoked"
          /\ token' = token
          /\ IF backend = "b2" THEN Retry(r, a) \/ Conclude(r, a)
             ELSE call' = Seeing(Goto(call, "error"), store') /\ known' = known
       \/ /\ a = "unauthorized" => ~r.refresh
          /\ token' = token
          /\ Retry(r, a) \/ Conclude(r, a)
    /\ UNCHANGED backend

\* The service receives the request or not, and the client gets an answer or not.
Serve ==
    /\ call.result = "none"
    /\ \E r \in {Current} : /\ r.unless \notin known
                           /\ \E a \in PossibleAnswers(r) : Answered(r, a)

-----------------------------------------------------------------------------
\* The token ages, and the account may be closed for good.
LoseToken(t) ==
    /\ backend \in TokenServices
    /\ token = "valid"
    /\ token' = t
    /\ UNCHANGED <<backend, store, dirs, known, call>>

\* Another computer: a backup uploads the chunk it does not find, a prune turns it
\* into a fossil, or turns a fossil back when the chunk is gone.
Other(op) ==
    LET c == "chunk" f == "fossil"
    IN  /\ op \in OtherOps
        /\ \/ /\ op = "upload" /\ ~Present(backend, store, c)
              /\ Room
              /\ store' = Store(backend, store, c)
              /\ dirs' = dirs \union {DirOf(backend, c)}
           \/ /\ op = "collect" /\ Present(backend, store, c) /\ ~Present(backend, store, f)
              /\ Room
              /\ store' = IF backend = "b2" THEN [store EXCEPT ![c] = <<"hide">> \o @]
                          ELSE Store(backend, [store EXCEPT ![c] = Tail(@)], f)
              /\ dirs' = dirs \union {DirOf(backend, f)}
           \/ /\ op = "resurrect" /\ Present(backend, store, f) /\ ~Present(backend, store, c)
              /\ store' = IF backend = "b2" THEN [store EXCEPT ![c] = Tail(@)]
                          ELSE Store(backend, [store EXCEPT ![f] = Tail(@)], c)
              /\ dirs' = dirs \union {DirOf(backend, c)}
        /\ call' = Seeing([call EXCEPT !.raced = @ \/ op # "upload"], store')
        /\ UNCHANGED <<backend, known, token>>

Next ==
    \/ \E c \in Calls : Start(c)
    \/ Skip
    \/ Serve
    \/ \E t \in {"expired", "revoked"} : LoseToken(t)
    \/ \E op \in OtherOps : Other(op)

\* The thread goes on; of the service nothing is assumed.
Spec == Init /\ [][Next]_vars /\ WF_vars(Skip \/ Serve)

-----------------------------------------------------------------------------
TypeOK ==
    /\ backend \in Backends
    /\ \A n \in Names : store[n] \in BoundedSeq({"data", "hide"}, MaxVersions + 1)
    /\ dirs \subseteq Dirs
    /\ known \subseteq Dirs \union Names \union {"uploadurl"}
    /\ token \in {"valid", "expired", "revoked"}
    /\ call.result \in {"none", "ok", "error", "absent", "panic", "hung"}
    /\ call.result = "none" => call.pc \in DOMAIN Program
    /\ call.listed \subseteq Names /\ call.since \subseteq call.ever /\ call.ever \subseteq Names

\* The content of the chunk can be read under one of its two names.
Stored == IF backend = "b2" THEN \E i \in DOMAIN store["chunk"] : store["chunk"][i] = "data"
          ELSE store["chunk"] # <<>> \/ store["fossil"] # <<>>

CopyAndDelete == {"s3", "s3c", "azure", "swift", "gcs", "hubic"}

\* Whatever is lost, repeated or done by others at the same time, no step but one
\* of DeleteFile makes the content of a chunk disappear: a MoveFile that is
\* repeated after its answer was lost, or that copies and deletes, leaves a copy.
\* Only where MoveFile copies and deletes may it delete what another computer moved
\* to that name in between.
ContentKept ==
    [][Stored /\ ~Stored' => call.op = "delete" \/ (call.raced /\ backend \in CopyAndDelete)]_vars

\* UploadFile returns nil only when the file was there at some time of the call.
\* Google Cloud Storage is left out: its UploadFile drops the error of Close.
UploadedIsStored ==
    call.op = "upload" /\ call.result = "ok" /\ backend # "gcs" => call.path \in call.ever

\* The same of every storage, as the comment of UploadFile says.
EveryUploadIsStored == call.op = "upload" /\ call.result = "ok" => call.path \in call.ever

\* MoveFile returns nil only when the file was at its destination at some time of
\* the call, or nothing is left of it.  S3C drops the error of the copy, File Fabric
\* that of the look-up, and OneDrive that of the second attempt.  B2 removes one hide
\* marker and does not look whether that was the only one.
MovedIsThere ==
    call.op = "move" /\ call.result = "ok" /\ backend \notin {"s3c", "filefabric", "onedrive", "onebusiness"}
    => call.to \in call.ever \/ ~Stored \/ call.twice

\* GetFileInfo says that a file does not exist only if that was so at some time of
\* the call.  S3 takes a refusal, Azure an error with 404 in its text, and Storj any
\* error for a missing file; Hubic and WebDAV may answer 404 for one that exists.
SureOfAbsence == Storages \ {"s3", "s3c", "wasabi", "azure", "storj", "hubic", "webdav"}
AbsentIsTrue ==
    call.result = "absent" /\ backend \in SureOfAbsence => call.path \notin call.since

\* A listing that succeeds has every file that was there all the time, page by
\* page, fossils after chunks.  Storj takes a page that fails for the end; S3C lists
\* one page of the revisions and, as S3 does, of the ids.
ListComplete ==
    call.op = "list" /\ call.result = "ok" /\ backend # "storj"
    /\ ~(backend = "s3c" /\ call.path # "chunks") /\ ~(backend \in {"s3", "wasabi"} /\ call.path = "ids")
    => {n \in call.since : n # "temp" /\ DirOf("local", n) = call.path} \subseteq call.listed

\* Every operation ends with some result however badly the service behaves: each
\* loop of retries is counted, the ones a refreshed token or a new connection start
\* too, and no goroutine is waited for that is gone.  Only B2's call goes on for
\* ever, when every answer carries a Retry-After header or the account is gone, and
\* Google Drive's listing of the chunks may wait for a worker that has returned.
EndlessCall == backend = "b2" \/ (backend = "gcd" /\ call.op = "list" /\ call.path = "chunks")
CallEnds == call.result = "none" ~> (call.result \notin {"none", "hung"} \/ EndlessCall)
=============================================================================
