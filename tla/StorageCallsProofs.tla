------------------------- MODULE StorageCallsProofs -------------------------
(***************************************************************************)
(* Proofs about StorageCalls, for every storage, any bound on attempts and  *)
(* versions and whatever the other computer does.  An operation is a short  *)
(* program of requests: the first part says what the programs of all the    *)
(* storages have in common, and looks at each of them; the second is about  *)
(* the machine that runs one, and looks at none.                            *)
(***************************************************************************)
EXTENDS StorageCalls, SequenceTheorems, TLAPS

-----------------------------------------------------------------------------
(* The vocabulary of requests. *)

IsRequest(r) ==
  /\ r = [verb |-> r.verb, path |-> r.path, to |-> r.to, attempts |-> r.attempts, retried |-> r.retried,
          from |-> r.from, target |-> r.target, refresh |-> r.refresh, uncounted |-> r.uncounted,
          resetting |-> r.resetting, unless |-> r.unless, on |-> r.on]
  /\ r.on = [a \in Answers |-> r.on[a]]

(* Two requests that differ in how often they are sent at most.            *)
Alike(x, r) ==
  /\ IsRequest(x)
  /\ x.verb = r.verb /\ x.path = r.path /\ x.to = r.to
  /\ x.from = r.from /\ x.target = r.target /\ x.unless = r.unless /\ x.on = r.on

(* A request of any kind goes on when it succeeds, and fails otherwise.    *)
LEMMA ReqFields ==
  ASSUME NEW v, NEW p, NEW q
  PROVE  LET x == Req(v, p, q)
         IN  /\ IsRequest(x)
             /\ x.verb = v /\ x.path = p /\ x.to = q /\ x.unless = "none" /\ x.from = 0 /\ x.target = 0
             /\ \A a \in Answers : x.on[a] = IF a = "ok" THEN "next" ELSE "error"
  BY DEF Req, IsRequest

(* Other consequences of some answers. *)
LEMMA OnFields ==
  ASSUME NEW S, NEW o, NEW r, IsRequest(r)
  PROVE  LET x == On(S, o, r)
         IN  /\ IsRequest(x)
             /\ x.verb = r.verb /\ x.path = r.path /\ x.to = r.to
             /\ x.from = r.from /\ x.target = r.target /\ x.unless = r.unless
             /\ \A a \in Answers : x.on[a] = IF a \in S THEN o ELSE r.on[a]
  BY DEF On, IsRequest

LEMMA JumpFields ==
  ASSUME NEW S, NEW i, NEW r, IsRequest(r)
  PROVE  LET x == Jump(S, i, r)
         IN  /\ IsRequest(x)
             /\ x.verb = r.verb /\ x.path = r.path /\ x.to = r.to
             /\ x.from = r.from /\ x.target = i /\ x.unless = r.unless
             /\ \A a \in Answers : x.on[a] = IF a \in S THEN "jump" ELSE r.on[a]
  BY OnFields DEF Jump, IsRequest

(* When it is sent again, and when it is passed over. *)
LEMMA RetryingFields ==
  ASSUME NEW S, NEW n, NEW r, IsRequest(r)
  PROVE  Alike(Retrying(n, S, r), r)
  <1> DEFINE x == [r EXCEPT !.attempts = n]
  <1>1. Alike(x, r)
    BY DEF Alike, IsRequest
  <1>2. Retrying(n, S, r) = [x EXCEPT !.retried = S]
    BY DEF Retrying
  <1> HIDE DEF x
  <1>3. Alike([x EXCEPT !.retried = S], r)
    BY <1>1 DEF Alike, IsRequest
  <1> QED BY <1>2, <1>3

LEMMA RefreshFields ==
  ASSUME NEW v, NEW r, IsRequest(r)
  PROVE  Alike([r EXCEPT !.refresh = v], r)
  BY DEF Alike, IsRequest

LEMMA WithTokenFields ==
  ASSUME NEW r, IsRequest(r)
  PROVE  Alike(WithToken(r), r)
  BY RefreshFields, Zenon DEF WithToken

LEMMA B2CallFields ==
  ASSUME NEW r, IsRequest(r)
  PROVE  Alike(B2Call(r), r)
  <1> DEFINE S == Answers \ ({"ok", "rejected"} \union IF r.verb \in {"stat", "newest", "marker"} THEN {"missing"} ELSE {})
             x == Retrying(B2MaximumRetries + 2, S, r)
             y == [x EXCEPT !.refresh = TRUE]
             z == [y EXCEPT !.uncounted = {"unauthorized"}]
  <1>1. Alike(x, r)
    BY RetryingFields
  <1>2. B2Call(r) = [z EXCEPT !.resetting = {"busy"}]
    BY DEF B2Call
  <1> HIDE DEF x
  <1>2a. IsRequest(x)
    BY <1>1 DEF Alike
  <1>2b. Alike(y, x)
    BY <1>2a, RefreshFields, Zenon
  <1>3. Alike(y, r)
    BY <1>1, <1>2b DEF Alike
  <1> HIDE DEF y
  <1>4. Alike(z, r)
    BY <1>3 DEF Alike, IsRequest
  <1> HIDE DEF z
  <1>5. Alike([z EXCEPT !.resetting = {"busy"}], r)
    BY <1>4 DEF Alike, IsRequest
  <1> QED BY <1>2, <1>5

LEMMA RetryFromFields ==
  ASSUME NEW i, NEW r, IsRequest(r)
  PROVE  LET x == RetryFrom(i, r)
         IN  /\ IsRequest(x)
             /\ x.verb = r.verb /\ x.path = r.path /\ x.to = r.to
             /\ x.from = i /\ x.target = r.target /\ x.unless = r.unless /\ x.on = r.on
  BY DEF RetryFrom, IsRequest

LEMMA UnlessFields ==
  ASSUME NEW d, NEW r, IsRequest(r)
  PROVE  LET x == UnlessCached(d, r)
         IN  /\ IsRequest(x)
             /\ x.verb = r.verb /\ x.path = r.path /\ x.to = r.to
             /\ x.from = r.from /\ x.target = r.target /\ x.unless = d /\ x.on = r.on
  BY DEF UnlessCached, IsRequest

(* How often a client repeats a request is not what its answers mean.      *)
LEMMA ClientCalls ==
  ASSUME NEW r, IsRequest(r)
  PROVE  /\ Alike(SFTPRetry(r), r) /\ Alike(WebDAVSendRequest(r), r) /\ Alike(S3CAttempts(r), r)
         /\ Alike(SwiftRetries(r), r) /\ Alike(GCSShouldRetry(r), r)
         /\ Alike(OneDriveCall(r), r) /\ Alike(HubicCall(r), r) /\ Alike(ACDCall(r), r) /\ Alike(GCDShouldRetry(r), r)
  <1>1. /\ Alike(SFTPRetry(r), r) /\ Alike(WebDAVSendRequest(r), r) /\ Alike(S3CAttempts(r), r)
        /\ Alike(SwiftRetries(r), r) /\ Alike(GCSShouldRetry(r), r)
    BY RetryingFields, Zenon DEF SFTPRetry, WebDAVSendRequest, S3CAttempts, SwiftRetries, GCSShouldRetry
  <1>2. ASSUME NEW n, NEW S PROVE Alike(WithToken(Retrying(n, S, r)), r)
    <2> DEFINE x == Retrying(n, S, r)
    <2>1. Alike(x, r)
      BY RetryingFields
    <2> HIDE DEF x
    <2>2. Alike(WithToken(x), x)
      BY <2>1, WithTokenFields DEF Alike
    <2>3. Alike(WithToken(x), r)
      BY <2>1, <2>2 DEF Alike
    <2> QED BY <2>3 DEF x
  <1>3. /\ Alike(OneDriveCall(r), r) /\ Alike(HubicCall(r), r) /\ Alike(ACDCall(r), r) /\ Alike(GCDShouldRetry(r), r)
    BY <1>2, Zenon DEF OneDriveCall, HubicCall, ACDCall, GCDShouldRetry
  <1> QED BY <1>1, <1>3

(* Two steps one after the other. *)
LEMMA Appended ==
  ASSUME NEW x, NEW y
  PROVE  <<x>> \o <<y>> = <<x, y>>
  <1> DEFINE S == {x, y}
  <1>1. <<x>> \in Seq(S) /\ <<y>> \in Seq(S) /\ <<x, y>> \in Seq(S)
    OBVIOUS
  <1>2. <<x>> \o <<y>> \in Seq(S) /\ Len(<<x>> \o <<y>>) = 2
        /\ (<<x>> \o <<y>>)[1] = x /\ (<<x>> \o <<y>>)[2] = y
    BY <1>1, ConcatProperties
  <1>3. Len(<<x, y>>) = 2 /\ <<x, y>>[1] = x /\ <<x, y>>[2] = y
    OBVIOUS
  <1> DEFINE s == <<x>> \o <<y>>
             t == <<x, y>>
  <1>4. s \in Seq(S) /\ t \in Seq(S) /\ Len(s) = Len(t) /\ \A i \in 1..Len(s) : s[i] = t[i]
    BY <1>1, <1>2, <1>3
  <1> HIDE DEF s, t
  <1>5. s = t
    BY <1>4, SeqEqual
  <1> QED BY <1>5 DEF s, t

-----------------------------------------------------------------------------
(* What the programs of all the storages have in common: b is the storage,  *)
(* and op, p and q the operation and its arguments.                         *)

(* Every answer leads somewhere.                                           *)
Leads(n, r) ==
  /\ r.from \in 0..n
  /\ \A a \in Answers : /\ r.on[a] \in {"next", "jump", "ok", "error", "absent", "panic", "hung"}
                        /\ r.on[a] = "jump" => r.target \in 1..7

(* What a request is about is something that can be remembered or changed. *)
Addressed(b, r) ==
  /\ r.verb \in {"mkdir", "statdir", "stat", "put", "rename"} => r.path /= "none" /\ r.to /= "none"
  /\ r.verb = "mkdir" => r.path \in Dirs
  /\ r.verb = "put" => r.path \in {"chunk", "temp"}
  /\ r.verb \in {"copy", "rename"} =>
        r.path \in {"chunk", "fossil", "temp"} /\ r.to \in {"chunk", "fossil"} /\ r.path /= r.to
  /\ r.verb = "delete" => r.path \in {"chunk", "fossil", "temp"}
  /\ r.verb \in {"hide", "drop", "purge", "unhide"} => b = "b2" /\ r.path = "chunk"
  /\ r.verb = "rename" => b /= "b2"
  /\ r.verb = "copy" => b \notin StoresInDirs \union {"b2"}

(* A file is reported missing because it was looked for, or its directory  *)
(* where a file is in one.                                                 *)
LooksFirst(b, p, r) ==
  \A a \in Answers : r.on[a] = "absent" /\ b \notin {"s3", "s3c", "wasabi", "azure", "storj", "hubic", "webdav"} =>
     /\ a = "missing"
     /\ \/ r.verb = "stat" /\ r.path = p
        \/ r.verb = "statdir" /\ b \in StoresInDirs /\ r.path = DirOf(b, p)

(* What removes a version belongs to DeleteFile, to the temporary file, or *)
(* comes second in a MoveFile that copies first.                           *)
RemovesLast(b, op, p, q, i, r) ==
  /\ r.verb \in {"drop", "purge"} => op = "delete"
  /\ r.verb = "delete" => \/ op = "delete" \/ r.path = "temp"
                          \/ op = "move" /\ b \in CopyAndDelete /\ i = 2 /\ r.path = p
  /\ op = "move" /\ b \in CopyAndDelete =>
        /\ r.from = 0
        /\ i = 1 => /\ r.verb = "copy" /\ r.to = q /\ r.unless = "none"
                    /\ \A a \in Answers : r.on[a] /= "jump" /\ (r.on[a] = "next" => a = "ok")
        /\ i = 2 => r.verb = "delete"

(* The operations that succeed only when a file is at d, and the requests  *)
(* they reach only then.  B2's MoveFile to a chunk is another matter.      *)
Delivers(b, op, q) ==
  \/ op = "upload" /\ b /= "gcs"
  \/ op = "move" /\ b \notin {"s3c", "filefabric", "onedrive", "onebusiness"} /\ ~(b = "b2" /\ q = "chunk")

Delivered(b, op) ==
  IF op = "upload" /\ b \in {"local", "samba", "sftp"} THEN {6}
  ELSE IF op = "move" /\ b \in CopyAndDelete THEN {2} ELSE {}

(* The answer a to r says that d is there.                                 *)
Shows(r, a, d) ==
  \/ a = "ok" /\ r.verb \in {"put", "stat"} /\ r.path = d
  \/ a = "ok" /\ r.verb \in {"copy", "rename"} /\ r.to = d
  \/ a = "ok" /\ r.verb = "hide" /\ d = "fossil"
  \/ a = "taken" /\ r.verb = "put" /\ r.path = d
  \/ a = "taken" /\ r.verb = "rename" /\ r.to = d
  \/ a = "ok" /\ r.verb = "fail"

DeliversBeforeOk(b, op, d, n, i, r) ==
  i \in Delivered(b, op) \/
     /\ r.from \notin Delivered(b, op)
     /\ r.unless /= "none" => i < n /\ i + 1 \notin Delivered(b, op)
     /\ r.verb /= "marker"
     /\ \A a \in Answers : \/ Shows(r, a, d)
                           \/ r.on[a] \in {"error", "absent", "panic", "hung"}
                           \/ r.on[a] = "next" /\ i < n /\ i + 1 \notin Delivered(b, op)
                           \/ r.on[a] = "jump" /\ r.target <= n /\ r.target \notin Delivered(b, op)

(* The directories with the files to be listed, and those listed already.  *)
Wanted(b, p) == IF p = "chunks" /\ b \in SeparateFossils THEN {"chunks", "fossils"} ELSE {p}
Gone(b, p, i) ==
  IF p = "chunks" /\ b \in SeparateFossils /\ i = 2 THEN {"chunks"}
  ELSE IF p = "chunks" /\ b \in SeparateFossils /\ i = 3 THEN {"chunks", "fossils"} ELSE {}

Lists(b, p) == b /= "storj" /\ ~(b = "s3c" /\ p /= "chunks") /\ ~(b \in {"s3", "wasabi"} /\ p = "ids")

(* A directory that is missing may be taken for an empty one.              *)
Covered(b, p, i, r, a) ==
  Gone(b, p, i) \union
  IF \/ a = "ok" /\ r.verb \in {"list", "pages"}
     \/ a = "missing" /\ (b \notin {"onedrive", "onebusiness"} \/ r.path \in {"revisions", "ids"})
  THEN {r.path} ELSE {}

ListsBeforeOk(b, p, n, i, r) ==
  /\ r.from = 0
  /\ r.verb \in {"list", "pages", "statdir", "await"}
  /\ r.unless /= "none" => i < n /\ r.verb = "statdir" /\ Gone(b, p, i + 1) \subseteq Gone(b, p, i)
  /\ \A a \in Answers :
        \/ r.on[a] \in {"error", "absent", "panic", "hung"}
        \/ r.on[a] = "next" /\ i < n /\ a \in {"ok", "missing"} /\ Gone(b, p, i + 1) \subseteq Covered(b, p, i, r, a)
        \/ r.on[a] = "next" /\ i = n /\ Wanted(b, p) \subseteq Covered(b, p, i, r, a)
        \/ r.on[a] = "ok" /\ Wanted(b, p) \subseteq Covered(b, p, i, r, a)

(* B2's MoveFile to a chunk looks for a fossil and takes the marker off the *)
(* version that it found.                                                  *)
UnhidesBeforeOk(n, i, r) ==
  /\ n = 2 /\ r.unless = "none" /\ r.from = 0
  /\ i = 1 => /\ r.verb = "newest" /\ r.path = "fossil" /\ r.to = "chunk"
              /\ \A a \in Answers : /\ r.on[a] /= "jump"
                                    /\ r.on[a] = "next" => a = "ok"
                                    /\ r.on[a] = "ok" => a = "missing"
  /\ i = 2 => /\ r.verb = "unhide"
              /\ \A a \in Answers : r.on[a] /= "jump" /\ (r.on[a] \in {"next", "ok"} => a = "ok")

SoundRequest(b, op, p, q, n, i, r) ==
  /\ Leads(n, r)
  /\ Addressed(b, r)
  /\ LooksFirst(b, p, r)
  /\ RemovesLast(b, op, p, q, i, r)
  /\ Delivers(b, op, q) => DeliversBeforeOk(b, op, IF op = "move" THEN q ELSE p, n, i, r)
  /\ op = "list" /\ Lists(b, p) => ListsBeforeOk(b, p, n, i, r)
  /\ op = "move" /\ b = "b2" /\ q = "chunk" => UnhidesBeforeOk(n, i, r)

Sound(b, op, p, q, P) ==
  /\ Len(P) \in Nat /\ DOMAIN P = 1..Len(P) /\ (P = << >> \/ Len(P) > 0)
  /\ op \in {"upload", "move", "list"} => Len(P) > 0
  /\ op = "move" /\ b \in CopyAndDelete => Len(P) = 2
  /\ \A i \in 1..Len(P) : SoundRequest(b, op, p, q, Len(P), i, P[i])

SoundAs(b, c, P) == Sound(b, c.op, c.path, c.to, P)
SoundCall(b, c) == SoundAs(b, c, Requests(b, c.op, c.path, c.to))

-----------------------------------------------------------------------------
(* The programs, storage by storage. *)

(* What the calls of an operation are about.                               *)
LEMMA CallsOf ==
  ASSUME NEW c \in Calls
  PROVE  /\ c.op \in {"list", "delete", "info", "download", "upload", "mkdir", "move"}
         /\ c.op = "list" => c.path \in {"chunks", "revisions", "ids"}
         /\ c.op \in {"delete", "info", "download"} => c.path \in {"chunk", "fossil"}
         /\ c.op = "upload" => c.path = "chunk"
         /\ c.op = "mkdir" => c.path = "chunks"
         /\ c.op = "move" => \/ c.path = "chunk" /\ c.to = "fossil"
                             \/ c.path = "fossil" /\ c.to = "chunk"
  BY DEF Calls

USE DEF SoundRequest, Leads, Addressed, LooksFirst, RemovesLast, Delivers, Alike

(* A local disk.                                                           *)
LEMMA LocalSound == \A c \in Calls : SoundCall("local", c)
  <1> SUFFICES ASSUME NEW c \in Calls PROVE SoundCall("local", c)
    BY DEF SoundCall
  <1>1. ASSUME c.op = "list" PROVE SoundAs("local", c, LocalListFiles(c.path))
    BY <1>1, CallsOf, OnFields, ReqFields DEF Sound, SoundAs, Lists, ListsBeforeOk, Covered, Wanted, Gone,
       SeparateFossils, LocalListFiles, ListAll
  <1>2. ASSUME c.op = "delete" PROVE SoundAs("local", c, LocalDeleteFile(c.path))
    BY <1>2, CallsOf, OnFields, ReqFields DEF Sound, SoundAs, LocalDeleteFile, Ignoring, Delete
  <1>3. ASSUME c.op = "move" PROVE SoundAs("local", c, LocalMoveFile(c.path, c.to))
    BY <1>3, CallsOf, ReqFields DEF Sound, SoundAs, DeliversBeforeOk, Delivered, Shows, UnhidesBeforeOk,
       CopyAndDelete, LocalMoveFile, Rename
  <1>4. ASSUME c.op = "mkdir" PROVE SoundAs("local", c, LocalCreateDirectory(c.path))
    BY <1>4, CallsOf, OnFields, ReqFields DEF Sound, SoundAs, Dirs, LocalCreateDirectory, Ignoring, MkDir
  <1>5. ASSUME c.op = "info" PROVE SoundAs("local", c, LocalGetFileInfo(c.path))
    BY <1>5, CallsOf, OnFields, ReqFields DEF Sound, SoundAs, StoresInDirs, LocalGetFileInfo, Stat
  <1>6. ASSUME c.op = "download" PROVE SoundAs("local", c, LocalDownloadFile(c.path))
    BY <1>6, CallsOf, ReqFields DEF Sound, SoundAs, StoresInDirs, LocalDownloadFile, Get
  <1>7. ASSUME c.op = "upload" PROVE SoundAs("local", c, LocalUploadFile(c.path))
    <2> DEFINE S(i, r) == SoundRequest("local", "upload", c.path, c.to, 6, i, r)
    <2>1. S(1, Jump({"ok"}, 3, On({"missing"}, "next", StatDir("chunks"))))
      BY <1>7, CallsOf, JumpFields, OnFields, ReqFields DEF DeliversBeforeOk, Delivered, Shows, StatDir
    <2>2. S(2, Ignoring({"taken"}, MkDir("chunks")))
      BY <1>7, CallsOf, OnFields, ReqFields DEF DeliversBeforeOk, Delivered, Shows, Ignoring, MkDir, Dirs
    <2>3. S(3, Put("temp"))
      BY <1>7, CallsOf, ReqFields DEF DeliversBeforeOk, Delivered, Shows, Put
    <2>4. S(4, On(Answers \ {"ok"}, "next", On({"ok"}, "ok", Rename("temp", "chunk"))))
      BY <1>7, CallsOf, OnFields, ReqFields DEF DeliversBeforeOk, Delivered, Shows, Rename
    <2>5. S(5, Stat("chunk"))
      BY <1>7, CallsOf, ReqFields DEF DeliversBeforeOk, Delivered, Shows, Stat
    <2>6. S(6, IgnoringErrors(Delete("temp")))
      BY <1>7, CallsOf, OnFields, ReqFields DEF DeliversBeforeOk, Delivered, Shows, IgnoringErrors, Delete
    <2> HIDE DEF SoundRequest
    <2> QED BY <1>7, <2>1, <2>2, <2>3, <2>4, <2>5, <2>6, CallsOf DEF Sound, SoundAs, LocalUploadFile,
               UploadByRename, DirOf, Dirs
  <1> QED BY <1>1, <1>2, <1>3, <1>4, <1>5, <1>6, <1>7, CallsOf DEF SoundCall, Requests, ListFiles, DeleteFile,
             MoveFile, CreateDirectory, GetFileInfo, DownloadFile, UploadFile

(* A Samba share: as on a local disk.                                      *)
LEMMA SambaSound == \A c \in Calls : SoundCall("samba", c)
  <1> SUFFICES ASSUME NEW c \in Calls PROVE SoundCall("samba", c)
    BY DEF SoundCall
  <1>1. ASSUME c.op = "list" PROVE SoundAs("samba", c, SambaListFiles(c.path))
    BY <1>1, CallsOf, OnFields, ReqFields DEF Sound, SoundAs, Lists, ListsBeforeOk, Covered, Wanted, Gone,
       SeparateFossils, SambaListFiles, ListAll
  <1>2. ASSUME c.op = "delete" PROVE SoundAs("samba", c, SambaDeleteFile(c.path))
    BY <1>2, CallsOf, OnFields, ReqFields DEF Sound, SoundAs, SambaDeleteFile, Ignoring, Delete
  <1>3. ASSUME c.op = "move" PROVE SoundAs("samba", c, SambaMoveFile(c.path, c.to))
    BY <1>3, CallsOf, ReqFields DEF Sound, SoundAs, DeliversBeforeOk, Delivered, Shows, UnhidesBeforeOk,
       CopyAndDelete, SambaMoveFile, Rename
  <1>4. ASSUME c.op = "mkdir" PROVE SoundAs("samba", c, SambaCreateDirectory(c.path))
    BY <1>4, CallsOf, OnFields, ReqFields DEF Sound, SoundAs, Dirs, SambaCreateDirectory, Ignoring, MkDir
  <1>5. ASSUME c.op = "info" PROVE SoundAs("samba", c, SambaGetFileInfo(c.path))
    BY <1>5, CallsOf, OnFields, ReqFields DEF Sound, SoundAs, StoresInDirs, SambaGetFileInfo, Stat
  <1>6. ASSUME c.op = "download" PROVE SoundAs("samba", c, SambaDownloadFile(c.path))
    BY <1>6, CallsOf, ReqFields DEF Sound, SoundAs, StoresInDirs, SambaDownloadFile, Get
  <1>7. ASSUME c.op = "upload" PROVE SoundAs("samba", c, SambaUploadFile(c.path))
    <2> DEFINE S(i, r) == SoundRequest("samba", "upload", c.path, c.to, 6, i, r)
    <2>1. S(1, Jump({"ok"}, 3, On({"missing"}, "next", StatDir("chunks"))))
      BY <1>7, CallsOf, JumpFields, OnFields, ReqFields DEF DeliversBeforeOk, Delivered, Shows, StatDir
    <2>2. S(2, Ignoring({"taken"}, MkDir("chunks")))
      BY <1>7, CallsOf, OnFields, ReqFields DEF DeliversBeforeOk, Delivered, Shows, Ignoring, MkDir, Dirs
    <2>3. S(3, Put("temp"))
      BY <1>7, CallsOf, ReqFields DEF DeliversBeforeOk, Delivered, Shows, Put
    <2>4. S(4, On(Answers \ {"ok"}, "next", On({"ok"}, "ok", Rename("temp", "chunk"))))
      BY <1>7, CallsOf, OnFields, ReqFields DEF DeliversBeforeOk, Delivered, Shows, Rename
    <2>5. S(5, Stat("chunk"))
      BY <1>7, CallsOf, ReqFields DEF DeliversBeforeOk, Delivered, Shows, Stat
    <2>6. S(6, IgnoringErrors(Delete("temp")))
      BY <1>7, CallsOf, OnFields, ReqFields DEF DeliversBeforeOk, Delivered, Shows, IgnoringErrors, Delete
    <2> HIDE DEF SoundRequest
    <2> QED BY <1>7, <2>1, <2>2, <2>3, <2>4, <2>5, <2>6, CallsOf DEF Sound, SoundAs, SambaUploadFile,
               UploadByRename, DirOf, Dirs
  <1> QED BY <1>1, <1>2, <1>3, <1>4, <1>5, <1>6, <1>7, CallsOf DEF SoundCall, Requests, ListFiles, DeleteFile,
             MoveFile, CreateDirectory, GetFileInfo, DownloadFile, UploadFile

(* SFTP.                                                                   *)
LEMMA SFTPSound == \A c \in Calls : SoundCall("sftp", c)
  <1> SUFFICES ASSUME NEW c \in Calls PROVE SoundCall("sftp", c)
    BY DEF SoundCall
  <1>1. ASSUME c.op = "list" PROVE SoundAs("sftp", c, SFTPListFiles(c.path))
    <2> DEFINE S(i, r) == SoundRequest("sftp", "list", c.path, c.to, 1, i, r)
    <2>1. S(1, On({"missing"}, "ok", SFTPRetry(ListAll(c.path))))
      BY <1>1, CallsOf, OnFields, ClientCalls, ReqFields DEF Lists, ListsBeforeOk, Covered, Wanted, Gone,
         SeparateFossils, ListAll
    <2> HIDE DEF SoundRequest
    <2> QED BY <1>1, <2>1, CallsOf DEF Sound, SoundAs, SFTPListFiles
  <1>2. ASSUME c.op = "delete" PROVE SoundAs("sftp", c, SFTPDeleteFile(c.path))
    BY <1>2, CallsOf, OnFields, ClientCalls, ReqFields DEF Sound, SoundAs, SFTPDeleteFile, Stat, Delete
  <1>3. ASSUME c.op = "move" PROVE SoundAs("sftp", c, SFTPMoveFile(c.path, c.to))
    <2> DEFINE S(i, r) == SoundRequest("sftp", "move", c.path, c.to, 2, i, r)
    <2>1. S(1, On({"ok"}, "error", IgnoringErrors(SFTPRetry(Stat(c.to)))))
      BY <1>3, CallsOf, OnFields, ClientCalls, ReqFields DEF DeliversBeforeOk, Delivered, Shows,
         UnhidesBeforeOk, CopyAndDelete, IgnoringErrors, Stat
    <2>2. S(2, SFTPRetry(Rename(c.path, c.to)))
      BY <1>3, CallsOf, ClientCalls, ReqFields DEF DeliversBeforeOk, Delivered, Shows, UnhidesBeforeOk,
         CopyAndDelete, Rename
    <2> HIDE DEF SoundRequest
    <2> QED BY <1>3, <2>1, <2>2, CallsOf DEF Sound, SoundAs, CopyAndDelete, SFTPMoveFile
  <1>4. ASSUME c.op = "mkdir" PROVE SoundAs("sftp", c, SFTPCreateDirectory(c.path))
    <2> DEFINE S(i, r) == SoundRequest("sftp", "mkdir", c.path, c.to, 2, i, r)
    <2>1. S(1, On({"ok"}, "ok", IgnoringErrors(SFTPRetry(StatDir(c.path)))))
      BY <1>4, CallsOf, OnFields, ClientCalls, ReqFields DEF Dirs, IgnoringErrors, StatDir
    <2>2. S(2, SFTPRetry(MkDir(c.path)))
      BY <1>4, CallsOf, ClientCalls, ReqFields DEF Dirs, MkDir
    <2> HIDE DEF SoundRequest
    <2> QED BY <1>4, <2>1, <2>2, CallsOf DEF Sound, SoundAs, SFTPCreateDirectory
  <1>5. ASSUME c.op = "info" PROVE SoundAs("sftp", c, SFTPGetFileInfo(c.path))
    BY <1>5, CallsOf, OnFields, ClientCalls, ReqFields DEF Sound, SoundAs, StoresInDirs, SFTPGetFileInfo, Stat
  <1>6. ASSUME c.op = "download" PROVE SoundAs("sftp", c, SFTPDownloadFile(c.path))
    BY <1>6, CallsOf, ClientCalls, ReqFields DEF Sound, SoundAs, StoresInDirs, SFTPDownloadFile, Get
  <1>7. ASSUME c.op = "upload" PROVE SoundAs("sftp", c, SFTPUploadFile(c.path))
    <2> DEFINE S(i, r) == SoundRequest("sftp", "upload", c.path, c.to, 6, i, r)
    <2>1. S(1, Jump(Answers \ {"missing"}, 3, On({"missing"}, "next", RetryFrom(1, StatDir("chunks")))))
      BY <1>7, CallsOf, JumpFields, OnFields, RetryFromFields, ReqFields DEF DeliversBeforeOk, Delivered, Shows,
         StatDir
    <2>2. S(2, IgnoringErrors(RetryFrom(1, MkDir("chunks"))))
      BY <1>7, CallsOf, OnFields, RetryFromFields, ReqFields DEF DeliversBeforeOk, Delivered, Shows,
         IgnoringErrors, MkDir, Dirs
    <2>3. S(3, RetryFrom(1, SFTPRetry(Put("temp"))))
      BY <1>7, CallsOf, RetryFromFields, ClientCalls, ReqFields DEF DeliversBeforeOk, Delivered, Shows, Put
    <2>4. S(4, On(Answers \ {"ok"}, "next", On({"ok"}, "ok", RetryFrom(1, Rename("temp", "chunk")))))
      BY <1>7, CallsOf, OnFields, RetryFromFields, ReqFields DEF DeliversBeforeOk, Delivered, Shows, Rename
    <2>5. S(5, RetryFrom(1, SFTPRetry(Stat("chunk"))))
      BY <1>7, CallsOf, RetryFromFields, ClientCalls, ReqFields DEF DeliversBeforeOk, Delivered, Shows, Stat
    <2>6. S(6, IgnoringErrors(RetryFrom(1, Delete("temp"))))
      BY <1>7, CallsOf, OnFields, RetryFromFields, ReqFields DEF DeliversBeforeOk, Delivered, Shows,
         IgnoringErrors, Delete
    <2> HIDE DEF SoundRequest
    <2> QED BY <1>7, <2>1, <2>2, <2>3, <2>4, <2>5, <2>6, CallsOf DEF Sound, SoundAs, SFTPUploadFile, DirOf, Dirs
  <1> QED BY <1>1, <1>2, <1>3, <1>4, <1>5, <1>6, <1>7, CallsOf DEF SoundCall, Requests, ListFiles, DeleteFile,
             MoveFile, CreateDirectory, GetFileInfo, DownloadFile, UploadFile

(* WebDAV.                                                                 *)
LEMMA WebDAVSound == \A c \in Calls : SoundCall("webdav", c)
  <1> SUFFICES ASSUME NEW c \in Calls PROVE SoundCall("webdav", c)
    BY DEF SoundCall
  <1>1. ASSUME c.op = "list" PROVE SoundAs("webdav", c, WebDAVListFiles(c.path))
    <2> DEFINE S(i, r) == SoundRequest("webdav", "list", c.path, c.to, 1, i, r)
    <2>1. S(1, On({"missing"}, "ok", WebDAVGetProperties(ListAll(c.path))))
      BY <1>1, CallsOf, OnFields, ClientCalls, ReqFields DEF Lists, ListsBeforeOk, Covered, Wanted, Gone,
         SeparateFossils, WebDAVGetProperties, ListAll
    <2> HIDE DEF SoundRequest
    <2> QED BY <1>1, <2>1, CallsOf DEF Sound, SoundAs, WebDAVListFiles
  <1>2. ASSUME c.op = "delete" PROVE SoundAs("webdav", c, WebDAVDeleteFile(c.path))
    BY <1>2, CallsOf, ClientCalls, ReqFields DEF Sound, SoundAs, WebDAVDeleteFile, Delete
  <1>3. ASSUME c.op = "move" PROVE SoundAs("webdav", c, WebDAVMoveFile(c.path, c.to))
    BY <1>3, CallsOf, ClientCalls, ReqFields DEF Sound, SoundAs, DeliversBeforeOk, Delivered, Shows,
       UnhidesBeforeOk, CopyAndDelete, WebDAVMoveFile, Rename
  <1>4. ASSUME c.op = "mkdir" PROVE SoundAs("webdav", c, WebDAVCreateDirectory(c.path))
    BY <1>4, CallsOf, UnlessFields, ClientCalls, OnFields, ReqFields DEF Sound, SoundAs, Dirs,
       WebDAVCreateDirectory, Ignoring, MkDir
  <1>5. ASSUME c.op = "info" PROVE SoundAs("webdav", c, WebDAVGetFileInfo(c.path))
    BY <1>5, CallsOf, OnFields, ClientCalls, ReqFields DEF Sound, SoundAs, StoresInDirs, WebDAVGetFileInfo,
       WebDAVGetProperties, Stat
  <1>6. ASSUME c.op = "download" PROVE SoundAs("webdav", c, WebDAVDownloadFile(c.path))
    BY <1>6, CallsOf, ClientCalls, ReqFields DEF Sound, SoundAs, StoresInDirs, WebDAVDownloadFile, Get
  <1>7. ASSUME c.op = "upload" PROVE SoundAs("webdav", c, WebDAVUploadFile(c.path))
    <2> DEFINE S(i, r) == SoundRequest("webdav", "upload", c.path, c.to, 2, i, r)
    <2>1. S(1, UnlessCached("chunks", IgnoringErrors(WebDAVSendRequest(MkDir("chunks")))))
      BY <1>7, CallsOf, UnlessFields, OnFields, ClientCalls, ReqFields DEF DeliversBeforeOk, Delivered, Shows,
         IgnoringErrors, MkDir, Dirs
    <2>2. S(2, WebDAVSendRequest(Put("chunk")))
      BY <1>7, CallsOf, ClientCalls, ReqFields DEF DeliversBeforeOk, Delivered, Shows, Put
    <2> HIDE DEF SoundRequest
    <2> QED BY <1>7, <2>1, <2>2, CallsOf DEF Sound, SoundAs, WebDAVUploadFile, WebDAVCreateParentDirectory,
               DirOf, Dirs
  <1> QED BY <1>1, <1>2, <1>3, <1>4, <1>5, <1>6, <1>7, CallsOf DEF SoundCall, Requests, ListFiles, DeleteFile,
             MoveFile, CreateDirectory, GetFileInfo, DownloadFile, UploadFile

(* File Fabric.                                                            *)
LEMMA FileFabricSound == \A c \in Calls : SoundCall("filefabric", c)
  <1> SUFFICES ASSUME NEW c \in Calls PROVE SoundCall("filefabric", c)
    BY DEF SoundCall
  <1>1. ASSUME c.op = "list" PROVE SoundAs("filefabric", c, FileFabricListFiles(c.path))
    <2> DEFINE S(i, r) == SoundRequest("filefabric", "list", c.path, c.to, 2, i, r)
    <2>1. S(1, On({"missing"}, "ok", FileFabricInfo(StatDir(c.path))))
      BY <1>1, CallsOf, OnFields, RetryingFields, ReqFields DEF Lists, ListsBeforeOk, Covered, Wanted, Gone,
         SeparateFossils, FileFabricInfo, FileFabricSendRequest, Transient, StatDir
    <2>2. S(2, FileFabricSendRequest(ListPages(c.path)))
      BY <1>1, CallsOf, OnFields, RetryingFields, ReqFields DEF Lists, ListsBeforeOk, Covered, Wanted, Gone,
         SeparateFossils, FileFabricSendRequest, Transient, ListPages
    <2> HIDE DEF SoundRequest
    <2> QED BY <1>1, <2>1, <2>2, CallsOf DEF Sound, SoundAs, FileFabricListFiles
  <1>2. ASSUME c.op = "delete" PROVE SoundAs("filefabric", c, FileFabricDeleteFile(c.path))
    <2> DEFINE S(i, r) == SoundRequest("filefabric", "delete", c.path, c.to, 2, i, r)
    <2>1. S(1, FileFabricLookUp(c.path))
      BY <1>2, CallsOf, OnFields, ReqFields, RetryingFields DEF FileFabricLookUp, FileFabricInfo, Stat,
         FileFabricSendRequest, Transient
    <2>2. S(2, FileFabricSendRequest(Delete(c.path)))
      BY <1>2, CallsOf, OnFields, RetryingFields, ReqFields DEF FileFabricSendRequest, Transient, Delete
    <2> HIDE DEF SoundRequest
    <2> QED BY <1>2, <2>1, <2>2, CallsOf DEF Sound, SoundAs, FileFabricDeleteFile
  <1>3. ASSUME c.op = "move" PROVE SoundAs("filefabric", c, FileFabricMoveFile(c.path, c.to))
    <2> DEFINE S(i, r) == SoundRequest("filefabric", "move", c.path, c.to, 2, i, r)
    <2>1. S(1, FileFabricLookUp(c.path))
      BY <1>3, CallsOf, OnFields, ReqFields, RetryingFields DEF DeliversBeforeOk, Delivered, Shows,
         UnhidesBeforeOk, CopyAndDelete, FileFabricLookUp, FileFabricInfo, Stat, FileFabricSendRequest, Transient
    <2>2. S(2, FileFabricSendRequest(Rename(c.path, c.to)))
      BY <1>3, CallsOf, OnFields, RetryingFields, ReqFields DEF DeliversBeforeOk, Delivered, Shows,
         UnhidesBeforeOk, CopyAndDelete, FileFabricSendRequest, Transient, Rename
    <2> HIDE DEF SoundRequest
    <2> QED BY <1>3, <2>1, <2>2, CallsOf DEF Sound, SoundAs, CopyAndDelete, FileFabricMoveFile
  <1>4. ASSUME c.op = "mkdir" PROVE SoundAs("filefabric", c, FileFabricCreateDirectory(c.path))
    BY <1>4, CallsOf, OnFields, RetryingFields, ReqFields DEF Sound, SoundAs, Dirs, FileFabricCreateDirectory,
       Ignoring, FileFabricSendRequest, MkDir, Transient
  <1>5. ASSUME c.op = "info" PROVE SoundAs("filefabric", c, FileFabricGetFileInfo(c.path))
    BY <1>5, CallsOf, OnFields, ReqFields, RetryingFields DEF Sound, SoundAs, StoresInDirs,
       FileFabricGetFileInfo, FileFabricInfo, Stat, FileFabricSendRequest, Transient
  <1>6. ASSUME c.op = "download" PROVE SoundAs("filefabric", c, FileFabricDownloadFile(c.path))
    BY <1>6, CallsOf, OnFields, RetryingFields, ReqFields DEF Sound, SoundAs, StoresInDirs,
       FileFabricDownloadFile, FileFabricSendRequest, Get, Transient
  <1>7. ASSUME c.op = "upload" PROVE SoundAs("filefabric", c, FileFabricUploadFile(c.path))
    <2> DEFINE S(i, r) == SoundRequest("filefabric", "upload", c.path, c.to, 3, i, r)
    <2>1. S(1, UnlessCached("chunks", Jump({"ok"}, 3, Ignoring({"taken"}, FileFabricSendRequest(MkDir("chunks"))))))
      BY <1>7, CallsOf, UnlessFields, JumpFields, OnFields, RetryingFields, ReqFields DEF DeliversBeforeOk,
         Delivered, Shows, Ignoring, FileFabricSendRequest, Transient, MkDir, Dirs
    <2>2. S(2, UnlessCached("chunks", FileFabricInfo(StatDir("chunks"))))
      BY <1>7, CallsOf, UnlessFields, OnFields, RetryingFields, ReqFields DEF DeliversBeforeOk, Delivered,
         Shows, FileFabricInfo, FileFabricSendRequest, Transient, StatDir
    <2>3. S(3, On(Transient, "panic", FileFabricSendRequest(Put("chunk"))))
      BY <1>7, CallsOf, OnFields, RetryingFields, ReqFields DEF DeliversBeforeOk, Delivered, Shows, Transient,
         FileFabricSendRequest, Put
    <2> HIDE DEF SoundRequest
    <2> QED BY <1>7, <2>1, <2>2, <2>3, CallsOf, Appended DEF Sound, SoundAs, FileFabricUploadFile,
               FileFabricCreateParentDirectory, DirOf, Dirs
  <1> QED BY <1>1, <1>2, <1>3, <1>4, <1>5, <1>6, <1>7, CallsOf DEF SoundCall, Requests, ListFiles, DeleteFile,
             MoveFile, CreateDirectory, GetFileInfo, DownloadFile, UploadFile

(* S3, by the AWS library.                                                 *)
LEMMA S3Sound == \A c \in Calls : SoundCall("s3", c)
  <1> SUFFICES ASSUME NEW c \in Calls PROVE SoundCall("s3", c)
    BY DEF SoundCall
  <1>1. ASSUME c.op = "list" PROVE SoundAs("s3", c, S3ListFiles(c.path))
    <2>1. CASE c.path = "ids"
      BY <1>1, <2>1, CallsOf, ReqFields DEF Sound, SoundAs, Lists, ListsBeforeOk, Covered, Wanted, Gone,
         SeparateFossils, S3ListFiles, ListFirst
    <2>2. CASE c.path /= "ids"
      BY <1>1, <2>2, CallsOf, ReqFields DEF Sound, SoundAs, Lists, ListsBeforeOk, Covered, Wanted, Gone,
         SeparateFossils, S3ListFiles, ListPages
    <2> QED BY <2>1, <2>2
  <1>2. ASSUME c.op = "delete" PROVE SoundAs("s3", c, S3DeleteFile(c.path))
    BY <1>2, CallsOf, ReqFields DEF Sound, SoundAs, S3DeleteFile, Delete
  <1>3. ASSUME c.op = "move" PROVE SoundAs("s3", c, S3MoveFile(c.path, c.to))
    <2> DEFINE S(i, r) == SoundRequest("s3", "move", c.path, c.to, 2, i, r)
    <2>1. S(1, Copy(c.path, c.to))
      BY <1>3, CallsOf, ReqFields DEF DeliversBeforeOk, Delivered, Shows, UnhidesBeforeOk, CopyAndDelete, Copy,
         StoresInDirs
    <2>2. S(2, Delete(c.path))
      BY <1>3, CallsOf, ReqFields DEF DeliversBeforeOk, Delivered, Shows, UnhidesBeforeOk, CopyAndDelete, Delete
    <2> HIDE DEF SoundRequest
    <2> QED BY <1>3, <2>1, <2>2, CallsOf, Appended DEF Sound, SoundAs, CopyAndDelete, S3MoveFile, S3DeleteFile
  <1>4. ASSUME c.op = "mkdir" PROVE SoundAs("s3", c, S3CreateDirectory(c.path))
    BY <1>4, CallsOf DEF Sound, SoundAs, Dirs, S3CreateDirectory, NoRequest
  <1>5. ASSUME c.op = "info" PROVE SoundAs("s3", c, S3GetFileInfo(c.path))
    BY <1>5, CallsOf, OnFields, ReqFields DEF Sound, SoundAs, StoresInDirs, S3GetFileInfo, Stat
  <1>6. ASSUME c.op = "download" PROVE SoundAs("s3", c, S3DownloadFile(c.path))
    BY <1>6, CallsOf, ReqFields DEF Sound, SoundAs, StoresInDirs, S3DownloadFile, Get
  <1>7. ASSUME c.op = "upload" PROVE SoundAs("s3", c, S3UploadFile(c.path))
    BY <1>7, CallsOf, RetryingFields, ReqFields DEF Sound, SoundAs, DeliversBeforeOk, Delivered, Shows,
       S3UploadFile, Put
  <1> QED BY <1>1, <1>2, <1>3, <1>4, <1>5, <1>6, <1>7, CallsOf DEF SoundCall, Requests, ListFiles, DeleteFile,
             MoveFile, CreateDirectory, GetFileInfo, DownloadFile, UploadFile

(* S3, by goamz.                                                           *)
LEMMA S3CSound == \A c \in Calls : SoundCall("s3c", c)
  <1> SUFFICES ASSUME NEW c \in Calls PROVE SoundCall("s3c", c)
    BY DEF SoundCall
  <1>1. ASSUME c.op = "list" PROVE SoundAs("s3c", c, S3CListFiles(c.path))
    <2>1. CASE c.path = "chunks"
      <3> DEFINE S(i, r) == SoundRequest("s3c", "list", c.path, c.to, 1, i, r)
      <3>1. S(1, S3CAttempts(ListPages("chunks")))
        BY <1>1, <2>1, CallsOf, ClientCalls, ReqFields DEF Lists, ListsBeforeOk, Covered, Wanted, Gone,
           SeparateFossils, ListPages
      <3> HIDE DEF SoundRequest
      <3> QED BY <1>1, <2>1, <3>1, CallsOf DEF Sound, SoundAs, S3CListFiles
    <2>2. CASE c.path /= "chunks"
      <3> DEFINE S(i, r) == SoundRequest("s3c", "list", c.path, c.to, 1, i, r)
      <3>1. S(1, S3CAttempts(ListFirst(c.path)))
        BY <1>1, <2>2, CallsOf, ClientCalls, ReqFields DEF Lists, ListsBeforeOk, Covered, Wanted, Gone,
           SeparateFossils, ListFirst
      <3> HIDE DEF SoundRequest
      <3> QED BY <1>1, <2>2, <3>1, CallsOf DEF Sound, SoundAs, S3CListFiles
    <2> QED BY <1>1, <2>1, <2>2, CallsOf DEF Sound, SoundAs
  <1>2. ASSUME c.op = "delete" PROVE SoundAs("s3c", c, S3CDeleteFile(c.path))
    BY <1>2, CallsOf, ClientCalls, ReqFields DEF Sound, SoundAs, S3CDeleteFile, Delete
  <1>3. ASSUME c.op = "move" PROVE SoundAs("s3c", c, S3CMoveFile(c.path, c.to))
    <2> DEFINE S(i, r) == SoundRequest("s3c", "move", c.path, c.to, 2, i, r)
    <2>1. S(1, On(Answers \ {"ok"}, "ok", S3CAttempts(Copy(c.path, c.to))))
      BY <1>3, CallsOf, OnFields, ClientCalls, ReqFields DEF DeliversBeforeOk, Delivered, Shows,
         UnhidesBeforeOk, CopyAndDelete, Copy, StoresInDirs
    <2>2. S(2, S3CAttempts(Delete(c.path)))
      BY <1>3, CallsOf, ClientCalls, ReqFields DEF DeliversBeforeOk, Delivered, Shows, UnhidesBeforeOk,
         CopyAndDelete, Delete
    <2> HIDE DEF SoundRequest
    <2> QED BY <1>3, <2>1, <2>2, CallsOf, Appended DEF Sound, SoundAs, CopyAndDelete, S3CMoveFile, S3CDeleteFile
  <1>4. ASSUME c.op = "mkdir" PROVE SoundAs("s3c", c, S3CCreateDirectory(c.path))
    BY <1>4, CallsOf DEF Sound, SoundAs, Dirs, S3CCreateDirectory, NoRequest
  <1>5. ASSUME c.op = "info" PROVE SoundAs("s3c", c, S3CGetFileInfo(c.path))
    BY <1>5, CallsOf, OnFields, ClientCalls, ReqFields DEF Sound, SoundAs, StoresInDirs, S3CGetFileInfo, Stat
  <1>6. ASSUME c.op = "download" PROVE SoundAs("s3c", c, S3CDownloadFile(c.path))
    BY <1>6, CallsOf, ClientCalls, ReqFields DEF Sound, SoundAs, StoresInDirs, S3CDownloadFile, Get
  <1>7. ASSUME c.op = "upload" PROVE SoundAs("s3c", c, S3CUploadFile(c.path))
    BY <1>7, CallsOf, ClientCalls, ReqFields DEF Sound, SoundAs, DeliversBeforeOk, Delivered, Shows,
       S3CUploadFile, Put
  <1> QED BY <1>1, <1>2, <1>3, <1>4, <1>5, <1>6, <1>7, CallsOf DEF SoundCall, Requests, ListFiles, DeleteFile,
             MoveFile, CreateDirectory, GetFileInfo, DownloadFile, UploadFile

(* Wasabi: S3 but for MoveFile.                                            *)
LEMMA WasabiSound == \A c \in Calls : SoundCall("wasabi", c)
  <1> SUFFICES ASSUME NEW c \in Calls PROVE SoundCall("wasabi", c)
    BY DEF SoundCall
  <1>1. ASSUME c.op = "list" PROVE SoundAs("wasabi", c, S3ListFiles(c.path))
    <2>1. CASE c.path = "ids"
      BY <1>1, <2>1, CallsOf, ReqFields DEF Sound, SoundAs, Lists, ListsBeforeOk, Covered, Wanted, Gone,
         SeparateFossils, S3ListFiles, ListFirst
    <2>2. CASE c.path /= "ids"
      BY <1>1, <2>2, CallsOf, ReqFields DEF Sound, SoundAs, Lists, ListsBeforeOk, Covered, Wanted, Gone,
         SeparateFossils, S3ListFiles, ListPages
    <2> QED BY <2>1, <2>2
  <1>2. ASSUME c.op = "delete" PROVE SoundAs("wasabi", c, S3DeleteFile(c.path))
    BY <1>2, CallsOf, ReqFields DEF Sound, SoundAs, S3DeleteFile, Delete
  <1>3. ASSUME c.op = "move" PROVE SoundAs("wasabi", c, WasabiMoveFile(c.path, c.to))
    BY <1>3, CallsOf, ReqFields DEF Sound, SoundAs, DeliversBeforeOk, Delivered, Shows, UnhidesBeforeOk,
       CopyAndDelete, WasabiMoveFile, Rename
  <1>4. ASSUME c.op = "mkdir" PROVE SoundAs("wasabi", c, S3CreateDirectory(c.path))
    BY <1>4, CallsOf DEF Sound, SoundAs, Dirs, S3CreateDirectory, NoRequest
  <1>5. ASSUME c.op = "info" PROVE SoundAs("wasabi", c, S3GetFileInfo(c.path))
    BY <1>5, CallsOf, OnFields, ReqFields DEF Sound, SoundAs, StoresInDirs, S3GetFileInfo, Stat
  <1>6. ASSUME c.op = "download" PROVE SoundAs("wasabi", c, S3DownloadFile(c.path))
    BY <1>6, CallsOf, ReqFields DEF Sound, SoundAs, StoresInDirs, S3DownloadFile, Get
  <1>7. ASSUME c.op = "upload" PROVE SoundAs("wasabi", c, S3UploadFile(c.path))
    BY <1>7, CallsOf, RetryingFields, ReqFields DEF Sound, SoundAs, DeliversBeforeOk, Delivered, Shows,
       S3UploadFile, Put
  <1> QED BY <1>1, <1>2, <1>3, <1>4, <1>5, <1>6, <1>7, CallsOf DEF SoundCall, Requests, ListFiles, DeleteFile,
             MoveFile, CreateDirectory, GetFileInfo, DownloadFile, UploadFile

(* Azure.                                                                  *)
LEMMA AzureSound == \A c \in Calls : SoundCall("azure", c)
  <1> SUFFICES ASSUME NEW c \in Calls PROVE SoundCall("azure", c)
    BY DEF SoundCall
  <1>1. ASSUME c.op = "list" PROVE SoundAs("azure", c, AzureListFiles(c.path))
    BY <1>1, CallsOf, ReqFields DEF Sound, SoundAs, Lists, ListsBeforeOk, Covered, Wanted, Gone,
       SeparateFossils, AzureListFiles, ListPages
  <1>2. ASSUME c.op = "delete" PROVE SoundAs("azure", c, AzureDeleteFile(c.path))
    BY <1>2, CallsOf, ReqFields DEF Sound, SoundAs, AzureDeleteFile, Delete
  <1>3. ASSUME c.op = "move" PROVE SoundAs("azure", c, AzureMoveFile(c.path, c.to))
    <2> DEFINE S(i, r) == SoundRequest("azure", "move", c.path, c.to, 2, i, r)
    <2>1. S(1, Copy(c.path, c.to))
      BY <1>3, CallsOf, ReqFields DEF DeliversBeforeOk, Delivered, Shows, UnhidesBeforeOk, CopyAndDelete, Copy,
         StoresInDirs
    <2>2. S(2, Delete(c.path))
      BY <1>3, CallsOf, ReqFields DEF DeliversBeforeOk, Delivered, Shows, UnhidesBeforeOk, CopyAndDelete, Delete
    <2> HIDE DEF SoundRequest
    <2> QED BY <1>3, <2>1, <2>2, CallsOf, Appended DEF Sound, SoundAs, CopyAndDelete, AzureMoveFile,
               AzureDeleteFile
  <1>4. ASSUME c.op = "mkdir" PROVE SoundAs("azure", c, AzureCreateDirectory(c.path))
    BY <1>4, CallsOf DEF Sound, SoundAs, Dirs, AzureCreateDirectory, NoRequest
  <1>5. ASSUME c.op = "info" PROVE SoundAs("azure", c, AzureGetFileInfo(c.path))
    BY <1>5, CallsOf, OnFields, ReqFields DEF Sound, SoundAs, StoresInDirs, AzureGetFileInfo, Stat
  <1>6. ASSUME c.op = "download" PROVE SoundAs("azure", c, AzureDownloadFile(c.path))
    BY <1>6, CallsOf, ReqFields DEF Sound, SoundAs, StoresInDirs, AzureDownloadFile, Get
  <1>7. ASSUME c.op = "upload" PROVE SoundAs("azure", c, AzureUploadFile(c.path))
    BY <1>7, CallsOf, RetryingFields, ReqFields DEF Sound, SoundAs, DeliversBeforeOk, Delivered, Shows,
       AzureUploadFile, Put
  <1> QED BY <1>1, <1>2, <1>3, <1>4, <1>5, <1>6, <1>7, CallsOf DEF SoundCall, Requests, ListFiles, DeleteFile,
             MoveFile, CreateDirectory, GetFileInfo, DownloadFile, UploadFile

(* Dropbox.                                                                *)
LEMMA DropboxSound == \A c \in Calls : SoundCall("dropbox", c)
  <1> SUFFICES ASSUME NEW c \in Calls PROVE SoundCall("dropbox", c)
    BY DEF SoundCall
  <1>1. ASSUME c.op = "list" PROVE SoundAs("dropbox", c, DropboxListFiles(c.path))
    BY <1>1, CallsOf, OnFields, ReqFields DEF Sound, SoundAs, Lists, ListsBeforeOk, Covered, Wanted, Gone,
       SeparateFossils, DropboxListFiles, ListPages
  <1>2. ASSUME c.op = "delete" PROVE SoundAs("dropbox", c, DropboxDeleteFile(c.path))
    BY <1>2, CallsOf, OnFields, ReqFields DEF Sound, SoundAs, DropboxDeleteFile, Ignoring, Delete
  <1>3. ASSUME c.op = "move" PROVE SoundAs("dropbox", c, DropboxMoveFile(c.path, c.to))
    BY <1>3, CallsOf, ReqFields DEF Sound, SoundAs, DeliversBeforeOk, Delivered, Shows, UnhidesBeforeOk,
       CopyAndDelete, DropboxMoveFile, Rename
  <1>4. ASSUME c.op = "mkdir" PROVE SoundAs("dropbox", c, DropboxCreateDirectory(c.path))
    BY <1>4, CallsOf, OnFields, ReqFields DEF Sound, SoundAs, Dirs, DropboxCreateDirectory, Ignoring, MkDir
  <1>5. ASSUME c.op = "info" PROVE SoundAs("dropbox", c, DropboxGetFileInfo(c.path))
    BY <1>5, CallsOf, OnFields, ReqFields DEF Sound, SoundAs, StoresInDirs, DropboxGetFileInfo, Stat
  <1>6. ASSUME c.op = "download" PROVE SoundAs("dropbox", c, DropboxDownloadFile(c.path))
    BY <1>6, CallsOf, ReqFields DEF Sound, SoundAs, StoresInDirs, DropboxDownloadFile, Get
  <1>7. ASSUME c.op = "upload" PROVE SoundAs("dropbox", c, DropboxUploadFile(c.path))
    BY <1>7, CallsOf, ReqFields DEF Sound, SoundAs, DeliversBeforeOk, Delivered, Shows, DropboxUploadFile, Put
  <1> QED BY <1>1, <1>2, <1>3, <1>4, <1>5, <1>6, <1>7, CallsOf DEF SoundCall, Requests, ListFiles, DeleteFile,
             MoveFile, CreateDirectory, GetFileInfo, DownloadFile, UploadFile

(* Swift.                                                                  *)
LEMMA SwiftSound == \A c \in Calls : SoundCall("swift", c)
  <1> SUFFICES ASSUME NEW c \in Calls PROVE SoundCall("swift", c)
    BY DEF SoundCall
  <1>1. ASSUME c.op = "list" PROVE SoundAs("swift", c, SwiftListFiles(c.path))
    BY <1>1, CallsOf, ClientCalls, ReqFields DEF Sound, SoundAs, Lists, ListsBeforeOk, Covered, Wanted, Gone,
       SeparateFossils, SwiftListFiles, ListPages
  <1>2. ASSUME c.op = "delete" PROVE SoundAs("swift", c, SwiftDeleteFile(c.path))
    BY <1>2, CallsOf, ClientCalls, ReqFields DEF Sound, SoundAs, SwiftDeleteFile, Delete
  <1>3. ASSUME c.op = "move" PROVE SoundAs("swift", c, SwiftMoveFile(c.path, c.to))
    <2> DEFINE S(i, r) == SoundRequest("swift", "move", c.path, c.to, 2, i, r)
    <2>1. S(1, SwiftRetries(Copy(c.path, c.to)))
      BY <1>3, CallsOf, ClientCalls, ReqFields DEF DeliversBeforeOk, Delivered, Shows, UnhidesBeforeOk,
         CopyAndDelete, Copy, StoresInDirs
    <2>2. S(2, SwiftRetries(Delete(c.path)))
      BY <1>3, CallsOf, ClientCalls, ReqFields DEF DeliversBeforeOk, Delivered, Shows, UnhidesBeforeOk,
         CopyAndDelete, Delete
    <2> HIDE DEF SoundRequest
    <2> QED BY <1>3, <2>1, <2>2, CallsOf DEF Sound, SoundAs, CopyAndDelete, SwiftMoveFile
  <1>4. ASSUME c.op = "mkdir" PROVE SoundAs("swift", c, SwiftCreateDirectory(c.path))
    BY <1>4, CallsOf DEF Sound, SoundAs, Dirs, SwiftCreateDirectory, NoRequest
  <1>5. ASSUME c.op = "info" PROVE SoundAs("swift", c, SwiftGetFileInfo(c.path))
    BY <1>5, CallsOf, OnFields, ClientCalls, ReqFields DEF Sound, SoundAs, StoresInDirs, SwiftGetFileInfo, Stat
  <1>6. ASSUME c.op = "download" PROVE SoundAs("swift", c, SwiftDownloadFile(c.path))
    BY <1>6, CallsOf, ClientCalls, ReqFields DEF Sound, SoundAs, StoresInDirs, SwiftDownloadFile, Get
  <1>7. ASSUME c.op = "upload" PROVE SoundAs("swift", c, SwiftUploadFile(c.path))
    BY <1>7, CallsOf, ClientCalls, ReqFields DEF Sound, SoundAs, DeliversBeforeOk, Delivered, Shows,
       SwiftUploadFile, Put
  <1> QED BY <1>1, <1>2, <1>3, <1>4, <1>5, <1>6, <1>7, CallsOf DEF SoundCall, Requests, ListFiles, DeleteFile,
             MoveFile, CreateDirectory, GetFileInfo, DownloadFile, UploadFile

(* Storj.                                                                  *)
LEMMA StorjSound == \A c \in Calls : SoundCall("storj", c)
  <1> SUFFICES ASSUME NEW c \in Calls PROVE SoundCall("storj", c)
    BY DEF SoundCall
  <1>1. ASSUME c.op = "list" PROVE SoundAs("storj", c, StorjListFiles(c.path))
    BY <1>1, CallsOf, OnFields, ReqFields DEF Sound, SoundAs, Lists, StorjListFiles, ListPages
  <1>2. ASSUME c.op = "delete" PROVE SoundAs("storj", c, StorjDeleteFile(c.path))
    BY <1>2, CallsOf, ReqFields DEF Sound, SoundAs, StorjDeleteFile, Delete
  <1>3. ASSUME c.op = "move" PROVE SoundAs("storj", c, StorjMoveFile(c.path, c.to))
    BY <1>3, CallsOf, ReqFields DEF Sound, SoundAs, DeliversBeforeOk, Delivered, Shows, UnhidesBeforeOk,
       CopyAndDelete, StorjMoveFile, Rename
  <1>4. ASSUME c.op = "mkdir" PROVE SoundAs("storj", c, StorjCreateDirectory(c.path))
    BY <1>4, CallsOf DEF Sound, SoundAs, Dirs, StorjCreateDirectory, NoRequest
  <1>5. ASSUME c.op = "info" PROVE SoundAs("storj", c, StorjGetFileInfo(c.path))
    BY <1>5, CallsOf, OnFields, ReqFields DEF Sound, SoundAs, StoresInDirs, StorjGetFileInfo, Stat
  <1>6. ASSUME c.op = "download" PROVE SoundAs("storj", c, StorjDownloadFile(c.path))
    BY <1>6, CallsOf, ReqFields DEF Sound, SoundAs, StoresInDirs, StorjDownloadFile, Get
  <1>7. ASSUME c.op = "upload" PROVE SoundAs("storj", c, StorjUploadFile(c.path))
    BY <1>7, CallsOf, ReqFields DEF Sound, SoundAs, DeliversBeforeOk, Delivered, Shows, StorjUploadFile,
       Prepare, Put
  <1> QED BY <1>1, <1>2, <1>3, <1>4, <1>5, <1>6, <1>7, CallsOf DEF SoundCall, Requests, ListFiles, DeleteFile,
             MoveFile, CreateDirectory, GetFileInfo, DownloadFile, UploadFile

(* Google Cloud Storage.                                                   *)
LEMMA GCSSound == \A c \in Calls : SoundCall("gcs", c)
  <1> SUFFICES ASSUME NEW c \in Calls PROVE SoundCall("gcs", c)
    BY DEF SoundCall
  <1>1. ASSUME c.op = "list" PROVE SoundAs("gcs", c, GCSListFiles(c.path))
    BY <1>1, CallsOf, ReqFields DEF Sound, SoundAs, Lists, ListsBeforeOk, Covered, Wanted, Gone,
       SeparateFossils, GCSListFiles, ListPages
  <1>2. ASSUME c.op = "delete" PROVE SoundAs("gcs", c, GCSDeleteFile(c.path))
    BY <1>2, CallsOf, OnFields, ReqFields DEF Sound, SoundAs, GCSDeleteFile, Ignoring, Delete
  <1>3. ASSUME c.op = "move" PROVE SoundAs("gcs", c, GCSMoveFile(c.path, c.to))
    <2> DEFINE S(i, r) == SoundRequest("gcs", "move", c.path, c.to, 2, i, r)
    <2>1. S(1, Copy(c.path, c.to))
      BY <1>3, CallsOf, ReqFields DEF DeliversBeforeOk, Delivered, Shows, UnhidesBeforeOk, CopyAndDelete, Copy,
         StoresInDirs
    <2>2. S(2, Ignoring({"missing"}, Delete(c.path)))
      BY <1>3, CallsOf, OnFields, ReqFields DEF DeliversBeforeOk, Delivered, Shows, UnhidesBeforeOk,
         CopyAndDelete, Ignoring, Delete
    <2> HIDE DEF SoundRequest
    <2> QED BY <1>3, <2>1, <2>2, CallsOf, Appended DEF Sound, SoundAs, CopyAndDelete, GCSMoveFile, GCSDeleteFile
  <1>4. ASSUME c.op = "mkdir" PROVE SoundAs("gcs", c, GCSCreateDirectory(c.path))
    BY <1>4, CallsOf DEF Sound, SoundAs, Dirs, GCSCreateDirectory, NoRequest
  <1>5. ASSUME c.op = "info" PROVE SoundAs("gcs", c, GCSGetFileInfo(c.path))
    BY <1>5, CallsOf, OnFields, ReqFields DEF Sound, SoundAs, StoresInDirs, GCSGetFileInfo, Stat
  <1>6. ASSUME c.op = "download" PROVE SoundAs("gcs", c, GCSDownloadFile(c.path))
    BY <1>6, CallsOf, ReqFields DEF Sound, SoundAs, StoresInDirs, GCSDownloadFile, Get
  <1>7. ASSUME c.op = "upload" PROVE SoundAs("gcs", c, GCSUploadFile(c.path))
    <2> DEFINE S(i, r) == SoundRequest("gcs", "upload", c.path, c.to, 2, i, r)
    <2>1. S(1, GCSShouldRetry(Prepare))
      BY <1>7, CallsOf, ClientCalls, ReqFields DEF DeliversBeforeOk, Delivered, Shows, Prepare
    <2>2. S(2, IgnoringErrors(Put(c.path)))
      BY <1>7, CallsOf, OnFields, ReqFields DEF DeliversBeforeOk, Delivered, Shows, IgnoringErrors, Put
    <2> HIDE DEF SoundRequest
    <2> QED BY <1>7, <2>1, <2>2, CallsOf DEF Sound, SoundAs, GCSUploadFile
  <1> QED BY <1>1, <1>2, <1>3, <1>4, <1>5, <1>6, <1>7, CallsOf DEF SoundCall, Requests, ListFiles, DeleteFile,
             MoveFile, CreateDirectory, GetFileInfo, DownloadFile, UploadFile

(* B2.                                                                     *)
LEMMA B2Sound == \A c \in Calls : SoundCall("b2", c)
  <1> SUFFICES ASSUME NEW c \in Calls PROVE SoundCall("b2", c)
    BY DEF SoundCall
  <1>1. ASSUME c.op = "list" PROVE SoundAs("b2", c, B2ListFiles(c.path))
    BY <1>1, CallsOf, B2CallFields, ReqFields DEF Sound, SoundAs, Lists, ListsBeforeOk, Covered, Wanted, Gone,
       SeparateFossils, B2ListFiles, B2ListFileNames, ListPages
  <1>2. ASSUME c.op = "delete" PROVE SoundAs("b2", c, B2DeleteFile(c.path))
    <2>1. CASE c.path = "fossil"
      <3> DEFINE S(i, r) == SoundRequest("b2", "delete", c.path, c.to, 2, i, r)
      <3>1. S(1, On({"missing"}, "ok", B2ListFileNames(FindMarker)))
        BY <1>2, <2>1, CallsOf, OnFields, B2CallFields, ReqFields DEF B2ListFileNames, FindMarker
      <3>2. S(2, B2ClientDeleteFile(PurgeFound))
        BY <1>2, <2>1, CallsOf, B2CallFields, ReqFields DEF B2ClientDeleteFile, PurgeFound
      <3> HIDE DEF SoundRequest
      <3> QED BY <1>2, <2>1, <3>1, <3>2, CallsOf DEF Sound, SoundAs, B2DeleteFile
    <2>2. CASE c.path = "chunk"
      <3> DEFINE S(i, r) == SoundRequest("b2", "delete", c.path, c.to, 2, i, r)
      <3>1. S(1, On({"missing"}, "ok", B2ListFileNames(FindNewest("chunk"))))
        BY <1>2, <2>2, CallsOf, OnFields, B2CallFields, ReqFields DEF B2ListFileNames, FindNewest
      <3>2. S(2, B2ClientDeleteFile(DropFound("chunk")))
        BY <1>2, <2>2, CallsOf, B2CallFields, ReqFields DEF B2ClientDeleteFile, DropFound
      <3> HIDE DEF SoundRequest
      <3> QED BY <1>2, <2>2, <3>1, <3>2, CallsOf DEF Sound, SoundAs, B2DeleteFile
    <2> QED BY <1>2, <2>1, <2>2, CallsOf DEF Sound, SoundAs
  <1>3. ASSUME c.op = "move" PROVE SoundAs("b2", c, B2MoveFile(c.path, c.to))
    <2>1. CASE c.to = "fossil"
      <3> DEFINE S(i, r) == SoundRequest("b2", "move", c.path, c.to, 1, i, r)
      <3>1. S(1, B2HideFile)
        BY <1>3, <2>1, CallsOf, B2CallFields, ReqFields DEF DeliversBeforeOk, Delivered, Shows, UnhidesBeforeOk,
           CopyAndDelete, B2HideFile, Hide
      <3> HIDE DEF SoundRequest
      <3> QED BY <1>3, <2>1, <3>1, CallsOf DEF Sound, SoundAs, CopyAndDelete, B2MoveFile
    <2>2. CASE c.to = "chunk"
      <3> DEFINE S(i, r) == SoundRequest("b2", "move", c.path, c.to, 2, i, r)
      <3>1. S(1, On({"missing"}, "ok", B2ListFileNames(FindNewest("fossil"))))
        BY <1>3, <2>2, CallsOf, OnFields, B2CallFields, ReqFields DEF DeliversBeforeOk, Delivered, Shows,
           UnhidesBeforeOk, CopyAndDelete, B2ListFileNames, FindNewest
      <3>2. S(2, B2ClientDeleteFile(DropMarker))
        BY <1>3, <2>2, CallsOf, B2CallFields, ReqFields DEF DeliversBeforeOk, Delivered, Shows, UnhidesBeforeOk,
           CopyAndDelete, B2ClientDeleteFile, DropMarker
      <3> HIDE DEF SoundRequest
      <3> QED BY <1>3, <2>2, <3>1, <3>2, CallsOf DEF Sound, SoundAs, CopyAndDelete, B2MoveFile
    <2> QED BY <1>3, <2>1, <2>2, CallsOf DEF Sound, SoundAs, CopyAndDelete
  <1>4. ASSUME c.op = "mkdir" PROVE SoundAs("b2", c, B2CreateDirectory(c.path))
    BY <1>4, CallsOf DEF Sound, SoundAs, Dirs, B2CreateDirectory, NoRequest
  <1>5. ASSUME c.op = "info" PROVE SoundAs("b2", c, B2GetFileInfo(c.path))
    BY <1>5, CallsOf, OnFields, B2CallFields, ReqFields DEF Sound, SoundAs, StoresInDirs, B2GetFileInfo,
       B2ListFileNames, Stat
  <1>6. ASSUME c.op = "download" PROVE SoundAs("b2", c, B2DownloadFile(c.path))
    <2>1. CASE c.path = "fossil"
      <3> DEFINE S(i, r) == SoundRequest("b2", "download", c.path, c.to, 2, i, r)
      <3>1. S(1, IgnoringErrors(B2ListFileNames(Prepare)))
        BY <1>6, <2>1, CallsOf, OnFields, B2CallFields, ReqFields DEF StoresInDirs, IgnoringErrors,
           B2ListFileNames, Prepare
      <3>2. S(2, B2ClientDownloadFile("fossil"))
        BY <1>6, <2>1, CallsOf, B2CallFields, ReqFields DEF StoresInDirs, B2ClientDownloadFile, Get
      <3> HIDE DEF SoundRequest
      <3> QED BY <1>6, <2>1, <3>1, <3>2, CallsOf, Appended DEF Sound, SoundAs, B2DownloadFile
    <2>2. CASE c.path = "chunk"
      <3> DEFINE S(i, r) == SoundRequest("b2", "download", c.path, c.to, 1, i, r)
      <3>1. S(1, B2ClientDownloadFile("chunk"))
        BY <1>6, <2>2, CallsOf, B2CallFields, ReqFields DEF StoresInDirs, B2ClientDownloadFile, Get
      <3> HIDE DEF SoundRequest
      <3> QED BY <1>6, <2>2, <3>1, CallsOf, Appended DEF Sound, SoundAs, B2DownloadFile
    <2> QED BY <1>6, <2>1, <2>2, CallsOf DEF Sound, SoundAs
  <1>7. ASSUME c.op = "upload" PROVE SoundAs("b2", c, B2UploadFile(c.path))
    <2> DEFINE S(i, r) == SoundRequest("b2", "upload", c.path, c.to, 2, i, r)
    <2>1. S(1, B2GetUploadURL)
      BY <1>7, CallsOf, B2CallFields, UnlessFields, ReqFields DEF DeliversBeforeOk, Delivered, Shows,
         B2GetUploadURL, Prepare
    <2>2. S(2, RetryFrom(1, B2Call(Put(c.path))))
      BY <1>7, CallsOf, RetryFromFields, B2CallFields, ReqFields DEF DeliversBeforeOk, Delivered, Shows, Put
    <2> HIDE DEF SoundRequest
    <2> QED BY <1>7, <2>1, <2>2, CallsOf DEF Sound, SoundAs, B2UploadFile, B2ClientUploadFile
  <1> QED BY <1>1, <1>2, <1>3, <1>4, <1>5, <1>6, <1>7, CallsOf DEF SoundCall, Requests, ListFiles, DeleteFile,
             MoveFile, CreateDirectory, GetFileInfo, DownloadFile, UploadFile

(* OneDrive.                                                               *)
LEMMA OneDriveSound == \A c \in Calls : SoundCall("onedrive", c)
  <1> SUFFICES ASSUME NEW c \in Calls PROVE SoundCall("onedrive", c)
    BY DEF SoundCall
  <1>1. ASSUME c.op = "list" PROVE SoundAs("onedrive", c, OneDriveListFiles(c.path))
    <2>1. CASE c.path = "chunks"
      <3> DEFINE S(i, r) == SoundRequest("onedrive", "list", c.path, c.to, 2, i, r)
      <3>1. S(1, OneDriveListEntries("chunks"))
        BY <1>1, <2>1, CallsOf, ClientCalls, ReqFields DEF Lists, ListsBeforeOk, Covered, Wanted, Gone,
           SeparateFossils, OneDriveListEntries, ListPages
      <3>2. S(2, OneDriveListEntries("fossils"))
        BY <1>1, <2>1, CallsOf, ClientCalls, ReqFields DEF Lists, ListsBeforeOk, Covered, Wanted, Gone,
           SeparateFossils, OneDriveListEntries, ListPages
      <3> HIDE DEF SoundRequest
      <3> QED BY <1>1, <2>1, <3>1, <3>2, CallsOf DEF Sound, SoundAs, OneDriveListFiles
    <2>2. CASE c.path = "revisions"
      <3> DEFINE S(i, r) == SoundRequest("onedrive", "list", c.path, c.to, 1, i, r)
      <3>1. S(1, On({"missing"}, "ok", OneDriveListEntries("revisions")))
        BY <1>1, <2>2, CallsOf, OnFields, ClientCalls, ReqFields DEF Lists, ListsBeforeOk, Covered, Wanted,
           Gone, SeparateFossils, OneDriveListEntries, ListPages
      <3> HIDE DEF SoundRequest
      <3> QED BY <1>1, <2>2, <3>1, CallsOf DEF Sound, SoundAs, OneDriveListFiles
    <2>3. CASE c.path = "ids"
      <3> DEFINE S(i, r) == SoundRequest("onedrive", "list", c.path, c.to, 1, i, r)
      <3>1. S(1, On({}, "ok", OneDriveListEntries("ids")))
        BY <1>1, <2>3, CallsOf, OnFields, ClientCalls, ReqFields DEF Lists, ListsBeforeOk, Covered, Wanted,
           Gone, SeparateFossils, OneDriveListEntries, ListPages
      <3> HIDE DEF SoundRequest
      <3> QED BY <1>1, <2>3, <3>1, CallsOf DEF Sound, SoundAs, OneDriveListFiles
    <2> QED BY <1>1, <2>1, <2>2, <2>3, CallsOf DEF Sound, SoundAs
  <1>2. ASSUME c.op = "delete" PROVE SoundAs("onedrive", c, OneDriveDeleteFile(c.path))
    BY <1>2, CallsOf, ClientCalls, OnFields, ReqFields DEF Sound, SoundAs, OneDriveDeleteFile, OneDriveDelete,
       Ignoring, Delete
  <1>3. ASSUME c.op = "move" PROVE SoundAs("onedrive", c, OneDriveMoveFile(c.path, c.to))
    <2> DEFINE S(i, r) == SoundRequest("onedrive", "move", c.path, c.to, 3, i, r)
    <2>1. S(1, On({"nodir"}, "next", On({"ok", "taken"}, "ok", OneDriveCall(Rename(c.path, c.to)))))
      BY <1>3, CallsOf, OnFields, ClientCalls, ReqFields DEF DeliversBeforeOk, Delivered, Shows,
         UnhidesBeforeOk, CopyAndDelete, Rename
    <2>2. S(2, IgnoringErrors(OneDriveMkDir("fossils")))
      BY <1>3, CallsOf, OnFields, ClientCalls, ReqFields DEF DeliversBeforeOk, Delivered, Shows,
         UnhidesBeforeOk, CopyAndDelete, IgnoringErrors, OneDriveMkDir, Ignoring, MkDir, Dirs
    <2>3. S(3, IgnoringErrors(OneDriveCall(Rename(c.path, c.to))))
      BY <1>3, CallsOf, OnFields, ClientCalls, ReqFields DEF DeliversBeforeOk, Delivered, Shows,
         UnhidesBeforeOk, CopyAndDelete, IgnoringErrors, Rename
    <2> HIDE DEF SoundRequest
    <2> QED BY <1>3, <2>1, <2>2, <2>3, CallsOf DEF Sound, SoundAs, CopyAndDelete, OneDriveMoveFile, OneDriveMove
  <1>4. ASSUME c.op = "mkdir" PROVE SoundAs("onedrive", c, OneDriveCreateDirectory(c.path))
    BY <1>4, CallsOf, ClientCalls, OnFields, ReqFields DEF Sound, SoundAs, Dirs, OneDriveCreateDirectory,
       OneDriveMkDir, Ignoring, MkDir
  <1>5. ASSUME c.op = "info" PROVE SoundAs("onedrive", c, OneDriveGetFileInfo(c.path))
    BY <1>5, CallsOf, OnFields, ClientCalls, ReqFields DEF Sound, SoundAs, StoresInDirs, OneDriveGetFileInfo,
       OneDriveStat, Stat
  <1>6. ASSUME c.op = "download" PROVE SoundAs("onedrive", c, OneDriveDownloadFile(c.path))
    BY <1>6, CallsOf, ClientCalls, ReqFields DEF Sound, SoundAs, StoresInDirs, OneDriveDownloadFile,
       OneDriveGet, Get
  <1>7. ASSUME c.op = "upload" PROVE SoundAs("onedrive", c, OneDriveUploadFile("onedrive", c.path))
    <2> DEFINE S(i, r) == SoundRequest("onedrive", "upload", c.path, c.to, 1, i, r)
    <2>1. S(1, OneDrivePut("chunk"))
      BY <1>7, CallsOf, OnFields, ClientCalls, ReqFields DEF DeliversBeforeOk, Delivered, Shows, OneDrivePut,
         Put
    <2> HIDE DEF SoundRequest
    <2> QED BY <1>7, <2>1, CallsOf DEF Sound, SoundAs, OneDriveUploadFile
  <1> QED BY <1>1, <1>2, <1>3, <1>4, <1>5, <1>6, <1>7, CallsOf DEF SoundCall, Requests, ListFiles, DeleteFile,
             MoveFile, CreateDirectory, GetFileInfo, DownloadFile, UploadFile

(* OneDrive for business: as OneDrive but for UploadFile.                  *)
LEMMA OneDriveForBusinessSound == \A c \in Calls : SoundCall("onebusiness", c)
  <1> SUFFICES ASSUME NEW c \in Calls PROVE SoundCall("onebusiness", c)
    BY DEF SoundCall
  <1>1. ASSUME c.op = "list" PROVE SoundAs("onebusiness", c, OneDriveListFiles(c.path))
    <2>1. CASE c.path = "chunks"
      <3> DEFINE S(i, r) == SoundRequest("onebusiness", "list", c.path, c.to, 2, i, r)
      <3>1. S(1, OneDriveListEntries("chunks"))
        BY <1>1, <2>1, CallsOf, ClientCalls, ReqFields DEF Lists, ListsBeforeOk, Covered, Wanted, Gone,
           SeparateFossils, OneDriveListEntries, ListPages
      <3>2. S(2, OneDriveListEntries("fossils"))
        BY <1>1, <2>1, CallsOf, ClientCalls, ReqFields DEF Lists, ListsBeforeOk, Covered, Wanted, Gone,
           SeparateFossils, OneDriveListEntries, ListPages
      <3> HIDE DEF SoundRequest
      <3> QED BY <1>1, <2>1, <3>1, <3>2, CallsOf DEF Sound, SoundAs, OneDriveListFiles
    <2>2. CASE c.path = "revisions"
      <3> DEFINE S(i, r) == SoundRequest("onebusiness", "list", c.path, c.to, 1, i, r)
      <3>1. S(1, On({"missing"}, "ok", OneDriveListEntries("revisions")))
        BY <1>1, <2>2, CallsOf, OnFields, ClientCalls, ReqFields DEF Lists, ListsBeforeOk, Covered, Wanted,
           Gone, SeparateFossils, OneDriveListEntries, ListPages
      <3> HIDE DEF SoundRequest
      <3> QED BY <1>1, <2>2, <3>1, CallsOf DEF Sound, SoundAs, OneDriveListFiles
    <2>3. CASE c.path = "ids"
      <3> DEFINE S(i, r) == SoundRequest("onebusiness", "list", c.path, c.to, 1, i, r)
      <3>1. S(1, On({}, "ok", OneDriveListEntries("ids")))
        BY <1>1, <2>3, CallsOf, OnFields, ClientCalls, ReqFields DEF Lists, ListsBeforeOk, Covered, Wanted,
           Gone, SeparateFossils, OneDriveListEntries, ListPages
      <3> HIDE DEF SoundRequest
      <3> QED BY <1>1, <2>3, <3>1, CallsOf DEF Sound, SoundAs, OneDriveListFiles
    <2> QED BY <1>1, <2>1, <2>2, <2>3, CallsOf DEF Sound, SoundAs
  <1>2. ASSUME c.op = "delete" PROVE SoundAs("onebusiness", c, OneDriveDeleteFile(c.path))
    BY <1>2, CallsOf, ClientCalls, OnFields, ReqFields DEF Sound, SoundAs, OneDriveDeleteFile, OneDriveDelete,
       Ignoring, Delete
  <1>3. ASSUME c.op = "move" PROVE SoundAs("onebusiness", c, OneDriveMoveFile(c.path, c.to))
    <2> DEFINE S(i, r) == SoundRequest("onebusiness", "move", c.path, c.to, 3, i, r)
    <2>1. S(1, On({"nodir"}, "next", On({"ok", "taken"}, "ok", OneDriveCall(Rename(c.path, c.to)))))
      BY <1>3, CallsOf, OnFields, ClientCalls, ReqFields DEF DeliversBeforeOk, Delivered, Shows,
         UnhidesBeforeOk, CopyAndDelete, Rename
    <2>2. S(2, IgnoringErrors(OneDriveMkDir("fossils")))
      BY <1>3, CallsOf, OnFields, ClientCalls, ReqFields DEF DeliversBeforeOk, Delivered, Shows,
         UnhidesBeforeOk, CopyAndDelete, IgnoringErrors, OneDriveMkDir, Ignoring, MkDir, Dirs
    <2>3. S(3, IgnoringErrors(OneDriveCall(Rename(c.path, c.to))))
      BY <1>3, CallsOf, OnFields, ClientCalls, ReqFields DEF DeliversBeforeOk, Delivered, Shows,
         UnhidesBeforeOk, CopyAndDelete, IgnoringErrors, Rename
    <2> HIDE DEF SoundRequest
    <2> QED BY <1>3, <2>1, <2>2, <2>3, CallsOf DEF Sound, SoundAs, CopyAndDelete, OneDriveMoveFile, OneDriveMove
  <1>4. ASSUME c.op = "mkdir" PROVE SoundAs("onebusiness", c, OneDriveCreateDirectory(c.path))
    BY <1>4, CallsOf, ClientCalls, OnFields, ReqFields DEF Sound, SoundAs, Dirs, OneDriveCreateDirectory,
       OneDriveMkDir, Ignoring, MkDir
  <1>5. ASSUME c.op = "info" PROVE SoundAs("onebusiness", c, OneDriveGetFileInfo(c.path))
    BY <1>5, CallsOf, OnFields, ClientCalls, ReqFields DEF Sound, SoundAs, StoresInDirs, OneDriveGetFileInfo,
       OneDriveStat, Stat
  <1>6. ASSUME c.op = "download" PROVE SoundAs("onebusiness", c, OneDriveDownloadFile(c.path))
    BY <1>6, CallsOf, ClientCalls, ReqFields DEF Sound, SoundAs, StoresInDirs, OneDriveDownloadFile,
       OneDriveGet, Get
  <1>7. ASSUME c.op = "upload" PROVE SoundAs("onebusiness", c, OneDriveUploadFile("onebusiness", c.path))
    <2> DEFINE S(i, r) == SoundRequest("onebusiness", "upload", c.path, c.to, 2, i, r)
    <2>1. S(1, OneDriveCreateUploadSession)
      BY <1>7, CallsOf, ClientCalls, ReqFields DEF DeliversBeforeOk, Delivered, Shows,
         OneDriveCreateUploadSession, Prepare
    <2>2. S(2, OneDriveUploadFileSession("chunk"))
      BY <1>7, CallsOf, OnFields, ClientCalls, ReqFields DEF DeliversBeforeOk, Delivered, Shows,
         OneDriveUploadFileSession, Put
    <2> HIDE DEF SoundRequest
    <2> QED BY <1>7, <2>1, <2>2, CallsOf DEF Sound, SoundAs, OneDriveUploadFile
  <1> QED BY <1>1, <1>2, <1>3, <1>4, <1>5, <1>6, <1>7, CallsOf DEF SoundCall, Requests, ListFiles, DeleteFile,
             MoveFile, CreateDirectory, GetFileInfo, DownloadFile, UploadFile

(* Hubic.                                                                  *)
LEMMA HubicSound == \A c \in Calls : SoundCall("hubic", c)
  <1> SUFFICES ASSUME NEW c \in Calls PROVE SoundCall("hubic", c)
    BY DEF SoundCall
  <1>1. ASSUME c.op = "list" PROVE SoundAs("hubic", c, HubicListFiles(c.path))
    <2>1. CASE c.path = "revisions"
      <3> DEFINE S(i, r) == SoundRequest("hubic", "list", c.path, c.to, 1, i, r)
      <3>1. S(1, On({"missing"}, "ok", HubicListEntries("revisions")))
        BY <1>1, <2>1, CallsOf, OnFields, ClientCalls, ReqFields DEF Lists, ListsBeforeOk, Covered, Wanted,
           Gone, SeparateFossils, HubicListEntries, ListPages
      <3> HIDE DEF SoundRequest
      <3> QED BY <1>1, <2>1, <3>1, CallsOf DEF Sound, SoundAs, HubicListFiles
    <2>2. CASE c.path /= "revisions"
      <3> DEFINE S(i, r) == SoundRequest("hubic", "list", c.path, c.to, 1, i, r)
      <3>1. S(1, On({}, "ok", HubicListEntries(c.path)))
        BY <1>1, <2>2, CallsOf, OnFields, ClientCalls, ReqFields DEF Lists, ListsBeforeOk, Covered, Wanted,
           Gone, SeparateFossils, HubicListEntries, ListPages
      <3> HIDE DEF SoundRequest
      <3> QED BY <1>1, <2>2, <3>1, CallsOf DEF Sound, SoundAs, HubicListFiles
    <2> QED BY <1>1, <2>1, <2>2, CallsOf DEF Sound, SoundAs
  <1>2. ASSUME c.op = "delete" PROVE SoundAs("hubic", c, HubicDeleteFile(c.path))
    BY <1>2, CallsOf, OnFields, ClientCalls, ReqFields DEF Sound, SoundAs, HubicDeleteFile, Ignoring,
       HubicDelete, Delete
  <1>3. ASSUME c.op = "move" PROVE SoundAs("hubic", c, HubicMoveFile(c.path, c.to))
    <2> DEFINE S(i, r) == SoundRequest("hubic", "move", c.path, c.to, 2, i, r)
    <2>1. S(1, HubicCall(Copy(c.path, c.to)))
      BY <1>3, CallsOf, ClientCalls, ReqFields DEF DeliversBeforeOk, Delivered, Shows, UnhidesBeforeOk,
         CopyAndDelete, Copy, StoresInDirs
    <2>2. S(2, HubicDelete(c.path))
      BY <1>3, CallsOf, ClientCalls, ReqFields DEF DeliversBeforeOk, Delivered, Shows, UnhidesBeforeOk,
         CopyAndDelete, HubicDelete, Delete
    <2> HIDE DEF SoundRequest
    <2> QED BY <1>3, <2>1, <2>2, CallsOf DEF Sound, SoundAs, CopyAndDelete, HubicMoveFile, HubicMove
  <1>4. ASSUME c.op = "mkdir" PROVE SoundAs("hubic", c, HubicCreateDirectory(c.path))
    BY <1>4, CallsOf, ClientCalls, OnFields, ReqFields DEF Sound, SoundAs, Dirs, HubicCreateDirectory,
       HubicMkDir, Ignoring, MkDir
  <1>5. ASSUME c.op = "info" PROVE SoundAs("hubic", c, HubicGetFileInfo(c.path))
    BY <1>5, CallsOf, OnFields, ClientCalls, ReqFields DEF Sound, SoundAs, StoresInDirs, HubicGetFileInfo,
       HubicStat, Stat
  <1>6. ASSUME c.op = "download" PROVE SoundAs("hubic", c, HubicDownloadFile(c.path))
    BY <1>6, CallsOf, ClientCalls, ReqFields DEF Sound, SoundAs, StoresInDirs, HubicDownloadFile, HubicGet, Get
  <1>7. ASSUME c.op = "upload" PROVE SoundAs("hubic", c, HubicUploadFile(c.path))
    BY <1>7, CallsOf, ClientCalls, ReqFields DEF Sound, SoundAs, DeliversBeforeOk, Delivered, Shows,
       HubicUploadFile, HubicPut, Put
  <1> QED BY <1>1, <1>2, <1>3, <1>4, <1>5, <1>6, <1>7, CallsOf DEF SoundCall, Requests, ListFiles, DeleteFile,
             MoveFile, CreateDirectory, GetFileInfo, DownloadFile, UploadFile

(* Amazon Cloud Drive.                                                     *)
LEMMA ACDSound == \A c \in Calls : SoundCall("acd", c)
  <1> SUFFICES ASSUME NEW c \in Calls PROVE SoundCall("acd", c)
    BY DEF SoundCall
  <1>1. ASSUME c.op = "list" PROVE SoundAs("acd", c, ACDListFiles(c.path))
    <2>1. CASE c.path = "chunks"
      <3> DEFINE S(i, r) == SoundRequest("acd", "list", c.path, c.to, 2, i, r)
      <3>1. S(1, Ignoring({"missing"}, ACDListEntries("chunks")))
        BY <1>1, <2>1, CallsOf, OnFields, ClientCalls, ReqFields DEF Lists, ListsBeforeOk, Covered, Wanted,
           Gone, SeparateFossils, Ignoring, ACDListEntries, ListPages
      <3>2. S(2, Ignoring({"missing"}, ACDListEntries("fossils")))
        BY <1>1, <2>1, CallsOf, OnFields, ClientCalls, ReqFields DEF Lists, ListsBeforeOk, Covered, Wanted,
           Gone, SeparateFossils, Ignoring, ACDListEntries, ListPages
      <3> HIDE DEF SoundRequest
      <3> QED BY <1>1, <2>1, <3>1, <3>2, CallsOf DEF Sound, SoundAs, ACDListFiles
    <2>2. CASE c.path /= "chunks"
      <3> DEFINE S(i, r) == SoundRequest("acd", "list", c.path, c.to, 2, i, r)
      <3>1. S(1, On({"missing"}, "ok", ACDFindDir(c.path)))
        BY <1>1, <2>2, CallsOf, OnFields, UnlessFields, ClientCalls, ReqFields DEF Lists, ListsBeforeOk,
           Covered, Wanted, Gone, SeparateFossils, ACDFindDir, ACDListByName, StatDir
      <3>2. S(2, ACDListEntries(c.path))
        BY <1>1, <2>2, CallsOf, ClientCalls, ReqFields DEF Lists, ListsBeforeOk, Covered, Wanted, Gone,
           SeparateFossils, ACDListEntries, ListPages
      <3> HIDE DEF SoundRequest
      <3> QED BY <1>1, <2>2, <3>1, <3>2, CallsOf DEF Sound, SoundAs, ACDListFiles
    <2> QED BY <1>1, <2>1, <2>2, CallsOf DEF Sound, SoundAs
  <1>2. ASSUME c.op = "delete" PROVE SoundAs("acd", c, ACDDeleteFile(c.path))
    <2> DEFINE S(i, r) == SoundRequest("acd", "delete", c.path, c.to, 2, i, r)
    <2>1. S(1, On({"missing"}, "ok", ACDFindFile(c.path)))
      BY <1>2, CallsOf, OnFields, UnlessFields, ClientCalls, ReqFields DEF ACDFindFile, ACDListByName, Stat
    <2>2. S(2, ACDDelete(c.path))
      BY <1>2, CallsOf, ClientCalls, OnFields, ReqFields DEF ACDDelete, Ignoring, Delete
    <2> HIDE DEF SoundRequest
    <2> QED BY <1>2, <2>1, <2>2, CallsOf DEF Sound, SoundAs, ACDDeleteFile
  <1>3. ASSUME c.op = "move" PROVE SoundAs("acd", c, ACDMoveFile(c.path, c.to))
    <2> DEFINE S(i, r) == SoundRequest("acd", "move", c.path, c.to, 6, i, r)
               e == DirOf("acd", c.path)
               d == DirOf("acd", c.to)
    <2>0. e \in Dirs /\ e = DirOf("acd", c.path) /\ d \in Dirs
      BY <1>3, CallsOf DEF DirOf, Dirs
    <2> HIDE DEF e, d
    <2>1. S(1, UnlessCached(c.path, Fail))
      BY <1>3, <2>0, CallsOf, UnlessFields, ReqFields DEF DeliversBeforeOk, Delivered, Shows, UnhidesBeforeOk,
         CopyAndDelete, Fail, Dirs
    <2>2. S(2, ACDFindDir(e))
      BY <1>3, <2>0, CallsOf, UnlessFields, ClientCalls, ReqFields DEF DeliversBeforeOk, Delivered, Shows,
         UnhidesBeforeOk, CopyAndDelete, ACDFindDir, ACDListByName, StatDir, Dirs
    <2>3. S(3, UnlessCached(d, On({"missing"}, "next", Jump({"ok"}, 6, ACDListByName(StatDir(d))))))
      <3> DEFINE y == ACDListByName(StatDir(d))
                 z == Jump({"ok"}, 6, y)
                 x == UnlessCached(d, On({"missing"}, "next", z))
      <3>1. IsRequest(y) /\ y.verb = "statdir" /\ y.path = d /\ y.to = d /\ y.from = 0
            /\ \A a \in Answers : y.on[a] = IF a = "ok" THEN "next" ELSE "error"
        BY ClientCalls, ReqFields DEF ACDListByName, StatDir
      <3> HIDE DEF y
      <3>2. IsRequest(z) /\ z.verb = "statdir" /\ z.path = d /\ z.to = d /\ z.from = 0 /\ z.target = 6
            /\ \A a \in Answers : z.on[a] = IF a = "ok" THEN "jump" ELSE "error"
        BY <3>1, JumpFields
      <3> HIDE DEF z
      <3>3. x.verb = "statdir" /\ x.path = d /\ x.to = d /\ x.from = 0 /\ x.target = 6 /\ x.unless = d
            /\ \A a \in Answers : x.on[a] = IF a = "missing" THEN "next" ELSE IF a = "ok" THEN "jump" ELSE "error"
        BY <3>2, OnFields, UnlessFields
      <3> HIDE DEF x
      <3>4. S(3, x)
        BY <1>3, <2>0, <3>3, CallsOf DEF DeliversBeforeOk, Delivered, Shows, UnhidesBeforeOk, CopyAndDelete,
           Dirs
      <3> QED BY <3>4 DEF x, y, z
    <2>4. S(4, UnlessCached(d, Jump({"ok"}, 6, ACDMkDir(d))))
      BY <1>3, <2>0, CallsOf, UnlessFields, JumpFields, ClientCalls, OnFields, ReqFields DEF DeliversBeforeOk,
         Delivered, Shows, UnhidesBeforeOk, CopyAndDelete, ACDMkDir, Ignoring, MkDir, Dirs
    <2>5. S(5, UnlessCached(d, ACDListByName(StatDir(d))))
      BY <1>3, <2>0, CallsOf, UnlessFields, ClientCalls, ReqFields DEF DeliversBeforeOk, Delivered, Shows,
         UnhidesBeforeOk, CopyAndDelete, ACDListByName, StatDir, Dirs
    <2>6. S(6, ACDMove(c.path, c.to))
      BY <1>3, <2>0, CallsOf, ClientCalls, OnFields, ReqFields DEF DeliversBeforeOk, Delivered, Shows,
         UnhidesBeforeOk, CopyAndDelete, ACDMove, Ignoring, Rename, Dirs
    <2> HIDE DEF SoundRequest
    <2> QED BY <1>3, <2>1, <2>2, <2>3, <2>4, <2>5, <2>6, CallsOf, Appended DEF Sound, SoundAs, CopyAndDelete,
               ACDMoveFile, ACDMakeDir, e, d
  <1>4. ASSUME c.op = "mkdir" PROVE SoundAs("acd", c, ACDCreateDirectory(c.path))
    BY <1>4, CallsOf, ClientCalls, OnFields, ReqFields DEF Sound, SoundAs, Dirs, ACDCreateDirectory, ACDMkDir,
       Ignoring, MkDir
  <1>5. ASSUME c.op = "info" PROVE SoundAs("acd", c, ACDGetFileInfo(c.path))
    <2> DEFINE S(i, r) == SoundRequest("acd", "info", c.path, c.to, 2, i, r)
               e == DirOf("acd", c.path)
    <2>0. e \in Dirs /\ e = DirOf("acd", c.path)
      BY <1>5, CallsOf DEF DirOf, Dirs
    <2> HIDE DEF e
    <2>1. S(1, On({"missing"}, "absent", ACDFindDir(e)))
      BY <1>5, <2>0, CallsOf, OnFields, UnlessFields, ClientCalls, ReqFields DEF StoresInDirs, ACDFindDir,
         ACDListByName, StatDir, Dirs
    <2>2. S(2, On({"missing"}, "absent", ACDListByName(Stat(c.path))))
      BY <1>5, <2>0, CallsOf, OnFields, ClientCalls, ReqFields DEF StoresInDirs, ACDListByName, Stat, Dirs
    <2> HIDE DEF SoundRequest
    <2> QED BY <1>5, <2>1, <2>2, CallsOf DEF Sound, SoundAs, ACDGetFileInfo, e
  <1>6. ASSUME c.op = "download" PROVE SoundAs("acd", c, ACDDownloadFile(c.path))
    <2> DEFINE S(i, r) == SoundRequest("acd", "download", c.path, c.to, 2, i, r)
    <2>1. S(1, ACDFindFile(c.path))
      BY <1>6, CallsOf, UnlessFields, ClientCalls, ReqFields DEF StoresInDirs, ACDFindFile, ACDListByName, Stat
    <2>2. S(2, ACDGet(c.path))
      BY <1>6, CallsOf, ClientCalls, ReqFields DEF StoresInDirs, ACDGet, Get
    <2> HIDE DEF SoundRequest
    <2> QED BY <1>6, <2>1, <2>2, CallsOf DEF Sound, SoundAs, ACDDownloadFile
  <1>7. ASSUME c.op = "upload" PROVE SoundAs("acd", c, ACDUploadFile(c.path))
    <2> DEFINE S(i, r) == SoundRequest("acd", "upload", c.path, c.to, 4, i, r)
    <2>1. S(1, UnlessCached("chunks", On({"missing"}, "next", Jump({"ok"}, 4, ACDListByName(StatDir("chunks"))))))
      BY <1>7, CallsOf, UnlessFields, OnFields, JumpFields, ClientCalls, ReqFields DEF DeliversBeforeOk,
         Delivered, Shows, ACDListByName, StatDir
    <2>2. S(2, UnlessCached("chunks", Jump({"ok"}, 4, ACDMkDir("chunks"))))
      BY <1>7, CallsOf, UnlessFields, JumpFields, ClientCalls, OnFields, ReqFields DEF DeliversBeforeOk,
         Delivered, Shows, ACDMkDir, Ignoring, MkDir, Dirs
    <2>3. S(3, UnlessCached("chunks", ACDListByName(StatDir("chunks"))))
      BY <1>7, CallsOf, UnlessFields, ClientCalls, ReqFields DEF DeliversBeforeOk, Delivered, Shows,
         ACDListByName, StatDir
    <2>4. S(4, ACDPut("chunk"))
      BY <1>7, CallsOf, OnFields, ClientCalls, ReqFields DEF DeliversBeforeOk, Delivered, Shows, ACDPut, Put
    <2> HIDE DEF SoundRequest
    <2> QED BY <1>7, <2>1, <2>2, <2>3, <2>4, CallsOf, Appended DEF Sound, SoundAs, ACDUploadFile, ACDMakeDir,
               DirOf, Dirs
  <1> QED BY <1>1, <1>2, <1>3, <1>4, <1>5, <1>6, <1>7, CallsOf DEF SoundCall, Requests, ListFiles, DeleteFile,
             MoveFile, CreateDirectory, GetFileInfo, DownloadFile, UploadFile

(* Google Drive.                                                           *)
LEMMA GCDSound == \A c \in Calls : SoundCall("gcd", c)
  <1> SUFFICES ASSUME NEW c \in Calls PROVE SoundCall("gcd", c)
    BY DEF SoundCall
  <1>1. ASSUME c.op = "list" PROVE SoundAs("gcd", c, GCDListFiles(c.path))
    <2>1. CASE c.path = "chunks"
      <3> DEFINE S(i, r) == SoundRequest("gcd", "list", c.path, c.to, 3, i, r)
      <3>1. S(1, GCDList("chunks"))
        BY <1>1, <2>1, CallsOf, ClientCalls, ReqFields DEF Lists, ListsBeforeOk, Covered, Wanted, Gone,
           SeparateFossils, GCDList, ListPages
      <3>2. S(2, GCDList("fossils"))
        BY <1>1, <2>1, CallsOf, ClientCalls, ReqFields DEF Lists, ListsBeforeOk, Covered, Wanted, Gone,
           SeparateFossils, GCDList, ListPages
      <3>3. S(3, GCDWorkers)
        BY <1>1, <2>1, CallsOf, OnFields, ReqFields DEF Lists, ListsBeforeOk, Covered, Wanted, Gone,
           SeparateFossils, GCDWorkers, Await
      <3> HIDE DEF SoundRequest
      <3> QED BY <1>1, <2>1, <3>1, <3>2, <3>3, CallsOf DEF Sound, SoundAs, GCDListFiles
    <2>2. CASE c.path /= "chunks"
      <3> DEFINE S(i, r) == SoundRequest("gcd", "list", c.path, c.to, 2, i, r)
      <3>1. S(1, On({"missing"}, "ok", GCDFindDir(c.path)))
        BY <1>1, <2>2, CallsOf, OnFields, UnlessFields, ClientCalls, ReqFields DEF Lists, ListsBeforeOk,
           Covered, Wanted, Gone, SeparateFossils, GCDFindDir, GCDListByName, StatDir
      <3>2. S(2, GCDList(c.path))
        BY <1>1, <2>2, CallsOf, ClientCalls, ReqFields DEF Lists, ListsBeforeOk, Covered, Wanted, Gone,
           SeparateFossils, GCDList, ListPages
      <3> HIDE DEF SoundRequest
      <3> QED BY <1>1, <2>2, <3>1, <3>2, CallsOf DEF Sound, SoundAs, GCDListFiles
    <2> QED BY <1>1, <2>1, <2>2, CallsOf DEF Sound, SoundAs
  <1>2. ASSUME c.op = "delete" PROVE SoundAs("gcd", c, GCDDeleteFile(c.path))
    <2> DEFINE S(i, r) == SoundRequest("gcd", "delete", c.path, c.to, 3, i, r)
    <2>1. S(1, Jump({"missing"}, 3, On(Answers \ {"ok", "missing"}, "ok", GCDFindFile(c.path))))
      BY <1>2, CallsOf, JumpFields, OnFields, ClientCalls, ReqFields DEF GCDFindFile, GCDListByName, Stat
    <2>2. S(2, On({"ok", "missing"}, "ok", GCDDeleteFound(Delete(c.path))))
      BY <1>2, CallsOf, OnFields, ClientCalls, ReqFields DEF GCDDeleteFound, Ignoring, Delete
    <2>3. S(3, GCDDeleteFound(NoFileId))
      BY <1>2, CallsOf, OnFields, ClientCalls, ReqFields DEF GCDDeleteFound, Ignoring, NoFileId
    <2> HIDE DEF SoundRequest
    <2> QED BY <1>2, <2>1, <2>2, <2>3, CallsOf DEF Sound, SoundAs, GCDDeleteFile
  <1>3. ASSUME c.op = "move" PROVE SoundAs("gcd", c, GCDMoveFile(c.path, c.to))
    <2> DEFINE S(i, r) == SoundRequest("gcd", "move", c.path, c.to, 5, i, r)
               e == DirOf("gcd", c.path)
               d == DirOf("gcd", c.to)
    <2>0. e \in Dirs /\ e = DirOf("gcd", c.path) /\ d \in Dirs
      BY <1>3, CallsOf DEF DirOf, Dirs
    <2> HIDE DEF e, d
    <2>1. S(1, GCDFindFile(c.path))
      BY <1>3, <2>0, CallsOf, ClientCalls, ReqFields DEF DeliversBeforeOk, Delivered, Shows, UnhidesBeforeOk,
         CopyAndDelete, GCDFindFile, GCDListByName, Stat, Dirs
    <2>2. S(2, GCDFindDir(e))
      BY <1>3, <2>0, CallsOf, UnlessFields, ClientCalls, ReqFields DEF DeliversBeforeOk, Delivered, Shows,
         UnhidesBeforeOk, CopyAndDelete, GCDFindDir, GCDListByName, StatDir, Dirs
    <2>3. S(3, UnlessCached(d, On({"missing"}, "next", Jump({"ok"}, 5, GCDListByName(StatDir(d))))))
      <3> DEFINE y == GCDListByName(StatDir(d))
                 z == Jump({"ok"}, 5, y)
                 x == UnlessCached(d, On({"missing"}, "next", z))
      <3>1. IsRequest(y) /\ y.verb = "statdir" /\ y.path = d /\ y.to = d /\ y.from = 0
            /\ \A a \in Answers : y.on[a] = IF a = "ok" THEN "next" ELSE "error"
        BY ClientCalls, ReqFields DEF GCDListByName, StatDir
      <3> HIDE DEF y
      <3>2. IsRequest(z) /\ z.verb = "statdir" /\ z.path = d /\ z.to = d /\ z.from = 0 /\ z.target = 5
            /\ \A a \in Answers : z.on[a] = IF a = "ok" THEN "jump" ELSE "error"
        BY <3>1, JumpFields
      <3> HIDE DEF z
      <3>3. x.verb = "statdir" /\ x.path = d /\ x.to = d /\ x.from = 0 /\ x.target = 5 /\ x.unless = d
            /\ \A a \in Answers : x.on[a] = IF a = "missing" THEN "next" ELSE IF a = "ok" THEN "jump" ELSE "error"
        BY <3>2, OnFields, UnlessFields
      <3> HIDE DEF x
      <3>4. S(3, x)
        BY <1>3, <2>0, <3>3, CallsOf DEF DeliversBeforeOk, Delivered, Shows, UnhidesBeforeOk, CopyAndDelete,
           Dirs
      <3> QED BY <3>4 DEF x, y, z
    <2>4. S(4, UnlessCached(d, GCDShouldRetry(MkDir(d))))
      BY <1>3, <2>0, CallsOf, UnlessFields, ClientCalls, ReqFields DEF DeliversBeforeOk, Delivered, Shows,
         UnhidesBeforeOk, CopyAndDelete, MkDir, Dirs
    <2>5. S(5, GCDShouldRetry(Rename(c.path, c.to)))
      BY <1>3, <2>0, CallsOf, ClientCalls, ReqFields DEF DeliversBeforeOk, Delivered, Shows, UnhidesBeforeOk,
         CopyAndDelete, Rename, Dirs
    <2> HIDE DEF SoundRequest
    <2> QED BY <1>3, <2>1, <2>2, <2>3, <2>4, <2>5, CallsOf, Appended DEF Sound, SoundAs, CopyAndDelete,
               GCDMoveFile, GCDMakeDir, e, d
  <1>4. ASSUME c.op = "mkdir" PROVE SoundAs("gcd", c, GCDCreateDirectory(c.path))
    <2> DEFINE S(i, r) == SoundRequest("gcd", "mkdir", c.path, c.to, 2, i, r)
    <2>1. S(1, UnlessCached("chunks", On({"missing"}, "next", Jump({"ok"}, 3, GCDListByName(StatDir("chunks"))))))
      BY <1>4, CallsOf, UnlessFields, OnFields, JumpFields, ClientCalls, ReqFields DEF Dirs, GCDListByName,
         StatDir
    <2>2. S(2, UnlessCached("chunks", GCDShouldRetry(MkDir("chunks"))))
      BY <1>4, CallsOf, UnlessFields, ClientCalls, ReqFields DEF Dirs, MkDir
    <2> HIDE DEF SoundRequest
    <2> QED BY <1>4, <2>1, <2>2, CallsOf DEF Sound, SoundAs, GCDCreateDirectory, GCDMakeDir
  <1>5. ASSUME c.op = "info" PROVE SoundAs("gcd", c, GCDGetFileInfo(c.path))
    <2> DEFINE S(i, r) == SoundRequest("gcd", "info", c.path, c.to, 2, i, r)
               e == DirOf("gcd", c.path)
    <2>0. e \in Dirs /\ e = DirOf("gcd", c.path)
      BY <1>5, CallsOf DEF DirOf, Dirs
    <2> HIDE DEF e
    <2>1. S(1, On({"missing"}, "absent", GCDFindDir(e)))
      BY <1>5, <2>0, CallsOf, OnFields, UnlessFields, ClientCalls, ReqFields DEF StoresInDirs, GCDFindDir,
         GCDListByName, StatDir, Dirs
    <2>2. S(2, On({"missing"}, "absent", GCDFindFile(c.path)))
      BY <1>5, <2>0, CallsOf, OnFields, ClientCalls, ReqFields DEF StoresInDirs, GCDFindFile, GCDListByName,
         Stat, Dirs
    <2> HIDE DEF SoundRequest
    <2> QED BY <1>5, <2>1, <2>2, CallsOf DEF Sound, SoundAs, GCDGetFileInfo, e
  <1>6. ASSUME c.op = "download" PROVE SoundAs("gcd", c, GCDDownloadFile(c.path))
    <2> DEFINE S(i, r) == SoundRequest("gcd", "download", c.path, c.to, 2, i, r)
    <2>1. S(1, GCDFindFile(c.path))
      BY <1>6, CallsOf, ClientCalls, ReqFields DEF StoresInDirs, GCDFindFile, GCDListByName, Stat
    <2>2. S(2, GCDShouldRetry(Get(c.path)))
      BY <1>6, CallsOf, ClientCalls, ReqFields DEF StoresInDirs, Get
    <2> HIDE DEF SoundRequest
    <2> QED BY <1>6, <2>1, <2>2, CallsOf DEF Sound, SoundAs, GCDDownloadFile
  <1>7. ASSUME c.op = "upload" PROVE SoundAs("gcd", c, GCDUploadFile(c.path))
    <2> DEFINE S(i, r) == SoundRequest("gcd", "upload", c.path, c.to, 3, i, r)
    <2>1. S(1, UnlessCached("chunks", On({"missing"}, "next", Jump({"ok"}, 3, GCDListByName(StatDir("chunks"))))))
      BY <1>7, CallsOf, UnlessFields, OnFields, JumpFields, ClientCalls, ReqFields DEF DeliversBeforeOk,
         Delivered, Shows, GCDListByName, StatDir
    <2>2. S(2, UnlessCached("chunks", GCDShouldRetry(MkDir("chunks"))))
      BY <1>7, CallsOf, UnlessFields, ClientCalls, ReqFields DEF DeliversBeforeOk, Delivered, Shows, MkDir, Dirs
    <2>3. S(3, GCDShouldRetry(Put("chunk")))
      BY <1>7, CallsOf, ClientCalls, ReqFields DEF DeliversBeforeOk, Delivered, Shows, Put
    <2> HIDE DEF SoundRequest
    <2> QED BY <1>7, <2>1, <2>2, <2>3, CallsOf, Appended DEF Sound, SoundAs, GCDUploadFile, GCDMakeDir, DirOf,
               Dirs
  <1> QED BY <1>1, <1>2, <1>3, <1>4, <1>5, <1>6, <1>7, CallsOf DEF SoundCall, Requests, ListFiles, DeleteFile,
             MoveFile, CreateDirectory, GetFileInfo, DownloadFile, UploadFile

HIDE DEF SoundRequest, Leads, Addressed, LooksFirst, RemovesLast, Delivers, Alike

(* All of them. *)
LEMMA ProgramsSound ==
  ASSUME NEW b \in Backends, NEW c \in Calls
  PROVE  Sound(b, c.op, c.path, c.to, Programs[b][c])
  <1>1. b \in Storages
    BY BackendsAssumption
  <1>2. SoundCall(b, c)
    BY <1>1, LocalSound, SambaSound, SFTPSound, WebDAVSound, FileFabricSound, S3Sound, S3CSound, WasabiSound, AzureSound,
       DropboxSound, SwiftSound, StorjSound, GCSSound, B2Sound, OneDriveSound, OneDriveForBusinessSound, HubicSound,
       ACDSound, GCDSound, Zenon DEF Storages
  <1> QED BY <1>2 DEF SoundCall, SoundAs, Programs

-----------------------------------------------------------------------------
(* The machine: how a call changes. *)

IsCall(c) ==
  c = [op |-> c.op, path |-> c.path, to |-> c.to, pc |-> c.pc, tries |-> c.tries, cursor |-> c.cursor,
       listed |-> c.listed, result |-> c.result, since |-> c.since, ever |-> c.ever, raced |-> c.raced,
       twice |-> c.twice]

(* The same call of the same operation, with the same files seen.          *)
Same(x, c) == x.op = c.op /\ x.path = c.path /\ x.to = c.to /\ x.raced = c.raced
SameSeen(x, c) == x.since = c.since /\ x.ever = c.ever /\ x.twice = c.twice
SamePlace(x, c) == x.pc = c.pc /\ x.cursor = c.cursor /\ x.listed = c.listed /\ x.result = c.result

(* One part of a call is set: the others stay. *)
LEMMA SetSince ==
  ASSUME NEW c, IsCall(c), NEW v
  PROVE  LET x == [c EXCEPT !.since = v]
         IN  IsCall(x) /\ Same(x, c) /\ SamePlace(x, c) /\ x.since = v /\ x.ever = c.ever /\ x.twice = c.twice
  BY DEF IsCall, Same, SameSeen, SamePlace

LEMMA SetEver ==
  ASSUME NEW c, IsCall(c), NEW v
  PROVE  LET x == [c EXCEPT !.ever = v]
         IN  IsCall(x) /\ Same(x, c) /\ SamePlace(x, c) /\ x.since = c.since /\ x.ever = v /\ x.twice = c.twice
  BY DEF IsCall, Same, SameSeen, SamePlace

LEMMA SetTwice ==
  ASSUME NEW c, IsCall(c), NEW v
  PROVE  LET x == [c EXCEPT !.twice = v]
         IN  IsCall(x) /\ Same(x, c) /\ SamePlace(x, c) /\ x.since = c.since /\ x.ever = c.ever /\ x.twice = v
  BY DEF IsCall, Same, SameSeen, SamePlace

LEMMA SetTries ==
  ASSUME NEW c, IsCall(c), NEW v
  PROVE  LET x == [c EXCEPT !.tries = v]
         IN  IsCall(x) /\ Same(x, c) /\ SamePlace(x, c) /\ SameSeen(x, c)
  BY DEF IsCall, Same, SameSeen, SamePlace

LEMMA SetPc ==
  ASSUME NEW c, IsCall(c), NEW v
  PROVE  LET x == [c EXCEPT !.pc = v]
         IN  IsCall(x) /\ Same(x, c) /\ SameSeen(x, c) /\ x.pc = v /\ x.cursor = c.cursor /\ x.listed = c.listed /\ x.result = c.result
  BY DEF IsCall, Same, SameSeen, SamePlace

LEMMA SetCursor ==
  ASSUME NEW c, IsCall(c), NEW v
  PROVE  LET x == [c EXCEPT !.cursor = v]
         IN  IsCall(x) /\ Same(x, c) /\ SameSeen(x, c) /\ x.pc = c.pc /\ x.cursor = v /\ x.listed = c.listed /\ x.result = c.result
  BY DEF IsCall, Same, SameSeen, SamePlace

LEMMA SetListed ==
  ASSUME NEW c, IsCall(c), NEW v
  PROVE  LET x == [c EXCEPT !.listed = v]
         IN  IsCall(x) /\ Same(x, c) /\ SameSeen(x, c) /\ x.pc = c.pc /\ x.cursor = c.cursor /\ x.listed = v /\ x.result = c.result
  BY DEF IsCall, Same, SameSeen, SamePlace

LEMMA SetResult ==
  ASSUME NEW c, IsCall(c), NEW v
  PROVE  LET x == [c EXCEPT !.result = v]
         IN  IsCall(x) /\ Same(x, c) /\ SameSeen(x, c) /\ x.pc = c.pc /\ x.cursor = c.cursor /\ x.listed = c.listed /\ x.result = v
  BY DEF IsCall, Same, SameSeen, SamePlace

LEMMA SetRaced ==
  ASSUME NEW c, IsCall(c), NEW v
  PROVE  LET x == [c EXCEPT !.raced = v]
         IN  IsCall(x) /\ SamePlace(x, c) /\ SameSeen(x, c) /\ x.op = c.op /\ x.path = c.path /\ x.to = c.to /\ x.raced = v
  BY DEF IsCall, Same, SameSeen, SamePlace


(* What is concluded of the files st. *)
Sees(x, c, st) ==
  /\ Same(x, c)
  /\ x.since = c.since \intersect PresentIn(backend, st)
  /\ x.ever = c.ever \union PresentIn(backend, st)
  /\ x.twice = (c.twice \/ HiddenTwice(st))

LEMMA SeeingSees ==
  ASSUME NEW c, IsCall(c), NEW st
  PROVE  LET x == Seeing(c, st)
         IN  IsCall(x) /\ SamePlace(x, c) /\ Sees(x, c, st)
  <1> DEFINE s == c.since \intersect PresentIn(backend, st)
             e == c.ever \union PresentIn(backend, st)
             h == c.twice \/ HiddenTwice(st)
             x == [c EXCEPT !.since = s]
             y == [x EXCEPT !.ever = e]
             z == [y EXCEPT !.twice = h]
  <1>1. IsCall(x) /\ Same(x, c) /\ SamePlace(x, c) /\ x.since = s /\ x.ever = c.ever /\ x.twice = c.twice
    BY SetSince
  <1>2. Seeing(c, st) = [c EXCEPT !.since = s, !.ever = e, !.twice = h]
    BY Zenon DEF Seeing
  <1>2a. Seeing(c, st) = z
    BY <1>2, Zenon
  <1> HIDE DEF s, e, h, x
  <1>3. IsCall(y) /\ Same(y, x) /\ SamePlace(y, x) /\ y.since = x.since /\ y.ever = e /\ y.twice = x.twice
    BY <1>1, SetEver
  <1> HIDE DEF y
  <1>4. IsCall(z) /\ Same(z, y) /\ SamePlace(z, y) /\ z.since = y.since /\ z.ever = y.ever /\ z.twice = h
    BY <1>3, SetTwice, Zenon
  <1> HIDE DEF z
  <1>5. SamePlace(z, c) /\ Same(z, c) /\ z.since = s /\ z.ever = e
    BY <1>1, <1>3, <1>4 DEF Same, SamePlace
  <1>6. Sees(z, c, st)
    BY <1>4, <1>5, Zenon DEF Sees, s, e, h
  <1> QED BY <1>2a, <1>4, <1>5, <1>6, Zenon

(* Where an outcome o of the current request leads the call x.             *)
Target(o) == IF o = "next" THEN call.pc + 1 ELSE Current.target
Reaches(x, o, cur) ==
  \/ o \notin {"next", "jump"} /\ x.result = o /\ x.pc = 0
  \/ o \in {"next", "jump"} /\ Target(o) > Len(Program) /\ x.result = "ok" /\ x.pc = 0
  \/ /\ o \in {"next", "jump"} /\ Target(o) \in 1..Len(Program)
     /\ x.result = "none" /\ x.pc = Target(o) /\ x.cursor = cur

LEMMA GotoReaches ==
  ASSUME NEW c, IsCall(c), c.pc = call.pc, c.result = "none", call.pc \in Nat \ {0}, Len(Program) \in Nat,
         NEW o \in {"next", "jump", "ok", "error", "absent", "panic", "hung"},
         o = "jump" => Current.target \in 1..7
  PROVE  LET x == Goto(c, o)
         IN  IsCall(x) /\ Same(x, c) /\ SameSeen(x, c) /\ x.listed = c.listed /\ Reaches(x, o, c.cursor)
  <1> DEFINE j == CASE o = "next" -> c.pc + 1 [] o = "jump" -> Current.target [] OTHER -> 0
             t == IF j \in DOMAIN Program /\ Program[j].from /= 0 /\ Program[j].from = Current.from THEN c.tries ELSE 0
             Stopped(v) == [c EXCEPT !.result = v, !.pc = 0, !.tries = 0, !.cursor = 0]
  <1>1. /\ j \in Nat
        /\ o \in {"next", "jump"} => j = Target(o) /\ j > 0
        /\ o \notin {"next", "jump"} => j = 0
    BY DEF Target
  <1>2. ASSUME NEW v PROVE LET x == Stopped(v)
                           IN IsCall(x) /\ Same(x, c) /\ SameSeen(x, c) /\ x.listed = c.listed
                              /\ x.result = v /\ x.pc = 0
    <2> DEFINE w == [c EXCEPT !.result = v]
               x == [w EXCEPT !.pc = 0]
               y == [x EXCEPT !.tries = 0]
               z == [y EXCEPT !.cursor = 0]
    <2>1. Stopped(v) = z
      BY Zenon
    <2>2. IsCall(w) /\ Same(w, c) /\ SameSeen(w, c) /\ w.listed = c.listed /\ w.result = v
      BY SetResult
    <2> HIDE DEF w
    <2>2a. IsCall(w)
      BY <2>2
    <2>3. IsCall(x) /\ Same(x, w) /\ SameSeen(x, w) /\ x.listed = w.listed /\ x.result = w.result /\ x.pc = 0
      BY <2>2a, SetPc
    <2> HIDE DEF x
    <2>4. IsCall(y) /\ Same(y, x) /\ SameSeen(y, x) /\ SamePlace(y, x)
      BY <2>3, SetTries
    <2> HIDE DEF y
    <2>5. IsCall(z) /\ Same(z, y) /\ SameSeen(z, y) /\ z.listed = y.listed /\ z.result = y.result /\ z.pc = y.pc
      BY <2>4, SetCursor
    <2> HIDE DEF z
    <2>6. Same(z, c) /\ SameSeen(z, c) /\ z.listed = c.listed /\ z.result = v /\ z.pc = 0
      BY <2>2, <2>3, <2>4, <2>5 DEF Same, SameSeen, SamePlace
    <2> QED BY <2>1, <2>5, <2>6, Zenon
  <1>3. CASE o \notin {"next", "jump"}
    <2>1. Goto(c, o) = Stopped(o)
      BY <1>1, <1>3 DEF Goto
    <2> HIDE DEF Stopped
    <2>2. LET x == Goto(c, o)
          IN  IsCall(x) /\ Same(x, c) /\ SameSeen(x, c) /\ x.listed = c.listed /\ x.result = o /\ x.pc = 0
      BY <1>2, <2>1, Zenon
    <2> QED BY <1>3, <2>2 DEF Reaches
  <1>4. CASE o \in {"next", "jump"} /\ j > Len(Program)
    <2>1. Goto(c, o) = Stopped("ok")
      BY <1>1, <1>4 DEF Goto
    <2> HIDE DEF Stopped
    <2>2. LET x == Goto(c, o)
          IN  IsCall(x) /\ Same(x, c) /\ SameSeen(x, c) /\ x.listed = c.listed /\ x.result = "ok" /\ x.pc = 0
      BY <1>2, <2>1
    <2> QED BY <1>1, <1>4, <2>2 DEF Reaches
  <1>5. CASE o \in {"next", "jump"} /\ j <= Len(Program)
    <2> DEFINE x == [c EXCEPT !.pc = j]
               y == [x EXCEPT !.tries = t]
    <2>1. Goto(c, o) = [c EXCEPT !.pc = j, !.tries = t]
      BY <1>1, <1>5 DEF Goto
    <2>2. Goto(c, o) = y
      BY <2>1, Zenon
    <2> HIDE DEF j, t
    <2>3. IsCall(x) /\ Same(x, c) /\ SameSeen(x, c) /\ x.pc = j /\ x.cursor = c.cursor /\ x.listed = c.listed
          /\ x.result = c.result
      BY SetPc
    <2> HIDE DEF x
    <2>4. IsCall(y) /\ Same(y, x) /\ SameSeen(y, x) /\ SamePlace(y, x)
      BY <2>3, SetTries
    <2> HIDE DEF y
    <2>5. Same(y, c) /\ SameSeen(y, c) /\ y.listed = c.listed /\ y.result = "none" /\ y.pc = j /\ y.cursor = c.cursor
      BY <2>3, <2>4 DEF Same, SameSeen, SamePlace
    <2>6. Reaches(y, o, c.cursor)
      BY <1>1, <1>5, <2>5 DEF Reaches
    <2> QED BY <2>2, <2>4, <2>5, <2>6, Zenon
  <1> QED BY <1>1, <1>3, <1>4, <1>5

-----------------------------------------------------------------------------
(* What a request does to the call, whatever its answer. *)

Page(r) == IF r.verb \in {"list", "pages", "first"} THEN Listed(backend, store, r, call.cursor) ELSE {}
NamesOn(page) == {NameSeq[i] : i \in page}
CursorAfter(r) ==
  IF r.verb \in {"marker", "newest"} THEN Found(store, r)
  ELSE IF r.verb = "purge" THEN call.cursor - 1
  ELSE IF MoreToCome(r, Page(r)) THEN LastOf(Page(r)) ELSE 0
OutcomeOf(r, a) == IF a = "ok" /\ r.verb = "marker" /\ CursorAfter(r) = 0 THEN "ok" ELSE r.on[a]

(* It is sent again, it ends the call, or the call goes on.                *)
Repeats(x, r, a) ==
  /\ x.result = "none" /\ x.pc \in {call.pc, r.from} \ {0} /\ x.listed = call.listed
  /\ a /= "lost" => x.cursor = call.cursor
Continues(x, r, a) ==
  /\ a = "ok" /\ MoreToCome(r, Page(r))
  /\ x.result = "none" /\ x.pc = call.pc /\ x.cursor = CursorAfter(r)
  /\ x.listed = call.listed \union NamesOn(Page(r))
Finishes(x, r, a) ==
  \/ a = "unauthorized" /\ x.result = "error" /\ x.pc = 0 /\ x.listed = call.listed
  \/ a /= "ok" /\ x.listed = call.listed /\ Reaches(x, OutcomeOf(r, a), call.cursor)
  \/ /\ a = "ok" /\ ~MoreToCome(r, Page(r))
     /\ x.listed = call.listed \union NamesOn(Page(r)) /\ Reaches(x, OutcomeOf(r, a), CursorAfter(r))
Moves(x, r, a) == Repeats(x, r, a) \/ Continues(x, r, a) \/ Finishes(x, r, a)

LEMMA RetryRepeats ==
  ASSUME IsCall(call), call.result = "none", call.pc \in Nat \ {0}, NEW r, NEW a, Retry(r, a)
  PROVE  IsCall(call') /\ Sees(call', call, store') /\ Repeats(call', r, a)
  <1>1. ASSUME NEW c, IsCall(c), Same(c, call), SameSeen(c, call), Repeats(c, r, a), call' = Seeing(c, store')
        PROVE  IsCall(call') /\ Sees(call', call, store') /\ Repeats(call', r, a)
    <2>1. IsCall(call') /\ SamePlace(call', c) /\ Sees(call', c, store')
      BY <1>1, SeeingSees, Zenon
    <2>2. Sees(call', call, store')
      BY <1>1, <2>1, Zenon DEF Sees, Same, SameSeen
    <2>3. Repeats(call', r, a)
      BY <1>1, <2>1 DEF Repeats, SamePlace
    <2> QED BY <2>1, <2>2, <2>3
  <1>2. ASSUME NEW t, NEW k, a /= "lost" => k = call.cursor,
               NEW i, i \in {call.pc, r.from} \ {0}
        PROVE  LET c == [call EXCEPT !.tries = t, !.cursor = k, !.pc = i]
               IN  IsCall(c) /\ Same(c, call) /\ SameSeen(c, call) /\ Repeats(c, r, a)
    <2> DEFINE x == [call EXCEPT !.tries = t]
               y == [x EXCEPT !.cursor = k]
               z == [y EXCEPT !.pc = i]
    <2>1. [call EXCEPT !.tries = t, !.cursor = k, !.pc = i] = z
      BY Zenon
    <2>2. IsCall(x) /\ Same(x, call) /\ SamePlace(x, call) /\ SameSeen(x, call)
      BY SetTries
    <2> HIDE DEF x
    <2>3. IsCall(y) /\ Same(y, x) /\ SameSeen(y, x) /\ y.pc = x.pc /\ y.cursor = k /\ y.listed = x.listed /\ y.result = x.result
      BY <2>2, SetCursor
    <2> HIDE DEF y
    <2>4. IsCall(z) /\ Same(z, y) /\ SameSeen(z, y) /\ z.pc = i /\ z.cursor = y.cursor /\ z.listed = y.listed /\ z.result = y.result
      BY <2>3, SetPc
    <2> HIDE DEF z
    <2>5. Same(z, call) /\ SameSeen(z, call) /\ z.pc = i /\ z.cursor = k /\ z.listed = call.listed /\ z.result = "none"
      BY <2>2, <2>3, <2>4 DEF Same, SameSeen, SamePlace
    <2>6. Repeats(z, r, a)
      BY <1>2, <2>5 DEF Repeats
    <2> QED BY <2>1, <2>4, <2>5, <2>6, Zenon
  <1>3. ASSUME NEW t, NEW i, i \in {call.pc, r.from} \ {0}
        PROVE  LET c == [call EXCEPT !.tries = t, !.pc = i]
               IN  IsCall(c) /\ Same(c, call) /\ SameSeen(c, call) /\ Repeats(c, r, a)
    <2> DEFINE x == [call EXCEPT !.tries = t]
               z == [x EXCEPT !.pc = i]
    <2>1. [call EXCEPT !.tries = t, !.pc = i] = z
      BY Zenon
    <2>2. IsCall(x) /\ Same(x, call) /\ SamePlace(x, call) /\ SameSeen(x, call)
      BY SetTries
    <2> HIDE DEF x
    <2>4. IsCall(z) /\ Same(z, x) /\ SameSeen(z, x) /\ z.pc = i /\ z.cursor = x.cursor /\ z.listed = x.listed /\ z.result = x.result
      BY <2>2, SetPc
    <2> HIDE DEF z
    <2>5. Same(z, call) /\ SameSeen(z, call) /\ z.pc = i /\ z.cursor = call.cursor /\ z.listed = call.listed /\ z.result = "none"
      BY <2>2, <2>4 DEF Same, SameSeen, SamePlace
    <2>6. Repeats(z, r, a)
      BY <1>3, <2>5 DEF Repeats
    <2> QED BY <2>1, <2>4, <2>5, <2>6, Zenon
  <1> DEFINE i == IF r.from = 0 THEN call.pc ELSE r.from
             k == IF a = "lost" THEN -call.cursor ELSE call.cursor
             Counted(t) == [call EXCEPT !.tries = t, !.cursor = k, !.pc = i]
             Reset(t) == [call EXCEPT !.tries = t, !.pc = i]
  <1>4. i \in {call.pc, r.from} \ {0} /\ (a /= "lost" => k = call.cursor)
    OBVIOUS
  <1>5. \/ call' = Seeing(Counted(call.tries + 1), store')
        \/ call' = Seeing(call, store')
        \/ call' = Seeing(Reset(1), store')
    <2>1. [call EXCEPT !.tries = @ + 1, !.cursor = IF a = "lost" THEN -@ ELSE @, !.pc = IF r.from = 0 THEN @ ELSE r.from]
          = Counted(call.tries + 1)
      BY DEF IsCall
    <2>2. [call EXCEPT !.tries = 1, !.pc = IF r.from = 0 THEN @ ELSE r.from] = Reset(1)
      BY DEF IsCall
    <2> HIDE DEF Counted, Reset
    <2> QED BY <2>1, <2>2, Zenon DEF Retry
  <1>6. ASSUME NEW t PROVE LET c == Counted(t)
                           IN  IsCall(c) /\ Same(c, call) /\ SameSeen(c, call) /\ Repeats(c, r, a)
    <2> HIDE DEF i, k
    <2> QED BY <1>2, <1>4, Zenon DEF Counted
  <1>7. ASSUME NEW t PROVE LET c == Reset(t)
                           IN  IsCall(c) /\ Same(c, call) /\ SameSeen(c, call) /\ Repeats(c, r, a)
    <2> HIDE DEF i
    <2> QED BY <1>3, <1>4, Zenon DEF Reset
  <1>8. Same(call, call) /\ SameSeen(call, call) /\ Repeats(call, r, a)
    BY DEF Same, SameSeen, Repeats
  <1> HIDE DEF Counted, Reset
  <1>9. CASE call' = Seeing(Counted(call.tries + 1), store')
    BY <1>1, <1>6, <1>9, Zenon
  <1>10. CASE call' = Seeing(call, store')
    BY <1>1, <1>8, <1>10, Zenon
  <1>11. CASE call' = Seeing(Reset(1), store')
    BY <1>1, <1>7, <1>11, Zenon
  <1> QED BY <1>5, <1>9, <1>10, <1>11

(* Every answer leads somewhere, in the program that is running.           *)
Midway == /\ IsCall(call) /\ call.result = "none" /\ Len(Program) \in Nat /\ call.pc \in 1..Len(Program)
            /\ Leads(Len(Program), Current)

LEMMA ConcludeMoves ==
  ASSUME Midway, NEW a \in Answers, Conclude(Current, a)
  PROVE  IsCall(call') /\ Sees(call', call, store') /\ Moves(call', Current, a)
  <1> DEFINE r == Current
             page == Page(r)
             l == call.listed \union NamesOn(page)
             k == CursorAfter(r)
             ly == [call EXCEPT !.listed = l]
             got == IF a # "ok" THEN call ELSE [ly EXCEPT !.cursor = k]
             on == OutcomeOf(r, a)
             aftr == IF a = "ok" /\ MoreToCome(r, page) THEN [got EXCEPT !.tries = 0] ELSE Goto(got, on)
  <1>1. call' = Seeing(aftr, store')
    <2> DEFINE pg == IF r.verb \in {"list", "pages", "first"} THEN Listed(backend, store, r, call.cursor) ELSE {}
               gt == IF a # "ok" THEN call
                     ELSE [call EXCEPT !.listed = @ \union {NameSeq[i] : i \in pg},
                                       !.cursor = IF r.verb \in {"marker", "newest"} THEN Found(store, r)
                                                  ELSE IF r.verb = "purge" THEN @ - 1
                                                  ELSE IF MoreToCome(r, pg) THEN LastOf(pg) ELSE 0]
    <2>1. call' = Seeing(IF a = "ok" /\ MoreToCome(r, pg) THEN [gt EXCEPT !.tries = 0]
                          ELSE Goto(gt, IF a = "ok" /\ r.verb = "marker" /\ gt.cursor = 0 THEN "ok" ELSE r.on[a]),
                          store')
      BY Zenon DEF Conclude
    <2>2. pg = page
      BY DEF Page
    <2>3. gt = got
      <3>1. CASE a = "ok"
        <4>1. gt = [call EXCEPT !.listed = l, !.cursor = k]
          BY <3>1, <2>2 DEF Midway, IsCall, NamesOn, CursorAfter
        <4> QED BY <3>1, <4>1, Zenon
      <3> QED BY <3>1
    <2>4. a = "ok" => got.cursor = k
      <3>1. IsCall(ly)
        BY SetListed, Zenon DEF Midway
      <3> HIDE DEF ly
      <3>2. [ly EXCEPT !.cursor = k].cursor = k
        BY <3>1, SetCursor
      <3> QED BY <3>2
    <2> HIDE DEF page, got, gt, pg, k
    <2>5. (IF a = "ok" /\ r.verb = "marker" /\ got.cursor = 0 THEN "ok" ELSE r.on[a]) = on
      BY <2>4 DEF OutcomeOf, k
    <2> QED BY <2>1, <2>2, <2>3, <2>5, Zenon
  <1>2. /\ IsCall(got) /\ Same(got, call) /\ SameSeen(got, call) /\ got.pc = call.pc /\ got.result = "none"
        /\ a # "ok" => got.listed = call.listed /\ got.cursor = call.cursor
        /\ a = "ok" => got.listed = l /\ got.cursor = k
    <2>1. CASE a # "ok"
      <3>1. got = call
        BY <2>1
      <3> QED BY <3>1, <2>1 DEF Midway, Same, SameSeen
    <2>2. CASE a = "ok"
      <3> DEFINE gt == [ly EXCEPT !.cursor = k]
      <3>0. got = gt
        BY <2>2
      <3> HIDE DEF l, k, got
      <3>1. IsCall(ly) /\ Same(ly, call) /\ SameSeen(ly, call) /\ ly.pc = call.pc /\ ly.listed = l /\ ly.result = call.result
        BY SetListed DEF Midway
      <3> HIDE DEF ly
      <3>2. IsCall(gt) /\ Same(gt, ly) /\ SameSeen(gt, ly) /\ gt.pc = ly.pc /\ gt.cursor = k /\ gt.listed = ly.listed
            /\ gt.result = ly.result
        BY <3>1, SetCursor
      <3> HIDE DEF gt
      <3> QED BY <2>2, <3>0, <3>1, <3>2 DEF Same, SameSeen, Midway
    <2> QED BY <2>1, <2>2
  <1> HIDE DEF got
  <1>3. IsCall(aftr) /\ Same(aftr, call) /\ SameSeen(aftr, call) /\ Moves(aftr, r, a)
    <2>1. CASE a = "ok" /\ MoreToCome(r, page)
      <3> DEFINE x == [got EXCEPT !.tries = 0]
      <3>1. aftr = x
        BY <2>1
      <3>2. IsCall(x) /\ Same(x, got) /\ SamePlace(x, got) /\ SameSeen(x, got)
        BY <1>2, SetTries
      <3> HIDE DEF x, l, k
      <3>3. Same(x, call) /\ SameSeen(x, call) /\ x.pc = call.pc /\ x.listed = l /\ x.cursor = k /\ x.result = "none"
        BY <1>2, <2>1, <3>2 DEF Same, SameSeen, SamePlace
      <3>4. Moves(x, r, a)
        BY <2>1, <3>3 DEF Moves, Continues, l, k
      <3> HIDE DEF aftr
      <3> QED BY <3>1, <3>2, <3>3, <3>4
    <2>2. CASE ~(a = "ok" /\ MoreToCome(r, page))
      <3> DEFINE x == Goto(got, on)
      <3>1. aftr = x
        BY <2>2
      <3>2. on \in {"next", "jump", "ok", "error", "absent", "panic", "hung"} /\ (on = "jump" => Current.target \in 1..7)
        BY DEF OutcomeOf, Midway, Leads
      <3> HIDE DEF on, l, k
      <3>3. IsCall(x) /\ Same(x, got) /\ SameSeen(x, got) /\ x.listed = got.listed /\ Reaches(x, on, got.cursor)
        BY <1>2, <3>2, GotoReaches DEF Midway
      <3> HIDE DEF x
      <3>4. Same(x, call) /\ SameSeen(x, call)
        BY <1>2, <3>3 DEF Same, SameSeen
      <3>5. Finishes(x, r, a)
        BY <1>2, <2>2, <3>3, Zenon DEF Finishes, on, l, k
      <3> HIDE DEF aftr
      <3> QED BY <3>1, <3>3, <3>4, <3>5 DEF Moves
    <2> QED BY <2>1, <2>2
  <1> HIDE DEF aftr
  <1>4. IsCall(call') /\ SamePlace(call', aftr) /\ Sees(call', aftr, store')
    BY <1>1, <1>3, SeeingSees, Zenon
  <1>5. Sees(call', call, store')
    BY <1>3, <1>4, Zenon DEF Sees, Same, SameSeen
  <1>6. Moves(call', r, a)
    BY <1>3, <1>4, Zenon DEF Moves, Repeats, Continues, Finishes, Reaches, SamePlace
  <1> QED BY <1>4, <1>5, <1>6

(* What the answers say: a final answer is the service's, but that a file   *)
(* is missing may be false, and only a request that changes something is    *)
(* carried out behind the client's back.                                   *)
LEMMA AnswersMean ==
  ASSUME NEW r, NEW a \in PossibleAnswers(r)
  PROVE  LET v == Verdict(backend, store, dirs, call.cursor, r)
         IN  /\ a \in Answers
             /\ a \in {"ok", "taken"} => v = a
             /\ a = "missing" => v = a \/ (r.verb \in OfFile /\ backend \in FalselyMissing)
             /\ a = "lost" => v = "ok" /\ r.verb \in Changing
             /\ r.verb = "fail" => a = "rejected"
             /\ r.verb = "await" => a \in {"ok", "dropped"}
  <1> DEFINE v == Verdict(backend, store, dirs, call.cursor, r)
  <1>1. v \in {"ok", "missing", "taken", "nodir", "rejected"} /\ (r.verb = "fail" => v = "rejected")
        /\ (r.verb = "await" => v = "ok")
    <2> DEFINE A == {"ok", "missing", "taken", "nodir", "rejected"}
    <2>1. CASE r.verb = "stat"
      BY <2>1 DEF Verdict
    <2>2. CASE r.verb = "get"
      BY <2>2 DEF Verdict
    <2>3. CASE r.verb = "delete"
      BY <2>3 DEF Verdict
    <2>4. CASE r.verb = "put"
      BY <2>4 DEF Verdict
    <2>5. CASE r.verb = "copy"
      BY <2>5 DEF Verdict
    <2>6. CASE r.verb = "rename"
      BY <2>6 DEF Verdict
    <2>7. CASE r.verb = "mkdir"
      BY <2>7 DEF Verdict
    <2>8. CASE r.verb \in {"statdir", "list", "pages", "first"}
      BY <2>8 DEF Verdict
    <2>9. CASE r.verb = "hide"
      BY <2>9 DEF Verdict
    <2>10. CASE r.verb = "marker"
      BY <2>10 DEF Verdict
    <2>11. CASE r.verb = "newest"
      BY <2>11 DEF Verdict
    <2>12. CASE r.verb \in {"drop", "purge"}
      BY <2>12 DEF Verdict
    <2>13. CASE r.verb = "unhide"
      BY <2>13 DEF Verdict
    <2>14. CASE r.verb = "fail"
      BY <2>14 DEF Verdict
    <2>14a. CASE r.verb = "noid"
      BY <2>14a DEF Verdict
    <2>15. CASE r.verb \notin {"stat", "get", "delete", "put", "copy", "rename", "mkdir", "statdir", "list", "pages",
                               "first", "hide", "marker", "newest", "drop", "purge", "unhide", "fail", "noid"}
      BY <2>15 DEF Verdict
    <2> QED BY <2>1, <2>2, <2>3, <2>4, <2>5, <2>6, <2>7, <2>8, <2>9, <2>10, <2>11, <2>12, <2>13, <2>14, <2>14a, <2>15
  <1> HIDE DEF v
  <1>2. \/ r.verb = "fail" /\ a = v
        \/ r.verb = "await" /\ a \in {"ok", "dropped"}
        \/ r.verb \notin {"fail", "await"} /\ a \in {v, "rejected"}
        \/ r.verb \notin {"fail", "await"} /\ a \in {"unauthorized", "busy", "dropped", "rejected", "damaged"}
        \/ r.verb \notin {"fail", "await"} /\ a = "lost" /\ v = "ok" /\ r.verb \in Changing
        \/ r.verb \notin {"fail", "await"} /\ a = "missing" /\ r.verb \in OfFile /\ backend \in FalselyMissing
    BY DEF PossibleAnswers, v
  <1> QED BY <1>1, <1>2 DEF Answers, v

(* What the client remembers has a name. *)
LEMMA RememberedIs ==
  ASSUME NEW r, NEW a, Addressed(backend, r), "none" \notin known
  PROVE  "none" \notin Remembered(r, a)
  BY DEF Remembered, Addressed

(* One answer to the current request. *)
Arrives(a) ==
  /\ a \in PossibleAnswers(Current)
  /\ Current.unless \notin known
  /\ store' = IF a \in {"ok", "lost"} THEN Applied(backend, store, call.cursor, Current) ELSE store
  /\ dirs' = IF a \in {"ok", "lost"} /\ Current.verb = "mkdir" THEN dirs \union {Current.path} ELSE dirs
  /\ backend' = backend
  /\ IsCall(call') /\ Sees(call', call, store') /\ Moves(call', Current, a)

LEMMA ServeMoves ==
  ASSUME Midway, Addressed(backend, Current), "none" \notin known, Serve
  PROVE  "none" \notin known' /\ \E a \in Answers : Arrives(a)
  <1>1. PICK a \in PossibleAnswers(Current) : Answered(Current, a) /\ Current.unless \notin known
    BY DEF Serve
  <1>2. a \in Answers
    BY <1>1, AnswersMean
  <1> DEFINE Moved == IsCall(call') /\ Sees(call', call, store') /\ Moves(call', Current, a) /\ "none" \notin known'
  <1>3. ASSUME Retry(Current, a) PROVE Moved
    <2>1. IsCall(call') /\ Sees(call', call, store') /\ Repeats(call', Current, a)
      BY <1>3, RetryRepeats DEF Midway
    <2>2. "none" \notin known'
      BY <1>3 DEF Retry
    <2> QED BY <2>1, <2>2 DEF Moves
  <1>4. ASSUME Conclude(Current, a) PROVE Moved
    <2>1. "none" \notin known'
      BY <1>4, RememberedIs, Zenon DEF Conclude
    <2> QED BY <1>2, <1>4, <2>1, ConcludeMoves
  <1>5. ASSUME a = "unauthorized", call' = Seeing(Goto(call, "error"), store'), known' = known PROVE Moved
    <2> DEFINE x == Goto(call, "error")
    <2>1. IsCall(x) /\ Same(x, call) /\ SameSeen(x, call) /\ x.listed = call.listed /\ Reaches(x, "error", call.cursor)
      BY GotoReaches DEF Midway
    <2> HIDE DEF x
    <2>2. IsCall(call') /\ SamePlace(call', x) /\ Sees(call', x, store')
      BY <1>5, <2>1, SeeingSees, Zenon DEF x
    <2>3. Sees(call', call, store')
      BY <2>1, <2>2, Zenon DEF Sees, Same, SameSeen
    <2>4. Moves(call', Current, a)
      BY <1>5, <2>1, <2>2 DEF Moves, Finishes, Reaches, SamePlace
    <2> QED BY <1>5, <2>2, <2>3, <2>4
  <1>6. Moved
    <2>1. \/ Retry(Current, a) \/ Conclude(Current, a)
          \/ a = "unauthorized" /\ call' = Seeing(Goto(call, "error"), store') /\ known' = known
      BY <1>1, Zenon DEF Answered
    <2> HIDE DEF Moved
    <2> QED BY <1>3, <1>4, <1>5, <2>1, Zenon
  <1>7. Arrives(a)
    BY <1>1, <1>6, Zenon DEF Answered, Arrives
  <1> QED BY <1>2, <1>6, <1>7

-----------------------------------------------------------------------------
(* The inductive invariant, in parts. *)

Asked == [op |-> call.op, path |-> call.path, to |-> call.to]

TypeInv ==
  /\ backend \in Backends
  /\ store \in [Names -> Seq({"data", "hide"})]
  /\ dirs \subseteq Dirs /\ {"revisions", "ids"} \subseteq dirs
  /\ "none" \notin known
  /\ IsCall(call)
  /\ call.result \in {"none", "ok", "error", "absent", "panic", "hung"}
  /\ \/ call.op = "none" /\ call.result = "ok"
     \/ Asked \in Calls
  /\ call.result = "none" => call.pc \in 1..Len(Program)

(* What was seen of the files is what there is, and more.                  *)
SeenInv ==
  /\ call.since \subseteq PresentIn(backend, store)
  /\ call.op /= "none" => /\ PresentIn(backend, store) \subseteq call.ever
                          /\ HiddenTwice(store) => call.twice

(* A file is in a directory. *)
DirInv == backend \in StoresInDirs => \A n \in PresentIn(backend, store) : DirOf(backend, n) \in dirs

(* A file that was reported missing was missing.                           *)
AbsentInv ==
  call.result = "absent" /\ backend \notin {"s3", "s3c", "wasabi", "azure", "storj", "hubic", "webdav"}
  => call.path \notin call.since

(* An operation that delivers a file has seen it before it succeeds, and    *)
(* before the requests after which it cannot but succeed.                  *)
Destination == IF call.op = "move" THEN call.to ELSE call.path
DeliveredInv ==
  /\ call.op \in {"upload", "move"} /\ Delivers(backend, call.op, call.to)
  /\ \/ call.result = "ok"
     \/ call.result = "none" /\ call.pc \in Delivered(backend, call.op)
  => Destination \in call.ever

(* B2's MoveFile to a chunk: the version that was found lies under a marker *)
(* until that is taken off, by whomever.                                   *)
UnhiddenInv ==
  /\ call.op = "move" /\ backend = "b2" /\ call.to = "chunk"
  /\ call.result = "ok" \/ (call.result = "none" /\ call.pc = 2)
  => \/ "chunk" \in call.ever
     \/ call.twice
     \/ store["chunk"] = << >>
     \/ /\ call.result = "none"
        /\ Head(store["chunk"]) = "hide" /\ call.cursor = Len(store["chunk"])

(* A listing has what it went past.                                        *)
Has(D) == \A n \in call.since : DirOf(backend, n) \in D => n \in call.listed
ListingInv ==
  call.op = "list" /\ Lists(backend, call.path) =>
    /\ call.result = "ok" => Has(Wanted(backend, call.path))
    /\ call.result = "none" =>
          /\ Has(Gone(backend, call.path, call.pc))
          /\ call.cursor \in Nat
          /\ call.cursor /= 0 =>
                /\ Current.verb = "pages"
                /\ backend \in Hierarchical => Current.path \in dirs
                /\ \A i \in 1..Len(NameSeq) :
                      i <= call.cursor /\ NameSeq[i] \in call.since /\ DirOf(backend, NameSeq[i]) = Current.path
                      => NameSeq[i] \in call.listed

(* A MoveFile that copies deletes nothing before the copy is there, and it  *)
(* stays there unless another computer moves it.                           *)
CopiedInv ==
  /\ call.op = "move" /\ backend \in CopyAndDelete /\ call.result = "none" /\ call.pc = 2 /\ ~call.raced
  => store[call.to] /= << >>

Inv == TypeInv /\ SeenInv /\ DirInv /\ AbsentInv /\ DeliveredInv /\ UnhiddenInv /\ ListingInv /\ CopiedInv

-----------------------------------------------------------------------------
(* What the requests do to the files. *)

Versions == {"data", "hide"}
Stacks == [Names -> Seq(Versions)]

LEMMA NamesAre == Names = {"chunk", "fossil", "temp", "rev1", "rev2", "id1", "id2"} /\ Len(NameSeq) = 7
                  /\ DOMAIN NameSeq = 1..7
  BY DEF Names, NameSeq

LEMMA RemoveAtIn ==
  ASSUME NEW S, NEW s \in Seq(S), NEW i \in 1..Len(s)
  PROVE  /\ RemoveAt(s, i) \in Seq(S) /\ Len(RemoveAt(s, i)) = Len(s) - 1
         /\ \A j \in 1..(Len(s) - 1) : RemoveAt(s, i)[j] = IF j < i THEN s[j] ELSE s[j + 1]
  <1> DEFINE x == SubSeq(s, 1, i - 1)
             y == SubSeq(s, i + 1, Len(s))
  <1>1. x \in Seq(S) /\ Len(x) = i - 1 /\ \A j \in 1..(i - 1) : x[j] = s[j]
    BY SubSeqProperties
  <1>2. y \in Seq(S) /\ Len(y) = Len(s) - i /\ \A j \in 1..(Len(s) - i) : y[j] = s[i + j]
    BY SubSeqProperties
  <1> HIDE DEF x, y
  <1>3. /\ x \o y \in Seq(S) /\ Len(x \o y) = Len(s) - 1
        /\ \A j \in 1..(Len(s) - 1) : (x \o y)[j] = IF j <= i - 1 THEN x[j] ELSE y[j - (i - 1)]
    <2>1. /\ x \o y \in Seq(S) /\ Len(x \o y) = Len(x) + Len(y)
          /\ \A j \in 1..(Len(x) + Len(y)) : (x \o y)[j] = IF j <= Len(x) THEN x[j] ELSE y[j - Len(x)]
      BY <1>1, <1>2, ConcatProperties, Zenon
    <2>2. Len(x) = i - 1 /\ Len(x) + Len(y) = Len(s) - 1
      BY <1>1, <1>2
    <2> QED BY <2>1, <2>2
  <1>4. ASSUME NEW j \in 1..(Len(s) - 1) PROVE (x \o y)[j] = IF j < i THEN s[j] ELSE s[j + 1]
    <2>1. CASE j < i
      BY <1>1, <1>3, <2>1
    <2>2. CASE j >= i
      <3>1. (x \o y)[j] = y[j - (i - 1)]
        BY <1>3, <2>2
      <3>2. j - (i - 1) \in 1..(Len(s) - i) /\ i + (j - (i - 1)) = j + 1
        BY <2>2
      <3> DEFINE m == j - (i - 1)
      <3>3. m \in 1..(Len(s) - i) /\ i + m = j + 1 /\ (x \o y)[j] = y[m]
        BY <3>1, <3>2
      <3> HIDE DEF m
      <3>4. y[m] = s[i + m]
        BY <1>2, <3>3
      <3>5. (x \o y)[j] = s[j + 1] /\ ~(j < i)
        BY <2>2, <3>3, <3>4
      <3> QED BY <3>5
    <2>3. Len(s) \in Nat
      BY LenProperties
    <2>4. j < i \/ j >= i
      BY <2>3
    <2> QED BY <2>1, <2>2, <2>4, Zenon
  <1> QED BY <1>3, <1>4 DEF RemoveAt, x, y

LEMMA OnTop ==
  ASSUME NEW v \in Versions, NEW s \in Seq(Versions)
  PROVE  LET t == <<v>> \o s
         IN  /\ t \in Seq(Versions) /\ t /= << >> /\ Head(t) = v /\ Len(t) = Len(s) + 1
             /\ \A i \in 1..Len(s) : t[i + 1] = s[i]
  <1> DEFINE t == <<v>> \o s
  <1>1. <<v>> \in Seq(Versions) /\ Len(<<v>>) = 1 /\ <<v>>[1] = v
    OBVIOUS
  <1>2. t \in Seq(Versions) /\ Len(t) = Len(s) + 1 /\ t[1] = v /\ \A i \in 1..Len(s) : t[i + 1] = s[i]
    BY <1>1, ConcatProperties
  <1> HIDE DEF t
  <1>3. t /= << >> /\ Head(t) = v
    BY <1>2
  <1> QED BY <1>2, <1>3 DEF t

(* A file that is stored is there, and nothing else changes.               *)
LEMMA StoreHas ==
  ASSUME NEW b, NEW st \in Stacks, NEW n \in Names, b = "b2" => n \in {"chunk", "temp"}
  PROVE  /\ Store(b, st, n) \in Stacks
         /\ n \in PresentIn(b, Store(b, st, n))
         /\ Store(b, st, n)[n] /= << >>
         /\ \A m \in Names \ {n} : Store(b, st, n)[m] = st[m]
  <1>1. /\ <<"data">> \o st[n] \in Seq(Versions) /\ <<"data">> \o st[n] /= << >> /\ Head(<<"data">> \o st[n]) = "data"
        /\ Append(st[n], "data") \in Seq(Versions) /\ Append(st[n], "data") /= << >>
        /\ <<"data">> \in Seq(Versions) /\ <<"data">> /= << >>
    <2>1. st[n] \in Seq(Versions) /\ "data" \in Versions
      BY DEF Stacks, Versions
    <2>2. Append(st[n], "data") \in Seq(Versions) /\ Append(st[n], "data") /= << >>
      BY <2>1
    <2>3. <<"data">> \in Seq(Versions) /\ <<"data">> /= << >>
      BY <2>1
    <2> QED BY <2>1, <2>2, <2>3, OnTop
  <1> DEFINE v == IF b = "b2" THEN <<"data">> \o st[n]
                  ELSE IF b \in KeepsAll THEN Append(st[n], "data") ELSE <<"data">>
  <1>2. Store(b, st, n) = [st EXCEPT ![n] = v]
    BY DEF Store
  <1>3. v \in Seq(Versions) /\ v /= << >> /\ (b = "b2" => Head(v) = "data")
    BY <1>1
  <1> HIDE DEF v
  <1>4. /\ Store(b, st, n) \in Stacks /\ Store(b, st, n)[n] = v
        /\ \A m \in Names \ {n} : Store(b, st, n)[m] = st[m]
    BY <1>2, <1>3 DEF Stacks
  <1>5. Present(b, Store(b, st, n), n)
    BY <1>3, <1>4 DEF Present
  <1> QED BY <1>3, <1>4, <1>5 DEF PresentIn

(* Where nothing is B2, a file is there when it has a version.             *)
LEMMA PresentElsewhere ==
  ASSUME NEW b, b /= "b2", NEW st, NEW n
  PROVE  Present(b, st, n) <=> st[n] /= << >>
  BY DEF Present

(* The files stay what they are, whatever is requested.                    *)
LEMMA AppliedIsStacks ==
  ASSUME NEW b, NEW st \in Stacks, NEW ds, NEW k, NEW r, Addressed(b, r), Verdict(b, st, ds, k, r) = "ok"
  PROVE  Applied(b, st, k, r) \in Stacks
  <1>1. CASE r.verb = "put"
    <2>1. r.path \in Names \cap {"chunk", "temp"}
      BY <1>1, NamesAre DEF Addressed
    <2>2. Applied(b, st, k, r) = Store(b, st, r.path)
      BY <1>1 DEF Applied
    <2> QED BY <2>1, <2>2, StoreHas, Zenon
  <1>2. CASE r.verb = "copy"
    <2>1. r.to \in Names /\ b /= "b2"
      BY <1>2, NamesAre DEF Addressed
    <2>2. Applied(b, st, k, r) = Store(b, st, r.to)
      BY <1>2 DEF Applied
    <2>3. Store(b, st, r.to) \in Stacks
      BY <2>1, StoreHas
    <2> QED BY <2>2, <2>3
  <1>3. CASE r.verb = "delete"
    <2>1. r.path \in Names
      BY <1>3, NamesAre DEF Addressed
    <2> DEFINE s == IF st[r.path] = <<>> THEN st[r.path] ELSE Tail(st[r.path])
    <2>2. Applied(b, st, k, r) = [st EXCEPT ![r.path] = s]
      BY <1>3 DEF Applied
    <2>3. s \in Seq(Versions)
      BY <2>1 DEF Stacks
    <2> HIDE DEF s
    <2>4. [st EXCEPT ![r.path] = s] \in Stacks
      BY <2>1, <2>3 DEF Stacks
    <2> QED BY <2>2, <2>4
  <1>4. CASE r.verb = "rename"
    <2>1. r.path \in Names /\ r.to \in Names /\ b /= "b2" /\ st[r.path] /= << >>
      BY <1>4, NamesAre, PresentElsewhere DEF Addressed, Verdict
    <2> DEFINE x == [st EXCEPT ![r.path] = Tail(@)]
    <2>2. Applied(b, st, k, r) = Store(b, x, r.to)
      BY <1>4 DEF Applied
    <2>3. x \in Stacks
      BY <2>1 DEF Stacks
    <2> HIDE DEF x
    <2>4. Store(b, x, r.to) \in Stacks
      BY <2>1, <2>3, StoreHas
    <2> QED BY <2>2, <2>4
  <1>5. CASE r.verb = "hide"
    <2> DEFINE s == <<"hide">> \o st["chunk"]
    <2>1. Applied(b, st, k, r) = [st EXCEPT !["chunk"] = s]
      BY <1>5 DEF Applied
    <2>2. "chunk" \in Names
      BY NamesAre
    <2>3. s \in Seq(Versions)
      <3>1. st["chunk"] \in Seq(Versions)
        BY <2>2 DEF Stacks
      <3>2. "hide" \in Versions
        BY DEF Versions
      <3> QED BY <3>1, <3>2, OnTop
    <2> HIDE DEF s
    <2>4. [st EXCEPT !["chunk"] = s] \in Stacks
      BY <2>2, <2>3 DEF Stacks
    <2> QED BY <2>1, <2>4
  <1>6. CASE r.verb \in {"drop", "purge", "unhide"}
    <2>1. r.path \in Names /\ k \in 1..Len(st[r.path])
      BY <1>6, NamesAre DEF Addressed, Verdict
    <2> DEFINE s == RemoveAt(st[r.path], Len(st[r.path]) + 1 - k)
    <2>2. Applied(b, st, k, r) = [st EXCEPT ![r.path] = s]
      BY <1>6 DEF Applied
    <2>3. s \in Seq(Versions)
      <3>1. st[r.path] \in Seq(Versions)
        BY <2>1 DEF Stacks
      <3>2. Len(st[r.path]) + 1 - k \in 1..Len(st[r.path])
        BY <2>1, <3>1
      <3> QED BY <3>1, <3>2, RemoveAtIn
    <2> HIDE DEF s
    <2>4. [st EXCEPT ![r.path] = s] \in Stacks
      BY <2>1, <2>3 DEF Stacks
    <2> QED BY <2>2, <2>4
  <1>7. CASE r.verb \notin {"put", "copy", "delete", "rename", "hide", "drop", "purge", "unhide"}
    BY <1>7 DEF Applied
  <1> QED BY <1>1, <1>2, <1>3, <1>4, <1>5, <1>6, <1>7

-----------------------------------------------------------------------------
(* The steps, one action at a time. *)

LEMMA ProgramIsSound ==
  ASSUME TypeInv, call.op /= "none"
  PROVE  Asked \in Calls /\ Sound(backend, call.op, call.path, call.to, Program)
  <1>1. Asked \in Calls /\ Asked.op = call.op /\ Asked.path = call.path /\ Asked.to = call.to
    BY DEF TypeInv, Asked
  <1>2. Program = Programs[backend][Asked]
    BY DEF Program, Asked
  <1>3. backend \in Backends
    BY DEF TypeInv
  <1> HIDE DEF Asked
  <1>4. Sound(backend, Asked.op, Asked.path, Asked.to, Programs[backend][Asked])
    BY <1>1, <1>3, ProgramsSound
  <1> QED BY <1>1, <1>2, <1>4

(* A call that is under way is at a request of its program.                *)
LEMMA UnderWay ==
  ASSUME TypeInv, call.result = "none"
  PROVE  /\ Midway
         /\ Asked \in Calls /\ call.op /= "none"
         /\ SoundRequest(backend, call.op, call.path, call.to, Len(Program), call.pc, Current)
         /\ Addressed(backend, Current)
  <1>1. Asked \in Calls /\ call.op /= "none"
    <2>1. Asked \in Calls
      BY DEF TypeInv
    <2>2. Asked.op /= "none" /\ Asked.op = call.op
      BY <2>1, CallsOf DEF Asked
    <2> QED BY <2>1, <2>2
  <1>2. Len(Program) \in Nat /\ SoundRequest(backend, call.op, call.path, call.to, Len(Program), call.pc, Current)
    BY <1>1, ProgramIsSound DEF Sound, TypeInv, Current
  <1>3. Midway
    BY <1>2 DEF Midway, TypeInv, SoundRequest
  <1> QED BY <1>1, <1>2, <1>3 DEF SoundRequest

LEMMA StartCall ==
  ASSUME TypeInv, NEW c \in Calls, Start(c)
  PROVE  /\ IsCall(call') /\ Asked' = c
         /\ call'.op = c.op /\ call'.path = c.path /\ call'.to = c.to /\ c.op /= "none"
         /\ call'.pc = 1 /\ call'.cursor = 0 /\ call'.listed = {}
         /\ call'.since = PresentIn(backend, store) /\ call'.ever = PresentIn(backend, store)
         /\ call'.raced = FALSE /\ call'.twice = HiddenTwice(store)
         /\ call'.result \in {"none", "ok"}
         /\ Program' = Programs[backend][c]
         /\ Sound(backend, c.op, c.path, c.to, Program')
         /\ call'.result = "none" => Len(Program') > 0
         /\ call'.result = "ok" => c.op \notin {"upload", "move", "list"}
         /\ known' \subseteq known
         /\ UNCHANGED <<backend, store, dirs>>
  <1> DEFINE P == Programs[backend][c]
             y == Running(c, store)
             v == IF P = << >> THEN "ok" ELSE "none"
             x == [y EXCEPT !.result = v]
  <1>1. IsCall(y) /\ y.op = c.op /\ y.path = c.path /\ y.to = c.to /\ y.raced = FALSE /\ y.pc = 1 /\ y.cursor = 0
        /\ y.listed = {} /\ y.since = PresentIn(backend, store) /\ y.ever = PresentIn(backend, store)
    BY DEF IsCall, Running
  <1>1a. y.twice = HiddenTwice(store)
    BY Zenon DEF Running
  <1>2. call' = x /\ UNCHANGED <<backend, store, dirs>>
    BY Zenon DEF Start
  <1>2a. known' \subseteq known
    BY DEF Start
  <1> HIDE DEF y, P
  <1>3. IsCall(x) /\ Same(x, y) /\ SameSeen(x, y) /\ x.pc = y.pc /\ x.cursor = y.cursor /\ x.listed = y.listed
        /\ x.result = v
    <2> HIDE DEF v
    <2> QED BY <1>1, SetResult
  <1> HIDE DEF x
  <1>4. c = [op |-> c.op, path |-> c.path, to |-> c.to]
    BY DEF Calls
  <1>5. Asked' = c
    <2>1. call'.op = c.op /\ call'.path = c.path /\ call'.to = c.to
      BY <1>1, <1>2, <1>3 DEF Same
    <2> QED BY <1>4, <2>1 DEF Asked
  <1>6. Program' = P
    <2>1. Program' = Programs[backend'][Asked']
      BY DEF Program, Asked
    <2> QED BY <1>2, <1>5, <2>1 DEF P
  <1>7. Sound(backend, c.op, c.path, c.to, P)
    <2>1. backend \in Backends
      BY DEF TypeInv
    <2> QED BY <2>1, ProgramsSound DEF P
  <1>8. (P = << >> \/ Len(P) > 0) /\ (c.op \in {"upload", "move", "list"} => Len(P) > 0)
    BY <1>7 DEF Sound
  <1>9. c.op \in {"upload", "move", "list"} => P /= << >>
    BY <1>8
  <1>10. c.op /= "none"
    BY CallsOf
  <1>11. call'.twice = HiddenTwice(store)
    BY <1>1a, <1>2, <1>3, Zenon DEF SameSeen
  <1>12. /\ call'.result = v /\ IsCall(call')
         /\ call'.op = c.op /\ call'.path = c.path /\ call'.to = c.to
         /\ call'.pc = 1 /\ call'.cursor = 0 /\ call'.listed = {}
         /\ call'.since = PresentIn(backend, store) /\ call'.ever = PresentIn(backend, store)
         /\ call'.raced = FALSE
    BY <1>1, <1>2, <1>3 DEF Same, SameSeen
  <1>13. call'.result \in {"none", "ok"} /\ (call'.result = "none" => P /= << >>) /\ (call'.result = "ok" => P = << >>)
    BY <1>12
  <1>14. Sound(backend, c.op, c.path, c.to, Program') /\ Program' = Programs[backend][c]
    BY <1>6, <1>7 DEF P
  <1>15. call'.result = "none" => Len(Program') > 0
    BY <1>6, <1>8, <1>13
  <1>16. call'.result = "ok" => c.op \notin {"upload", "move", "list"}
    BY <1>9, <1>13
  <1> QED BY <1>2, <1>2a, <1>5, <1>10, <1>11, <1>12, <1>13, <1>14, <1>15, <1>16, Zenon

LEMMA SkipCall ==
  ASSUME TypeInv, Skip
  PROVE  /\ IsCall(call') /\ Same(call', call) /\ SameSeen(call', call) /\ call'.listed = call.listed
         /\ Reaches(call', "next", call.cursor)
         /\ Current.unless /= "none"
         /\ UNCHANGED <<backend, store, dirs, known>>
  <1>1. call.result = "none"
    BY DEF Skip
  <1>2. Midway
    BY <1>1, UnderWay
  <1>3. LET x == Goto(call, "next")
        IN  IsCall(x) /\ Same(x, call) /\ SameSeen(x, call) /\ x.listed = call.listed /\ Reaches(x, "next", call.cursor)
    BY <1>2, GotoReaches DEF Midway
  <1> QED BY <1>3, Zenon DEF Skip, TypeInv

LEMMA ServeCall ==
  ASSUME TypeInv, Serve
  PROVE  /\ call.result = "none"
         /\ "none" \notin known'
         /\ \E a \in Answers : Arrives(a)
  <1>1. call.result = "none"
    BY DEF Serve
  <1>2. Midway /\ Addressed(backend, Current) /\ "none" \notin known
    BY <1>1, UnderWay DEF TypeInv
  <1> QED BY <1>1, <1>2, ServeMoves

LEMMA OtherCall ==
  ASSUME TypeInv, NEW op, Other(op)
  PROVE  /\ IsCall(call') /\ SamePlace(call', call)
         /\ call'.op = call.op /\ call'.path = call.path /\ call'.to = call.to
         /\ call'.raced = (call.raced \/ op /= "upload")
         /\ call'.since = call.since \intersect PresentIn(backend, store')
         /\ call'.ever = call.ever \union PresentIn(backend, store')
         /\ call'.twice = (call.twice \/ HiddenTwice(store'))
         /\ backend' = backend /\ known' = known
  <1> DEFINE v == call.raced \/ op # "upload"
             y == [call EXCEPT !.raced = v]
  <1>1. call' = Seeing(y, store') /\ backend' = backend /\ known' = known
    BY Zenon DEF Other
  <1>2. IsCall(call)
    BY DEF TypeInv
  <1> HIDE DEF v
  <1>3. IsCall(y) /\ SamePlace(y, call) /\ SameSeen(y, call) /\ y.op = call.op /\ y.path = call.path /\ y.to = call.to
        /\ y.raced = v
    BY <1>2, SetRaced
  <1> HIDE DEF y
  <1>4. IsCall(call') /\ SamePlace(call', y) /\ Sees(call', y, store')
    BY <1>1, <1>3, SeeingSees, Zenon
  <1>5. SamePlace(call', call)
    BY <1>3, <1>4 DEF SamePlace
  <1> QED BY <1>1, <1>3, <1>4, <1>5, Zenon DEF Sees, Same, SameSeen, v

(* The program does not change under a call. *)
LEMMA SameProgram ==
  ASSUME backend' = backend, call'.op = call.op, call'.path = call.path, call'.to = call.to
  PROVE  Asked' = Asked /\ Program' = Program
  BY DEF Asked, Program

LEMMA MovesWithin ==
  ASSUME Midway, NEW x, NEW a \in Answers, Moves(x, Current, a)
  PROVE  /\ x.result \in {"none", "ok", "error", "absent", "panic", "hung"}
         /\ x.result = "none" => x.pc \in 1..Len(Program)
  <1> DEFINE r == Current
  <1>1. OutcomeOf(r, a) \in {"next", "jump", "ok", "error", "absent", "panic", "hung"}
    BY DEF OutcomeOf, Midway, Leads
  <1>2. CASE Repeats(x, r, a)
    BY <1>2 DEF Repeats, Midway, Leads
  <1>3. CASE Continues(x, r, a)
    BY <1>3 DEF Continues, Midway
  <1>4. CASE Finishes(x, r, a)
    BY <1>1, <1>4 DEF Finishes, Reaches
  <1> QED BY <1>2, <1>3, <1>4 DEF Moves

-----------------------------------------------------------------------------
(* Types, and what was seen. *)

LEMMA ArrivesStacks ==
  ASSUME TypeInv, call.result = "none", NEW a \in Answers, Arrives(a)
  PROVE  store' \in Stacks
  <1> DEFINE r == Current
  <1>1. store \in Stacks /\ Addressed(backend, r)
    BY UnderWay DEF TypeInv, Stacks, Versions
  <1>2. CASE a \in {"ok", "lost"}
    <2>1. a \in PossibleAnswers(r) /\ store' = Applied(backend, store, call.cursor, r)
      BY <1>2 DEF Arrives
    <2>2. Verdict(backend, store, dirs, call.cursor, r) = "ok"
      BY <1>2, <2>1, AnswersMean
    <2> QED BY <1>1, <2>1, <2>2, AppliedIsStacks
  <1>3. CASE a \notin {"ok", "lost"}
    BY <1>1, <1>3 DEF Arrives
  <1> QED BY <1>2, <1>3

LEMMA OtherStacks ==
  ASSUME store \in Stacks, NEW op, Other(op)
  PROVE  /\ store' \in Stacks
         /\ \A n \in Names \ {"chunk", "fossil"} : store'[n] = store[n]
         /\ dirs \subseteq dirs' /\ dirs' \subseteq dirs \union Dirs
         /\ backend /= "b2" => \A n \in {"chunk", "fossil"} :
               store'[n] /= << >> => store[n] /= << >> \/ DirOf(backend, n) \in dirs'
  <1> DEFINE c == "chunk"
             f == "fossil"
  <1>0. c \in Names /\ f \in Names /\ store[c] \in Seq(Versions) /\ store[f] \in Seq(Versions)
    BY NamesAre DEF Stacks
  <1>1. \A n : DirOf(backend, n) \in Dirs
    BY DEF DirOf, Dirs
  <1>2. CASE op = "upload" /\ store' = Store(backend, store, c) /\ dirs' = dirs \union {DirOf(backend, c)}
    <2>1. store' \in Stacks /\ \A m \in Names \ {c} : store'[m] = store[m]
      BY <1>0, <1>2, StoreHas
    <2> QED BY <1>0, <1>1, <1>2, <2>1
  <1>3. CASE op = "collect" /\ Present(backend, store, c) /\ dirs' = dirs \union {DirOf(backend, f)}
             /\ store' = IF backend = "b2" THEN [store EXCEPT ![c] = <<"hide">> \o @]
                         ELSE Store(backend, [store EXCEPT ![c] = Tail(@)], f)
    <2>1. CASE backend = "b2"
      <3> DEFINE s == <<"hide">> \o store[c]
      <3>1. s \in Seq(Versions)
        BY <1>0, OnTop DEF Versions
      <3>2. store' = [store EXCEPT ![c] = s]
        BY <1>3, <2>1
      <3> HIDE DEF s
      <3> QED BY <1>0, <1>1, <1>3, <2>1, <3>1, <3>2 DEF Stacks
    <2>2. CASE backend /= "b2"
      <3> DEFINE x == [store EXCEPT ![c] = Tail(@)]
      <3>1. x \in Stacks /\ \A n \in Names \ {c} : x[n] = store[n]
        BY <1>0, <1>3, <2>2, PresentElsewhere DEF Stacks
      <3>2. store' = Store(backend, x, f)
        BY <1>3, <2>2
      <3>3. store[c] /= << >>
        BY <1>3, <2>2, PresentElsewhere
      <3> HIDE DEF x
      <3>4. store' \in Stacks /\ \A m \in Names \ {f} : store'[m] = x[m]
        BY <1>0, <2>2, <3>1, <3>2, StoreHas
      <3> QED BY <1>0, <1>1, <1>3, <3>1, <3>3, <3>4
    <2> QED BY <2>1, <2>2
  <1>4. CASE op = "resurrect" /\ Present(backend, store, f) /\ dirs' = dirs \union {DirOf(backend, c)}
             /\ store' = IF backend = "b2" THEN [store EXCEPT ![c] = Tail(@)]
                         ELSE Store(backend, [store EXCEPT ![f] = Tail(@)], c)
    <2>1. CASE backend = "b2"
      <3> DEFINE s == Tail(store[c])
      <3>1. s \in Seq(Versions)
        BY <1>0, <1>4, <2>1 DEF Present
      <3>2. store' = [store EXCEPT ![c] = s]
        BY <1>4, <2>1
      <3> HIDE DEF s
      <3> QED BY <1>0, <1>1, <1>4, <2>1, <3>1, <3>2 DEF Stacks
    <2>2. CASE backend /= "b2"
      <3> DEFINE x == [store EXCEPT ![f] = Tail(@)]
      <3>1. x \in Stacks /\ \A n \in Names \ {f} : x[n] = store[n]
        BY <1>0, <1>4, <2>2, PresentElsewhere DEF Stacks
      <3>2. store' = Store(backend, x, c)
        BY <1>4, <2>2
      <3>3. store[f] /= << >>
        BY <1>4, <2>2, PresentElsewhere
      <3> HIDE DEF x
      <3>4. store' \in Stacks /\ \A m \in Names \ {c} : store'[m] = x[m]
        BY <1>0, <2>2, <3>1, <3>2, StoreHas
      <3> QED BY <1>0, <1>1, <1>4, <3>1, <3>3, <3>4
    <2> QED BY <2>1, <2>2
  <1> QED BY <1>2, <1>3, <1>4, Zenon DEF Other

LEMMA TypeStep ==
  ASSUME TypeInv, [Next]_vars
  PROVE  TypeInv'
  <1> USE DEF Stacks, Versions
  <1>1. ASSUME NEW c \in Calls, Start(c) PROVE TypeInv'
    <2>1. /\ IsCall(call') /\ Asked' = c /\ call'.pc = 1 /\ call'.result \in {"none", "ok"}
          /\ call'.result = "none" => Len(Program') > 0
          /\ known' \subseteq known
          /\ UNCHANGED <<backend, store, dirs>>
      BY <1>1, StartCall, Zenon
    <2>2. Len(Program') \in Nat
      BY <1>1, StartCall DEF Sound
    <2> QED BY <2>1, <2>2 DEF TypeInv
  <1>2. CASE Skip
    <2>1. IsCall(call') /\ Same(call', call) /\ Reaches(call', "next", call.cursor)
          /\ UNCHANGED <<backend, store, dirs, known>> /\ call.result = "none"
      BY <1>2, SkipCall DEF Skip
    <2>2. Asked' = Asked /\ Program' = Program
      BY <2>1, SameProgram DEF Same
    <2>3. Asked \in Calls
      BY <2>1, UnderWay
    <2>4. call'.result \in {"none", "ok"} /\ (call'.result = "none" => call'.pc \in 1..Len(Program))
      BY <2>1 DEF Reaches
    <2> QED BY <2>1, <2>2, <2>3, <2>4 DEF TypeInv
  <1>3. CASE Serve
    <2>1. PICK a \in Answers : Arrives(a)
      BY <1>3, ServeCall
    <2>2. call.result = "none" /\ "none" \notin known'
      BY <1>3, ServeCall
    <2>3. Midway /\ Asked \in Calls /\ Addressed(backend, Current)
      BY <2>2, UnderWay
    <2>4. store' \in Stacks
      BY <2>1, <2>2, ArrivesStacks
    <2>5. IsCall(call') /\ Same(call', call) /\ Moves(call', Current, a) /\ backend' = backend
      BY <2>1 DEF Arrives, Sees
    <2>6. Asked' = Asked /\ Program' = Program
      BY <2>5, SameProgram DEF Same
    <2>7. call'.result \in {"none", "ok", "error", "absent", "panic", "hung"} /\ (call'.result = "none" => call'.pc \in 1..Len(Program))
      BY <2>3, <2>5, MovesWithin
    <2>8. dirs' \subseteq Dirs /\ {"revisions", "ids"} \subseteq dirs'
      BY <2>1, <2>3 DEF TypeInv, Arrives, Addressed
    <2> QED BY <2>2, <2>3, <2>4, <2>5, <2>6, <2>7, <2>8 DEF TypeInv
  <1>4. ASSUME NEW t, LoseToken(t) PROVE TypeInv'
    BY <1>4 DEF LoseToken, TypeInv, Asked, Program, IsCall
  <1>5. ASSUME NEW op, Other(op) PROVE TypeInv'
    <2>1. IsCall(call') /\ SamePlace(call', call) /\ call'.op = call.op /\ call'.path = call.path /\ call'.to = call.to
          /\ backend' = backend /\ known' = known
      BY <1>5, OtherCall, Zenon
    <2>2. Asked' = Asked /\ Program' = Program
      BY <2>1, SameProgram
    <2>3. store' \in Stacks /\ dirs \subseteq dirs' /\ dirs' \subseteq dirs \union Dirs
      BY <1>5, OtherStacks DEF TypeInv
    <2> QED BY <2>1, <2>2, <2>3 DEF TypeInv, SamePlace
  <1>6. CASE UNCHANGED vars
    BY <1>6 DEF vars, TypeInv, Asked, Program, IsCall
  <1> QED BY <1>1, <1>2, <1>3, <1>4, <1>5, <1>6, Zenon DEF Next

LEMMA SeenStep ==
  ASSUME TypeInv, SeenInv, [Next]_vars
  PROVE  SeenInv'
  <1>1. ASSUME NEW c \in Calls, Start(c) PROVE SeenInv'
    <2>1. call'.since = PresentIn(backend, store) /\ call'.ever = PresentIn(backend, store)
          /\ backend' = backend /\ store' = store
      BY <1>1, StartCall, Zenon
    <2>2. call'.twice = HiddenTwice(store)
      BY <1>1, StartCall, Zenon
    <2>3. PresentIn(backend, store)' = PresentIn(backend, store)
      BY <2>1
    <2>4. HiddenTwice(store)' => call'.twice
      BY <2>1, <2>2, Zenon
    <2> QED BY <2>1, <2>3, <2>4 DEF SeenInv
  <1>2. ASSUME call'.op = call.op, backend' = backend, call'.since = call.since \intersect PresentIn(backend, store'),
               call'.ever = call.ever \union PresentIn(backend, store'), call'.twice = (call.twice \/ HiddenTwice(store'))
        PROVE  SeenInv'
    <2>1. HiddenTwice(store)' => call'.twice
      BY <1>2, Zenon
    <2>2. PresentIn(backend, store)' = PresentIn(backend, store')
      BY <1>2
    <2> QED BY <1>2, <2>1, <2>2 DEF SeenInv
  <1>3. CASE Skip
    <2>1. SameSeen(call', call) /\ Same(call', call) /\ UNCHANGED <<backend, store>>
      BY <1>3, SkipCall
    <2>2. PresentIn(backend, store)' = PresentIn(backend, store) /\ HiddenTwice(store)' = HiddenTwice(store)
      BY <2>1
    <2> QED BY <2>1, <2>2 DEF SeenInv, SameSeen, Same
  <1>4. CASE Serve
    <2>1. PICK a \in Answers : Arrives(a)
      BY <1>4, ServeCall
    <2> QED BY <1>2, <2>1, Zenon DEF Arrives, Sees, Same
  <1>5. ASSUME NEW op, Other(op) PROVE SeenInv'
    BY <1>2, <1>5, OtherCall, Zenon
  <1>6. ASSUME UNCHANGED <<backend, store, call>> PROVE SeenInv'
    BY <1>6 DEF SeenInv, PresentIn, HiddenTwice
  <1>7. ASSUME NEW t, LoseToken(t) PROVE SeenInv'
    BY <1>6, <1>7 DEF LoseToken
  <1>8. CASE UNCHANGED vars
    BY <1>6, <1>8 DEF vars
  <1> QED BY <1>1, <1>3, <1>4, <1>5, <1>7, <1>8, Zenon DEF Next

-----------------------------------------------------------------------------
(* Files are in directories, and a missing file is reported as it was.     *)

(* The request r may bring the file n into being.                          *)
Makes(r, n) == \/ r.verb = "put" /\ n = r.path
               \/ r.verb \in {"copy", "rename"} /\ n = r.to

LEMMA AppliedFiles ==
  ASSUME NEW b, b /= "b2", NEW st \in Stacks, NEW ds, NEW k, NEW r, Addressed(b, r), Verdict(b, st, ds, k, r) = "ok",
         NEW n \in Names, Applied(b, st, k, r)[n] /= << >>, st[n] = << >>
  PROVE  Makes(r, n)
  <1>1. CASE r.verb = "put"
    <2>1. r.path \in Names
      BY <1>1, NamesAre DEF Addressed
    <2>2. Applied(b, st, k, r) = Store(b, st, r.path)
      BY <1>1 DEF Applied
    <2> QED BY <1>1, <2>1, <2>2, StoreHas DEF Makes
  <1>2. CASE r.verb = "copy"
    <2>1. r.to \in Names
      BY <1>2, NamesAre DEF Addressed
    <2>2. Applied(b, st, k, r) = Store(b, st, r.to)
      BY <1>2 DEF Applied
    <2> QED BY <1>2, <2>1, <2>2, StoreHas DEF Makes
  <1>3. CASE r.verb = "rename"
    <2>1. r.path \in Names /\ r.to \in Names /\ st[r.path] /= << >>
      BY <1>3, NamesAre, PresentElsewhere DEF Addressed, Verdict
    <2> DEFINE x == [st EXCEPT ![r.path] = Tail(@)]
    <2>2. Applied(b, st, k, r) = Store(b, x, r.to)
      BY <1>3 DEF Applied
    <2>3. x \in Stacks /\ \A m \in Names \ {r.path} : x[m] = st[m]
      BY <2>1 DEF Stacks
    <2> HIDE DEF x
    <2>4. \A m \in Names \ {r.to} : Store(b, x, r.to)[m] = x[m]
      BY <2>1, <2>3, StoreHas
    <2> QED BY <1>3, <2>1, <2>2, <2>3, <2>4 DEF Makes
  <1>4. CASE r.verb = "delete"
    BY <1>4, NamesAre DEF Addressed, Applied, Stacks
  <1>5. CASE r.verb \notin {"put", "copy", "rename", "delete", "hide", "drop", "purge", "unhide"}
    BY <1>5 DEF Applied
  <1>6. r.verb \notin {"hide", "drop", "purge", "unhide"}
    BY DEF Addressed
  <1> QED BY <1>1, <1>2, <1>3, <1>4, <1>5, <1>6

LEMMA DirStep ==
  ASSUME TypeInv, DirInv, [Next]_vars
  PROVE  DirInv'
  <1>1. ASSUME backend' = backend, dirs \subseteq dirs',
               backend \in StoresInDirs =>
                 \A n \in Names : store'[n] /= << >> => store[n] /= << >> \/ DirOf(backend, n) \in dirs'
        PROVE  DirInv'
    <2> SUFFICES ASSUME backend \in StoresInDirs, NEW n \in Names, Present(backend, store', n)
                 PROVE  DirOf(backend, n) \in dirs'
      BY <1>1 DEF DirInv, PresentIn
    <2>1. backend /= "b2"
      BY DEF StoresInDirs
    <2>2. store'[n] /= << >>
      BY <2>1, PresentElsewhere
    <2>3. CASE store[n] /= << >>
      <3>1. n \in PresentIn(backend, store)
        BY <2>1, <2>3, PresentElsewhere DEF PresentIn
      <3> QED BY <1>1, <3>1 DEF DirInv
    <2> QED BY <1>1, <2>2, <2>3
  <1>2. ASSUME UNCHANGED <<backend, store, dirs>> PROVE DirInv'
    BY <1>1, <1>2
  <1>3. ASSUME NEW c \in Calls, Start(c) PROVE DirInv'
    BY <1>2, <1>3 DEF Start
  <1>4. CASE Skip
    BY <1>2, <1>4 DEF Skip
  <1>5. CASE Serve
    <2>1. PICK a \in Answers : Arrives(a)
      BY <1>5, ServeCall
    <2> DEFINE r == Current
    <2>2. Addressed(backend, r) /\ store \in Stacks
      BY <1>5, ServeCall, UnderWay DEF TypeInv, Stacks, Versions
    <2>3. backend' = backend /\ dirs \subseteq dirs'
      BY <2>1 DEF Arrives
    <2>4. ASSUME backend \in StoresInDirs, NEW n \in Names, store'[n] /= << >>, store[n] = << >>
          PROVE  DirOf(backend, n) \in dirs'
      <3>1. a \in {"ok", "lost"} /\ store' = Applied(backend, store, call.cursor, r) /\ a \in PossibleAnswers(r)
        BY <2>1, <2>4 DEF Arrives
      <3>2. Verdict(backend, store, dirs, call.cursor, r) = "ok"
        BY <3>1, AnswersMean
      <3>3. backend /= "b2"
        BY <2>4 DEF StoresInDirs
      <3>4. Makes(r, n)
        <4>1. Applied(backend, store, call.cursor, r)[n] /= << >>
          BY <2>4, <3>1
        <4> HIDE DEF r
        <4> QED BY <2>2, <2>4, <3>2, <3>3, <4>1, AppliedFiles
      <3>5. DirOf(backend, n) \in dirs
        <4>1. CASE r.verb = "put" /\ n = r.path
          <5>1. ~(backend \in StoresInDirs /\ DirOf(backend, r.path) \notin dirs)
            BY <3>2, <4>1 DEF Verdict
          <5> QED BY <2>4, <4>1, <5>1
        <4>2. CASE r.verb = "copy"
          BY <2>2, <2>4, <4>2 DEF Addressed
        <4>3. CASE r.verb = "rename" /\ n = r.to
          <5>1. ~(backend \in Hierarchical /\ DirOf(backend, r.to) \notin dirs)
            BY <3>2, <4>3 DEF Verdict
          <5> QED BY <2>4, <4>3, <5>1 DEF Hierarchical
        <4> QED BY <3>4, <4>1, <4>2, <4>3 DEF Makes
      <3> QED BY <2>3, <3>5
    <2> QED BY <1>1, <2>3, <2>4
  <1>6. ASSUME NEW t, LoseToken(t) PROVE DirInv'
    BY <1>2, <1>6 DEF LoseToken
  <1>7. ASSUME NEW op, Other(op) PROVE DirInv'
    <2>1. backend' = backend
      BY <1>7 DEF Other
    <2>2. /\ \A n \in Names \ {"chunk", "fossil"} : store'[n] = store[n]
          /\ dirs \subseteq dirs'
          /\ backend /= "b2" => \A n \in {"chunk", "fossil"} :
                store'[n] /= << >> => store[n] /= << >> \/ DirOf(backend, n) \in dirs'
      BY <1>7, OtherStacks DEF TypeInv, Stacks, Versions
    <2>3. "b2" \notin StoresInDirs
      BY DEF StoresInDirs
    <2> QED BY <1>1, <2>1, <2>2, <2>3
  <1>8. CASE UNCHANGED vars
    BY <1>2, <1>8 DEF vars
  <1> QED BY <1>3, <1>4, <1>5, <1>6, <1>7, <1>8, Zenon DEF Next

LEMMA AbsentStep ==
  ASSUME TypeInv, SeenInv, DirInv, AbsentInv, [Next]_vars
  PROVE  AbsentInv'
  <1>1. ASSUME NEW c \in Calls, Start(c) PROVE AbsentInv'
    <2>1. call'.result \in {"none", "ok"}
      BY <1>1, StartCall
    <2> QED BY <2>1 DEF AbsentInv
  <1>2. CASE Skip
    <2>1. Reaches(call', "next", call.cursor)
      BY <1>2, SkipCall
    <2>2. call'.result /= "absent"
      BY <2>1 DEF Reaches
    <2> QED BY <2>2 DEF AbsentInv
  <1>3. CASE Serve
    <2>1. PICK a \in Answers : Arrives(a)
      BY <1>3, ServeCall
    <2>2. call.result = "none"
      BY <1>3, ServeCall
    <2> DEFINE r == Current
    <2>3. LooksFirst(backend, call.path, r) /\ Midway
      BY <2>2, UnderWay DEF SoundRequest
    <2>4. Moves(call', r, a) /\ Sees(call', call, store') /\ backend' = backend /\ a \in PossibleAnswers(r)
      BY <2>1 DEF Arrives
    <2> SUFFICES ASSUME call'.result = "absent",
                        backend \notin {"s3", "s3c", "wasabi", "azure", "storj", "hubic", "webdav"}
                 PROVE  call'.path \notin call'.since
      BY <2>4 DEF AbsentInv
    <2>5. OutcomeOf(r, a) = "absent"
      BY <2>4 DEF Moves, Repeats, Continues, Finishes, Reaches
    <2>6. r.on[a] = "absent"
      BY <2>5 DEF OutcomeOf
    <2>7. /\ a = "missing"
          /\ \/ r.verb = "stat" /\ r.path = call.path
             \/ r.verb = "statdir" /\ backend \in StoresInDirs /\ r.path = DirOf(backend, call.path)
      BY <2>3, <2>6 DEF LooksFirst
    <2>8. Verdict(backend, store, dirs, call.cursor, r) = "missing"
      BY <2>4, <2>7, AnswersMean DEF FalselyMissing
    <2>9. call.path \notin PresentIn(backend, store)
      <3>1. CASE r.verb = "stat" /\ r.path = call.path
        <4>1. ~Present(backend, store, r.path)
          BY <2>8, <3>1 DEF Verdict
        <4> QED BY <3>1, <4>1 DEF PresentIn
      <3>2. CASE r.verb = "statdir" /\ backend \in StoresInDirs /\ r.path = DirOf(backend, call.path)
        <4>1. r.path \notin dirs
          BY <2>8, <3>2 DEF Verdict
        <4> QED BY <3>2, <4>1 DEF DirInv
      <3> QED BY <2>7, <3>1, <3>2
    <2>10. store' = store
      BY <2>1, <2>7 DEF Arrives
    <2> QED BY <2>4, <2>9, <2>10 DEF Sees, Same
  <1>4. ASSUME NEW op, Other(op) PROVE AbsentInv'
    <2>1. call'.result = call.result /\ call'.path = call.path /\ call'.since \subseteq call.since /\ backend' = backend
      BY <1>4, OtherCall DEF SamePlace
    <2> QED BY <2>1 DEF AbsentInv
  <1>5. ASSUME UNCHANGED <<backend, call>> PROVE AbsentInv'
    BY <1>5 DEF AbsentInv
  <1>6. ASSUME NEW t, LoseToken(t) PROVE AbsentInv'
    BY <1>5, <1>6 DEF LoseToken
  <1>7. CASE UNCHANGED vars
    BY <1>5, <1>7 DEF vars
  <1> QED BY <1>1, <1>2, <1>3, <1>4, <1>6, <1>7, Zenon DEF Next

-----------------------------------------------------------------------------
(* What an operation delivers. *)

(* An answer that shows a file is right. *)
LEMMA ShownIsThere ==
  ASSUME TypeInv, call.result = "none", NEW a \in Answers, Arrives(a), NEW d \in {"chunk", "fossil"}, Shows(Current, a, d)
  PROVE  d \in PresentIn(backend, store')
  <1> DEFINE r == Current
             v == Verdict(backend, store, dirs, call.cursor, r)
  <1>1. store \in Stacks /\ Addressed(backend, r) /\ d \in Names
    BY UnderWay, NamesAre DEF TypeInv, Stacks, Versions
  <1>2. a \in PossibleAnswers(r)
    BY DEF Arrives
  <1>3. /\ a \in {"ok", "taken"} => v = a
        /\ r.verb = "fail" => a = "rejected"
    BY <1>2, AnswersMean
  <1>4. CASE a = "ok" /\ r.verb = "put" /\ r.path = d
    <2>1. r.path \in {"chunk", "temp"} /\ r.path \in Names
      BY <1>1, <1>4 DEF Addressed
    <2>2. store' = Store(backend, store, r.path)
      BY <1>4 DEF Arrives, Applied
    <2> QED BY <1>1, <1>4, <2>1, <2>2, StoreHas
  <1>5. CASE a = "ok" /\ r.verb = "stat" /\ r.path = d
    <2>1. store' = store
      BY <1>5 DEF Arrives, Applied
    <2>2. Present(backend, store, d)
      BY <1>3, <1>5 DEF Verdict
    <2> QED BY <1>1, <2>1, <2>2 DEF PresentIn
  <1>6. CASE a = "ok" /\ r.verb = "copy" /\ r.to = d
    <2>1. backend /= "b2"
      BY <1>1, <1>6 DEF Addressed
    <2>2. store' = Store(backend, store, r.to)
      BY <1>6 DEF Arrives, Applied
    <2> QED BY <1>1, <1>6, <2>1, <2>2, StoreHas
  <1>7. CASE a = "ok" /\ r.verb = "rename" /\ r.to = d
    <2>1. backend /= "b2" /\ r.path \in Names
      BY <1>1, <1>7, NamesAre DEF Addressed
    <2>2. store[r.path] /= << >>
      BY <1>3, <1>7, <2>1, PresentElsewhere DEF Verdict
    <2> DEFINE x == [store EXCEPT ![r.path] = Tail(@)]
    <2>3. store' = Store(backend, x, r.to)
      BY <1>7 DEF Arrives, Applied
    <2>4. x \in Stacks
      <3> HIDE DEF r
      <3> DEFINE s == store[r.path]
      <3>0. s \in Seq(Versions) /\ s /= << >>
        BY <1>1, <2>1, <2>2 DEF Stacks
      <3>1. Tail(s) \in Seq(Versions)
        <4> HIDE DEF s
        <4> QED BY <3>0
      <3> QED BY <1>1, <2>1, <3>1 DEF Stacks
    <2> HIDE DEF x
    <2> QED BY <1>1, <1>7, <2>1, <2>3, <2>4, StoreHas
  <1>8. CASE a = "ok" /\ r.verb = "hide" /\ d = "fossil"
    <2>1. backend = "b2"
      BY <1>1, <1>8 DEF Addressed
    <2> DEFINE s == <<"hide">> \o store["chunk"]
    <2>2. store' = [store EXCEPT !["chunk"] = s]
      BY <1>8 DEF Arrives, Applied
    <2>3. "chunk" \in Names /\ store["chunk"] \in Seq(Versions)
      BY <1>1, NamesAre DEF Stacks
    <2>4. s /= << >> /\ Head(s) = "hide"
      BY <2>3, OnTop DEF Versions
    <2> HIDE DEF s
    <2>5. store'["chunk"] = s
      BY <1>1, <2>2, <2>3 DEF Stacks
    <2> QED BY <1>1, <1>8, <2>1, <2>4, <2>5 DEF PresentIn, Present
  <1>9. CASE a = "taken" /\ r.verb = "put" /\ r.path = d
    <2>1. store' = store
      BY <1>9 DEF Arrives
    <2>2. Present(backend, store, d)
      BY <1>3, <1>9 DEF Verdict
    <2> QED BY <1>1, <2>1, <2>2 DEF PresentIn
  <1>10. CASE a = "taken" /\ r.verb = "rename" /\ r.to = d
    <2>1. store' = store
      BY <1>10 DEF Arrives
    <2>2. Present(backend, store, d)
      BY <1>3, <1>10 DEF Verdict
    <2> QED BY <1>1, <2>1, <2>2 DEF PresentIn
  <1> HIDE DEF r, v
  <1> QED BY <1>3, <1>4, <1>5, <1>6, <1>7, <1>8, <1>9, <1>10 DEF Shows, r

LEMMA DeliveredStep ==
  ASSUME TypeInv, DeliveredInv, [Next]_vars
  PROVE  DeliveredInv'
  <1> DEFINE D == Delivered(backend, call.op)
  <1>0. 1 \notin Delivered(backend, "upload") /\ 1 \notin Delivered(backend, "move")
    BY DEF Delivered
  <1>1. ASSUME NEW c \in Calls, Start(c) PROVE DeliveredInv'
    <2>1. call'.op = c.op /\ call'.pc = 1 /\ (call'.result = "ok" => c.op \notin {"upload", "move", "list"})
          /\ backend' = backend
      BY <1>1, StartCall
    <2>2. c.op \in {"upload", "move"} => 1 \notin Delivered(backend, c.op)
      BY <1>0
    <2> QED BY <2>1, <2>2 DEF DeliveredInv
  <1>2. ASSUME call.op \in {"upload", "move"}, Delivers(backend, call.op, call.to), call.result = "none",
               backend' = backend, Same(call', call), call.ever \subseteq call'.ever,
               call'.result = "ok" \/ (call'.result = "none" /\ call'.pc \in D)
                 => call.pc \in D \/ Destination \in call'.ever
        PROVE  DeliveredInv'
    <2>1. Destination' = Destination
      BY <1>2 DEF Destination, Same
    <2>2. call.pc \in D => Destination \in call.ever
      BY <1>2 DEF DeliveredInv
    <2> QED BY <1>2, <2>1, <2>2 DEF DeliveredInv, Same
  <1>3. ASSUME backend' = backend, Same(call', call), ~(call.op \in {"upload", "move"} /\ Delivers(backend, call.op, call.to))
        PROVE  DeliveredInv'
    BY <1>3 DEF DeliveredInv, Same
  <1>4. ASSUME call.result = "none", call.op \in {"upload", "move"}, Delivers(backend, call.op, call.to)
        PROVE  /\ DeliversBeforeOk(backend, call.op, Destination, Len(Program), call.pc, Current)
               /\ Midway
    BY <1>4, UnderWay DEF SoundRequest, Destination
  <1>5. CASE Skip
    <2>1. Same(call', call) /\ SameSeen(call', call) /\ Reaches(call', "next", call.cursor)
          /\ Current.unless /= "none" /\ backend' = backend /\ call.result = "none"
      BY <1>5, SkipCall DEF Skip
    <2>2. CASE ~(call.op \in {"upload", "move"} /\ Delivers(backend, call.op, call.to))
      BY <1>3, <2>1, <2>2
    <2>3. CASE call.op \in {"upload", "move"} /\ Delivers(backend, call.op, call.to)
      <3>1. call.pc \in D \/ (call.pc < Len(Program) /\ call.pc + 1 \notin D)
        BY <1>4, <2>1, <2>3 DEF DeliversBeforeOk
      <3>2. call.pc \in Nat /\ Len(Program) \in Nat
        BY <1>4, <2>1, <2>3 DEF Midway
      <3>3. call.pc \in D \/ (call'.result = "none" /\ call'.pc = call.pc + 1)
        BY <2>1, <3>1, <3>2 DEF Reaches, Target
      <3>4. call.ever \subseteq call'.ever
        BY <2>1 DEF SameSeen
      <3> HIDE DEF D
      <3> QED BY <1>2, <2>1, <2>3, <3>1, <3>3, <3>4
    <2> QED BY <2>2, <2>3
  <1>6. CASE Serve
    <2>1. PICK a \in Answers : Arrives(a)
      BY <1>6, ServeCall
    <2> DEFINE r == Current
    <2>2. call.result = "none"
      BY <1>6, ServeCall
    <2>3. Moves(call', r, a) /\ Sees(call', call, store') /\ backend' = backend
      BY <2>1 DEF Arrives
    <2>4. CASE ~(call.op \in {"upload", "move"} /\ Delivers(backend, call.op, call.to))
      BY <1>3, <2>3, <2>4 DEF Sees
    <2>5. CASE call.op \in {"upload", "move"} /\ Delivers(backend, call.op, call.to)
      <3> SUFFICES ASSUME call'.result = "ok" \/ (call'.result = "none" /\ call'.pc \in D), call.pc \notin D
                   PROVE  Destination \in call'.ever
        BY <1>2, <2>2, <2>3, <2>5 DEF Sees
      <3>1. /\ r.from \notin D /\ r.verb /= "marker"
            /\ \/ Shows(r, a, Destination)
               \/ r.on[a] \in {"error", "absent", "panic", "hung"}
               \/ r.on[a] = "next" /\ call.pc < Len(Program) /\ call.pc + 1 \notin D
               \/ r.on[a] = "jump" /\ r.target <= Len(Program) /\ r.target \notin D
        BY <1>4, <2>2, <2>5 DEF DeliversBeforeOk
      <3>2. Midway
        BY <1>4, <2>2, <2>5
      <3>3. Finishes(call', r, a) /\ call'.result /= "error"
        BY <2>3, <3>1 DEF Moves, Repeats, Continues
      <3>4. OutcomeOf(r, a) = r.on[a]
        BY <3>1 DEF OutcomeOf
      <3>5. \E k : Reaches(call', r.on[a], k)
        BY <3>3, <3>4, Zenon DEF Finishes
      <3>6. PICK k : Reaches(call', r.on[a], k)
        BY <3>5
      <3>7. Shows(r, a, Destination)
        <4>1. CASE r.on[a] \in {"error", "absent", "panic", "hung"}
          BY <3>6, <4>1 DEF Reaches
        <4>2. CASE r.on[a] = "next" /\ call.pc < Len(Program) /\ call.pc + 1 \notin D
          BY <3>2, <3>6, <4>2 DEF Reaches, Target, Midway
        <4>3. CASE r.on[a] = "jump" /\ r.target <= Len(Program) /\ r.target \notin D
          <5>1. r.target \in 1..7
            BY <3>2, <4>3 DEF Midway, Leads
          <5> QED BY <3>2, <3>6, <4>3, <5>1 DEF Reaches, Target, Midway
        <4> QED BY <3>1, <4>1, <4>2, <4>3
      <3>8. Destination \in {"chunk", "fossil"}
        <4>1. Asked \in Calls /\ Asked.op = call.op /\ Asked.path = call.path /\ Asked.to = call.to
          BY <2>2, UnderWay DEF Asked
        <4> HIDE DEF Asked
        <4> QED BY <2>5, <4>1, CallsOf DEF Destination
      <3>9. Destination \in PresentIn(backend, store')
        BY <2>1, <2>2, <3>7, <3>8, ShownIsThere
      <3> QED BY <2>3, <3>9 DEF Sees
    <2> QED BY <2>4, <2>5
  <1>7. ASSUME NEW op, Other(op) PROVE DeliveredInv'
    <2>1. SamePlace(call', call) /\ call'.op = call.op /\ call'.path = call.path /\ call'.to = call.to
          /\ call.ever \subseteq call'.ever /\ backend' = backend
      BY <1>7, OtherCall
    <2>2. Destination' = Destination
      BY <2>1 DEF Destination
    <2> QED BY <2>1, <2>2 DEF DeliveredInv, SamePlace
  <1>8. ASSUME UNCHANGED <<backend, call>> PROVE DeliveredInv'
    BY <1>8 DEF DeliveredInv, Destination
  <1>9. ASSUME NEW t, LoseToken(t) PROVE DeliveredInv'
    BY <1>8, <1>9 DEF LoseToken
  <1>10. CASE UNCHANGED vars
    BY <1>8, <1>10 DEF vars
  <1> QED BY <1>1, <1>5, <1>6, <1>7, <1>9, <1>10, Zenon DEF Next

-----------------------------------------------------------------------------
(* B2's MoveFile to a chunk. *)

(* Under a marker there is nothing, a chunk, or another marker.            *)
LEMMA MarkerOff ==
  ASSUME store \in Stacks, store["chunk"] /= << >>, Head(store["chunk"]) = "hide",
         NEW t \in Seq(Versions), Len(t) = Len(store["chunk"]) - 1,
         \A j \in 1..(Len(store["chunk"]) - 1) : t[j] = store["chunk"][j + 1]
  PROVE  t = << >> \/ (t /= << >> /\ Head(t) = "data") \/ HiddenTwice(store)
  <1> DEFINE s == store["chunk"]
  <1>1. s \in Seq(Versions) /\ s /= << >> /\ Head(s) = "hide" /\ Len(t) = Len(s) - 1
        /\ \A j \in 1..(Len(s) - 1) : t[j] = s[j + 1]
    BY NamesAre DEF Stacks
  <1> SUFFICES ASSUME t /= << >>, Head(t) /= "data" PROVE HiddenTwice(store)
    OBVIOUS
  <1> HIDE DEF s
  <1>2. Len(t) > 0 /\ t[1] \in Versions /\ Head(t) = t[1]
    BY <1>1
  <1>3. Len(s) >= 2 /\ s[1] = "hide"
    BY <1>1, <1>2
  <1>4. s[2] = t[1]
    BY <1>1, <1>2, <1>3
  <1>5. s[2] = "hide"
    BY <1>2, <1>4 DEF Versions
  <1>6. 2 \in 2..Len(s) /\ s[2 - 1] = "hide" /\ s[2] = "hide"
    BY <1>1, <1>3, <1>5
  <1> QED BY <1>6 DEF HiddenTwice, s

OnceThere == "chunk" \in call.ever \/ call.twice \/ store["chunk"] = << >>

(* Whoever takes the marker off, the chunk has been there then.            *)
LEMMA OnceThereAfter ==
  ASSUME TypeInv, SeenInv, backend = "b2", call.op = "move", store["chunk"] /= << >>, Head(store["chunk"]) = "hide",
         store' \in Stacks, backend' = backend, Len(store'["chunk"]) = Len(store["chunk"]) - 1,
         \A j \in 1..(Len(store["chunk"]) - 1) : store'["chunk"][j] = store["chunk"][j + 1],
         call'.ever = call.ever \union PresentIn(backend, store'),
         call.twice => call'.twice
  PROVE  OnceThere'
  <1>1. store'["chunk"] \in Seq(Versions) /\ "chunk" \in Names
    BY NamesAre DEF Stacks
  <1>2. \/ store'["chunk"] = << >>
        \/ store'["chunk"] /= << >> /\ Head(store'["chunk"]) = "data"
        \/ HiddenTwice(store)
    BY <1>1, MarkerOff DEF TypeInv, Stacks, Versions
  <1>3. ASSUME store'["chunk"] /= << >>, Head(store'["chunk"]) = "data" PROVE "chunk" \in call'.ever
    BY <1>1, <1>3 DEF PresentIn, Present
  <1>4. HiddenTwice(store) => call'.twice
    BY DEF SeenInv
  <1> QED BY <1>2, <1>3, <1>4 DEF OnceThere

LEMMA OnceThereStays ==
  ASSUME OnceThere, call.ever \subseteq call'.ever, call.twice => call'.twice, store["chunk"] = << >> => store'["chunk"] = << >>
  PROVE  OnceThere'
  BY DEF OnceThere

LEMMA UnhiddenStep ==
  ASSUME TypeInv, SeenInv, UnhiddenInv, [Next]_vars
  PROVE  UnhiddenInv'
  <1> DEFINE M == call.op = "move" /\ backend = "b2" /\ call.to = "chunk"
             Under == Head(store["chunk"]) = "hide" /\ call.cursor = Len(store["chunk"])
  <1>1. ASSUME NEW c \in Calls, Start(c) PROVE UnhiddenInv'
    <2>1. call'.op = c.op /\ call'.pc = 1 /\ (call'.result = "ok" => c.op \notin {"upload", "move", "list"})
      BY <1>1, StartCall
    <2> QED BY <2>1 DEF UnhiddenInv
  <1>2. ASSUME backend' = backend, call'.op = call.op, call'.to = call.to, ~M PROVE UnhiddenInv'
    BY <1>2 DEF UnhiddenInv
  <1>3. ASSUME backend' = backend, call'.op = call.op, call'.to = call.to, OnceThere' PROVE UnhiddenInv'
    BY <1>3 DEF UnhiddenInv, OnceThere
  <1>4. ASSUME M, call.result = "none"
        PROVE  UnhidesBeforeOk(Len(Program), call.pc, Current) /\ Midway
    BY <1>4, UnderWay DEF SoundRequest
  <1>5. CASE Skip
    <2>1. Same(call', call) /\ Current.unless /= "none" /\ backend' = backend /\ call.result = "none"
      BY <1>5, SkipCall DEF Skip
    <2>2. ~M
      BY <1>4, <2>1 DEF UnhidesBeforeOk
    <2> QED BY <1>2, <2>1, <2>2 DEF Same
  <1>6. CASE Serve
    <2>1. PICK a \in Answers : Arrives(a)
      BY <1>6, ServeCall
    <2> DEFINE r == Current
               s == store["chunk"]
    <2>2. call.result = "none"
      BY <1>6, ServeCall
    <2>3. Moves(call', r, a) /\ Sees(call', call, store') /\ backend' = backend /\ a \in PossibleAnswers(r)
      BY <2>1 DEF Arrives
    <2>4. call'.op = call.op /\ call'.to = call.to /\ call.ever \subseteq call'.ever
          /\ call'.ever = call.ever \union PresentIn(backend, store')
      BY <2>3 DEF Sees, Same
    <2>5. call.twice => call'.twice
      BY <2>3, Zenon DEF Sees
    <2> SUFFICES ASSUME M PROVE UnhiddenInv'
      BY <1>2, <2>3, <2>4
    <2>6. UnhidesBeforeOk(Len(Program), call.pc, r) /\ Midway
      BY <1>4, <2>2
    <2>7. Len(Program) = 2 /\ call.pc \in {1, 2} /\ r.from = 0
      BY <2>6 DEF UnhidesBeforeOk, Midway
    <2>8. store \in Stacks /\ store' \in Stacks /\ s \in Seq(Versions) /\ "chunk" \in Names
      BY <2>1, <2>2, ArrivesStacks, NamesAre DEF TypeInv, Stacks, Versions
    <2>9. r.verb \notin {"pages", "purge"} => ~MoreToCome(r, Page(r))
      BY DEF MoreToCome
    <2> HIDE DEF s
    <2>10. CASE call.pc = 1
      <3>1. r.verb = "newest" /\ r.path = "fossil" /\ r.to = "chunk"
            /\ r.on[a] /= "jump" /\ (r.on[a] = "next" => a = "ok") /\ (r.on[a] = "ok" => a = "missing")
        BY <2>6, <2>10 DEF UnhidesBeforeOk
      <3>2. store' = store
        BY <2>1, <3>1 DEF Arrives, Applied
      <3>3. OutcomeOf(r, a) = r.on[a]
        BY <3>1 DEF OutcomeOf
      <3>4. CASE a = "ok"
        <4>1. Present(backend, store, "fossil")
          BY <2>3, <3>1, <3>4, AnswersMean DEF Verdict
        <4>2. s /= << >> /\ Head(s) = "hide"
          BY <4>1 DEF Present, s
        <4>3. CursorAfter(r) = Len(s)
          BY <3>1 DEF CursorAfter, Found, s
        <4>4. call'.result \notin {"ok", "none"} \/ call'.pc /= 2 \/ (call'.result = "none" /\ call'.cursor = Len(s))
          BY <2>3, <2>7, <2>10, <3>1, <3>3, <3>4, <4>3 DEF Moves, Repeats, Continues, Finishes, Reaches
        <4>5. call'.result /= "ok"
          BY <2>3, <2>7, <2>10, <3>1, <3>3, <3>4 DEF Moves, Repeats, Continues, Finishes, Reaches, Target
        <4> QED BY <3>2, <4>2, <4>4, <4>5 DEF UnhiddenInv, s
      <3>5. CASE a /= "ok"
        <4>0. r.on[a] \notin {"next", "jump", "none"}
          BY <2>6, <3>1, <3>5 DEF Midway, Leads
        <4>0a. ~Continues(call', r, a) /\ (Finishes(call', r, a) => call'.result /= "none")
          BY <3>3, <3>5, <4>0 DEF Continues, Finishes, Reaches
        <4>1. call'.result = "none" => call'.pc = 1
          BY <2>3, <2>7, <2>10, <4>0a DEF Moves, Repeats
        <4>2. call'.result = "ok" => a = "missing"
          BY <2>3, <3>1, <3>3, <3>5 DEF Moves, Repeats, Continues, Finishes, Reaches
        <4>3. ASSUME a = "missing" PROVE OnceThere'
          <5>1. ~Present(backend, store, "fossil")
            BY <2>3, <3>1, <4>3, AnswersMean DEF Verdict, OfFile
          <5>2. s = << >> \/ (s /= << >> /\ Head(s) = "data")
            BY <2>8, <5>1 DEF Present, Versions, s
          <5>3. ASSUME s /= << >>, Head(s) = "data" PROVE "chunk" \in call'.ever
            BY <2>4, <2>8, <3>2, <5>3 DEF PresentIn, Present, s
          <5> QED BY <3>2, <5>2, <5>3 DEF OnceThere, s
        <4> QED BY <1>3, <2>3, <2>4, <4>1, <4>2, <4>3 DEF UnhiddenInv
      <3> QED BY <3>4, <3>5
    <2>11. CASE call.pc = 2
      <3>1. r.verb = "unhide" /\ r.on[a] /= "jump" /\ (r.on[a] \in {"next", "ok"} => a = "ok")
        BY <2>6, <2>11 DEF UnhidesBeforeOk
      <3>2. r.path = "chunk"
        BY <2>2, <3>1, UnderWay DEF Addressed
      <3>3. OnceThere \/ (Head(s) = "hide" /\ call.cursor = Len(s) /\ s /= << >>)
        BY <2>2, <2>11 DEF UnhiddenInv, OnceThere, s
      <3>4. CASE a \in {"ok", "lost"}
        <4>1. Verdict(backend, store, dirs, call.cursor, r) = "ok"
          BY <2>3, <3>4, AnswersMean
        <4>2. call.cursor \in 1..Len(s) /\ store' = [store EXCEPT !["chunk"] = RemoveAt(s, Len(s) + 1 - call.cursor)]
          BY <2>1, <3>1, <3>2, <3>4, <4>1 DEF Verdict, Arrives, Applied, s
        <4>3. store'["chunk"] = RemoveAt(s, Len(s) + 1 - call.cursor)
          BY <2>8, <4>2 DEF Stacks
        <4>4. CASE OnceThere
          <5>1. s /= << >>
            BY <2>8, <4>2
          <5>2. OnceThere'
            BY <2>4, <2>5, <4>4, <5>1, OnceThereStays DEF s
          <5> QED BY <1>3, <2>3, <2>4, <5>2
        <4>5. CASE Head(s) = "hide" /\ call.cursor = Len(s) /\ s /= << >>
          <5>1. Len(s) \in Nat /\ Len(s) > 0
            BY <2>8, <4>5
          <5>2. Len(s) + 1 - call.cursor = 1 /\ 1 \in 1..Len(s)
            BY <4>5, <5>1
          <5>3. store'["chunk"] = RemoveAt(s, 1)
            BY <4>3, <5>2
          <5>4. Len(RemoveAt(s, 1)) = Len(s) - 1 /\ \A j \in 1..(Len(s) - 1) : RemoveAt(s, 1)[j] = s[j + 1]
            BY <2>8, <5>1, <5>2, RemoveAtIn
          <5>5. OnceThere'
            BY <2>3, <2>4, <2>5, <2>8, <4>5, <5>3, <5>4, OnceThereAfter DEF s
          <5> QED BY <1>3, <2>3, <2>4, <5>5
        <4> QED BY <3>3, <4>4, <4>5
      <3>5. CASE a \notin {"ok", "lost"}
        <4>1. store' = store
          BY <2>1, <3>5 DEF Arrives
        <4>2. CASE OnceThere
          <5>1. OnceThere'
            BY <2>4, <2>5, <4>1, <4>2, OnceThereStays
          <5> QED BY <1>3, <2>3, <2>4, <5>1
        <4>3. CASE Head(s) = "hide" /\ call.cursor = Len(s) /\ s /= << >>
          <5>1. OutcomeOf(r, a) = r.on[a]
            BY <3>1 DEF OutcomeOf
          <5>2. call'.result = "ok" => FALSE
            BY <2>3, <3>1, <3>5, <5>1 DEF Moves, Repeats, Continues, Finishes, Reaches
          <5>2a. r.on[a] \notin {"next", "jump", "none"}
            BY <2>6, <3>1, <3>5 DEF Midway, Leads
          <5>2b. ~Continues(call', r, a) /\ (Finishes(call', r, a) => call'.result /= "none")
            BY <3>5, <5>1, <5>2a DEF Continues, Finishes, Reaches
          <5>3. call'.result = "none" => call'.cursor = call.cursor
            BY <2>3, <3>5, <5>2b DEF Moves, Repeats
          <5> QED BY <4>1, <4>3, <5>2, <5>3 DEF UnhiddenInv, s
        <4> QED BY <3>3, <4>2, <4>3
      <3> QED BY <3>4, <3>5
    <2> QED BY <2>7, <2>10, <2>11
  <1>7. ASSUME NEW op, Other(op) PROVE UnhiddenInv'
    <2>1. SamePlace(call', call) /\ call'.op = call.op /\ call'.to = call.to /\ call.ever \subseteq call'.ever /\ backend' = backend
          /\ call'.ever = call.ever \union PresentIn(backend, store')
      BY <1>7, OtherCall
    <2>2. call.twice => call'.twice
      BY <1>7, OtherCall, Zenon
    <2>3. CASE ~M
      BY <1>2, <2>1, <2>3
    <2>4. CASE ~(call.result = "ok" \/ (call.result = "none" /\ call.pc = 2))
      BY <2>1, <2>4 DEF UnhiddenInv, SamePlace
    <2>5. CASE M
      <3> DEFINE s == store["chunk"]
      <3>1. store \in Stacks /\ store' \in Stacks /\ s \in Seq(Versions) /\ "chunk" \in Names
        BY <1>7, OtherStacks, NamesAre DEF TypeInv, Stacks, Versions
      <3>2. CASE store' = Store(backend, store, "chunk")
        <4>1. "chunk" \in call'.ever
          BY <2>1, <3>1, <3>2, StoreHas
        <4>2. OnceThere'
          BY <4>1 DEF OnceThere
        <4> QED BY <1>3, <2>1, <4>2
      <3>3. CASE Present(backend, store, "chunk")
        <4>1. "chunk" \in call.ever
          BY <2>5, <3>1, <3>3 DEF SeenInv, PresentIn
        <4>2. OnceThere'
          BY <2>1, <4>1 DEF OnceThere
        <4> QED BY <1>3, <2>1, <4>2
      <3>4. CASE Present(backend, store, "fossil") /\ store' = [store EXCEPT !["chunk"] = Tail(@)]
        <4>1. s /= << >> /\ Head(s) = "hide"
          BY <2>5, <3>4 DEF Present
        <4>2. store'["chunk"] = Tail(s)
          BY <3>1, <3>4 DEF Stacks
        <4> HIDE DEF s
        <4>3. Len(Tail(s)) = Len(s) - 1 /\ \A j \in 1..(Len(s) - 1) : Tail(s)[j] = s[j + 1]
          BY <3>1, <4>1
        <4>4. OnceThere'
          BY <2>1, <2>2, <2>5, <3>1, <4>1, <4>2, <4>3, OnceThereAfter DEF s
        <4> QED BY <1>3, <2>1, <4>4
      <3>5. \/ store' = Store(backend, store, "chunk")
            \/ Present(backend, store, "chunk")
            \/ Present(backend, store, "fossil") /\ store' = [store EXCEPT !["chunk"] = Tail(@)]
        BY <1>7, <2>5 DEF Other
      <3> QED BY <3>2, <3>3, <3>4, <3>5
    <2> QED BY <2>3, <2>5
  <1>8. ASSUME UNCHANGED <<backend, store, call>> PROVE UnhiddenInv'
    BY <1>8 DEF UnhiddenInv
  <1>9. ASSUME NEW t, LoseToken(t) PROVE UnhiddenInv'
    BY <1>8, <1>9 DEF LoseToken
  <1>10. CASE UNCHANGED vars
    BY <1>8, <1>10 DEF vars
  <1> QED BY <1>1, <1>5, <1>6, <1>7, <1>9, <1>10, Zenon DEF Next

-----------------------------------------------------------------------------
(* Listings. *)

LEMMA LeastIn ==
  ASSUME NEW S, S \subseteq 1..7, S /= {}
  PROVE  \E i \in S : \A j \in S : i <= j
  <1>1. CASE 1 \in S
    BY <1>1
  <1>2. CASE 1 \notin S /\ 2 \in S
    BY <1>2
  <1>3. CASE 1 \notin S /\ 2 \notin S /\ 3 \in S
    BY <1>3
  <1>4. CASE 1 \notin S /\ 2 \notin S /\ 3 \notin S /\ 4 \in S
    BY <1>4
  <1>5. CASE 1 \notin S /\ 2 \notin S /\ 3 \notin S /\ 4 \notin S /\ 5 \in S
    BY <1>5
  <1>6. CASE 1 \notin S /\ 2 \notin S /\ 3 \notin S /\ 4 \notin S /\ 5 \notin S
    <2>1. S \subseteq {6, 7}
      BY <1>6
    <2>2. CASE 6 \in S
      <3>1. \A j \in S : 6 <= j
        BY <2>1
      <3> QED BY <2>2, <3>1
    <2>3. CASE 6 \notin S
      <3>1. \A j \in S : j = 7
        BY <2>1, <2>3
      <3>2. PICK i : i \in S
        BY Zenon
      <3> QED BY <3>1, <3>2
    <2> QED BY <2>2, <2>3
  <1> QED BY <1>1, <1>2, <1>3, <1>4, <1>5, <1>6

(* What of a directory comes after the k-th name.                          *)
Rest(r, k) == {i \in 1..7 : i > k /\ DirOf(backend, NameSeq[i]) = r.path /\ Present(backend, store, NameSeq[i])}

(* A page has the first of the rest. *)
LEMMA PageOfRest ==
  ASSUME NEW r, r.verb = "pages", NEW k \in Nat
  PROVE  \/ Rest(r, k) = {} /\ Listed(backend, store, r, k) = {}
         \/ \E m \in Rest(r, k) : /\ Listed(backend, store, r, k) = {m}
                                  /\ LastOf(Listed(backend, store, r, k)) = m
                                  /\ \A j \in Rest(r, k) : m <= j
  <1> DEFINE P == Listed(backend, store, r, k)
  <1>1. P = {i \in Rest(r, k) : \A j \in Rest(r, k) : i <= j}
    BY NamesAre DEF Listed, Rest
  <1>2. Rest(r, k) \subseteq 1..7
    BY DEF Rest
  <1>3. CASE Rest(r, k) = {}
    BY <1>1, <1>3
  <1>4. CASE Rest(r, k) /= {}
    <2>1. PICK m \in Rest(r, k) : \A j \in Rest(r, k) : m <= j
      BY <1>2, <1>4, LeastIn
    <2>2. P = {m}
      BY <1>1, <1>2, <2>1
    <2>3. LastOf({m}) = m
      <3>1. m \in Int
        BY <1>2, <2>1
      <3> QED BY <3>1 DEF LastOf
    <2> QED BY <2>1, <2>2, <2>3
  <1> QED BY <1>3, <1>4

IsListing == call.op = "list" /\ Lists(backend, call.path) /\ call.result = "none"

LEMMA ListingRequest ==
  ASSUME TypeInv, IsListing
  PROVE  ListsBeforeOk(backend, call.path, Len(Program), call.pc, Current) /\ Midway
  BY UnderWay DEF SoundRequest, IsListing

(* What a page adds to what was listed. *)
LEMMA PageListed ==
  ASSUME TypeInv, ListingInv, IsListing, Current.verb \in {"list", "pages"},
         NEW i \in 1..7, NameSeq[i] \in call.since, NameSeq[i] \in PresentIn(backend, store),
         DirOf(backend, NameSeq[i]) = Current.path,
         MoreToCome(Current, Page(Current)) => i <= LastOf(Page(Current))
  PROVE  NameSeq[i] \in call.listed \union NamesOn(Page(Current))
  <1> DEFINE r == Current
             k == call.cursor
  <1>1. /\ k \in Nat
        /\ k /= 0 => r.verb = "pages"
        /\ i <= k => NameSeq[i] \in call.listed
    BY NamesAre DEF ListingInv, IsListing
  <1>2. CASE i <= k
    BY <1>1, <1>2
  <1>3. CASE i > k
    <2>1. i \in Rest(r, k)
      BY <1>3 DEF Rest, PresentIn
    <2>2. CASE r.verb = "list"
      <3>1. Page(r) = Rest(r, k)
        BY <2>2, NamesAre DEF Page, Listed, Rest
      <3> QED BY <2>1, <3>1 DEF NamesOn
    <2>3. CASE r.verb = "pages"
      <3>0. Page(r) = Listed(backend, store, r, k)
        BY <2>3 DEF Page
      <3>1. PICK m \in Rest(r, k) : Page(r) = {m} /\ LastOf(Page(r)) = m /\ \A j \in Rest(r, k) : m <= j
        BY <1>1, <2>1, <2>3, <3>0, PageOfRest
      <3>2. m <= i /\ m \in Nat
        BY <2>1, <3>1 DEF Rest
      <3>3. i <= m
        <4>1. CASE MoreToCome(r, Page(r))
          BY <3>1, <4>1
        <4>2. CASE ~MoreToCome(r, Page(r))
          <5>1. Listed(backend, store, r, m) = {}
            BY <2>3, <3>1, <4>2 DEF MoreToCome
          <5>2. Rest(r, m) = {}
            BY <2>3, <3>2, <5>1, PageOfRest
          <5>3. ~(i > m)
            BY <5>2 DEF Rest, PresentIn
          <5> QED BY <3>2, <5>3
        <4> QED BY <4>1, <4>2
      <3>4. i = m
        BY <3>2, <3>3
      <3> QED BY <3>1, <3>4 DEF NamesOn
    <2> QED BY <2>2, <2>3
  <1> QED BY <1>1, <1>2, <1>3

(* A final answer accounts for all of a directory.                         *)
LEMMA CoveredIsListed ==
  ASSUME TypeInv, SeenInv, DirInv, ListingInv, IsListing, NEW a \in Answers, Arrives(a),
         a = "ok" => ~MoreToCome(Current, Page(Current)),
         call'.listed = IF a = "ok" THEN call.listed \union NamesOn(Page(Current)) ELSE call.listed,
         NEW n \in call'.since, DirOf(backend, n) \in Covered(backend, call.path, call.pc, Current, a)
  PROVE  n \in call'.listed
  <1> DEFINE r == Current
  <1>1. r.verb \in {"list", "pages", "statdir", "await"}
    BY ListingRequest DEF ListsBeforeOk
  <1>2. store' = store
    BY <1>1 DEF Arrives, Applied
  <1>3. n \in call.since /\ n \in PresentIn(backend, store) /\ n \in Names
    BY <1>2 DEF Arrives, Sees, PresentIn
  <1>4. PICK i \in 1..7 : n = NameSeq[i]
    BY <1>3, NamesAre DEF Names
  <1>5. CASE DirOf(backend, n) \in Gone(backend, call.path, call.pc)
    <2>1. n \in call.listed
      BY <1>3, <1>5 DEF ListingInv, IsListing, Has
    <2> QED BY <2>1
  <1>6. CASE a = "ok" /\ r.verb \in {"list", "pages"} /\ DirOf(backend, n) = r.path
    BY <1>3, <1>4, <1>6, PageListed
  <1>7. CASE /\ a = "missing" /\ DirOf(backend, n) = r.path
             /\ backend \notin {"onedrive", "onebusiness"} \/ r.path \in {"revisions", "ids"}
    <2>1. Verdict(backend, store, dirs, call.cursor, r) = "missing" /\ r.verb /= "await"
      BY <1>1, <1>7, AnswersMean DEF Arrives, OfFile
    <2>2. r.path \notin dirs /\ backend \in Hierarchical
      BY <1>1, <2>1 DEF Verdict
    <2>3. backend \in StoresInDirs
      BY <1>7, <2>2 DEF Hierarchical, TypeInv
    <2> QED BY <1>3, <1>7, <2>2, <2>3 DEF DirInv
  <1> QED BY <1>5, <1>6, <1>7 DEF Covered

LEMMA ListingStep ==
  ASSUME TypeInv, SeenInv, DirInv, ListingInv, [Next]_vars
  PROVE  ListingInv'
  <1> DEFINE L == call.op = "list" /\ Lists(backend, call.path)
             UpTo == \A i \in 1..Len(NameSeq) :
                        i <= call.cursor /\ NameSeq[i] \in call.since /\ DirOf(backend, NameSeq[i]) = Current.path
                        => NameSeq[i] \in call.listed
  <1>1. ASSUME NEW c \in Calls, Start(c) PROVE ListingInv'
    <2>1. call'.op = c.op /\ call'.pc = 1 /\ call'.cursor = 0 /\ (call'.result = "ok" => c.op \notin {"upload", "move", "list"})
          /\ backend' = backend
      BY <1>1, StartCall
    <2>2. Gone(backend, call'.path, 1) = {}
      BY DEF Gone
    <2> QED BY <2>1, <2>2 DEF ListingInv, Has
  <1>2. ASSUME backend' = backend, call'.op = call.op, call'.path = call.path, ~L PROVE ListingInv'
    BY <1>2 DEF ListingInv
  <1>3. ASSUME backend' = backend, call'.op = call.op, call'.path = call.path, call'.to = call.to, dirs \subseteq dirs',
               call'.since \subseteq call.since, SamePlace(call', call)
        PROVE  ListingInv'
    <2>1. Program' = Program
      BY <1>3, SameProgram
    <2>2. Current' = Current
      BY <1>3, <2>1 DEF Current, SamePlace
    <2> HIDE DEF UpTo
    <2>3. UpTo => UpTo'
      BY <1>3, <2>2 DEF UpTo, SamePlace
    <2>4. ASSUME NEW D, \A n \in call.since : DirOf(backend, n) \in D => n \in call.listed
          PROVE  \A n \in call'.since : DirOf(backend', n) \in D => n \in call'.listed
      BY <1>3, <2>4 DEF SamePlace
    <2>5. ASSUME call'.op = "list", Lists(backend', call'.path), call'.result = "ok"
          PROVE  \A n \in call'.since : DirOf(backend', n) \in Wanted(backend', call'.path) => n \in call'.listed
      BY <1>3, <2>4, <2>5 DEF ListingInv, Has, SamePlace
    <2>6. ASSUME call'.op = "list", Lists(backend', call'.path), call'.result = "none"
          PROVE  /\ \A n \in call'.since : DirOf(backend', n) \in Gone(backend', call'.path, call'.pc) => n \in call'.listed
                 /\ call'.cursor \in Nat
                 /\ call'.cursor /= 0 => Current'.verb = "pages" /\ (backend' \in Hierarchical => Current'.path \in dirs') /\ UpTo'
      <3>1. call.result = "none" /\ call.op = "list" /\ Lists(backend, call.path) /\ call'.pc = call.pc
            /\ call'.cursor = call.cursor
        BY <1>3, <2>6 DEF SamePlace
      <3>2. /\ \A n \in call.since : DirOf(backend, n) \in Gone(backend, call.path, call.pc) => n \in call.listed
            /\ call.cursor \in Nat
            /\ call.cursor /= 0 => Current.verb = "pages" /\ (backend \in Hierarchical => Current.path \in dirs) /\ UpTo
        BY <3>1 DEF ListingInv, Has, UpTo
      <3> QED BY <1>3, <2>2, <2>3, <2>4, <3>1, <3>2
    <2> QED BY <2>5, <2>6 DEF ListingInv, Has, UpTo
  <1>4. CASE Skip
    <2>1. Same(call', call) /\ SameSeen(call', call) /\ Reaches(call', "next", call.cursor) /\ call'.listed = call.listed
          /\ Current.unless /= "none" /\ backend' = backend /\ call.result = "none"
      BY <1>4, SkipCall DEF Skip
    <2>2. CASE ~L
      BY <1>2, <2>1, <2>2 DEF Same
    <2>3. CASE L
      <3>1. IsListing
        BY <2>1, <2>3 DEF IsListing
      <3>2. Current.verb = "statdir" /\ call.pc < Len(Program)
            /\ Gone(backend, call.path, call.pc + 1) \subseteq Gone(backend, call.path, call.pc) /\ Midway
        BY <2>1, <3>1, ListingRequest DEF ListsBeforeOk
      <3>3. call'.result = "none" /\ call'.pc = call.pc + 1 /\ call'.cursor = call.cursor
        BY <2>1, <3>2 DEF Reaches, Target, Midway
      <3>4. call.cursor = 0 /\ Has(Gone(backend, call.path, call.pc))
        BY <2>1, <2>3, <3>2 DEF ListingInv
      <3>5. \A n \in call'.since : DirOf(backend', n) \in Gone(backend', call'.path, call'.pc) => n \in call'.listed
        BY <2>1, <3>2, <3>3, <3>4 DEF Has, Same, SameSeen
      <3> QED BY <3>3, <3>4, <3>5 DEF ListingInv, Has
    <2> QED BY <2>2, <2>3
  <1>5. CASE Serve
    <2>1. PICK a \in Answers : Arrives(a)
      BY <1>5, ServeCall
    <2> DEFINE r == Current
               page == Page(r)
    <2>2. call.result = "none"
      BY <1>5, ServeCall
    <2>3. Moves(call', r, a) /\ Sees(call', call, store') /\ backend' = backend /\ a \in PossibleAnswers(r) /\ dirs \subseteq dirs'
      BY <2>1 DEF Arrives
    <2>4. call'.op = call.op /\ call'.path = call.path /\ call'.to = call.to /\ call'.since \subseteq call.since
      BY <2>3 DEF Sees, Same
    <2> SUFFICES ASSUME L PROVE ListingInv'
      BY <1>2, <2>3, <2>4
    <2>5. IsListing
      BY <2>2 DEF IsListing
    <2>6. ListsBeforeOk(backend, call.path, Len(Program), call.pc, r) /\ Midway
      BY <2>5, ListingRequest
    <2>7. r.from = 0 /\ r.verb \in {"list", "pages", "statdir", "await"} /\ call.pc \in 1..Len(Program) /\ Len(Program) \in Nat
      BY <2>6 DEF ListsBeforeOk, Midway
    <2>8. a /= "lost" /\ OutcomeOf(r, a) = r.on[a]
      <3>1. r.verb \notin Changing
        BY <2>7 DEF Changing
      <3>2. a /= "lost"
        BY <2>3, <3>1, AnswersMean
      <3> QED BY <2>7, <3>2 DEF OutcomeOf
    <2>9. store' = store
      BY <2>1, <2>7 DEF Arrives, Applied
    <2>10. CASE Repeats(call', r, a)
      <3>1. SamePlace(call', call)
        BY <2>2, <2>7, <2>8, <2>10 DEF Repeats, SamePlace
      <3> QED BY <1>3, <2>3, <2>4, <3>1
    <2>11. CASE Continues(call', r, a)
      <3>1. a = "ok" /\ MoreToCome(r, page) /\ call'.result = "none" /\ call'.pc = call.pc
            /\ call'.cursor = CursorAfter(r) /\ call'.listed = call.listed \union NamesOn(page)
        BY <2>11 DEF Continues
      <3>2. r.verb = "pages" /\ page /= {}
        BY <2>7, <3>1 DEF MoreToCome
      <3>3. CursorAfter(r) = LastOf(page)
        BY <3>1, <3>2 DEF CursorAfter
      <3>4. call.cursor \in Nat
        BY <2>2 DEF ListingInv
      <3>5. PICK m \in Rest(r, call.cursor) : LastOf(page) = m
        <4>1. page = Listed(backend, store, r, call.cursor)
          BY <3>2 DEF Page
        <4> QED BY <3>2, <3>4, <4>1, PageOfRest
      <3>6. LastOf(page) \in Nat
        BY <3>5 DEF Rest
      <3>7. Verdict(backend, store, dirs, call.cursor, r) = "ok"
        BY <2>3, <3>1, AnswersMean
      <3>8. backend \in Hierarchical => r.path \in dirs
        BY <3>2, <3>7 DEF Verdict
      <3>9. Current' = r
        <4>1. Program' = Program
          BY <2>3, <2>4, SameProgram
        <4> QED BY <3>1, <4>1 DEF Current
      <3>10. ASSUME NEW i \in 1..7, i <= LastOf(page), NameSeq[i] \in call'.since, DirOf(backend, NameSeq[i]) = r.path
             PROVE  NameSeq[i] \in call'.listed
        <4>1. NameSeq[i] \in call.since /\ NameSeq[i] \in PresentIn(backend, store)
          BY <2>3, <2>9, <3>10 DEF Sees
        <4> QED BY <2>5, <3>1, <3>2, <3>10, <4>1, PageListed
      <3>11. \A n \in call'.since : DirOf(backend', n) \in Gone(backend', call'.path, call'.pc) => n \in call'.listed
        <4>1. Has(Gone(backend, call.path, call.pc))
          BY <2>2 DEF ListingInv
        <4> QED BY <2>3, <2>4, <3>1, <4>1 DEF Has
      <3> HIDE DEF r, page
      <3> QED BY <2>3, <2>4, <3>1, <3>2, <3>3, <3>6, <3>8, <3>9, <3>10, <3>11, NamesAre DEF ListingInv, Has
    <2>12. CASE Finishes(call', r, a)
      <3>1. CASE call'.result \notin {"ok", "none"}
        BY <3>1 DEF ListingInv
      <3>2. CASE call'.result \in {"ok", "none"}
        <4>1. /\ a = "ok" => ~MoreToCome(r, page)
              /\ call'.listed = IF a = "ok" THEN call.listed \union NamesOn(page) ELSE call.listed
              /\ Reaches(call', r.on[a], IF a = "ok" THEN CursorAfter(r) ELSE call.cursor)
          BY <2>8, <2>12, <3>2 DEF Finishes
        <4>2. \A n \in call'.since : DirOf(backend, n) \in Covered(backend, call.path, call.pc, r, a) => n \in call'.listed
          <5> HIDE DEF page
          <5> QED BY <2>1, <2>5, <4>1, CoveredIsListed DEF page
        <4>3. \/ r.on[a] \in {"error", "absent", "panic", "hung"}
              \/ r.on[a] = "next" /\ call.pc < Len(Program) /\ a \in {"ok", "missing"}
                 /\ Gone(backend, call.path, call.pc + 1) \subseteq Covered(backend, call.path, call.pc, r, a)
              \/ r.on[a] = "next" /\ call.pc = Len(Program)
                 /\ Wanted(backend, call.path) \subseteq Covered(backend, call.path, call.pc, r, a)
              \/ r.on[a] = "ok" /\ Wanted(backend, call.path) \subseteq Covered(backend, call.path, call.pc, r, a)
          BY <2>6 DEF ListsBeforeOk
        <4>4. CASE r.on[a] \in {"error", "absent", "panic", "hung"}
          BY <3>2, <4>1, <4>4 DEF Reaches
        <4>5. CASE r.on[a] = "next" /\ call.pc < Len(Program) /\ a \in {"ok", "missing"}
                   /\ Gone(backend, call.path, call.pc + 1) \subseteq Covered(backend, call.path, call.pc, r, a)
          <5>1. call'.result = "none" /\ call'.pc = call.pc + 1
                /\ call'.cursor = IF a = "ok" THEN CursorAfter(r) ELSE call.cursor
            BY <2>7, <4>1, <4>5 DEF Reaches, Target
          <5>2. call'.cursor = 0
            <6>1. CASE a = "ok"
              BY <2>7, <4>1, <5>1, <6>1 DEF CursorAfter
            <6>2. CASE a = "missing"
              <7>1. Verdict(backend, store, dirs, call.cursor, r) = "missing" /\ r.verb /= "await"
                BY <2>3, <2>7, <6>2, AnswersMean DEF OfFile
              <7>2. r.path \notin dirs /\ backend \in Hierarchical
                BY <2>7, <7>1 DEF Verdict
              <7>3. call.cursor = 0
                BY <2>2, <7>2 DEF ListingInv
              <7> QED BY <5>1, <6>2, <7>3
            <6> QED BY <4>5, <6>1, <6>2
          <5>3. \A n \in call'.since : DirOf(backend', n) \in Gone(backend', call'.path, call'.pc) => n \in call'.listed
            BY <2>3, <2>4, <4>2, <4>5, <5>1
          <5> QED BY <5>1, <5>2, <5>3 DEF ListingInv, Has
        <4>6. CASE /\ r.on[a] = "ok" \/ (r.on[a] = "next" /\ call.pc = Len(Program))
                   /\ Wanted(backend, call.path) \subseteq Covered(backend, call.path, call.pc, r, a)
          <5>1. call'.result = "ok"
            BY <2>7, <4>1, <4>6 DEF Reaches, Target
          <5>2. \A n \in call'.since : DirOf(backend', n) \in Wanted(backend', call'.path) => n \in call'.listed
            BY <2>3, <2>4, <4>2, <4>6
          <5> QED BY <5>1, <5>2 DEF ListingInv, Has
        <4> QED BY <4>3, <4>4, <4>5, <4>6
      <3> QED BY <3>1, <3>2
    <2> QED BY <2>3, <2>10, <2>11, <2>12 DEF Moves
  <1>6. ASSUME NEW op, Other(op) PROVE ListingInv'
    <2>1. SamePlace(call', call) /\ call'.op = call.op /\ call'.path = call.path /\ call'.to = call.to
          /\ call'.since \subseteq call.since /\ backend' = backend
      BY <1>6, OtherCall
    <2>2. dirs \subseteq dirs'
      BY <1>6, OtherStacks DEF TypeInv, Stacks, Versions
    <2> QED BY <1>3, <2>1, <2>2
  <1>7. ASSUME UNCHANGED <<backend, dirs, call>> PROVE ListingInv'
    BY <1>3, <1>7 DEF SamePlace
  <1>8. ASSUME NEW t, LoseToken(t) PROVE ListingInv'
    BY <1>7, <1>8 DEF LoseToken
  <1>9. CASE UNCHANGED vars
    BY <1>7, <1>9 DEF vars
  <1> QED BY <1>1, <1>4, <1>5, <1>6, <1>8, <1>9, Zenon DEF Next

-----------------------------------------------------------------------------
(* The content of the chunk. *)

(* The files st have it, under one of the names.                           *)
HasContent(b, st) == IF b = "b2" THEN \E i \in DOMAIN st["chunk"] : st["chunk"][i] = "data"
                     ELSE st["chunk"] /= <<>> \/ st["fossil"] /= <<>>

LEMMA StoredIs == Stored <=> HasContent(backend, store)
  BY Zenon DEF Stored, HasContent

(* A version more on top. *)
LEMMA TopKeeps ==
  ASSUME NEW v \in Versions, NEW s \in Seq(Versions), v = "data" \/ \E i \in DOMAIN s : s[i] = "data"
  PROVE  \E i \in DOMAIN (<<v>> \o s) : (<<v>> \o s)[i] = "data"
  <1> DEFINE t == <<v>> \o s
  <1>1. t \in Seq(Versions) /\ t /= << >> /\ Head(t) = v /\ Len(t) = Len(s) + 1
        /\ \A i \in 1..Len(s) : t[i + 1] = s[i]
    BY OnTop
  <1> HIDE DEF t
  <1>2. CASE v = "data"
    <2>1. 1 \in DOMAIN t /\ t[1] = "data"
      BY <1>1, <1>2
    <2> QED BY <2>1 DEF t
  <1>3. ASSUME NEW i \in DOMAIN s, s[i] = "data" PROVE \E j \in DOMAIN t : t[j] = "data"
    <2>1. i \in 1..Len(s) /\ i + 1 \in DOMAIN t
      BY <1>1, <1>3
    <2> QED BY <1>1, <1>3, <2>1
  <1> QED BY <1>2, <1>3 DEF t

(* A marker less. *)
LEMMA MarkerGoneKeeps ==
  ASSUME NEW s \in Seq(Versions), NEW k \in 1..Len(s), s[k] = "hide", \E i \in DOMAIN s : s[i] = "data"
  PROVE  \E i \in DOMAIN RemoveAt(s, k) : RemoveAt(s, k)[i] = "data"
  <1> DEFINE t == RemoveAt(s, k)
  <1>1. t \in Seq(Versions) /\ Len(t) = Len(s) - 1
        /\ \A j \in 1..(Len(s) - 1) : t[j] = IF j < k THEN s[j] ELSE s[j + 1]
    BY RemoveAtIn
  <1>2. PICK i \in DOMAIN s : s[i] = "data"
    OBVIOUS
  <1> HIDE DEF t
  <1>3. i \in 1..Len(s) /\ i /= k /\ DOMAIN t = 1..(Len(s) - 1)
    BY <1>1, <1>2
  <1>4. CASE i < k
    <2>1. i \in 1..(Len(s) - 1) /\ t[i] = "data"
      BY <1>1, <1>2, <1>3, <1>4
    <2> QED BY <1>3, <2>1 DEF t
  <1>5. CASE i > k
    <2>1. i - 1 \in 1..(Len(s) - 1) /\ ~(i - 1 < k) /\ (i - 1) + 1 = i
      BY <1>3, <1>5
    <2>2. t[i - 1] = "data"
      BY <1>1, <1>2, <2>1
    <2> QED BY <1>3, <2>1, <2>2 DEF t
  <1>6. i < k \/ i > k
    BY <1>3
  <1> QED BY <1>4, <1>5, <1>6

(* A file that is stored brings the content, or leaves it.                 *)
LEMMA StoreKeeps ==
  ASSUME NEW b, NEW st \in Stacks, NEW n \in {"chunk", "fossil", "temp"}, b = "b2" => n /= "fossil",
         n = "temp" => HasContent(b, st)
  PROVE  HasContent(b, Store(b, st, n))
  <1>1. n \in Names /\ "chunk" \in Names /\ "fossil" \in Names /\ st["chunk"] \in Seq(Versions)
    BY NamesAre DEF Stacks
  <1>2. Store(b, st, n)[n] /= << >> /\ \A m \in Names \ {n} : Store(b, st, n)[m] = st[m]
    BY <1>1, StoreHas
  <1>3. CASE b /= "b2"
    BY <1>1, <1>2, <1>3 DEF HasContent
  <1>4. CASE b = "b2" /\ n = "temp"
    <2>1. Store(b, st, n)["chunk"] = st["chunk"]
      BY <1>1, <1>2, <1>4
    <2> QED BY <1>4, <2>1 DEF HasContent
  <1>5. CASE b = "b2" /\ n = "chunk"
    <2> DEFINE s == <<"data">> \o st["chunk"]
    <2>1. \E i \in DOMAIN s : s[i] = "data"
      BY <1>1, TopKeeps DEF Versions
    <2>2. Store(b, st, n) = [st EXCEPT !["chunk"] = s]
      BY <1>5 DEF Store
    <2> HIDE DEF s
    <2>3. Store(b, st, n)["chunk"] = s
      BY <1>1, <2>2 DEF Stacks
    <2> QED BY <1>5, <2>1, <2>3 DEF HasContent
  <1> QED BY <1>3, <1>4, <1>5

(* No request takes the content away but one that removes versions: and of *)
(* these, not one that takes a marker off, or a copy that there is another of. *)
LEMMA AppliedKeeps ==
  ASSUME NEW b, NEW st \in Stacks, NEW ds, NEW k, NEW r, Addressed(b, r), Verdict(b, st, ds, k, r) = "ok",
         HasContent(b, st), r.verb \notin {"drop", "purge"},
         r.verb = "delete" => \/ r.path = "temp"
                              \/ b /= "b2" /\ \E q \in {"chunk", "fossil"} \ {r.path} : st[q] /= << >>
  PROVE  HasContent(b, Applied(b, st, k, r))
  <1>0. st["chunk"] \in Seq(Versions) /\ "chunk" \in Names /\ "fossil" \in Names
    BY NamesAre DEF Stacks
  <1>1. CASE r.verb = "put"
    <2>1. r.path \in {"chunk", "temp"} /\ Applied(b, st, k, r) = Store(b, st, r.path)
      BY <1>1 DEF Addressed, Applied
    <2> QED BY <2>1, StoreKeeps
  <1>2. CASE r.verb = "copy"
    <2>1. r.to \in {"chunk", "fossil"} /\ b /= "b2" /\ Applied(b, st, k, r) = Store(b, st, r.to)
      BY <1>2 DEF Addressed, Applied
    <2> QED BY <2>1, StoreKeeps
  <1>3. CASE r.verb = "rename"
    <2>1. r.path \in Names /\ r.to \in {"chunk", "fossil"} /\ b /= "b2"
      BY <1>3, NamesAre DEF Addressed
    <2> DEFINE x == [st EXCEPT ![r.path] = Tail(@)]
    <2>2. st[r.path] /= << >>
      BY <1>3, <2>1, PresentElsewhere DEF Verdict
    <2>3. x \in Stacks
      BY <2>1, <2>2 DEF Stacks
    <2>4. Applied(b, st, k, r) = Store(b, x, r.to)
      BY <1>3 DEF Applied
    <2> HIDE DEF x
    <2> QED BY <2>1, <2>3, <2>4, StoreKeeps
  <1>4. CASE r.verb = "hide"
    <2> DEFINE s == <<"hide">> \o st["chunk"]
    <2>1. b = "b2" /\ Applied(b, st, k, r) = [st EXCEPT !["chunk"] = s]
      BY <1>4 DEF Addressed, Applied
    <2>2. \E i \in DOMAIN s : s[i] = "data"
      BY <1>0, <2>1, TopKeeps DEF Versions, HasContent
    <2> HIDE DEF s
    <2>3. Applied(b, st, k, r)["chunk"] = s
      BY <1>0, <2>1 DEF Stacks
    <2> QED BY <2>1, <2>2, <2>3 DEF HasContent
  <1>5. CASE r.verb = "unhide"
    <2> DEFINE l == Len(st["chunk"]) + 1 - k
               s == RemoveAt(st["chunk"], l)
    <2>1. b = "b2" /\ r.path = "chunk" /\ Applied(b, st, k, r) = [st EXCEPT !["chunk"] = s]
      BY <1>5 DEF Addressed, Applied
    <2>2. k \in 1..Len(st["chunk"]) /\ st["chunk"][l] = "hide"
      BY <1>5, <2>1 DEF Verdict
    <2>3. l \in 1..Len(st["chunk"])
      BY <1>0, <2>2
    <2> HIDE DEF l
    <2>4. \E i \in DOMAIN s : s[i] = "data"
      BY <1>0, <2>1, <2>2, <2>3, MarkerGoneKeeps DEF HasContent
    <2> HIDE DEF s
    <2>5. Applied(b, st, k, r)["chunk"] = s
      BY <1>0, <2>1 DEF Stacks
    <2> QED BY <2>1, <2>4, <2>5 DEF HasContent
  <1>6. CASE r.verb = "delete"
    <2>1. r.path \in {"chunk", "fossil", "temp"} /\ r.path \in Names
      BY <1>6, NamesAre DEF Addressed
    <2>2. \A m \in Names \ {r.path} : Applied(b, st, k, r)[m] = st[m]
      BY <1>6, <2>1 DEF Applied, Stacks
    <2>3. CASE r.path = "temp"
      <3>1. Applied(b, st, k, r)["chunk"] = st["chunk"] /\ Applied(b, st, k, r)["fossil"] = st["fossil"]
        BY <1>0, <2>2, <2>3
      <3> QED BY <3>1 DEF HasContent
    <2>4. ASSUME b /= "b2", NEW q \in {"chunk", "fossil"} \ {r.path}, st[q] /= << >>
          PROVE  HasContent(b, Applied(b, st, k, r))
      <3>1. Applied(b, st, k, r)[q] /= << >>
        BY <1>0, <2>2, <2>4
      <3> QED BY <2>4, <3>1 DEF HasContent
    <2> QED BY <1>6, <2>3, <2>4
  <1>7. CASE r.verb \notin {"put", "copy", "delete", "rename", "hide", "drop", "purge", "unhide"}
    BY <1>7 DEF Applied
  <1> QED BY <1>1, <1>2, <1>3, <1>4, <1>5, <1>6, <1>7

(* Other computers move it, or bring it back.                              *)
LEMMA OtherKeeps ==
  ASSUME store \in Stacks, HasContent(backend, store), NEW op, Other(op)
  PROVE  HasContent(backend, store')
  <1>0. store["chunk"] \in Seq(Versions) /\ store["fossil"] \in Seq(Versions) /\ "chunk" \in Names /\ "fossil" \in Names
    BY NamesAre DEF Stacks
  <1>1. CASE store' = Store(backend, store, "chunk")
    BY <1>1, StoreKeeps
  <1>2. CASE backend = "b2" /\ store' = [store EXCEPT !["chunk"] = <<"hide">> \o @]
    <2> DEFINE s == <<"hide">> \o store["chunk"]
    <2>1. \E i \in DOMAIN s : s[i] = "data"
      BY <1>0, <1>2, TopKeeps DEF Versions, HasContent
    <2>2. store' = [store EXCEPT !["chunk"] = s]
      BY <1>2
    <2> HIDE DEF s
    <2>3. store'["chunk"] = s
      BY <1>0, <2>2 DEF Stacks
    <2> QED BY <1>2, <2>1, <2>3 DEF HasContent
  <1>3. CASE backend = "b2" /\ Present(backend, store, "fossil") /\ store' = [store EXCEPT !["chunk"] = Tail(@)]
    <2> DEFINE s == store["chunk"]
    <2>1. s /= << >> /\ Head(s) = "hide" /\ s \in Seq(Versions)
      BY <1>0, <1>3 DEF Present
    <2>2. store'["chunk"] = Tail(s)
      BY <1>0, <1>3 DEF Stacks
    <2>3. PICK i \in DOMAIN s : s[i] = "data"
      BY <1>3 DEF HasContent
    <2> HIDE DEF s
    <2>4. i \in 2..Len(s)
      BY <2>1, <2>3
    <2>5. i - 1 \in DOMAIN Tail(s) /\ Tail(s)[i - 1] = "data"
      BY <2>1, <2>3, <2>4
    <2> QED BY <1>3, <2>2, <2>5 DEF HasContent
  <1>4. ASSUME NEW n \in {"chunk", "fossil"}, NEW m \in {"chunk", "fossil"}, backend /= "b2", Present(backend, store, n),
               store' = Store(backend, [store EXCEPT ![n] = Tail(@)], m)
        PROVE  HasContent(backend, store')
    <2> DEFINE x == [store EXCEPT ![n] = Tail(@)]
    <2>1. store[n] /= << >>
      BY <1>4, PresentElsewhere
    <2>2. x \in Stacks
      BY <1>0, <2>1 DEF Stacks
    <2>3. store' = Store(backend, x, m)
      BY <1>4
    <2> HIDE DEF x
    <2> QED BY <1>4, <2>2, <2>3, StoreKeeps
  <1> QED BY <1>1, <1>2, <1>3, <1>4 DEF Other

(* What is under way of a MoveFile that copies. *)
Copies == call.op = "move" /\ backend \in CopyAndDelete

LEMMA CopyRequest ==
  ASSUME TypeInv, call.result = "none", Copies
  PROVE  /\ Midway /\ Len(Program) = 2 /\ call.pc \in {1, 2} /\ Current.from = 0
         /\ call.to \in {"chunk", "fossil"} /\ call.path \in {"chunk", "fossil"} /\ call.path /= call.to
         /\ call.pc = 1 => /\ Current.verb = "copy" /\ Current.to = call.to /\ Current.unless = "none"
                           /\ \A a \in Answers : Current.on[a] /= "jump" /\ (Current.on[a] = "next" => a = "ok")
         /\ call.pc = 2 => Current.verb = "delete" /\ Current.path \in {"temp", call.path}
         /\ backend /= "b2"
  <1>1. Midway /\ Asked \in Calls /\ SoundRequest(backend, call.op, call.path, call.to, Len(Program), call.pc, Current)
    BY UnderWay
  <1>2. Len(Program) = 2
    BY <1>1, ProgramIsSound DEF Sound, Copies, TypeInv
  <1>3. call.pc \in {1, 2}
    BY <1>1, <1>2 DEF Midway
  <1>4. Asked.op = call.op /\ Asked.path = call.path /\ Asked.to = call.to
    BY DEF Asked
  <1>5. \/ call.path = "chunk" /\ call.to = "fossil"
        \/ call.path = "fossil" /\ call.to = "chunk"
    BY <1>1, <1>4, CallsOf DEF Copies
  <1>6. RemovesLast(backend, call.op, call.path, call.to, call.pc, Current)
    BY <1>1 DEF SoundRequest
  <1>7. backend /= "b2"
    BY DEF Copies, CopyAndDelete
  <1>8. Current.from = 0
        /\ (call.pc = 1 => /\ Current.verb = "copy" /\ Current.to = call.to /\ Current.unless = "none"
                           /\ \A a \in Answers : Current.on[a] /= "jump" /\ (Current.on[a] = "next" => a = "ok"))
        /\ (call.pc = 2 => Current.verb = "delete" /\ Current.path \in {"temp", call.path})
    BY <1>6 DEF RemovesLast, Copies
  <1> QED BY <1>1, <1>2, <1>3, <1>5, <1>7, <1>8

LEMMA CopiedStep ==
  ASSUME TypeInv, CopiedInv, [Next]_vars
  PROVE  CopiedInv'
  <1>1. ASSUME NEW c \in Calls, Start(c) PROVE CopiedInv'
    <2>1. call'.pc = 1
      BY <1>1, StartCall
    <2> QED BY <2>1 DEF CopiedInv
  <1>2. CASE Skip
    <2>1. Same(call', call) /\ Current.unless /= "none" /\ backend' = backend /\ call.result = "none"
          /\ Reaches(call', "next", call.cursor)
      BY <1>2, SkipCall DEF Skip
    <2> SUFFICES ASSUME Copies PROVE CopiedInv'
      BY <2>1 DEF CopiedInv, Copies, Same
    <2>2. Len(Program) = 2 /\ call.pc = 2
      BY <2>1, CopyRequest
    <2>3. call'.result = "ok"
      BY <2>1, <2>2 DEF Reaches, Target
    <2> QED BY <2>3 DEF CopiedInv
  <1>3. CASE Serve
    <2>1. PICK a \in Answers : Arrives(a)
      BY <1>3, ServeCall
    <2> DEFINE r == Current
    <2>2. Moves(call', r, a) /\ Sees(call', call, store') /\ backend' = backend /\ a \in PossibleAnswers(r)
      BY <2>1 DEF Arrives
    <2>3. call.result = "none" /\ Same(call', call)
      BY <1>3, <2>2, ServeCall DEF Sees
    <2> SUFFICES ASSUME Copies, call'.result = "none", call'.pc = 2, ~call'.raced PROVE store'[call.to] /= << >>
      BY <2>2, <2>3 DEF CopiedInv, Copies, Same
    <2>4. /\ Midway /\ Len(Program) = 2 /\ call.pc \in {1, 2} /\ r.from = 0 /\ call.to \in Names /\ backend /= "b2"
          /\ call.path /= call.to /\ call.to /= "temp"
          /\ call.pc = 1 => /\ r.verb = "copy" /\ r.to = call.to
                            /\ \A b \in Answers : r.on[b] /= "jump" /\ (r.on[b] = "next" => b = "ok")
          /\ call.pc = 2 => r.verb = "delete" /\ r.path \in {"temp", call.path}
      BY <2>3, CopyRequest, NamesAre
    <2>5. store \in Stacks
      BY DEF TypeInv, Stacks, Versions
    <2>6. CASE call.pc = 1
      <3>1. OutcomeOf(r, a) = r.on[a] /\ ~MoreToCome(r, Page(r))
        BY <2>4, <2>6 DEF OutcomeOf, MoreToCome
      <3>2. r.on[a] \in {"next", "jump", "ok", "error", "absent", "panic", "hung"}
        BY <2>4 DEF Midway, Leads
      <3>3. r.on[a] = "next"
        BY <2>2, <2>4, <2>6, <3>1, <3>2 DEF Moves, Repeats, Continues, Finishes, Reaches
      <3>4. a = "ok"
        BY <2>4, <2>6, <3>3
      <3>5. store' = Store(backend, store, call.to)
        BY <2>1, <2>4, <2>6, <3>4 DEF Arrives, Applied
      <3> QED BY <2>4, <2>5, <3>5, StoreHas
    <2>7. CASE call.pc = 2
      <3>1. store[call.to] /= << >>
        BY <2>3, <2>7 DEF CopiedInv, Copies, Same
      <3>2. store' = store \/ store' = Applied(backend, store, call.cursor, r)
        BY <2>1 DEF Arrives
      <3>3. Applied(backend, store, call.cursor, r)[call.to] = store[call.to]
        BY <2>4, <2>5, <2>7 DEF Applied, Stacks
      <3> QED BY <3>1, <3>2, <3>3
    <2> QED BY <2>4, <2>6, <2>7
  <1>4. ASSUME NEW op, Other(op) PROVE CopiedInv'
    <2>1. SamePlace(call', call) /\ call'.op = call.op /\ call'.path = call.path /\ call'.to = call.to /\ backend' = backend
      BY <1>4, OtherCall
    <2>2. call'.raced = (call.raced \/ op /= "upload")
      BY <1>4, OtherCall, Zenon
    <2> SUFFICES ASSUME Copies, call.result = "none", call.pc = 2, ~call'.raced PROVE store'[call.to] /= << >>
      BY <2>1 DEF CopiedInv, Copies, SamePlace
    <2>3. ~call.raced /\ op = "upload"
      BY <2>2, Zenon
    <2>4. store[call.to] /= << >>
      BY <2>3 DEF CopiedInv, Copies
    <2>5. store' = Store(backend, store, "chunk")
      BY <1>4, <2>3 DEF Other
    <2>6. store \in Stacks /\ call.to \in Names /\ "chunk" \in Names
      BY CopyRequest, NamesAre DEF TypeInv, Stacks, Versions
    <2>7. store'["chunk"] /= << >> /\ \A m \in Names \ {"chunk"} : store'[m] = store[m]
      BY <2>5, <2>6, StoreHas
    <2> QED BY <2>4, <2>6, <2>7
  <1>5. ASSUME UNCHANGED <<backend, store, call>> PROVE CopiedInv'
    BY <1>5 DEF CopiedInv
  <1>6. ASSUME NEW t, LoseToken(t) PROVE CopiedInv'
    BY <1>5, <1>6 DEF LoseToken
  <1>7. CASE UNCHANGED vars
    BY <1>5, <1>7 DEF vars
  <1> QED BY <1>1, <1>2, <1>3, <1>4, <1>6, <1>7, Zenon DEF Next

(* No step takes the content away but one of DeleteFile, or of a MoveFile  *)
(* that another computer overtook.                                         *)
LEMMA KeptStep ==
  ASSUME TypeInv, CopiedInv, [Next]_vars, Stored, ~Stored'
  PROVE  call.op = "delete" \/ (call.raced /\ backend \in CopyAndDelete)
  <1>1. store \in Stacks /\ HasContent(backend, store)
    BY StoredIs DEF TypeInv, Stacks, Versions
  <1>2. Stored' <=> HasContent(backend', store')
    BY Zenon DEF Stored, HasContent
  <1>3. ASSUME UNCHANGED <<backend, store>> PROVE FALSE
    BY <1>1, <1>2, <1>3
  <1>4. ASSUME NEW c \in Calls, Start(c) PROVE FALSE
    BY <1>3, <1>4 DEF Start
  <1>5. CASE Skip
    BY <1>3, <1>5 DEF Skip
  <1>6. ASSUME NEW t, LoseToken(t) PROVE FALSE
    BY <1>3, <1>6 DEF LoseToken
  <1>7. ASSUME NEW op, Other(op) PROVE FALSE
    <2>1. backend' = backend
      BY <1>7 DEF Other
    <2> QED BY <1>1, <1>2, <1>7, <2>1, OtherKeeps
  <1>8. CASE UNCHANGED vars
    BY <1>3, <1>8 DEF vars
  <1>9. CASE Serve
    <2> SUFFICES ASSUME call.op /= "delete", ~(call.raced /\ backend \in CopyAndDelete) PROVE FALSE
      BY Zenon
    <2>1. PICK a \in Answers : Arrives(a)
      BY <1>9, ServeCall
    <2> DEFINE r == Current
    <2>2. backend' = backend /\ a \in PossibleAnswers(r)
          /\ store' = IF a \in {"ok", "lost"} THEN Applied(backend, store, call.cursor, r) ELSE store
      BY <2>1 DEF Arrives
    <2>3. a \in {"ok", "lost"} /\ store' = Applied(backend, store, call.cursor, r)
      BY <1>3, <2>2
    <2>4. Verdict(backend, store, dirs, call.cursor, r) = "ok"
      BY <2>2, <2>3, AnswersMean
    <2>5. call.result = "none"
      BY <1>9, ServeCall
    <2>6. Addressed(backend, r) /\ RemovesLast(backend, call.op, call.path, call.to, call.pc, r)
      BY <2>5, UnderWay DEF SoundRequest
    <2>7. r.verb \notin {"drop", "purge"}
      BY <2>6 DEF RemovesLast
    <2>8. ASSUME r.verb = "delete", r.path /= "temp"
          PROVE  backend /= "b2" /\ \E q \in {"chunk", "fossil"} \ {r.path} : store[q] /= << >>
      <3>1. Copies /\ call.pc = 2 /\ r.path = call.path
        BY <2>6, <2>8 DEF RemovesLast, Copies
      <3>2. backend /= "b2" /\ call.to \in {"chunk", "fossil"} /\ call.path /= call.to
        BY <2>5, <3>1, CopyRequest
      <3>3. store[call.to] /= << >>
        BY <2>5, <3>1 DEF CopiedInv, Copies
      <3> QED BY <3>1, <3>2, <3>3
    <2> HIDE DEF r
    <2>9. HasContent(backend, store')
      BY <1>1, <2>3, <2>4, <2>6, <2>7, <2>8, AppliedKeeps
    <2> QED BY <1>2, <2>2, <2>9
  <1> QED BY <1>4, <1>5, <1>6, <1>7, <1>8, <1>9, Zenon DEF Next

-----------------------------------------------------------------------------
(* The inductive invariant holds, and what it gives. *)

LEMMA InitInv ==
  ASSUME Init
  PROVE  Inv
  <1>1. PICK n \in {"chunk", "fossil", "none"} :
          /\ store = [m \in Names |-> IF m \in {"rev1", "rev2", "id1", "id2"} THEN <<"data">>
                                      ELSE IF n = "fossil" /\ backend = "b2" /\ m = "chunk" THEN <<"hide", "data">>
                                      ELSE IF m = n /\ ~(backend = "b2" /\ n = "fossil") THEN <<"data">> ELSE <<>>]
          /\ dirs \in {Dirs, Dirs \ {"fossils", "chunks"}}
          /\ n /= "none" => DirOf(backend, n) \in dirs
    BY DEF Init
  <1> DEFINE c == Running([op |-> "none", path |-> "none", to |-> "none"], NoFile)
             d == [c EXCEPT !.result = "ok"]
  <1>2. backend \in Backends /\ known = {} /\ call = d
    BY DEF Init
  <1>3. c = [op |-> "none", path |-> "none", to |-> "none", pc |-> 1, tries |-> 0, cursor |-> 0, listed |-> {},
             result |-> "none", since |-> PresentIn(backend, NoFile), ever |-> PresentIn(backend, NoFile), raced |-> FALSE,
             twice |-> HiddenTwice(NoFile)]
    BY DEF Running
  <1>4. IsCall(c) /\ c.op = "none" /\ c.since = PresentIn(backend, NoFile)
    <2> HIDE DEF c
    <2> QED BY <1>3, Zenon DEF IsCall
  <1> HIDE DEF c
  <1>5. IsCall(d) /\ Same(d, c) /\ SameSeen(d, c) /\ d.result = "ok"
    BY <1>4, SetResult
  <1>6. IsCall(call) /\ call.op = "none" /\ call.result = "ok" /\ call.since = PresentIn(backend, NoFile)
    BY <1>2, <1>4, <1>5 DEF Same, SameSeen
  <1>7. store \in [Names -> Seq({"data", "hide"})]
    <2>1. <<"data">> \in Seq({"data", "hide"}) /\ <<"hide", "data">> \in Seq({"data", "hide"}) /\ << >> \in Seq({"data", "hide"})
      OBVIOUS
    <2> QED BY <1>1, <2>1
  <1>8. TypeInv
    <2>1. dirs \subseteq Dirs /\ {"revisions", "ids"} \subseteq dirs
      BY <1>1 DEF Dirs
    <2> QED BY <1>2, <1>6, <1>7, <2>1 DEF TypeInv
  <1>9. SeenInv
    <2>1. \A m \in Names : NoFile[m] = << >>
      BY DEF NoFile
    <2>2. PresentIn(backend, NoFile) = {}
      BY <2>1, NamesAre DEF PresentIn, Present
    <2> QED BY <1>6, <2>2 DEF SeenInv
  <1>10. DirInv
    <2> SUFFICES ASSUME backend \in StoresInDirs, NEW m \in Names, Present(backend, store, m)
                 PROVE  DirOf(backend, m) \in dirs
      BY DEF DirInv, PresentIn
    <2>1. backend /= "b2"
      BY DEF StoresInDirs
    <2>2. store[m] /= << >>
      BY <2>1, PresentElsewhere
    <2>3. m \in {"rev1", "rev2", "id1", "id2"} \/ m = n
      BY <1>1, <2>1, <2>2
    <2>4. CASE m \in {"rev1", "rev2", "id1", "id2"}
      BY <1>1, <2>4 DEF DirOf, Dirs
    <2>5. CASE m = n
      BY <1>1, <2>5, NamesAre
    <2> QED BY <2>3, <2>4, <2>5
  <1>11. AbsentInv /\ DeliveredInv /\ UnhiddenInv /\ ListingInv /\ CopiedInv
    BY <1>6 DEF AbsentInv, DeliveredInv, UnhiddenInv, ListingInv, CopiedInv
  <1> QED BY <1>8, <1>9, <1>10, <1>11 DEF Inv

LEMMA StepInv ==
  ASSUME Inv, [Next]_vars
  PROVE  Inv'
  <1>1. TypeInv /\ SeenInv /\ DirInv /\ AbsentInv /\ DeliveredInv /\ UnhiddenInv /\ ListingInv /\ CopiedInv
    BY DEF Inv
  <1>2. TypeInv' /\ SeenInv' /\ DirInv'
    BY <1>1, TypeStep, SeenStep, DirStep
  <1>3. AbsentInv' /\ DeliveredInv' /\ UnhiddenInv'
    BY <1>1, AbsentStep, DeliveredStep, UnhiddenStep
  <1>4. ListingInv' /\ CopiedInv'
    BY <1>1, ListingStep, CopiedStep
  <1> QED BY <1>2, <1>3, <1>4 DEF Inv

LEMMA InvAlways == Spec => []Inv
  <1>1. Init => Inv
    BY InitInv
  <1>2. Inv /\ [Next]_vars => Inv'
    BY StepInv
  <1> QED BY <1>1, <1>2, PTL DEF Spec

(* On every storage but Google Cloud Storage, UploadFile returns nil only  *)
(* when the file was there at some time of the call, whatever requests were *)
(* dropped, sent again or answered in vain.                                *)
THEOREM UploadedAlwaysStored == Spec => []UploadedIsStored
  <1>1. Inv => UploadedIsStored
    BY DEF Inv, DeliveredInv, Delivers, Destination, UploadedIsStored
  <1> QED BY <1>1, InvAlways, PTL

(* On every storage but the four that drop an error of it, MoveFile returns *)
(* nil only when the file was at its destination at some time of the call, *)
(* or nothing is left of it, or, on B2, it was under two markers.          *)
THEOREM MovedAlwaysThere == Spec => []MovedIsThere
  <1>1. ASSUME Inv PROVE MovedIsThere
    <2> SUFFICES ASSUME call.op = "move", call.result = "ok", backend \notin {"s3c", "filefabric", "onedrive", "onebusiness"}
                 PROVE  call.to \in call.ever \/ ~Stored \/ call.twice
      BY DEF MovedIsThere
    <2>1. CASE backend = "b2" /\ call.to = "chunk"
      <3>1. "chunk" \in call.ever \/ call.twice \/ store["chunk"] = << >>
        BY <1>1, <2>1 DEF Inv, UnhiddenInv
      <3>2. store["chunk"] = << >> => ~Stored
        BY <2>1 DEF Stored
      <3> QED BY <2>1, <3>1, <3>2
    <2>2. CASE ~(backend = "b2" /\ call.to = "chunk")
      BY <1>1, <2>2 DEF Inv, DeliveredInv, Delivers, Destination
    <2> QED BY <2>1, <2>2
  <1> QED BY <1>1, InvAlways, PTL

(* GetFileInfo reports a file missing only if it was at some time of the    *)
(* call, on the storages where neither another answer is taken for that nor *)
(* the service says so of a file that exists.                              *)
THEOREM AbsentAlwaysTrue == Spec => []AbsentIsTrue
  <1>1. Inv => AbsentIsTrue
    BY DEF Inv, AbsentInv, AbsentIsTrue, SureOfAbsence
  <1> QED BY <1>1, InvAlways, PTL

(* ListFiles, but for Storj's and those of S3's that look at one page only, *)
(* returns every file that was there from the first page to the last,       *)
(* however the other computer renamed files between the pages.             *)
THEOREM ListAlwaysComplete == Spec => []ListComplete
  <1>1. ASSUME Inv PROVE ListComplete
    <2> SUFFICES ASSUME call.op = "list", call.result = "ok", Lists(backend, call.path),
                        NEW n \in call.since, n /= "temp", DirOf("local", n) = call.path
                 PROVE  n \in call.listed
      BY DEF ListComplete, Lists
    <2>1. n \in Names
      BY <1>1 DEF Inv, SeenInv, PresentIn
    <2>2. DirOf(backend, n) \in Wanted(backend, call.path)
      BY <2>1, NamesAre DEF DirOf, Wanted, SeparateFossils
    <2> QED BY <1>1, <2>2 DEF Inv, ListingInv, Has
  <1> QED BY <1>1, InvAlways, PTL

(* A MoveFile that is repeated, or that copies and deletes, and an upload   *)
(* that is sent twice leave the content of the chunk in the storage: no     *)
(* step loses it but one of DeleteFile, or of a MoveFile by copying whose   *)
(* destination another computer moved meanwhile.                           *)
THEOREM ContentAlwaysKept == Spec => ContentKept
  <1> DEFINE Kept == Stored /\ ~Stored' => call.op = "delete" \/ (call.raced /\ backend \in CopyAndDelete)
  <1>1. Inv /\ [Next]_vars => [Kept]_vars
    <2>1. ASSUME Inv, [Next]_vars PROVE Kept
      BY <2>1, KeptStep DEF Inv
    <2> QED BY <2>1
  <1>2. Spec => [][Kept]_vars
    <2> HIDE DEF Kept
    <2> QED BY <1>1, InvAlways, PTL DEF Spec
  <1> QED BY <1>2 DEF ContentKept
=============================================================================
