--------------------------- MODULE StorageService ---------------------------
(***************************************************************************)
(* What a storage service keeps and how it treats one request, and the      *)
(* vocabulary in which the storage clients' operations are written.         *)
(*                                                                          *)
(* The services themselves are not in the repository: this module states    *)
(* what the clients in src/ take them to do.  A service keeps, for every    *)
(* name, a stack of versions.  Most services keep one; Google Drive may     *)
(* keep several files of one name; B2 keeps every version, and hides a      *)
(* file by putting a marker on top of it.                                   *)
(***************************************************************************)
EXTENDS Integers, Sequences, SequencesExt

\* The names of one chunk, its fossil and the temporary file of its upload,
\* two revisions of a snapshot and two snapshot ids, in the order of listing.
NameSeq == <<"chunk", "fossil", "temp", "rev1", "rev2", "id1", "id2">>
Names == {NameSeq[i] : i \in DOMAIN NameSeq}

\* The services whose fossils live in a directory of their own.
SeparateFossils == {"onedrive", "onebusiness", "acd", "gcd"}

DirOf(b, n) == CASE n \in {"chunk", "temp"} -> "chunks"
                 [] n = "fossil" -> IF b \in SeparateFossils THEN "fossils" ELSE "chunks"
                 [] n \in {"rev1", "rev2"} -> "revisions"
                 [] OTHER -> "ids"
Dirs == {"chunks", "fossils", "revisions", "ids"}

\* Services with real directories; nothing can be moved below a missing one,
\* and, except on OneDrive, nothing be stored there.
StoresInDirs == {"local", "sftp", "samba", "webdav", "filefabric", "acd", "gcd"}
Hierarchical == StoresInDirs \union {"onedrive", "onebusiness"}
\* Services that refuse to rename a file to a name that is taken; the others
\* replace the file there, except Google Drive, which then has both.
RefuseTaken == {"sftp", "samba", "dropbox", "storj", "onedrive", "onebusiness", "acd", "filefabric"}
KeepsAll == {"gcd"}
\* Services that report the deletion of a missing file as a success.
DeleteIsSilent == {"s3", "s3c", "wasabi", "azure", "storj"}
\* Services whose access token runs out, and Swift, whose requests all share
\* one context that ends 60 seconds after the storage was opened.
TokenServices == {"b2", "onedrive", "onebusiness", "hubic", "acd", "gcd", "swift"}

\* Is the file n there?  On B2 a fossil is a chunk under a hide marker.
Present(b, st, n) ==
    IF b = "b2" /\ n \in {"chunk", "fossil"}
    THEN st["chunk"] # <<>> /\ Head(st["chunk"]) = (IF n = "chunk" THEN "data" ELSE "hide")
    ELSE st[n] # <<>>

PresentIn(b, st) == {n \in Names : Present(b, st, n)}
NoFile == [n \in Names |-> <<>>]

-----------------------------------------------------------------------------
\* The answers a client can get.  "dropped" and "lost" are one and the same
\* network error to the client: the request was never applied, or it was
\* applied and the answer got lost.  "damaged" says that the content
\* arrived with another hash, "busy" is a 5xx or 429, "rejected" any other refusal.
Answers == {"ok", "missing", "taken", "nodir", "unauthorized", "busy", "rejected", "damaged",
            "dropped", "lost"}
NetworkErrors == {"dropped", "lost"}
\* Services that may say of a file that exists that it does not.
FalselyMissing == {"hubic", "webdav"}
\* What a client cannot tell apart from a service that is down for a moment.
Transient == {"busy"} \union NetworkErrors

\* One request of an operation.
\*   on        where an answer leads: "next", "jump" to request number target,
\*             or the operation's result: "ok", "error", "absent" (the file is
\*             reported not to exist), "panic" (a nil answer is dereferenced),
\*             "hung" (a goroutine waits for one that is gone)
\*   retried   the answers after which the request is sent again, at most
\*             attempts times in all, starting over at request from (0: this one)
\*   refresh   an "unauthorized" makes the client ask for a new token first
\*   uncounted, resetting   answers after which the client may send again without
\*             counting the attempt, or counting from 1
\*   unless    what the client remembers that makes the request unnecessary
Req(verb, path, to) ==
    [verb |-> verb, path |-> path, to |-> to, attempts |-> 1, retried |-> {}, from |-> 0,
     target |-> 0, refresh |-> FALSE, uncounted |-> {}, resetting |-> {}, unless |-> "none",
     on |-> [a \in Answers |-> IF a = "ok" THEN "next" ELSE "error"]]

Put(p)       == Req("put", p, p)
Get(p)       == Req("get", p, p)
Stat(p)      == Req("stat", p, p)
Delete(p)    == Req("delete", p, p)
Copy(p, q)   == Req("copy", p, q)
Rename(p, q) == Req("rename", p, q)
MkDir(d)     == Req("mkdir", d, d)
StatDir(d)   == Req("statdir", d, d)
\* A request that only prepares another: a connection, a token, a place to upload to.
Prepare      == Req("prepare", "none", "none")
\* No request at all: the operation gives up, or it waits for its goroutines,
\* one of which may be gone.
Fail         == Req("fail", "none", "none")
Await        == Req("await", "none", "none")
\* A request about a file without naming one.
NoFileId     == Req("noid", "none", "none")
\* A listing in one answer, one that is asked for page by page until the
\* service says there is no more, and the first page of one.
ListAll(d)   == Req("list", d, d)
ListPages(d) == Req("pages", d, d)
ListFirst(d) == Req("first", d, d)
\* B2: put a hide marker on the chunk; find its newest hide marker, or the newest
\* version, a file's or the marker of a fossil; delete the version or the marker that
\* was found, or it and all the older.  A version is found by its place from the oldest; a negative place
\* is that of a version this call has deleted already.
Hide         == Req("hide", "chunk", "chunk")
FindMarker   == Req("marker", "chunk", "chunk")
FindNewest(p) == Req("newest", p, "chunk")
DropFound(p) == Req("drop", p, p)
DropMarker   == Req("unhide", "chunk", "chunk")
PurgeFound   == Req("purge", "chunk", "chunk")

\* The request with other consequences of the answers in S.
On(S, outcome, r) == [r EXCEPT !.on = [a \in Answers |-> IF a \in S THEN outcome ELSE @[a]]]
Jump(S, i, r) == [On(S, "jump", r) EXCEPT !.target = i]
Ignoring(S, r) == On(S, "next", r)
IgnoringErrors(r) == On(Answers \ {"ok"}, "next", r)
UnlessCached(d, r) == [r EXCEPT !.unless = d]
RetryFrom(i, r) == [r EXCEPT !.from = i]
Retrying(n, S, r) == [r EXCEPT !.attempts = n, !.retried = S]

-----------------------------------------------------------------------------
\* What the service itself answers, faults apart.  On B2 a fossil is read by the
\* id of its newest version, whatever hides that.
Verdict(b, st, dirs, cursor, r) ==
    CASE r.verb = "stat" -> IF Present(b, st, r.path) THEN "ok" ELSE "missing"
      [] r.verb = "get" -> IF \/ Present(b, st, r.path)
                              \/ b = "b2" /\ r.path = "fossil" /\ Contains(st["chunk"], "data")
                           THEN "ok" ELSE "missing"
      [] r.verb = "delete" -> IF Present(b, st, r.path) \/ b \in DeleteIsSilent THEN "ok" ELSE "missing"
      [] r.verb = "put" -> IF b = "acd" /\ Present(b, st, r.path) THEN "taken"
                           ELSE IF b \in StoresInDirs /\ DirOf(b, r.path) \notin dirs THEN "nodir" ELSE "ok"
      [] r.verb = "copy" -> IF Present(b, st, r.path) THEN "ok" ELSE "missing"
      [] r.verb = "rename" -> IF ~Present(b, st, r.path) THEN "missing"
                              ELSE IF b \in Hierarchical /\ DirOf(b, r.to) \notin dirs THEN "nodir"
                              ELSE IF b \in RefuseTaken /\ Present(b, st, r.to) THEN "taken"
                              ELSE "ok"
      [] r.verb = "mkdir" -> IF r.path \in dirs THEN "taken" ELSE "ok"
      [] r.verb \in {"statdir", "list", "pages", "first"} ->
             IF r.path \in dirs \/ b \notin Hierarchical THEN "ok" ELSE "missing"
      [] r.verb = "hide" -> IF st["chunk"] = <<>> THEN "missing"
                            ELSE IF Head(st["chunk"]) = "hide" THEN "taken" ELSE "ok"
      [] r.verb = "marker" -> IF st["chunk"] = <<>> THEN "missing" ELSE "ok"
      [] r.verb = "newest" -> IF Present(b, st, r.path) THEN "ok" ELSE "missing"
      [] r.verb \in {"drop", "purge"} -> IF cursor \in 1..Len(st[r.path]) THEN "ok" ELSE "missing"
      [] r.verb = "unhide" -> IF cursor \in 1..Len(st[r.path]) /\ st[r.path][Len(st[r.path]) + 1 - cursor] = "hide"
                              THEN "ok" ELSE "missing"
      [] r.verb = "fail" -> "rejected"
      [] r.verb = "noid" -> "missing"
      [] OTHER -> "ok"

\* The files after the request was carried out.
Store(b, st, n) ==
    [st EXCEPT ![n] = IF b = "b2" THEN <<"data">> \o @
                      ELSE IF b \in KeepsAll THEN Append(@, "data") ELSE <<"data">>]

\* The position, counted from the oldest version, that FindMarker or FindNewest found.
Found(st, r) ==
    LET vs == st[r.to]
        hides == {i \in 1..Len(vs) : vs[i] = "hide"}
    IN  IF r.verb = "newest" THEN Len(vs)
        ELSE IF hides = {} THEN 0 ELSE Len(vs) + 1 - (CHOOSE i \in hides : \A j \in hides : i <= j)

Applied(b, st, cursor, r) ==
    CASE r.verb = "put"    -> Store(b, st, r.path)
      [] r.verb = "copy"   -> Store(b, st, r.to)
      [] r.verb = "delete" -> [st EXCEPT ![r.path] = IF @ = <<>> THEN @ ELSE Tail(@)]
      [] r.verb = "rename" -> Store(b, [st EXCEPT ![r.path] = Tail(@)], r.to)
      [] r.verb = "hide"   -> [st EXCEPT !["chunk"] = <<"hide">> \o @]
      [] r.verb \in {"drop", "purge", "unhide"} -> [st EXCEPT ![r.path] = RemoveAt(@, Len(@) + 1 - cursor)]
      [] OTHER -> st

\* The names a listing request returns when those up to cursor were returned
\* before: the rest of the directory, or a page of it.
PageSize == 1
Listed(b, st, r, cursor) ==
    LET rest == {i \in DOMAIN NameSeq : i > cursor /\ DirOf(b, NameSeq[i]) = r.path
                                       /\ Present(b, st, NameSeq[i])}
    IN  IF r.verb = "list" THEN rest ELSE {i \in rest : \A j \in rest : i <= j}
=============================================================================
