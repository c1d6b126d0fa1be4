--------------------------- MODULE ObjectBackends ---------------------------
(***************************************************************************)
(* The object storages: S3 through the AWS library (also for Wasabi) and     *)
(* through goamz, Azure, Dropbox, Swift, Storj, Google Cloud Storage, and    *)
(* B2 with its own client.  Directories do not exist in them, and a rename   *)
(* is mostly a copy followed by a deletion.                                  *)
(***************************************************************************)
EXTENDS StorageService

NoRequest == << >>

S3ListFiles(d)    == << IF d = "ids" THEN ListFirst(d) ELSE ListPages(d) >>
S3DeleteFile(p)   == << Delete(p) >>
\* Mutant: the old name goes first.
S3MoveFileDeleteFirst(p, q) == S3DeleteFile(p) \o << Copy(p, q) >>
S3MoveFile(p, q)  == << Copy(p, q) >> \o S3DeleteFile(p)
S3CreateDirectory(d) == NoRequest
S3GetFileInfo(p)  == << On({"missing", "rejected"}, "absent", Stat(p)) >>
S3DownloadFile(p) == << Get(p) >>
S3UploadFile(p)   == << Retrying(4, {"damaged"}, Put(p)) >>

\* Wasabi renames with a request of its own and leaves the rest to S3.
WasabiMoveFile(p, q) == << Rename(p, q) >>

\* goamz repeats what failed in transit: CreateS3CStorage asks for 8 attempts.
S3CAttempts(r)     == Retrying(8, Transient, r)
S3CListFiles(d)    == << S3CAttempts(IF d = "chunks" THEN ListPages(d) ELSE ListFirst(d)) >>
S3CDeleteFile(p)   == << S3CAttempts(Delete(p)) >>
\* When the copy fails, MoveFile returns nil.
S3CMoveFile(p, q)  == << On(Answers \ {"ok"}, "ok", S3CAttempts(Copy(p, q))) >> \o S3CDeleteFile(p)
S3CCreateDirectory(d) == NoRequest
S3CGetFileInfo(p)  == << On({"missing", "rejected"}, "absent", S3CAttempts(Stat(p))) >>
S3CDownloadFile(p) == << S3CAttempts(Get(p)) >>
S3CUploadFile(p)   == << S3CAttempts(Put(p)) >>

\* Mutant: the marker of the next page is not followed.
AzureListFilesOnePage(d) == << ListFirst(d) >>
AzureListFiles(d)    == << ListPages(d) >>
AzureDeleteFile(p)   == << Delete(p) >>
AzureMoveFile(p, q)  == << Copy(p, q) >> \o AzureDeleteFile(p)
AzureCreateDirectory(d) == NoRequest
\* An error with 404 in its text, a request id's or the file's name, is a missing
\* file; here those that are "rejected" have it, and the others have not.
AzureGetFileInfo(p)  == << On({"missing", "rejected"}, "absent", Stat(p)) >>
AzureDownloadFile(p) == << Get(p) >>
\* The network error of an upload is a broken pipe.
AzureUploadFile(p)   == << Retrying(4, NetworkErrors, Put(p)) >>

DropboxListFiles(d)    == << On({"missing"}, "ok", ListPages(d)) >>
DropboxDeleteFile(p)   == << Ignoring({"missing"}, Delete(p)) >>
DropboxMoveFile(p, q)  == << Rename(p, q) >>
DropboxCreateDirectory(d) == << Ignoring({"taken"}, MkDir(d)) >>
DropboxGetFileInfo(p)  == << On({"missing"}, "absent", Stat(p)) >>
DropboxDownloadFile(p) == << Get(p) >>
DropboxUploadFile(p)   == << Put(p) >>

\* The library's connection is told to retry; its ObjectMove copies and deletes.
SwiftRetries(r)      == Retrying(4, Transient, r)
SwiftListFiles(d)    == << SwiftRetries(ListPages(d)) >>
SwiftDeleteFile(p)   == << SwiftRetries(Delete(p)) >>
SwiftMoveFile(p, q)  == << SwiftRetries(Copy(p, q)), SwiftRetries(Delete(p)) >>
SwiftCreateDirectory(d) == NoRequest
SwiftGetFileInfo(p)  == << On({"missing"}, "absent", SwiftRetries(Stat(p))) >>
SwiftDownloadFile(p) == << SwiftRetries(Get(p)) >>
SwiftUploadFile(p)   == << SwiftRetries(Put(p)) >>

\* A page that fails ends the loop over the objects, and the error is not looked at.
StorjListFiles(d)    == << On(Answers \ {"ok"}, "ok", ListPages(d)) >>
StorjDeleteFile(p)   == << Delete(p) >>
StorjMoveFile(p, q)  == << Rename(p, q) >>
StorjCreateDirectory(d) == NoRequest
\* An error comes without an object, and no object means no file.
StorjGetFileInfo(p)  == << On(Answers \ {"ok"}, "absent", Stat(p)) >>
StorjDownloadFile(p) == << Get(p) >>
StorjUploadFile(p)   == << Prepare, Put(p) >>

\* shouldRetry doubles the backoff from 1 until it reaches 256.
GCSShouldRetry(r)  == Retrying(9, Transient \union {"rejected"}, r)
GCSListFiles(d)    == << ListPages(d) >>
GCSDeleteFile(p)   == << Ignoring({"missing"}, Delete(p)) >>
\* Mutant: the copy may have failed.
GCSMoveFileUnchecked(p, q) == << IgnoringErrors(Copy(p, q)) >> \o GCSDeleteFile(p)
GCSMoveFile(p, q)  == << Copy(p, q) >> \o GCSDeleteFile(p)
GCSCreateDirectory(d) == NoRequest
GCSGetFileInfo(p)  == << On({"missing"}, "absent", Stat(p)) >>
GCSDownloadFile(p) == << Get(p) >>
\* What io.Copy writes is only stored when the writer is closed; that is
\* deferred, and its error is dropped.
GCSUploadFile(p)   == << GCSShouldRetry(Prepare), IgnoringErrors(Put(p)) >>

-----------------------------------------------------------------------------
\* B2Client.call: a missing file is an answer to HEAD only, and no error of a
\* listing, 403 is final, after 401 the account is authorized again, all else is
\* retried; a Retry-After header starts the count again.
B2MaximumRetries == 15
B2Call(r) ==
    [Retrying(B2MaximumRetries + 2,
              Answers \ ({"ok", "rejected"} \union IF r.verb \in {"stat", "newest", "marker"} THEN {"missing"} ELSE {}), r)
     EXCEPT !.refresh = TRUE, !.uncounted = {"unauthorized"}, !.resetting = {"busy"}]

\* B2Client: ListFileNames of a directory page by page, or of one file with or
\* without its versions.
B2ListFileNames(r) == B2Call(r)
B2ClientDeleteFile(r) == B2Call(r)
B2HideFile == B2Call(Hide)
B2ClientDownloadFile(p) == B2Call(Get(p))
\* Each thread keeps the URL it uploads to and asks for another before a retry.
B2GetUploadURL == UnlessCached("uploadurl", B2Call(Prepare))
B2ClientUploadFile(p) == << B2GetUploadURL, RetryFrom(1, B2Call(Put(p))) >>

B2ListFiles(d) == << B2ListFileNames(ListPages(d)) >>
\* A fossil goes with its hide marker and all the versions below it.
B2DeleteFile(p) ==
    IF p = "fossil" THEN << On({"missing"}, "ok", B2ListFileNames(FindMarker)), B2ClientDeleteFile(PurgeFound) >>
    ELSE << On({"missing"}, "ok", B2ListFileNames(FindNewest(p))), B2ClientDeleteFile(DropFound(p)) >>
\* To a fossil by hiding, and back by deleting the marker if it is on top.
B2MoveFile(p, q) ==
    IF q = "fossil" THEN << B2HideFile >>
    ELSE << On({"missing"}, "ok", B2ListFileNames(FindNewest("fossil"))), B2ClientDeleteFile(DropMarker) >>
B2CreateDirectory(d) == NoRequest
B2GetFileInfo(p) == << On({"missing"}, "absent", B2ListFileNames(Stat(p))) >>
B2DownloadFile(p) ==
    (IF p = "fossil" THEN << IgnoringErrors(B2ListFileNames(Prepare)) >> ELSE << >>) \o << B2ClientDownloadFile(p) >>
B2UploadFile(p) == B2ClientUploadFile(p)
=============================================================================
