---------------------------- MODULE FileBackends ----------------------------
(***************************************************************************)
(* The storages that behave like a file system: a local disk, SFTP, Samba,  *)
(* WebDAV and File Fabric.  An operation of the Storage interface is the     *)
(* sequence of requests it makes, each with what its answers lead to.       *)
(***************************************************************************)
EXTENDS StorageService

\* Write a temporary file and rename it; when the rename fails but the file is
\* there, somebody else stored it, and only the temporary file is removed.
UploadByRename(b, p) ==
    << Jump({"ok"}, 3, On({"missing"}, "next", StatDir(DirOf(b, p)))),
       Ignoring({"taken"}, MkDir(DirOf(b, p))),
       Put("temp"),
       On(Answers \ {"ok"}, "next", On({"ok"}, "ok", Rename("temp", p))),
       Stat(p),
       IgnoringErrors(Delete("temp")) >>

LocalListFiles(d)     == << On({"missing"}, "ok", ListAll(d)) >>
LocalDeleteFile(p)    == << Ignoring({"missing"}, Delete(p)) >>
LocalMoveFile(p, q)   == << Rename(p, q) >>
LocalCreateDirectory(d) == << Ignoring({"taken"}, MkDir(d)) >>
LocalGetFileInfo(p)   == << On({"missing"}, "absent", Stat(p)) >>
LocalDownloadFile(p)  == << Get(p) >>
LocalUploadFile(p)    == UploadByRename("local", p)

SambaListFiles(d)     == << On({"missing"}, "ok", ListAll(d)) >>
SambaDeleteFile(p)    == << Ignoring({"missing"}, Delete(p)) >>
SambaMoveFile(p, q)   == << Rename(p, q) >>
SambaCreateDirectory(d) == << Ignoring({"taken"}, MkDir(d)) >>
SambaGetFileInfo(p)   == << On({"missing"}, "absent", Stat(p)) >>
SambaDownloadFile(p)  == << Get(p) >>
SambaUploadFile(p)    == UploadByRename("samba", p)

-----------------------------------------------------------------------------
\* A lost connection is opened again and the request repeated, numberOfTries times.
SFTPTries == 8
SFTPRetry(r) == Retrying(SFTPTries + 1, NetworkErrors, r)

SFTPListFiles(d)  == << On({"missing"}, "ok", SFTPRetry(ListAll(d))) >>
SFTPDeleteFile(p) == << On({"missing"}, "ok", SFTPRetry(Stat(p))), SFTPRetry(Delete(p)) >>
\* Whatever else goes wrong with the look at the destination is not an obstacle.
SFTPMoveFile(p, q) ==
    << On({"ok"}, "error", IgnoringErrors(SFTPRetry(Stat(q)))), SFTPRetry(Rename(p, q)) >>
SFTPCreateDirectory(d) ==
    << On({"ok"}, "ok", IgnoringErrors(SFTPRetry(StatDir(d)))), SFTPRetry(MkDir(d)) >>
\* Mutant: every error means that there is no such file.
SFTPGetFileInfoAnyError(p) == << On(Answers \ {"ok"}, "absent", SFTPRetry(Stat(p))) >>
SFTPGetFileInfo(p) == << On({"missing"}, "absent", SFTPRetry(Stat(p))) >>
SFTPDownloadFile(p) == << SFTPRetry(Get(p)) >>
\* The whole upload is one unit of retrying; errors of the directory's requests
\* are not looked at, so they do not start it over.
SFTPUploadFile(p) ==
    LET again(r) == RetryFrom(1, SFTPRetry(r))
    IN  << Jump(Answers \ {"missing"}, 3, On({"missing"}, "next", RetryFrom(1, StatDir(DirOf("sftp", p))))),
           IgnoringErrors(RetryFrom(1, MkDir(DirOf("sftp", p)))),
           again(Put("temp")),
           On(Answers \ {"ok"}, "next", On({"ok"}, "ok", RetryFrom(1, Rename("temp", p)))),
           again(Stat(p)),
           IgnoringErrors(RetryFrom(1, Delete("temp"))) >>

-----------------------------------------------------------------------------
\* Eight attempts, for everything but 301, 405 (the directory exists) and, for
\* all requests but an upload, 404.
WebDAVSendRequest(r) ==
    Retrying(8, Answers \ ({"ok", "taken"} \union IF r.verb = "put" THEN {} ELSE {"missing"}), r)

\* PROPFIND of a file, or of a directory with what is in it.
WebDAVGetProperties(r) == WebDAVSendRequest(r)
WebDAVListFiles(d) == << On({"missing"}, "ok", WebDAVGetProperties(ListAll(d))) >>
WebDAVGetFileInfo(p) == << On({"missing"}, "absent", WebDAVGetProperties(Stat(p))) >>
WebDAVDeleteFile(p) == << WebDAVSendRequest(Delete(p)) >>
WebDAVMoveFile(p, q) == << WebDAVSendRequest(Rename(p, q)) >>
WebDAVCreateDirectory(d) == << UnlessCached(d, Ignoring({"taken"}, WebDAVSendRequest(MkDir(d)))) >>
WebDAVDownloadFile(p) == << WebDAVSendRequest(Get(p)) >>
WebDAVCreateParentDirectory(p) ==
    LET d == DirOf("webdav", p) IN UnlessCached(d, IgnoringErrors(WebDAVSendRequest(MkDir(d))))
\* Mutant: the result of the upload is not looked at.
WebDAVUploadFileUnchecked(p) == << WebDAVCreateParentDirectory(p), IgnoringErrors(WebDAVSendRequest(Put(p))) >>
WebDAVUploadFile(p) == << WebDAVCreateParentDirectory(p), WebDAVSendRequest(Put(p)) >>

-----------------------------------------------------------------------------
\* Thirteen attempts at anything the transport refuses.  When the last one got
\* an error status, the answer is nil and so is the error, and the caller's
\* deferred Close panics; the refusals of the service itself come in an answer
\* of status 200.
FileFabricSendRequest(r) == On({"busy"}, "panic", Retrying(13, Transient, r))

FileFabricInfo(r) == FileFabricSendRequest(r)
FileFabricGetFileInfo(p) == << On({"missing"}, "absent", FileFabricInfo(Stat(p))) >>
FileFabricListFiles(d) ==
    << On({"missing"}, "ok", FileFabricInfo(StatDir(d))), FileFabricSendRequest(ListPages(d)) >>
\* An error of the look-up is taken for "no such file", which is a success.
FileFabricLookUp(p) ==
    On(Answers \ {"ok", "busy"}, "ok", FileFabricInfo(Stat(p)))
FileFabricDeleteFile(p) == << FileFabricLookUp(p), FileFabricSendRequest(Delete(p)) >>
FileFabricMoveFile(p, q) == << FileFabricLookUp(p), FileFabricSendRequest(Rename(p, q)) >>
FileFabricCreateDirectory(d) == << Ignoring({"taken"}, FileFabricSendRequest(MkDir(d))) >>
FileFabricCreateParentDirectory(p) ==
    LET d == DirOf("filefabric", p)
    IN  << UnlessCached(d, Jump({"ok"}, 3, Ignoring({"taken"}, FileFabricSendRequest(MkDir(d))))),
           UnlessCached(d, FileFabricInfo(StatDir(d))) >>
FileFabricDownloadFile(p) == << FileFabricSendRequest(Get(p)) >>
\* The error of sendRequest is not looked at before the answer is closed.
FileFabricUploadFile(p) ==
    FileFabricCreateParentDirectory(p) \o << On(Transient, "panic", FileFabricSendRequest(Put(p))) >>
=============================================================================
