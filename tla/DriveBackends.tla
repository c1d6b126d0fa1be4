---------------------------- MODULE DriveBackends ---------------------------
(***************************************************************************)
(* The drive services whose clients hold an access token and renew it:       *)
(* OneDrive (personal and for business), Hubic, Amazon Cloud Drive and       *)
(* Google Drive.  Except on Hubic a fossil is a file of the same name in     *)
(* another directory, so that a rename is a move.                            *)
(***************************************************************************)
EXTENDS StorageService

\* Refreshing a token counts as an attempt.
WithToken(r) == [r EXCEPT !.refresh = TRUE]

\* Mutant: an attempt that met an expired token is not counted.
OneDriveCallUncounted(r) ==
    [WithToken(Retrying(12, Transient \union {"rejected", "unauthorized"}, r)) EXCEPT !.uncounted = {"unauthorized"}]
OneDriveCall(r) == WithToken(Retrying(12, Transient \union {"rejected", "unauthorized"}, r))

\* OneDriveClient: one request each, but for MoveFile.
OneDriveListEntries(d) == OneDriveCall(ListPages(d))
OneDriveStat(p) == On({"missing"}, "absent", OneDriveCall(Stat(p)))
OneDriveGet(p) == OneDriveCall(Get(p))
OneDrivePut(p) == On({"taken"}, "ok", OneDriveCall(Put(p)))
OneDriveCreateUploadSession == OneDriveCall(Prepare)
OneDriveUploadFileSession(p) == On({"taken"}, "ok", OneDriveCall(Put(p)))
OneDriveDelete(p) == Ignoring({"missing"}, OneDriveCall(Delete(p)))
OneDriveMkDir(d) == Ignoring({"taken"}, OneDriveCall(MkDir(d)))
\* 409 is taken for a success.  When the destination directory is missing (400)
\* it is created, and whatever the second attempt answers is a success.
OneDriveMove(p, q) ==
    << On({"nodir"}, "next", On({"ok", "taken"}, "ok", OneDriveCall(Rename(p, q)))),
       IgnoringErrors(OneDriveMkDir("fossils")),
       IgnoringErrors(OneDriveCall(Rename(p, q))) >>

\* OneDriveStorage.  The listing of the chunks goes on to the fossils.
OneDriveListFiles(d) ==
    IF d = "chunks" THEN << OneDriveListEntries("chunks"), OneDriveListEntries("fossils") >>
    ELSE << On(IF d = "revisions" THEN {"missing"} ELSE {}, "ok", OneDriveListEntries(d)) >>
OneDriveDeleteFile(p) == << OneDriveDelete(p) >>
OneDriveMoveFile(p, q) == OneDriveMove(p, q)
OneDriveCreateDirectory(d) == << OneDriveMkDir(d) >>
OneDriveGetFileInfo(p) == << OneDriveStat(p) >>
OneDriveDownloadFile(p) == << OneDriveGet(p) >>
\* OneDrive for business uploads within a session.
OneDriveUploadFile(b, p) ==
    IF b = "onebusiness" THEN << OneDriveCreateUploadSession, OneDriveUploadFileSession(p) >>
    ELSE << OneDrivePut(p) >>

HubicCall(r) == WithToken(Retrying(11, Transient \union {"unauthorized"}, r))

\* HubicClient
HubicListEntries(d) == HubicCall(ListPages(d))
HubicStat(p) == On({"missing"}, "absent", HubicCall(Stat(p)))
HubicGet(p) == HubicCall(Get(p))
HubicPut(p) == HubicCall(Put(p))
HubicDelete(p) == HubicCall(Delete(p))
HubicMkDir(d) == Ignoring({"taken"}, HubicCall(MkDir(d)))
HubicMove(p, q) == << HubicCall(Copy(p, q)), HubicDelete(p) >>

\* HubicStorage
HubicListFiles(d) == << On(IF d = "revisions" THEN {"missing"} ELSE {}, "ok", HubicListEntries(d)) >>
HubicDeleteFile(p) == << Ignoring({"missing"}, HubicDelete(p)) >>
HubicMoveFile(p, q) == HubicMove(p, q)
HubicCreateDirectory(d) == << HubicMkDir(d) >>
HubicGetFileInfo(p) == << HubicStat(p) >>
HubicDownloadFile(p) == << HubicGet(p) >>
HubicUploadFile(p) == << HubicPut(p) >>

-----------------------------------------------------------------------------
\* Only 429 and 500 are retried; a network error is final.
ACDCall(r) == WithToken(Retrying(8, {"busy", "unauthorized"}, r))

\* ACDClient
ACDListEntries(d) == ACDCall(ListPages(d))
ACDListByName(r) == ACDCall(r)
ACDGet(p) == ACDCall(Get(p))
ACDPut(p) == On({"taken"}, "ok", ACDCall(Put(p)))
ACDDelete(p) == Ignoring({"taken"}, ACDCall(Delete(p)))
ACDMove(p, q) == Ignoring({"taken"}, ACDCall(Rename(p, q)))
ACDMkDir(d) == Ignoring({"taken"}, ACDCall(MkDir(d)))

\* getIDFromPath for a directory, creating it or not, and for a file; the ids
\* found are remembered, those of files too.
ACDFindDir(d) == UnlessCached(d, ACDListByName(StatDir(d)))
ACDMakeDir(i, d) ==
    << UnlessCached(d, On({"missing"}, "next", Jump({"ok"}, i + 3, ACDListByName(StatDir(d))))),
       UnlessCached(d, Jump({"ok"}, i + 3, ACDMkDir(d))),
       UnlessCached(d, ACDListByName(StatDir(d))) >>
ACDFindFile(p) == UnlessCached(p, ACDListByName(Stat(p)))

ACDListFiles(d) ==
    IF d = "chunks" THEN << Ignoring({"missing"}, ACDListEntries("chunks")),
                            Ignoring({"missing"}, ACDListEntries("fossils")) >>
    ELSE << On({"missing"}, "ok", ACDFindDir(d)), ACDListEntries(d) >>
ACDDeleteFile(p) == << On({"missing"}, "ok", ACDFindFile(p)), ACDDelete(p) >>
\* The id of the file to be moved must be known from before.
ACDMoveFile(p, q) ==
    << UnlessCached(p, Fail), ACDFindDir(DirOf("acd", p)) >>
    \o ACDMakeDir(3, DirOf("acd", q)) \o << ACDMove(p, q) >>
ACDCreateDirectory(d) == << ACDMkDir(d) >>
ACDGetFileInfo(p) ==
    << On({"missing"}, "absent", ACDFindDir(DirOf("acd", p))), On({"missing"}, "absent", ACDListByName(Stat(p))) >>
ACDDownloadFile(p) == << ACDFindFile(p), ACDGet(p) >>
ACDUploadFile(p) == ACDMakeDir(1, DirOf("acd", p)) \o << ACDPut(p) >>

-----------------------------------------------------------------------------
\* Sixteen attempts, the refreshing of the token left to the library.
GCDShouldRetry(r) == WithToken(Retrying(16, Transient \union {"rejected", "unauthorized"}, r))

\* listFiles and listByName, and with them getIDFromPath: only the ids of
\* directories are remembered.
GCDList(d) == GCDShouldRetry(ListPages(d))
GCDListByName(r) == GCDShouldRetry(r)
GCDFindDir(d) == UnlessCached(d, GCDListByName(StatDir(d)))
GCDMakeDir(i, d) ==
    << UnlessCached(d, On({"missing"}, "next", Jump({"ok"}, i + 2, GCDListByName(StatDir(d))))),
       UnlessCached(d, GCDShouldRetry(MkDir(d))) >>
GCDFindFile(p) == GCDListByName(Stat(p))

\* The chunks and the fossils are listed by goroutines, one for each directory; one
\* that starts before the id of its directory was saved returns without a word, and
\* ListFiles waits for it.  How they meet is in GCDListing.
GCDWorkers == On({"dropped"}, "hung", Await)
GCDListFiles(d) ==
    IF d = "chunks" THEN << GCDList("chunks"), GCDList("fossils"), GCDWorkers >>
    ELSE << On({"missing"}, "ok", GCDFindDir(d)), GCDList(d) >>
\* An error of the look-up is a success; a file that is not found is deleted
\* nevertheless, without an id.
GCDDeleteFound(r) == Ignoring({"missing"}, GCDShouldRetry(r))
GCDDeleteFile(p) ==
    << Jump({"missing"}, 3, On(Answers \ {"ok", "missing"}, "ok", GCDFindFile(p))),
       On({"ok", "missing"}, "ok", GCDDeleteFound(Delete(p))),
       GCDDeleteFound(NoFileId) >>
GCDMoveFile(p, q) ==
    << GCDFindFile(p), GCDFindDir(DirOf("gcd", p)) >> \o GCDMakeDir(3, DirOf("gcd", q))
    \o << GCDShouldRetry(Rename(p, q)) >>
GCDCreateDirectory(d) == GCDMakeDir(1, d)
GCDGetFileInfo(p) ==
    << On({"missing"}, "absent", GCDFindDir(DirOf("gcd", p))), On({"missing"}, "absent", GCDFindFile(p)) >>
GCDDownloadFile(p) == << GCDFindFile(p), GCDShouldRetry(Get(p)) >>
GCDUploadFile(p) == GCDMakeDir(1, DirOf("gcd", p)) \o << GCDShouldRetry(Put(p)) >>
=============================================================================
