# Duplicacy in TLA+

Duplicacy backs up repositories to a storage that several clients share
without locks.  Chunks are named by their content, a snapshot file names the
chunks it needs, and a chunk nobody needs is removed in two steps: first it is
renamed to a fossil, and a later prune deletes the fossil once every
repository has shown that it does not rely on it.  The modules here model that
protocol step by step from the Go code, check it on small instances with TLC,
and prove some of its properties for all instances with TLAPS.

Paths are relative to the repository: `src/duplicacy_*.go` is the library,
`duplicacy/duplicacy_main.go` the command line.  `PROJECT.json` maps every
definition to the lines it stands for.

## Inventory

| Part | State | Operations | What is hard | What makes it correct |
|---|---|---|---|---|
| Storage (`storage.go`, `filestorage.go`) | chunk files, fossils, snapshot files | list, find, upload, rename, delete | shared without locks; every request is a step of its own | an upload is all or nothing; a rename replaces its target |
| Backup (`backupmanager.go`) | chunk cache, chunks queued, the new snapshot, incomplete snapshot | start, pack, find, upload, write the snapshot file, fail, resume | the cache is old; the storage changes under it; failures | everything a snapshot references can be read; no revision is overwritten |
| Prune (`snapshotmanager.go`) | snapshots listed, fossil collections, tasks, new fossils | list, reap or postpone a collection, select, fossilize, save, delete snapshots | acts on an old listing; crashes between steps; its own worker threads | no chunk in use is lost; nothing that can be reclaimed is forgotten |
| Chunk operator (`chunkoperator.go`) | task queue, count of active tasks, workers | add, wait, stop, run, fail | condition variable, panicking workers, unbuffered stop channel | a wait covers every task and returns; a failure ends the process |
| Fatal errors (`log.go`) | the action to run before exiting | `LOG_ERROR`, `CatchLogException` | runs on whatever goroutine failed | the process ends |
| Entry list (`entrylist.go`) | entries, preserved and uploaded chunks, files of the incomplete snapshot | add, check, read, save, load | uploads finish out of order; two files make one incomplete snapshot | an entry refers to the chunks that hold its content |
| Chunk downloader (`chunkdownloader.go`) | tasks needed, downloading, completed | prefetch, reclaim, wait | unbuffered completion channel, a bound on active chunks | the chunk awaited arrives; nothing keeps the pool from stopping |
| Restore (`backupmanager.go`) | local files | restore in place or through a temporary file | partly changed files, failures that are allowed | content equals the snapshot's |
| Copy (`backupmanager.go`) | chunks to copy, two pools | list, download, upload, write snapshot files | one pool feeds another; prune at the destination | a copied snapshot is complete |
| Check (`snapshotmanager.go`) | verified chunks | check existence, files, chunks; resurrect | chunks move while it looks | reports what is missing, and only that |
| Retention policy (`snapshotmanager.go`) | none | choose snapshots | day boundaries between policies | keeps one snapshot per interval |
| Fan-out (`concurrency.go`) | next index, first failure | run, recover, raise again | panics on worker goroutines | every index runs once or a failure is raised |
| Snapshot cache (`filestorage.go`, `snapshotmanager.go`) | cached chunks and snapshot files | read, verify, write without fsync, clean | torn files | a torn chunk is never believed |
| Chunk maker, chunk, config | rolling hash, buffers, keys | cut, encode, decode | boundaries | same content, same chunks |
| Storage clients (B2, OneDrive, ...) | tokens, path caches | requests with retries | back-off, expired tokens, lost answers, retries of what was done, other computers | success means done, absence is true, a listing is complete, a move loses nothing, a call ends |

The parts call each other.  The command line starts one command per process;
backup, prune, restore, copy and check create chunk operators and hand them
tasks; workers call the storage and call back when done.  Processes interact
only through the storage.  Fossil collections and incomplete snapshots are
local files, and so survive a crash of the process that wrote them.

`PROJECT.json` lists the hazards at their lines with the properties that
catch them.  Those that no property catches have a note: most are situations in
which the code does lose a chunk, so that the runs exclude them, and a
configuration or a table under "Runs" shows what happens there.

## Modules

* `DedupStorage` is the shared storage: `chunkFiles`, `fossilFiles`,
  `snapshots` and a clock, and what uploads, renames and deletions do to them.
  A chunk id stands for a content.
* `BackupClient` models `Backup` and `UploadSnapshot` for every snapshot id.
  `BackupStart` reads the latest revision (`downloadLatestSnapshot`) into the
  cache and keeps the chunks of unchanged files; `BackupPack` is
  `uploadChunkFunc`; `BackupFindChunk` and `BackupUploadChunk` are the two
  requests of `UploadChunk`; `BackupEndTime` and `BackupUploadSnapshot` follow
  the two calls of `WaitForCompletion`.  `BackupFail` is an error or a kill;
  in hash mode it may leave an incomplete snapshot, which is cut on load at the
  first chunk that was not uploaded (`Savable`).  A first backup over a storage
  that lists fast discards it if a chunk of it is gone (`StartFrom`).  Between the
  snapshot file and the removal of the incomplete snapshot
  (`BackupDeleteIncomplete`) a kill, or an error while the snapshot cache is
  cleaned, may come (`BackupCut`).  `BackupUploadError` is a
  worker whose upload failed, between the deferred function of `Run` and the
  exit.
* `PruneClient` models `PruneSnapshots`: listing id by id, step 2 over the
  saved collections in the order of their numbers (`PruneGhost`, `PruneReap`,
  `PruneDeleteCollection`, `PrunePostpone`, with `IsDeletable` as an
  operator), the choice of snapshots, step 1 (`NonExhaustive`, `Exhaustive`),
  the collection file, the deletion of snapshot files, and the tasks the
  workers run, one storage request per step (`Task*`).
* `LockFreeDedup` composes both over one storage and a clock, and states what
  the protocol relies on as constants (below).
* `SnapshotStore` is what backup and prune promise together: a store of complete
  snapshots in which a snapshot appears at once with all its chunks and a larger
  revision, any but the latest of an id may go, and a chunk goes only when nobody
  needs it.  `LockFreeDedup` implements it (`Promise`, `StoreImplemented`).
* `ChunkOperator` models the worker pool itself, with goroutines that call it,
  its queue, its condition variable and its failing workers.
* `TaskPool` is what the pool promises its callers: a set of tasks, each done
  once or failed, that they add to and wait for, until one of them closes it.
  `ChunkOperator` implements it (`Promise`, `PoolImplemented`).
* `ChunkDownloader` models `Restore` and `RestoreFile` with the chunk
  downloader over an instance of `ChunkOperator`: `AddFiles` fixes the task
  list (`StartChunk`, `EndChunk`, `SharedChunks`), `StartFile` is `RestoreFile`
  up to `Prefetch`, `WaitForChunk` and `TakeChunk` are the beginning and the
  end of the wait, and `Deliver` is the meeting of a worker and the main
  goroutine on the unbuffered completion channel.  The calls of
  `DownloadAsync` in between are steps of their own (`Fetch`, `HandOver`),
  since the task queue may be full.
* `VerifyChunks` models `check -chunks` over another instance of
  `ChunkOperator`: the goroutines, `GetChunk` and `PutChunk` with the buffers
  of the pool, how `DownloadChunk` passes a buffer on or gives it back, the
  chunks recorded as verified, and the report.
* `CopySnapshots` models `copy` between two storages: `Plan` lists both,
  `Decide` is the comparison with the chunks of the destination (a chunk of
  size 0 counts as missing), and two instances of `ChunkOperator` follow, of
  which the first adds tasks to the second from its completion function
  (`Fetch`, `PassToUploader`).  The snapshot files come last.  Backups at the
  source and the two steps of a prune at the destination run beside it, and a
  copy may be killed and repeated.
* `EntryList` holds the arithmetic of a backup's file list as operators:
  merging local and remote entries and preserving chunks of unchanged files
  (`MergeEntries`), placing new files in chunks (`FillEntry`), the checks of
  `checkEntry`, the relative form written to the snapshot (`EncodeSnapshot`)
  and back (`DecodeSnapshot`), what reading an entry gives (`ReadBack`), and
  how an in-place restore keeps and overwrites parts of an existing file
  (`RestoreInPlace`).  A file is a sequence of bytes that all differ.
* `FilePacking` is the backup around it: files change while they are listed
  and read, the chunk maker cuts the stream anywhere between its bounds,
  uploads finish out of order, the snapshot is written, and a failure saves the
  incomplete snapshot as its two files, with a kill between them
  (`SaveEntries`, `SaveChunks`); the next backup loads or refuses it.
* `StorageService` states what the services are taken to do with one request
  and gives the words in which an operation is written: a sequence of requests
  with, for each, which answers end the operation, go on, jump or repeat.
  `FileBackends`, `ObjectBackends` and `DriveBackends` write every operation of
  the `Storage` interface for the nineteen storages in these words;
  `StorageCalls` is the machine that runs one, with a service that drops
  requests, loses answers, is busy or expires the token, and on Hubic and WebDAV
  denies a file that exists, and another computer.
* `GCDListing` is the inside of one of these operations, Google Drive's listing
  of the chunks and the fossils: the loop of `ListFiles`, one goroutine for each
  directory, and the channels and the cache of ids between them.  `StorageCalls`
  sees it as the pages of the two directories and a wait that may hang
  (`GCDWorkers`).
* `ChunkCoding` is the erasure coding of `chunk.go` as operators: which damage
  `Decrypt` recovers from and when it asks for a rewrite.  `ChunkReads` is
  `DownloadChunk` over it: cache, chunk file or fossil, the buffer that is
  filled and has to be reset, the three attempts and which errors get one (an
  early end and wrong bytes on every storage, others on Hubic only), the
  special cases of Hubic and WebDAV, and the rewrite of a recovered chunk,
  beside backups, prune and power losses.
* `SnapshotCache` models the cached copies of snapshot files, which are trusted
  when read; `Retention` the policy of `-keep` over days of backups and prunes;
  `SnapshotDeletion` the parallel deletion of snapshot files with its ordered
  log.
* The `MC*` modules give the constants values for TLC.  `MCUpkeep` runs
  `ChunkReads`, `SnapshotCache`, `Retention`, `SnapshotDeletion` and `GCDListing`,
  which have no variable in common, one at a time (`part`).
* The `*Proofs` modules hold the theorems: `LockFreeDedupProofs` and
  `LockFreeSafetyProofs` those of `LockFreeDedup`, `ChunkOperatorProofs` those
  of the pool, `CopySnapshotsProofs`, `VerifyChunksProofs` and
  `ChunkDownloaderProofs` those of its users `CopySnapshots`, `VerifyChunks` and
  `ChunkDownloader`, `StorageCallsProofs` those of the storages, and
  `UpkeepProofs` those of `SnapshotCache`, `ChunkCoding`, `ChunkReads` and
  `SnapshotDeletion`.

### What is abstracted

The choice of snapshots by `-r`, `-t` or `-keep` is any subset.  The
exhaustive listing of `chunks/` and the queueing of its tasks are one step
(between them only this prune's own workers and other backups run; a chunk
that changes in between is met by the tasks, which look again).  Nesting
levels, redundant chunk files, temporary files, `-dry-run`, sizes and
statistics are left out; several workers update statistics without a lock,
which only the numbers printed depend on.  A fatal error of prune's main
goroutine drains the tasks through the deferred `stopChunkOperator`
(`PruneNothing` covers the protected latest revision).  An upload of a file
chunk that fails leaves a hole that `checkEntry` finds before a snapshot file
is written, so `BackupUploadError` is about metadata chunks.  Prune runs on
one machine; a snapshot id is backed up by one process at a time, as
`snapshot.go:26` demands.

In `ChunkDownloader` a file is the numbers of its first and its last chunk, and
`AddFiles` says which lists of files it may produce: numbered one after the
other, except that a file may begin with the last chunk of the file before.
Which chunks exist locally is any subset.  Buffers are left out there: what `-persist` does to them is the
subject of `VerifyChunks`.  A download in either module is one attempt that
succeeds or fails; `ChunkReads` has the retries, the fossils and the cache.  `GetChunk` and the `Reset` behind it are one step.  The pool of
buffers never reaches its capacity of 16 per processor here.

In `CopySnapshots` the first step of prune is one step, since `LockFreeDedup`
has it in detail, and one snapshot id is copied.  In `FilePacking` there is one
directory of three files; a change of a file is noticed by its time or not at
all (`IsSameAs` tolerates a second, so `TimeStep` is 2), and the memory limit
decides whether entries go to disk.  `Denials` says which reads OneDrive may
deny: in `packing` only the first read of a file in the last backup, in
`packing_cloud` any.  The chunk maker's choice of a border is
any length between the minimum and the maximum.  In `StorageCalls` there is one
chunk, its fossil and its temporary file, two revisions and two ids; a retry
loop is cut short after `AttemptCap` attempts if its own limit is larger, and
sleeping is left out.  In `ChunkCoding` lengths count half shards, and what
encryption and compression make of wrong bytes is rejected like another
content, by the comparison of ids.  In `Retention` the unit of time is half a
day.  `CleanSnapshotCache` may find any cached snapshot incomplete.

### What the protocol relies on

`LockFreeDedup` has these as constants, so that a run says which it needs:

| Constant | Meaning | Where it comes from |
|---|---|---|
| `ActiveIds`, `SeededIds` | ids that back up; ids that have a revision at the start | step 2 looks at ids that have snapshots (`snapshotmanager.go:93`) |
| `PromptBackups` | an active repository backs up again before its host counts as dormant | the 7 days of `snapshotmanager.go:163-172` |
| `MaxPending` | snapshots are selected only while fewer collections are pending | no code enforces it; see below why it matters |
| `PruneKilled` | prune may die between any two steps | a kill, or a `LOG_ERROR` |
| `Overlap` | ids whose backups run beside other commands; those of others run alone | lock-free operation |
| `Threads` | worker threads of prune | `-threads`, 1 by default |
| `StorageErrors` | requests may fail | any storage |
| `EndCut` | a backup may stop between its snapshot file and the removal of the incomplete one | `backupmanager.go:542-567` |

`MayStartBackup` also keeps two backups of one host apart
(`snapshotmanager.go:115`) and honours `-exclusive` (`duplicacy_main.go:1939`).

## Runs

All runs of `MCLockFree`, `copy` and `packing` set `CHECK_DEADLOCK FALSE`,
because the clock, the revisions, the collections, the commands and the changes
are bounded and the system stops at the bounds.  `storages` and `upkeep`
check deadlock; `GCDListing` has a step for having returned or hanging (`Stopped`).
`MCChunkOperator` checks deadlock: its only states without a next step of the
pool are the exit of the process and callers that stopped.  `restore` and
`check` check it, too; a command that has ended stutters.  `restore_shared`
does not, so that the hang shows as the liveness violation it is.

| Run | Shows | Bounds |
|---|---|---|
| `lockfree` | under all assumptions no chunk is lost (`NoChunkLost`), the caches of running backups can be relied on (`CacheReadable`), the users of a collected fossil are seen by step 2 (`FossilUsersAreNew`), workers never meet a chunk that is gone (`NoTaskError`), what a deleted snapshot held is in a collection (`DeletedAreCollected`), and all requests together implement the abstract store (`StoreImplemented`) | 1 chunk, 2 ids, 3 and 2 revisions, 2 clock values, 2 collections |
| `commands` | fresh revisions and the protection of the latest revision with every option, storage errors and no assumption | 2 threads, 2 collections |
| `resume` | no chunk is lost (`NoChunkLost`) by hash-mode backups that fail and resume beside prune, as long as the incomplete snapshot is removed with the backup that ends; nor by first backups that fail and are resumed after a prune deleted what they had uploaded, where the storage is listed first (`FastListing`) | 1 chunk, 2 ids: one with 3 revisions, one that makes its first, alone |
| `chunk_operator` | waits cover all tasks (`WaitedForAll`) and return (`WaitReturns`), a failure ends the process (`FailureExits`), and queue, counter, condition variable and messages together implement the abstract pool (`PoolImplemented`), so that `Download` returns with its own chunk and `Stop` only without failures | 2 callers, 2 workers, 3 tasks |
| `restore` | the count of active chunks is exact and bounded (`ActiveBounded`), the chunk awaited is on its way (`AwaitedIsComing`), the restore ends (`RestoreEnds`) | 4 chunks in up to 3 files, 2 workers |
| `check` | success is reported only if every chunk is intact and recorded (`SuccessIsTrue`), the check ends (`CheckEnds`) | 2 goroutines, 2 workers, 2 chunks |
| `storages` | an upload that succeeds is stored (`UploadedIsStored`), a move that succeeds is done (`MovedIsThere`), a file reported absent was absent during the call (`AbsentIsTrue`), listings have every file that was there throughout (`ListComplete`), no step removes the last copy of a content (`ContentKept`), and every call ends (`CallEnds`); each with the storages it excepts | 19 storages, 2 attempts, 4 versions of the chunk and its fossil |
| `copy` | where copies bring only revisions newer than those of the destination, a copied snapshot has its chunks (`CopiedIsReadable`) with the right content (`CopiedIsIntact`), is written after the uploads (`SnapshotsLast`), and a copy ends (`CopyEnds`) | 2 chunks, 3 revisions, 2 downloading and 1 uploading worker, 2 copies |
| `packing` | every entry of a snapshot reads back the bytes that were packed (`ReadsBack`), the entries are those of the files (`ListIsRight`), an in-place restore over any version of the file writes it (`RestoresInPlace`), and a resumed backup keeps what was uploaded (`ResumeKeeps`) | files of up to 2 and 4 bytes, chunks of 1 and of 2 to 3 bytes, 3 backups, 2 changes |
| `upkeep` | a chunk is given up only if it could not be had (`ReadableIsRead`), a rewrite never leaves less than it found (`RewriteKeeps`); a cached snapshot is the stored one (`CachedIsCurrent`); the snapshots kept cover what the policies promise (`RetentionCovers`); the log of a parallel deletion is that of a serial one (`LogIsSerial`); Google Drive's listing, if it returns, has the files of every directory (`ListingWhole`) | 2 data shards and 1 parity shard, 2 readers, 3 faults; 3 revisions, 4 versions; 8 days; 3 workers, 4 files; 5 directories in 3 levels, 3 threads |

One chunk is enough for most questions because chunks never interact: a
collection, a listing or a task treats each chunk by itself, and only the
number of tasks in flight depends on how many there are.  Two ids are needed
(one deletes, one still uses; one qualifies, one does not).  Three revisions of
one id let a revision that is neither first nor latest be deleted while a later
one is being made.  Two clock values tell "ended after the collection" from
"ended before or with it".  Two collections let a collection be pending while
the next is made.  `resume` needs the third revision, too: one has to be pruned,
one to let step 2 pass, and one to be made by a resumed backup.  Its other id has
no revision, so that prune does not wait for it, and its resumed backup meets a
chunk that is gone.  A directory two levels below `chunks` in `upkeep` lets a
goroutine start while the one that found its directory has not saved the id.
A third task in `chunk_operator` makes a caller
block on the full queue of two behind two busy workers.  Four chunks in
`restore` are one more than the bound on active chunks, so that looking ahead
meets the limit, and the layouts have a file of several chunks before others,
with and without a chunk in common.  In `check` a goroutine that verifies both
chunks reuses the buffer of the first.  Two chunks and one uploading worker in
`copy` make a downloading worker wait for the uploader's queue.  Two attempts
in `storages` are enough for a lost answer followed by a repeated request, which
is what the retries add to a single request, and four versions for a chunk that
is hidden twice with something to hide below.  The chunks of 2 to 3
bytes in `packing` cross the borders of the files, those of 1 byte make files
of several chunks, and three backups are a complete one, one that fails and one
that resumes.  Three shards let each kind of damage be recoverable or not; the
longest policy list of `upkeep` reaches 7 days, and the clock 8.

In `restore` files exist locally only if no two files of the list share a
chunk (`SharedExist = FALSE`); `restore_shared` shows what happens otherwise.

### Disagreements with comments

Two runs violate what a comment in the code claims; `PROJECT.json` quotes the
comments.

| Run | What happens |
|---|---|
| `restore_shared` | a chunk of two files that both turn out to be unchanged is requested ahead and never taken; its worker stays blocked and `Stop` waits for ever |
| `packing_cloud` | reading a file is denied half-way; its first bytes stay in the stream, its entry is skipped without advancing, and every later file is recorded that many bytes too early |

Six more configurations are kept beside the runs.  Each violates one property:

| Configuration | What happens | What the code says |
|---|---|---|
| `MCLockFree_exclusive_pending.cfg` | an exclusive prune deletes the fossils of a collection that is not deletable yet, without resurrecting those in use (`snapshotmanager.go:2559`) | the comment of `IsDeletable`, `:87-89` |
| `MCLockFree_resume_alone.cfg` | an incomplete snapshot is trusted although a prune has deleted its chunks (`backupmanager.go:197`) | only an initial backup over a fast-listing storage checks, `:214` |
| `MCUpkeep_listing_returns.cfg` | a goroutine of Google Drive's listing looks for the id of its directory after the name was sent and before the id is saved (`gcdstorage.go:581-582`), and returns without a word (`:555`); the loop waits for it for ever.  With one thread it cannot happen | "ListFiles return the list of files", `gcdstorage.go:497` |
| `MCLockFree_threads.cfg` | with two threads, resurrecting and fossilizing the same chunk can delete its last copy (`chunkoperator.go:297`, `snapshotmanager.go:2584`) | `snapshotmanager.go:2331-2332` |
| `MCVerifyChunks_check_persist.cfg` | with `-persist` the worker returns the buffer of a damaged chunk to the pool while the verifying goroutine still reads it; another download clears `isBroken`, and the damaged chunk is recorded as verified (`chunkoperator.go:373`) | `chunk.go:82` |
| `MCCopySnapshots_copy_older.cfg` | a copied revision older than the last one a collection at the destination knows is not new to it (`snapshotmanager.go:126-129`), so that its fossils are deleted | `snapshotmanager.go:87-89` |

In the last one it takes `-r` to name such a revision.  A copy of everything
does the same with five revisions: it brings back what was pruned at the
destination, the collection of that prune is dropped as a ghost, and to the next
collection the other revisions still to come, being older than the last one it
knows, are not new.  `OlderRevisions` stands for both, and `copy` is without it.

Each assumption of `lockfree` is needed: TLC finds `NoChunkLost` violated when
one constant of `MCLockFree_lockfree.cfg`, or of the file named, is changed.

| Change | What happens |
|---|---|
| `MaxPending = 2` | with two pending collections, a new snapshot behind the first qualifying one is not looked at (`snapshotmanager.go:145`) |
| `SeededIds = {"a"}` | a first backup is invisible to step 2, which deletes fossils it reused (`:95`) |
| `HostOf` constant | two ids of one host are judged by listings of different moments (`:115`) |
| `PromptBackups = FALSE`, `DormantAge = 1`, `MaxTime = 3` | a repository that was dormant and is backing up loses chunks (`:171`) |
| `PruneModes` with `ignored` | the ids of `-ignore` have no say in step 2, and their running backups lose the chunks they rely on (`:102`; here `CacheReadable` is violated first) |
| `EndCut = TRUE`, in `MCLockFree_resume.cfg` | a backup dies between its snapshot file and the removal of the incomplete snapshot (`backupmanager.go:542-567`); the snapshot is pruned, its chunks are deleted, and the next hash-mode backup resumes from what is left |
| `StorageErrors = TRUE` | a failed metadata upload wakes the backup, which can write the snapshot file before the process exits (`chunkoperator.go:208`) |

## Fairness

`LockFreeDedup` has no fairness: nothing obliges a user to run a command, and
all its properties are safety properties.  `ChunkOperator` assumes weak
fairness of every goroutine that is in a call and of every worker: the Go
scheduler runs goroutines that can run, and a storage request returns.  What
callers call, and when, is up to them.  A blocked send or receive is not
enabled, so the fairness does not force it.

`ChunkDownloader` and `VerifyChunks` assume the same of the main goroutine,
the verifying goroutines and the workers.  Errors of a restore and an
interrupt by the user are outside the fairness: a command that ends only
because it fails or is killed would be found not to end.

`CopySnapshots` assumes that a copy which has not exited and can go on does;
nobody has to back up, prune or copy again.  `StorageCalls` assumes that the
thread goes on and that a request has some answer; which answer is up to the
service, for ever, so that a call ends only because its attempts are counted.
`GCDListing` assumes that the loop and every goroutine that can run go on.
`FilePacking` and the other parts of `MCUpkeep` have no fairness and no liveness
property.

## Proofs

`LockFreeDedupProofs` proves, for every set of chunks and ids, every number of
threads, all options, crashes and storage errors, and with none of the scenario
assumptions:

* `TypeCorrect`: `Spec => []TypeOK`.  No run of `LockFreeDedup` repeats this.
* `RevisionsAlwaysFresh`: `Spec => []RevisionsFresh`.  A running backup writes
  a revision larger than any of its id.  By itself this is inductive only
  together with the fact that prune adds no snapshots and that the latest
  revision read at the start is an upper bound.
* `LatestAlwaysKept`: `Spec => LatestKept`.  Prune decides on a listing that
  is old by the time a snapshot file is deleted.  The step preserves the latest
  revision because of three facts that hold all along: the snapshots listed
  still exist, except those this run deleted (`ListedExist`), so that each
  flagged snapshot has a later one of its id that exists and is not flagged
  (`FlaggedHaveLater`), and snapshots are flagged only while tasks are
  collected and files deleted (`FlaggedInPhase`).

The inductive invariant `IndInv` is the conjunction of `TypeOK`,
`RevisionsBounded`, `RevisionsFresh` and these three.  There is one lemma per
group of actions; the assumptions used are the named ones on the constants in
the modules (`StorageAssumption`, `BackupAssumption`, `PruneAssumption`).

`UpkeepProofs` proves, for any number of workers and files and any
order of successes, failures and panics,

* `LogAlwaysSerial`: `DeletionSpec => []LogIsSerial`.  The invariant
  `DeletionInv` says that a slot is finished once (`ClaimedOnce`: claimed files
  are distinct and their slots open), that the caller has passed only finished
  slots (`PassedFinished`), and that the log is the run of deletions before the
  first failure it passed (`LogIsPrefix`).  Without `ClaimedOnce` a slot the
  caller has already reported could change.

`LockFreeSafetyProofs` proves that two-step fossil collection is safe, for every
set of chunks and ids and every number of revisions, collections and commands,
with kills of prune and backups at any step, under `LockFreeScenario`: the
conditions of the run `lockfree` (the tables above show that each is needed), of
which the run is one instance.

* `ChunksNeverLost`, `CacheAlwaysReadable`, `FossilUsersAlwaysNew`,
  `NeverTaskError`, `DeletedAlwaysCollected`: the five invariants of that run.

`NoChunkLost` alone says nothing of a chunk that a running backup will
reference, nor of a task in the queue.  `SafeInv`, used together with `IndInv`,
has

* `UsedReadable`: what a snapshot or a running backup relies on is readable;
* `HistoryInv`: every id has a snapshot, one per revision, their end times
  follow the revisions, and an id that backs up is not dormant;
* `MemoryInv`: snapshots that appeared since prune's listing are later than
  those listed, what is listed stays until this run deletes it, and what is in
  memory in which phase;
* `TasksInv`: the order of the queue; a fossil to be deleted is not used or its
  chunk file is back, a chunk to be resurrected is referenced and there, and one
  to be fossilized is referenced by no snapshot that was listed and is kept;
* `CollectionsInv`: at most one collection is pending; a snapshot that uses one
  of its fossils is new to it or was to be deleted with it; and the first
  snapshot of an id that ended after the collection decides for the id: a fossil
  it does not use is used by no later snapshot and by no running backup
  (`FirstLateDecides`, the reason why `IsDeletable` may stop there).

There is one lemma per action, with a step per conjunct.  TLC checked `SafeInv` on
the instance of `lockfree` and on one with other options first.

* `StoreIsImplemented`: in the same scenario every behaviour of backups and prune
  is one of `SnapshotStore`, where `readable` is the chunk files and the fossils
  together, and `relied` what a backup has cached or references less the chunks it
  is about to upload, of which each waits for one worker once (`UploadsInv`).
  Finding a cached or stored chunk, uploading, and writing the snapshot file are
  steps of the store; so are deleting a snapshot file (`Expire`) and deleting a
  fossil without a chunk file (`Reclaim`).  Everything else stutters: listings,
  collections, fossilizing and resurrecting, which move a chunk between its two
  names.  That `Reclaim` takes nothing needed is `SafeInv` after the step, and that
  `Expire` leaves a later revision is `FlaggedHaveLater`.

`ChunkOperatorProofs` proves about the pool, with `OperatorAssumption` (some
threads, finitely many) as the only assumption:

* `TypeCorrect`, `AlwaysWaitedForAll`: the types and the waits of
  `chunk_operator`.  `StopAlwaysMeansSuccess`: when `Stop` has returned to its
  first caller, no task failed and all workers are gone (`StopMeansSuccess`).
* `TasksNeverLost`: a task that was added leaves the pool only by being
  completed or by failing.  No run states it; the users of the pool rest on it.
* `TasksInOnePlace`: a task is with the caller that hands it over, queued once,
  or with one worker, and never in two of these places, so that none is run
  twice.
* `ParkedAlwaysWoken`: a caller is in `idleCond.Wait` only while the counter is
  not zero (`ParkedIsWoken`), so that the broadcast is still to come: no wakeup
  is lost.  That the counter does reach zero is liveness and stays with
  `WaitReturns`.
* `PoolIsImplemented`: every behaviour of the pool is one of `TaskPool`.
  `AddTask`, the completion function, `LOG_ERROR`, the beginning and the end of a
  wait and a received message of `Stop` are its steps; the send to the queue, the
  receive, the deferred function of `Run`, parking and waking are not seen.
  That `Download` gets its own chunk needs `TasksInOnePlace`, the end of a wait
  `CountInv`, and the last message `StopInv` and `FailInv`; `StatusInv` adds that a
  failed task is nowhere any more and that who receives waits for one chunk.

`OperatorInv` has the counting fact that none of these can do without:
`numberOfActiveTasks` is the number of tasks being handed over, queued, or with
a worker that has not finished (`CountInv`).  With it go what the goroutine in
`Stop` may rely on (`StopInv`: one call passes the check of `stopped`, nothing is
active from then on, and `sent` counts the workers gone) and that the worker of a
failed task takes no message (`FailInv`).  `PoolInv` adds where each task is.

`CopySnapshotsProofs`, `VerifyChunksProofs` and `ChunkDownloaderProofs` use these
theorems of the pool through instances of `ChunkOperatorProofs`, two of them for
the copy.

* `SnapshotsAlwaysLast` and `CopiedAlwaysIntact` hold for all constants.
  `CommandInv` follows a chunk from the list through both pools: one that is to
  be copied and was not given to the second pool is still to be added to the
  first, in flight there, or failed there; what was given was downloaded
  (`OrderInv`, `GotInv`), and nothing damaged gets that far (`IntactInv`).
* `CopiedAlwaysReadable` assumes `~Dormant` and `~OlderRevisions`.  `DestInv`
  says that what a copy brings is newer than all the destination has
  (`RevisionsInv`), that fossils belong to a collection none of whose known
  revisions uses them (`CollectionInv`), and that a chunk of a revision to be
  copied is undecided, on its way, a file, or the fossil of a collection to which
  all of these revisions are new and which waits for one made later
  (`ReadableInv`).
* `OneAlwaysHolds` (a buffer has one holder as long as no download has failed; no
  run repeats it) and `SuccessAlwaysTrue` hold for all constants.  `CheckInv`
  says nothing of buffers after a failure, as the code justifies nothing
  (`check_persist`); before it, each task belongs to one goroutine
  (`OwnersInv`), each buffer to one place (`BuffersInv`), and each chunk taken
  from the list is recorded or with its goroutine (`VerdictInv`).
* `ActiveAlwaysBounded` and `AwaitedAlwaysComing` hold for any number of threads
  and any files, also where files share chunks and exist.  `RestoreInv` says that
  the restore goes through the chunks in their order and reclaims only behind it
  (`PositionInv`), and as long as no download failed for good, that a chunk
  requested and not reclaimed is in the pool or in memory and not in both, and
  which chunk it is if the limit is exceeded: the one awaited, requested
  whatever the limit, which is in memory when the restore goes on and reclaimed
  before it waits for another (`ActiveInv`).  `FirstOfBound` is the fact about
  the loops of `Prefetch` and `WaitForChunk` that this counts with.

`UpkeepProofs` also proves

* `CachedAlwaysCurrent`, assuming `~Exclusive`.  Beyond the latest revision the
  cache has a copy only while its backup uploads, or where the next backup is
  sure to write over it (`NoCopyAhead`), and what is being saved or loaded has a
  number nobody else takes (`SavingIsNext`, `LoadingIsOld`).
* `DecryptIsRecoverable`: the loop of `Decrypt` over the shards accepts a file
  exactly if enough shards are intact, for any numbers of shards.
* `ReadableAlwaysRead` (assuming
  `MaxFaults <= MaxDownloadAttempts`: with more faults a download may fail) and
  `RewriteAlwaysKeeps`, for any number of readers.  `ReadsInv` says what a reader
  knows at each step of its attempts, its buffer included (`ReadersInv`), and that
  prune moves sound
  files only and nobody takes away what a half-done resurrection has seen
  (`PruneInvariant`).

`CopyAssumption`, `VerifyAssumption` and `DownloaderAssumption` say that there is
a thread in each pool and a goroutine that verifies (`-threads` is at least 1),
which is what makes the wait of the main goroutine mean anything; the last one
also that the files are numbered as `AddFiles` does it.

`StorageCallsProofs` proves, for all the storages that `CreateStorage` makes
(`BackendsAssumption`) and any bounds on attempts and versions, five of the six
properties of `storages`, so that no retry limit, no order of faults and no
interleaving with the other computer is left out:

* `UploadedAlwaysStored`, `MovedAlwaysThere`, `AbsentAlwaysTrue`,
  `ListAlwaysComplete`, and the action property `ContentAlwaysKept`.

The proof has two parts.  `ProgramsSound` is about the programs: for each storage
and operation it goes through the requests and shows what all have in common
(`Sound`): a file is reported absent only after a look-up of the file, or of its
directory where files are in one (`LooksFirst`); what removes a version belongs to
`DeleteFile`, to a temporary file, or follows the copy in a `MoveFile` (`RemovesLast`);
an upload or a move succeeds only over an answer that shows the file
(`DeliversBeforeOk`), a listing only behind all directories it has to cover
(`ListsBeforeOk`), and B2's way back from a fossil takes off the marker it found
(`UnhidesBeforeOk`).  The second part is about the machine and looks at no program.
Its inductive invariant says what was seen of the files (`SeenInv`, `DirInv`), what
a listing has gone past (`ListingInv`), and what is known in the middle of an
operation: that the file was delivered (`DeliveredInv`), that the copy is still
there before the original is deleted, unless somebody else moves it (`CopiedInv`),
and that B2's version still lies under the marker or has come out since
(`UnhiddenInv`).  The exceptions in the properties are those that the code makes
necessary; each is named with its property: `AbsentAlwaysTrue` says nothing of S3,
S3C, Wasabi, Azure and Storj, which take errors for absence, nor of Hubic and
WebDAV, whose services may deny a file (`PossibleAnswers`), and
`ListAlwaysComplete` nothing of Storj nor of the listings of which S3 and S3C read
one page.

Each inductive invariant was checked by TLC on the instance of its run, and on
a larger one where that is feasible, before it was proved.

Only model-checked are:

* liveness under fairness (`WaitReturns`, `FailureExits`, `RestoreEnds`,
  `CheckEnds`, `CopyEnds`, `CallEnds`), which is out of the prover's reach;
* `ListingWhole`, and `NoChunkLost` in `resume`: `LockFreeScenario` has no
  backups in hash mode and no id without a revision;
* what recursive functions over data compute, which needs induction over the
  data: `RetentionCovers`, and `ReadsBack`, `ListIsRight`, `RestoresInPlace` and
  `ResumeKeeps` of `FilePacking`.

## What the models show beyond the runs

Reading the code for the models also gave these.  They are modelled as the code
has them, and a property that they would break is stated with the exception.

* Backup.  `IsSameAs` accepts a difference of one second.  A file that is
  truncated to nothing between listing and packing is left out without a
  message.  `AddUploadedChunk` and a failure that saves the incomplete snapshot
  run on different goroutines; the copy that is saved may lack chunks whose
  upload ended meanwhile (`FailWhileStoring`).  `SaveIncompleteSnapshot` encodes
  entries again that `createOnDiskFile` has encoded (`entrylist.go:384`), which
  is harmless.  The incomplete snapshot is deleted after a quick and after a dry
  run, too.
* Restore.  From the command line a restore is always in place
  (`duplicacy_main.go:890`).
* Reading chunks.  `length > minimumLength` refuses a file of exactly the
  minimum (`chunk.go:520-527`); the size of a shard is computed from the
  configured number of data shards and not the header's (`chunk.go:517`).  A
  reader that looks for the chunk and then for the fossil while prune renames
  the fossil back reports a chunk that exists as missing; only Hubic and WebDAV
  try again (`ReadableIsRead` excuses a reader whose file was moved meanwhile).
  An error of a download that is not an early end is not retried except on Hubic
  (`chunkoperator.go:442`), a connection that fails in any other way included, so
  that one lost request ends a restore whose chunk is there (`Refused`).
  A prune that resurrects a damaged fossil replaces a good chunk uploaded in
  between, and `check -rewrite` beside a half-done resurrection can meet it; the
  run does not combine them.
* Snapshot cache.  A copy is stale after the upload of a snapshot file failed
  and the next backup failed to write the cache, or after an exclusive prune
  elsewhere deleted the latest revision and its number was used again: `upkeep`
  takes one kind of failure at a time and no exclusive prune.
* Retention.  "Older than" an age means at least that age.  With a policy that
  deletes everything beyond an age and with days without backups, a snapshot can
  be deleted in favour of one that expires next, which leaves an interval
  uncovered; `upkeep` has daily backups (`Daily`).
* Deletion of snapshot files.  If every worker panicked while files are
  unclaimed, the caller would wait for ever (`snapshotmanager.go:2839`).
* Storages.  Azure takes an error for absence if its text contains 404, which a
  request id or the name of the chunk may do (`azurestorage.go:151`).  A page that
  fails ends Storj's loop over the objects, and what was listed so far is returned
  without an error (`storjstorage.go:75-92`).  Google Drive's `DeleteFile` sends a
  request without an id for a file it did not find.  Hubic and WebDAV are taken to
  deny files, not directories.  `MoveFile` of `s3c` reports success when the copy failed, its
  listings of ids and revisions and those of ids in S3 read one page; any error
  of Storj and any refusal of S3 reads as absence; OneDrive ignores the answer
  to its second attempt to move; GCS drops the error of closing an upload;
  a repeated upload to Google Drive whose first answer was lost leaves two files
  of one name; Swift's context ends a minute after the storage was opened; File
  Fabric's look-up errors are ignored by `DeleteFile` and `MoveFile`; B2 repeats
  without limit while the service names a time to come back or refuses a revoked
  key, and its `MoveFile` to a chunk removes one hide marker without looking for
  another: a deletion that races with a fossilization leaves two markers on top of
  each other, and the move back reports success while the chunk stays hidden
  (`twice` in `MovedIsThere`).  A move by copying and deleting that races with the same move of another
  computer can lose the content.  The comments of the properties of
  `storages` name the exceptions that these make necessary.

## Not modelled

* `runConcurrently`: indices are claimed and the first panic raised again; it
  keeps no other state.  `SnapshotDeletion` has the harder form of it.
* Platform services, benchmark, parsing of the command line, preferences and
  scripts: input and output without a state of their own.
* The bytes of encryption, compression, hashing and the rolling hash: a chunk id
  stands for a content.
* Directory listing, filters, links and attributes: pure functions of strings and
  of the file system.
* `CheckSnapshots` beyond `-chunks`, nesting levels, redundant chunk files, tags
  and `-dry-run`.

## Plan

Done: the protocol (`DedupStorage`, `BackupClient`, `PruneClient`,
`LockFreeDedup`), the pool (`ChunkOperator`, `TaskPool`), restore, check and copy over it
(`ChunkDownloader`, `VerifyChunks`, `CopySnapshots`), packing and resuming
(`EntryList`, `FilePacking`), the storages (`StorageService` to `StorageCalls`,
`GCDListing`),
reading, caching, retention and deletion (`ChunkCoding` to `SnapshotDeletion`),
the proofs above.

Next:

1. Proofs about the folds of `EntryList` and `Retention`, along sequences.
2. The rest of `CheckSnapshots`; nesting levels, redundant chunks and temporary
   files, which `snapshotmanager.go:3085` records without the prefix that line
   2603 deletes them under.
