# TelFS: TLA+ specifications and proofs

TelFS is a FUSE file system, written in Go, that keeps file contents as messages
of a Telegram channel.  Metadata lives in a local SQLite database; a journal of
namespace operations and whole-database snapshots are posted to the same channel
so that a lost database can be rebuilt.  This directory holds TLA+ models of the
parts that are hard to test (goroutines racing over one chunk, crashes between
two steps, recovery from the channel), the TLC configurations that check them on
small instances, and TLAPS proofs for every instance.

`PROJECT.json` is the machine-readable companion: components, runs, the lines of
source each definition stands for, findings, hazards, mutants and theorems.

Check a run with `tlc -workers 2 -config Pipeline.cfg MCChunkPipeline`, the
proofs of a component with `tlapm ChunkPipelineProofs.tla` and the like.

## 1. Inventory

| part | state | operations | hard part | what makes it correct |
|---|---|---|---|---|
| `chunk.Writer` (`internal/chunk/writer.go`) | dirty chunks, `uploading` map, dirty bytes | WriteAt, Flush, Sync, Truncate, Close, `uploadOne` goroutines | request threads and upload goroutines share the maps; failed uploads put their chunk back; the handle can close meanwhile | an accepted write is never lost, a synced one is on the channel; one upload per slot |
| upload pool, barrier, staging dir (`pool.go`, `persist.go`) | semaphore, staged bytes, per-inode pending counts, `pending/<ino>/<idx>_<size>` files, PendingIndex | AcquireStaged, Submit, WaitInode, Drain, Shutdown, Persist/DeletePending | two gates and a lock; files survive a kill | gates never deadlock; a staged file exists until its row does |
| `chunk.Packer` (`packer.go`) | pending wires, byte count, wake token | Submit, flush loop, DropInode, Close | producers, ticker and Close meet in a `select`; a batch half fails | every wire answered once, rows point at disjoint parts of a blob |
| recovery of pending wires (`cmd/telfs/main.go`) | staged files found at mount | scan, submit | runs beside new handles | every staged wire lands; nothing newer is overwritten |
| `meta.Store` (`internal/meta`) | inode, dirent, chunk_map, journal, kv tables | CreateChild, Link, Unlink, Rename, SetSize, PutChunk, DeleteChunksAbove | rename over a target, hard links, cascades | link counts exact, a connected tree, no row of a missing inode |
| journal and poster (`meta/journal.go`, `snapshot/journal_poster.go`) | journal rows with a posted flag | append (in the transaction), drainOnce | uploaded but not marked: posted again | replaying a batch again changes nothing |
| snapshot manager (`snapshot/manager.go`, `snapshot.go`) | stored seq, counter baseline, snapshots on the channel | Once, Synced, retention | several steps, each may fail or be the last one | a lost database comes back; `Synced` tells the truth |
| rebuild (`main.go` tryRecover, `tg/journal.go`, `meta/replay.go`) | - | ListJournalOps, ReplayOp | duplicates, operations the snapshot already has | result is a state the file system was in |
| cache, reader, prefetchers (`chunk/cache.go`, `memcache.go`, `reader.go`, `blobprefetch.go`) | memory and disk LRU, singleflight, covered spans, queue | Get, PutDecoded, Invalidate, readAt, Note, fetchSpan | a fetch finishing after an invalidation; a row appearing between two lookups; cancelled leaders | a read misses no accepted chunk, returns the latest one, and whoever waits is woken |
| FUSE directory handlers, trash (`fs/fs.go`, `trash/trash.go`) | trash inode, settings | Mkdir, Create, Link, Rename, Unlink, Rmdir; collector; enable, disable, empty | the collector works through a list while names change; a second process changes the settings | what rm took can be had back until its TTL is over |
| gc, dedup (`main.go` cmdGC, `tg/walk.go`, `meta/chunk.go`) | chunk_blob, message aliveness | walk, classify, refresh, delete, prune | deleting what is about to be referenced; interrupted deletions; two instances on one channel | no live row points at a deleted message, every snapshot left can be replayed |
| repair, fsck (`meta/repair.go`, `web/repair_tracker.go`, `cmd/telfs/fsck.go`) | tracker state, one scan of the staging directory | RepairPartialFiles, fsck --fix | runs on what a crash left, before the staged wires land | nothing a row or a wire still holds is cut off |
| session, session manager, downloads (`tg/session.go`, `manager.go`, `floodwait.go`, watchdog of `main.go`) | bound client, reconnect token, document cache, stall state | Run, UploadDocument, DownloadDocument(Range), stallWatchdog | a connection lost after the post; one that stops answering; expired references | one message per upload, calls end, ranges are exact |
| rate limiter, adaptive controller (`tg/adaptive.go`, `tracker.go`, `ratelimit.go`) | cap, totals, pin, mode | Begin, End, step, SetPinned, SetManualMode, poller, seeding | a step between two changes of the operator; totals of an earlier process | the operator's word is enforced; the cap is cut on floods and only then |
| mount supervisor, mount control, shutdown (`web/supervisor.go`, `mountctl`, `main.go`) | process table of the console, /proc, signals | Reconcile, Start, Stop, UnmountExternal, unmount, shutdown sequence | requests side by side, console restarts, two clocks | one daemon per database, stopped means gone, the final snapshot gets its time |
| login and pages of the web console, config, encryption, metrics, other commands | small or none | | presentation and I/O | |

Interaction: FUSE handlers call the writer under its lock; the writer spawns
`uploadOne` goroutines through the pool; an `uploadOne` stages its wire, then
either uploads it itself or submits it to the packer and waits for the answer;
both routes write a `chunk_map` row through `meta.Store`.  Every namespace
transaction appends a journal row; the poster and the snapshot manager read the
store from their own tickers and write to the channel; the next mount's
`tryRecover` reads the channel and `recoverPending` reads the staging directory.

The hazards of this code, each at its line and with the properties that watch it,
are the `hazards` of `PROJECT.json`.

## 2. Modules

    ChunkPipeline                             write path of one file
        MCChunkPipeline, ChunkPipelineProofs
    WireQueue  <── implements ── Packer       the packer, and what callers rely on
        MCFileSystem, PackerProofs
    ChunkCache ── ReadPath                    the cache; reader, prefetchers and
        MCReadPath, ReadPathProofs            uploads around it
    Namespace ── MetaStore ── FileSystem      operations; the store; FUSE handlers
              \       MCFileSystem            and trash
               \      NamespaceProofs ── FileSystemProofs
                ── Recovery                   journal, snapshots and rebuild
                    MCRecovery, RecoveryProofs
    Session, Documents, RateControl           the Telegram side
        MCTelegram, TelegramProofs
    Repair, GC, Console                       the tools around the daemon
        MCMaintenance, MaintenanceProofs
    Sublists                                  filtered and sorted lists, without
                                              recursion, for Packer and Recovery

A component's theorems are in the module named after it, or after the MC module it is
checked in, with `Proofs`, which extends the component's module: what TLC checks and
what is proved are the same definitions.

### ChunkPipeline
One file, one handle at a time.  A chunk's bytes are the set of write(2) calls
they contain plus a size class; the staging file name and the choice between the
pack and the direct route look at nothing else.

* `NewWriter`, `WriteAt`, `Overwrite`, `EvictOne`/`EvictDone`, `FlushBegin`,
  `SyncBegin`, `DispatchNext`, `FlushEnd`, `SyncEnd`, `Truncate`, `Close`: the
  handle's FUSE requests.  A request that blocks (staging gate, waiting for
  uploads) is a `op` value and continues as a later step.
* `JobDedup` … `JobExit`: `uploadOne`, one step per call that can fail or that
  another goroutine can see, with its three defers (restore, semaphore, delete
  from `uploading`) in their order.
* `PackTake`, `PackUpload`, `PackPut`, `PackPutFails`, `PackUnstage`: the flusher.
* `Unlink`, `DropInode`, `Crash`, `Mount`, `RecoverScan`, `RecoverSubmit`.

`expect` (writes a reader must see), `synced` (writes an fsync has promised) and
`since` are history variables.  `Allow` selects environment behaviours, so that
each known problem is exhibited by a run of its own and the rest of the system is
checked without it:

| behaviour | what it does |
|---|---|
| `truncate`, `unlink` | on in run Pipeline |
| `localFault` | SQLite or disk fails before a wire is staged; on in PipelineLive. A handle closed meanwhile then loses the chunk (`NoLostWrite` is false with it) |
| `reopen` | the file is opened while wires of an earlier mount are queued; breaks `SyncedIsDurable` and `NoLostWrite` (run PipelineReopen) |
| `exitWindow` | a restored chunk is dispatched again before the failed goroutine's next defer deletes `uploading[idx]`, whoever entered it; breaks `UploadsTracked` (run PipelineWindow), and with it `OneUploadPerSlot`, `SyncedIsDurable` and `NoLostWrite` |

`Dispatch` is dispatchFlushLocked as it is: it does not look at `uploading`.  The
window between the two defers is `InExitWindow`, and `exitWindow` lets a dispatch
into it.  The theorems about `TypeOK`, `EntriesOwned` and `NoRowAfterUnlink` hold with
every behaviour on (and so says TLC: one slot, two goroutines, two writes and a crash
with all of `Allow` and dedup have 3,316,575 states), those about the others name
what they exclude (section 4).

With `Dedup` and two slots a dedup hit leaves the wire an earlier failed attempt
staged, and `NothingResurrected` fails as it does after a truncation.

### Packer and WireQueue
`WireQueue` is the promise: wires are taken in order, a batch is answered wire by
wire or failed whole, dropped wires are answered as dropped, nobody is answered
twice.  `Packer` has the byte counter, the wake token, the window timer, the
batch bound, offsets inside the blob, per-wire commits, staging files, `DropInode`
in its two passes and `Close`.  The refinement `ImplementsQueue` maps the batch
and the pending list, concatenated, to the queue.  Two loops of the code are
written without recursion, so that they can be reasoned about: byte counts are the
number of octets of a set of wires (`WireBytes`), and a filtered list is given by the
rank of its members (`Keep` of Sublists).  It is checked beside FileSystem, whose
unlink is a step of its own here; each behaviour of `MCFileSystem` runs one of them.

### ChunkCache and ReadPath
`ChunkCache` has the two LRU tiers, the cache files and the singleflight group;
a call of Get is cut where the code gives up a lock or makes a system call:
`MemGet`, `Lookup`, `ReadFile`, `Promote`, `DropEntry`, `Miss`, `Reread`,
`FetchOK`/`FetchFails`, `WriteBegin`/`WriteEnd`, `Insert`, `Land`.  Bytes are the
message they came from and whether they are whole.  `ReadPath` adds the reader's
three tiers (`GetChunk`, `TryPending`, `Barrier`, and the second look after it),
its read-ahead, the blob prefetcher and the uploads (`Stage`, `PutChunk`,
`Unstage`, `Invalidate`, `End`) that move chunks underneath.  `raced` is a history
variable: slots some use of whose cache entry overlapped the commit of a new row.
The LRU lists are sequences, and `list.Remove` takes out the element at a position.

### Namespace, MetaStore, FileSystem, Recovery
`Namespace` holds the transactions of `internal/meta` as operators on a database
record: the error an operation returns, what it does when it returns none, and
what `ReplayOp` tolerates.  `Ancestors`, which isAncestor climbs, is the least set
that is closed upwards.  `MetaStore` makes them actions.  `FileSystem` has the
FUSE handlers that call them, the detour of Unlink and Rmdir into `/.trash`, the
collector visit by visit, and the trash commands, which run in another process
and take effect at the next mount.  `Recovery` adds the
journal, `Poster.drainOnce`, `Manager.Once` step by step, journal pruning and
retention, crashes with and without loss of the database, and `tryRecover`.
The journal table is a set of rows, and a query with ORDER BY is the list of a
set's members in that order (`InOrder` of Sublists).
`past` is the history of namespace states a recovery may legitimately return to.
`DeleteJournalFails` and `RetentionFails` are the two failures `Once` only logs;
`OnceFails` and `DrainFails` are the returns with an error.

The initial state is a mounted file system with one file, posted and
snapshotted.

### Session, Documents, RateControl
`Session` is the manager's loop, two calls of
UploadDocument with their retries, the flood-wait middleware and the stall watchdog;
time counts samples of the watchdog.  The watchdog asks `pool.Pending.Total()`, so
`Pending` counts only the calls in `Registered`, those the Writer has registered with
the pool.  A snapshot, a journal batch or a recovered wire that hangs alone leaves the
daemon idle in its eyes, and `UploadsSettle` promises nothing of it.  Telegram
(external) posts once per random id, may answer FLOOD_WAIT and may stop answering.
`Documents` is a download through the document cache, with the planning and stitching
of ranges as operators that are compared with the bytes asked for.  `RateControl` is
tracker, controller, limiter, operator and poller; `hist` is a history variable with
the floods that really happened.  The three share no state a property depends on, so
in `MCTelegram` each behaviour runs one of them.

### Repair, GC, Console
`Repair` is one file as sizes: its inode row, its rows, its staged wires, with a
writer that appends, truncates, stages (`Stage`), commits (`Land`) and fails
(`UploadFails`), crashes, the repair pass at mount and from the console, and fsck;
`Readable` are the positions a read can still deliver.  A mount repairs and starts
recoverPending (`due`); `Recover` scans and submits (`queue`), and `LandRecovered`
and `RecoveryFails` are what becomes of each wire.  As in the code they are
registered with nobody: the writer does not wait for them, so one may land over
longer content that the new mount has written.  `RepairKeepsData` excepts that step
(`StaleLands`), a truncation, fsck --fix and sparse files, and nothing else.

`GC` is `cmdGC` step by step against a daemon that uploads, reuses, posts snapshots
and journal batches, and may mount while gc is at work.  The mount goes (`Unmounts`)
before the uploads are drained and the process ends (`DaemonExits`): uploads and a
last snapshot can be under way with gc's guard already passed, and what protects
them is their age.  `Age` therefore says that a row follows its message within
`--min-age` (an hour by default, `main.go:1877`); an upload that a flood wait holds
longer than that between post and row is not covered.

`Console` is the supervisor's table, the process and mount tables of the host, the
shutdown sequence of a daemon with its watchdog, and requests that run side by
side (`Arrive`, `ReconcilePrune`, `ReconcileAdopt`, then `Start…` or `Stop…`).
Behaviours that break a property are named in `Allow` and `Races` and are off:

| behaviour | what it does |
|---|---|
| `mountDuringRepair`, `forcedRepair` (Repair) | a daemon writes while a console repair works from its scan; breaks `RepairKeepsData` |
| `dirtyRestart` (ReadPath) | the daemon dies with uploads under way; adopted files break `CacheFresh` |
| `stopTwice` (Console) | a second Stop or `telfs unmount`: the second SIGTERM skips drain and final snapshot; breaks `ShutdownCompletes` |
| `mountTwice`, `Unnamed` (Console) | `telfs mount` of a profile that has a daemon; the default profile, which is adopted under another key than Start looks for |

## 3. Runs

| run | states | asks |
|---|---|---|
| Pipeline | 423,589 | no accepted write lost, synced writes have rows for good, one upload per slot, an owner for every entry of `uploading`, no row of an unlinked inode; with failures of every call, truncation, unlink, crash, recovery |
| PipelineLive | 77,204 | uploads end, fsync returns, recovery completes; gate of one upload, pool of one slot, dedup, local faults |
| ReadPath | 2,488,550 | a lost chunk is reported only after its upload failed; the cache follows the rows unless a use overlapped a commit; every waiter has a waker |
| FileSystem | 515,272 | link counts, connected tree, no orphan rows, rm is recoverable, replay is idempotent; of the packer disjoint extents, staging until commit, wake signal, refinement of WireQueue, every wire answered while not closing |
| Recovery | 864,138 | a first loss of the database recovers to a past state that is no older than what was safely posted; `Synced` covers the names; retained snapshots are replayable; a quiet system settles |
| Telegram | 463,583 | one message per upload and its id, registered uploads end, no reconnect during a flood wait; ranges exact, expiry only after a rotation during the call; the cap obeys operator and floods |
| Maintenance | 3,591,911 | gc takes nothing a row or a snapshot needs; repair cuts off nothing that can still be had; one daemon per profile, stopped means gone, shutdown completes |
| PipelineReopen, PipelineWindow, ReadStale, RecoverySynced, RecoveryTwice | | violated: section 5 |

Every passing property has a mutant in `PROJECT.json`: a plausible slip in the
mapped code (a dropped guard, a missing reset, an off-by-one) under which the
same run is violated.

`CHECK_DEADLOCK FALSE` throughout: the bounded instances legitimately stop (all
writes and crashes used up, the daemon down, the packer closed).

### Bounds and why they are enough
* **Pipeline**: two slots and two goroutines so that two uploads of one file run
  together, one semaphore slot so that one of them waits; two writes, so that a
  slot is rewritten while its old content is in flight; two size classes, one per
  route; one crash.  A third write and one slot are used in the violation runs,
  where the extra write is the victim.
* **PipelineLive**: one goroutine (the staging gate admits one upload) makes the
  gate block; two slots make a sync wait for it.
* **FileSystem**, packer: three wires of two inodes with a target that two fit in and
  three do not, so that a flush leaves a remainder, a batch has two extents, and
  `DropInode` hits one wire of a batch.
* **ReadPath**: two slots and caches of one chunk, so that every landing evicts; one
  read, one read-ahead and the blob worker, so that a leader, a joined process and
  a span meet on a slot; two versions; one failed or cancelled call.
* **FileSystem**, files: root and three inodes, one plain name beside `.trash`, a clock of
  three with a TTL of two; ticks, moves to the trash, renames and links share a
  budget of three.  A file is trashed, restored and trashed again, or trashed and
  collected; a link is renamed over, directories are nested and renamed over, the
  trash is switched while a collector runs.
* **Recovery**: two operations after the first file, one chunk row, one fault or
  crash, batches of one, one retained snapshot.  With two retained snapshots the
  run has 1,384,302 states and also passes.  No namespace operation happens
  between the reading of the seq and VACUUM INTO (`OpDuringTake = FALSE`): with
  it `FirstLossRecovers` fails, by a rename and a create under the old name that
  are in the copy and are replayed onto it.

* **Telegram**: two uploads, one of them registered, with two attempts, two faults,
  waits shorter, equal and longer than the middleware honours; a document that ends
  inside a block and ranges that start and end inside, on and beyond its boundaries,
  two rotations; caps two steps above and below the start, a ring of one request that
  a second one pushes out, one restart and a request after it.
* **Maintenance**: two slots, the last one short, so that a gap, a missing tail and a
  chunk that grows occur, and two misfortunes, so that a crash can follow a failed
  upload or a recovery be cut off by a second crash (the theorem is about any number);
  four messages of which three are within the page limit, with and without another
  instance on the channel; two requests and two daemons on one mountpoint, with
  deadlines of one and two ticks (what counts is that Stop waits longer). Requests are
  interchangeable, and so are chunk_map keys (`Symmetry`).

### Fairness
* `uploadOne` goroutines, the flusher (a ticker drives it), `recoverPending`,
  `DropInode` and a request in progress keep running: weak fairness.
* `JobAcquireSem` and `DispatchNext` have strong fairness: waiters on a Go channel
  are served in order, and every release of the staging gate wakes the waiters.
* `LoopStop` has strong fairness: Go's `select` chooses at random among ready
  cases, so a closed stop channel is not passed over for ever.
* `OnceStep` and `PostStep`: both loops are driven by tickers.
* `Manager`, `Preflight`, `Watchdog` and every `UploadRuns`: the manager's loop, the
  watchdog's ticker and the calling goroutines.  A wedged connection is not assumed
  to answer; that uploads end nevertheless is what `UploadsSettle` says.
* No application step, crash or failure is fair, and nothing is claimed about the
  end of WriteAt's eviction loop, which failing uploads can feed for ever.

## 4. Proofs

Every theorem holds for all values of the constants that satisfy the named
assumptions of its component's module: any number of slots, goroutines, wires,
inodes, names, uploads, messages and crashes.  TLC evaluates the assumptions in
the runs; hypotheses beyond them are part of a theorem's statement and are named
below.  Each proof goes the same way: an inductive invariant, a lemma per action or
group of actions that preserves it, and the property as a consequence.

| theorem | states | inductive invariant | beyond the assumptions |
|---|---|---|---|
| `TypeCorrect` (ChunkPipelineProofs) | `TypeOK` | itself | - |
| `NoRowsLeft` | `NoRowAfterUnlink` | itself, with `TypeOK` | - |
| `EntriesHaveOwners` | `EntriesOwned` | itself, with `TypeOK` | - |
| `OneUpload` | `OneUploadPerSlot` | `Exclusive` | no `exitWindow` |
| `SyncedStaysDurable` | `SyncedIsDurable` | `Exclusive`, `Durable` | `Plain`: no `exitWindow`, no `reopen`, no dedup |
| `NoWriteLost` | `NoLostWrite` | the same and `Retained` | `NoFault`: `Plain`, no `localFault` |
| `ExtentsNeverOverlap`, `StagedOutlivesCommit`, `FullBufferWakes` (PackerProofs) | `ExtentsDisjoint`, `StagedUntilCommitted`, `FullBufferSignalled` | `PackerInv` | - |
| `PackerImplementsQueue` | `ImplementsQueue` | `PackerInv` | - |
| `WaitersAreWoken` (ReadPathProofs) | `WaitsAreBacked` | `WaitInv` | - |
| `LossNeedsFailure`, `CacheFollowsRows` | `LostOnlyAfterFailure`, `CacheFresh` | `ReadInv` | no `dirtyRestart` |
| `LinkCountsExact`, `StaysATree`, `RowsOwned` (FileSystemProofs) | `NlinkExact`, `TreeConnected`, `RowsHaveInodes` | `FSInv` | - |
| `TrashKeepsFiles`, `ReplayTwiceIsOnce` | `RmIsRecoverable`, `ReplayIdempotent` | `FSInv` | - |
| `FirstLossIsRecovered` (RecoveryProofs) | `FirstLossRecovers` | `RecoveryTypes`, `FirstInv` | `QuietTake`: no operation commits between Take's reading of the seq and VACUUM INTO |
| `PruningStrandsNothing`, `SkippedIsCovered` | `RetainedReplayable`, `SyncedCoversNames` | `RecoveryTypes` with `HeldInv`, with `SyncedInv` | - |
| `UploadsPostOnce`, `WatchdogIsPatient` (TelegramProofs) | `PostsExact`, `QuietDuringFlood` | `SessionInv` | - |
| `DownloadsExact` | `DownloadExact` | `ExactInv` | - |
| `ExpiredIsRotated` | `ExpiredOnlyIfRotated` | `DocumentsInv` | - |
| `LimiterObeys`, `CutsExactly`, `RaisesWhenQuiet` | `RateObeysOperator`, `CutIffFlooded`, `RaiseOnlyWhenQuiet` | `RateInv` | - |
| `GCKeepsRows`, `GCKeepsJournal` (MaintenanceProofs) | `RowsReachable`, `SnapshotsReplayable` | `GCInv` | - |
| `StoppedIsGone` | `StopMeansGone` | `GoneInv` | - |
| `ShutdownRuns` | `ShutdownCompletes` | `PatientInv` | `Patient`: the watchdog is shorter than Stop's wait, no `stopTwice` |
| `OneDaemonPerProfile` | `OneDaemon` | `GoneInv`, `OneInv` | `Sole`: Stop waits at all, every daemon has its TELFS_PROFILE |
| `RepairLosesNothing` | `RepairKeepsData` | `RepairInv` | `Allow = {}`: no `mountDuringRepair`, no `forcedRepair` |

`ExclusiveInvariant` and `RecoveryKeepsTypes` state two of the invariants by
themselves.

The extra hypotheses are what the passing runs assume, too, and each is needed: TLC
finds a counterexample to `OneUploadPerSlot` with `exitWindow`, to `SyncedIsDurable`
and to `NoLostWrite` with `reopen`, with `exitWindow` (one slot, three writes, one
crash) and with dedup (two slots), to `NoLostWrite` with `localFault`, to `CacheFresh`
with `dirtyRestart`, to `FirstLossRecovers` with `OpDuringTake`, to `RepairKeepsData`
with either behaviour, to `ShutdownCompletes` with `stopTwice` and to `OneDaemon` with
an `Unnamed` daemon. `TypeOK`-like facts of Recovery (`RecoveryTypes`) are proved for
every number of losses; `FirstLossRecovers` speaks of the first one, because seqs are
reused after it (finding 5).

### Why the properties are not inductive, and what is

* **One upload per slot.**  `OneUploadPerSlot` says nothing of a goroutine on its
  way out and nothing that stops a dispatch of a slot that is running.  `Exclusive`
  adds: the slot of every goroutine that has not exited is marked
  (`RunningTracked`) and has no other (`OneJobPerSlot`); a slot with dirty bytes has
  at most a goroutine that is exiting (`DirtyIsIdle`); a wire with a waiter has
  exactly one, parked in `packwait` (`WaitersWait`, `WaitersDistinct`), so that the
  packer's answers move only goroutines that wait.
* **Synced is durable.**  A row can be replaced by a dirty chunk, by the chunk a
  goroutine carries, or by a wire left under pending/.  `SyncedEverywhere` asks for
  the synced writes in all of them; `MineHeld` says that what the handle wrote is in
  the copy it works with, which is what makes a successful Sync mean something.
  Both need to know that these copies agree with each other: `Orderly` says where
  the copies of a chunk are at every label of uploadOne, that the packer's wires are
  the staged files of different slots, that an older generation of another size
  exists only while PendingIndex names it, and that recovery runs alone.  The proof
  then reduces every step to what it does to one slot (`Kept`, `Wired`, `Committed`,
  `Unstaged`, `GivenBack`, `Written`, `Sent`) and checks these few moves.
* **No write is lost.**  `Retained`: while the handle is open the working copy has
  all expected writes; when it is closed, the carried chunk or the survivor has
  them.  Close forgets the dirty chunks, so a chunk that is dirty in spite of a
  FLUSH must be staged as it is (`SettledStaged`), and that holds because an upload
  fails only with its wire staged (`FailStaged`).  A local fault breaks exactly this.
* **Packer.**  `PackerInv`: a wire is in one place only, `bufBytes` is the number of
  octets pending, and the rows that point into the message at work have the extents
  of the batch, which are disjoint because the octets before a wire are.  Each wire is
  submitted once, which is the model's Submit.
* **Read path.** `WaitInv`: a flight has a leader that is at work, the barrier's count
  is the number of unfinished uploads, and while it is positive the channel a parked
  reader waits for is still to be closed.  `NotLost`: a reader that has looked at the
  row, then at the staging directory, then waited, can only have missed a chunk that
  landed before its second look.  `AllClean`: outside `raced`, neither tier, nor a
  file, nor a call of Get that is about to store something, holds another message than
  the row or the one to be invalidated.
* **File system.**  `WellFormed` says of the tables that dirents join existing
  inodes, that a directory has one name, that link counts count, that every inode is
  under the root and every row has its inode; NamespaceProofs shows that each
  transaction of `internal/meta` keeps it, and that an operation that has just
  committed may be replayed without effect.  `InTrash`, `StampsPast` and `GCSound`
  relate the history of rm to the stamped names and to the collector's list.
* **Session.**  Each upload is on the channel at most once under its random id
  (`SentOnce`), knows what it has been told (`OnRecord`), and no sleeper outlasts the
  flood wait it was given (`NapsWithinFlood`).
* **Rate control.**  `FloodsAccounted` relates the totals of the tracker, which
  survive a restart, to the floods that happened since the last sample;
  `QuietCounted` the controller's counter to the quiet window; `PollApplied` what the
  poller has read to what it has set.
* **Recovery.**  `FirstLossRecovers` speaks of a database that may be rebuilt at any
  moment, so the invariant has to describe the channel at all of them.  `HistoryInv`:
  the history has one state per operation and ends in the database.  `EntriesInv`:
  every row, on the channel or not, is the operation of its seq (`Genuine`) and may be
  replayed onto the state it led to.  `JournalInv(p)`, `PosterInv(p)`: there is a
  point p up to which the journal is posted, and the poster works from there, with
  the channel ahead of it by at most the batch that is uploaded and not marked.
  `BatchesInv`: from the first entry of any batch on, the batches that follow miss
  nothing.  `ManagerInv`: a snapshot, stored or on its way, is the state of its seq,
  and it or the batches reach as far as what was recorded as safe.  The replay
  then goes through the history from the snapshot's seq: a row that was seen before
  leaves the state alone, the next one makes the next state.  This is where
  `ReplayIdempotent`, proved of the transactions in NamespaceProofs, is used.
  `HeldInv` holds across losses, too: what a snapshot's seq does not cover is an entry
  on the channel or an unposted row, in the tables and in every image of them.
  `SyncedInv` follows the write counter through the steps of `Once`: the baseline is
  recorded last, so nothing is covered before the seq of the snapshot was stored.
* **Downloads.**  `ExactInv` only remembers what a call asks for; the substance is
  in the lemmas about the operators.  `PlanShape`: the parts follow one another from
  the aligned start to the aligned end.  `AlignedRange`: the first part is longer than
  the surplus, because a block boundary is a multiple of the alignment, too.
  `StitchExact`: each row of the stitch gives the bytes from its part on, as many as
  are wanted, whether the document ends before, in or behind the part; the first part
  without its surplus starts at the offset.  `DocumentsInv` adds to
  `ExpiredOnlyIfRotated` that a retry works with a reference of a moment of its own
  call (`RetryFresh`).
* **gc.**  What gc will delete was old and unreferenced when it began and nothing can
  refer to it again (`OldStaysUnreferenced`, `Disposable`): a message in flight is
  young, whether or not the file system is still mounted.  Batches it deletes are
  covered by every snapshot it can see (`JournalCovered`).
* **Repair.**  `WriterAhead`: the writer's size is never behind the inode's, and what it
  still has to upload begins below its own.  `FlyingUp`: an upload under way belongs
  to a mounted daemon.  `FlyingWhole`: it carries its slot as far as the writer's size
  goes, because extending the slot waits for it; so when it replaces a row or a staged
  wire, it is no shorter, except in a sparse file.  Nothing of the kind holds of a
  recovered wire, which is why `StaleLands` is excepted.  `ScanFresh`: a console repair
  runs with nothing mounted, so the wires of its scan are still the staged ones when
  it compares sizes.
* **Console.**  `GoneInv`: a handler's entry names the process it was started for, and
  a closed done channel means that process is dead.  `PatientInv`: a daemon that is
  shutting down has spent exactly as much time on it as the Stop that told it has
  waited, so the watchdog is due before the SIGKILL.  `OneInv`: a reservation has one
  holder, each daemon the console started is under its profile's key until it is
  dead, and a request that has looked at /proc/mounts and not yet taken a daemon in
  still has its mountpoint to do; what a Start forks is decided with the entry in hand.

Arguments over the naturals (positions in a list, the least ancestor set) use the
least-number principle and counting by injections, because the provers cannot
instantiate an induction theorem.  The same principle stands in for induction over
data: a recursive function (the states of a replay, the parts of a range, the rows of
a stitch, a sum over a set) is shown to exist, and to have a property, by looking at
the least argument where it would not.

### Only model-checked

The liveness properties, which are beyond this prover: `UploadsEnd`, `SyncReturns`,
`RecoveryCompletes`, `Answered`, `Settles`, `UploadsSettle`.  Every invariant and
every action property of the passing runs is stated by a theorem.

## 5. Findings

1. **PipelineReopen.** `NewWriter` waits for uploads registered with the pool;
   `recoverPending`'s wires are not.  A file reopened, written and fsynced while
   such a wire is queued gets the older content over the synced row.
2. **PipelineWindow.** A failed upload's restore defer and the defer that deletes
   `uploading[idx]` are two lock sections (`writer.go:843-890`).  A dispatch of the
   restored chunk in between enters the slot, and the old goroutine deletes the new
   entry, so that the next write does not wait for the upload under way, although
   `uploading` is said to track "chunks whose data is no longer in `dirty` but whose
   upload hasn't finished" (`writer.go:103`).
3. **ReadStale.** `Cache.Get` stores what it fetched without a second look at the
   row; a fetch of the old message that ends after `Invalidate` leaves old bytes
   under the key of the new row.
4. **RecoverySynced.** The write-counter baseline is read after the upload, so a
   row committed after the copy counts as covered.
5. **RecoveryTwice.** Seqs are reused after a recovery, so a second recovery can
   stop its scan early at a reused seq.

Further behaviours the models show, without a run of their own:

* Truncate leaves the staged wire of a failed upload, and the next mount uploads it
  (`NothingResurrected`, one slot, `Allow = {"truncate"}`, one crash); a dedup hit
  does the same.
* Flush returns before its goroutines have staged, so a kill after close(2) can
  lose a chunk (`CloseSurvivesKill`, one slot, one crash).
* Close of the packer flushes at most one batch (`CloseUnblocks` of Packer).
* A recovered wire that lands over longer content shortens the chunk
  (`RepairKeepsData` without `StaleLands`, one crash): finding 1 on sizes.
* A second stop of a daemon cuts its shutdown short (`Races = {"stopTwice"}`),
  while the supervisor's comment says that it always gets to finish; a Stop that
  meets a Start's reservation returns when Start does, with the daemon running.
* The first step of the adaptive controller after a restart halves the cap if the
  seeded total has any flood in it.
* `FindDaemonPid` takes the first process whose last argument is the mountpoint, so
  while a second `telfs mount` of that mountpoint is starting, Reconcile may ascribe
  the mount to it and overlook the daemon that serves it.  `OneDaemon` leaves such
  a daemon out.
* gc keeps the chunks the current database references, not those of older
  snapshots it retains, and with a snapshot of its own on a shared channel it takes
  the other instance's chunks.

## 6. Left out

* ChunkPipeline: byte offsets, sizes, tier promotion and sparse files, cancelling
  the pool's context at shutdown, the panic guard, two handles of one inode.  The
  cache is transparent.  `RecoverScan` is one step.  The packer inside
  ChunkPipeline takes any non-empty prefix of its buffer; the byte bound that
  decides its length is Packer's subject.
* ReadPath: offsets within a chunk, reads over several chunks, tiers of different
  chunk sizes, decryption failures.
* Session: login, the order of parts inside an upload, channel creation.
  RateControl: the token bucket and the lanes without a controller.
* GC: batches of deletions are single messages; dates are "younger than the limit"
  or not.  Repair: contents, more than one file, and a third generation of a slot's
  staged wires; recoverPending's scan and its submissions are one step.
* Console: pid reuse, the log files, the parsing of /proc; the start of a daemon
  before it mounts is one step.
* Packer: `uploadWithRetry` is one step that succeeds or gives up; sizes are small
  numbers.
* MetaStore, FileSystem: attributes, modes, times, xattrs, symlink targets, kernel
  caches.
* Recovery: the journal rows of SetSize, the encryption envelope, directories
  below the root, a channel without a snapshot.  `sort.Slice` over the journal
  entries is not stable; until a database has been lost equal seqs are copies of
  one operation, and copies are harmless (`ReplayIdempotent`), which is what
  deduplication by seq would achieve.  The write counter and its baseline are one
  flag, `fresh`.
* Cryptography, compression, configuration, metrics, the login dialogue, pages and
  templates of the web console, the reports of the command line: codecs, I/O and
  presentation.

## 7. Plan

Modelled and checked: the write and the read path, packer, namespace and trash,
journal, snapshots and recovery, the Telegram side, gc, repair, mount control.
Proved: every safety property the passing runs check (section 4).

What a next step would take up is the model, not the proofs: two handles on one
inode, and Flush's SetSize against a truncation, which need the writer's state twice
and sizes beside contents; Submit against Close of the packer; the login dialogue's
channel of one.  A proof of `FirstLossRecovers` for later losses needs the code to
stop reusing seqs (finding 5).
