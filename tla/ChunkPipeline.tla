---------------------------- MODULE ChunkPipeline ----------------------------
(***************************************************************************)
(* The write path of one file: the per-handle chunk.Writer, the uploadOne  *)
(* goroutines it spawns, the packer's flusher, the pending/ staging        *)
(* directory, the chunk_map rows, and what a daemon crash and the next     *)
(* mount's recoverPending do to them.                                      *)
(*                                                                         *)
(* A chunk's bytes are abstracted to the set of write(2) calls they hold   *)
(* (every write adds an id to the content it was applied to) and to a size *)
(* class, which is all that the staging file's name and the pack/direct    *)
(* routing look at.  The cache is transparent here: preloading a chunk     *)
(* returns the content of its row.  Byte offsets and file sizes are not    *)
(* modelled.                                                               *)
(***************************************************************************)
EXTENDS Naturals, Sequences, FiniteSets, FiniteSetsExt

CONSTANTS
    Idx,           \* chunk slots of the file
    Jobs,          \* uploadOne goroutines the staging allowance admits at once
    NoJob,         \* waiter of a wire nobody waits for (recoverPending's)
    Concurrency,   \* capacity of UploadPool.sem
    PackThreshold, \* chunks of a size class below this take the pack route
    DirtyCap,      \* dirty size above which WriteAt dispatches eagerly
    Dedup,         \* the cipher is deterministic: dedupEnabled()
    Allow,         \* behaviours of the environment this instance admits
    MaxWrites,     \* bound: write(2) calls
    MaxCrashes     \* bound: daemon crashes

(***************************************************************************)
(* "reopen":     the file is opened for writing while wires of an earlier  *)
(*               handle or mount are still staged for it                   *)
(* "exitWindow": a chunk restored by a failed uploadOne is dispatched      *)
(*               again before that goroutine has run its remaining defers  *)
(* "truncate":   the handle is truncated to a chunk boundary               *)
(* "localFault": the local database or disk fails before a wire is staged  *)
(* "unlink":     the file is unlinked                                      *)
(***************************************************************************)
Behaviours == {"reopen", "exitWindow", "truncate", "localFault", "unlink"}

ASSUME PipelineAssumption ==
    /\ Idx \subseteq Nat
    /\ Idx # {}
    /\ IsFiniteSet(Idx)
    /\ IsFiniteSet(Jobs)
    /\ NoJob \notin Jobs
    /\ Concurrency \in Nat \ {0}
    /\ PackThreshold \in Nat
    /\ DirtyCap \in Nat
    /\ Dedup \in BOOLEAN
    /\ Allow \subseteq Behaviours
    /\ MaxWrites \in Nat
    /\ MaxCrashes \in Nat

VARIABLES
    up,         \* the daemon process is running
    live,       \* the inode exists
    open,       \* the handle's Writer exists and is not closed
    op,         \* what the handle's current FUSE request is doing
    todo,       \* Flush/Sync: the toFlush snapshot, still to dispatch
    settled,    \* a FLUSH has completed since the last WRITE
    dirty,      \* w.dirty
    uploading,  \* keys of w.uploading
    pc,         \* where each uploadOne goroutine is
    slot,       \* the chunk index it uploads
    data,       \* the dirtyChunk it carries
    sem,        \* goroutines holding a slot of UploadPool.sem
    packQ,      \* the batch the flusher has taken, then Packer.pending
    taken,      \* how many wires at the front of packQ are that batch
    packPc,     \* where the flusher is
    row,        \* chunk_map: content of the message each row points at
    shared,     \* rows whose message is the one chunk_blob lists for its hash
    staged,     \* files under pending/
    index,      \* PendingIndex: size class of the recorded path, 0 = no entry
    scanDue,    \* recoverPending has been started and has not scanned yet
    recTodo,    \* recoverPending: paths found by the scan, not yet submitted
    dropDue,    \* the inode-deleted callback has not run yet
    since,      \* history: writes accepted before the handle was opened
    expect,     \* history: write ids accepted for each slot and not overwritten
    flushed,    \* history: what the last successful Flush covered
    synced,     \* history: what the last successful Sync covered
    writes, crashes

handleVars == <<open, op, todo, settled, dirty, uploading>>
jobVars    == <<pc, slot, data, sem>>
packVars   == <<packQ, taken, packPc>>
diskVars   == <<row, shared, staged>>
recVars    == <<index, scanDue, recTodo, dropDue>>
bounds     == <<writes, crashes>>
histVars   == <<since, expect, flushed, synced>>
vars == <<up, live, handleVars, jobVars, packVars, diskVars, recVars, histVars,
          bounds>>

-----------------------------------------------------------------------------
(* Chunk contents *)

Writes == 1..MaxWrites
SizeClass == 1..2
Content == [ids : SUBSET Writes, n : 0..2]
Empty == [ids |-> {}, n |-> 0]      \* no bytes: nil slice, no row, no file

WireOf(i, c, j) == [idx |-> i, c |-> c, job |-> j]

\* Mutant: the write is appended to the chunk instead of extending it to its end.
LargerAppends(m, n) == m + n

Larger(m, n) == IF m > n THEN m ELSE n

-----------------------------------------------------------------------------
(* The staging directory.  A file is named ino-idx-plaintextSize, so a slot *)
(* has at most one file per size class; "cur" is the most recently written  *)
(* of them and "old" the other one, if it exists.                           *)

NoFiles == [cur |-> Empty, old |-> Empty]

PersistPending(s, c) ==
    IF s.cur.n = c.n THEN [cur |-> c, old |-> s.old]
                     ELSE [cur |-> c, old |-> s.cur]

DeletePending(s, n) ==
    IF s.cur.n = n THEN [cur |-> s.old, old |-> Empty]
    ELSE IF s.old.n = n THEN [cur |-> s.cur, old |-> Empty]
    ELSE s

\* What os.ReadFile returns for the path of size class n.
FileAt(s, n) == IF n # 0 /\ s.cur.n = n THEN s.cur
                ELSE IF n # 0 /\ s.old.n = n THEN s.old ELSE Empty

-----------------------------------------------------------------------------
(* chunk_map and chunk_blob *)

PutRow(i, c) ==
    /\ row' = [row EXCEPT ![i] = c]
    /\ shared' = shared \ {i}

\* ReuseChunkByHash: the hash is indexed and some row still references the
\* indexed message.
Reusable(c) == \E k \in shared : row[k] = c

ReuseChunkByHash(i, c) ==
    /\ row' = [row EXCEPT ![i] = c]
    /\ shared' = shared \cup {i}

\* RecordChunkBlob: the index entry of this content moves to row i's message.
RecordChunkBlob(i, c) ==
    shared' = IF row[i] = c
              THEN {k \in shared : row[k] # c} \cup {i}
              ELSE {k \in shared : row[k] # c}

-----------------------------------------------------------------------------
HomeSlot == CHOOSE i \in Idx : TRUE

Init ==
    /\ up = TRUE /\ live = TRUE
    /\ open = FALSE /\ op = "idle" /\ todo = {} /\ settled = TRUE
    /\ dirty = [i \in Idx |-> Empty]
    /\ uploading = {}
    /\ pc = [j \in Jobs |-> "none"]
    /\ slot = [j \in Jobs |-> HomeSlot]
    /\ data = [j \in Jobs |-> Empty]
    /\ sem = {}
    /\ packQ = <<>> /\ taken = 0 /\ packPc = "idle"
    /\ row = [i \in Idx |-> Empty] /\ shared = {}
    /\ staged = [i \in Idx |-> NoFiles]
    /\ index = [i \in Idx |-> 0]
    /\ scanDue = FALSE
    /\ recTodo = [i \in Idx |-> 0]
    /\ dropDue = FALSE
    /\ since = 0
    /\ expect = [i \in Idx |-> {}]
    /\ flushed = [i \in Idx |-> {}]
    /\ synced = [i \in Idx |-> {}]
    /\ writes = 0 /\ crashes = 0

-----------------------------------------------------------------------------
(* The handle: NewWriter, WriteAt, Flush, Sync, Truncate, Close *)

NothingStaged == /\ \A i \in Idx : staged[i] = NoFiles /\ recTodo[i] = 0
                 /\ ~scanDue

\* NewWriter waits until no upload of this inode is registered with the pool.
NewWriter ==
    /\ up /\ live /\ ~open
    /\ \A j \in Jobs : pc[j] = "none"
    /\ "reopen" \in Allow \/ NothingStaged
    /\ open' = TRUE /\ settled' = TRUE
    /\ since' = writes
    /\ UNCHANGED <<up, live, op, todo, dirty, uploading, jobVars, packVars,
                   diskVars, recVars, expect, flushed, synced, bounds>>

\* Mutants: no wait for the upload in flight; no preload of the stored chunk.
LoadableNoWait(i) == i \in Idx
LoadForWriteNoPreload(i) == dirty[i]

\* loadForWrite blocks while the slot is being uploaded, then preloads the
\* row's content.
Loadable(i) == dirty[i] # Empty \/ i \notin uploading
LoadForWrite(i) == IF dirty[i] # Empty THEN dirty[i] ELSE row[i]

WriteAt(i, n) ==
    LET w == writes + 1
        base == LoadForWrite(i)
    IN /\ up /\ open /\ op = "idle"
       /\ writes < MaxWrites
       /\ Loadable(i)
       /\ dirty' = [dirty EXCEPT ![i] =
                      [ids |-> base.ids \cup {w}, n |-> Larger(base.n, n)]]
       /\ expect' = [expect EXCEPT ![i] = @ \cup {w}]
       /\ op' = "evict" /\ settled' = FALSE
       /\ writes' = w
       /\ UNCHANGED <<up, live, open, todo, uploading, jobVars, packVars,
                      diskVars, recVars, since, flushed, synced, crashes>>

\* A WriteAt that covers the whole chunk with bytes some row already holds:
\* the only way two uploads can have the same hash.
Overwrite(i, c) ==
    /\ Dedup
    /\ up /\ open /\ op = "idle"
    /\ writes < MaxWrites
    /\ Loadable(i)
    /\ c # Empty /\ c.n >= LoadForWrite(i).n
    /\ dirty' = [dirty EXCEPT ![i] = c]
    /\ expect' = [expect EXCEPT ![i] = c.ids]
    /\ flushed' = [flushed EXCEPT ![i] = {}]
    /\ synced' = [synced EXCEPT ![i] = {}]
    /\ op' = "evict" /\ settled' = FALSE
    /\ writes' = writes + 1
    /\ UNCHANGED <<up, live, open, todo, uploading, jobVars, packVars,
                   diskVars, recVars, since, crashes>>

DirtyBytes == MapThenSumSet(LAMBDA i : dirty[i].n, Idx)
DirtySlots == {i \in Idx : dirty[i] # Empty}

\* dispatchFlushLocked: pop the chunk, mark the slot in flight, spawn uploadOne.
Dispatch(i) ==
    /\ dirty[i] # Empty
    /\ \E j \in Jobs :
         /\ pc[j] = "none"
         /\ pc' = [pc EXCEPT ![j] = "start"]
         /\ slot' = [slot EXCEPT ![j] = i]
         /\ data' = [data EXCEPT ![j] = dirty[i]]
    /\ dirty' = [dirty EXCEPT ![i] = Empty]
    /\ uploading' = uploading \cup {i}
    /\ UNCHANGED sem

\* The window between two defers of uploadOne: slot i's chunk is dirty again and
\* the goroutine that restored it has yet to delete its entry.
InExitWindow(i) ==
    dirty[i] # Empty /\ \E j \in Jobs : pc[j] = "exit" /\ slot[j] = i

\* WriteAt's eager dispatch loop (the FIFO choice of the victim is left open).
EvictOne(i) ==
    /\ up /\ op = "evict" /\ DirtyBytes > DirtyCap
    /\ Dispatch(i)
    /\ UNCHANGED <<up, live, open, op, todo, settled, packVars, diskVars,
                   recVars, histVars, bounds>>

EvictDone ==
    /\ up /\ op = "evict" /\ DirtyBytes <= DirtyCap
    /\ op' = "idle"
    /\ UNCHANGED <<up, live, open, todo, settled, dirty, uploading, jobVars,
                   packVars, diskVars, recVars, histVars, bounds>>

\* AcquireStaged returned the interrupted request's ctx error: the popped chunk
\* goes back to dirty and WriteAt or Sync fails.  Flush runs WithoutCancel.
GateCanceled ==
    /\ up
    /\ \/ op = "evict" /\ DirtyBytes > DirtyCap
       \/ op = "sync" /\ todo \cap DirtySlots # {}
    /\ op' = "idle" /\ todo' = {}
    /\ UNCHANGED <<up, live, open, settled, dirty, uploading, jobVars,
                   packVars, diskVars, recVars, histVars, bounds>>

Begin(kind) ==
    /\ up /\ open /\ op = "idle"
    /\ op' = kind /\ todo' = DirtySlots
    /\ UNCHANGED <<up, live, open, settled, dirty, uploading, jobVars,
                   packVars, diskVars, recVars, histVars, bounds>>

FlushBegin == Begin("flush")
SyncBegin == Begin("sync")

\* One iteration of the dispatch loop of Flush or Sync.
DispatchNext(i) ==
    /\ up /\ op \in {"flush", "sync"} /\ i \in todo
    /\ todo' = todo \ {i}
    /\ \/ Dispatch(i)
       \/ dirty[i] = Empty /\ UNCHANGED <<dirty, uploading, jobVars>>
    /\ UNCHANGED <<up, live, open, op, settled, packVars, diskVars, recVars,
                   histVars, bounds>>

FlushEnd ==
    /\ up /\ op = "flush" /\ todo = {}
    /\ op' = "idle" /\ settled' = TRUE
    /\ flushed' = IF live THEN expect ELSE flushed
    /\ UNCHANGED <<up, live, open, todo, dirty, uploading, jobVars, packVars,
                   diskVars, recVars, since, expect, synced, bounds>>

\* The writes this handle made to slot i that still count.
Mine(i) == {w \in expect[i] : w > since}

\* Sync waits for uploadWg, then succeeds if nothing was restored to dirty and
\* SetSize finds the inode; it covers what was written through this handle.
SyncEnd ==
    /\ up /\ op = "sync" /\ todo = {}
    /\ \A j \in Jobs : pc[j] = "none"
    /\ op' = "idle"
    /\ \/ /\ live /\ DirtySlots = {}
          /\ synced' = [i \in Idx |-> synced[i] \cup Mine(i)]
       \/ UNCHANGED synced
    /\ UNCHANGED <<up, live, open, todo, settled, dirty, uploading, jobVars,
                   packVars, diskVars, recVars, since, expect, flushed,
                   bounds>>

\* Truncate to k chunks.  Setattr calls it without the handle's lock, so it
\* may run between two steps of another request of the handle.
Truncate(k) ==
    LET kept(f, none) == [i \in Idx |-> IF i < k THEN f[i] ELSE none]
    IN /\ "truncate" \in Allow
       /\ up /\ open
       /\ \A i \in uploading : i + 1 < k
       /\ dirty' = kept(dirty, Empty)
       /\ row' = kept(row, Empty)
       /\ shared' = {i \in shared : i < k}
       /\ expect' = kept(expect, {})
       /\ flushed' = kept(flushed, {})
       /\ synced' = kept(synced, {})
       /\ UNCHANGED <<up, live, open, op, todo, settled, uploading, jobVars,
                      packVars, staged, recVars, since, bounds>>

\* FUSE RELEASE, which the kernel sends after a FLUSH.
Close ==
    /\ up /\ open /\ op = "idle" /\ settled
    /\ open' = FALSE
    /\ dirty' = [i \in Idx |-> Empty]
    /\ uploading' = {}
    /\ UNCHANGED <<up, live, op, todo, settled, jobVars, packVars, diskVars,
                   recVars, histVars, bounds>>

-----------------------------------------------------------------------------
(* uploadOne, one step per point where another actor can intervene *)

Goto(j, label) == pc' = [pc EXCEPT ![j] = label]

\* Content-addressed reuse, or straight on when the cipher is not deterministic.
JobDedup(j) ==
    /\ up /\ pc[j] = "start"
    /\ \/ /\ Dedup /\ Reusable(data[j])
          /\ ReuseChunkByHash(slot[j], data[j])
          /\ Goto(j, "exit")
       \/ /\ ~(Dedup /\ Reusable(data[j]))
          /\ Goto(j, "stage")
          /\ UNCHANGED <<row, shared>>
       \/ /\ "localFault" \in Allow
          /\ Goto(j, "fail")
          /\ UNCHANGED <<row, shared>>
    /\ UNCHANGED <<up, live, handleVars, slot, data, sem, packVars, staged,
                   recVars, histVars, bounds>>

\* PersistPending: the wire is renamed into place.
JobStage(j) ==
    /\ up /\ pc[j] = "stage"
    /\ \/ /\ staged' = [staged EXCEPT ![slot[j]] = PersistPending(@, data[j])]
          /\ Goto(j, "record")
       \/ /\ "localFault" \in Allow
          /\ Goto(j, "fail")
          /\ UNCHANGED staged
    /\ UNCHANGED <<up, live, handleVars, slot, data, sem, packVars, row,
                   shared, recVars, histVars, bounds>>

\* Delete the previous generation the index knows of, record the new path, and
\* take the pack or the direct route.
JobRecord(j) ==
    LET i == slot[j]
        old == index[i]
    IN /\ up /\ pc[j] = "record"
       /\ staged' = IF old # 0 /\ old # data[j].n
                    THEN [staged EXCEPT ![i] = DeletePending(@, old)]
                    ELSE staged
       /\ index' = [index EXCEPT ![i] = data[j].n]
       /\ \/ /\ data[j].n < PackThreshold
             /\ packQ' = Append(packQ, WireOf(i, data[j], j))
             /\ Goto(j, "packwait")
          \/ /\ data[j].n >= PackThreshold
             /\ Goto(j, "slot")
             /\ UNCHANGED packQ
       /\ UNCHANGED <<up, live, handleVars, slot, data, sem, taken, packPc,
                      row, shared, scanDue, recTodo, dropDue, histVars,
                      bounds>>

JobAcquireSem(j) ==
    /\ up /\ pc[j] = "slot"
    /\ Cardinality(sem) < Concurrency
    /\ sem' = sem \cup {j}
    /\ Goto(j, "upload")
    /\ UNCHANGED <<up, live, handleVars, slot, data, packVars, diskVars,
                   recVars, histVars, bounds>>

\* uploadWithRetry returned a message id, or gave up.
JobUpload(j) ==
    /\ up /\ pc[j] = "upload"
    /\ Goto(j, "put") \/ Goto(j, "fail")
    /\ UNCHANGED <<up, live, handleVars, slot, data, sem, packVars, diskVars,
                   recVars, histVars, bounds>>

\* PutChunk: the row lands, the database fails, or the inode is gone and the
\* staged wire is dropped with the chunk.
JobPutChunk(j) ==
    LET i == slot[j]
    IN /\ up /\ pc[j] = "put"
       /\ \/ /\ live
             /\ PutRow(i, data[j])
             /\ Goto(j, "unstage")
             /\ UNCHANGED <<staged, index>>
          \/ /\ Goto(j, "fail")
             /\ UNCHANGED <<row, shared, staged, index>>
          \/ /\ ~live
             /\ staged' = [staged EXCEPT ![i] = DeletePending(@, data[j].n)]
             /\ index' = [index EXCEPT ![i] = 0]
             /\ Goto(j, "exit")
             /\ UNCHANGED <<row, shared>>
       /\ UNCHANGED <<up, live, handleVars, slot, data, sem, packVars,
                      scanDue, recTodo, dropDue, histVars, bounds>>

JobUnstage(j) ==
    LET i == slot[j]
    IN /\ up /\ pc[j] = "unstage"
       /\ staged' = [staged EXCEPT ![i] = DeletePending(@, data[j].n)]
       /\ index' = [index EXCEPT ![i] = 0]
       /\ Goto(j, IF Dedup THEN "blob" ELSE "exit")
       /\ UNCHANGED <<up, live, handleVars, slot, data, sem, packVars, row,
                      shared, scanDue, recTodo, dropDue, histVars, bounds>>

\* The best-effort dedup index update.
JobRecordBlob(j) ==
    /\ up /\ pc[j] = "blob"
    /\ RecordChunkBlob(slot[j], data[j]) \/ UNCHANGED shared
    /\ Goto(j, "exit")
    /\ UNCHANGED <<up, live, handleVars, slot, data, sem, packVars, row,
                   staged, recVars, histVars, bounds>>

\* Mutant: a failed upload is not put back.
JobRestoreNothing(j) ==
    /\ up /\ pc[j] = "fail"
    /\ Goto(j, "exit")
    /\ UNCHANGED <<up, live, handleVars, slot, data, sem, packVars, diskVars,
                   recVars, histVars, bounds>>

\* The restore-on-failure defer.
JobRestore(j) ==
    LET i == slot[j]
    IN /\ up /\ pc[j] = "fail"
       /\ dirty' = IF open /\ dirty[i] = Empty
                   THEN [dirty EXCEPT ![i] = data[j]] ELSE dirty
       /\ Goto(j, "exit")
       /\ UNCHANGED <<up, live, open, op, todo, settled, uploading, slot,
                      data, sem, packVars, diskVars, recVars, histVars,
                      bounds>>

\* Mutant: the reservation's semaphore slot is not released.
JobExitLeaks(j) ==
    /\ up /\ pc[j] = "exit"
    /\ uploading' = uploading \ {slot[j]}
    /\ Goto(j, "none")
    /\ slot' = [slot EXCEPT ![j] = HomeSlot]
    /\ data' = [data EXCEPT ![j] = Empty]
    /\ UNCHANGED <<up, live, open, op, todo, settled, dirty, sem, packVars,
                   diskVars, recVars, histVars, bounds>>

\* Mutant: a goroutine that has put its chunk back leaves its entry.
JobExitKeepsEntry(j) ==
    /\ up /\ pc[j] = "exit"
    /\ uploading' = IF dirty[slot[j]] # Empty THEN uploading
                     ELSE uploading \ {slot[j]}
    /\ sem' = sem \ {j}
    /\ Goto(j, "none")
    /\ slot' = [slot EXCEPT ![j] = HomeSlot]
    /\ data' = [data EXCEPT ![j] = Empty]
    /\ UNCHANGED <<up, live, open, op, todo, settled, dirty, packVars,
                   diskVars, recVars, histVars, bounds>>

\* The remaining defers: delete(w.uploading, idx), close(doneCh), res.Release,
\* uploadWg.Done.
JobExit(j) ==
    /\ up /\ pc[j] = "exit"
    /\ uploading' = uploading \ {slot[j]}
    /\ sem' = sem \ {j}
    /\ Goto(j, "none")
    /\ slot' = [slot EXCEPT ![j] = HomeSlot]
    /\ data' = [data EXCEPT ![j] = Empty]
    /\ UNCHANGED <<up, live, open, op, todo, settled, dirty, packVars,
                   diskVars, recVars, histVars, bounds>>

-----------------------------------------------------------------------------
(* The packer's flusher *)

\* flush takes a non-empty prefix of the buffer (its length is a matter of
\* bytes: module Packer).
PackTake ==
    /\ up /\ packPc = "idle"
    /\ taken' \in 1..Len(packQ)
    /\ packPc' = "upload"
    /\ UNCHANGED <<up, live, handleVars, jobVars, packQ, diskVars, recVars,
                   histVars, bounds>>

\* The goroutines waiting for the wires at positions S receive their result.
Answer(S, label) ==
    pc' = [j \in Jobs |-> IF \E m \in S : packQ[m].job = j
                          THEN label ELSE pc[j]]

PackUpload ==
    /\ up /\ packPc = "upload"
    /\ \/ packPc' = "put" /\ UNCHANGED <<packQ, taken, pc>>
       \/ /\ packPc' = "idle"
          /\ Answer(1..taken, "fail")
          /\ packQ' = SubSeq(packQ, taken + 1, Len(packQ))
          /\ taken' = 0
    /\ UNCHANGED <<up, live, handleVars, slot, data, sem, diskVars, recVars,
                   histVars, bounds>>

\* Mutant: the waiter of a handled wire gets no result.
PackPopSilent(label) ==
    /\ packQ' = Tail(packQ)
    /\ taken' = taken - 1
    /\ packPc' = IF taken = 1 THEN "idle" ELSE "put"
    /\ UNCHANGED pc

PackPop(label) ==
    /\ Answer({1}, label)
    /\ packQ' = Tail(packQ)
    /\ taken' = taken - 1
    /\ packPc' = IF taken = 1 THEN "idle" ELSE "put"

\* Mutant: the flusher tries the same wire again instead of failing it.
PackPutRetries ==
    /\ up /\ packPc = "put"
    /\ packPc' = "upload"
    /\ UNCHANGED <<up, live, handleVars, jobVars, packQ, taken, diskVars,
                   recVars, histVars, bounds>>

\* The database fails for the first wire left in the batch.
PackPutFails ==
    /\ up /\ packPc = "put"
    /\ PackPop("fail")
    /\ UNCHANGED <<up, live, handleVars, slot, data, sem, diskVars, recVars,
                   histVars, bounds>>

\* Mutant: the row is written without the foreign-key check.
PackPutUnchecked ==
    LET w == Head(packQ)
    IN /\ up /\ packPc = "put"
       /\ PutRow(w.idx, w.c)
       /\ packPc' = "unstage"
       /\ UNCHANGED <<up, live, handleVars, jobVars, packQ, taken, staged,
                      recVars, histVars, bounds>>

PackPut ==
    LET w == Head(packQ)
    IN /\ up /\ packPc = "put" /\ live
       /\ PutRow(w.idx, w.c)
       /\ packPc' = "unstage"
       /\ UNCHANGED <<up, live, handleVars, jobVars, packQ, taken, staged,
                      recVars, histVars, bounds>>

\* The row landed, or the inode is gone: drop the staged wire and answer.
PackUnstage ==
    LET w == Head(packQ)
    IN /\ up
       /\ packPc = "unstage" \/ (packPc = "put" /\ ~live)
       /\ staged' = [staged EXCEPT ![w.idx] = DeletePending(@, w.c.n)]
       /\ index' = [index EXCEPT ![w.idx] = 0]
       /\ PackPop("exit")
       /\ UNCHANGED <<up, live, handleVars, slot, data, sem, row, shared,
                      scanDue, recTodo, dropDue, histVars, bounds>>

-----------------------------------------------------------------------------
(* Unlink, crash, remount *)

\* The last link goes: the inode and, by cascade, its rows; the callback runs
\* later in a goroutine of its own.
Unlink ==
    /\ "unlink" \in Allow
    /\ up /\ live
    /\ live' = FALSE
    /\ row' = [i \in Idx |-> Empty] /\ shared' = {}
    /\ dropDue' = TRUE
    /\ expect' = [i \in Idx |-> {}]
    /\ flushed' = [i \in Idx |-> {}]
    /\ synced' = [i \in Idx |-> {}]
    /\ UNCHANGED <<up, handleVars, jobVars, packVars, staged, index, scanDue,
                   recTodo, since, bounds>>

\* Packer.DropInode and PendingIndex.DropByIno.
DropInode ==
    LET buffered == taken + 1 .. Len(packQ)
        paths(i) == {packQ[m].c.n : m \in {m \in buffered : packQ[m].idx = i}}
        drop(s, n, i) == IF n \in paths(i) THEN DeletePending(s, n) ELSE s
    IN /\ up /\ dropDue
       /\ dropDue' = FALSE
       /\ Answer(buffered, "exit")
       /\ packQ' = SubSeq(packQ, 1, taken)
       /\ staged' = [i \in Idx |-> drop(drop(staged[i], 1, i), 2, i)]
       /\ index' = [i \in Idx |-> 0]
       /\ UNCHANGED <<up, live, handleVars, slot, data, sem, taken, packPc,
                      row, shared, scanDue, recTodo, histVars, bounds>>

\* What the next mount can rebuild a slot from.
Survivor(i) == IF staged[i].cur # Empty THEN staged[i].cur ELSE row[i]

\* SIGKILL: only the database and the files under pending/ remain.  From here
\* on the file is expected to hold the writes that survived.
Crash ==
    /\ up /\ crashes < MaxCrashes
    /\ up' = FALSE
    /\ open' = FALSE /\ op' = "idle" /\ todo' = {} /\ settled' = TRUE
    /\ dirty' = [i \in Idx |-> Empty]
    /\ uploading' = {}
    /\ pc' = [j \in Jobs |-> "none"]
    /\ slot' = [j \in Jobs |-> HomeSlot]
    /\ data' = [j \in Jobs |-> Empty]
    /\ sem' = {}
    /\ packQ' = <<>> /\ taken' = 0 /\ packPc' = "idle"
    /\ index' = [i \in Idx |-> 0]
    /\ scanDue' = FALSE
    /\ recTodo' = [i \in Idx |-> 0]
    /\ dropDue' = FALSE
    /\ expect' = [i \in Idx |-> expect[i] \cap Survivor(i).ids]
    /\ crashes' = crashes + 1
    /\ UNCHANGED <<live, diskVars, since, flushed, synced, writes>>

\* The next mount starts recoverPending in the background.
Mount ==
    /\ ~up
    /\ up' = TRUE
    /\ scanDue' = TRUE
    /\ flushed' = [i \in Idx |-> {}]
    /\ UNCHANGED <<live, handleVars, jobVars, packVars, diskVars, index,
                   recTodo, dropDue, since, expect, synced, bounds>>

\* ScanPending, the duplicate-generation guard, and the orphan pass.
RecoverScan ==
    /\ up /\ scanDue
    /\ scanDue' = FALSE
    /\ staged' = [i \in Idx |->
                     IF live THEN [cur |-> staged[i].cur, old |-> Empty]
                             ELSE NoFiles]
    /\ recTodo' = [i \in Idx |-> IF live THEN staged[i].cur.n ELSE 0]
    /\ UNCHANGED <<up, live, handleVars, jobVars, packVars, row, shared,
                   index, dropDue, histVars, bounds>>

\* Record the path, read the file, submit it to the packer.
RecoverSubmit(i) ==
    LET wire == FileAt(staged[i], recTodo[i])
    IN /\ up /\ recTodo[i] # 0
       /\ recTodo' = [recTodo EXCEPT ![i] = 0]
       /\ index' = [index EXCEPT ![i] = recTodo[i]]
       /\ packQ' = IF wire # Empty THEN Append(packQ, WireOf(i, wire, NoJob))
                   ELSE packQ
       /\ UNCHANGED <<up, live, handleVars, jobVars, taken, packPc, diskVars,
                      scanDue, dropDue, histVars, bounds>>

-----------------------------------------------------------------------------
HandleStep ==
    \/ NewWriter \/ EvictDone \/ GateCanceled \/ FlushBegin \/ SyncBegin
    \/ FlushEnd \/ SyncEnd \/ Close
    \/ \E i \in Idx : /\ "exitWindow" \in Allow \/ ~InExitWindow(i)
                      /\ EvictOne(i) \/ DispatchNext(i)
    \/ \E i \in Idx : \/ \E n \in SizeClass : WriteAt(i, n)
                      \/ \E k \in Idx : Overwrite(i, row[k])
    \/ \E k \in {0} \cup {i + 1 : i \in Idx} : Truncate(k)

JobStep(j) ==
    \/ JobDedup(j) \/ JobStage(j) \/ JobRecord(j) \/ JobAcquireSem(j)
    \/ JobUpload(j) \/ JobPutChunk(j) \/ JobUnstage(j) \/ JobRecordBlob(j)
    \/ JobRestore(j) \/ JobExit(j)

PackStep == PackTake \/ PackUpload \/ PackPutFails \/ PackPut \/ PackUnstage

MountStep == \/ Unlink \/ DropInode \/ Crash \/ Mount \/ RecoverScan
             \/ \E i \in Idx : RecoverSubmit(i)

Next == \/ HandleStep
        \/ \E j \in Jobs : JobStep(j)
        \/ PackStep
        \/ MountStep

Spec == Init /\ [][Next]_vars

\* The goroutines keep running: uploadOne, the flusher (driven by a ticker),
\* recoverPending, and the request in progress.  A goroutine blocked on
\* pool.sem gets its slot in turn (waiters on a Go channel are served in
\* order), hence strong fairness for JobAcquireSem; a request blocked on the
\* staging gate is woken by every release, hence strong fairness for its
\* dispatches.
Fairness ==
    /\ \A j \in Jobs : WF_vars(JobStep(j)) /\ SF_vars(JobAcquireSem(j))
    /\ WF_vars(PackStep)
    /\ WF_vars(RecoverScan) /\ WF_vars(DropInode)
    /\ \A i \in Idx : WF_vars(RecoverSubmit(i)) /\ SF_vars(DispatchNext(i))
    /\ WF_vars(FlushEnd) /\ WF_vars(SyncEnd)

FairSpec == Spec /\ Fairness

-----------------------------------------------------------------------------
(* Properties *)

Labels == {"none", "start", "stage", "record", "packwait", "slot", "upload",
           "put", "unstage", "blob", "fail", "exit"}
Files == [cur : Content, old : Content]
Wires == [idx : Idx, c : Content, job : Jobs \cup {NoJob}]

\* Type invariant of the pipeline's state.
TypeOK ==
    /\ up \in BOOLEAN /\ live \in BOOLEAN /\ open \in BOOLEAN
    /\ op \in {"idle", "evict", "flush", "sync"}
    /\ todo \subseteq Idx /\ settled \in BOOLEAN
    /\ dirty \in [Idx -> Content]
    /\ uploading \subseteq Idx
    /\ pc \in [Jobs -> Labels]
    /\ slot \in [Jobs -> Idx]
    /\ data \in [Jobs -> Content]
    /\ sem \subseteq Jobs
    /\ packQ \in Seq(Wires) /\ taken \in 0..Len(packQ)
    /\ packPc \in {"idle", "upload", "put", "unstage"}
    /\ packPc # "idle" => taken # 0
    /\ row \in [Idx -> Content] /\ shared \subseteq Idx
    /\ staged \in [Idx -> Files]
    /\ index \in [Idx -> 0..2]
    /\ scanDue \in BOOLEAN /\ dropDue \in BOOLEAN
    /\ recTodo \in [Idx -> 0..2]
    /\ since \in 0..MaxWrites
    /\ expect \in [Idx -> SUBSET Writes]
    /\ flushed \in [Idx -> SUBSET Writes]
    /\ synced \in [Idx -> SUBSET Writes]
    /\ writes \in 0..MaxWrites
    /\ crashes \in 0..MaxCrashes

\* A goroutine that has not yet committed, staged or restored its chunk.
Busy(j) == pc[j] \notin {"none", "exit"}
BusyOn(i) == {j \in Jobs : Busy(j) /\ slot[j] = i}

\* The freshest copy of slot i: the dirty buffer, else the chunk an upload is
\* carrying, else the staged wire, else the row.
Freshest(i) ==
    IF dirty[i] # Empty THEN dirty[i]
    ELSE IF BusyOn(i) # {} THEN data[CHOOSE j \in BusyOn(i) : TRUE]
    ELSE Survivor(i)

\* What fsync promised stays promised: once Writer.Sync has returned success,
\* every write it covered is in the chunk_map row for good -- through later
\* writes, failed uploads, packer retries, crashes and recoverPending.
SyncedIsDurable == \A i \in Idx : synced[i] \subseteq row[i].ids

\* No write(2) the Writer accepted ever disappears while the daemon runs: the
\* freshest copy of its slot contains it, even when the upload failed after
\* close(2); and whatever was staged at a crash is recovered.
NoLostWrite == live => \A i \in Idx : expect[i] \subseteq Freshest(i).ids

\* Bytes the user has truncated away or overwritten never come back: a row
\* holds no write that is no longer part of the file.
NothingResurrected == \A i \in Idx : row[i].ids \subseteq expect[i]

\* "uploading tracks chunks whose data is no longer in `dirty` but whose upload
\* hasn't finished" (writer.go:103): while the handle is open it names the slot
\* of every upload under way.  False: a chunk dispatched in the exit window loses
\* its entry to the goroutine before it.
UploadsTracked ==
    open => \A j \in Jobs : Busy(j) => slot[j] \in uploading

\* loadForWrite and Truncate never wait for a goroutine that is gone: an entry
\* of w.uploading belongs to an uploadOne that has yet to delete it, whoever
\* entered it, and a new handle starts without entries.
EntriesOwned ==
    \A i \in uploading : \E j \in Jobs : pc[j] # "none" /\ slot[j] = i

\* At most one uploadOne carries a given slot, so two generations of a chunk
\* never race for its chunk_map row.
OneUploadPerSlot ==
    \A j, k \in Jobs : Busy(j) /\ Busy(k) /\ slot[j] = slot[k] => j = k

\* A deleted inode has no chunk_map row, however late its uploads land.
NoRowAfterUnlink == ~live => \A i \in Idx : row[i] = Empty

\* Everything a Flush covered is staged under pending/ or on the channel when
\* close(2) returns, so a kill of the daemon cannot lose it.
CloseSurvivesKill ==
    ~up => \A i \in Idx : flushed[i] \subseteq Survivor(i).ids

\* Every uploadOne goroutine comes to an end, by success, failure or crash: no
\* wire waits for the packer, and no upload for a slot of the pool, for ever.
UploadsEnd == \A j \in Jobs : pc[j] # "none" ~> pc[j] = "none"

\* fsync(2) always returns, even when the staging gate admits fewer uploads
\* than there are dirty chunks and uploads fail and are restored meanwhile.
SyncReturns == op = "sync" ~> op # "sync"

\* recoverPending hands every wire it found to the packer, and the packer is
\* done with each of them: committed, failed, or dropped with its inode.
RecoveryCompletes == scanDue ~> \/ ~up
                                \/ /\ ~scanDue
                                   /\ \A i \in Idx : recTodo[i] = 0
                                   /\ \A m \in 1..Len(packQ) : packQ[m].job # NoJob

=============================================================================
