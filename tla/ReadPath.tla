------------------------------ MODULE ReadPath ------------------------------
(***************************************************************************)
(* chunk.Reader on one file: the three-tier read (chunk_map row and cache, *)
(* staging directory, read-after-write barrier), its read-ahead, the blob  *)
(* prefetcher, and the uploads that move the file's chunks underneath it.  *)
(*                                                                         *)
(* Message v holds the extents of every slot uploaded as version v.        *)
(***************************************************************************)
EXTENDS ChunkCache

CONSTANTS
    Readers,     \* FUSE reads that run at once
    Ahead,       \* prefetchOne goroutines the reader's semaphore admits
    Blob,        \* the blob prefetcher's worker
    QueueCap,    \* capacity of BlobPrefetcher.queue
    Allow,       \* "dirtyRestart": the daemon dies with uploads under way
    MaxReads, MaxUploads, MaxFaults     \* bounds

ASSUME ReadAssumption ==
    /\ Procs = Readers \cup Ahead \cup {Blob}
    /\ Readers \cap Ahead = {} /\ Blob \notin Readers \cup Ahead
    /\ Allow \subseteq {"dirtyRestart"}
    /\ QueueCap \in Nat /\ MaxReads \in Nat /\ MaxFaults \in Nat
    /\ MaxUploads \in Nat

VARIABLES
    row,       \* chunk_map: message of each slot, 0 = no row
    staged,    \* pending/: version of the staged wire, 0 = no file
    upc,       \* where the upload of each slot is
    uver,      \* the version the writer has dispatched last
    sized,     \* slots below inodes.size
    count,     \* PendingInodes.counts[ino]
    drain,     \* generation of PendingInodes.drains[ino]
    rpc,       \* where each read is
    inSize,    \* reads that found their slot below the size
    parked,    \* the drain generation a read waits for
    covered,   \* BlobPrefetcher.covered
    queue,     \* BlobPrefetcher.queue
    todo,      \* the span's extents the worker has still to land
    raced,     \* history: a commit overlapped a use of the slot's cache entry
    failed,    \* history: an upload of the slot has failed
    reads, uploads, faults

fileVars == <<row, staged, upc, uver, sized, count, drain>>
readVars == <<rpc, inSize, parked>>
blobVars == <<covered, queue, todo>>
histVars == <<raced, failed>>
bounds == <<reads, uploads, faults>>
vars == <<cacheVars, getVars, fileVars, readVars, blobVars, histVars, bounds>>

Init ==
    /\ CacheInit
    /\ \/ row = [k \in Idx |-> 0] /\ sized = {}      \* a new file
       \/ row = [k \in Idx |-> 1] /\ sized = Idx     \* one uploaded earlier
    /\ uver = row /\ staged = [k \in Idx |-> 0]
    /\ upc = [k \in Idx |-> "idle"] /\ uploads = 0
    /\ count = 0 /\ drain = 0
    /\ rpc = [r \in Readers |-> "idle"] /\ inSize = {}
    /\ parked = [r \in Readers |-> 0]
    /\ covered = {} /\ queue = <<>> /\ todo = <<>>
    /\ raced = {} /\ failed = {}
    /\ reads = 0 /\ faults = 0

-----------------------------------------------------------------------------
(* The upload of a slot, as the reader sees it *)

\* Someone is between its row lookup and its result for slot k.
Using(k) == {p \in Procs : gpc[p] # "idle" /\ gkey[p] = k}
            \cup {p \in {Blob} : \E m \in 1..Len(todo) : todo[m].key = k}

\* A cache file without an entry, which Invalidate does not remove.
Orphan(k) == FileExists(k) /\ ~Cached(k)

\* The row is new and the cache may still hold the old chunk.
Replacing(k) == upc[k] \in {"committed", "unstaged", "invalidating"}

\* Flush dispatches the slot's new content: Register arms the barrier.
Dispatch(k) ==
    /\ upc[k] = "idle" /\ uver[k] < MaxVer
    /\ uploads < MaxUploads /\ uploads' = uploads + 1
    /\ upc' = [upc EXCEPT ![k] = "dispatched"]
    /\ uver' = [uver EXCEPT ![k] = @ + 1]
    /\ count' = count + 1
    /\ UNCHANGED <<cacheVars, getVars, row, staged, sized, drain, readVars,
                   blobVars, histVars, reads, faults>>

\* A restored chunk is dispatched again.
Redispatch(k) ==
    /\ upc[k] = "failed"
    /\ upc' = [upc EXCEPT ![k] = "dispatched"]
    /\ count' = count + 1
    /\ UNCHANGED <<cacheVars, getVars, row, staged, uver, sized, drain,
                   readVars, blobVars, histVars, bounds>>

\* Flush's SetSize, once the slot is dispatched.
SetSize(k) ==
    /\ uver[k] # 0 /\ k \notin sized
    /\ sized' = sized \cup {k}
    /\ UNCHANGED <<cacheVars, getVars, row, staged, upc, uver, count, drain,
                   readVars, blobVars, histVars, bounds>>

UploadStep(k, from, to) == upc[k] = from /\ upc' = [upc EXCEPT ![k] = to]

Stage(k) ==
    /\ UploadStep(k, "dispatched", "staged")
    /\ staged' = [staged EXCEPT ![k] = uver[k]]
    /\ UNCHANGED <<cacheVars, getVars, row, uver, sized, count, drain,
                   readVars, blobVars, histVars, bounds>>

PutChunk(k) ==
    /\ UploadStep(k, "staged", "committed")
    /\ row' = [row EXCEPT ![k] = uver[k]]
    /\ raced' = IF Using(k) # {} \/ Orphan(k) THEN raced \cup {k} ELSE raced \ {k}
    /\ UNCHANGED <<cacheVars, getVars, staged, uver, sized, count, drain,
                   readVars, blobVars, failed, bounds>>

Unstage(k) ==
    /\ UploadStep(k, "committed", "unstaged")
    /\ staged' = [staged EXCEPT ![k] = 0]
    /\ UNCHANGED <<cacheVars, getVars, row, uver, sized, count, drain,
                   readVars, blobVars, histVars, bounds>>

\* Cache.Invalidate: the memory tier, then the LRU and the file.
Invalidate(k) ==
    /\ \/ UploadStep(k, "unstaged", "invalidating") /\ InvalidateMem(k)
       \/ UploadStep(k, "invalidating", "invalid") /\ InvalidateDisk(k)
    /\ raced' = IF Using(k) # {} THEN raced \cup {k} ELSE raced
    /\ UNCHANGED <<getVars, row, staged, uver, sized, count, drain, readVars,
                   blobVars, failed, bounds>>

\* Mutant: the channel of the batch is not closed.
EndSilent == count' = count - 1 /\ UNCHANGED drain

\* Reservation.Release and PendingInodes.End: the last one closes the channel.
End == /\ count' = count - 1
       /\ drain' = IF count = 1 THEN drain + 1 ELSE drain

Release(k) ==
    /\ UploadStep(k, "invalid", "idle")
    /\ End
    /\ UNCHANGED <<cacheVars, getVars, row, staged, uver, sized, readVars,
                   blobVars, histVars, bounds>>

\* The upload or the row fails after staging; the chunk is dirty again.
UploadFails(k) ==
    /\ faults < MaxFaults /\ faults' = faults + 1
    /\ UploadStep(k, "staged", "failed")
    /\ End
    /\ failed' = failed \cup {k}
    /\ UNCHANGED <<cacheVars, getVars, row, staged, uver, sized, readVars,
                   blobVars, raced, reads, uploads>>

-----------------------------------------------------------------------------
(* Reader.readAt and fetchOne *)

\* Reader.inflight: a slot has at most one prefetch.
Prefetching(k) == \E q \in Ahead : gpc[q] # "idle" /\ gkey[q] = k

\* scheduleAheadFromBatch: the next slot, when it has a row, is not cached and
\* is not in flight.
Schedulable(k) == k + 1 \in Idx /\ row[k + 1] # 0 /\ ~Cached(k + 1)
                  /\ ~Prefetching(k + 1)

\* noteBlobLocality and Note: a cold packed extent that no span covers yet is
\* queued, or dropped when the queue is full.
Cold(k, v) == ~Cached(k) /\ <<v, k>> \notin covered
Budget(v, k) == {<<v, i>> : i \in {i \in Idx : i >= k}}
Note(k, v) ==
    IF Cold(k, v) /\ Len(queue) < QueueCap
    THEN /\ covered' = covered \cup Budget(v, k)
         /\ queue' = Append(queue, [msg |-> v, from |-> k])
         /\ UNCHANGED todo
    ELSE UNCHANGED blobVars

\* The read starts: the size, the rows of the range in one SELECT, the
\* read-ahead, and the cache when the slot has a row.  A seek cancels the
\* prefetches of the old position first.
ReadAt(r, k, seek) ==
    LET cut == IF seek THEN {q \in Ahead : gpc[q] # "idle"} ELSE {}
        ahead == {q \in Ahead : gpc[q] = "idle"}
        go == Schedulable(k) /\ ahead # {}
        q == CHOOSE q \in ahead : TRUE
        hit == row[k] # 0
        starts == (IF hit THEN {r} ELSE {}) \cup (IF go THEN {q} ELSE {})
        slotOf(p) == IF p = r THEN k ELSE k + 1
    IN /\ rpc[r] = "idle" /\ reads < MaxReads /\ reads' = reads + 1
       /\ seek => cut # {}
       /\ rpc' = [rpc EXCEPT ![r] = IF hit THEN "get" ELSE "row"]
       /\ inSize' = IF k \in sized THEN inSize \cup {r} ELSE inSize \ {r}
       /\ gpc' = [p \in Procs |->
                     IF p \in starts THEN "mem" ELSE gpc[p]]
       /\ gkey' = [p \in Procs |-> IF p \in starts \cup {r} THEN slotOf(p)
                                   ELSE gkey[p]]
       /\ gmsg' = [p \in Procs |-> IF p \in starts THEN row[slotOf(p)]
                                   ELSE gmsg[p]]
       /\ gdata' = [p \in Procs |-> IF p \in starts THEN None ELSE gdata[p]]
       /\ tries' = [p \in Procs |-> IF p \in starts THEN 0 ELSE tries[p]]
       /\ canceled' = (canceled \cup cut) \ (starts \cup {r})
       /\ IF hit THEN Note(k, row[k]) ELSE UNCHANGED blobVars
       /\ UNCHANGED <<cacheVars, fileVars, parked, histVars, uploads,
                      faults>>

\* GetChunk for a slot the batch did not have, before and after the barrier.
GetChunk(r) ==
    LET k == gkey[r]
    IN /\ rpc[r] \in {"row", "rerow"}
       /\ \/ /\ row[k] # 0
             /\ Enter(r, k, row[k], "mem")
             /\ rpc' = [rpc EXCEPT ![r] = "get"]
             /\ IF rpc[r] = "row" THEN Note(k, row[k]) ELSE UNCHANGED blobVars
          \/ /\ row[k] = 0
             /\ rpc' = [rpc EXCEPT ![r] =
                           IF rpc[r] = "rerow" THEN "restage"
                           ELSE IF r \in inSize THEN "stage" ELSE "eof"]
             /\ UNCHANGED <<gpc, gkey, gmsg, gdata, tries, blobVars>>
       /\ UNCHANGED <<cacheVars, canceled, fileVars, inSize, parked, histVars,
                      bounds>>

\* tryPendingFallback: decode the staged wire, if there is one.
TryPending(r) ==
    /\ rpc[r] \in {"stage", "restage"}
    /\ rpc' = [rpc EXCEPT ![r] =
                  IF staged[gkey[r]] # 0 THEN "decoded"
                  ELSE IF rpc[r] = "stage" THEN "barrier" ELSE "lost"]
    /\ UNCHANGED <<cacheVars, getVars, fileVars, inSize, parked, blobVars,
                   histVars, bounds>>

\* Mutant: no barrier, the read gives up when row and wire are both missing.
BarrierSkipped(r) ==
    /\ rpc[r] = "barrier"
    /\ rpc' = [rpc EXCEPT ![r] = "lost"]
    /\ UNCHANGED <<cacheVars, getVars, fileVars, inSize, parked, blobVars,
                   histVars, bounds>>

\* PendingInodes.Wait: remember the current batch's channel, if there is one.
Barrier(r) ==
    /\ rpc[r] = "barrier"
    /\ rpc' = [rpc EXCEPT ![r] = IF count = 0 THEN "rerow" ELSE "parked"]
    /\ parked' = [parked EXCEPT ![r] = drain]
    /\ UNCHANGED <<cacheVars, getVars, fileVars, inSize, blobVars, histVars,
                   bounds>>

\* The channel is closed, or the request is interrupted.
Unpark(r) ==
    /\ rpc[r] = "parked"
    /\ \/ drain # parked[r] /\ rpc' = [rpc EXCEPT ![r] = "rerow"]
       \/ Canceled(r) /\ rpc' = [rpc EXCEPT ![r] = "canceled"]
    /\ UNCHANGED <<cacheVars, getVars, fileVars, inSize, parked, blobVars,
                   histVars, bounds>>

\* The kernel interrupts a read.
Interrupt(r) ==
    /\ faults < MaxFaults /\ faults' = faults + 1
    /\ rpc[r] \in {"get", "parked"} /\ ~Canceled(r)
    /\ canceled' = canceled \cup {r}
    /\ UNCHANGED <<cacheVars, gpc, gkey, gmsg, gdata, tries, fileVars,
                   readVars, blobVars, histVars, reads, uploads>>

\* The read returns: bytes, an error of the cache, or "data lost".
ReadEnd(r) ==
    /\ \/ rpc[r] = "get" /\ gpc[r] \in {"done", "error"}
       \/ rpc[r] \in {"decoded", "eof", "canceled", "lost"}
    /\ Leave(r)
    /\ rpc' = [rpc EXCEPT ![r] = "idle"]
    /\ inSize' = inSize \ {r}
    /\ parked' = [parked EXCEPT ![r] = 0]
    /\ UNCHANGED <<cacheVars, fileVars, blobVars, histVars, bounds>>

\* prefetchOne returns; it has no use for the bytes and ignores errors.
PrefetchEnd(q) ==
    /\ gpc[q] \in {"done", "error"} /\ Leave(q)
    /\ UNCHANGED <<cacheVars, fileVars, readVars, blobVars, histVars, bounds>>

-----------------------------------------------------------------------------
(* BlobPrefetcher.worker *)

\* The uncached extents of the message, forward from the missed one.
Extents(span) == {k \in Idx : k >= span.from /\ row[k] = span.msg /\ ~Cached(k)}
Ascending(S) == [m \in 1..Cardinality(S) |->
                    CHOOSE k \in S : Cardinality({i \in S : i <= k}) = m]

\* fetchSpan up to the download: fewer than two extents are not worth it (the
\* region stays covered); a success narrows the covered region to what was
\* fetched, a failed download uncovers it again.
FetchSpan ==
    LET span == Head(queue)
        S == Extents(span)
    IN /\ gpc[Blob] = "idle" /\ todo = <<>> /\ queue # <<>>
       /\ queue' = Tail(queue)
       /\ \/ /\ Cardinality(S) < 2
             /\ UNCHANGED <<covered, todo, faults>>
          \/ /\ Cardinality(S) >= 2
             /\ todo' = [m \in 1..Cardinality(S) |->
                            [key |-> Ascending(S)[m], msg |-> span.msg]]
             /\ covered' = (covered \ Budget(span.msg, span.from)) \cup
                            {<<span.msg, k>> : k \in {k \in Idx : k >= span.from
                                               /\ \E i \in S : k <= i}}
             /\ UNCHANGED faults
          \/ /\ Cardinality(S) >= 2
             /\ faults < MaxFaults /\ faults' = faults + 1
             /\ covered' = covered \ Budget(span.msg, span.from)
             /\ UNCHANGED todo
       /\ UNCHANGED <<cacheVars, getVars, fileVars, readVars, histVars, reads,
                      uploads>>

\* The next extent of the span: PutDecoded, a no-op when a Get has landed it.
LandExtent ==
    LET x == Head(todo)
    IN /\ gpc[Blob] = "idle" /\ todo # <<>>
       /\ todo' = Tail(todo)
       /\ IF Cached(x.key) THEN UNCHANGED <<gpc, gkey, gdata>>
          ELSE /\ gpc' = [gpc EXCEPT ![Blob] = "write"]
               /\ gkey' = [gkey EXCEPT ![Blob] = x.key]
               /\ gdata' = [gdata EXCEPT ![Blob] = [ver |-> x.msg, whole |-> TRUE]]
       /\ UNCHANGED <<cacheVars, gmsg, tries, canceled, fileVars, readVars,
                      covered, queue, histVars, bounds>>

BlobStep ==
    FetchSpan \/ LandExtent \/ PrefetchEnd(Blob)

\* Get's steps, of a read or of a prefetch; failed fetches are counted.
CacheStep(p) ==
    /\ GetStep(p)
    /\ IF gpc[p] = "fetch" /\ gpc'[p] # "write" /\ ~Canceled(p)
       THEN faults < MaxFaults /\ faults' = faults + 1
       ELSE UNCHANGED faults
    /\ raced' = IF Replacing(gkey[p]) THEN raced \cup {gkey[p]} ELSE raced
    /\ UNCHANGED <<fileVars, readVars, blobVars, failed, reads, uploads>>

-----------------------------------------------------------------------------
(* The daemon goes down and comes back: the directory and the rows stay *)

Restart ==
    /\ faults < MaxFaults /\ faults' = faults + 1
    /\ "dirtyRestart" \in Allow \/ \A k \in Idx : upc[k] = "idle"
    /\ AdoptExisting
    /\ gpc' = [p \in Procs |-> "idle"] /\ gkey' = [p \in Procs |-> AnyIdx]
    /\ gmsg' = [p \in Procs |-> 0] /\ gdata' = [p \in Procs |-> None]
    /\ tries' = [p \in Procs |-> 0] /\ canceled' = {}
    /\ rpc' = [r \in Readers |-> "idle"] /\ inSize' = {}
    /\ parked' = [r \in Readers |-> 0]
    /\ upc' = [k \in Idx |-> "idle"] /\ count' = 0
    /\ covered' = {} /\ queue' = <<>> /\ todo' = <<>>
    /\ UNCHANGED <<row, staged, uver, sized, drain, histVars, reads, uploads>>

UploadNext(k) ==
    \/ Redispatch(k) \/ Stage(k) \/ PutChunk(k) \/ Unstage(k) \/ Invalidate(k)
    \/ Release(k)

ReaderNext(r) ==
    \/ GetChunk(r) \/ TryPending(r) \/ Barrier(r) \/ Unpark(r) \/ ReadEnd(r)
    \/ CacheStep(r)

AheadNext(q) == PrefetchEnd(q) \/ CacheStep(q)

Next ==
    \/ \E k \in Idx : Dispatch(k) \/ SetSize(k) \/ UploadFails(k) \/ UploadNext(k)
    \/ \E r \in Readers, k \in Idx, seek \in BOOLEAN : ReadAt(r, k, seek)
    \/ \E r \in Readers : Interrupt(r) \/ ReaderNext(r)
    \/ \E q \in Ahead : AheadNext(q)
    \/ BlobStep \/ CacheStep(Blob)
    \/ Restart

Spec == Init /\ [][Next]_vars

-----------------------------------------------------------------------------
(* Properties *)

\* Every variable of the read path has its type; the LRU lists stay within
\* their capacities and name a slot once (evictLocked, MemCache.Put).
TypeOK ==
    /\ CacheTypeOK
    /\ row \in [Idx -> Versions] /\ staged \in [Idx -> Versions]
    /\ uver \in [Idx -> Versions] /\ sized \subseteq Idx
    /\ upc \in [Idx -> {"idle", "dispatched", "staged", "committed", "unstaged",
                        "invalidating", "invalid", "failed"}]
    /\ count \in 0..Cardinality(Idx) /\ drain \in Nat
    /\ rpc \in [Readers -> {"idle", "row", "get", "stage", "barrier", "parked",
                            "rerow", "restage", "decoded", "eof", "canceled",
                            "lost"}]
    /\ inSize \subseteq Readers /\ parked \in [Readers -> Nat]
    /\ covered \subseteq Versions \X Idx
    /\ queue \in Seq([msg : Versions, from : Idx]) /\ Len(queue) <= QueueCap
    /\ todo \in Seq([key : Idx, msg : Versions]) /\ raced \subseteq Idx /\ failed \subseteq Idx

Fresh(k) ==
    /\ Cached(k) /\ FileExists(k) => file[k].ver = row[k]
    /\ MemHit(k) => MemData(k).ver = row[k]

\* Cache.Invalidate after an overwrite: outside the window in which the row is
\* new and the entry old, neither tier serves another message than the row
\* names, unless a read or prefetch of the slot overlapped that window.  The
\* claim spans the reader, the prefetchers, the uploader and clean restarts.
CacheFresh == \A k \in Idx : ~Replacing(k) /\ k \notin raced => Fresh(k)

\* What the comment of Invalidate promises without that exception: "Used after
\* a chunk overwrite so subsequent reads don't return stale data".
OverwriteVisible == \A k \in Idx : ~Replacing(k) => Fresh(k)

\* fetchOne reports "data lost" for a slot below the size only when an upload
\* of the slot has failed: row, staging file and barrier leave no gap through
\* which a dispatched chunk is invisible.
LostOnlyAfterFailure == \A r \in Readers : rpc[r] = "lost" => gkey[r] \in failed

\* Whoever waits is woken: a read parked on the barrier waits for a channel
\* that an upload under way will close, and a process that shares a miss waits
\* for a leader that is at work on it.
WaitsAreBacked ==
    /\ \A r \in Readers : rpc[r] = "parked" /\ drain = parked[r] => count > 0
    /\ \A p \in Procs : gpc[p] = "joined" =>
          /\ flight[gkey[p]] # NoProc
          /\ gpc[flight[gkey[p]]] \in {"reread", "redrop", "fetch", "write",
                                       "writing", "insert"}
          /\ gkey[flight[gkey[p]]] = gkey[p]

=============================================================================
