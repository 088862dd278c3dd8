------------------------------- MODULE Recovery -------------------------------
(***************************************************************************)
(* How the metadata reaches the channel and comes back: the journal table, *)
(* the Poster that uploads it in batches, the snapshot Manager, a crash    *)
(* with or without the local database, and tryRecover with its replay.     *)
(*                                                                         *)
(* The tables and the journaled operations are those of MetaStore, here    *)
(* with one directory of files.  Sizes are left out.  WriteCounter and the *)
(* manager's baseline are abstracted to whether they are equal, which is   *)
(* all anybody asks of them.  Init is a mount with one file, whose create  *)
(* is posted and whose first snapshot has landed.                          *)
(***************************************************************************)
EXTENDS Namespace, Sequences, Functions, Sublists

CONSTANTS
    BatchSize,  \* Poster.BatchSize
    Retention,  \* snapshots pruneRetention keeps
    OpDuringTake, \* an operation may commit between Take's reading of the
                \* journal seq and its VACUUM INTO
    MaxOps,     \* bound: journaled operations
    MaxRows,    \* bound: inodes with chunk_map rows
    MaxTrouble  \* bound: failed uploads, failed local writes and crashes

ASSUME RecoveryAssumption ==
    /\ BatchSize \in Nat \ {0}
    /\ Retention \in Nat \ {0}
    /\ OpDuringTake \in BOOLEAN
    /\ Names # {} /\ RootIno + 1 \in Inos
    /\ {MaxOps, MaxRows, MaxTrouble} \subseteq Nat

VARIABLES
    \* the local database
    db, nextIno,
    journal,  \* rows of the journal table
    lastSeq,  \* sqlite_sequence of journal
    snapSeq,  \* KVCurrentJournalSeq
    \* the channel
    snaps,    \* snapshot messages, oldest first
    batches,  \* journal batch messages, oldest first
    \* the process
    up,
    fresh,    \* WriteCounter() equals a recorded baseline
    mgr,      \* where Manager.Once is
    snap,     \* the Snapshot it is working on
    post,     \* where Poster.drainOnce is
    pending,  \* the entries it has still to post
    lost,     \* the local database is gone
    \* history and bounds
    past,     \* the tables after every operation since the last recovery
    safe,     \* how many of these operations the channel is known to hold
    losses,   \* how often the local database was lost
    ops, trouble

localVars   == <<db, nextIno, journal, lastSeq, snapSeq>>
channelVars == <<snaps, batches>>
mgrVars     == <<mgr, snap>>
postVars    == <<post, pending>>
histVars    == <<past, safe, losses>>
bounds      == <<ops, trouble>>
vars == <<localVars, channelVars, up, fresh, mgrVars, postVars, lost, histVars,
          bounds>>

Store == INSTANCE MetaStore

-----------------------------------------------------------------------------
Entry(s, o) == [seq |-> s, op |-> o, posted |-> FALSE]
Image == [db |-> db, nextIno |-> nextIno, journal |-> journal,
          lastSeq |-> lastSeq, snapSeq |-> snapSeq]
NoSnap == [seq |-> 0, image |-> [db |-> EmptyDB, nextIno |-> RootIno,
                                 journal |-> {}, lastSeq |-> 0,
                                 snapSeq |-> 0]]

\* The local database becomes this image.
Load(image) ==
    /\ db' = image.db
    /\ nextIno' = image.nextIno
    /\ journal' = image.journal
    /\ lastSeq' = image.lastSeq
    /\ snapSeq' = image.snapSeq

\* What the journal is about: the tables without chunk_map.
View(d) == [d EXCEPT !.chunks = {}]

\* The operation with this seq is the how-manyth since the last recovery.
Nth(seq) == seq + Len(past) - 1 - lastSeq
Larger(m, n) == IF m > n THEN m ELSE n

\* The file the mount starts with, and the database that holds it.
FirstOp == OpCreate(RootIno, CHOOSE n \in Names : TRUE, RootIno + 1, "file")
FirstImage == [db |-> Apply(EmptyDB, FirstOp), nextIno |-> RootIno + 1,
               journal |-> {[Entry(1, FirstOp) EXCEPT !.posted = TRUE]},
               lastSeq |-> 1, snapSeq |-> 0]

Init ==
    /\ db = FirstImage.db /\ nextIno = FirstImage.nextIno
    /\ journal = {} /\ lastSeq = 1 /\ snapSeq = 1
    /\ snaps = <<[seq |-> 1, image |-> FirstImage]>>
    /\ batches = <<<<Entry(1, FirstOp)>>>>
    /\ up = TRUE /\ fresh = TRUE /\ lost = FALSE
    /\ mgr = "idle" /\ snap = NoSnap
    /\ post = "idle" /\ pending = <<>>
    /\ past = <<View(db)>> /\ safe = 0
    /\ losses = 0 /\ ops = 0 /\ trouble = 0

-----------------------------------------------------------------------------
(* The file system: MetaStore's operations with their journal rows *)

\* appendJournalTx, in the operation's transaction, which WithTx then counts.
Journaled(o) ==
    /\ up /\ ops < MaxOps
    /\ OpDuringTake \/ mgr # "vacuum"
    /\ journal' = journal \cup {Entry(lastSeq + 1, o)}
    /\ lastSeq' = lastSeq + 1
    /\ fresh' = FALSE
    /\ past' = Append(past, View(db'))
    /\ ops' = ops + 1
    /\ UNCHANGED <<snapSeq, channelVars, up, mgrVars, postVars, lost, safe,
                   losses, trouble>>

CreateChild(n) == /\ Store!CreateChild(RootIno, n, "file")
                  /\ Journaled(OpCreate(RootIno, n, nextIno', "file"))
Link(n, t) == Store!Link(RootIno, n, t) /\ Journaled(OpLink(RootIno, n, t))
Unlink(n) == Store!Unlink(RootIno, n) /\ Journaled(OpUnlink(RootIno, n))
Rename(n, m) == /\ Store!Rename(RootIno, n, RootIno, m)
                /\ Journaled(OpRename(RootIno, n, RootIno, m))

\* An upload's row: counted, not journaled.
PutChunk(i) ==
    /\ up /\ i \notin db.chunks /\ db.kind[i] = "file"
    /\ Cardinality(db.chunks) < MaxRows
    /\ Store!PutChunk(i)
    /\ fresh' = FALSE
    /\ UNCHANGED <<journal, lastSeq, snapSeq, channelVars, up, mgrVars,
                   postVars, lost, histVars, bounds>>

-----------------------------------------------------------------------------
(* Manager.Once *)

\* Mutant: the cycle is skipped on the write counter alone.
SyncedCounterOnly == fresh

\* Synced, and the condition on which Once skips the cycle.
Synced == fresh /\ lastSeq = snapSeq

\* Not skipped: Take reads the journal seq.
OnceBegin ==
    /\ up /\ mgr = "idle" /\ ~Synced
    /\ snap' = [seq |-> lastSeq, image |-> NoSnap.image]
    /\ mgr' = "vacuum"
    /\ UNCHANGED <<localVars, channelVars, up, fresh, postVars, lost, histVars,
                   bounds>>

\* ... and copies the database.
Vacuum ==
    /\ up /\ mgr = "vacuum"
    /\ snap' = [seq |-> snap.seq, image |-> Image]
    /\ mgr' = "upload"
    /\ UNCHANGED <<localVars, channelVars, up, fresh, postVars, lost, histVars,
                   bounds>>

UploadSnapshot ==
    /\ up /\ mgr = "upload"
    /\ snaps' = Append(snaps, snap)
    /\ mgr' = "kv"
    /\ safe' = Larger(safe, Nth(snap.seq))
    /\ UNCHANGED <<localVars, batches, up, fresh, snap, postVars, lost, past,
                   losses, bounds>>

\* storeCurrentMsgID and storeCurrentJournalSeq.
StoreCurrent ==
    /\ up /\ mgr = "kv"
    /\ snapSeq' = snap.seq
    /\ fresh' = FALSE
    /\ mgr' = "prune"
    /\ UNCHANGED <<db, nextIno, journal, lastSeq, channelVars, up, snap,
                   postVars, lost, histVars, bounds>>

\* Mutant: the rows the snapshot covers go, posted or not.
SupersededUnposted(e) == e.seq <= snap.seq

Superseded(e) == e.seq <= snap.seq /\ e.posted

DeleteJournalUpTo ==
    /\ up /\ mgr = "prune"
    /\ journal' = {e \in journal : ~Superseded(e)}
    /\ fresh' = FALSE
    /\ mgr' = "baseline"
    /\ UNCHANGED <<db, nextIno, lastSeq, snapSeq, channelVars, up, snap,
                   postVars, lost, histVars, bounds>>

\* Mutant: the baseline is the counter from before the manager's own writes.
BaselineStale == FALSE

\* The baseline is recorded after the manager's own writes.
Baseline == TRUE

\* setBaseline, then pruneRetention.
OnceEnd ==
    /\ up /\ mgr = "baseline"
    /\ fresh' = Baseline
    /\ snaps' = IF Len(snaps) <= Retention THEN snaps
                ELSE SubSeq(snaps, Len(snaps) - Retention + 1, Len(snaps))
    /\ mgr' = "idle" /\ snap' = NoSnap
    /\ UNCHANGED <<localVars, batches, up, postVars, lost, histVars, bounds>>

\* Both prunings are best effort: an error is logged and the cycle goes on.
DeleteJournalFails ==
    /\ up /\ mgr = "prune" /\ trouble < MaxTrouble
    /\ mgr' = "baseline"
    /\ trouble' = trouble + 1
    /\ UNCHANGED <<localVars, channelVars, up, fresh, snap, postVars, lost,
                   histVars, ops>>

RetentionFails ==
    /\ up /\ mgr = "baseline" /\ trouble < MaxTrouble
    /\ fresh' = Baseline
    /\ mgr' = "idle" /\ snap' = NoSnap
    /\ trouble' = trouble + 1
    /\ UNCHANGED <<localVars, channelVars, up, postVars, lost, histVars, ops>>

\* A step of the cycle returns an error.
OnceFails ==
    /\ up /\ mgr \in {"vacuum", "upload", "kv"} /\ trouble < MaxTrouble
    /\ mgr' = "idle" /\ snap' = NoSnap
    /\ trouble' = trouble + 1
    /\ UNCHANGED <<localVars, channelVars, up, fresh, postVars, lost, histVars,
                   ops>>

-----------------------------------------------------------------------------
(* Poster.drainOnce *)

\* PendingJournal: the rows without posted_at, by seq.
Unposted == InOrder({e \in journal : ~e.posted},
                    {p \in journal \X journal : p[1].seq < p[2].seq})

DrainBegin ==
    /\ up /\ post = "idle" /\ Unposted # <<>>
    /\ pending' = Unposted /\ post' = "upload"
    /\ UNCHANGED <<localVars, channelVars, up, fresh, mgrVars, lost, histVars,
                   bounds>>

Smaller(m, n) == IF m < n THEN m ELSE n
Batch == SubSeq(pending, 1, Smaller(BatchSize, Len(pending)))
Rest == SubSeq(pending, Smaller(BatchSize, Len(pending)) + 1, Len(pending))

UploadJournalOpBatch ==
    /\ up /\ post = "upload"
    /\ batches' = Append(batches, Batch)
    /\ post' = "mark"
    /\ UNCHANGED <<localVars, snaps, up, fresh, mgrVars, pending, lost,
                   histVars, bounds>>

AfterBatch(rest) == IF rest = <<>> THEN "idle" ELSE "upload"

InBatch(s) == \E k \in 1..Len(Batch) : Batch[k].seq = s

BatchMarkJournalPosted ==
    /\ up /\ post = "mark"
    /\ journal' = {[e EXCEPT !.posted = @ \/ InBatch(e.seq)] : e \in journal}
    /\ fresh' = FALSE
    /\ safe' = Larger(safe, Nth(Batch[Len(Batch)].seq))
    /\ pending' = Rest
    /\ post' = AfterBatch(Rest)
    /\ UNCHANGED <<db, nextIno, lastSeq, snapSeq, channelVars, up, mgrVars,
                   lost, past, losses, bounds>>

\* The upload or the update fails; the message may have landed all the same.
DrainFails ==
    /\ up /\ post \in {"upload", "mark"} /\ trouble < MaxTrouble
    /\ post' = "idle" /\ pending' = <<>>
    /\ trouble' = trouble + 1
    /\ UNCHANGED <<localVars, channelVars, up, fresh, mgrVars, lost, histVars,
                   ops>>

-----------------------------------------------------------------------------
(* Crash, remount, recovery *)

\* SIGKILL or power loss; "gone" when the local database does not survive it.
Crash(gone) ==
    /\ up /\ trouble < MaxTrouble
    /\ up' = FALSE
    /\ fresh' = FALSE
    /\ mgr' = "idle" /\ snap' = NoSnap
    /\ post' = "idle" /\ pending' = <<>>
    /\ lost' = gone
    /\ trouble' = trouble + 1
    /\ losses' = IF gone THEN losses + 1 ELSE losses
    /\ IF gone THEN Load(NoSnap.image) ELSE UNCHANGED localVars
    /\ UNCHANGED <<channelVars, past, safe, ops>>

Mount ==
    /\ ~up /\ ~lost
    /\ up' = TRUE
    /\ UNCHANGED <<localVars, channelVars, fresh, mgrVars, postVars, lost,
                   histVars, bounds>>

FirstSeq(b) == b[1].seq
LastSeq(b) == b[Len(b)].seq

\* Mutant: the scan stops at the first batch that overlaps what it needs.
BoundaryOverlap(b, since) == FirstSeq(b) <= since + 2

\* A batch at which ListJournalOps' newest-first scan stops.
Boundary(b, since) == LastSeq(b) <= since \/ FirstSeq(b) <= since + 1

\* The oldest batch the scan looks at.
ScanFrom(since) ==
    LET stops == {m \in 1..Len(batches) : Boundary(batches[m], since)}
    IN IF stops = {} THEN 1 ELSE CHOOSE m \in stops : \A k \in stops : k <= m

\* The messages it returns, ...
JournalMessages(since) ==
    UNION {{[msg |-> m, seq |-> e.seq, op |-> e.op] :
              e \in {e \in Range(batches[m]) : e.seq > since}} :
           m \in ScanFrom(since)..Len(batches)}

\* ... in the order replayJournalSince sorts them.  Which of two equal seqs
\* comes first the code leaves to the sort, but they are copies of one entry
\* until the first recovery, which is as far as the passing properties go.
ListJournalOps(since) ==
    LET found == JournalMessages(since)
        sooner(x, y) == x.seq < y.seq \/ (x.seq = y.seq /\ x.msg < y.msg)
    IN InOrder(found, {p \in found \X found : sooner(p[1], p[2])})

\* The databases of the replay: before the first entry and after each of them.
Replays(d, s) ==
    LET after[k \in 0..Len(s)] ==
          IF k = 0 THEN d ELSE Replay(after[k - 1], s[k].op)
    IN after
ReplayAll(d, s) == Replays(d, s)[Len(s)]

\* Every entry can be replayed on what the ones before it have left.
ReplaySucceeds(d, s) ==
    \A k \in 1..Len(s) : Replayable(Replays(d, s)[k - 1], s[k].op)

NextInoAfter(n, s) ==
    LET created == {s[k].op.ino : k \in {k \in 1..Len(s) : s[k].op.op = "create"}}
    IN CHOOSE m \in {n} \cup created : \A c \in {n} \cup created : c <= m

\* tryRecover: restore the newest snapshot, replay what follows it.  A failed
\* replay leaves the database missing.
Recover ==
    LET newest == snaps[Len(snaps)]
        image == newest.image
        todo == ListJournalOps(newest.seq)
    IN /\ ~up /\ lost
       /\ ReplaySucceeds(image.db, todo)
       /\ Load([image EXCEPT !.db = ReplayAll(@, todo),
                             !.nextIno = NextInoAfter(@, todo)])
       /\ up' = TRUE /\ lost' = FALSE
       /\ past' = <<View(db')>> /\ safe' = 0
       /\ UNCHANGED <<channelVars, fresh, mgrVars, postVars, losses, bounds>>

-----------------------------------------------------------------------------
FileStep ==
    \/ \E n \in Names : \/ CreateChild(n) \/ Unlink(n)
                        \/ \E t \in Inos : Link(n, t)
                        \/ \E m \in Names : Rename(n, m)
    \/ \E i \in Inos : PutChunk(i)

OnceStep == \/ OnceBegin \/ Vacuum \/ UploadSnapshot \/ StoreCurrent
            \/ DeleteJournalUpTo \/ OnceEnd
PostStep == DrainBegin \/ UploadJournalOpBatch \/ BatchMarkJournalPosted

Next == \/ FileStep \/ OnceStep \/ OnceFails \/ DeleteJournalFails
        \/ RetentionFails \/ PostStep \/ DrainFails
        \/ \E gone \in BOOLEAN : Crash(gone)
        \/ Mount \/ Recover

Spec == Init /\ [][Next]_vars

\* The cadence goroutine and the poster keep running on their tickers.
Fairness == WF_vars(OnceStep) /\ WF_vars(PostStep)

FairSpec == Spec /\ Fairness

-----------------------------------------------------------------------------
(* Properties *)

MaxSeq == MaxOps + 1
OpKinds == {"create", "link", "unlink", "rename", "setsize"}
IsRow(e) == e.seq \in 1..MaxSeq /\ e.posted \in BOOLEAN /\ e.op.op \in OpKinds
IsRows(s) == \A k \in 1..Len(s) : IsRow(s[k])

\* Type invariant: the local tables, the channel's messages and the progress
\* of the manager and the poster.
TypeOK ==
    /\ Store!StoreTypeOK
    /\ \A e \in journal : IsRow(e)
    /\ IsRows(pending)
    /\ lastSeq \in 0..MaxSeq /\ snapSeq \in 0..MaxSeq
    /\ \A m \in 1..Len(snaps) : snaps[m].seq \in 0..MaxSeq
    /\ \A m \in 1..Len(batches) : batches[m] # <<>> /\ IsRows(batches[m])
    /\ {up, fresh, lost} \subseteq BOOLEAN
    /\ mgr \in {"idle", "vacuum", "upload", "kv", "prune", "baseline"}
    /\ post \in {"idle", "upload", "mark"}
    /\ (post = "idle") = (pending = <<>>)
    /\ past # <<>> /\ safe \in 0..Len(past) - 1

\* What tryRecover would rebuild if the local database were lost now: one of
\* the states the file system went through, and none older than the last
\* operation the poster or the manager believes to be on the channel.
Recoverable ==
    LET newest == snaps[Len(snaps)]
        todo == ListJournalOps(newest.seq)
    IN /\ ReplaySucceeds(newest.image.db, todo)
       /\ \E k \in safe + 1 .. Len(past) :
             View(ReplayAll(newest.image.db, todo)) = past[k]

\* A database lost for the first time comes back as a prefix of its history,
\* wherever the crash falls between an upload and its bookkeeping, and even
\* though batches are posted twice.
FirstLossRecovers == losses = 0 => Recoverable

\* The same of every loss, also after an earlier recovery.
EveryLossRecovers == Recoverable

\* When Synced says so (and Once skips), the newest snapshot holds the
\* namespace of the local database.
SyncedCoversNames == Synced => View(snaps[Len(snaps)].image.db) = View(db)

\* When Synced says so, the newest snapshot holds everything the local
\* database knows, chunk_map included.
SyncedCoversAll == Synced => snaps[Len(snaps)].image.db = db

\* Journal pruning never strands a retained snapshot: every operation after
\* any snapshot still on the channel is on the channel too, or waits for the
\* poster.
RetainedReplayable ==
    \A m \in 1..Len(snaps) : \A s \in snaps[m].seq + 1 .. lastSeq :
        \/ \E e \in journal : e.seq = s /\ ~e.posted
        \/ \E b \in 1..Len(batches) :
              \E k \in 1..Len(batches[b]) : batches[b][k].seq = s

\* Once the file system is quiet the channel catches up and stays caught up:
\* the poster's and the manager's own writes do not keep each other busy.
Settles == <>[](~up \/ (Synced /\ Unposted = <<>>))

=============================================================================
