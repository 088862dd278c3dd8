---------------------------------- MODULE GC ----------------------------------
(***************************************************************************)
(* telfs gc against everything that puts messages on the channel or        *)
(* references them: uploads, dedup, the snapshot manager and the journal   *)
(* poster, also of a daemon that mounts while gc is at work.               *)
(*                                                                         *)
(* A message is a record; a larger id is newer.  Time is whether a message *)
(* is younger than --min-age.  One content is ever written, so the dedup   *)
(* index has one entry.  A journal message covers the operations up to its *)
(* seq that no earlier one covers.                                         *)
(***************************************************************************)
EXTENDS Integers, FiniteSets

CONSTANTS
    Keys,        \* chunk_map keys
    Retention,   \* snapshot.DefaultRetention
    Pages,       \* messages WalkChannelMessages looks at
    MaxMsgs,     \* bound: messages posted
    MaxAge       \* bound: how often --min-age passes

ASSUME GCAssumption ==
    /\ {Retention, Pages} \subseteq Nat \ {0}
    /\ {MaxMsgs, MaxAge} \subseteq Nat

VARIABLES
    channel,   \* the messages
    young,     \* ids younger than --min-age
    nextId,
    chunkMap,  \* slot -> message id, 0 for none
    blob,      \* message id of the dedup index entry, 0 for none
    current,   \* KVCurrentMsgID
    seq,       \* operations journaled so far
    postedSeq, \* ... and posted
    running,   \* the daemon's process
    mounted,   \* its mount is listed in /proc/mounts
    inflight,  \* slot -> id of a posted message whose row is not there yet
    gc,        \* where cmdGC is
    found,     \* what it has read, and the ids it wants to delete by class
    old,       \* the ids posted before its cutoff
    hidden,    \* snapshots some walk did not get to
    ticks

gcVars == <<channel, young, nextId, chunkMap, blob, current, seq, postedSeq,
            running, mounted, inflight, gc, found, old, hidden, ticks>>
processVars == <<running, mounted>>
daemonVars == <<chunkMap, blob, current, seq, postedSeq, processVars, inflight>>
cmdVars == <<gc, found, old, hidden>>

Ids == 1 .. MaxMsgs
NoId == 0
Kind(k) == {m \in channel : m.own /\ m.kind = k}
Msg(k, s) == [id |-> nextId, kind |-> k, seq |-> s, own |-> TRUE]

\* What another instance has left on the channel, if there is one.
Foreign == {[id |-> 1, kind |-> "chunk", seq |-> 0, own |-> FALSE],
            [id |-> 2, kind |-> "snapshot", seq |-> 0, own |-> FALSE]}
NothingFound == [refs |-> {}, snap |-> NoId, chunk |-> {}, snapshot |-> {}, journal |-> {}]
Empty == [s \in Keys |-> NoId]

GCInit ==
    /\ \/ channel = {} /\ nextId = 1
       \/ channel = Foreign /\ nextId = 3
    /\ young = {}
    /\ chunkMap = Empty /\ blob = NoId
    /\ current = NoId /\ seq = 0 /\ postedSeq = 0
    /\ running = TRUE /\ mounted = TRUE /\ inflight = Empty
    /\ gc = "idle" /\ found = NothingFound /\ old = {}
    /\ hidden = {} /\ ticks = 0

-----------------------------------------------------------------------------
(* The daemon *)

Post(k, s) ==
    /\ nextId \in Ids
    /\ channel' = channel \cup {Msg(k, s)}
    /\ young' = young \cup {nextId}
    /\ nextId' = nextId + 1

\* UploadDocument of a chunk: the message is there before its row is.
Upload(s) ==
    /\ running /\ inflight[s] = NoId
    /\ Post("chunk", 0)
    /\ inflight' = [inflight EXCEPT ![s] = nextId]
    /\ UNCHANGED <<chunkMap, blob, current, seq, postedSeq, processVars, cmdVars, ticks>>

\* PutChunk, then RecordChunkBlob.
PutChunk(s) ==
    /\ running /\ inflight[s] # NoId
    /\ chunkMap' = [chunkMap EXCEPT ![s] = inflight[s]]
    /\ blob' = inflight[s]
    /\ inflight' = [inflight EXCEPT ![s] = NoId]
    /\ UNCHANGED <<channel, young, nextId, current, seq, postedSeq, processVars, cmdVars, ticks>>

\* The aliveness gate: some row still references the message.
Alive(m) == \E s \in Keys : chunkMap[s] = m

\* ReuseChunkByHash, in one transaction.
ReuseChunkByHash(s) ==
    /\ running /\ blob # NoId /\ Alive(blob) /\ inflight[s] = NoId
    /\ chunkMap[s] # blob
    /\ chunkMap' = [chunkMap EXCEPT ![s] = blob]
    /\ UNCHANGED <<channel, young, nextId, blob, current, seq, postedSeq, processVars,
                   inflight, cmdVars, ticks>>

\* Unlink or truncation: the row goes, the message stays.
DropRow(s) ==
    /\ running /\ chunkMap[s] # NoId
    /\ chunkMap' = [chunkMap EXCEPT ![s] = NoId]
    /\ UNCHANGED <<channel, young, nextId, blob, current, seq, postedSeq, processVars,
                   inflight, cmdVars, ticks>>

\* A journaled operation and its batch.
PostJournal ==
    /\ running
    /\ seq' = seq + 1 /\ postedSeq' = seq + 1
    /\ Post("journal", seq + 1)
    /\ UNCHANGED <<chunkMap, blob, current, processVars, inflight, cmdVars, ticks>>

\* Manager.Once; pruneRetention is best effort.
PostSnapshot(prunes) ==
    LET surplus == {m \in Kind("snapshot") :
                  Cardinality({n \in Kind("snapshot") : n.id > m.id}) >= Retention - 1}
    IN /\ running /\ nextId \in Ids
       /\ channel' = (channel \ (IF prunes THEN surplus ELSE {})) \cup {Msg("snapshot", seq)}
       /\ young' = young \cup {nextId} /\ nextId' = nextId + 1
       /\ current' = nextId
       /\ UNCHANGED <<chunkMap, blob, seq, postedSeq, processVars, inflight, cmdVars, ticks>>

\* The mount goes first: on a stop, with the uploads still to drain and the last
\* snapshot to post, or by fusermount, with the daemon none the wiser; a mount
\* that was busy is detached, and its open files keep working.
Unmounts ==
    /\ mounted
    /\ mounted' = FALSE
    /\ UNCHANGED <<channel, young, nextId, chunkMap, blob, current, seq, postedSeq,
                   running, inflight, cmdVars, ticks>>

\* The process ends, by itself or killed, and with it the uploads in flight:
\* their wires are uploaded anew.
DaemonExits ==
    /\ running
    /\ running' = FALSE /\ inflight' = Empty
    /\ UNCHANGED <<channel, young, nextId, chunkMap, blob, current, seq, postedSeq,
                   mounted, cmdVars, ticks>>

DaemonMounts ==
    /\ ~running /\ ~mounted
    /\ running' = TRUE /\ mounted' = TRUE
    /\ UNCHANGED <<channel, young, nextId, chunkMap, blob, current, seq, postedSeq,
                   inflight, cmdVars, ticks>>

\* --min-age passes.  A row is taken to follow its message sooner than that.
Age ==
    /\ ticks < MaxAge
    /\ young' = young \cap {inflight[s] : s \in Keys}
    /\ young' # young /\ ticks' = ticks + 1
    /\ UNCHANGED <<channel, nextId, daemonVars, cmdVars>>

-----------------------------------------------------------------------------
(* cmdGC *)

\* isProfileMounted.
Guard == ~mounted

\* The guard, the referenced set, the current snapshot and the age cutoff.
Begin ==
    /\ gc = "idle" /\ Guard
    /\ gc' = "walk"
    /\ found' = [NothingFound EXCEPT !.refs = {chunkMap[s] : s \in Keys},
                                     !.snap = current]
    /\ old' = (1 .. nextId - 1) \ young
    /\ UNCHANGED <<channel, young, nextId, daemonVars, hidden, ticks>>

\* Mutant: the age gate is left out.
TooYoungNever(m) == FALSE

\* The cutoff is a point in time: what is posted during the walk is too young.
TooYoung(m) == m.id \notin old

\* Messages newer than m among those of its kind.
Newer(m, S) == Cardinality({n \in S : n.id > m.id})

\* WalkChannelMessages newest first, up to the page limit.
Window == {m \in channel : Newer(m, channel) < Pages}

\* Snapshots and journal batches carry their instance's fs_uuid.
Ours(k) == {m \in Window : m.own /\ m.kind = k}

Retained(m) == \/ m.id = found.snap
               \/ Newer(m, Ours("snapshot")) < Retention
               \/ TooYoung(m)

\* Snapshots of another instance and none of ours: gc refuses.
WrongChannel == /\ \E m \in Window : ~m.own /\ m.kind = "snapshot"
                /\ Ours("snapshot") = {}

\* Mutant: what the newest retained snapshot covers.
SupersededByNewest(j, kept) == \E n \in kept : j.seq <= n.seq

\* Every retained snapshot includes the batch, and there is one.
Superseded(j, kept) == kept # {} /\ \A n \in kept : j.seq <= n.seq

\* The walk classifies; journal batches are judged when it is over.
Walk ==
    LET kept == {m \in Ours("snapshot") : Retained(m)}
        IdsOf(S) == {m.id : m \in S}
    IN /\ gc = "walk" /\ ~WrongChannel
       /\ found' = [found EXCEPT
             !.chunk = IdsOf({m \in Window : /\ m.kind = "chunk"
                                             /\ m.id \notin found.refs /\ ~TooYoung(m)}),
             !.snapshot = IdsOf(Ours("snapshot") \ kept),
             !.journal = IdsOf({m \in Ours("journal") :
                                Superseded(m, kept) /\ ~TooYoung(m)})]
       /\ hidden' = hidden \cup IdsOf({m \in channel \ Window : m.kind = "snapshot"})
       /\ gc' = "refresh"
       /\ UNCHANGED <<channel, young, nextId, daemonVars, old, ticks>>

\* chunk_map is read again before anything is deleted.
Refresh ==
    /\ gc = "refresh"
    /\ found' = [found EXCEPT !.chunk = @ \ {chunkMap[s] : s \in Keys}]
    /\ gc' = "delete"
    /\ UNCHANGED <<channel, young, nextId, daemonVars, old, hidden, ticks>>

\* The deletions go out in the order chunks, snapshots, journal.
DeleteNext == IF found.chunk # {} THEN found.chunk
              ELSE IF found.snapshot # {} THEN found.snapshot ELSE found.journal

\* DeleteChannelMessages of the next batch, here of one message.
Delete ==
    /\ gc = "delete" /\ DeleteNext # {}
    /\ \E id \in DeleteNext :
         /\ channel' = {m \in channel : m.id # id}
         /\ found' = [found EXCEPT !.chunk = @ \ {id}, !.snapshot = @ \ {id},
                                   !.journal = @ \ {id}]
    /\ UNCHANGED <<young, nextId, daemonVars, gc, old, hidden, ticks>>

Ended == /\ gc' = "idle" /\ found' = NothingFound /\ old' = {}
         /\ UNCHANGED <<channel, young, nextId, hidden, ticks>>

\* PruneStaleChunkBlobs.
Prune ==
    /\ gc = "delete" /\ DeleteNext = {}
    /\ blob' = IF blob = NoId \/ Alive(blob) THEN blob ELSE NoId
    /\ Ended
    /\ UNCHANGED <<chunkMap, current, seq, postedSeq, processVars, inflight>>

\* A dry run, the wrong channel, an error or an interruption.
Stop == gc # "idle" /\ Ended /\ UNCHANGED daemonVars

-----------------------------------------------------------------------------
GCNext ==
    \/ \E s \in Keys : Upload(s) \/ PutChunk(s) \/ ReuseChunkByHash(s) \/ DropRow(s)
    \/ PostJournal \/ \E p \in BOOLEAN : PostSnapshot(p)
    \/ Unmounts \/ DaemonExits \/ DaemonMounts \/ Age
    \/ Begin \/ Walk \/ Refresh \/ Delete \/ Prune \/ Stop

GCSpec == GCInit /\ [][GCNext]_gcVars

-----------------------------------------------------------------------------
(* Properties *)

\* No row references a message that is not on the channel: gc never takes a
\* chunk that a reuse, or an upload -- of a daemon that has unmounted and still
\* drains, or of one that mounted behind gc's back -- has come to reference;
\* nor, while it has posted no snapshot of its own there, one of another
\* instance whose snapshot the walk can see.
RowsReachable ==
    /\ \A s \in Keys : chunkMap[s] # NoId =>
          \E m \in Kind("chunk") : m.id = chunkMap[s]
    /\ (\E m \in channel : ~m.own) /\ current = NoId /\ 2 \notin hidden =>
          Foreign \subseteq channel

\* Whenever gc stops, every snapshot left on the channel can be brought up to
\* date: each posted operation it lacks is in a batch that is still there.
\* Only snapshots beyond the page limit, which the walk does not see, may
\* lose theirs.
SnapshotsReplayable ==
    \A m \in Kind("snapshot") : m.id \notin hidden =>
        \A q \in m.seq + 1 .. postedSeq : \E j \in Kind("journal") : j.seq = q

=============================================================================
