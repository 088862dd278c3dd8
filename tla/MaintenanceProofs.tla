--------------------------- MODULE MaintenanceProofs ---------------------------
(***************************************************************************)
(* Theorems about the tools around the mount daemon: what a repair leaves  *)
(* of a file, for any number of chunks, crashes and lost messages; what    *)
(* telfs gc deletes, for any number of rows, messages, snapshots retained  *)
(* and pages walked; and what becomes of the daemons the console starts    *)
(* and stops, for any number of requests, daemons, profiles and            *)
(* mountpoints.                                                            *)
(***************************************************************************)
EXTENDS Repair, GC, Console, Integers, FiniteSetTheorems, WellFoundedInduction,
        TLAPS


-----------------------------------------------------------------------------
(***************************************************************************)
(* GC                                                                      *)
(***************************************************************************)

Kinds == {"chunk", "snapshot", "journal"}
Messages == [id : Nat \ {0}, kind : Kinds, seq : Nat, own : BOOLEAN]
Candidates == [refs : SUBSET Nat, snap : Nat, chunk : SUBSET Nat,
               snapshot : SUBSET Nat, journal : SUBSET Nat]

GCTypeOK ==
    /\ channel \subseteq Messages
    /\ young \subseteq Nat
    /\ nextId \in Nat \ {0}
    /\ chunkMap \in [Keys -> Nat] /\ inflight \in [Keys -> Nat]
    /\ blob \in Nat /\ current \in Nat
    /\ seq \in Nat /\ postedSeq \in Nat
    /\ running \in BOOLEAN /\ mounted \in BOOLEAN
    /\ gc \in {"idle", "walk", "refresh", "delete"}
    /\ found \in Candidates
    /\ old \subseteq Nat /\ hidden \subseteq Nat
    /\ ticks \in Nat

-----------------------------------------------------------------------------
(* The inductive invariant *)

\* Ids are given out once, and everything gc holds was posted before.
IdsFresh ==
    /\ \A m \in channel : m.id < nextId
    /\ \A m, n \in channel : m.id = n.id => m = n
    /\ \A s \in Keys : chunkMap[s] < nextId /\ inflight[s] < nextId
    /\ \A i \in old \cup found.chunk \cup found.snapshot \cup found.journal : i < nextId

OnChannel(i) == \E m \in Kind("chunk") : m.id = i

\* Rows, and messages about to get one, are on the channel.
RefsOnChannel ==
    \A s \in Keys : /\ chunkMap[s] # NoId => OnChannel(chunkMap[s])
                    /\ inflight[s] # NoId => OnChannel(inflight[s])

\* What is old when gc begins and has no row then never gets one: a message in
\* flight is young, and dedup reuses only what has a row.
OldStaysUnreferenced ==
    /\ NoId \notin old
    /\ \A s \in Keys : inflight[s] # NoId => inflight[s] \in young
    /\ gc # "idle" =>
         \A s \in Keys : /\ chunkMap[s] \in found.refs \/ chunkMap[s] \notin old
                         /\ inflight[s] # NoId => inflight[s] \notin old

\* What gc is about to delete is old and unreferenced, or no chunk at all.
Disposable ==
    /\ found.chunk \subseteq old /\ found.chunk \cap found.refs = {}
    /\ \A m \in channel : /\ m.id \in found.chunk => m.kind = "chunk"
                          /\ m.id \in found.snapshot => m.own /\ m.kind = "snapshot"
                          /\ m.id \in found.journal => m.own /\ m.kind = "journal"
    /\ gc = "idle" => found = NothingFound

\* The other instance's messages go only once gc has a snapshot of its own
\* there, or has not seen the other one's.
ForeignKept ==
    /\ \A m \in channel : ~m.own => m \in Foreign
    /\ (\E m \in Kind("snapshot") : TRUE) => current # NoId
    /\ \/ current # NoId \/ 2 \in hidden
       \/ \A m \in channel : m.own
       \/ Foreign \subseteq channel /\ 1 \notin found.chunk

\* Journal seqs are dense, and a batch is deleted only when every snapshot
\* the walk saw, and any posted since, includes it or is deleted before it.
JournalCovered ==
    /\ postedSeq = seq
    /\ \A m \in channel : m.own => m.seq <= seq
    /\ \A j \in Kind("journal"), m \in Kind("snapshot") :
         j.id \in found.journal =>
            j.seq <= m.seq \/ m.id \in found.snapshot \/ m.id \in hidden

GCInv == /\ GCTypeOK /\ IdsFresh /\ RefsOnChannel /\ OldStaysUnreferenced
         /\ Disposable /\ ForeignKept /\ JournalCovered /\ SnapshotsReplayable

-----------------------------------------------------------------------------
(* One lemma per action *)

\* A message that is posted is well formed and has an id of its own, also
\* when others are deleted in the same step.
LEMMA PostEffect ==
  ASSUME GCTypeOK, IdsFresh, NEW k \in Kinds, NEW q \in Nat,
         channel' \subseteq channel \cup {Msg(k, q)}, nextId' = nextId + 1
  PROVE  /\ Msg(k, q).id = nextId /\ Msg(k, q).kind = k
         /\ Msg(k, q).seq = q /\ Msg(k, q).own
         /\ channel' \subseteq Messages
         /\ \A m \in channel' : m.id < nextId'
         /\ \A m, n \in channel' : m.id = n.id => m = n
  <1>1. Msg(k, q) \in Messages /\ Msg(k, q).id = nextId /\ Msg(k, q).kind = k
        /\ Msg(k, q).seq = q /\ Msg(k, q).own
    BY DEF Msg, Messages, GCTypeOK
  <1>2. channel' \subseteq Messages
    BY <1>1 DEF GCTypeOK
  <1>3. \A m \in channel' : m.id < nextId'
    BY <1>1 DEF GCTypeOK, IdsFresh, Messages
  <1>4. \A m, n \in channel' : m.id = n.id => m = n
    BY <1>1 DEF GCTypeOK, IdsFresh, Messages
  <1> QED BY <1>1, <1>2, <1>3, <1>4

\* An upload's message is newer than anything gc has seen.
LEMMA UploadInv ==
  ASSUME GCInv, NEW s \in Keys, Upload(s)
  PROVE  GCInv'
  <1> USE DEF GCInv, NoId, Upload, Post, cmdVars, processVars
  <1> DEFINE msg == Msg("chunk", 0)
  <1>a. "chunk" \in Kinds /\ 0 \in Nat
    BY DEF Kinds, GCTypeOK
  <1>b. channel' \subseteq channel \cup {msg} /\ nextId' = nextId + 1
    OBVIOUS
  <1>c. /\ msg.id = nextId /\ msg.kind = "chunk" /\ msg.seq = 0 /\ msg.own
        /\ channel' \subseteq Messages
        /\ \A m \in channel' : m.id < nextId'
        /\ \A m, n \in channel' : m.id = n.id => m = n
    BY <1>a, <1>b, PostEffect
  <1> HIDE DEF msg
  <1>1. GCTypeOK'
    BY <1>b, <1>c DEF GCTypeOK, Messages, Candidates, Kinds
  <1>2. IdsFresh'
    BY <1>b, <1>c DEF IdsFresh, GCTypeOK, Messages, Candidates
  <1>3. RefsOnChannel'
    <2>1. msg \in channel' /\ channel \subseteq channel'
      BY DEF msg
    <2>2. \A t \in Keys : inflight'[t] = inflight[t] \/ inflight'[t] = msg.id
      BY <1>c DEF GCTypeOK
    <2> QED BY <1>c, <2>1, <2>2 DEF RefsOnChannel, OnChannel, Kind
  <1>4. OldStaysUnreferenced'
    <2>1. \A t \in Keys : inflight'[t] = inflight[t] \/ inflight'[t] = nextId
      BY DEF GCTypeOK
    <2>2. nextId \notin old
      BY DEF IdsFresh, GCTypeOK
    <2> QED BY <2>1, <2>2 DEF OldStaysUnreferenced
  <1>5. Disposable'
    BY <1>b, <1>c DEF Disposable, IdsFresh, NothingFound, GCTypeOK, Candidates
  <1>6. ForeignKept'
    BY <1>b, <1>c DEF ForeignKept, Kind, Foreign, GCTypeOK, Messages, Candidates
  <1>7. JournalCovered'
    BY <1>b, <1>c DEF JournalCovered, Kind, GCTypeOK, Messages, Candidates
  <1>8. SnapshotsReplayable'
    BY <1>b, <1>c DEF SnapshotsReplayable, Kind, GCTypeOK, Messages, Candidates
  <1> QED BY <1>1, <1>2, <1>3, <1>4, <1>5, <1>6, <1>7, <1>8

\* The row of an upload that ends refers to the message it posted.
LEMMA PutChunkInv ==
  ASSUME GCInv, NEW s \in Keys, PutChunk(s)
  PROVE  GCInv'
  <1> USE DEF GCInv, NoId, PutChunk, cmdVars, processVars
  <1>1. GCTypeOK'
    BY DEF GCTypeOK, Messages, Candidates, Kinds
  <1>2. IdsFresh'
    BY DEF IdsFresh, GCTypeOK, Messages, Candidates
  <1>3. RefsOnChannel'
    BY DEF RefsOnChannel, OnChannel, Kind, GCTypeOK, Messages, Candidates
  <1>4. OldStaysUnreferenced'
    BY DEF OldStaysUnreferenced, Empty, GCTypeOK, Messages, Candidates
  <1>5. Disposable'
    BY DEF Disposable, NothingFound, GCTypeOK, Messages, Candidates
  <1>6. ForeignKept'
    BY DEF ForeignKept, Kind, Foreign, GCTypeOK, Messages, Candidates
  <1>7. JournalCovered'
    BY DEF JournalCovered, Kind, GCTypeOK, Messages, Candidates
  <1>8. SnapshotsReplayable'
    BY DEF SnapshotsReplayable, Kind, GCTypeOK, Messages, Candidates
  <1> QED BY <1>1, <1>2, <1>3, <1>4, <1>5, <1>6, <1>7, <1>8

\* Dedup adds a row for a message that has one.
LEMMA ReuseChunkByHashInv ==
  ASSUME GCInv, NEW s \in Keys, ReuseChunkByHash(s)
  PROVE  GCInv'
  <1> USE DEF GCInv, NoId, ReuseChunkByHash, Alive, cmdVars, processVars
  <1>1. GCTypeOK'
    BY DEF GCTypeOK, Messages, Candidates, Kinds
  <1>2. IdsFresh'
    BY DEF IdsFresh, GCTypeOK, Messages, Candidates
  <1>3. RefsOnChannel'
    BY DEF RefsOnChannel, OnChannel, Kind, GCTypeOK, Messages, Candidates
  <1>4. OldStaysUnreferenced'
    BY DEF OldStaysUnreferenced, Empty, GCTypeOK, Messages, Candidates
  <1>5. Disposable'
    BY DEF Disposable, NothingFound, GCTypeOK, Messages, Candidates
  <1>6. ForeignKept'
    BY DEF ForeignKept, Kind, Foreign, GCTypeOK, Messages, Candidates
  <1>7. JournalCovered'
    BY DEF JournalCovered, Kind, GCTypeOK, Messages, Candidates
  <1>8. SnapshotsReplayable'
    BY DEF SnapshotsReplayable, Kind, GCTypeOK, Messages, Candidates
  <1> QED BY <1>1, <1>2, <1>3, <1>4, <1>5, <1>6, <1>7, <1>8

\* A row that goes leaves nothing behind that gc relies on.
LEMMA DropRowInv ==
  ASSUME GCInv, NEW s \in Keys, DropRow(s)
  PROVE  GCInv'
  <1> USE DEF GCInv, NoId, DropRow, cmdVars, processVars
  <1>1. GCTypeOK'
    BY DEF GCTypeOK, Messages, Candidates, Kinds
  <1>2. IdsFresh'
    BY DEF IdsFresh, GCTypeOK, Messages, Candidates
  <1>3. RefsOnChannel'
    BY DEF RefsOnChannel, OnChannel, Kind, GCTypeOK, Messages, Candidates
  <1>4. OldStaysUnreferenced'
    <2>1. \A t \in Keys : chunkMap'[t] = chunkMap[t] \/ chunkMap'[t] = 0
      BY DEF GCTypeOK
    <2>2. 0 \notin old
      BY DEF OldStaysUnreferenced
    <2> QED BY <2>1, <2>2 DEF OldStaysUnreferenced
  <1>5. Disposable'
    BY DEF Disposable, NothingFound, GCTypeOK, Messages, Candidates
  <1>6. ForeignKept'
    BY DEF ForeignKept, Kind, Foreign, GCTypeOK, Messages, Candidates
  <1>7. JournalCovered'
    BY DEF JournalCovered, Kind, GCTypeOK, Messages, Candidates
  <1>8. SnapshotsReplayable'
    BY DEF SnapshotsReplayable, Kind, GCTypeOK, Messages, Candidates
  <1> QED BY <1>1, <1>2, <1>3, <1>4, <1>5, <1>6, <1>7, <1>8

\* A journal batch covers the one operation that follows.
LEMMA PostJournalInv ==
  ASSUME GCInv, PostJournal
  PROVE  GCInv'
  <1> USE DEF GCInv, NoId, PostJournal, Post, cmdVars, processVars
  <1> DEFINE msg == Msg("journal", seq + 1)
  <1>a. "journal" \in Kinds /\ seq + 1 \in Nat
    BY DEF Kinds, GCTypeOK
  <1>b. channel' \subseteq channel \cup {msg} /\ nextId' = nextId + 1
    OBVIOUS
  <1>c. /\ msg.id = nextId /\ msg.kind = "journal" /\ msg.seq = seq + 1 /\ msg.own
        /\ channel' \subseteq Messages
        /\ \A m \in channel' : m.id < nextId'
        /\ \A m, n \in channel' : m.id = n.id => m = n
    BY <1>a, <1>b, PostEffect
  <1> HIDE DEF msg
  <1>1. GCTypeOK'
    BY <1>b, <1>c DEF GCTypeOK, Messages, Candidates, Kinds
  <1>2. IdsFresh'
    BY <1>b, <1>c DEF IdsFresh, GCTypeOK, Messages, Candidates
  <1>3. RefsOnChannel'
    BY <1>b, <1>c DEF RefsOnChannel, OnChannel, Kind, GCTypeOK, Messages, Candidates
  <1>4. OldStaysUnreferenced'
    BY <1>b, <1>c DEF OldStaysUnreferenced, Empty, GCTypeOK, Messages, Candidates
  <1>5. Disposable'
    BY <1>b, <1>c DEF Disposable, IdsFresh, NothingFound, GCTypeOK, Candidates
  <1>6. ForeignKept'
    BY <1>b, <1>c DEF ForeignKept, Kind, Foreign, GCTypeOK, Messages, Candidates
  <1>7. JournalCovered'
    BY <1>b, <1>c DEF JournalCovered, IdsFresh, Kind, GCTypeOK, Messages, Candidates
  <1>8. SnapshotsReplayable'
    <2>1. msg \in channel' /\ channel \subseteq channel'
      BY DEF msg
    <2>2. ASSUME NEW m \in Kind("snapshot")', m.id \notin hidden', NEW q \in m.seq + 1 .. postedSeq'
          PROVE  \E j \in Kind("journal")' : j.seq = q
      <3>1. m \in Kind("snapshot") /\ m.seq \in Nat
        BY <1>b, <1>c, <2>2 DEF Kind, Messages
      <3>2. CASE q = seq + 1
        BY <3>2, <1>c, <2>1 DEF Kind
      <3>3. CASE q # seq + 1
        <4>1. q \in m.seq + 1 .. postedSeq
          BY <3>1, <3>3 DEF JournalCovered, GCTypeOK
        <4> QED BY <2>1, <2>2, <3>1, <4>1 DEF SnapshotsReplayable, Kind
      <3> QED BY <3>2, <3>3
    <2> QED BY <2>2 DEF SnapshotsReplayable
  <1> QED BY <1>1, <1>2, <1>3, <1>4, <1>5, <1>6, <1>7, <1>8

\* A snapshot covers every operation so far; pruning takes only snapshots.
LEMMA PostSnapshotInv ==
  ASSUME GCInv, NEW p \in BOOLEAN, PostSnapshot(p)
  PROVE  GCInv'
  <1> USE DEF GCInv, NoId, cmdVars, processVars
  <1> DEFINE msg == Msg("snapshot", seq)
  <1>a. "snapshot" \in Kinds /\ seq \in Nat
    BY DEF Kinds, GCTypeOK
  <1>b. channel' \subseteq channel \cup {msg} /\ nextId' = nextId + 1
    BY DEF PostSnapshot
  <1>c. /\ msg.id = nextId /\ msg.kind = "snapshot" /\ msg.seq = seq /\ msg.own
        /\ channel' \subseteq Messages
        /\ \A m \in channel' : m.id < nextId'
        /\ \A m, n \in channel' : m.id = n.id => m = n
    BY <1>a, <1>b, PostEffect
  <1> HIDE DEF msg
  <1>d. /\ current' = nextId
        /\ UNCHANGED <<chunkMap, blob, seq, postedSeq, processVars, inflight, gc, found, old, hidden, ticks>>
        /\ young' = young \cup {nextId}
        /\ \A m \in channel : m.kind # "snapshot" \/ ~m.own => m \in channel'
    BY DEF PostSnapshot, Kind
  <1>1. GCTypeOK'
    BY <1>b, <1>c, <1>d DEF GCTypeOK, Messages, Candidates, Kinds
  <1>2. IdsFresh'
    BY <1>b, <1>c, <1>d DEF IdsFresh, GCTypeOK
  <1>3. RefsOnChannel'
    BY <1>b, <1>c, <1>d DEF RefsOnChannel, OnChannel, Kind, GCTypeOK, Messages, Candidates
  <1>4. OldStaysUnreferenced'
    BY <1>b, <1>c, <1>d DEF OldStaysUnreferenced, Empty, GCTypeOK, Messages, Candidates
  <1>5. Disposable'
    BY <1>b, <1>c, <1>d DEF Disposable, IdsFresh, NothingFound, GCTypeOK, Candidates
  <1>6. ForeignKept'
    BY <1>b, <1>c, <1>d DEF ForeignKept, Kind, Foreign, GCTypeOK, Messages, Candidates
  <1>7. JournalCovered'
    <2>1. \A j \in Kind("journal")' : j \in Kind("journal") /\ j.seq <= seq
      BY <1>b, <1>c, <1>d DEF Kind, JournalCovered
    <2>2. \A m \in Kind("snapshot")' : m \in Kind("snapshot") \/ m.seq = seq
      BY <1>b, <1>c, <1>d DEF Kind
    <2>3. \A m \in channel' : m.own => m.seq <= seq
      BY <1>b, <1>c, <1>d DEF JournalCovered, GCTypeOK, Messages
    <2> QED BY <1>d, <2>1, <2>2, <2>3 DEF JournalCovered
  <1>8. SnapshotsReplayable'
    <2>1. Kind("journal") \subseteq Kind("journal")'
      BY <1>d DEF Kind
    <2>2. ASSUME NEW m \in Kind("snapshot")', m.id \notin hidden', NEW q \in m.seq + 1 .. postedSeq'
          PROVE  m \in Kind("snapshot")
      BY <1>b, <1>c, <1>d, <2>2 DEF Kind, JournalCovered, GCTypeOK
    <2> QED BY <1>d, <2>1, <2>2 DEF SnapshotsReplayable
  <1> QED BY <1>1, <1>2, <1>3, <1>4, <1>5, <1>6, <1>7, <1>8

\* The mount goes, the uploads stay in flight.
LEMMA UnmountsInv ==
  ASSUME GCInv, Unmounts
  PROVE  GCInv'
  <1> USE DEF GCInv, NoId, Unmounts, Empty, cmdVars, processVars
  <1>1. GCTypeOK'
    BY DEF GCTypeOK, Messages, Candidates, Kinds
  <1>2. IdsFresh'
    BY DEF IdsFresh, GCTypeOK, Messages, Candidates
  <1>3. RefsOnChannel'
    BY DEF RefsOnChannel, OnChannel, Kind, GCTypeOK, Messages, Candidates
  <1>4. OldStaysUnreferenced'
    BY DEF OldStaysUnreferenced, GCTypeOK, Messages, Candidates
  <1>5. Disposable'
    BY DEF Disposable, NothingFound, GCTypeOK, Messages, Candidates
  <1>6. ForeignKept'
    BY DEF ForeignKept, Kind, Foreign, GCTypeOK, Messages, Candidates
  <1>7. JournalCovered'
    BY DEF JournalCovered, Kind, GCTypeOK, Messages, Candidates
  <1>8. SnapshotsReplayable'
    BY DEF SnapshotsReplayable, Kind, GCTypeOK, Messages, Candidates
  <1> QED BY <1>1, <1>2, <1>3, <1>4, <1>5, <1>6, <1>7, <1>8

\* The end of the daemon ends what it had in flight.
LEMMA DaemonExitsInv ==
  ASSUME GCInv, DaemonExits
  PROVE  GCInv'
  <1> USE DEF GCInv, NoId, DaemonExits, Empty, cmdVars, processVars
  <1>1. GCTypeOK'
    BY DEF GCTypeOK, Messages, Candidates, Kinds
  <1>2. IdsFresh'
    BY DEF IdsFresh, GCTypeOK, Messages, Candidates
  <1>3. RefsOnChannel'
    BY DEF RefsOnChannel, OnChannel, Kind, GCTypeOK, Messages, Candidates
  <1>4. OldStaysUnreferenced'
    BY DEF OldStaysUnreferenced, GCTypeOK, Messages, Candidates
  <1>5. Disposable'
    BY DEF Disposable, NothingFound, GCTypeOK, Messages, Candidates
  <1>6. ForeignKept'
    BY DEF ForeignKept, Kind, Foreign, GCTypeOK, Messages, Candidates
  <1>7. JournalCovered'
    BY DEF JournalCovered, Kind, GCTypeOK, Messages, Candidates
  <1>8. SnapshotsReplayable'
    BY DEF SnapshotsReplayable, Kind, GCTypeOK, Messages, Candidates
  <1> QED BY <1>1, <1>2, <1>3, <1>4, <1>5, <1>6, <1>7, <1>8

\* A daemon may mount at any time.
LEMMA DaemonMountsInv ==
  ASSUME GCInv, DaemonMounts
  PROVE  GCInv'
  <1> USE DEF GCInv, NoId, DaemonMounts, cmdVars, processVars
  <1>1. GCTypeOK'
    BY DEF GCTypeOK, Messages, Candidates, Kinds
  <1>2. IdsFresh'
    BY DEF IdsFresh, GCTypeOK, Messages, Candidates
  <1>3. RefsOnChannel'
    BY DEF RefsOnChannel, OnChannel, Kind, GCTypeOK, Messages, Candidates
  <1>4. OldStaysUnreferenced'
    BY DEF OldStaysUnreferenced, Empty, GCTypeOK, Messages, Candidates
  <1>5. Disposable'
    BY DEF Disposable, NothingFound, GCTypeOK, Messages, Candidates
  <1>6. ForeignKept'
    BY DEF ForeignKept, Kind, Foreign, GCTypeOK, Messages, Candidates
  <1>7. JournalCovered'
    BY DEF JournalCovered, Kind, GCTypeOK, Messages, Candidates
  <1>8. SnapshotsReplayable'
    BY DEF SnapshotsReplayable, Kind, GCTypeOK, Messages, Candidates
  <1> QED BY <1>1, <1>2, <1>3, <1>4, <1>5, <1>6, <1>7, <1>8

\* Time passes.
LEMMA AgeInv ==
  ASSUME GCInv, Age
  PROVE  GCInv'
  <1> USE DEF GCInv, NoId, Age, daemonVars, cmdVars, processVars
  <1>1. GCTypeOK'
    BY DEF GCTypeOK, Messages, Candidates, Kinds
  <1>2. IdsFresh'
    BY DEF IdsFresh, GCTypeOK, Messages, Candidates
  <1>3. RefsOnChannel'
    BY DEF RefsOnChannel, OnChannel, Kind, GCTypeOK, Messages, Candidates
  <1>4. OldStaysUnreferenced'
    BY DEF OldStaysUnreferenced, Empty, GCTypeOK, Messages, Candidates
  <1>5. Disposable'
    BY DEF Disposable, NothingFound, GCTypeOK, Messages, Candidates
  <1>6. ForeignKept'
    BY DEF ForeignKept, Kind, Foreign, GCTypeOK, Messages, Candidates
  <1>7. JournalCovered'
    BY DEF JournalCovered, Kind, GCTypeOK, Messages, Candidates
  <1>8. SnapshotsReplayable'
    BY DEF SnapshotsReplayable, Kind, GCTypeOK, Messages, Candidates
  <1> QED BY <1>1, <1>2, <1>3, <1>4, <1>5, <1>6, <1>7, <1>8

\* What is in flight as gc begins is too young for it.
LEMMA BeginInv ==
  ASSUME GCInv, Begin
  PROVE  GCInv'
  <1> USE DEF GCInv, NoId, Begin, Guard, daemonVars, NothingFound, cmdVars, processVars
  <1>1. GCTypeOK'
    <2>1. found' \in Candidates
      BY ZenonT(40) DEF GCTypeOK, Candidates
    <2>2. old' \subseteq Nat
      BY DEF GCTypeOK
    <2> QED BY <2>1, <2>2 DEF GCTypeOK
  <1>2. IdsFresh'
    BY DEF IdsFresh, GCTypeOK, Messages, Candidates
  <1>3. RefsOnChannel'
    BY DEF RefsOnChannel, OnChannel, Kind, GCTypeOK, Messages, Candidates
  <1>4. OldStaysUnreferenced'
    BY DEF OldStaysUnreferenced, Empty, GCTypeOK, Messages, Candidates
  <1>5. Disposable'
    BY DEF Disposable, GCTypeOK, Messages, Candidates
  <1>6. ForeignKept'
    BY DEF ForeignKept, Kind, Foreign, GCTypeOK, Messages, Candidates
  <1>7. JournalCovered'
    BY DEF JournalCovered, Kind, GCTypeOK, Messages, Candidates
  <1>8. SnapshotsReplayable'
    BY DEF SnapshotsReplayable, Kind, GCTypeOK, Messages, Candidates
  <1> QED BY <1>1, <1>2, <1>3, <1>4, <1>5, <1>6, <1>7, <1>8

\* The walk classifies what it sees.
LEMMA WalkInv ==
  ASSUME GCInv, Walk
  PROVE  GCInv'
  <1> USE DEF GCInv, NoId, daemonVars, Window, Ours, TooYoung, cmdVars, processVars
  <1> DEFINE kept == {m \in Ours("snapshot") : Retained(m)}
  <1>a. /\ gc = "walk" /\ gc' = "refresh" /\ ~WrongChannel
        /\ UNCHANGED <<channel, young, nextId, daemonVars, old, ticks>>
        /\ hidden' = hidden \cup {m.id : m \in {n \in channel \ Window : n.kind = "snapshot"}}
    BY DEF Walk
  <1>b. /\ found' \in Candidates
        /\ found'.refs = found.refs /\ found'.snap = found.snap
    <2>1. \A S \in SUBSET channel : {m.id : m \in S} \in SUBSET Nat
      BY DEF GCTypeOK, Messages
    <2>2. \A A, B, C \in SUBSET Nat :
            LET f == [found EXCEPT !.chunk = A, !.snapshot = B, !.journal = C]
            IN  f \in Candidates /\ f.refs = found.refs /\ f.snap = found.snap
      BY DEF GCTypeOK, Candidates
    <2>3. PICK A \in SUBSET channel, B \in SUBSET channel, C \in SUBSET channel :
            found' = [found EXCEPT !.chunk = {m.id : m \in A}, !.snapshot = {m.id : m \in B},
                                   !.journal = {m.id : m \in C}]
      <3> DEFINE D == {m \in Window : m.kind = "chunk" /\ m.id \notin found.refs /\ ~TooYoung(m)}
                 E == Ours("snapshot") \ kept
                 F == {m \in Ours("journal") : Superseded(m, kept) /\ ~TooYoung(m)}
      <3>1. D \in SUBSET channel /\ E \in SUBSET channel /\ F \in SUBSET channel
        OBVIOUS
      <3>2. found' = [found EXCEPT !.chunk = {m.id : m \in D}, !.snapshot = {m.id : m \in E},
                                   !.journal = {m.id : m \in F}]
        BY Zenon DEF Walk
      <3> QED BY <3>1, <3>2
    <2>4. /\ {m.id : m \in A} \in SUBSET Nat /\ {m.id : m \in B} \in SUBSET Nat
          /\ {m.id : m \in C} \in SUBSET Nat
      BY <2>1
    <2> DEFINE a == {m.id : m \in A}
               b == {m.id : m \in B}
               c == {m.id : m \in C}
               f == [found EXCEPT !.chunk = a, !.snapshot = b, !.journal = c]
    <2>5. f \in Candidates /\ f.refs = found.refs /\ f.snap = found.snap
      <3> HIDE DEF a, b, c
      <3>1. a \in SUBSET Nat /\ b \in SUBSET Nat /\ c \in SUBSET Nat
        BY <2>4 DEF a, b, c
      <3> QED BY <2>2, <3>1
    <2> HIDE DEF f
    <2>6. found' = f
      BY <2>3 DEF f
    <2> QED BY <2>5, <2>6
  <1>c. \A i \in found'.chunk : /\ i \in old /\ i \notin found.refs
                               /\ \E m \in Window : m.kind = "chunk" /\ m.id = i
    BY DEF Walk, GCTypeOK, Candidates
  <1>d. found'.snapshot = {m.id : m \in Ours("snapshot") \ kept}
    BY DEF Walk, GCTypeOK, Candidates
  <1>e. \A i \in found'.journal : \E m \in Ours("journal") : m.id = i /\ Superseded(m, kept)
    BY DEF Walk, GCTypeOK, Candidates
  <1> HIDE DEF kept
  <1>1. GCTypeOK'
    BY <1>a, <1>b DEF GCTypeOK, Messages
  <1>2. IdsFresh'
    BY <1>a, <1>b, <1>c, <1>d, <1>e DEF IdsFresh
  <1>3. RefsOnChannel'
    BY <1>a DEF RefsOnChannel, OnChannel, Kind
  <1>4. OldStaysUnreferenced'
    BY <1>a, <1>b DEF OldStaysUnreferenced, Empty
  <1>5. Disposable'
    BY <1>a, <1>b, <1>c, <1>d, <1>e DEF Disposable, IdsFresh
  <1>6. ForeignKept'
    <2>1. ASSUME Foreign \subseteq channel, 1 \in found'.chunk
          PROVE  current # NoId \/ 2 \in hidden'
      <3> DEFINE theirs == [id |-> 2, kind |-> "snapshot", seq |-> 0, own |-> FALSE]
      <3>1. theirs \in channel
        BY <2>1 DEF Foreign
      <3>2. CASE theirs \in Window
        BY <1>a, <3>2 DEF WrongChannel, ForeignKept, Kind
      <3>3. CASE theirs \notin Window
        BY <1>a, <3>1, <3>3
      <3> QED BY <3>2, <3>3
    <2> QED BY <1>a, <2>1 DEF ForeignKept, Kind
  <1>7. JournalCovered'
    <2>1. ASSUME NEW j \in Kind("journal"), NEW m \in Kind("snapshot"), j.id \in found'.journal
          PROVE  j.seq <= m.seq \/ m.id \in found'.snapshot \/ m.id \in hidden'
      <3>1. Superseded(j, kept)
        BY <1>e, <2>1 DEF IdsFresh, Kind
      <3>2. CASE m \in Window
        BY <1>d, <3>1, <3>2 DEF Superseded, Kind
      <3>3. CASE m \notin Window
        BY <1>a, <3>3 DEF Kind
      <3> QED BY <3>2, <3>3
    <2> QED BY <1>a, <2>1 DEF JournalCovered, Kind
  <1>8. SnapshotsReplayable'
    BY <1>a DEF SnapshotsReplayable, Kind
  <1> QED BY <1>1, <1>2, <1>3, <1>4, <1>5, <1>6, <1>7, <1>8

\* The second look only takes candidates away.
LEMMA RefreshInv ==
  ASSUME GCInv, Refresh
  PROVE  GCInv'
  <1> USE DEF GCInv, NoId, Refresh, daemonVars, cmdVars, processVars
  <1>1. GCTypeOK'
    BY DEF GCTypeOK, Messages, Candidates, Kinds
  <1>2. IdsFresh'
    BY DEF IdsFresh, GCTypeOK, Messages, Candidates
  <1>3. RefsOnChannel'
    BY DEF RefsOnChannel, OnChannel, Kind, GCTypeOK, Messages, Candidates
  <1>4. OldStaysUnreferenced'
    BY DEF OldStaysUnreferenced, Empty, GCTypeOK, Messages, Candidates
  <1>5. Disposable'
    BY DEF Disposable, NothingFound, GCTypeOK, Messages, Candidates
  <1>6. ForeignKept'
    BY DEF ForeignKept, Kind, Foreign, GCTypeOK, Messages, Candidates
  <1>7. JournalCovered'
    BY DEF JournalCovered, Kind, GCTypeOK, Messages, Candidates
  <1>8. SnapshotsReplayable'
    BY DEF SnapshotsReplayable, Kind, GCTypeOK, Messages, Candidates
  <1> QED BY <1>1, <1>2, <1>3, <1>4, <1>5, <1>6, <1>7, <1>8

\* A deletion takes a message nothing relies on.
LEMMA DeleteInv ==
  ASSUME GCInv, Delete
  PROVE  GCInv'
  <1> USE DEF GCInv, NoId, daemonVars, cmdVars, processVars
  <1> PICK id \in DeleteNext :
         /\ channel' = {m \in channel : m.id # id}
         /\ found' = [found EXCEPT !.chunk = @ \ {id}, !.snapshot = @ \ {id},
                                   !.journal = @ \ {id}]
    BY DEF Delete
  <1>a. gc = "delete" /\ UNCHANGED <<young, nextId, daemonVars, gc, old, hidden, ticks>>
    BY DEF Delete
  <1>b. /\ found' \in Candidates
        /\ found'.refs = found.refs /\ found'.snap = found.snap
        /\ found'.chunk = found.chunk \ {id} /\ found'.snapshot = found.snapshot \ {id}
        /\ found'.journal = found.journal \ {id}
    BY DEF GCTypeOK, Candidates
  <1>c. \/ id \in found.chunk
        \/ id \in found.snapshot
        \/ id \in found.journal /\ found.snapshot = {}
    BY DEF DeleteNext
  <1>d. /\ id \in found.chunk => id \in old /\ id \notin found.refs
        /\ \A m \in channel : m.id = id =>
             m.kind = IF id \in found.chunk THEN "chunk"
                      ELSE IF id \in found.snapshot THEN "snapshot" ELSE "journal"
    BY <1>c DEF Disposable
  <1>1. GCTypeOK'
    BY <1>a, <1>b DEF GCTypeOK, Messages
  <1>2. IdsFresh'
    BY <1>a, <1>b DEF IdsFresh
  <1>3. RefsOnChannel'
    <2>1. ASSUME NEW i \in Nat \ {0}, OnChannel(i), i # id
          PROVE  OnChannel(i)'
      BY <2>1 DEF OnChannel, Kind
    <2>2. ASSUME NEW s \in Keys
          PROVE  /\ chunkMap[s] # NoId => chunkMap[s] # id
                 /\ inflight[s] # NoId => inflight[s] # id
      BY <1>a, <1>c, <1>d DEF RefsOnChannel, OnChannel, Kind, OldStaysUnreferenced, IdsFresh
    <2> QED BY <1>a, <2>1, <2>2 DEF RefsOnChannel, GCTypeOK
  <1>4. OldStaysUnreferenced'
    BY <1>a, <1>b DEF OldStaysUnreferenced, Empty
  <1>5. Disposable'
    BY <1>a, <1>b DEF Disposable
  <1>6. ForeignKept'
    BY <1>a, <1>b, <1>c DEF ForeignKept, Foreign, Kind, Disposable
  <1>7. JournalCovered'
    BY <1>a, <1>b DEF JournalCovered, Kind
  <1>8. SnapshotsReplayable'
    <2>1. ASSUME NEW m \in Kind("snapshot")', m.id \notin hidden, NEW q \in m.seq + 1 .. postedSeq
          PROVE  \E j \in Kind("journal")' : j.seq = q
      <3>1. PICK j \in Kind("journal") : j.seq = q
        BY <2>1 DEF SnapshotsReplayable, Kind
      <3>2. j.id # id
        BY <1>c, <1>d, <2>1, <3>1 DEF JournalCovered, Kind, GCTypeOK, Messages
      <3> QED BY <3>1, <3>2 DEF Kind
    <2> QED BY <1>a, <2>1 DEF SnapshotsReplayable
  <1> QED BY <1>1, <1>2, <1>3, <1>4, <1>5, <1>6, <1>7, <1>8

\* The index is pruned at the end.
LEMMA PruneInv ==
  ASSUME GCInv, Prune
  PROVE  GCInv'
  <1> USE DEF GCInv, NoId, Prune, Ended, NothingFound, Alive, cmdVars, processVars
  <1>1. GCTypeOK'
    BY DEF GCTypeOK, Messages, Candidates, Kinds
  <1>2. IdsFresh'
    BY DEF IdsFresh, GCTypeOK, Messages, Candidates
  <1>3. RefsOnChannel'
    BY DEF RefsOnChannel, OnChannel, Kind, GCTypeOK, Messages, Candidates
  <1>4. OldStaysUnreferenced'
    BY DEF OldStaysUnreferenced, Empty, GCTypeOK, Messages, Candidates
  <1>5. Disposable'
    BY DEF Disposable, GCTypeOK, Messages, Candidates
  <1>6. ForeignKept'
    BY DEF ForeignKept, Kind, Foreign, GCTypeOK, Messages, Candidates
  <1>7. JournalCovered'
    BY DEF JournalCovered, Kind, GCTypeOK, Messages, Candidates
  <1>8. SnapshotsReplayable'
    BY DEF SnapshotsReplayable, Kind, GCTypeOK, Messages, Candidates
  <1> QED BY <1>1, <1>2, <1>3, <1>4, <1>5, <1>6, <1>7, <1>8

\* gc may stop at any point.
LEMMA StopInv ==
  ASSUME GCInv, Stop
  PROVE  GCInv'
  <1> USE DEF GCInv, NoId, Stop, Ended, daemonVars, NothingFound, cmdVars, processVars
  <1>1. GCTypeOK'
    BY DEF GCTypeOK, Messages, Candidates, Kinds
  <1>2. IdsFresh'
    BY DEF IdsFresh, GCTypeOK, Messages, Candidates
  <1>3. RefsOnChannel'
    BY DEF RefsOnChannel, OnChannel, Kind, GCTypeOK, Messages, Candidates
  <1>4. OldStaysUnreferenced'
    BY DEF OldStaysUnreferenced, Empty, GCTypeOK, Messages, Candidates
  <1>5. Disposable'
    BY DEF Disposable, GCTypeOK, Messages, Candidates
  <1>6. ForeignKept'
    BY DEF ForeignKept, Kind, Foreign, GCTypeOK, Messages, Candidates
  <1>7. JournalCovered'
    BY DEF JournalCovered, Kind, GCTypeOK, Messages, Candidates
  <1>8. SnapshotsReplayable'
    BY DEF SnapshotsReplayable, Kind, GCTypeOK, Messages, Candidates
  <1> QED BY <1>1, <1>2, <1>3, <1>4, <1>5, <1>6, <1>7, <1>8

-----------------------------------------------------------------------------
(* Theorems *)

\* The invariant holds of every behaviour of gc, the daemon and time.
THEOREM GCInvariant == GCSpec => []GCInv
  <1>1. GCInit => GCInv
    <2> SUFFICES ASSUME GCInit PROVE GCInv
      OBVIOUS
    <2>0. /\ Foreign \subseteq Messages
          /\ \A m \in Foreign : ~m.own /\ m.id \in {1, 2}
          /\ \A m, n \in Foreign : m.id = n.id => m = n
      BY DEF Foreign, Messages, Kinds
    <2> USE DEF GCInit, Empty, NoId, NothingFound
    <2>1. channel \subseteq Foreign
      OBVIOUS
    <2>2. channel \subseteq Messages /\ \A m \in channel : ~m.own
      BY <2>0, <2>1
    <2>3. GCTypeOK
      BY <2>2 DEF GCTypeOK, Candidates
    <2>4. IdsFresh
      BY <2>0 DEF IdsFresh
    <2>5. RefsOnChannel /\ OldStaysUnreferenced /\ Disposable
      BY DEF RefsOnChannel, OldStaysUnreferenced, Disposable
    <2>6. ForeignKept /\ JournalCovered /\ SnapshotsReplayable
      BY <2>1, <2>2 DEF ForeignKept, JournalCovered, SnapshotsReplayable, Kind
    <2> QED BY <2>3, <2>4, <2>5, <2>6 DEF GCInv
  <1>2. GCInv /\ [GCNext]_gcVars => GCInv'
    <2> SUFFICES ASSUME GCInv, [GCNext]_gcVars PROVE GCInv'
      OBVIOUS
    <2>1. CASE UNCHANGED gcVars
      BY <2>1 DEF gcVars, GCInv, GCTypeOK, IdsFresh, RefsOnChannel, OnChannel, Kind,
         OldStaysUnreferenced, Disposable, ForeignKept, JournalCovered, SnapshotsReplayable
    <2>2. CASE GCNext
      BY <2>2, UploadInv, PutChunkInv, ReuseChunkByHashInv, DropRowInv, PostJournalInv,
         PostSnapshotInv, UnmountsInv, DaemonExitsInv, DaemonMountsInv, AgeInv, BeginInv, WalkInv,
         RefreshInv, DeleteInv, PruneInv, StopInv DEF GCNext
    <2> QED BY <2>1, <2>2
  <1> QED BY <1>1, <1>2, PTL DEF GCSpec

\* No row ever refers to a message gc has deleted, whatever uploads, reuses and
\* mounts happen behind its back, and another instance's messages stay while
\* its snapshot is the only one on the channel.
THEOREM GCKeepsRows == GCSpec => []RowsReachable
  <1>1. GCInv => RowsReachable
    BY DEF GCInv, RefsOnChannel, OnChannel, ForeignKept, RowsReachable
  <1> QED BY <1>1, GCInvariant, PTL

\* Every snapshot gc has left where it can see it can be brought up to date
\* from the batches it has left.
THEOREM GCKeepsJournal == GCSpec => []SnapshotsReplayable
  <1>1. GCInv => SnapshotsReplayable
    BY DEF GCInv
  <1> QED BY <1>1, GCInvariant, PTL

-----------------------------------------------------------------------------
(***************************************************************************)
(* Console                                                                 *)
(***************************************************************************)

ConsoleSpec == ConsoleInit /\ [][ConsoleNext]_consoleVars

Stages == {"none", "starting", "serving", "dead"} \cup Orderly
Daemons == [stage : Stages, profile : Profiles \cup {""}, mp : Mountpoints \cup {""},
            sig : BOOLEAN, up : BOOLEAN, age : Nat]
Entries == [pid : 0 .. MaxPid, adopted : BOOLEAN, mp : Mountpoints \cup {""},
            by : SUBSET Requests]
Pcs == {"idle", "prune", "adopt", "spawn", "register", "wait", "ensure", "stopped"}
Handlers == [pc : Pcs, kind : {"", "page", "start", "stop", "unmount"},
             key : ProcKeys \cup {""}, mp : Mountpoints \cup {""}, proc : Entries,
             left : Nat, todo : SUBSET Mountpoints, seen : SUBSET Pids]

ConsoleTypeOK ==
    /\ daemon \in [Pids -> Daemons]
    /\ kernel \in [Mountpoints -> 0 .. MaxPid]
    /\ procs \in [ProcKeys -> Entries]
    /\ done \subseteq Entries /\ kids \subseteq Pids /\ cut \subseteq Pids
    /\ req \in [Requests -> Handlers]

\* A process has a mountpoint, and while it lives a profile.
DaemonsNamed ==
    \A p \in Pids : /\ daemon[p].stage # "none" => daemon[p].mp \in Mountpoints
                    /\ Living(p) => daemon[p].profile \in Profiles

\* An entry that names a process names its mountpoint.
Names(x) == x.pid # 0 => /\ daemon[x.pid].stage # "none"
                         /\ daemon[x.pid].mp = x.mp
EntriesNamed ==
    /\ \A k \in ProcKeys : Names(procs[k])
    /\ \A r \in Requests : Names(req[r].proc)

Dead(x) == x.pid # 0 => daemon[x.pid].stage = "dead"

\* A closed channel, and a Stop that has waited for it, mean a dead process.
DoneDead ==
    /\ \A x \in done : Dead(x)
    /\ \A r \in Requests : req[r].pc \in {"ensure", "stopped"} => Dead(req[r].proc)

\* A start knows what to start; a request that has reconciled and is not a
\* start's is a page's or a stop's.
Asked ==
    \A r \in Requests :
        /\ req[r].kind = "start" => req[r].key \in Profiles /\ req[r].mp \in Mountpoints
        /\ req[r].kind = "stop" => req[r].key \in ProcKeys
        /\ req[r].pc \in {"spawn", "register"} => req[r].kind = "start"
        /\ req[r].pc \in {"prune", "adopt"} => req[r].kind # "unmount"

GoneInv == ConsoleTypeOK /\ DaemonsNamed /\ EntriesNamed /\ DoneDead /\ Asked /\ StopMeansGone

-----------------------------------------------------------------------------
LEMMA ConsoleInitGone == ConsoleInit => GoneInv
  <1> SUFFICES ASSUME ConsoleInit PROVE GoneInv
    OBVIOUS
  <1>1. NoProc \in Entries /\ NoProc.pid = 0
    BY ConsoleAssumption DEF NoProc, Entries
  <1>2. ConsoleTypeOK
    <2>1. NoDaemon \in Daemons
      BY DEF NoDaemon, Daemons, Stages
    <2>2. Quiet \in Handlers
      BY <1>1 DEF Quiet, Handlers, Pcs
    <2> QED BY <1>1, <2>1, <2>2, ConsoleAssumption DEF ConsoleInit, ConsoleTypeOK
  <1> QED BY <1>1, <1>2 DEF ConsoleInit, GoneInv, DaemonsNamed, EntriesNamed, Names,
             DoneDead, Dead, Asked, StopMeansGone, NoDaemon, Living, Quiet, Pids

\* Processes go forward: a pid keeps its mountpoint, and the dead stay dead.
Onward == \A p \in Pids : /\ daemon[p].stage # "none" =>
                               daemon'[p].stage # "none" /\ daemon'[p].mp = daemon[p].mp
                          /\ daemon[p].stage = "dead" => daemon'[p].stage = "dead"

\* Only a process that starts to serve takes a mountpoint.
MountsKept == \A m \in Mountpoints, p \in Pids :
                kernel'[m] = p => kernel[m] = p \/ daemon[p].stage = "starting"


LEMMA MaxPidNat == MaxPid \in Nat
  BY ConsoleAssumption

LEMMA EntryPids == \A x \in Entries : x.pid \in Nat /\ (x.pid # 0 => x.pid \in Pids)
  <1> SUFFICES ASSUME NEW x \in Entries PROVE x.pid \in Nat /\ (x.pid # 0 => x.pid \in Pids)
    OBVIOUS
  <1>1. x.pid \in 0 .. MaxPid
    BY DEF Entries
  <1> QED BY <1>1, MaxPidNat DEF Pids

\* What keeps the invariant: processes go forward, and whatever is new in the
\* table, in a request or among the closed channels is as it should be.
LEMMA GoneStep ==
  ASSUME GoneInv, Onward, MountsKept, ConsoleTypeOK', DaemonsNamed', Asked',
         \A k \in ProcKeys : procs'[k] = procs[k] \/ (Names(procs[k]))',
         \A r \in Requests : req'[r].proc = req[r].proc \/ (Names(req[r].proc))',
         \A x \in done' : x \in done \/ Dead(x)',
         \A r \in Requests : req'[r].pc \in {"ensure", "stopped"} =>
            \/ req[r].pc \in {"ensure", "stopped"} /\ req'[r].proc = req[r].proc
            \/ (Dead(req[r].proc))',
         \A r \in Requests : req'[r].pc = "stopped" =>
            \/ req[r].pc = "stopped" /\ req'[r].proc = req[r].proc
            \/ req'[r].proc.pid = 0
            \/ kernel'[req'[r].proc.mp] # req'[r].proc.pid
  PROVE  GoneInv'
  <1>2. ASSUME NEW x \in Entries PROVE (Names(x) => Names(x)') /\ (Dead(x) => Dead(x)')
    BY EntryPids DEF Names, Dead, Onward
  <1>3. EntriesNamed'
    BY <1>2 DEF GoneInv, EntriesNamed, ConsoleTypeOK, Handlers
  <1>4. DoneDead'
    BY <1>2 DEF GoneInv, DoneDead, ConsoleTypeOK, Handlers
  <1>5. StopMeansGone'
    <2> SUFFICES ASSUME NEW r \in Requests, req'[r].pc = "stopped", req'[r].proc.pid # 0,
                        NEW p, p = req'[r].proc.pid
                 PROVE  ~Living(p)' /\ ~OwnMount(p)'
      BY DEF StopMeansGone
    <2>1. p \in Pids
      BY EntryPids DEF ConsoleTypeOK, Handlers
    <2>2. daemon'[p].stage = "dead" /\ daemon'[p].mp = req'[r].proc.mp
      BY <1>3, <1>4 DEF EntriesNamed, Names, DoneDead, Dead
    <2>3. CASE req[r].pc = "stopped" /\ req'[r].proc = req[r].proc
      <3>1. daemon[p].stage = "dead" /\ kernel[daemon[p].mp] # p
            /\ daemon[p].mp \in Mountpoints
        BY <2>1, <2>3 DEF GoneInv, DoneDead, Dead, StopMeansGone, OwnMount, DaemonsNamed
      <3> QED BY <2>1, <2>2, <3>1 DEF Onward, MountsKept, Living, OwnMount
    <2>4. CASE kernel'[req'[r].proc.mp] # req'[r].proc.pid
      BY <2>2, <2>4 DEF Living, OwnMount
    <2> QED BY <2>3, <2>4
  <1> QED BY <1>3, <1>4, <1>5 DEF GoneInv

\* A step of processes alone.
LEMMA DaemonStep ==
  ASSUME GoneInv, Onward, MountsKept,
         daemon' \in [Pids -> Daemons], kernel' \in [Mountpoints -> 0 .. MaxPid],
         cut' \subseteq Pids, DaemonsNamed', UNCHANGED <<procs, done, kids, req>>
  PROVE  GoneInv'
  <1>1. ConsoleTypeOK'
    BY DEF GoneInv, ConsoleTypeOK
  <1>2. Asked'
    BY DEF GoneInv, Asked
  <1> QED BY <1>1, <1>2, GoneStep, Zenon

\* A process that moves on in its life.
Moves(p, x) ==
    /\ daemon' = [daemon EXCEPT ![p] = x]
    /\ x \in Daemons /\ x.mp = daemon[p].mp /\ x.stage # "none"
    /\ x.stage = "dead" \/ x.profile = daemon[p].profile

LEMMA MoveOnward ==
  ASSUME GoneInv, NEW p \in Pids, NEW x, Moves(p, x), Living(p)
  PROVE  Onward /\ DaemonsNamed' /\ daemon' \in [Pids -> Daemons]
  BY DEF Moves, GoneInv, ConsoleTypeOK, DaemonsNamed, Onward, Living

LEMMA ExitMoves ==
  ASSUME GoneInv, NEW p \in Pids, Living(p), daemon' = Exited(p)
  PROVE  \E x : Moves(p, x)
  <1>1. daemon[p] \in Daemons
    BY DEF GoneInv, ConsoleTypeOK
  <1> DEFINE x == [NoDaemon EXCEPT !.stage = "dead", !.mp = daemon[p].mp]
  <1>2. x \in Daemons /\ x.mp = daemon[p].mp /\ x.stage = "dead"
    BY <1>1 DEF NoDaemon, Daemons, Stages
  <1>3. Moves(p, x)
    BY <1>2 DEF Exited, Moves
  <1> QED BY <1>3

LEMMA DetachKeeps ==
  ASSUME GoneInv, NEW m, kernel' = kernel \/ kernel' = Detached(m)
  PROVE  MountsKept /\ kernel' \in [Mountpoints -> 0 .. MaxPid]
  <1>1. kernel \in [Mountpoints -> 0 .. MaxPid] /\ 0 \in 0 .. MaxPid
    BY MaxPidNat DEF GoneInv, ConsoleTypeOK
  <1>2. kernel' \in [Mountpoints -> 0 .. MaxPid]
    BY <1>1 DEF Detached
  <1>3. \A n \in Mountpoints : kernel'[n] = kernel[n] \/ kernel'[n] = 0
    BY <1>1 DEF Detached
  <1>4. 0 \notin Pids
    BY MaxPidNat DEF Pids
  <1> QED BY <1>2, <1>3, <1>4 DEF MountsKept

LEMMA DaemonNextGone ==
  ASSUME GoneInv, NEW p \in Pids, DaemonNext(p)
  PROVE  GoneInv'
  <1>0. daemon[p] \in Daemons
    BY DEF GoneInv, ConsoleTypeOK
  <1>1. CASE ServeBegins(p)
    <2>1. Moves(p, [daemon[p] EXCEPT !.stage = "serving"]) /\ Living(p)
      BY <1>0, <1>1 DEF ServeBegins, Moves, Daemons, Stages, Living, GoneInv, ConsoleTypeOK
    <2>2. MountsKept /\ kernel' \in [Mountpoints -> 0 .. MaxPid]
      <3>1. p \in 0 .. MaxPid /\ kernel \in [Mountpoints -> 0 .. MaxPid]
        BY MaxPidNat DEF Pids, GoneInv, ConsoleTypeOK
      <3> QED BY <1>1, <3>1 DEF ServeBegins, MountsKept
    <2> QED BY <1>1, <2>1, <2>2, MoveOnward, DaemonStep DEF ServeBegins, GoneInv, ConsoleTypeOK
  <1>2. CASE StartAborts(p) \/ FinalSnapshot(p) \/ DaemonDies(p)
    <2>1. Living(p) /\ daemon' = Exited(p) /\ UNCHANGED <<kernel, procs, done, kids, req, cut>>
      BY <1>2 DEF StartAborts, FinalSnapshot, DaemonDies, Living
    <2> QED BY <2>1, ExitMoves, MoveOnward, DaemonStep DEF MountsKept, GoneInv, ConsoleTypeOK
  <1>3. CASE ShutdownBegins(p)
    <2>1. Moves(p, [daemon[p] EXCEPT !.stage = "stopping", !.age = 0]) /\ Living(p)
      BY <1>0, <1>3 DEF ShutdownBegins, Moves, Daemons, Stages, Orderly, Living, GoneInv, ConsoleTypeOK
    <2> QED BY <1>3, <2>1, MoveOnward, DaemonStep
            DEF ShutdownBegins, MountsKept, GoneInv, ConsoleTypeOK
  <1>4. CASE Drain(p)
    <2>1. Moves(p, [daemon[p] EXCEPT !.stage = "drained"]) /\ Living(p)
      BY <1>0, <1>4 DEF Drain, Moves, Daemons, Stages, Orderly, Living, GoneInv, ConsoleTypeOK
    <2> QED BY <1>4, <2>1, MoveOnward, DaemonStep DEF Drain, MountsKept, GoneInv, ConsoleTypeOK
  <1>5. CASE \E ok \in BOOLEAN : DetachKernel(p, ok)
    <2>1. Moves(p, [daemon[p] EXCEPT !.stage = "detached"]) /\ Living(p)
      BY <1>0, <1>5 DEF DetachKernel, Moves, Daemons, Stages, Orderly, Living, GoneInv, ConsoleTypeOK
    <2>2. MountsKept /\ kernel' \in [Mountpoints -> 0 .. MaxPid]
      BY <1>5, DetachKeeps DEF DetachKernel
    <2> QED BY <1>5, <2>1, <2>2, MoveOnward, DaemonStep DEF DetachKernel, GoneInv, ConsoleTypeOK
  <1>6. CASE \E ok \in BOOLEAN : WatchdogFires(p, ok)
    <2>1. Living(p) /\ daemon' = Exited(p)
      BY <1>6 DEF WatchdogFires, Living, Orderly
    <2>2. MountsKept /\ kernel' \in [Mountpoints -> 0 .. MaxPid]
      BY <1>6, DetachKeeps DEF WatchdogFires
    <2> QED BY <1>6, <2>1, <2>2, ExitMoves, MoveOnward, DaemonStep
            DEF WatchdogFires, GoneInv, ConsoleTypeOK
  <1>7. CASE Reap(p)
    <2>0. UNCHANGED <<daemon, kernel, procs, req, cut>>
      BY <1>7 DEF Reap
    <2>1. Child(p) \in Entries /\ Dead(Child(p))
      <3>1. p \in 0 .. MaxPid
        BY MaxPidNat DEF Pids
      <3> QED BY <1>0, <1>7, <3>1 DEF Reap, Child, Entries, Daemons, Dead
    <2>2. ConsoleTypeOK'
      BY <1>7, <2>1 DEF Reap, GoneInv, ConsoleTypeOK
    <2>3. Onward /\ MountsKept /\ DaemonsNamed' /\ Asked'
      BY <2>0 DEF Onward, MountsKept, DaemonsNamed, Asked, GoneInv, Living
    <2>4. \A x \in done' : x \in done \/ Dead(x)'
      BY <1>7, <2>0, <2>1 DEF Reap, Dead
    <2> QED BY <2>0, <2>2, <2>3, <2>4, GoneStep, Zenon
  <1> QED BY <1>1, <1>2, <1>3, <1>4, <1>5, <1>6, <1>7 DEF DaemonNext

\* What a handler may become.
Proper(x) ==
    /\ x \in Handlers
    /\ x.kind = "start" => x.key \in Profiles /\ x.mp \in Mountpoints
    /\ x.kind = "stop" => x.key \in ProcKeys
    /\ x.pc \in {"spawn", "register"} => x.kind = "start"
    /\ x.pc \in {"prune", "adopt"} => x.kind # "unmount"

LEMMA RequestStep ==
  ASSUME GoneInv, Onward, MountsKept, DaemonsNamed',
         daemon' \in [Pids -> Daemons], kernel' \in [Mountpoints -> 0 .. MaxPid],
         procs' \in [ProcKeys -> Entries], done' \subseteq Entries, kids' \subseteq Pids,
         cut' \subseteq Pids,
         \A k \in ProcKeys : procs'[k] = procs[k] \/ (Names(procs[k]))',
         \A y \in done' : y \in done \/ Dead(y)',
         NEW r \in Requests, NEW x, Proper(x), req' = [req EXCEPT ![r] = x],
         x.proc = req[r].proc \/ Names(x.proc)',
         x.pc \in {"ensure", "stopped"} =>
            (req[r].pc \in {"ensure", "stopped"} /\ x.proc = req[r].proc) \/ Dead(x.proc)',
         x.pc = "stopped" => x.proc.pid = 0 \/ kernel'[x.proc.mp] # x.proc.pid
  PROVE  GoneInv'
  <1>1. \A s \in Requests : req'[s] = IF s = r THEN x ELSE req[s]
    BY DEF GoneInv, ConsoleTypeOK
  <1>2. ConsoleTypeOK'
    BY DEF GoneInv, ConsoleTypeOK, Proper
  <1>3. Asked'
    BY <1>1 DEF GoneInv, Asked, Proper
  <1>4. \A s \in Requests : req'[s].proc = req[s].proc \/ (Names(req[s].proc))'
    BY <1>1 DEF Names
  <1>5. \A s \in Requests : req'[s].pc \in {"ensure", "stopped"} =>
            \/ req[s].pc \in {"ensure", "stopped"} /\ req'[s].proc = req[s].proc
            \/ (Dead(req[s].proc))'
    BY <1>1 DEF Dead
  <1>6. \A s \in Requests : req'[s].pc = "stopped" =>
            \/ req[s].pc = "stopped" /\ req'[s].proc = req[s].proc
            \/ req'[s].proc.pid = 0
            \/ kernel'[req'[s].proc.mp] # req'[s].proc.pid
    BY <1>1
  <1> QED BY <1>2, <1>3, <1>4, <1>5, <1>6, GoneStep, Zenon

\* ... when it touches no process and no mount.
LEMMA TableStep ==
  ASSUME GoneInv, UNCHANGED <<daemon, kernel, kids, cut>>,
         procs' \in [ProcKeys -> Entries], done' \subseteq Entries,
         \A k \in ProcKeys : procs'[k] = procs[k] \/ Names(procs'[k]),
         \A y \in done' : y \in done \/ Dead(y),
         NEW r \in Requests, NEW x, Proper(x), req' = [req EXCEPT ![r] = x],
         x.proc = req[r].proc \/ Names(x.proc),
         x.pc \in {"ensure", "stopped"} => Dead(x.proc),
         x.pc = "stopped" => x.proc.pid = 0 \/ kernel[x.proc.mp] # x.proc.pid
  PROVE  GoneInv'
  <1>1. Onward /\ MountsKept /\ DaemonsNamed'
    BY DEF GoneInv, Onward, MountsKept, DaemonsNamed, Living
  <1>2. \A k \in ProcKeys : procs'[k] = procs[k] \/ (Names(procs[k]))'
    BY DEF Names
  <1>3. \A y : (Names(y) => Names(y)') /\ (Dead(y) => Dead(y)')
    BY DEF Names, Dead
  <1>4. /\ daemon' \in [Pids -> Daemons] /\ kernel' \in [Mountpoints -> 0 .. MaxPid]
        /\ kids' \subseteq Pids /\ cut' \subseteq Pids
    BY DEF GoneInv, ConsoleTypeOK
  <1>5. \A y \in done' : y \in done \/ Dead(y)'
    BY <1>3
  <1>6. x.proc = req[r].proc \/ Names(x.proc)'
    BY <1>3
  <1>7. x.pc \in {"ensure", "stopped"} => Dead(x.proc)'
    BY <1>3
  <1>8. x.pc = "stopped" => x.proc.pid = 0 \/ kernel'[x.proc.mp] # x.proc.pid
    OBVIOUS
  <1> QED BY <1>1, <1>2, <1>4, <1>5, <1>6, <1>7, <1>8, RequestStep, Zenon

LEMMA QuietProper == Proper(Quiet) /\ NoProc \in Entries /\ Names(NoProc)
  <1>1. NoProc \in Entries /\ NoProc.pid = 0
    BY MaxPidNat DEF NoProc, Entries
  <1> QED BY <1>1 DEF Proper, Quiet, Handlers, Pcs, Names

LEMMA ArriveGone ==
  ASSUME GoneInv, NEW r \in Requests, NEW kind \in {"page", "start", "stop"},
         NEW key \in ProcKeys \cup {""}, NEW m \in Mountpoints \cup {""},
         kind = "start" => key \in Profiles /\ m \in Mountpoints,
         kind = "stop" => key \in ProcKeys, Arrive(r, kind, key, m)
  PROVE  GoneInv'
  <1> DEFINE x == [Quiet EXCEPT !.pc = "prune", !.kind = kind, !.key = key, !.mp = m,
                               !.todo = Mounted,
                               !.seen = {p \in Pids : kind = "start" /\ Living(p)
                                                      /\ OwnMount(p)}]
  <1>1. Proper(x) /\ x.proc = NoProc /\ x.pc = "prune"
    BY QuietProper, ZenonT(40) DEF Proper, Quiet, Handlers, Pcs, Mounted
  <1>2. /\ UNCHANGED <<daemon, kernel, procs, done, kids, cut>>
        /\ req' = [req EXCEPT ![r] = x]
    BY DEF Arrive
  <1> HIDE DEF x
  <1> QED BY <1>1, <1>2, QuietProper, TableStep DEF GoneInv, ConsoleTypeOK

LEMMA GoneIsDead ==
  ASSUME GoneInv, NEW y \in Entries, Names(y), Gone(y)
  PROVE  Dead(y)
  BY EntryPids DEF Gone, Names, Dead, GoneInv, DoneDead, Living

LEMMA PruneGone ==
  ASSUME GoneInv, NEW r \in Requests, ReconcilePrune(r)
  PROVE  GoneInv'
  <1> DEFINE kept == [k \in ProcKeys |-> IF Gone(procs[k]) THEN NoProc ELSE procs[k]]
             x == [req[r] EXCEPT !.pc = "adopt", !.todo = @ \ Tracked(kept),
                                 !.seen = {p \in @ : \A k \in ProcKeys :
                                             kept[k].mp = daemon[p].mp => kept[k].pid = p}]
  <1>0. req[r] \in Handlers /\ procs \in [ProcKeys -> Entries] /\ done \subseteq Entries
    BY DEF GoneInv, ConsoleTypeOK
  <1>1. /\ UNCHANGED <<daemon, kernel, kids, cut>>
        /\ procs' = kept
        /\ req' = [req EXCEPT ![r] = x]
        /\ done' \subseteq done \cup {procs[k] : k \in {k \in ProcKeys : Gone(procs[k])}}
    <2>1. req' = [req EXCEPT ![r] = x]
      BY DEF ReconcilePrune, GoneInv, ConsoleTypeOK
    <2> QED BY <2>1 DEF ReconcilePrune
  <1>2. Proper(x) /\ x.proc = req[r].proc /\ x.pc = "adopt"
    BY <1>0 DEF Proper, Handlers, Pcs, GoneInv, Asked, ReconcilePrune
  <1>3. \A k \in ProcKeys : Names(procs'[k]) /\ procs'[k] \in Entries
    BY <1>0, <1>1, QuietProper DEF GoneInv, EntriesNamed
  <1>4. procs' \in [ProcKeys -> Entries]
    BY <1>1, <1>3
  <1>5. \A k \in ProcKeys : Gone(procs[k]) => Dead(procs[k]) /\ procs[k] \in Entries
    BY <1>0, GoneIsDead DEF GoneInv, EntriesNamed
  <1>6. done' \subseteq Entries /\ \A y \in done' : y \in done \/ Dead(y)
    BY <1>0, <1>1, <1>5
  <1> HIDE DEF x, kept
  <1> QED BY <1>1, <1>2, <1>3, <1>4, <1>6, TableStep

LEMMA AdoptGone ==
  ASSUME GoneInv, NEW r \in Requests, ReconcileAdopt(r)
  PROVE  GoneInv'
  <1>0. /\ req[r] \in Handlers /\ procs \in [ProcKeys -> Entries] /\ done \subseteq Entries
        /\ daemon \in [Pids -> Daemons]
    BY DEF GoneInv, ConsoleTypeOK
  <1>1. PICK m \in req[r].todo :
          \/ /\ req' = [req EXCEPT ![r].todo = @ \ {m}]
             /\ UNCHANGED <<procs, done>>
          \/ \E p \in FindDaemonPid(m) : \E taken :
                /\ req' = [req EXCEPT ![r].todo = @ \ {m},
                                      ![r].seen = @ \ (FindDaemonPid(m) \ taken)]
                /\ \/ /\ procs' = [procs EXCEPT ![KeyOf(p)] = Adopted(p)]
                      /\ done' = done \ {Adopted(p)}
                   \/ UNCHANGED <<procs, done>>
    BY DEF ReconcileAdopt
  <1>2. UNCHANGED <<daemon, kernel, kids, cut>>
    BY DEF ReconcileAdopt
  <1>3. PICK T \in SUBSET Mountpoints, S \in SUBSET Pids :
          req' = [req EXCEPT ![r] = [req[r] EXCEPT !.todo = T, !.seen = S]]
    <2>1. CASE req' = [req EXCEPT ![r].todo = @ \ {m}]
      <3>1. req' = [req EXCEPT ![r] = [req[r] EXCEPT !.todo = req[r].todo \ {m}, !.seen = req[r].seen]]
        BY <1>0, <2>1 DEF Handlers, GoneInv, ConsoleTypeOK
      <3>2. req[r].todo \ {m} \in SUBSET Mountpoints /\ req[r].seen \in SUBSET Pids
        BY <1>0 DEF Handlers
      <3> QED BY <3>1, <3>2
    <2>2. ASSUME NEW F, req' = [req EXCEPT ![r].todo = @ \ {m}, ![r].seen = @ \ F]
          PROVE  \E T \in SUBSET Mountpoints, S \in SUBSET Pids :
                   req' = [req EXCEPT ![r] = [req[r] EXCEPT !.todo = T, !.seen = S]]
      <3>1. req' = [req EXCEPT ![r] = [req[r] EXCEPT !.todo = req[r].todo \ {m}, !.seen = req[r].seen \ F]]
        BY <1>0, <2>2 DEF Handlers, GoneInv, ConsoleTypeOK
      <3>2. req[r].todo \ {m} \in SUBSET Mountpoints /\ req[r].seen \ F \in SUBSET Pids
        BY <1>0 DEF Handlers
      <3> QED BY <3>1, <3>2
    <2> QED BY <1>1, <2>1, <2>2
  <1> DEFINE x == [req[r] EXCEPT !.todo = T, !.seen = S]
  <1>4. Proper(x) /\ x.proc = req[r].proc /\ x.pc = "adopt"
    BY <1>0 DEF Proper, Handlers, Pcs, GoneInv, Asked, ReconcileAdopt
  <1>5. /\ procs' \in [ProcKeys -> Entries] /\ done' \subseteq done
        /\ \A k \in ProcKeys : procs'[k] = procs[k] \/ Names(procs'[k])
    <2>1. CASE UNCHANGED <<procs, done>>
      BY <1>0, <2>1
    <2>2. ASSUME NEW p \in FindDaemonPid(m), procs' = [procs EXCEPT ![KeyOf(p)] = Adopted(p)],
                 done' = done \ {Adopted(p)}
          PROVE  /\ procs' \in [ProcKeys -> Entries] /\ done' \subseteq done
                 /\ \A k \in ProcKeys : procs'[k] = procs[k] \/ Names(procs'[k])
      <3>1. p \in Pids /\ Living(p) /\ p \in 0 .. MaxPid
        BY MaxPidNat DEF FindDaemonPid, Pids
      <3>2. Adopted(p) \in Entries /\ Names(Adopted(p))
        BY <1>0, <3>1 DEF Adopted, Entries, Names, Living, Daemons
      <3> QED BY <1>0, <2>2, <3>2
    <2> QED BY <1>1, <2>1, <2>2
  <1>6. req' = [req EXCEPT ![r] = x]
    BY <1>3
  <1> HIDE DEF x
  <1> QED BY <1>0, <1>2, <1>4, <1>5, <1>6, TableStep

LEMMA SlotEntry ==
  ASSUME GoneInv, NEW r \in Requests
  PROVE  Slot(r) \in Entries /\ Slot(r).pid = 0
  <1>1. 0 \in 0 .. MaxPid
    BY MaxPidNat
  <1>2. req[r].mp \in Mountpoints \cup {""}
    BY DEF GoneInv, ConsoleTypeOK, Handlers
  <1> QED BY <1>1, <1>2 DEF Slot, Entries

\* The steps of Start.
LEMMA StartGone ==
  ASSUME GoneInv, NEW r \in Requests,
         PageDone(r) \/ StartReserve(r) \/ StartUnreserve(r) \/ StartRegister(r)
  PROVE  GoneInv'
  <1>0. /\ req[r] \in Handlers /\ procs \in [ProcKeys -> Entries] /\ done \subseteq Entries
        /\ req \in [Requests -> Handlers]
    BY DEF GoneInv, ConsoleTypeOK
  <1>1. CASE req' = [req EXCEPT ![r] = Quiet]
    <2>1. UNCHANGED <<daemon, kernel, kids, cut>>
      BY DEF PageDone, StartReserve, StartUnreserve, StartRegister
    <2>2. \A k \in ProcKeys : procs'[k] = procs[k] \/ procs'[k] = NoProc \/ procs'[k] = req[r].proc
                              \/ procs'[k] = Slot(r)
      BY <1>0 DEF PageDone, StartReserve, StartUnreserve, StartRegister, Reserved
    <2>3. \A k \in ProcKeys : procs'[k] \in Entries /\ (procs'[k] = procs[k] \/ Names(procs'[k]))
      BY <1>0, <2>2, QuietProper, SlotEntry, ZenonT(40) DEF GoneInv, EntriesNamed, Handlers, Names
    <2>4. procs' \in [ProcKeys -> Entries]
      <3>1. procs' = [k \in ProcKeys |-> procs'[k]]
        BY <1>0 DEF PageDone, StartReserve, StartUnreserve, StartRegister, Reserved
      <3> QED BY <2>3, <3>1
    <2>5. done' \subseteq done \cup {Slot(r)}
      BY DEF PageDone, StartReserve, StartUnreserve, StartRegister, Awaited
    <2>6. done' \subseteq Entries /\ \A y \in done' : y \in done \/ Dead(y)
      BY <1>0, <2>5, SlotEntry DEF Dead
    <2> QED BY <1>1, <2>1, <2>3, <2>4, <2>6, QuietProper, TableStep DEF Quiet
  <1>2. CASE StartReserve(r) /\ req' # [req EXCEPT ![r] = Quiet]
    <2> DEFINE x == [req[r] EXCEPT !.pc = "spawn"]
    <2>1. /\ UNCHANGED <<daemon, kernel, kids, cut>>
          /\ procs' = [procs EXCEPT ![req[r].key] = Slot(r)]
          /\ done' \subseteq done
      BY <1>2 DEF StartReserve, Reserved
    <2>2. req' = [req EXCEPT ![r] = x]
      BY <1>0, <1>2 DEF StartReserve
    <2>3. Proper(x) /\ x.proc = req[r].proc /\ x.pc = "spawn"
      BY <1>0, <1>2 DEF StartReserve, Reconciled, Proper, Handlers, Pcs, GoneInv, Asked
    <2>4. procs' \in [ProcKeys -> Entries] /\ \A k \in ProcKeys : procs'[k] = procs[k] \/ Names(procs'[k])
      BY <1>0, <2>1, SlotEntry DEF Names
    <2> HIDE DEF x
    <2> QED BY <1>0, <2>1, <2>2, <2>3, <2>4, TableStep
  <1> QED BY <1>1, <1>2 DEF PageDone, StartUnreserve, StartRegister

\* A pid is given out once.
LEMMA SpawnOnward ==
  ASSUME GoneInv, NEW p \in Free, NEW k \in Profiles, NEW m \in Mountpoints,
         daemon' = Spawned(p, k, m)
  PROVE  /\ p \in Pids /\ Onward /\ DaemonsNamed' /\ daemon' \in [Pids -> Daemons]
         /\ daemon'[p].stage = "starting" /\ daemon'[p].mp = m /\ daemon'[p].profile = k
  <1>1. p \in Pids /\ daemon[p].stage = "none" /\ daemon \in [Pids -> Daemons]
    BY DEF Free, GoneInv, ConsoleTypeOK
  <1> DEFINE x == [NoDaemon EXCEPT !.stage = "starting", !.profile = k, !.mp = m]
  <1>2. x \in Daemons /\ x.stage = "starting" /\ x.mp = m /\ x.profile = k
    BY DEF NoDaemon, Daemons, Stages
  <1>3. daemon' = [daemon EXCEPT ![p] = x]
    BY DEF Spawned
  <1> HIDE DEF x
  <1> QED BY <1>1, <1>2, <1>3 DEF Onward, DaemonsNamed, GoneInv, Living

ChildOf(p, m) == [pid |-> p, adopted |-> FALSE, mp |-> m, by |-> {}]

LEMMA ChildEntry ==
  ASSUME NEW p \in Pids, NEW m \in Mountpoints
  PROVE  /\ ChildOf(p, m) \in Entries /\ ChildOf(p, m).pid = p /\ ChildOf(p, m).mp = m
         /\ ChildOf(p, m) = [NoProc EXCEPT !.pid = p, !.mp = m]
  <1>1. p \in 0 .. MaxPid
    BY MaxPidNat DEF Pids
  <1>2. ChildOf(p, m) \in Entries
    BY <1>1 DEF Entries, ChildOf
  <1>3. ChildOf(p, m).pid = p /\ ChildOf(p, m).mp = m
    BY DEF ChildOf
  <1>4. ChildOf(p, m) = [NoProc EXCEPT !.pid = p, !.mp = m]
    <2> PICK y : y = [NoProc EXCEPT !.pid = p, !.mp = m]
      OBVIOUS
    <2>1. y = [pid |-> p, adopted |-> FALSE, mp |-> m, by |-> {}]
      BY DEF NoProc
    <2> QED BY <2>1 DEF ChildOf
  <1> QED BY <1>2, <1>3, <1>4

LEMMA SpawnGone ==
  ASSUME GoneInv, NEW r \in Requests, StartSpawn(r)
  PROVE  GoneInv'
  <1>0. req[r] \in Handlers /\ req \in [Requests -> Handlers]
    BY DEF GoneInv, ConsoleTypeOK
  <1>1. PICK p \in Free :
          /\ req[r].pc = "spawn"
          /\ daemon' = Spawned(p, req[r].key, req[r].mp)
          /\ kids' = kids \cup {p}
          /\ req' = [req EXCEPT ![r].pc = "register",
                                ![r].proc = [NoProc EXCEPT !.pid = p, !.mp = req[r].mp]]
          /\ UNCHANGED <<kernel, procs, done, cut>>
    BY DEF StartSpawn
  <1>2. req[r].key \in Profiles /\ req[r].mp \in Mountpoints /\ req[r].kind = "start"
    BY <1>1 DEF GoneInv, Asked
  <1> PICK y : y = ChildOf(p, req[r].mp)
    OBVIOUS
  <1> PICK x : x = [req[r] EXCEPT !.pc = "register", !.proc = y]
    OBVIOUS
  <1>3. /\ p \in Pids /\ Onward /\ DaemonsNamed' /\ daemon' \in [Pids -> Daemons]
        /\ daemon'[p].stage = "starting" /\ daemon'[p].mp = req[r].mp
    BY <1>1, <1>2, SpawnOnward
  <1>4. y \in Entries /\ Names(y)'
    <2>4. y \in Entries /\ y.pid = p /\ y.mp = req[r].mp
      BY <1>2, <1>3, ChildEntry
    <2>5. Names(y)'
      BY <1>3, <2>4 DEF Names
    <2> QED BY <2>4, <2>5
  <1>5. Proper(x) /\ x.proc = y /\ x.pc = "register"
    BY <1>0, <1>2, <1>4 DEF Proper, Handlers, Pcs
  <1>6. req' = [req EXCEPT ![r] = x]
    BY <1>0, <1>1, <1>2, <1>3, ChildEntry
  <1>7. MountsKept /\ kernel' \in [Mountpoints -> 0 .. MaxPid]
    BY <1>1, DetachKeeps
  <1>8. /\ procs' \in [ProcKeys -> Entries] /\ done' \subseteq Entries /\ kids' \subseteq Pids
        /\ cut' \subseteq Pids
    BY <1>1, <1>3 DEF GoneInv, ConsoleTypeOK
  <1>9. /\ \A k \in ProcKeys : procs'[k] = procs[k] \/ (Names(procs[k]))'
        /\ \A z \in done' : z \in done \/ Dead(z)'
    BY <1>1
  <1>10. Names(x.proc)' /\ x.pc \notin {"ensure", "stopped"}
    BY <1>4, <1>5
  <1> QED BY <1>3, <1>5, <1>6, <1>7, <1>8, <1>9, <1>10, RequestStep

-----------------------------------------------------------------------------
(* Stop *)

\* A signal moves its target on, if it lives.
LEMMA TermOnward ==
  ASSUME GoneInv, NEW p \in Pids, daemon[p].stage # "none", Term(p)
  PROVE  /\ Onward /\ MountsKept /\ DaemonsNamed' /\ daemon' \in [Pids -> Daemons]
         /\ kernel' \in [Mountpoints -> 0 .. MaxPid] /\ cut' \subseteq Pids
  <1>0. daemon \in [Pids -> Daemons] /\ cut \subseteq Pids
    BY DEF GoneInv, ConsoleTypeOK
  <1>1. CASE daemon[p].stage \in Orderly
    <2>1. Living(p) /\ daemon' = Exited(p) /\ kernel' = Detached(daemon[p].mp)
          /\ cut' = cut \cup {p}
      BY <1>1 DEF Term, Living, Orderly
    <2> QED BY <1>0, <2>1, ExitMoves, MoveOnward, DetachKeeps
  <1>2. CASE daemon[p].stage \notin Orderly /\ Living(p)
    <2> DEFINE x == [daemon[p] EXCEPT !.sig = TRUE,
                                      !.up = daemon[p].up \/ daemon[p].stage = "serving"]
    <2>1. daemon' = [daemon EXCEPT ![p] = x]
      BY <1>0, <1>2 DEF Term
    <2>2. UNCHANGED <<kernel, cut>>
      BY <1>2 DEF Term
    <2>3. x \in Daemons /\ x.mp = daemon[p].mp /\ x.stage = daemon[p].stage
          /\ x.profile = daemon[p].profile
      BY <1>0 DEF Daemons
    <2>4. Moves(p, x)
      BY <2>1, <2>3 DEF Moves
    <2> HIDE DEF x
    <2> QED BY <1>0, <1>2, <2>2, <2>4, MoveOnward, DetachKeeps
  <1>3. CASE ~Living(p)
    <2>1. UNCHANGED <<daemon, kernel, cut>>
      BY <1>3 DEF Term, Living, Orderly
    <2> QED BY <1>0, <2>1, DetachKeeps DEF Onward, DaemonsNamed, GoneInv, Living
  <1> QED BY <1>1, <1>2, <1>3

LEMMA KillOnward ==
  ASSUME GoneInv, NEW p \in Pids, daemon[p].stage # "none", Kill(p)
  PROVE  /\ Onward /\ DaemonsNamed' /\ daemon' \in [Pids -> Daemons]
         /\ cut' \subseteq Pids /\ daemon'[p].stage = "dead"
  <1>0. daemon \in [Pids -> Daemons] /\ cut \subseteq Pids
    BY DEF GoneInv, ConsoleTypeOK
  <1>1. CASE Living(p)
    <2>1. daemon' = Exited(p) /\ cut' \subseteq Pids
      BY <1>0, <1>1 DEF Kill
    <2>2. daemon'[p].stage = "dead"
      BY <1>0, <2>1 DEF Exited, NoDaemon
    <2> QED BY <1>1, <2>1, <2>2, ExitMoves, MoveOnward
  <1>2. CASE ~Living(p)
    <2>1. UNCHANGED <<daemon, cut>> /\ daemon[p].stage = "dead"
      BY <1>2 DEF Kill, Living
    <2> QED BY <1>0, <2>1 DEF Onward, DaemonsNamed, GoneInv, Living
  <1> QED BY <1>1, <1>2

\* Nothing happens to a process.
LEMMA StillOnward ==
  ASSUME GoneInv, UNCHANGED daemon
  PROVE  Onward /\ DaemonsNamed' /\ daemon' \in [Pids -> Daemons]
  BY DEF GoneInv, ConsoleTypeOK, Onward, DaemonsNamed, Living

LEMMA StopSignalGone ==
  ASSUME GoneInv, NEW r \in Requests, StopSignal(r)
  PROVE  GoneInv'
  <1>0. /\ req[r] \in Handlers /\ req \in [Requests -> Handlers]
        /\ procs \in [ProcKeys -> Entries] /\ StopTimeout \in Nat
    BY ConsoleAssumption DEF GoneInv, ConsoleTypeOK, StopTimeout
  <1> PICK mp : mp = procs[req[r].key]
    OBVIOUS
  <1>1. req[r].key \in ProcKeys /\ req[r].kind = "stop" /\ mp \in Entries /\ Names(mp)
    BY <1>0 DEF StopSignal, Reconciled, GoneInv, Asked, EntriesNamed
  <1>2. UNCHANGED <<procs, done, kids>>
    BY DEF StopSignal
  <1>3. CASE req' = [req EXCEPT ![r] = Quiet] /\ UNCHANGED <<daemon, kernel, cut>>
    BY <1>2, <1>3, QuietProper, TableStep DEF Quiet, GoneInv, ConsoleTypeOK
  <1>4. CASE /\ mp \in done /\ UNCHANGED <<daemon, kernel, cut>>
             /\ req' = [req EXCEPT ![r].pc = "ensure", ![r].proc = mp]
    <2> DEFINE x == [req[r] EXCEPT !.pc = "ensure", !.proc = mp]
    <2>1. req' = [req EXCEPT ![r] = x]
      BY <1>0, <1>4
    <2>2. Proper(x) /\ x.proc = mp /\ x.pc = "ensure"
      BY <1>0, <1>1 DEF Proper, Handlers, Pcs
    <2>3. Dead(mp)
      BY <1>4 DEF GoneInv, DoneDead
    <2> HIDE DEF x
    <2> QED BY <1>1, <1>2, <1>4, <2>1, <2>2, <2>3, TableStep, ZenonT(40) DEF GoneInv, ConsoleTypeOK
  <1>5. CASE /\ req' = [req EXCEPT ![r].pc = "wait", ![r].proc = mp, ![r].left = StopTimeout]
             /\ IF mp.pid = 0 THEN UNCHANGED <<daemon, kernel, cut>> ELSE Term(mp.pid)
    <2> PICK x : x = [req[r] EXCEPT !.pc = "wait", !.proc = mp, !.left = StopTimeout]
      OBVIOUS
    <2>1. req' = [req EXCEPT ![r] = x]
      BY <1>0, <1>5
    <2>2. Proper(x) /\ x.proc = mp /\ x.pc = "wait"
      BY <1>0, <1>1 DEF Proper, Handlers, Pcs
    <2>3. /\ Onward /\ MountsKept /\ DaemonsNamed' /\ daemon' \in [Pids -> Daemons]
          /\ kernel' \in [Mountpoints -> 0 .. MaxPid] /\ cut' \subseteq Pids
      <3>1. CASE mp.pid = 0
        BY <1>5, <3>1, StillOnward, DetachKeeps DEF GoneInv, ConsoleTypeOK
      <3>2. CASE mp.pid # 0
        <4>1. mp.pid \in Pids /\ daemon[mp.pid].stage # "none" /\ Term(mp.pid)
          BY <1>1, <1>5, <3>2, EntryPids DEF Names
        <4> QED BY <4>1, TermOnward
      <3> QED BY <3>1, <3>2
    <2>4. Names(x.proc)'
      BY <1>1, <2>2, <2>3, EntryPids DEF Names, Onward
    <2>5. /\ procs' \in [ProcKeys -> Entries] /\ done' \subseteq Entries /\ kids' \subseteq Pids
          /\ \A k \in ProcKeys : procs'[k] = procs[k]
          /\ \A z \in done' : z \in done
      BY <1>2 DEF GoneInv, ConsoleTypeOK
    <2> QED BY <2>1, <2>2, <2>3, <2>4, <2>5, RequestStep
  <1> QED BY <1>3, <1>4, <1>5 DEF StopSignal

LEMMA UnmountSignalGone ==
  ASSUME GoneInv, NEW r \in Requests, NEW m \in Mountpoints, UnmountSignal(r, m)
  PROVE  GoneInv'
  <1>0. /\ daemon \in [Pids -> Daemons] /\ StopTimeout \in Nat
    BY ConsoleAssumption DEF GoneInv, ConsoleTypeOK, StopTimeout
  <1>2. UNCHANGED <<procs, done, kids>>
    BY DEF UnmountSignal
  <1>3. ASSUME NEW p \in FindDaemonPid(m), Term(p),
               req' = [req EXCEPT ![r] = [Quiet EXCEPT !.pc = "wait", !.kind = "unmount",
                                  !.mp = m, !.proc = Adopted(p), !.left = StopTimeout]]
        PROVE  GoneInv'
    <2> PICK y : y = Adopted(p)
      OBVIOUS
    <2> PICK x : x = [Quiet EXCEPT !.pc = "wait", !.kind = "unmount",
                                   !.mp = m, !.proc = y, !.left = StopTimeout]
      OBVIOUS
    <2>1. p \in Pids /\ Living(p) /\ p \in 0 .. MaxPid
      BY MaxPidNat DEF FindDaemonPid, Pids
    <2>2. y \in Entries /\ Names(y) /\ y.pid = p
      BY <1>0, <2>1 DEF Adopted, Entries, Names, Living, Daemons
    <2>3. Proper(x) /\ x.proc = y /\ x.pc = "wait"
      BY <1>0, <2>2, QuietProper DEF Proper, Handlers, Pcs, Quiet
    <2>4. /\ Onward /\ MountsKept /\ DaemonsNamed' /\ daemon' \in [Pids -> Daemons]
          /\ kernel' \in [Mountpoints -> 0 .. MaxPid] /\ cut' \subseteq Pids
      BY <1>3, <2>1, TermOnward DEF Living
    <2>5. Names(x.proc)'
      BY <2>1, <2>2, <2>3, <2>4 DEF Names, Onward
    <2>6. /\ procs' \in [ProcKeys -> Entries] /\ done' \subseteq Entries /\ kids' \subseteq Pids
          /\ \A k \in ProcKeys : procs'[k] = procs[k]
          /\ \A z \in done' : z \in done
      BY <1>2 DEF GoneInv, ConsoleTypeOK
    <2>7. req' = [req EXCEPT ![r] = x]
      BY <1>3
    <2> QED BY <2>3, <2>4, <2>5, <2>6, <2>7, RequestStep
  <1>4. CASE /\ req' = [req EXCEPT ![r] = [Quiet EXCEPT !.pc = "ensure", !.kind = "unmount",
                                !.mp = m, !.proc = [NoProc EXCEPT !.mp = m]]]
             /\ UNCHANGED <<daemon, kernel, cut>>
    <2> DEFINE y == [NoProc EXCEPT !.mp = m]
               x == [Quiet EXCEPT !.pc = "ensure", !.kind = "unmount", !.mp = m, !.proc = y]
    <2>1. y \in Entries /\ y.pid = 0
      BY QuietProper DEF NoProc, Entries
    <2>2. Proper(x) /\ x.proc = y /\ x.pc = "ensure"
      BY <2>1, QuietProper DEF Proper, Handlers, Pcs, Quiet
    <2>3. req' = [req EXCEPT ![r] = x]
      BY <1>4
    <2>4. Names(y) /\ Dead(y)
      BY <2>1 DEF Names, Dead
    <2> HIDE DEF x, y
    <2> QED BY <1>2, <1>4, <2>2, <2>3, <2>4, TableStep DEF GoneInv, ConsoleTypeOK
  <1> QED BY <1>3, <1>4 DEF UnmountSignal

LEMMA StopEndGone ==
  ASSUME GoneInv, NEW r \in Requests, NEW ok \in BOOLEAN,
         StopWaits(r) \/ StopKills(r, ok) \/ StopEnsure(r, ok)
  PROVE  GoneInv'
  <1> PICK y : y = req[r].proc
    OBVIOUS
  <1>0. /\ req[r] \in Handlers /\ req \in [Requests -> Handlers] /\ y \in Entries /\ Names(y)
        /\ done \subseteq Entries /\ kids \subseteq Pids /\ procs \in [ProcKeys -> Entries]
        /\ cut \subseteq Pids /\ kernel \in [Mountpoints -> 0 .. MaxPid]
        /\ daemon \in [Pids -> Daemons]
    BY DEF GoneInv, ConsoleTypeOK, EntriesNamed, Handlers
  <1>1. Proper(Success(y)) /\ Success(y).proc = y /\ Success(y).pc = "stopped"
    BY <1>0 DEF Success, Quiet, Proper, Handlers, Pcs
  <1>2. CASE StopWaits(r)
    <2> DEFINE x == [req[r] EXCEPT !.pc = "ensure"]
    <2>1. req' = [req EXCEPT ![r] = x]
      BY <1>0, <1>2 DEF StopWaits
    <2>2. Proper(x) /\ x.proc = y /\ x.pc = "ensure"
      BY <1>0 DEF Proper, Handlers, Pcs, GoneInv, Asked
    <2>3. Dead(y)
      BY <1>0, <1>2, GoneIsDead DEF StopWaits
    <2>4. UNCHANGED <<daemon, kernel, procs, kids, cut>> /\ done' = done \cup {y}
      BY <1>2 DEF StopWaits
    <2> HIDE DEF x
    <2> QED BY <1>0, <2>1, <2>2, <2>3, <2>4, TableStep
  <1>3. CASE StopKills(r, ok)
    <2>1. /\ kernel' = kernel \/ kernel' = Detached(y.mp)
          /\ UNCHANGED <<procs, kids>>
          /\ IF y.pid = 0 THEN UNCHANGED <<daemon, cut>> ELSE Kill(y.pid)
          /\ \/ /\ kernel' = Detached(y.mp) \/ y.mp \notin Mounted
                /\ done' = done \cup {y} /\ req' = [req EXCEPT ![r] = Success(y)]
             \/ UNCHANGED done /\ req' = [req EXCEPT ![r] = Quiet]
      BY <1>3 DEF StopKills
    <2>2. MountsKept /\ kernel' \in [Mountpoints -> 0 .. MaxPid]
      BY <2>1, DetachKeeps
    <2>3. /\ Onward /\ DaemonsNamed' /\ daemon' \in [Pids -> Daemons] /\ cut' \subseteq Pids
          /\ Dead(y)'
      <3>1. CASE y.pid = 0
        BY <1>0, <2>1, <3>1, StillOnward DEF Dead
      <3>2. CASE y.pid # 0
        BY <1>0, <2>1, <3>2, EntryPids, KillOnward DEF Names, Dead
      <3> QED BY <3>1, <3>2
    <2>4. Names(y)'
      BY <1>0, <2>3, EntryPids DEF Names, Onward
    <2>5. CASE UNCHANGED done /\ req' = [req EXCEPT ![r] = Quiet]
      <3>1. Names(Quiet.proc)' /\ Quiet.pc = "idle"
        BY DEF Quiet, NoProc, Names
      <3> QED BY <1>0, <2>1, <2>2, <2>3, <2>5, <3>1, QuietProper, RequestStep
    <2>6. CASE /\ kernel' = Detached(y.mp) \/ y.mp \notin Mounted
               /\ done' = done \cup {y} /\ req' = [req EXCEPT ![r] = Success(y)]
      <3>1. y.pid = 0 \/ kernel'[y.mp] # y.pid
        <4>1. CASE y.pid # 0
          <5>1. y.mp \in Mountpoints
            BY <1>0, <4>1, EntryPids DEF Names, GoneInv, DaemonsNamed
          <5>2. kernel'[y.mp] = 0
            BY <1>0, <2>1, <2>6, <5>1 DEF Detached, Mounted
          <5> QED BY <4>1, <5>2
        <4> QED BY <4>1
      <3> PICK x : x = Success(y)
        OBVIOUS
      <3>2. Proper(x) /\ x.proc = y /\ x.pc = "stopped" /\ req' = [req EXCEPT ![r] = x]
        BY <1>1, <2>6
      <3>3. done' \subseteq Entries /\ \A z \in done' : z \in done \/ Dead(z)'
        BY <1>0, <2>3, <2>6
      <3> QED BY <1>0, <2>1, <2>2, <2>3, <2>4, <3>1, <3>2, <3>3, RequestStep
    <2> QED BY <2>1, <2>5, <2>6
  <1>4. CASE StopEnsure(r, ok)
    <2>1. /\ kernel' = kernel \/ kernel' = Detached(y.mp)
          /\ UNCHANGED <<daemon, procs, done, kids, cut>>
          /\ req[r].pc = "ensure"
          /\ \/ req' = [req EXCEPT ![r] = Quiet]
             \/ /\ y.mp \notin Mounted \/ kernel' = Detached(y.mp)
                /\ req' = [req EXCEPT ![r] = Success(y)]
      BY <1>0, <1>4 DEF StopEnsure, LeftBehind
    <2>2. MountsKept /\ kernel' \in [Mountpoints -> 0 .. MaxPid]
      BY <2>1, DetachKeeps
    <2>3. Onward /\ DaemonsNamed' /\ daemon' \in [Pids -> Daemons]
      BY <2>1, StillOnward
    <2>4. Names(y)' /\ Dead(y)'
      BY <1>0, <2>1 DEF Names, Dead, GoneInv, DoneDead
    <2>5. CASE req' = [req EXCEPT ![r] = Quiet]
      <3>1. Names(Quiet.proc)' /\ Quiet.pc = "idle"
        BY DEF Quiet, NoProc, Names
      <3> QED BY <1>0, <2>1, <2>2, <2>3, <2>5, <3>1, QuietProper, RequestStep
    <2>6. CASE /\ y.mp \notin Mounted \/ kernel' = Detached(y.mp)
               /\ req' = [req EXCEPT ![r] = Success(y)]
      <3>1. y.pid = 0 \/ kernel'[y.mp] # y.pid
        <4>1. CASE y.pid # 0
          <5>1. y.mp \in Mountpoints
            BY <1>0, <4>1, EntryPids DEF Names, GoneInv, DaemonsNamed
          <5>2. kernel'[y.mp] = 0
            BY <1>0, <2>1, <2>6, <5>1 DEF Detached, Mounted
          <5> QED BY <4>1, <5>2
        <4> QED BY <4>1
      <3> PICK x : x = Success(y)
        OBVIOUS
      <3>2. Proper(x) /\ x.proc = y /\ x.pc = "stopped" /\ req' = [req EXCEPT ![r] = x]
        BY <1>1, <2>6
      <3> QED BY <1>0, <2>1, <2>2, <2>3, <2>4, <3>1, <3>2, RequestStep
    <2> QED BY <2>1, <2>5, <2>6
  <1> QED BY <1>2, <1>3, <1>4

LEMMA RequestNextGone ==
  ASSUME GoneInv, NEW r \in Requests, RequestNext(r)
  PROVE  GoneInv'
  <1>1. CASE \/ Arrive(r, "page", "", "") \/ \E k \in ProcKeys : Arrive(r, "stop", k, "")
             \/ \E k \in Profiles, m \in Mountpoints : Arrive(r, "start", k, m)
    <2>1. CASE Arrive(r, "page", "", "")
      BY <2>1, ArriveGone
    <2>2. ASSUME NEW k \in ProcKeys, Arrive(r, "stop", k, "") PROVE GoneInv'
      BY <2>2, ArriveGone
    <2>3. ASSUME NEW k \in Profiles, NEW m \in Mountpoints, Arrive(r, "start", k, m)
          PROVE  GoneInv'
      <3>1. k \in ProcKeys
        BY DEF ProcKeys
      <3> QED BY <2>3, <3>1, ArriveGone
    <2> QED BY <1>1, <2>1, <2>2, <2>3
  <1> QED BY <1>1, PruneGone, AdoptGone, StartGone, SpawnGone, StopSignalGone, StopEndGone,
             UnmountSignalGone DEF RequestNext

-----------------------------------------------------------------------------
(* The rest of the world *)

LEMMA DetachGone ==
  ASSUME GoneInv, NEW m \in Mountpoints, UnmountExternal(m) \/ DetachedByHand(m)
  PROVE  GoneInv'
  <1>1. kernel' = Detached(m) /\ UNCHANGED <<daemon, procs, done, kids, req, cut>>
    BY DEF UnmountExternal, DetachedByHand
  <1> QED BY <1>1, DetachKeeps, StillOnward, DaemonStep DEF GoneInv, ConsoleTypeOK

LEMMA TerminalGone ==
  ASSUME GoneInv, NEW m \in Mountpoints, NEW k \in Profiles, TerminalMount(k, m)
  PROVE  GoneInv'
  <1>1. PICK p \in Free : daemon' = Spawned(p, k, m)
    BY DEF TerminalMount
  <1>2. UNCHANGED <<kernel, procs, done, kids, req, cut>>
    BY DEF TerminalMount
  <1> QED BY <1>1, <1>2, SpawnOnward, DetachKeeps, DaemonStep DEF GoneInv, ConsoleTypeOK

LEMMA RestartGone ==
  ASSUME GoneInv, ConsoleRestarts
  PROVE  GoneInv'
  <1>1. \A r \in Requests : req'[r] = req[r] \/ req'[r] = Quiet
    BY DEF ConsoleRestarts
  <1>2. ConsoleTypeOK'
    BY QuietProper DEF ConsoleRestarts, GoneInv, ConsoleTypeOK, Proper
  <1>3. Asked'
    <2>1. Quiet.kind = "" /\ Quiet.pc = "idle"
      BY DEF Quiet
    <2> QED BY <1>1, <2>1 DEF GoneInv, Asked
  <1>4. Onward /\ MountsKept /\ DaemonsNamed'
    BY DetachKeeps, StillOnward DEF ConsoleRestarts
  <1>5. \A k \in ProcKeys : (Names(procs[k]))'
    BY DEF ConsoleRestarts, NoProc, Names
  <1>6. \A r \in Requests : req'[r].proc = req[r].proc \/ (Names(req[r].proc))'
    <2>1. Quiet.proc.pid = 0
      BY DEF Quiet, NoProc
    <2> QED BY <1>1, <2>1 DEF Names
  <1>7. \A r \in Requests : req'[r].pc \in {"ensure", "stopped"} => req'[r] = req[r]
    <2>1. Quiet.pc = "idle"
      BY DEF Quiet
    <2> QED BY <1>1, <2>1
  <1>8. done' = {}
    BY DEF ConsoleRestarts
  <1> QED BY <1>2, <1>3, <1>4, <1>5, <1>6, <1>7, <1>8, GoneStep

LEMMA TickGone ==
  ASSUME GoneInv, Tick
  PROVE  GoneInv'
  <1>0. daemon \in [Pids -> Daemons] /\ req \in [Requests -> Handlers]
    BY DEF GoneInv, ConsoleTypeOK
  <1>1. \A p \in Pids : /\ daemon'[p] \in Daemons /\ daemon'[p].stage = daemon[p].stage
                        /\ daemon'[p].mp = daemon[p].mp /\ daemon'[p].profile = daemon[p].profile
    <2> SUFFICES ASSUME NEW p \in Pids
                 PROVE  /\ daemon'[p] \in Daemons /\ daemon'[p].stage = daemon[p].stage
                        /\ daemon'[p].mp = daemon[p].mp /\ daemon'[p].profile = daemon[p].profile
      OBVIOUS
    <2>1. daemon[p].age + 1 \in Nat
      <3>1. daemon[p] \in Daemons
        BY <1>0
      <3>2. daemon[p].age \in Nat
        BY <3>1 DEF Daemons
      <3> QED BY <3>2
    <2>2. daemon'[p] = daemon[p] \/ daemon'[p] = [daemon[p] EXCEPT !.age = daemon[p].age + 1]
      BY <1>0 DEF Tick
    <2> QED BY <1>0, <2>1, <2>2 DEF Daemons
  <1>2. \A r \in Requests :
          /\ req'[r] \in Handlers /\ req'[r].pc = req[r].pc /\ req'[r].proc = req[r].proc
          /\ req'[r].kind = req[r].kind /\ req'[r].key = req[r].key /\ req'[r].mp = req[r].mp
    <2> SUFFICES ASSUME NEW r \in Requests
                 PROVE  /\ req'[r] \in Handlers /\ req'[r].pc = req[r].pc /\ req'[r].proc = req[r].proc
                        /\ req'[r].kind = req[r].kind /\ req'[r].key = req[r].key /\ req'[r].mp = req[r].mp
      OBVIOUS
    <2>1. req[r].pc = "wait" => req[r].left - 1 \in Nat
      <3>1. req[r].left \in Nat
        BY <1>0 DEF Handlers
      <3>2. req[r].pc = "wait" => req[r].left # 0
        BY DEF Tick, Due
      <3> QED BY <3>1, <3>2
    <2>2. req'[r] = IF req[r].pc = "wait" THEN [req[r] EXCEPT !.left = req[r].left - 1] ELSE req[r]
      BY <1>0 DEF Tick
    <2> QED BY <1>0, <2>1, <2>2 DEF Handlers
  <1>3. UNCHANGED <<kernel, procs, done, kids, cut>>
    BY DEF Tick
  <1>4. daemon' \in [Pids -> Daemons] /\ req' \in [Requests -> Handlers]
    <2>1. daemon' = [p \in Pids |-> daemon'[p]] /\ req' = [r \in Requests |-> req'[r]]
      BY DEF Tick
    <2> QED BY <1>1, <1>2, <2>1
  <1>5. ConsoleTypeOK'
    BY <1>3, <1>4 DEF GoneInv, ConsoleTypeOK
  <1>6. Onward /\ DaemonsNamed' /\ Asked'
    BY <1>1, <1>2 DEF Onward, DaemonsNamed, Asked, GoneInv, Living
  <1>7. MountsKept
    BY <1>3, DetachKeeps
  <1> QED BY <1>2, <1>3, <1>5, <1>6, <1>7, GoneStep

LEMMA ConsoleNextGone ==
  ASSUME GoneInv, [ConsoleNext]_consoleVars
  PROVE  GoneInv'
  <1>1. CASE ConsoleNext
    BY <1>1, DaemonNextGone, RequestNextGone, DetachGone, TerminalGone, RestartGone, TickGone
       DEF ConsoleNext
  <1>2. CASE UNCHANGED consoleVars
    <2>1. UNCHANGED <<daemon, kernel, procs, done, kids, req, cut>>
      BY <1>2 DEF consoleVars
    <2> QED BY <2>1, StillOnward, DetachKeeps, DaemonStep DEF GoneInv, ConsoleTypeOK
  <1> QED BY <1>1, <1>2

\* Every step of the daemons, the kernel, the handlers and the world keeps
\* GoneInv.
THEOREM ConsoleInvariant == ConsoleSpec => []GoneInv
  <1>1. GoneInv /\ [ConsoleNext]_consoleVars => GoneInv'
    BY ConsoleNextGone
  <1> QED BY <1>1, ConsoleInitGone, PTL DEF ConsoleSpec

\* Supervisor.Stop and stopExternal report success only of a process that is
\* dead and whose mount is detached, whatever other handlers, crashes, reuses of
\* an entry and unmounts by hand come between.
THEOREM StoppedIsGone == ConsoleSpec => []StopMeansGone
  <1>1. GoneInv => StopMeansGone
    BY DEF GoneInv
  <1> QED BY <1>1, ConsoleInvariant, PTL

-----------------------------------------------------------------------------
(* Patience: whoever waits for a daemon outwaits its watchdog *)

\* Stop waits longer than the daemon's own watchdog, and a daemon is told once.
Patient == Watchdog < StopWait /\ "stopTwice" \notin Races

\* A daemon shuts down because it was told to, and its watchdog is not overdue;
\* up is kept of a daemon that serves or shuts down.
Sane(x) ==
    /\ x.stage \in Orderly => x.sig = TRUE /\ x.age <= Watchdog
    /\ x.up = TRUE => x.sig = TRUE /\ x.stage \in {"serving"} \cup Orderly

\* The daemon a Stop waits for has been told, and the time it has spent on its
\* shutdown is the time Stop has waited.
Heeds(left, x) ==
    \/ x.stage = "dead"
    \/ /\ x.sig = TRUE
       /\ x.up = TRUE => \/ x.stage = "serving" /\ left = StopWait
                         \/ x.stage \in Orderly /\ x.age + left = StopWait

Waits(r) == req[r].pc = "wait" /\ req[r].proc.pid # 0

PatientInv ==
    /\ cut = {}
    /\ \A p \in Pids : Sane(daemon[p])
    /\ \A r \in Requests : Waits(r) => Heeds(req[r].left, daemon[req[r].proc.pid])

LEMMA ConsoleInitPatient == ConsoleInit => PatientInv
  <1>1. Sane(NoDaemon)
    BY DEF Sane, NoDaemon, Orderly
  <1>2. Quiet.pc = "idle"
    BY DEF Quiet
  <1> QED BY <1>1, <1>2 DEF ConsoleInit, PatientInv, Waits

LEMMA WaitPids ==
  ASSUME GoneInv, NEW r \in Requests, Waits(r)
  PROVE  /\ req[r].proc.pid \in Pids /\ daemon[req[r].proc.pid] \in Daemons
         /\ daemon[req[r].proc.pid].stage # "none" /\ req[r].left \in Nat
  BY EntryPids DEF Waits, GoneInv, ConsoleTypeOK, Handlers, EntriesNamed, Names

\* One daemon moves on, and whoever waits for it still may.
LEMMA PatientMove ==
  ASSUME GoneInv, PatientInv, NEW p \in Pids, NEW x, daemon' = [daemon EXCEPT ![p] = x],
         Sane(x), \A l \in Nat : Heeds(l, daemon[p]) => Heeds(l, x),
         UNCHANGED <<req, cut>>
  PROVE  PatientInv'
  <1>1. \A q \in Pids : daemon'[q] = IF q = p THEN x ELSE daemon[q]
    BY DEF GoneInv, ConsoleTypeOK
  <1>2. \A r \in Requests : Waits(r)' => Heeds(req[r].left, daemon[req[r].proc.pid])'
    <2> SUFFICES ASSUME NEW r \in Requests, Waits(r)
                 PROVE  Heeds(req[r].left, daemon'[req[r].proc.pid])
      BY DEF Waits, Heeds
    <2>1. Heeds(req[r].left, daemon[req[r].proc.pid])
      BY DEF PatientInv
    <2> QED BY <1>1, <2>1, WaitPids
  <1>3. \A q \in Pids : Sane(daemon[q])'
    BY <1>1 DEF PatientInv, Sane
  <1> QED BY <1>2, <1>3 DEF PatientInv

LEMMA DeadPatient ==
  ASSUME NEW p \in Pids, GoneInv, daemon' = Exited(p)
  PROVE  \E x : daemon' = [daemon EXCEPT ![p] = x] /\ x.stage = "dead" /\ Sane(x)
  <1> DEFINE x == [NoDaemon EXCEPT !.stage = "dead", !.mp = daemon[p].mp]
  <1>1. x.stage = "dead" /\ x.up = FALSE
    BY DEF NoDaemon
  <1>2. Sane(x)
    BY <1>1 DEF Sane, Orderly
  <1>3. daemon' = [daemon EXCEPT ![p] = x]
    BY DEF Exited
  <1> QED BY <1>1, <1>2, <1>3

LEMMA DaemonNextPatient ==
  ASSUME Patient, GoneInv, PatientInv, NEW p \in Pids, DaemonNext(p)
  PROVE  PatientInv'
  <1>0. daemon[p] \in Daemons /\ Sane(daemon[p]) /\ Watchdog \in Nat
    BY ConsoleAssumption DEF GoneInv, ConsoleTypeOK, PatientInv
  <1>1. CASE ServeBegins(p)
    <2> DEFINE x == [daemon[p] EXCEPT !.stage = "serving"]
    <2>1. daemon' = [daemon EXCEPT ![p] = x] /\ UNCHANGED <<req, cut>>
      BY <1>0, <1>1 DEF ServeBegins, GoneInv, ConsoleTypeOK
    <2>2. x.stage = "serving" /\ x.sig = daemon[p].sig /\ x.up = daemon[p].up
      BY <1>0 DEF Daemons
    <2>3. daemon[p].stage = "starting" /\ daemon[p].up # TRUE
      BY <1>0, <1>1 DEF ServeBegins, Sane, Orderly
    <2> HIDE DEF x
    <2>4. Sane(x) /\ \A l \in Nat : Heeds(l, daemon[p]) => Heeds(l, x)
      BY <2>2, <2>3 DEF Sane, Heeds, Orderly
    <2> QED BY <2>1, <2>4, PatientMove
  <1>2. CASE daemon' = Exited(p) /\ UNCHANGED <<req, cut>>
    BY <1>2, DeadPatient, PatientMove DEF Heeds
  <1>3. CASE ShutdownBegins(p)
    <2> DEFINE x == [daemon[p] EXCEPT !.stage = "stopping", !.age = 0]
    <2>1. daemon' = [daemon EXCEPT ![p] = x] /\ UNCHANGED <<req, cut>>
      BY <1>0, <1>3 DEF ShutdownBegins, GoneInv, ConsoleTypeOK
    <2>2. x.stage = "stopping" /\ x.sig = daemon[p].sig /\ x.up = daemon[p].up /\ x.age = 0
      BY <1>0 DEF Daemons
    <2>3. daemon[p].stage = "serving" /\ daemon[p].sig = TRUE
      BY <1>0, <1>3 DEF ShutdownBegins, Daemons
    <2> HIDE DEF x
    <2>4. Sane(x) /\ \A l \in Nat : Heeds(l, daemon[p]) => Heeds(l, x)
      BY <1>0, <2>2, <2>3 DEF Sane, Heeds, Orderly
    <2> QED BY <2>1, <2>4, PatientMove
  <1>4. CASE Drain(p) \/ \E ok \in BOOLEAN : DetachKernel(p, ok)
    <2>1. PICK x : /\ daemon' = [daemon EXCEPT ![p] = x] /\ UNCHANGED <<req, cut>>
                   /\ x.stage \in Orderly /\ x.sig = daemon[p].sig /\ x.up = daemon[p].up
                   /\ x.age = daemon[p].age /\ daemon[p].stage \in Orderly
      <3>1. CASE Drain(p)
        <4> DEFINE y == [daemon[p] EXCEPT !.stage = "drained"]
        <4>1. daemon' = [daemon EXCEPT ![p] = y] /\ UNCHANGED <<req, cut>>
          BY <1>0, <3>1 DEF Drain, GoneInv, ConsoleTypeOK
        <4>2. /\ y.stage \in Orderly /\ y.sig = daemon[p].sig /\ y.up = daemon[p].up
              /\ y.age = daemon[p].age
          BY <1>0 DEF Daemons, Orderly
        <4>3. daemon[p].stage \in Orderly
          BY <3>1 DEF Drain, Orderly
        <4> QED BY <4>1, <4>2, <4>3
      <3>2. CASE \E ok \in BOOLEAN : DetachKernel(p, ok)
        <4> DEFINE y == [daemon[p] EXCEPT !.stage = "detached"]
        <4>1. daemon' = [daemon EXCEPT ![p] = y] /\ UNCHANGED <<req, cut>>
          BY <1>0, <3>2 DEF DetachKernel, GoneInv, ConsoleTypeOK
        <4>2. /\ y.stage \in Orderly /\ y.sig = daemon[p].sig /\ y.up = daemon[p].up
              /\ y.age = daemon[p].age
          BY <1>0 DEF Daemons, Orderly
        <4>3. daemon[p].stage \in Orderly
          BY <3>2 DEF DetachKernel, Orderly
        <4> QED BY <4>1, <4>2, <4>3
      <3> QED BY <1>4, <3>1, <3>2
    <2>2. Sane(x) /\ \A l \in Nat : Heeds(l, daemon[p]) => Heeds(l, x)
      BY <1>0, <2>1 DEF Sane, Heeds, Orderly
    <2> QED BY <2>1, <2>2, PatientMove
  <1>5. CASE Reap(p)
    BY <1>5 DEF Reap, PatientInv, Sane, Heeds, Waits
  <1> QED BY <1>1, <1>2, <1>3, <1>4, <1>5
          DEF DaemonNext, StartAborts, FinalSnapshot, DaemonDies, WatchdogFires

\* A request that is not one that waits, or waits as before.
LEMMA PatientRequest ==
  ASSUME GoneInv, PatientInv, UNCHANGED <<daemon, cut>>,
         \A r \in Requests : Waits(r)' => /\ req'[r].pc = req[r].pc /\ req'[r].proc = req[r].proc
                                          /\ req'[r].left = req[r].left
  PROVE  PatientInv'
  BY DEF PatientInv, Sane, Heeds, Waits

\* A daemon that is told to stop for the first time, by r.
LEMMA TermPatient ==
  ASSUME Patient, GoneInv, PatientInv, NEW r \in Requests, NEW p \in Pids,
         FirstStop(p), Term(p), daemon[p].stage # "none",
         \A s \in Requests : s # r => req'[s] = req[s],
         req'[r].proc.pid = p, req'[r].left = StopWait
  PROVE  PatientInv'
  <1>0. /\ daemon[p] \in Daemons /\ Sane(daemon[p]) /\ daemon \in [Pids -> Daemons]
        /\ daemon[p].sig \in BOOLEAN
    BY DEF GoneInv, ConsoleTypeOK, PatientInv, Daemons
  <1>1. daemon[p].sig = FALSE
    BY <1>0 DEF FirstStop, Patient
  <1>2. daemon[p].stage \notin Orderly /\ daemon[p].up # TRUE
    BY <1>0, <1>1 DEF Sane
  <1>3. CASE Living(p)
    <2> DEFINE x == [daemon[p] EXCEPT !.sig = TRUE,
                                      !.up = daemon[p].up \/ daemon[p].stage = "serving"]
    <2>1. daemon' = [daemon EXCEPT ![p] = x] /\ UNCHANGED cut
      BY <1>0, <1>2, <1>3 DEF Term
    <2>2. x.sig = TRUE /\ x.stage = daemon[p].stage
      BY <1>0 DEF Daemons
    <2>3. x.up = TRUE => x.stage = "serving"
      BY <1>0, <1>2 DEF Daemons
    <2> HIDE DEF x
    <2>4. \A q \in Pids : daemon'[q] = IF q = p THEN x ELSE daemon[q]
      BY <1>0, <2>1
    <2>5. Sane(x) /\ Heeds(StopWait, x)
      BY <1>2, <2>2, <2>3 DEF Sane, Heeds
    <2>6. ASSUME NEW s \in Requests, Waits(s)'
          PROVE  Heeds(req'[s].left, daemon'[req'[s].proc.pid])
      <3>1. CASE s = r
        BY <2>4, <2>5, <3>1
      <3>2. CASE s # r
        <4>1. Waits(s) /\ req'[s] = req[s]
          BY <2>6, <3>2 DEF Waits
        <4>2. Heeds(req[s].left, daemon[req[s].proc.pid]) /\ req[s].proc.pid \in Pids
          BY <4>1, WaitPids DEF PatientInv
        <4>3. req[s].proc.pid # p
          BY <1>1, <1>3, <4>2 DEF Heeds, Living
        <4> QED BY <2>4, <4>1, <4>2, <4>3
      <3> QED BY <3>1, <3>2
    <2>7. \A q \in Pids : Sane(daemon'[q])
      BY <2>4, <2>5 DEF PatientInv
    <2>8. cut' = {}
      BY <2>1 DEF PatientInv
    <2> QED BY <2>6, <2>7, <2>8 DEF PatientInv, Heeds, Sane
  <1>4. CASE ~Living(p)
    <2>1. UNCHANGED <<daemon, cut>> /\ daemon[p].stage = "dead"
      BY <1>2, <1>4 DEF Term, Living
    <2>2. ASSUME NEW s \in Requests, Waits(s)'
          PROVE  Heeds(req'[s].left, daemon'[req'[s].proc.pid])
      <3>1. CASE s = r
        BY <2>1, <3>1 DEF Heeds
      <3>2. CASE s # r
        <4>1. Waits(s) /\ req'[s] = req[s]
          BY <2>2, <3>2 DEF Waits
        <4> QED BY <2>1, <4>1 DEF PatientInv
      <3> QED BY <3>1, <3>2
    <2> QED BY <2>1, <2>2 DEF PatientInv, Heeds, Sane
  <1> QED BY <1>3, <1>4

LEMMA RequestNextPatient ==
  ASSUME Patient, GoneInv, PatientInv, NEW r \in Requests, RequestNext(r)
  PROVE  PatientInv'
  <1>0. /\ req \in [Requests -> Handlers] /\ StopTimeout = StopWait
        /\ Watchdog \in Nat /\ StopWait \in Nat
    BY ConsoleAssumption, SMTT(30) DEF GoneInv, ConsoleTypeOK, StopTimeout
  <1>1. \A s \in Requests : s # r => req'[s] = req[s]
    BY <1>0 DEF RequestNext, Arrive, ReconcilePrune, ReconcileAdopt, PageDone, StartReserve,
       StartSpawn, StartUnreserve, StartRegister, StopSignal, StopWaits, UnmountSignal,
       StopKills, StopEnsure
  <1>2. CASE UNCHANGED <<daemon, cut>> /\ (req'[r].pc # "wait" \/ req'[r].proc.pid = 0)
    BY <1>1, <1>2, PatientRequest DEF Waits
  <1>3. CASE \/ \E kind, key, m : Arrive(r, kind, key, m)
             \/ ReconcilePrune(r) \/ ReconcileAdopt(r) \/ PageDone(r) \/ StartReserve(r)
             \/ StartUnreserve(r) \/ StartRegister(r) \/ StopWaits(r)
             \/ \E ok \in BOOLEAN : StopEnsure(r, ok)
    <2>1. UNCHANGED <<daemon, cut>>
      BY <1>3 DEF Arrive, ReconcilePrune, ReconcileAdopt, PageDone, StartReserve,
         StartUnreserve, StartRegister, StopWaits, StopEnsure
    <2>2. req'[r].pc # "wait"
      <3>1. Quiet.pc # "wait" /\ Success(req[r].proc).pc # "wait"
        BY DEF Quiet, Success
      <3>2. CASE \E kind, key, m : Arrive(r, kind, key, m)
        BY <1>0, <3>2 DEF Arrive, Quiet
      <3>3. CASE ReconcilePrune(r) \/ StopWaits(r) \/ StartReserve(r)
        <4>1. CASE ReconcilePrune(r)
          <5>1. PICK t, v : req' = [req EXCEPT ![r].pc = "adopt", ![r].todo = t, ![r].seen = v]
            BY <4>1 DEF ReconcilePrune
          <5> QED BY <1>0, <5>1 DEF Handlers
        <4>2. CASE StopWaits(r)
          BY <1>0, <4>2 DEF StopWaits, Handlers
        <4>3. CASE StartReserve(r)
          BY <1>0, <3>1, <4>3 DEF StartReserve, Handlers
        <4> QED BY <3>3, <4>1, <4>2, <4>3
      <3>4. CASE PageDone(r) \/ StartUnreserve(r) \/ StartRegister(r)
                 \/ \E ok \in BOOLEAN : StopEnsure(r, ok)
        BY <1>0, <3>1, <3>4 DEF PageDone, StartUnreserve, StartRegister, StopEnsure
      <3>5. CASE ReconcileAdopt(r)
        <4>1. req[r].pc = "adopt" /\ \E t, v : \/ req' = [req EXCEPT ![r].todo = t]
                                                \/ req' = [req EXCEPT ![r].todo = t, ![r].seen = v]
          BY <3>5 DEF ReconcileAdopt
        <4> QED BY <1>0, <4>1 DEF Handlers
      <3> QED BY <1>3, <3>2, <3>3, <3>4, <3>5
    <2> QED BY <1>2, <2>1, <2>2
  <1>4. CASE StartSpawn(r)
    <2>1. PICK p \in Free : /\ daemon' = Spawned(p, req[r].key, req[r].mp) /\ UNCHANGED cut
                            /\ req'[r].pc = "register"
      BY <1>0, <1>4 DEF StartSpawn
    <2>2. p \in Pids /\ daemon[p].stage = "none"
      BY <2>1 DEF Free
    <2> PICK x : x = [NoDaemon EXCEPT !.stage = "starting", !.profile = req[r].key, !.mp = req[r].mp]
      OBVIOUS
    <2>3. Sane(x)
      <3>1. x.stage = "starting" /\ x.up = FALSE
        BY DEF NoDaemon
      <3> QED BY <3>1 DEF Sane, Orderly
    <2>4. \A q \in Pids : daemon'[q] = IF q = p THEN x ELSE daemon[q]
      BY <2>1 DEF Spawned, GoneInv, ConsoleTypeOK
    <2>5. ASSUME NEW s \in Requests, Waits(s)'
          PROVE  Heeds(req'[s].left, daemon'[req'[s].proc.pid])
      <3>1. s # r /\ Waits(s) /\ req'[s] = req[s]
        BY <1>1, <2>1, <2>5 DEF Waits
      <3>2. req[s].proc.pid \in Pids /\ req[s].proc.pid # p
        BY <2>2, <3>1, WaitPids
      <3> QED BY <2>4, <3>1, <3>2 DEF PatientInv
    <2>6. \A q \in Pids : Sane(daemon'[q])
      BY <2>3, <2>4 DEF PatientInv
    <2>7. cut' = {}
      BY <2>1 DEF PatientInv
    <2> QED BY <2>5, <2>6, <2>7 DEF PatientInv, Heeds, Sane
  <1>5. CASE StopSignal(r)
    <2> PICK mp : mp = procs[req[r].key]
      OBVIOUS
    <2>1. mp \in Entries /\ Names(mp)
      BY <1>0, <1>5 DEF StopSignal, Reconciled, GoneInv, Asked, EntriesNamed, ConsoleTypeOK
    <2>2. CASE UNCHANGED <<daemon, cut>> /\ (req'[r].pc # "wait" \/ req'[r].proc.pid = 0)
      BY <1>2, <2>2
    <2>3. CASE mp.pid # 0 /\ FirstStop(mp.pid) /\ Term(mp.pid)
               /\ req'[r].proc = mp /\ req'[r].left = StopWait
      <3>1. mp.pid \in Pids /\ daemon[mp.pid].stage # "none"
        BY <2>1, <2>3, EntryPids DEF Names
      <3> QED BY <1>1, <2>3, <3>1, TermPatient
    <2>4. Quiet.pc # "wait"
      BY DEF Quiet
    <2>5. CASE req' = [req EXCEPT ![r] = Quiet] /\ UNCHANGED <<daemon, kernel, cut>>
      BY <1>0, <2>2, <2>4, <2>5
    <2>6. CASE req' = [req EXCEPT ![r].pc = "ensure", ![r].proc = mp]
               /\ UNCHANGED <<daemon, kernel, cut>>
      <3>1. req'[r].pc = "ensure"
        BY <1>0, <2>6 DEF Handlers
      <3> QED BY <2>2, <2>6, <3>1
    <2>7. CASE /\ req' = [req EXCEPT ![r].pc = "wait", ![r].proc = mp, ![r].left = StopTimeout]
               /\ IF mp.pid = 0 THEN UNCHANGED <<daemon, kernel, cut>>
                  ELSE FirstStop(mp.pid) /\ Term(mp.pid)
      <3>1. req'[r].proc = mp /\ req'[r].left = StopWait
        BY <1>0, <2>7 DEF Handlers
      <3> QED BY <2>2, <2>3, <2>7, <3>1
    <2> QED BY <1>5, <2>5, <2>6, <2>7 DEF StopSignal
  <1>6. CASE \E m \in Mountpoints : UnmountSignal(r, m)
    <2>1. PICK m \in Mountpoints : UnmountSignal(r, m)
      BY <1>6
    <2>2. CASE req' = [req EXCEPT ![r] = [Quiet EXCEPT !.pc = "ensure", !.kind = "unmount",
                                !.mp = m, !.proc = [NoProc EXCEPT !.mp = m]]]
               /\ UNCHANGED <<daemon, kernel, cut>>
      <3>1. req'[r].pc = "ensure"
        BY <1>0, <2>2 DEF Quiet
      <3> QED BY <1>2, <2>2, <3>1
    <2>3. ASSUME NEW p \in FindDaemonPid(m), FirstStop(p), Term(p),
                 req' = [req EXCEPT ![r] = [Quiet EXCEPT !.pc = "wait", !.kind = "unmount",
                                  !.mp = m, !.proc = Adopted(p), !.left = StopTimeout]]
          PROVE  PatientInv'
      <3>1. p \in Pids /\ daemon[p].stage # "none"
        BY DEF FindDaemonPid, Living
      <3>2. req'[r].proc = Adopted(p) /\ req'[r].left = StopWait
        BY <1>0, <2>3 DEF Quiet
      <3>3. Adopted(p).pid = p
        BY DEF Adopted
      <3> QED BY <1>1, <2>3, <3>1, <3>2, <3>3, TermPatient
    <2> QED BY <2>1, <2>2, <2>3 DEF UnmountSignal
  <1>7. CASE \E ok \in BOOLEAN : StopKills(r, ok)
    <2> PICK y : y = req[r].proc
      OBVIOUS
    <2>1. /\ req[r].pc = "wait" /\ req[r].left = 0
          /\ IF y.pid = 0 THEN UNCHANGED <<daemon, cut>> ELSE Kill(y.pid)
          /\ req' = [req EXCEPT ![r] = Success(y)] \/ req' = [req EXCEPT ![r] = Quiet]
      BY <1>7 DEF StopKills
    <2>2. req'[r].pc # "wait"
      <3>1. Quiet.pc # "wait" /\ Success(y).pc # "wait"
        BY DEF Quiet, Success
      <3> QED BY <1>0, <2>1, <3>1
    <2>3. CASE UNCHANGED <<daemon, cut>>
      BY <1>2, <2>2, <2>3
    <2>4. CASE y.pid # 0 /\ Living(y.pid)
      <3>1. Waits(r) /\ y.pid \in Pids /\ daemon[y.pid] \in Daemons /\ Sane(daemon[y.pid])
        BY <2>1, <2>4, WaitPids DEF Waits, PatientInv
      <3>2. Heeds(0, daemon[y.pid])
        BY <2>1, <3>1 DEF PatientInv
      <3>3. daemon[y.pid].age \in Nat /\ daemon[y.pid].up \in BOOLEAN
        BY <3>1 DEF Daemons
      <3>4. daemon[y.pid].up = FALSE
        BY <1>0, <2>4, <3>1, <3>2, <3>3 DEF Heeds, Sane, Living, Patient
      <3>5. daemon' = Exited(y.pid) /\ cut' = cut
        BY <2>1, <2>4, <3>4 DEF Kill
      <3>6. PICK x : daemon' = [daemon EXCEPT ![y.pid] = x] /\ x.stage = "dead" /\ Sane(x)
        BY <3>1, <3>5, DeadPatient
      <3>7. \A q \in Pids : daemon'[q] = IF q = y.pid THEN x ELSE daemon[q]
        BY <3>6 DEF GoneInv, ConsoleTypeOK
      <3>8. ASSUME NEW s \in Requests, Waits(s)'
            PROVE  Heeds(req'[s].left, daemon'[req'[s].proc.pid])
        <4>1. s # r /\ Waits(s) /\ req'[s] = req[s]
          BY <1>1, <2>2, <3>8 DEF Waits
        <4>2. req[s].proc.pid \in Pids /\ Heeds(req[s].left, daemon[req[s].proc.pid])
          BY <4>1, WaitPids DEF PatientInv
        <4> QED BY <3>6, <3>7, <4>1, <4>2 DEF Heeds
      <3>9. \A q \in Pids : Sane(daemon'[q])
        BY <3>6, <3>7 DEF PatientInv
      <3>10. cut' = {}
        BY <3>5 DEF PatientInv
      <3> QED BY <3>8, <3>9, <3>10 DEF PatientInv, Heeds, Sane
    <2> QED BY <2>1, <2>3, <2>4 DEF Kill
  <1> QED BY <1>3, <1>4, <1>5, <1>6, <1>7 DEF RequestNext

LEMMA TickPatient ==
  ASSUME Patient, GoneInv, PatientInv, Tick
  PROVE  PatientInv'
  <1>0. daemon \in [Pids -> Daemons] /\ req \in [Requests -> Handlers] /\ Watchdog \in Nat
        /\ StopWait \in Nat
    BY ConsoleAssumption DEF GoneInv, ConsoleTypeOK
  <1>1. ~Due /\ UNCHANGED cut
    BY DEF Tick
  <1>2. ASSUME NEW p \in Pids
        PROVE  /\ daemon'[p].stage = daemon[p].stage /\ daemon'[p].sig = daemon[p].sig
               /\ daemon'[p].up = daemon[p].up
               /\ daemon[p].stage \in Orderly => daemon'[p].age = daemon[p].age + 1
    <2>1. daemon'[p] = IF daemon[p].stage \in Orderly
                       THEN [daemon[p] EXCEPT !.age = daemon[p].age + 1] ELSE daemon[p]
      BY <1>0 DEF Tick
    <2>2. daemon[p] \in Daemons
      BY <1>0
    <2> QED BY <2>1, <2>2 DEF Daemons
  <1>3. ASSUME NEW p \in Pids PROVE Sane(daemon'[p])
    <2>1. Sane(daemon[p]) /\ daemon[p].age \in Nat
      <3>1. daemon[p] \in Daemons
        BY <1>0
      <3> QED BY <3>1 DEF PatientInv, Daemons
    <2>2. daemon[p].stage \in Orderly => daemon[p].age # Watchdog
      BY <1>1 DEF Due
    <2> QED BY <1>0, <1>2, <2>1, <2>2 DEF Sane
  <1>4. ASSUME NEW s \in Requests, Waits(s)'
        PROVE  Heeds(req'[s].left, daemon'[req'[s].proc.pid])
    <2>1. req'[s] = IF req[s].pc = "wait" THEN [req[s] EXCEPT !.left = req[s].left - 1] ELSE req[s]
      BY <1>0 DEF Tick
    <2>2. req[s] \in Handlers
      BY <1>0
    <2>3. req'[s].pc = req[s].pc /\ req'[s].proc = req[s].proc
          /\ (req[s].pc = "wait" => req'[s].left = req[s].left - 1)
      BY <2>1, <2>2 DEF Handlers
    <2>4. Waits(s) /\ req'[s].left = req[s].left - 1 /\ req'[s].proc = req[s].proc
      BY <1>4, <2>3 DEF Waits
    <2> PICK p : p = req[s].proc.pid
      OBVIOUS
    <2>5. p \in Pids /\ daemon[p] \in Daemons /\ req[s].left \in Nat
      BY <2>4, WaitPids
    <2>6. Heeds(req[s].left, daemon[p]) /\ Sane(daemon[p]) /\ daemon[p].age \in Nat
      BY <2>4, <2>5 DEF PatientInv, Daemons
    <2>7. ~(daemon[p].stage = "serving" /\ daemon[p].sig)
      BY <1>1, <2>5 DEF Due
    <2>8. Heeds(req[s].left - 1, daemon'[p])
      BY <1>0, <1>2, <2>5, <2>6, <2>7 DEF Heeds, Orderly
    <2> QED BY <2>4, <2>8
  <1>5. cut' = {}
    BY <1>1 DEF PatientInv
  <1> QED BY <1>3, <1>4, <1>5 DEF PatientInv, Heeds, Sane

LEMMA ConsoleNextPatient ==
  ASSUME Patient, GoneInv, PatientInv, [ConsoleNext]_consoleVars
  PROVE  PatientInv'
  <1>1. CASE \/ UNCHANGED consoleVars
             \/ \E m \in Mountpoints : UnmountExternal(m) \/ DetachedByHand(m)
    <2>1. UNCHANGED <<daemon, req, cut>>
      BY <1>1 DEF consoleVars, UnmountExternal, DetachedByHand
    <2> QED BY <2>1, PatientRequest
  <1>2. CASE ConsoleRestarts
    <2>1. \A r \in Requests : req'[r] = req[r] \/ req'[r].pc = "idle"
      BY <1>2 DEF ConsoleRestarts, Quiet
    <2>2. UNCHANGED <<daemon, cut>>
      BY <1>2 DEF ConsoleRestarts
    <2> QED BY <2>1, <2>2, PatientRequest DEF Waits
  <1>3. CASE \E m \in Mountpoints, k \in Profiles : TerminalMount(k, m)
    <2>1. PICK m \in Mountpoints, k \in Profiles, p \in Free :
            daemon' = Spawned(p, k, m) /\ UNCHANGED <<req, cut>>
      BY <1>3 DEF TerminalMount
    <2>2. p \in Pids /\ daemon[p].stage = "none"
      BY <2>1 DEF Free
    <2> PICK x : x = [NoDaemon EXCEPT !.stage = "starting", !.profile = k, !.mp = m]
      OBVIOUS
    <2>3. Sane(x)
      <3>1. x.stage = "starting" /\ x.up = FALSE
        BY DEF NoDaemon
      <3> QED BY <3>1 DEF Sane, Orderly
    <2>4. \A q \in Pids : daemon'[q] = IF q = p THEN x ELSE daemon[q]
      BY <2>1 DEF Spawned, GoneInv, ConsoleTypeOK
    <2>5. ASSUME NEW s \in Requests, Waits(s)'
          PROVE  Heeds(req'[s].left, daemon'[req'[s].proc.pid])
      <3>1. Waits(s) /\ req'[s] = req[s]
        BY <2>1, <2>5 DEF Waits
      <3>2. req[s].proc.pid \in Pids /\ req[s].proc.pid # p
        BY <2>2, <3>1, WaitPids
      <3> QED BY <2>4, <3>1, <3>2 DEF PatientInv
    <2>6. \A q \in Pids : Sane(daemon'[q])
      BY <2>3, <2>4 DEF PatientInv
    <2>7. cut' = {}
      BY <2>1 DEF PatientInv
    <2> QED BY <2>5, <2>6, <2>7 DEF PatientInv, Heeds, Sane
  <1> QED BY <1>1, <1>2, <1>3, DaemonNextPatient, RequestNextPatient, TickPatient
          DEF ConsoleNext

\* No daemon that was serving when it was told to stop is cut off in its drain
\* or its final snapshot, if the console waits longer than the daemon's watchdog
\* and nobody tells a daemon twice.
THEOREM ShutdownRuns == ASSUME Patient PROVE ConsoleSpec => []ShutdownCompletes
  <1>1. GoneInv /\ PatientInv /\ [ConsoleNext]_consoleVars => PatientInv'
    BY ConsoleNextPatient
  <1>2. PatientInv => ShutdownCompletes
    BY DEF PatientInv, ShutdownCompletes
  <1> QED BY <1>1, <1>2, ConsoleInitPatient, ConsoleInvariant, PTL DEF ConsoleSpec

-----------------------------------------------------------------------------
(* One daemon per profile *)

Reserving(x) == x.pc \in {"spawn", "register"}

\* A Start between its reservation and its registration has the slot, and
\* nobody has closed it.
SlotsHeld ==
    \A r \in Requests : Reserving(req[r]) =>
        procs[req[r].key] = Slot(r) /\ Slot(r) \notin done

\* A slot in the table is that of a Start under way.
SlotsOwned ==
    \A k \in ProcKeys, r \in Requests : r \in procs[k].by =>
        Reserving(req[r]) /\ req[r].key = k

\* A Stop that has taken a slot for its target has just begun to wait, or the
\* Start is over; r looks at the table only when nobody waits for its slot.
SlotsFresh ==
    \A r, s \in Requests : r \in req[s].proc.by =>
        /\ req[r].pc \notin {"prune", "adopt"}
        /\ Reserving(req[r]) => /\ req[s].pc = "wait" /\ req[s].left = StopWait
                                /\ req[s].proc = Slot(r)

Forked(x) == x.pc = "register" =>
    /\ x.proc.pid # 0 /\ x.proc = Child(x.proc.pid)
    /\ Living(x.proc.pid) => daemon[x.proc.pid].profile = x.key

\* A child that lives is in the table under its profile, or about to be.
KidsKnown ==
    \A p \in kids : /\ daemon[p].stage # "none"
                    /\ Living(p) =>
                         \/ procs[daemon[p].profile] = Child(p)
                         \/ \E s \in Requests : /\ req[s].pc = "register"
                                                /\ req[s].key = daemon[p].profile
                                                /\ req[s].proc.pid = p

Keyed(k, x) == x.pid # 0 /\ Living(x.pid) => daemon[x.pid].profile = k

\* What a Start makes of the daemons that were mounted when it began.
Watches(x) ==
    \A q \in x.seen :
        /\ daemon[q].stage # "none"
        /\ Living(q) =>
             /\ x.pc = "prune" => daemon[q].mp \in x.todo
             /\ x.pc = "adopt" => \/ daemon[q].mp \in x.todo
                                  \/ procs[daemon[q].profile].pid = q
             /\ x.pc = "spawn" => daemon[q].profile # x.key

OneInv ==
    /\ SlotsHeld /\ SlotsOwned /\ SlotsFresh /\ KidsKnown
    /\ \A r \in Requests : Forked(req[r]) /\ Watches(req[r])
    /\ \A k \in ProcKeys : Keyed(k, procs[k])

Sole == StopWait > 0 /\ Unnamed = {}

\* As Onward, and a process that lives has the profile it was started with.
Ageing == \A p \in Pids : daemon[p].stage # "none" =>
            /\ daemon'[p].stage # "none" /\ daemon'[p].mp = daemon[p].mp
            /\ Living(p)' => Living(p) /\ daemon'[p].profile = daemon[p].profile

LEMMA ConsoleInitOne == ConsoleInit => OneInv
  <1> SUFFICES ASSUME ConsoleInit PROVE OneInv
    OBVIOUS
  <1>1. \A r \in Requests : /\ req[r].pc = "idle" /\ req[r].seen = {}
                            /\ req[r].proc.by = {}
    BY DEF ConsoleInit, Quiet, NoProc
  <1>2. \A k \in ProcKeys : procs[k].pid = 0 /\ procs[k].by = {}
    BY DEF ConsoleInit, NoProc
  <1>3. kids = {}
    BY DEF ConsoleInit
  <1> QED BY <1>1, <1>2, <1>3 DEF OneInv, SlotsHeld, SlotsOwned, SlotsFresh, KidsKnown,
             Forked, Watches, Keyed, Reserving

LEMMA SoleKeys == ASSUME Sole PROVE ProcKeys = Profiles
  BY DEF Sole, ProcKeys

\* The record of a child says nothing that ageing changes.
LEMMA ChildAges ==
  ASSUME Ageing, NEW p \in Pids, daemon[p].stage # "none"
  PROVE  Child(p)' = Child(p)
  BY DEF Ageing, Child

\* Whatever is true of a handler and of an entry stays true as processes age.
LEMMA ForkedAges ==
  ASSUME GoneInv, Ageing, NEW x, x.proc \in Entries, Names(x.proc), Forked(x)
  PROVE  Forked(x)'
  <1> SUFFICES ASSUME x.pc = "register" PROVE Forked(x)'
    BY DEF Forked
  <1>1. x.proc.pid \in Pids /\ daemon[x.proc.pid].stage # "none"
    BY EntryPids DEF Forked, Names
  <1>2. Child(x.proc.pid)' = Child(x.proc.pid)
    BY <1>1, ChildAges
  <1> QED BY <1>1, <1>2 DEF Forked, Ageing

LEMMA KeyedAges ==
  ASSUME Ageing, NEW x \in Entries, Names(x), NEW k, Keyed(k, x)
  PROVE  Keyed(k, x)'
  BY EntryPids DEF Keyed, Names, Ageing

\* What a step does to the table that none of the invariant minds: an entry of
\* a dead process, or none, gives way to one that is nobody's slot.
TableTurns ==
    \A k \in ProcKeys : \/ procs'[k] = procs[k]
                        \/ /\ procs[k].by = {} /\ Dead(procs[k])
                           /\ procs'[k].by = {} /\ (Keyed(k, procs[k]))'

\* A process that lives keeps its entry.
LEMMA EntryStays ==
  ASSUME GoneInv, Ageing, TableTurns, NEW k \in ProcKeys, procs[k].pid # 0,
         Living(procs[k].pid)
  PROVE  procs'[k] = procs[k]
  BY DEF TableTurns, Dead, Living

LEMMA WatchesAges ==
  ASSUME GoneInv, Sole, Ageing, TableTurns, NEW x \in Handlers, Watches(x)
  PROVE  Watches(x)'
  <1> SUFFICES ASSUME NEW q \in x.seen
               PROVE  /\ daemon'[q].stage # "none"
                      /\ Living(q)' =>
                           /\ x.pc = "prune" => daemon'[q].mp \in x.todo
                           /\ x.pc = "adopt" => \/ daemon'[q].mp \in x.todo
                                                \/ procs'[daemon'[q].profile].pid = q
                           /\ x.pc = "spawn" => daemon'[q].profile # x.key
    BY DEF Watches
  <1>1. q \in Pids /\ daemon[q].stage # "none"
    BY DEF Handlers, Watches
  <1>2. daemon'[q].stage # "none" /\ daemon'[q].mp = daemon[q].mp
    BY <1>1 DEF Ageing
  <1>3. ASSUME Living(q)', x.pc = "adopt", daemon[q].mp \notin x.todo
        PROVE  procs'[daemon'[q].profile].pid = q
    <2>1. Living(q) /\ daemon'[q].profile = daemon[q].profile
      BY <1>1, <1>3 DEF Ageing
    <2>2. daemon[q].profile \in ProcKeys
      BY <1>1, <2>1, SoleKeys DEF GoneInv, DaemonsNamed
    <2>3. procs[daemon[q].profile].pid = q
      BY <1>3, <2>1 DEF Watches
    <2>4. q # 0
      BY <1>1, MaxPidNat DEF Pids
    <2>5. procs'[daemon[q].profile] = procs[daemon[q].profile]
      BY <2>1, <2>2, <2>3, <2>4, EntryStays
    <2> QED BY <2>1, <2>3, <2>5
  <1> QED BY <1>1, <1>2, <1>3 DEF Ageing, Watches

\* A slot stays what it is while its request has its mountpoint.
LEMMA SlotKept ==
  ASSUME NEW r, req'[r].mp = req[r].mp
  PROVE  Slot(r)' = Slot(r)
  BY DEF Slot

\* The table turns, processes age, and whoever is not about to fork goes on.
LEMMA OneStep ==
  ASSUME GoneInv, GoneInv', OneInv, Sole, Ageing, TableTurns, kids' \subseteq kids,
         \A s \in Requests : Reserving(req[s]) => Slot(s) \notin done',
         \A s \in Requests : \/ req'[s] = req[s]
                             \/ ~Reserving(req[s]) /\ ~Reserving(req'[s]) /\ (Watches(req[s]))',
         SlotsFresh'
  PROVE  OneInv'
  <1>1. \A s \in Requests : Reserving(req'[s]) => req'[s] = req[s] /\ Slot(s)' = Slot(s)
    BY DEF Slot
  <1>2. SlotsHeld'
    <2> SUFFICES ASSUME NEW s \in Requests, Reserving(req'[s])
                 PROVE  procs'[req'[s].key] = Slot(s)' /\ Slot(s)' \notin done'
      BY DEF SlotsHeld, Reserving
    <2>1. req'[s] = req[s] /\ Slot(s)' = Slot(s)
      BY <1>1
    <2>2. procs[req[s].key] = Slot(s) /\ Slot(s) \notin done' /\ req[s].key \in ProcKeys
      BY <2>1, SoleKeys DEF OneInv, SlotsHeld, GoneInv, Asked, Reserving
    <2>3. procs'[req[s].key] = procs[req[s].key]
      BY <2>2 DEF TableTurns, Slot
    <2> QED BY <2>1, <2>2, <2>3
  <1>3. SlotsOwned'
    <2> SUFFICES ASSUME NEW k \in ProcKeys, NEW s \in Requests, s \in procs'[k].by
                 PROVE  Reserving(req'[s]) /\ req'[s].key = k
      BY DEF SlotsOwned, Reserving
    <2>1. procs'[k] = procs[k]
      BY DEF TableTurns
    <2>2. Reserving(req[s]) /\ req[s].key = k
      BY <2>1 DEF OneInv, SlotsOwned
    <2> QED BY <2>2
  <1>5. KidsKnown'
    <2> SUFFICES ASSUME NEW p \in kids'
                 PROVE  /\ daemon'[p].stage # "none"
                        /\ Living(p)' =>
                             \/ procs'[daemon'[p].profile] = Child(p)'
                             \/ \E s \in Requests : /\ req'[s].pc = "register"
                                                    /\ req'[s].key = daemon'[p].profile
                                                    /\ req'[s].proc.pid = p
      BY DEF KidsKnown
    <2>1. p \in kids /\ p \in Pids /\ daemon[p].stage # "none"
      BY DEF GoneInv, ConsoleTypeOK, OneInv, KidsKnown
    <2>2. daemon'[p].stage # "none"
      BY <2>1 DEF Ageing
    <2>3. ASSUME Living(p)'
          PROVE  \/ procs'[daemon'[p].profile] = Child(p)'
                 \/ \E s \in Requests : /\ req'[s].pc = "register"
                                        /\ req'[s].key = daemon'[p].profile
                                        /\ req'[s].proc.pid = p
      <3>1. Living(p) /\ daemon'[p].profile = daemon[p].profile
        BY <2>1, <2>3 DEF Ageing
      <3>2. daemon[p].profile \in ProcKeys /\ p # 0
        BY <2>1, <3>1, SoleKeys, MaxPidNat DEF GoneInv, DaemonsNamed, Pids
      <3>3. CASE procs[daemon[p].profile] = Child(p)
        <4>1. procs'[daemon[p].profile] = procs[daemon[p].profile]
          BY <3>1, <3>2, <3>3, EntryStays DEF Child
        <4> QED BY <2>1, <3>1, <3>3, <4>1, ChildAges
      <3>4. ASSUME NEW s \in Requests, req[s].pc = "register",
                   req[s].key = daemon[p].profile, req[s].proc.pid = p
            PROVE  /\ req'[s].pc = "register" /\ req'[s].key = daemon'[p].profile
                   /\ req'[s].proc.pid = p
        BY <3>1, <3>4 DEF Reserving
      <3> QED BY <2>1, <3>1, <3>3, <3>4 DEF OneInv, KidsKnown
    <2> QED BY <2>2, <2>3
  <1>6. ASSUME NEW s \in Requests PROVE (Forked(req[s]) /\ Watches(req[s]))'
    <2>1. CASE req'[s] # req[s]
      <3>1. ~Reserving(req'[s]) /\ (Watches(req[s]))'
        BY <2>1
      <3> QED BY <3>1 DEF Forked, Reserving
    <2>2. CASE req'[s] = req[s]
      <3> PICK y : y = req[s]
        OBVIOUS
      <3>1. req'[s] = y
        BY <2>2
      <3>2. y \in Handlers /\ y.proc \in Entries /\ Names(y.proc) /\ Forked(y) /\ Watches(y)
        BY DEF GoneInv, ConsoleTypeOK, EntriesNamed, Handlers, OneInv
      <3>3. Forked(y)' /\ Watches(y)'
        BY <3>2, ForkedAges, WatchesAges
      <3> QED BY <3>1, <3>3 DEF Forked, Watches
    <2> QED BY <2>1, <2>2
  <1>7. ASSUME NEW k \in ProcKeys PROVE (Keyed(k, procs[k]))'
    <2> PICK y : y = procs[k]
      OBVIOUS
    <2>1. CASE procs'[k] = y
      <3>1. y \in Entries /\ Names(y) /\ Keyed(k, y)
        BY DEF GoneInv, ConsoleTypeOK, EntriesNamed, OneInv
      <3>2. Keyed(k, y)'
        BY <3>1, KeyedAges
      <3> QED BY <2>1, <3>2 DEF Keyed
    <2>2. CASE procs'[k] # y
      BY <2>2 DEF TableTurns
    <2> QED BY <2>1, <2>2
  <1> QED BY <1>2, <1>3, <1>5, <1>6, <1>7 DEF OneInv

LEMMA OneRequest ==
  ASSUME GoneInv, GoneInv', OneInv, Sole, Ageing, TableTurns, kids' \subseteq kids,
         \A s \in Requests : Reserving(req[s]) => Slot(s) \notin done',
         NEW r \in Requests, NEW x,
         req' = [req EXCEPT ![r] = x], ~Reserving(req[r]), ~Reserving(x), Watches(x)',
         \A s \in Requests : s \in x.proc.by =>
            /\ req'[s].pc \notin {"prune", "adopt"}
            /\ Reserving(req[s]) => /\ x.pc = "wait" /\ x.left = StopWait
                                    /\ x.proc = Slot(s),
         x.pc \in {"prune", "adopt"} => \A s \in Requests \ {r} : r \notin req[s].proc.by
  PROVE  OneInv'
  <1>0. \A s \in Requests : req'[s] = IF s = r THEN x ELSE req[s]
    BY DEF GoneInv, ConsoleTypeOK
  <1>1. \A s \in Requests : Reserving(req'[s]) => s # r /\ req'[s] = req[s] /\ Slot(s)' = Slot(s)
    BY <1>0 DEF Slot
  <1>2. SlotsFresh'
    <2> SUFFICES ASSUME NEW s \in Requests, NEW t \in Requests, s \in req'[t].proc.by
                 PROVE  /\ req'[s].pc \notin {"prune", "adopt"}
                        /\ Reserving(req'[s]) => /\ req'[t].pc = "wait" /\ req'[t].left = StopWait
                                                 /\ req'[t].proc = Slot(s)'
      BY DEF SlotsFresh, Reserving
    <2>1. CASE t = r
      BY <1>0, <1>1, <2>1
    <2>2. CASE t # r
      <3>1. req'[t] = req[t] /\ s \in req[t].proc.by
        BY <1>0, <2>2
      <3>2. /\ req[s].pc \notin {"prune", "adopt"}
            /\ Reserving(req[s]) => /\ req[t].pc = "wait" /\ req[t].left = StopWait
                                    /\ req[t].proc = Slot(s)
        BY <3>1 DEF OneInv, SlotsFresh
      <3>3. CASE s = r
        BY <1>0, <1>1, <2>2, <3>1, <3>3
      <3>4. CASE s # r
        BY <1>0, <1>1, <3>1, <3>2, <3>4
      <3> QED BY <3>3, <3>4
    <2> QED BY <2>1, <2>2
  <1>3. (Watches(req[r]))'
    BY <1>0 DEF Watches
  <1>4. \A s \in Requests : \/ req'[s] = req[s]
                            \/ ~Reserving(req[s]) /\ ~Reserving(req'[s]) /\ (Watches(req[s]))'
    BY <1>0, <1>3, Zenon
  <1> QED BY <1>2, <1>4, OneStep

\* No request moves.
LEMMA OneWorld ==
  ASSUME GoneInv, GoneInv', OneInv, Sole, Ageing, UNCHANGED <<procs, req>>, kids' \subseteq kids,
         \A s \in Requests : Reserving(req[s]) => Slot(s) \notin done'
  PROVE  OneInv'
  <1>1. TableTurns
    BY DEF TableTurns
  <1>2. SlotsFresh'
    BY DEF OneInv, SlotsFresh, Slot
  <1> QED BY <1>1, <1>2, OneStep


LEMMA MoveAges ==
  ASSUME GoneInv, NEW p \in Pids, NEW x, Moves(p, x), Living(p)
  PROVE  Ageing
  BY DEF Moves, Ageing, GoneInv, ConsoleTypeOK, Living

LEMMA StillAges == ASSUME UNCHANGED daemon PROVE Ageing
  BY DEF Ageing, Living

LEMMA SpawnAges ==
  ASSUME GoneInv, NEW p \in Free, NEW k, NEW m, daemon' = Spawned(p, k, m)
  PROVE  Ageing
  <1>1. p \in Pids /\ daemon[p].stage = "none" /\ daemon \in [Pids -> Daemons]
    BY DEF Free, GoneInv, ConsoleTypeOK
  <1>2. \A q \in Pids : q # p => daemon'[q] = daemon[q]
    BY <1>1 DEF Spawned
  <1> QED BY <1>1, <1>2 DEF Ageing, Living

LEMMA TermAges ==
  ASSUME GoneInv, NEW p \in Pids, Term(p)
  PROVE  Ageing
  <1>0. daemon \in [Pids -> Daemons]
    BY DEF GoneInv, ConsoleTypeOK
  <1>1. CASE daemon[p].stage \in Orderly
    <2>1. Living(p) /\ daemon' = Exited(p)
      BY <1>1 DEF Term, Living, Orderly
    <2> QED BY <2>1, ExitMoves, MoveAges
  <1>2. CASE daemon[p].stage \notin Orderly /\ Living(p)
    <2>1. daemon' = [daemon EXCEPT ![p].sig = TRUE,
                                   ![p].up = @ \/ daemon[p].stage = "serving"]
      BY <1>2 DEF Term
    <2>2. \A q \in Pids : daemon'[q].stage = daemon[q].stage /\ daemon'[q].mp = daemon[q].mp
                          /\ daemon'[q].profile = daemon[q].profile
      BY <1>0, <2>1 DEF Daemons
    <2> QED BY <2>2 DEF Ageing, Living
  <1>3. CASE ~Living(p)
    BY <1>3, StillAges DEF Term, Living, Orderly
  <1> QED BY <1>1, <1>2, <1>3

LEMMA KillAges ==
  ASSUME GoneInv, NEW p \in Pids, Kill(p)
  PROVE  Ageing
  BY ExitMoves, MoveAges, StillAges DEF Kill

LEMMA HeldSlots ==
  ASSUME OneInv, NEW s \in Requests, Reserving(req[s])
  PROVE  procs[req[s].key] = Slot(s) /\ Slot(s) \notin done
  BY DEF OneInv, SlotsHeld

LEMMA DaemonNextOne ==
  ASSUME GoneInv, GoneInv', OneInv, Sole, NEW p \in Pids, DaemonNext(p)
  PROVE  OneInv'
  <1>0. daemon[p] \in Daemons
    BY DEF GoneInv, ConsoleTypeOK
  <1>1. UNCHANGED <<procs, req>> /\ kids' \subseteq kids
    BY DEF DaemonNext, ServeBegins, StartAborts, ShutdownBegins, Drain, FinalSnapshot,
           DaemonDies, Reap, DetachKernel, WatchdogFires
  <1>2. \A s \in Requests : Reserving(req[s]) => Slot(s) \notin done'
    <2>1. \A s \in Requests : Slot(s) # Child(p)
      BY DEF Slot, Child
    <2>2. done' = done \/ done' = done \cup {Child(p)}
      BY DEF DaemonNext, ServeBegins, StartAborts, ShutdownBegins, Drain, FinalSnapshot,
             DaemonDies, Reap, DetachKernel, WatchdogFires
    <2> QED BY <2>1, <2>2, HeldSlots
  <1>3. Ageing
    <2>1. CASE daemon' = daemon
      BY <2>1, StillAges
    <2>2. CASE Living(p) /\ daemon' = Exited(p)
      BY <2>2, ExitMoves, MoveAges
    <2>3. ASSUME NEW st \in Stages \ {"none", "dead"}, Living(p),
                 \/ daemon' = [daemon EXCEPT ![p].stage = st]
                 \/ daemon' = [daemon EXCEPT ![p].stage = st, ![p].age = 0]
          PROVE  Ageing
      <3>1. daemon \in [Pids -> Daemons]
        BY DEF GoneInv, ConsoleTypeOK
      <3>2. \A q \in Pids : /\ q # p => daemon'[q] = daemon[q]
                            /\ daemon'[p].stage = st /\ daemon'[p].mp = daemon[p].mp
                            /\ daemon'[p].profile = daemon[p].profile
        BY <2>3, <3>1, ZenonT(40) DEF Daemons
      <3> QED BY <2>3, <3>2 DEF Ageing, Living
    <2>4. CASE ServeBegins(p)
      <3>1. daemon' = [daemon EXCEPT ![p].stage = "serving"] /\ Living(p)
        BY <2>4 DEF ServeBegins, Living
      <3>2. "serving" \in Stages \ {"none", "dead"}
        BY DEF Stages, Orderly
      <3> QED BY <2>3, <3>1, <3>2
    <2>5. CASE ShutdownBegins(p)
      <3>1. daemon' = [daemon EXCEPT ![p].stage = "stopping", ![p].age = 0] /\ Living(p)
        BY <2>5 DEF ShutdownBegins, Living
      <3>2. "stopping" \in Stages \ {"none", "dead"}
        BY DEF Stages, Orderly
      <3> QED BY <2>3, <3>1, <3>2
    <2>6. CASE Drain(p)
      <3>1. daemon' = [daemon EXCEPT ![p].stage = "drained"] /\ Living(p)
        BY <2>6 DEF Drain, Living
      <3>2. "drained" \in Stages \ {"none", "dead"}
        BY DEF Stages, Orderly
      <3> QED BY <2>3, <3>1, <3>2
    <2>7. CASE \E ok \in BOOLEAN : DetachKernel(p, ok)
      <3>1. daemon' = [daemon EXCEPT ![p].stage = "detached"] /\ Living(p)
        BY <2>7 DEF DetachKernel, Living
      <3>2. "detached" \in Stages \ {"none", "dead"}
        BY DEF Stages, Orderly
      <3> QED BY <2>3, <3>1, <3>2
    <2>8. CASE \/ StartAborts(p) \/ FinalSnapshot(p) \/ DaemonDies(p)
               \/ \E ok \in BOOLEAN : WatchdogFires(p, ok)
      BY <2>2, <2>8 DEF StartAborts, FinalSnapshot, DaemonDies, WatchdogFires, Living, Orderly
    <2>9. CASE Reap(p)
      BY <2>1, <2>9 DEF Reap
    <2> QED BY <2>4, <2>5, <2>6, <2>7, <2>8, <2>9 DEF DaemonNext
  <1> QED BY <1>1, <1>2, <1>3, OneWorld

LEMMA WatchesNobody == ASSUME NEW x, x.seen = {} PROVE Watches(x)'
  BY DEF Watches

LEMMA ArriveOne ==
  ASSUME GoneInv, GoneInv', OneInv, Sole, NEW r \in Requests, NEW kind, NEW key, NEW m,
         Arrive(r, kind, key, m)
  PROVE  OneInv'
  <1> PICK x : x = [Quiet EXCEPT !.pc = "prune", !.kind = kind, !.key = key, !.mp = m,
                               !.todo = Mounted,
                               !.seen = {p \in Pids : kind = "start" /\ Living(p)
                                                      /\ OwnMount(p)}]
    OBVIOUS
  <1>1. /\ UNCHANGED <<daemon, procs, done, kids>>
        /\ req' = [req EXCEPT ![r] = x]
        /\ req[r].pc \in {"idle", "stopped"}
        /\ \A s \in Requests \ {r} : r \notin req[s].proc.by
    BY DEF Arrive
  <1>2. /\ x.pc = "prune" /\ x.proc.by = {} /\ x.todo = Mounted
        /\ x.seen \subseteq {p \in Pids : Living(p) /\ OwnMount(p)}
    BY DEF Quiet, NoProc
  <1>3. \A q \in x.seen : daemon[q].stage # "none" /\ daemon[q].mp \in x.todo
    <2> SUFFICES ASSUME NEW q \in x.seen PROVE daemon[q].stage # "none" /\ daemon[q].mp \in x.todo
      OBVIOUS
    <2>1. q \in Pids /\ Living(q) /\ OwnMount(q) /\ q # 0
      BY <1>2, MaxPidNat DEF Pids
    <2> QED BY <1>2, <2>1 DEF Mounted, OwnMount, GoneInv, DaemonsNamed, Living
  <1>4. Watches(x)'
    BY <1>1, <1>2, <1>3 DEF Watches
  <1> QED BY <1>1, <1>2, <1>4, StillAges, HeldSlots, OneRequest DEF TableTurns, Reserving

\* The end of a request, and a refusal.
LEMMA QuietOne ==
  ASSUME GoneInv, GoneInv', OneInv, Sole, Ageing, NEW r \in Requests, ~Reserving(req[r]),
         UNCHANGED <<procs, kids>>, done' = done, req' = [req EXCEPT ![r] = Quiet]
  PROVE  OneInv'
  <1> PICK x : x = Quiet
    OBVIOUS
  <1>1. x.pc = "idle" /\ x.proc.by = {} /\ x.seen = {}
    BY DEF Quiet, NoProc
  <1> QED BY <1>1, WatchesNobody, HeldSlots, OneRequest DEF TableTurns, Reserving

\* A slot that is held has no closed channel, and is nobody's process.
LEMMA SlotNotGone ==
  ASSUME GoneInv, OneInv, NEW k \in ProcKeys, Gone(procs[k])
  PROVE  procs[k].by = {}
  <1>1. ASSUME NEW s \in Requests, s \in procs[k].by PROVE FALSE
    <2>1. Reserving(req[s]) /\ req[s].key = k
      BY <1>1 DEF OneInv, SlotsOwned
    <2>2. procs[k] = Slot(s) /\ Slot(s) \notin done
      BY <2>1, HeldSlots
    <2> QED BY <2>2 DEF Gone, Slot
  <1>2. procs[k].by \subseteq Requests
    BY DEF GoneInv, ConsoleTypeOK, Entries
  <1> QED BY <1>1, <1>2

LEMMA PruneOne ==
  ASSUME GoneInv, GoneInv', OneInv, Sole, NEW r \in Requests, ReconcilePrune(r)
  PROVE  OneInv'
  <1> DEFINE kept == [k \in ProcKeys |-> IF Gone(procs[k]) THEN NoProc ELSE procs[k]]
  <1> PICK x : x = [req[r] EXCEPT !.pc = "adopt", !.todo = @ \ Tracked(kept),
                                 !.seen = {p \in @ : \A k \in ProcKeys :
                                             kept[k].mp = daemon[p].mp => kept[k].pid = p}]
    OBVIOUS
  <1>0. req[r] \in Handlers /\ procs \in [ProcKeys -> Entries] /\ req[r].pc = "prune"
    BY DEF GoneInv, ConsoleTypeOK, ReconcilePrune
  <1>1. UNCHANGED <<daemon, kids>> /\ procs' = kept
    BY DEF ReconcilePrune
  <1>2. req' = [req EXCEPT ![r] = x]
    BY DEF ReconcilePrune, GoneInv, ConsoleTypeOK
  <1>3. /\ x.pc = "adopt" /\ x.proc = req[r].proc /\ x.todo = req[r].todo \ Tracked(kept)
        /\ x.seen = {p \in req[r].seen : \A k \in ProcKeys :
                       kept[k].mp = daemon[p].mp => kept[k].pid = p}
    BY <1>0 DEF Handlers
  <1>4. TableTurns
    <2> SUFFICES ASSUME NEW k \in ProcKeys, Gone(procs[k])
                 PROVE  /\ procs[k].by = {} /\ Dead(procs[k])
                        /\ procs'[k].by = {} /\ (Keyed(k, procs[k]))'
      BY <1>1 DEF TableTurns
    <2>1. Dead(procs[k])
      BY <1>0, GoneIsDead DEF GoneInv, EntriesNamed
    <2>2. procs'[k] = NoProc
      BY <1>1
    <2>3. NoProc.by = {} /\ NoProc.pid = 0
      BY DEF NoProc
    <2>4. (Keyed(k, procs[k]))'
      BY <2>2, <2>3 DEF Keyed
    <2> QED BY <2>1, <2>2, <2>3, <2>4, SlotNotGone
  <1>5. \A s \in Requests : Reserving(req[s]) => Slot(s) \notin done'
    <2>1. \A s \in Requests : Slot(s).adopted = FALSE
      BY DEF Slot
    <2>2. \A y \in done' : y \in done \/ y.adopted
      BY DEF ReconcilePrune
    <2> QED BY <2>1, <2>2, HeldSlots
  <1>6. Watches(x)'
    <2> SUFFICES ASSUME NEW q \in x.seen
                 PROVE  /\ daemon[q].stage # "none"
                        /\ Living(q) => \/ daemon[q].mp \in x.todo
                                        \/ procs'[daemon[q].profile].pid = q
      BY <1>1, <1>3 DEF Watches, Living
    <2>1. q \in req[r].seen /\ q \in Pids
      BY <1>0, <1>3 DEF Handlers
    <2>2. /\ daemon[q].stage # "none"
          /\ Living(q) => daemon[q].mp \in req[r].todo
      BY <1>0, <2>1 DEF OneInv, Watches
    <2>3. ASSUME Living(q), daemon[q].mp \notin x.todo
          PROVE  kept[daemon[q].profile].pid = q
      <3>1. PICK k \in ProcKeys : kept[k].mp = daemon[q].mp
        BY <1>3, <2>2, <2>3 DEF Tracked
      <3>2. kept[k].pid = q /\ q # 0
        BY <1>3, <3>1, <2>1, MaxPidNat DEF Pids
      <3>3. kept[k] = procs[k]
        BY <3>2 DEF NoProc
      <3>4. daemon[q].profile = k
        BY <2>3, <3>2, <3>3 DEF OneInv, Keyed
      <3> QED BY <3>2, <3>4
    <2> QED BY <1>1, <2>2, <2>3
  <1>7. \A s \in Requests : r \notin req[s].proc.by
    BY <1>0 DEF OneInv, SlotsFresh
  <1>8. \A s \in Requests : s \in x.proc.by =>
            /\ req'[s].pc \notin {"prune", "adopt"}
            /\ ~Reserving(req[s])
    <2>1. \A s \in Requests : s # r => req'[s] = req[s]
      BY <1>2 DEF GoneInv, ConsoleTypeOK
    <2> QED BY <1>0, <1>3, <1>7, <2>1 DEF OneInv, SlotsFresh, Reserving
  <1> HIDE DEF kept
  <1> QED BY <1>0, <1>1, <1>2, <1>3, <1>4, <1>5, <1>6, <1>7, <1>8, StillAges, OneRequest
          DEF Reserving

LEMMA AdoptOne ==
  ASSUME GoneInv, GoneInv', OneInv, Sole, NEW r \in Requests, ReconcileAdopt(r)
  PROVE  OneInv'
  <1>0. /\ req[r] \in Handlers /\ procs \in [ProcKeys -> Entries] /\ req[r].pc = "adopt"
        /\ req \in [Requests -> Handlers]
    BY DEF GoneInv, ConsoleTypeOK, ReconcileAdopt
  <1>1. UNCHANGED <<daemon, kids>>
    BY DEF ReconcileAdopt
  <1>2. PICK m \in req[r].todo :
          \/ /\ FindDaemonPid(m) = {}
             /\ req' = [req EXCEPT ![r].todo = @ \ {m}]
             /\ UNCHANGED <<procs, done>>
          \/ \E p \in FindDaemonPid(m) :
                LET taken == IF procs[KeyOf(p)] = NoProc \/ procs[KeyOf(p)].pid = p
                             THEN {p} ELSE {}
                IN /\ req' = [req EXCEPT ![r].todo = @ \ {m},
                                         ![r].seen = @ \ (FindDaemonPid(m) \ taken)]
                   /\ IF procs[KeyOf(p)] = NoProc
                      THEN /\ procs' = [procs EXCEPT ![KeyOf(p)] = Adopted(p)]
                           /\ done' = done \ {Adopted(p)}
                      ELSE UNCHANGED <<procs, done>>
    BY DEF ReconcileAdopt
  <1>3. \A s \in Requests : r \notin req[s].proc.by
    BY <1>0 DEF OneInv, SlotsFresh
  <1>4. ASSUME NEW S, S \subseteq req[r].seen,
               req' = [req EXCEPT ![r].todo = @ \ {m}, ![r].seen = S],
               done' \subseteq done, TableTurns,
               \A q \in S : Living(q) /\ daemon[q].mp = m => procs'[daemon[q].profile].pid = q
        PROVE  OneInv'
    <2> PICK x : x = [req[r] EXCEPT !.todo = @ \ {m}, !.seen = S]
      OBVIOUS
    <2>1. req' = [req EXCEPT ![r] = x]
      BY <1>0, <1>4
    <2>2. /\ x.pc = "adopt" /\ x.proc = req[r].proc /\ x.todo = req[r].todo \ {m}
          /\ x.seen = S
      BY <1>0 DEF Handlers
    <2>3. Watches(x)'
      <3> SUFFICES ASSUME NEW q \in S
                   PROVE  /\ daemon[q].stage # "none"
                          /\ Living(q) => \/ daemon[q].mp \in x.todo
                                          \/ procs'[daemon[q].profile].pid = q
        BY <1>1, <2>2 DEF Watches, Living
      <3>1. /\ daemon[q].stage # "none" /\ q \in Pids
            /\ Living(q) => \/ daemon[q].mp \in req[r].todo
                            \/ procs[daemon[q].profile].pid = q
        BY <1>0, <1>4 DEF OneInv, Watches, Handlers
      <3>2. ASSUME Living(q), procs[daemon[q].profile].pid = q
            PROVE  procs'[daemon[q].profile].pid = q
        <4>1. daemon[q].profile \in ProcKeys /\ q # 0
          BY <3>1, <3>2, SoleKeys, MaxPidNat DEF GoneInv, DaemonsNamed, Pids
        <4> QED BY <1>1, <1>4, <3>2, <4>1, StillAges, EntryStays
      <3> QED BY <1>4, <2>2, <3>1, <3>2
    <2>4. \A s \in Requests : s \in x.proc.by =>
              /\ req'[s].pc \notin {"prune", "adopt"}
              /\ ~Reserving(req[s])
      <3>1. \A s \in Requests : s # r => req'[s] = req[s]
        BY <1>0, <2>1
      <3> QED BY <1>0, <1>3, <2>2, <3>1 DEF OneInv, SlotsFresh, Reserving
    <2>5. \A s \in Requests : Reserving(req[s]) => Slot(s) \notin done'
      BY <1>4, HeldSlots
    <2>6. ~Reserving(req[r]) /\ ~Reserving(x) /\ kids' \subseteq kids /\ Ageing
      BY <1>0, <1>1, <2>2, StillAges DEF Reserving
    <2> QED BY <1>3, <1>4, <2>1, <2>3, <2>4, <2>5, <2>6, OneRequest
  <1>5. CASE /\ FindDaemonPid(m) = {}
             /\ req' = [req EXCEPT ![r].todo = @ \ {m}]
             /\ UNCHANGED <<procs, done>>
    <2>1. req' = [req EXCEPT ![r].todo = @ \ {m}, ![r].seen = req[r].seen]
      BY <1>0, <1>5 DEF Handlers
    <2>2. \A q \in req[r].seen : Living(q) => daemon[q].mp # m
      BY <1>0, <1>5 DEF FindDaemonPid, Handlers
    <2>3. TableTurns
      BY <1>5 DEF TableTurns
    <2> QED BY <1>4, <1>5, <2>1, <2>2, <2>3
  <1>6. ASSUME NEW p \in FindDaemonPid(m), NEW taken,
               taken = IF procs[KeyOf(p)] = NoProc \/ procs[KeyOf(p)].pid = p THEN {p} ELSE {},
               req' = [req EXCEPT ![r].todo = @ \ {m},
                                  ![r].seen = @ \ (FindDaemonPid(m) \ taken)],
               IF procs[KeyOf(p)] = NoProc
               THEN /\ procs' = [procs EXCEPT ![KeyOf(p)] = Adopted(p)]
                    /\ done' = done \ {Adopted(p)}
               ELSE UNCHANGED <<procs, done>>
        PROVE  OneInv'
    <2> PICK S : S = req[r].seen \ (FindDaemonPid(m) \ taken)
      OBVIOUS
    <2>1. S \subseteq req[r].seen /\ req' = [req EXCEPT ![r].todo = @ \ {m}, ![r].seen = S]
      BY <1>0, <1>6 DEF Handlers
    <2>2. p \in Pids /\ Living(p) /\ KeyOf(p) = daemon[p].profile /\ daemon[p].profile \in ProcKeys
      BY SoleKeys DEF FindDaemonPid, KeyOf, Sole, GoneInv, DaemonsNamed
    <2>3. done' \subseteq done
      BY <1>6
    <2>4. TableTurns
      <3>1. CASE procs[KeyOf(p)] = NoProc
        <4>1. procs' = [procs EXCEPT ![daemon[p].profile] = Adopted(p)]
          BY <1>6, <2>2, <3>1
        <4>2. NoProc.by = {} /\ Dead(NoProc)
          BY DEF NoProc, Dead
        <4>3. /\ Adopted(p).by = {} /\ Adopted(p).pid = p
          BY DEF Adopted
        <4>4. procs'[daemon[p].profile] = Adopted(p)
          BY <1>0, <2>2, <4>1
        <4>6. ASSUME NEW k \in ProcKeys, k = daemon[p].profile PROVE (Keyed(k, procs[k]))'
          BY <1>1, <4>3, <4>4, <4>6 DEF Keyed
        <4> QED BY <1>0, <2>2, <3>1, <4>1, <4>2, <4>3, <4>4, <4>6 DEF TableTurns
      <3>2. CASE procs[KeyOf(p)] # NoProc
        BY <1>6, <3>2 DEF TableTurns
      <3> QED BY <3>1, <3>2
    <2>5. ASSUME NEW q \in S, Living(q), daemon[q].mp = m
          PROVE  procs'[daemon[q].profile].pid = q
      <3>1. q \in FindDaemonPid(m)
        BY <1>0, <2>5 DEF FindDaemonPid, Handlers
      <3>2. q \in taken
        BY <2>5, <3>1
      <3>3. q = p /\ (procs[daemon[p].profile] = NoProc \/ procs[daemon[p].profile].pid = p)
        BY <1>6, <2>2, <3>2
      <3>4. CASE procs[daemon[p].profile] = NoProc
        <4>1. procs' = [procs EXCEPT ![daemon[p].profile] = Adopted(p)]
          BY <1>6, <2>2, <3>4
        <4> QED BY <1>0, <2>2, <3>3, <4>1 DEF Adopted
      <3>5. CASE procs[daemon[p].profile] # NoProc
        BY <1>6, <2>2, <3>3, <3>5
      <3> QED BY <3>4, <3>5
    <2> QED BY <1>4, <2>1, <2>3, <2>4, <2>5
  <1> QED BY <1>2, <1>5, <1>6

\* A reservation: nobody waits for the slot yet, and none of the daemons that
\* were seen is the profile's.
LEMMA ReserveOne ==
  ASSUME GoneInv, GoneInv', OneInv, Sole, NEW r \in Requests, StartReserve(r)
  PROVE  OneInv'
  <1> PICK k : k = req[r].key
    OBVIOUS
  <1>0. /\ req[r] \in Handlers /\ procs \in [ProcKeys -> Entries] /\ req[r].pc = "adopt"
        /\ req \in [Requests -> Handlers] /\ req[r].todo = {} /\ k \in ProcKeys
    BY SoleKeys DEF GoneInv, ConsoleTypeOK, StartReserve, Reconciled, Asked
  <1>1. UNCHANGED <<daemon, kids>> /\ Ageing
    BY StillAges DEF StartReserve
  <1>2. CASE req' = [req EXCEPT ![r] = Quiet] /\ UNCHANGED <<procs, done>>
    BY <1>0, <1>1, <1>2, QuietOne DEF Reserving
  <1>3. CASE /\ procs' = [procs EXCEPT ![k] = Slot(r)] /\ done' = done \ {Slot(r)}
             /\ req' = [req EXCEPT ![r].pc = "spawn"]
             /\ procs[k] = NoProc \/ procs[k] \in done
    <2>1. \A s \in Requests : s # r => req'[s] = req[s]
      BY <1>0, <1>3
    <2>2. /\ req'[r].pc = "spawn" /\ req'[r].key = k /\ req'[r].mp = req[r].mp
          /\ req'[r].proc = req[r].proc /\ req'[r].seen = req[r].seen
      BY <1>0, <1>3 DEF Handlers
    <2>3. \A s \in Requests : Slot(s)' = Slot(s)
      BY <2>1, <2>2 DEF Slot
    <2>4. procs[k].by = {} /\ Dead(procs[k])
      <3>1. NoProc.by = {} /\ Dead(NoProc)
        BY DEF NoProc, Dead
      <3>2. CASE procs[k] \in done
        BY <1>0, <3>2, SlotNotGone DEF Gone, GoneInv, DoneDead
      <3> QED BY <1>3, <3>1, <3>2
    <2>5. procs'[k] = Slot(r) /\ Slot(r).by = {r} /\ Slot(r).pid = 0
          /\ \A j \in ProcKeys : j # k => procs'[j] = procs[j]
      BY <1>0, <1>3 DEF Slot
    <2>6. \A s \in Requests : r \notin req[s].proc.by
      BY <1>0 DEF OneInv, SlotsFresh
    <2>7. SlotsHeld'
      <3> SUFFICES ASSUME NEW s \in Requests, Reserving(req'[s])
                   PROVE  procs'[req'[s].key] = Slot(s) /\ Slot(s) \notin done'
        BY <2>3 DEF SlotsHeld, Reserving
      <3>1. CASE s = r
        BY <1>3, <2>2, <2>5, <3>1
      <3>2. CASE s # r
        <4>1. req'[s] = req[s] /\ procs[req[s].key] = Slot(s) /\ Slot(s) \notin done
          BY <2>1, <3>2, HeldSlots
        <4>2. req[s].key \in ProcKeys /\ Slot(s).by = {s}
          BY <4>1, SoleKeys DEF GoneInv, Asked, Reserving, Slot
        <4>3. req[s].key # k
          BY <2>4, <4>1, <4>2
        <4> QED BY <1>3, <2>5, <4>1, <4>2, <4>3
      <3> QED BY <3>1, <3>2
    <2>8. SlotsOwned'
      BY <2>1, <2>2, <2>5, <1>0 DEF OneInv, SlotsOwned, Reserving
    <2>9. SlotsFresh'
      <3> SUFFICES ASSUME NEW s \in Requests, NEW t \in Requests, s \in req'[t].proc.by
                   PROVE  /\ req'[s].pc \notin {"prune", "adopt"}
                          /\ Reserving(req'[s]) => /\ req'[t].pc = "wait" /\ req'[t].left = StopWait
                                                   /\ req'[t].proc = Slot(s)
        BY <2>3 DEF SlotsFresh, Reserving
      <3>1. req'[t].proc = req[t].proc /\ s # r
        BY <2>1, <2>2, <2>6
      <3>2. /\ req[s].pc \notin {"prune", "adopt"}
            /\ Reserving(req[s]) => /\ req[t].pc = "wait" /\ req[t].left = StopWait
                                    /\ req[t].proc = Slot(s)
        BY <3>1 DEF OneInv, SlotsFresh
      <3> QED BY <1>0, <2>1, <3>1, <3>2
    <2>10. KidsKnown'
      <3> SUFFICES ASSUME NEW p \in kids
                   PROVE  /\ daemon[p].stage # "none"
                          /\ Living(p) =>
                               \/ procs'[daemon[p].profile] = Child(p)
                               \/ \E s \in Requests : /\ req'[s].pc = "register"
                                                      /\ req'[s].key = daemon[p].profile
                                                      /\ req'[s].proc.pid = p
        BY <1>1 DEF KidsKnown, Living, Child
      <3>1. daemon[p].stage # "none" /\ p \in Pids /\ p # 0
        BY MaxPidNat DEF OneInv, KidsKnown, GoneInv, ConsoleTypeOK, Pids
      <3>2. ASSUME Living(p), procs[daemon[p].profile] = Child(p)
            PROVE  procs'[daemon[p].profile] = Child(p)
        <4>1. daemon[p].profile \in ProcKeys
          BY <3>1, <3>2, SoleKeys DEF GoneInv, DaemonsNamed
        <4>2. ~Dead(Child(p))
          BY <3>1, <3>2 DEF Dead, Child, Living
        <4> QED BY <2>4, <2>5, <3>2, <4>1, <4>2
      <3>3. \A s \in Requests : req[s].pc = "register" => req'[s] = req[s]
        BY <1>0, <2>1
      <3>4. Living(p) => \/ procs[daemon[p].profile] = Child(p)
                         \/ \E s \in Requests : /\ req[s].pc = "register"
                                                /\ req[s].key = daemon[p].profile
                                                /\ req[s].proc.pid = p
        BY DEF OneInv, KidsKnown
      <3> QED BY <3>1, <3>2, <3>3, <3>4
    <2>11. ASSUME NEW s \in Requests PROVE (Forked(req[s]) /\ Watches(req[s]))'
      <3>1. CASE s = r
        <4>1. (Forked(req[s]))'
          BY <2>2, <3>1 DEF Forked
        <4>2. ASSUME NEW q \in req[r].seen
              PROVE  daemon[q].stage # "none" /\ (Living(q) => daemon[q].profile # k)
          <5>1. /\ daemon[q].stage # "none"
                /\ Living(q) => procs[daemon[q].profile].pid = q
            BY <1>0 DEF OneInv, Watches
          <5>2. q # 0 /\ q \in Pids
            <6>1. q \in Pids
              BY <1>0 DEF Handlers
            <6> QED BY <6>1, MaxPidNat DEF Pids
          <5>3. procs[k].pid = q => ~Living(q)
            BY <2>4, <5>2 DEF Dead, Living
          <5> QED BY <5>1, <5>3
        <4>3. (Watches(req[s]))'
          BY <1>1, <2>2, <3>1, <4>2 DEF Watches, Living
        <4> QED BY <4>1, <4>3
      <3>2. CASE s # r
        <4>1. req'[s] = req[s] /\ Forked(req[s]) /\ Watches(req[s])
          BY <2>1, <3>2 DEF OneInv
        <4>2. (Forked(req[s]))'
          BY <1>1, <4>1 DEF Forked, Living, Child
        <4>3. ASSUME NEW q \in req[s].seen, Living(q), procs[daemon[q].profile].pid = q
              PROVE  procs'[daemon[q].profile].pid = q
          <5>1. q # 0 /\ q \in Pids
            <6>1. q \in Pids
              BY <1>0 DEF Handlers
            <6> QED BY <6>1, MaxPidNat DEF Pids
          <5>2. daemon[q].profile \in ProcKeys
            BY <4>3, <5>1, SoleKeys DEF GoneInv, DaemonsNamed
          <5>3. daemon[q].profile # k
            BY <2>4, <4>3, <5>1 DEF Dead, Living
          <5> QED BY <2>5, <4>3, <5>2, <5>3
        <4>4. (Watches(req[s]))'
          BY <1>1, <4>1, <4>3 DEF Watches, Living
        <4> QED BY <4>2, <4>4
      <3> QED BY <3>1, <3>2
    <2>12. ASSUME NEW j \in ProcKeys PROVE (Keyed(j, procs[j]))'
      BY <1>1, <2>5 DEF OneInv, Keyed, Living
    <2> QED BY <2>7, <2>8, <2>9, <2>10, <2>11, <2>12 DEF OneInv
  <1> QED BY <1>2, <1>3 DEF StartReserve, Reserved

\* The fork: no daemon of the profile lives that the console knows of.
LEMMA ForkAlone ==
  ASSUME GoneInv, OneInv, Sole, NEW r \in Requests, req[r].pc = "spawn",
         NEW q \in Pids, Living(q), daemon[q].profile = req[r].key
  PROVE  q \notin kids \cup req[r].seen
  <1>1. q \notin req[r].seen
    BY DEF OneInv, Watches
  <1>2. ASSUME q \in kids PROVE FALSE
    <2>1. procs[req[r].key] = Slot(r)
      BY HeldSlots DEF Reserving
    <2>2. Slot(r).pid = 0 /\ Child(q).pid = q /\ q # 0
      BY MaxPidNat DEF Slot, Child, Pids
    <2>3. PICK s \in Requests : req[s].pc = "register" /\ req[s].key = req[r].key
      BY <1>2, <2>1, <2>2 DEF OneInv, KidsKnown
    <2>4. Slot(s) = Slot(r) /\ Slot(s).by = {s} /\ Slot(r).by = {r}
      BY <2>1, <2>3, HeldSlots DEF Reserving, Slot
    <2> QED BY <2>3, <2>4
  <1> QED BY <1>1, <1>2

LEMMA SpawnOne ==
  ASSUME GoneInv, GoneInv', OneInv, Sole, NEW r \in Requests, StartSpawn(r)
  PROVE  OneInv'
  <1>0. /\ req[r] \in Handlers /\ procs \in [ProcKeys -> Entries]
        /\ req \in [Requests -> Handlers] /\ daemon \in [Pids -> Daemons]
    BY DEF GoneInv, ConsoleTypeOK
  <1>1. PICK p \in Free :
          /\ req[r].pc = "spawn"
          /\ daemon' = Spawned(p, req[r].key, req[r].mp)
          /\ kids' = kids \cup {p}
          /\ req' = [req EXCEPT ![r].pc = "register",
                                ![r].proc = [NoProc EXCEPT !.pid = p, !.mp = req[r].mp]]
          /\ UNCHANGED <<kernel, procs, done, cut>>
    BY DEF StartSpawn
  <1>2. req[r].key \in Profiles /\ req[r].mp \in Mountpoints
    BY <1>1 DEF GoneInv, Asked
  <1>3. /\ p \in Pids /\ Ageing /\ daemon'[p].mp = req[r].mp /\ daemon'[p].profile = req[r].key
        /\ p # 0 /\ daemon[p].stage = "none" /\ daemon'[p].stage = "starting"
    BY <1>1, <1>2, SpawnOnward, SpawnAges, MaxPidNat DEF Free, Pids
  <1> PICK y : y = ChildOf(p, req[r].mp)
    OBVIOUS
  <1>4. y.pid = p /\ y.by = {} /\ Child(p)' = y
    BY <1>3, ChildEntry DEF ChildOf, Child
  <1>5. req' = [req EXCEPT ![r].pc = "register", ![r].proc = y]
    BY <1>1, <1>2, <1>3, ChildEntry
  <1>6. \A s \in Requests : s # r => req'[s] = req[s]
    BY <1>0, <1>5
  <1>7. /\ req'[r].pc = "register" /\ req'[r].key = req[r].key /\ req'[r].mp = req[r].mp
        /\ req'[r].proc = y /\ req'[r].seen = req[r].seen
    BY <1>0, <1>5 DEF Handlers
  <1>8. \A s \in Requests : Slot(s)' = Slot(s)
    BY <1>6, <1>7 DEF Slot
  <1>9. \A s \in Requests : (Reserving(req'[s]) <=> Reserving(req[s])) /\ req'[s].key = req[s].key
                            /\ (req'[s].pc \in {"prune", "adopt"} => req'[s] = req[s])
    BY <1>1, <1>6, <1>7 DEF Reserving
  <1>10. UNCHANGED <<procs, done>> /\ TableTurns
    BY <1>1 DEF TableTurns
  <1>11. SlotsHeld' /\ SlotsOwned'
    BY <1>8, <1>9, <1>10 DEF OneInv, SlotsHeld, SlotsOwned
  <1>12. SlotsFresh'
    <2> SUFFICES ASSUME NEW s \in Requests, NEW t \in Requests, s \in req'[t].proc.by
                 PROVE  /\ req'[s].pc \notin {"prune", "adopt"}
                        /\ Reserving(req'[s]) => /\ req'[t].pc = "wait" /\ req'[t].left = StopWait
                                                 /\ req'[t].proc = Slot(s)
      BY <1>8 DEF SlotsFresh
    <2>1. t # r /\ req'[t] = req[t]
      BY <1>4, <1>6, <1>7
    <2> QED BY <1>9, <2>1 DEF OneInv, SlotsFresh
  <1>13. KidsKnown'
    <2> SUFFICES ASSUME NEW q \in kids'
                 PROVE  /\ daemon'[q].stage # "none"
                        /\ Living(q)' =>
                             \/ procs'[daemon'[q].profile] = Child(q)'
                             \/ \E s \in Requests : /\ req'[s].pc = "register"
                                                    /\ req'[s].key = daemon'[q].profile
                                                    /\ req'[s].proc.pid = q
      BY DEF KidsKnown
    <2>1. CASE q = p
      BY <1>3, <1>4, <1>7, <2>1
    <2>2. CASE q # p
      <3>1. q \in kids /\ q \in Pids /\ daemon[q].stage # "none"
        BY <1>1, <2>2 DEF OneInv, KidsKnown, GoneInv, ConsoleTypeOK
      <3>2. daemon'[q].stage # "none"
        BY <1>3, <3>1 DEF Ageing
      <3>3. ASSUME Living(q)' PROVE Living(q) /\ daemon'[q].profile = daemon[q].profile
        BY <1>3, <3>1, <3>3 DEF Ageing
      <3>4. Child(q)' = Child(q)
        BY <1>3, <3>1, ChildAges
      <3>5. \A s \in Requests : req[s].pc = "register" => req'[s] = req[s]
        BY <1>1, <1>6
      <3>6. Living(q) => \/ procs[daemon[q].profile] = Child(q)
                         \/ \E s \in Requests : /\ req[s].pc = "register"
                                                /\ req[s].key = daemon[q].profile
                                                /\ req[s].proc.pid = q
        BY <3>1 DEF OneInv, KidsKnown
      <3> QED BY <1>3, <1>10, <3>1, <3>3, <3>4, <3>5, <3>6 DEF Ageing
    <2> QED BY <2>1, <2>2
  <1>14. ASSUME NEW s \in Requests PROVE (Forked(req[s]) /\ Watches(req[s]))'
    <2>1. CASE s = r
      <3>1. (Forked(req[s]))'
        BY <1>3, <1>4, <1>7, <2>1 DEF Forked
      <3>2. \A q \in req[r].seen : daemon'[q].stage # "none"
        BY <1>0, <1>3 DEF OneInv, Watches, Ageing, Handlers
      <3>3. (Watches(req[s]))'
        BY <1>7, <2>1, <3>2 DEF Watches
      <3> QED BY <3>1, <3>3
    <2>2. CASE s # r
      <3> PICK z : z = req[s]
        OBVIOUS
      <3>1. req'[s] = z
        BY <1>6, <2>2
      <3>2. z \in Handlers /\ z.proc \in Entries /\ Names(z.proc) /\ Forked(z) /\ Watches(z)
        BY DEF GoneInv, ConsoleTypeOK, EntriesNamed, Handlers, OneInv
      <3>3. Forked(z)' /\ Watches(z)'
        BY <1>3, <1>10, <3>2, ForkedAges, WatchesAges
      <3> QED BY <3>1, <3>3 DEF Forked, Watches
    <2> QED BY <2>1, <2>2
  <1>15. ASSUME NEW k \in ProcKeys PROVE (Keyed(k, procs[k]))'
    <2> PICK z : z = procs[k]
      OBVIOUS
    <2>1. z \in Entries /\ Names(z) /\ Keyed(k, z) /\ procs'[k] = z
      BY <1>10 DEF GoneInv, ConsoleTypeOK, EntriesNamed, OneInv
    <2>2. Keyed(k, z)'
      BY <1>3, <2>1, KeyedAges
    <2> QED BY <2>1, <2>2 DEF Keyed
  <1> QED BY <1>11, <1>12, <1>13, <1>14, <1>15 DEF OneInv

\* The slot gives way, to nothing or to the child.
LEMMA ReleaseOne ==
  ASSUME GoneInv, GoneInv', OneInv, Sole, NEW r \in Requests,
         StartUnreserve(r) \/ StartRegister(r)
  PROVE  OneInv'
  <1> PICK k : k = req[r].key
    OBVIOUS
  <1> PICK y : y = IF req[r].pc = "spawn" THEN NoProc ELSE req[r].proc
    OBVIOUS
  <1>0. /\ req[r] \in Handlers /\ procs \in [ProcKeys -> Entries] /\ Reserving(req[r])
        /\ req \in [Requests -> Handlers] /\ k \in ProcKeys
    BY SoleKeys DEF GoneInv, ConsoleTypeOK, StartUnreserve, StartRegister, Reserving, Asked
  <1>1. procs[k] = Slot(r) /\ Slot(r).by = {r} /\ Slot(r).pid = 0
    BY <1>0, HeldSlots DEF Slot
  <1>2. /\ procs' = [procs EXCEPT ![k] = y] /\ UNCHANGED <<daemon, kids>>
        /\ done' \subseteq done \cup {Slot(r)}
        /\ req' = [req EXCEPT ![r] = Quiet]
    BY <1>1 DEF StartUnreserve, StartRegister, Awaited
  <1>3. /\ y.by = {} /\ Keyed(k, y)
        /\ req[r].pc = "register" => y.pid # 0 /\ y = Child(y.pid) /\ y.pid = req[r].proc.pid
    <2>1. CASE req[r].pc = "spawn"
      BY <2>1 DEF NoProc, Keyed
    <2>2. CASE req[r].pc = "register"
      <3>1. Forked(req[r]) /\ y = req[r].proc
        BY <2>2 DEF OneInv
      <3> QED BY <2>2, <3>1 DEF Forked, Keyed, Child
    <2> QED BY <1>0, <2>1, <2>2 DEF Reserving
  <1>4. \A s \in Requests : req'[s] = IF s = r THEN Quiet ELSE req[s]
    BY <1>0, <1>2
  <1>5. Quiet.pc = "idle" /\ Quiet.proc.by = {} /\ Quiet.seen = {}
    BY DEF Quiet, NoProc
  <1>6. \A s \in Requests : s # r => Slot(s)' = Slot(s) /\ Slot(s) # Slot(r)
    BY <1>4 DEF Slot
  <1>7. procs'[k] = y /\ \A j \in ProcKeys : j # k => procs'[j] = procs[j]
    BY <1>0, <1>2
  <1>8. SlotsHeld'
    <2> SUFFICES ASSUME NEW s \in Requests, Reserving(req'[s])
                 PROVE  procs'[req'[s].key] = Slot(s)' /\ Slot(s)' \notin done'
      BY DEF SlotsHeld, Reserving
    <2>1. s # r /\ req'[s] = req[s]
      BY <1>4, <1>5 DEF Reserving
    <2>2. procs[req[s].key] = Slot(s) /\ Slot(s) \notin done /\ req[s].key \in ProcKeys
      BY <2>1, HeldSlots, SoleKeys DEF GoneInv, Asked, Reserving
    <2>3. req[s].key # k
      BY <1>1, <1>6, <2>1, <2>2
    <2> QED BY <1>2, <1>6, <1>7, <2>1, <2>2, <2>3
  <1>9. SlotsOwned'
    <2> SUFFICES ASSUME NEW j \in ProcKeys, NEW s \in Requests, s \in procs'[j].by
                 PROVE  Reserving(req'[s]) /\ req'[s].key = j
      BY DEF SlotsOwned, Reserving
    <2>1. j # k /\ s \in procs[j].by
      BY <1>3, <1>7
    <2>2. Reserving(req[s]) /\ req[s].key = j
      BY <2>1 DEF OneInv, SlotsOwned
    <2> QED BY <1>4, <2>1, <2>2
  <1>10. SlotsFresh'
    <2> SUFFICES ASSUME NEW s \in Requests, NEW t \in Requests, s \in req'[t].proc.by
                 PROVE  /\ req'[s].pc \notin {"prune", "adopt"}
                        /\ Reserving(req'[s]) => /\ req'[t].pc = "wait" /\ req'[t].left = StopWait
                                                 /\ req'[t].proc = Slot(s)'
      BY DEF SlotsFresh, Reserving
    <2>1. t # r /\ req'[t] = req[t]
      BY <1>4, <1>5
    <2>2. /\ req[s].pc \notin {"prune", "adopt"}
          /\ Reserving(req[s]) => /\ req[t].pc = "wait" /\ req[t].left = StopWait
                                  /\ req[t].proc = Slot(s)
      BY <2>1 DEF OneInv, SlotsFresh
    <2> QED BY <1>4, <1>5, <1>6, <2>1, <2>2 DEF Reserving
  <1>11. KidsKnown'
    <2> SUFFICES ASSUME NEW p \in kids, Living(p)
                 PROVE  \/ procs'[daemon[p].profile] = Child(p)
                        \/ \E s \in Requests : /\ req'[s].pc = "register"
                                               /\ req'[s].key = daemon[p].profile
                                               /\ req'[s].proc.pid = p
      BY <1>2 DEF OneInv, KidsKnown, Living, Child
    <2>1. p \in Pids /\ p # 0 /\ daemon[p].profile \in ProcKeys
      <3>1. p \in Pids
        BY DEF GoneInv, ConsoleTypeOK
      <3> QED BY <3>1, MaxPidNat, SoleKeys DEF Pids, GoneInv, DaemonsNamed
    <2>2. CASE procs[daemon[p].profile] = Child(p)
      <3>1. daemon[p].profile # k
        BY <1>1, <2>1, <2>2 DEF Child
      <3> QED BY <1>7, <2>1, <2>2, <3>1
    <2>3. ASSUME NEW s \in Requests, req[s].pc = "register",
                 req[s].key = daemon[p].profile, req[s].proc.pid = p
          PROVE  \/ procs'[daemon[p].profile] = Child(p)
                 \/ /\ req'[s].pc = "register" /\ req'[s].key = daemon[p].profile
                    /\ req'[s].proc.pid = p
      BY <1>3, <1>4, <1>7, <2>3
    <2> QED BY <2>2, <2>3 DEF OneInv, KidsKnown
  <1>12. ASSUME NEW s \in Requests PROVE (Forked(req[s]) /\ Watches(req[s]))'
    <2>1. CASE s = r
      BY <1>4, <1>5, <2>1 DEF Forked, Watches
    <2>2. CASE s # r
      <3>1. req'[s] = req[s] /\ Forked(req[s]) /\ Watches(req[s]) /\ req[s].seen \subseteq Pids
        BY <1>0, <1>4, <2>2 DEF OneInv, Handlers
      <3>2. (Forked(req[s]))'
        BY <1>2, <3>1 DEF Forked, Living, Child
      <3>3. ASSUME NEW q \in req[s].seen, Living(q), procs[daemon[q].profile].pid = q
            PROVE  procs'[daemon[q].profile].pid = q
        <4>1. q \in Pids /\ q # 0
          BY <3>1, MaxPidNat DEF Pids
        <4>2. daemon[q].profile \in ProcKeys /\ daemon[q].profile # k
          BY <1>1, <3>3, <4>1, SoleKeys DEF GoneInv, DaemonsNamed
        <4> QED BY <1>7, <3>3, <4>2
      <3>4. (Watches(req[s]))'
        BY <1>2, <3>1, <3>3 DEF Watches, Living
      <3> QED BY <3>2, <3>4
    <2> QED BY <2>1, <2>2
  <1>13. ASSUME NEW j \in ProcKeys PROVE (Keyed(j, procs[j]))'
    BY <1>2, <1>3, <1>7 DEF OneInv, Keyed, Living
  <1> QED BY <1>8, <1>9, <1>10, <1>11, <1>12, <1>13 DEF OneInv

\* Who waits for a slot has just come, so it neither sees it close nor gives up.
LEMMA WaitsFresh ==
  ASSUME OneInv, NEW s \in Requests, NEW r \in Requests, Reserving(req[s]),
         req[r].proc = Slot(s)
  PROVE  req[r].pc = "wait" /\ req[r].left = StopWait /\ ~Gone(req[r].proc)
  <1>1. s \in req[r].proc.by
    BY DEF Slot
  <1>2. req[r].pc = "wait" /\ req[r].left = StopWait
    BY <1>1 DEF OneInv, SlotsFresh
  <1> QED BY <1>2, HeldSlots DEF Gone, Slot

LEMMA StopSignalOne ==
  ASSUME GoneInv, GoneInv', OneInv, Sole, NEW r \in Requests, StopSignal(r)
  PROVE  OneInv'
  <1> PICK mp : mp = procs[req[r].key]
    OBVIOUS
  <1>0. /\ req[r] \in Handlers /\ req \in [Requests -> Handlers] /\ StopTimeout = StopWait
        /\ procs \in [ProcKeys -> Entries] /\ req[r].key \in ProcKeys
        /\ req[r].pc = "adopt" /\ mp \in Entries /\ Names(mp)
    BY DEF GoneInv, ConsoleTypeOK, EntriesNamed, StopTimeout, StopSignal, Reconciled, Asked
  <1>1. UNCHANGED <<procs, done, kids>> /\ TableTurns
    BY DEF StopSignal, TableTurns
  <1>2. \A s \in Requests : Reserving(req[s]) => Slot(s) \notin done'
    BY <1>1, HeldSlots
  <1>3. CASE req' = [req EXCEPT ![r] = Quiet] /\ UNCHANGED daemon
    BY <1>0, <1>1, <1>3, StillAges, QuietOne DEF Reserving
  <1>4. ASSUME NEW x, req' = [req EXCEPT ![r] = x], x.proc = mp, Ageing,
               \/ x.pc = "ensure" /\ mp \in done
               \/ x.pc = "wait" /\ x.left = StopWait,
               x.seen = req[r].seen
        PROVE  OneInv'
    <2>1. Watches(x)'
      <3>1. \A q \in x.seen : daemon'[q].stage # "none"
        BY <1>0, <1>4 DEF OneInv, Watches, Ageing, Handlers
      <3> QED BY <1>4, <3>1 DEF Watches
    <2>2. \A s \in Requests : s # r => req'[s] = req[s]
      BY <1>0, <1>4
    <2>3. ASSUME NEW s \in Requests, s \in x.proc.by
          PROVE  /\ req'[s].pc \notin {"prune", "adopt"}
                 /\ Reserving(req[s]) => /\ x.pc = "wait" /\ x.left = StopWait
                                         /\ x.proc = Slot(s)
      <3>1. Reserving(req[s]) /\ req[s].key = req[r].key
        BY <1>0, <1>4, <2>3 DEF OneInv, SlotsOwned
      <3>2. mp = Slot(s) /\ mp \notin done /\ s # r
        BY <1>0, <3>1, HeldSlots DEF Reserving
      <3> QED BY <1>4, <2>2, <3>1, <3>2 DEF Reserving
    <2>4. ~Reserving(req[r]) /\ ~Reserving(x) /\ x.pc \notin {"prune", "adopt"}
      BY <1>0, <1>4 DEF Reserving
    <2> QED BY <1>1, <1>2, <1>4, <2>1, <2>3, <2>4, OneRequest
  <1>5. CASE /\ mp \in done /\ UNCHANGED daemon
             /\ req' = [req EXCEPT ![r].pc = "ensure", ![r].proc = mp]
    <2> PICK x : x = [req[r] EXCEPT !.pc = "ensure", !.proc = mp]
      OBVIOUS
    <2>1. req' = [req EXCEPT ![r] = x]
      BY <1>0, <1>5
    <2>2. x.pc = "ensure" /\ x.proc = mp /\ x.seen = req[r].seen
      BY <1>0 DEF Handlers
    <2> QED BY <1>4, <1>5, <2>1, <2>2, StillAges
  <1>6. CASE /\ req' = [req EXCEPT ![r].pc = "wait", ![r].proc = mp, ![r].left = StopTimeout]
             /\ IF mp.pid = 0 THEN UNCHANGED <<daemon, kernel, cut>> ELSE Term(mp.pid)
    <2> PICK x : x = [req[r] EXCEPT !.pc = "wait", !.proc = mp, !.left = StopTimeout]
      OBVIOUS
    <2>1. req' = [req EXCEPT ![r] = x]
      BY <1>0, <1>6
    <2>2. x.pc = "wait" /\ x.proc = mp /\ x.seen = req[r].seen /\ x.left = StopWait
      BY <1>0 DEF Handlers
    <2>3. Ageing
      BY <1>0, <1>6, StillAges, TermAges, EntryPids
    <2> QED BY <1>4, <2>1, <2>2, <2>3
  <1> QED BY <1>3, <1>5, <1>6 DEF StopSignal

LEMMA UnmountSignalOne ==
  ASSUME GoneInv, GoneInv', OneInv, Sole, NEW r \in Requests, NEW m \in Mountpoints,
         UnmountSignal(r, m)
  PROVE  OneInv'
  <1>1. /\ UNCHANGED <<procs, done, kids>> /\ TableTurns /\ req[r].pc \in {"idle", "stopped"}
    BY DEF UnmountSignal, TableTurns
  <1>2. Ageing
    BY TermAges, StillAges DEF UnmountSignal, FindDaemonPid
  <1>3. PICK x : /\ req' = [req EXCEPT ![r] = x] /\ x.pc \in {"wait", "ensure"}
                 /\ x.proc.by = {} /\ x.seen = {}
    <2>1. CASE FindDaemonPid(m) = {}
      <3> PICK y : y = [NoProc EXCEPT !.mp = m]
        OBVIOUS
      <3> PICK x : x = [Quiet EXCEPT !.pc = "ensure", !.kind = "unmount",
                                     !.mp = m, !.proc = y]
        OBVIOUS
      <3>1. req' = [req EXCEPT ![r] = x] /\ y.by = {}
        BY <2>1 DEF UnmountSignal, NoProc
      <3>2. x.pc = "ensure" /\ x.proc = y /\ x.seen = {}
        BY DEF Quiet
      <3> QED BY <3>1, <3>2
    <2>2. CASE FindDaemonPid(m) # {}
      <3>1. PICK p : req' = [req EXCEPT ![r] = [Quiet EXCEPT !.pc = "wait", !.kind = "unmount",
                                  !.mp = m, !.proc = Adopted(p), !.left = StopTimeout]]
        BY <2>2 DEF UnmountSignal
      <3> PICK y : y = Adopted(p)
        OBVIOUS
      <3> PICK x : x = [Quiet EXCEPT !.pc = "wait", !.kind = "unmount",
                                     !.mp = m, !.proc = y, !.left = StopTimeout]
        OBVIOUS
      <3>2. x.pc = "wait" /\ x.proc = y /\ x.seen = {}
        BY DEF Quiet
      <3>3. y.by = {}
        BY DEF Adopted
      <3> QED BY <3>1, <3>2, <3>3
    <2> QED BY <2>1, <2>2
  <1>5. ~Reserving(req[r]) /\ ~Reserving(x) /\ x.pc \notin {"prune", "adopt"}
    BY <1>1, <1>3 DEF Reserving
  <1> QED BY <1>1, <1>2, <1>3, <1>5, WatchesNobody, HeldSlots, OneRequest

\* The end of a Stop.
LEMMA StopEndOne ==
  ASSUME GoneInv, GoneInv', OneInv, Sole, NEW r \in Requests, NEW ok \in BOOLEAN,
         StopWaits(r) \/ StopKills(r, ok) \/ StopEnsure(r, ok)
  PROVE  OneInv'
  <1> PICK y : y = req[r].proc
    OBVIOUS
  <1>0. /\ req[r] \in Handlers /\ req \in [Requests -> Handlers] /\ y \in Entries /\ Names(y)
        /\ req[r].pc \in {"wait", "ensure"} /\ ~Reserving(req[r])
    BY DEF GoneInv, ConsoleTypeOK, EntriesNamed, Handlers, StopWaits, StopKills, StopEnsure,
           Reserving
  <1>1. UNCHANGED <<procs, kids>> /\ TableTurns
    BY DEF StopWaits, StopKills, StopEnsure, TableTurns
  <1>2. Ageing
    <2>1. CASE UNCHANGED daemon
      BY <2>1, StillAges
    <2>2. CASE y.pid # 0 /\ Kill(y.pid)
      BY <1>0, <2>2, KillAges, EntryPids
    <2> QED BY <2>1, <2>2 DEF StopWaits, StopKills, StopEnsure
  <1>3. \A s \in Requests : Reserving(req[s]) => y # Slot(s)
    BY <1>0, WaitsFresh DEF StopWaits, StopKills, StopEnsure, Sole
  <1>4. done' \subseteq done \cup {y}
    BY DEF StopWaits, StopKills, StopEnsure
  <1>5. \A s \in Requests : Reserving(req[s]) => Slot(s) \notin done'
    BY <1>3, <1>4, HeldSlots
  <1>6. \A s \in Requests : s \in y.by => req[s].pc \notin {"prune", "adopt"} /\ ~Reserving(req[s])
    BY <1>3 DEF OneInv, SlotsFresh
  <1>7. ASSUME NEW x, req' = [req EXCEPT ![r] = x], x.proc = y \/ x.proc.by = {},
               x.pc \in {"idle", "ensure", "stopped"}, \A q \in x.seen : q \in req[r].seen
        PROVE  OneInv'
    <2>1. Watches(x)'
      <3>1. \A q \in x.seen : daemon'[q].stage # "none"
        BY <1>0, <1>2, <1>7 DEF OneInv, Watches, Ageing, Handlers
      <3> QED BY <1>7, <3>1 DEF Watches
    <2>2. \A s \in Requests : req'[s] = IF s = r THEN x ELSE req[s]
      BY <1>0, <1>7
    <2>3. ~Reserving(x) /\ x.pc \notin {"prune", "adopt"}
      BY <1>7 DEF Reserving
    <2>4. \A s \in Requests : s \in x.proc.by =>
              req'[s].pc \notin {"prune", "adopt"} /\ ~Reserving(req[s])
      BY <1>6, <1>7, <2>2, <2>3
    <2> QED BY <1>0, <1>1, <1>2, <1>5, <1>7, <2>1, <2>3, <2>4, OneRequest
  <1>8. /\ Quiet.pc = "idle" /\ Quiet.proc.by = {} /\ Quiet.seen = {}
        /\ Success(y).pc = "stopped" /\ Success(y).proc = y /\ Success(y).seen = {}
    BY DEF Quiet, Success, NoProc
  <1>9. CASE StopWaits(r)
    <2> PICK x : x = [req[r] EXCEPT !.pc = "ensure"]
      OBVIOUS
    <2>1. req' = [req EXCEPT ![r] = x]
      BY <1>0, <1>9 DEF StopWaits
    <2>2. x.pc = "ensure" /\ x.proc = y /\ x.seen = req[r].seen
      BY <1>0 DEF Handlers
    <2> QED BY <1>7, <2>1, <2>2
  <1>10. CASE StopKills(r, ok) \/ StopEnsure(r, ok)
    <2>1. req' = [req EXCEPT ![r] = Quiet] \/ req' = [req EXCEPT ![r] = Success(y)]
      BY <1>0, <1>10 DEF StopKills, StopEnsure
    <2> PICK a : a = Quiet
      OBVIOUS
    <2> PICK b : b = Success(y)
      OBVIOUS
    <2> QED BY <1>7, <1>8, <2>1
  <1> QED BY <1>9, <1>10

LEMMA RequestNextOne ==
  ASSUME GoneInv, GoneInv', OneInv, Sole, NEW r \in Requests, RequestNext(r)
  PROVE  OneInv'
  <1>1. CASE PageDone(r)
    BY <1>1, StillAges, QuietOne DEF PageDone, Reconciled, Reserving
  <1>2. CASE \/ Arrive(r, "page", "", "") \/ \E k \in ProcKeys : Arrive(r, "stop", k, "")
             \/ \E k \in Profiles, m \in Mountpoints : Arrive(r, "start", k, m)
    BY <1>2, ArriveOne
  <1> QED BY <1>1, <1>2, PruneOne, AdoptOne, ReserveOne, SpawnOne, ReleaseOne, StopSignalOne,
             UnmountSignalOne, StopEndOne DEF RequestNext

LEMMA RestartOne ==
  ASSUME GoneInv, GoneInv', OneInv, Sole, ConsoleRestarts
  PROVE  OneInv'
  <1>0. /\ kids' = {} /\ UNCHANGED daemon
        /\ \A k \in ProcKeys : procs'[k] = NoProc
        /\ \A r \in Requests : \/ req'[r] = Quiet
                               \/ req'[r] = req[r] /\ req[r].kind = "unmount"
    BY DEF ConsoleRestarts
  <1>1. /\ NoProc.by = {} /\ NoProc.pid = 0 /\ Quiet.pc = "idle" /\ Quiet.proc.by = {}
        /\ Quiet.seen = {}
    BY DEF NoProc, Quiet
  <1>2. \A r \in Requests : ~Reserving(req'[r])
    BY <1>0, <1>1 DEF GoneInv, Asked, Reserving
  <1>3. SlotsHeld' /\ SlotsOwned' /\ KidsKnown'
    BY <1>0, <1>1, <1>2 DEF SlotsHeld, SlotsOwned, KidsKnown
  <1>4. SlotsFresh'
    BY <1>0, <1>1, <1>2 DEF SlotsFresh, OneInv
  <1>5. ASSUME NEW r \in Requests PROVE (Forked(req[r]) /\ Watches(req[r]))'
    <2>1. CASE req'[r] = Quiet
      BY <1>1, <2>1 DEF Forked, Watches
    <2>2. CASE req'[r] = req[r] /\ req[r].kind = "unmount"
      <3>1. req[r].pc \notin {"prune", "adopt", "spawn", "register"}
        BY <2>2 DEF GoneInv, Asked
      <3> QED BY <1>0, <2>2, <3>1 DEF OneInv, Forked, Watches
    <2> QED BY <1>0, <2>1, <2>2
  <1>6. ASSUME NEW k \in ProcKeys PROVE (Keyed(k, procs[k]))'
    BY <1>0, <1>1 DEF Keyed
  <1> QED BY <1>3, <1>4, <1>5, <1>6 DEF OneInv

LEMMA TickOne ==
  ASSUME GoneInv, GoneInv', OneInv, Sole, Tick
  PROVE  OneInv'
  <1>0. daemon \in [Pids -> Daemons] /\ req \in [Requests -> Handlers]
    BY DEF GoneInv, ConsoleTypeOK
  <1>1. UNCHANGED <<procs, done, kids>> /\ TableTurns
    BY DEF Tick, TableTurns
  <1>2. Ageing
    <2>1. \A p \in Pids : daemon'[p].stage = daemon[p].stage /\ daemon'[p].mp = daemon[p].mp
                          /\ daemon'[p].profile = daemon[p].profile
      BY <1>0 DEF Tick, Daemons
    <2> QED BY <2>1 DEF Ageing, Living
  <1>3. \A r \in Requests : ~Reserving(req[r])
    BY DEF Tick, Due, Reserving
  <1>4. \A r \in Requests : /\ req'[r].pc = req[r].pc /\ req'[r].proc = req[r].proc
                            /\ req'[r].seen = req[r].seen
                            /\ req[r].pc # "wait" => req'[r] = req[r]
    <2> SUFFICES ASSUME NEW r \in Requests
                 PROVE  /\ req'[r].pc = req[r].pc /\ req'[r].proc = req[r].proc
                        /\ req'[r].seen = req[r].seen
                        /\ req[r].pc # "wait" => req'[r] = req[r]
      OBVIOUS
    <2>1. PICK n : req'[r] = IF req[r].pc = "wait" THEN [req[r] EXCEPT !.left = n] ELSE req[r]
      BY DEF Tick
    <2>2. req[r] \in Handlers
      BY <1>0
    <2> QED BY <2>1, <2>2 DEF Handlers
  <1>5. SlotsFresh'
    BY <1>3, <1>4 DEF OneInv, SlotsFresh, Reserving
  <1>6. ASSUME NEW r \in Requests, req'[r] # req[r]
        PROVE  ~Reserving(req'[r]) /\ (Watches(req[r]))'
    <2>1. req'[r].pc = "wait"
      BY <1>4, <1>6
    <2>2. \A q \in req[r].seen : daemon'[q].stage # "none"
      BY <1>0, <1>2 DEF OneInv, Watches, Ageing, Handlers
    <2> QED BY <1>4, <2>1, <2>2 DEF Watches, Reserving
  <1>7. \A s \in Requests : Reserving(req[s]) => Slot(s) \notin done'
    BY <1>3
  <1> QED BY <1>1, <1>2, <1>3, <1>5, <1>6, <1>7, OneStep

LEMMA ConsoleNextOne ==
  ASSUME GoneInv, GoneInv', OneInv, Sole, [ConsoleNext]_consoleVars
  PROVE  OneInv'
  <1>1. CASE UNCHANGED consoleVars
    BY <1>1, StillAges, HeldSlots, OneWorld DEF consoleVars
  <1>2. ASSUME NEW m \in Mountpoints, UnmountExternal(m) \/ DetachedByHand(m) PROVE OneInv'
    BY <1>2, StillAges, HeldSlots, OneWorld DEF UnmountExternal, DetachedByHand
  <1>3. ASSUME NEW m \in Mountpoints, NEW k \in Profiles, TerminalMount(k, m) PROVE OneInv'
    BY <1>3, SpawnAges, HeldSlots, OneWorld DEF TerminalMount
  <1> QED BY <1>1, <1>2, <1>3, DaemonNextOne, RequestNextOne, RestartOne, TickOne DEF ConsoleNext

\* The guard of a fork.
ForkSafe ==
    \A r \in Requests : StartSpawn(r) =>
         ~\E q \in Pids :
             /\ Living(q) /\ daemon[q].profile = req[r].key
             /\ q \in kids \cup req[r].seen

\* Supervisor.Start never puts a second daemon onto a profile's database: when
\* it forks, no daemon of the profile is alive that this console started or
\* that Reconcile taken mounted, for any number of requests, crashes and
\* restarts of the console between the look, the reservation and the fork.
\* Sole: Stop waits for at least one tick, and every daemon carries
\* TELFS_PROFILE (a daemon without it is entered under a key of its own).
THEOREM OneDaemonPerProfile == ASSUME Sole PROVE ConsoleSpec => OneDaemon
  <1>1. GoneInv /\ GoneInv' /\ OneInv /\ [ConsoleNext]_consoleVars => OneInv'
    BY ConsoleNextOne
  <1>2. GoneInv /\ OneInv /\ [ConsoleNext]_consoleVars => [ForkSafe]_consoleVars
    <2> SUFFICES ASSUME GoneInv, OneInv PROVE ForkSafe
      OBVIOUS
    <2> QED BY ForkAlone DEF ForkSafe, StartSpawn
  <1>3. ConsoleSpec => [][ForkSafe]_consoleVars
    BY <1>1, <1>2, ConsoleInvariant, ConsoleInitOne, PTL DEF ConsoleSpec
  <1> QED BY <1>3 DEF ForkSafe, OneDaemon

-----------------------------------------------------------------------------
(***************************************************************************)
(* Repair                                                                  *)
(***************************************************************************)

RepairSpec == RepairInit /\ [][RepairNext]_repairVars

-----------------------------------------------------------------------------
(* Arithmetic of slots *)

\* The least-number principle, for a set of numbers.
LEMMA Least ==
  ASSUME NEW T \in SUBSET Nat, T # {}
  PROVE  \E m \in T : \A n \in T : m <= n
  <1> DEFINE R == OpToRel(<, Nat)
  <1>1. IsWellFoundedOn(R, Nat)
    BY NatLessThanWellFounded
  <1>2. \A x, y \in Nat : x < y => <<x, y>> \in R
    BY DEF OpToRel
  <1> HIDE DEF R
  <1>3. PICK x \in T : \A y \in T : ~(<<y, x>> \in R)
    BY <1>1, WFMin
  <1>4. \A y \in T : y \in Nat /\ ~(y < x)
    BY <1>2, <1>3
  <1>5. \A y \in T : x <= y
    BY <1>4
  <1> QED BY <1>5

LEMMA TimesGrows ==
  ASSUME NEW a \in Nat, NEW b \in Nat, a <= b, NEW c \in Nat
  PROVE  a * c <= b * c /\ a * c \in Nat /\ b * c \in Nat
  <1> PICK d \in Nat : b = a + d
    <2> PICK d : d = b - a
      OBVIOUS
    <2> QED OBVIOUS
  <1>1. b * c = a * c + d * c /\ d * c \in Nat /\ a * c \in Nat
    OBVIOUS
  <1> QED BY <1>1

LEMMA Next1 == \A a, c \in Nat : (a + 1) * c = a * c + c
  OBVIOUS

\* The rows a size implies are those that begin below it.
LEMMA ExpectedIs ==
  ASSUME NEW n \in Nat, NEW i \in Nat
  PROVE  Expected(n) \in Nat /\ (i < Expected(n) <=> i * ChunkSize < n)
  <1> PICK c, q, t : c = ChunkSize /\ t = n + c - 1 /\ q = t \div c
    OBVIOUS
  <1>1. c \in Nat \ {0} /\ t \in Nat /\ q = Expected(n)
    BY RepairAssumption DEF Expected
  <1>2. q \in Nat /\ q * c <= t /\ t < (q + 1) * c
    BY <1>1
  <1>3. i * c \in Nat /\ q * c \in Nat /\ (i + 1) * c = i * c + c
    BY <1>1, <1>2
  <1>4. ASSUME i < q
        PROVE  i * c < n
    <2>1. (i + 1) * c <= q * c
      BY <1>1, <1>2, <1>4, TimesGrows
    <2> QED BY <1>1, <1>2, <1>3, <2>1
  <1>5. ASSUME i * c < n
        PROVE  i < q
    <2> SUFFICES ASSUME q <= i PROVE FALSE
      BY <1>1, <1>2
    <2>1. (q + 1) * c <= (i + 1) * c
      BY <1>1, <1>2, TimesGrows
    <2> QED BY <1>1, <1>2, <1>3, <1>5, <2>1
  <1> QED BY <1>1, <1>2, <1>4, <1>5

-----------------------------------------------------------------------------
(* Sums *)

Pick(s) == CHOOSE x \in s : TRUE

\* f is the running sum of rows over the subsets of S with at most n members.
Sums(f, S, n) ==
    f = [s \in {s \in SUBSET S : Cardinality(s) <= n} |->
           IF s = {} THEN 0 ELSE rows[Pick(s)] + f[s \ {Pick(s)}]]

LEMMA PickIs ==
  ASSUME NEW S, IsFiniteSet(S), NEW s \in SUBSET S
  PROVE  /\ IsFiniteSet(s) /\ Cardinality(s) \in Nat
         /\ s = {} <=> Cardinality(s) = 0
         /\ s # {} => /\ Pick(s) \in s /\ s \ {Pick(s)} \in SUBSET S
                      /\ Cardinality(s \ {Pick(s)}) = Cardinality(s) - 1
  <1>1. IsFiniteSet(s) /\ Cardinality(s) \in Nat /\ (s = {} <=> Cardinality(s) = 0)
    BY FS_Subset, FS_CardinalityType, FS_EmptySet
  <1>2. s # {} => Pick(s) \in s
    BY DEF Pick
  <1>3. s # {} => Cardinality(s \ {Pick(s)}) = Cardinality(s) - 1
    BY <1>1, <1>2, FS_RemoveElement
  <1> QED BY <1>1, <1>2, <1>3

LEMMA SumsExist ==
  ASSUME NEW S, IsFiniteSet(S), NEW n \in Nat
  PROVE  \E f : Sums(f, S, n)
  <1> DEFINE T == {m \in Nat : ~\E f : Sums(f, S, m)}
             Small(m) == {s \in SUBSET S : Cardinality(s) <= m}
  <1> SUFFICES ASSUME T # {} PROVE FALSE
    OBVIOUS
  <1>1. PICK m \in T : \A k \in T : m <= k
    <2>1. T \in SUBSET Nat
      OBVIOUS
    <2> HIDE DEF T
    <2> QED BY <2>1, Least
  <1>2. m \in Nat /\ ~\E f : Sums(f, S, m)
    BY <1>1
  <1>3. m # 0
    <2> SUFFICES ASSUME m = 0 PROVE FALSE
      OBVIOUS
    <2> DEFINE f == [s \in Small(0) |-> 0]
    <2>1. \A s \in Small(0) : s = {}
      <3> TAKE s \in Small(0)
      <3>1. s \in SUBSET S /\ Cardinality(s) <= 0
        OBVIOUS
      <3>2. Cardinality(s) \in Nat /\ (s = {} <=> Cardinality(s) = 0)
        BY <3>1, PickIs
      <3> QED BY <3>1, <3>2
    <2>2. f = [s \in Small(0) |-> IF s = {} THEN 0 ELSE rows[Pick(s)] + f[s \ {Pick(s)}]]
      BY <2>1
    <2>3. Sums(f, S, 0)
      BY <2>2 DEF Sums
    <2> QED BY <1>2, <2>3
  <1>4. PICK f : Sums(f, S, m - 1)
    <2>1. m - 1 \in Nat /\ ~(m <= m - 1)
      BY <1>2, <1>3
    <2> HIDE DEF T
    <2>2. m - 1 \notin T
      BY <1>1, <2>1
    <2> QED BY <2>1, <2>2 DEF T
  <1> DEFINE h == [s \in Small(m) |->
                     IF s = {} THEN 0 ELSE rows[Pick(s)] + f[s \ {Pick(s)}]]
  <1>5. \A s \in Small(m) : s # {} => h[s \ {Pick(s)}] = f[s \ {Pick(s)}]
    <2> TAKE s \in Small(m)
    <2> HAVE s # {}
    <2> PICK t : t = s \ {Pick(s)}
      OBVIOUS
    <2>1. t \in SUBSET S /\ Cardinality(t) <= m - 1 /\ Cardinality(t) \in Nat
      BY <1>2, PickIs
    <2>2. t \in Small(m - 1) /\ t \in Small(m)
      BY <1>2, <2>1
    <2>3. f[t] = IF t = {} THEN 0 ELSE rows[Pick(t)] + f[t \ {Pick(t)}]
      BY <1>4, <2>2 DEF Sums
    <2>4. h[t] = IF t = {} THEN 0 ELSE rows[Pick(t)] + f[t \ {Pick(t)}]
      BY <2>2
    <2> QED BY <2>3, <2>4
  <1>6. Sums(h, S, m)
    <2>1. h = [s \in Small(m) |-> IF s = {} THEN 0 ELSE rows[Pick(s)] + h[s \ {Pick(s)}]]
      BY <1>5
    <2> QED BY <2>1 DEF Sums
  <1> QED BY <1>2, <1>6

RowSum(S) == MapThenSumSet(LAMBDA i : rows[i], S)

IsSum(f, S) ==
    \A s \in SUBSET S :
        f[s] = IF s = {} THEN 0 ELSE rows[Pick(s)] + f[s \ {Pick(s)}]

\* MapThenSumSet, as the sum at S of such a function.
LEMMA SumIs ==
  ASSUME NEW S, IsFiniteSet(S)
  PROVE  \E f : RowSum(S) = f[S] /\ IsSum(f, S)
  <1> DEFINE Is(f) == f = [s \in SUBSET S |->
                             IF s = {} THEN 0 ELSE rows[Pick(s)] + f[s \ {Pick(s)}]]
             F == CHOOSE f : Is(f)
  <1>1. \E f : Is(f)
    <2>1. Cardinality(S) \in Nat
      BY FS_CardinalityType
    <2>2. \A s \in SUBSET S : Cardinality(s) <= Cardinality(S)
      BY FS_Subset
    <2>3. SUBSET S = {s \in SUBSET S : Cardinality(s) <= Cardinality(S)}
      BY <2>2
    <2>4. PICK f : Sums(f, S, Cardinality(S))
      BY <2>1, SumsExist
    <2>5. Is(f)
      BY <2>3, <2>4 DEF Sums
    <2> QED BY <2>5
  <1>2. Is(F)
    BY <1>1
  <1>3. RowSum(S) = F[S]
    BY DEF RowSum, MapThenSumSet, MapThenFoldSet, Pick
  <1>4. IsSum(F, S)
    BY <1>2 DEF IsSum
  <1> HIDE DEF F
  <1> QED BY <1>3, <1>4

\* Full rows at the start count in full, and the one after them for what it is.
LEMMA SumAtLeast ==
  ASSUME rows \in [Slots -> Nat], NEW S \in SUBSET Slots, IsFiniteSet(S),
         NEW m \in Nat, 0..m \subseteq S, \A i \in 0 .. m - 1 : rows[i] >= ChunkSize
  PROVE  /\ RowSum(S) \in Nat
         /\ RowSum(S) >= m * ChunkSize + rows[m]
  <1>1. PICK f : RowSum(S) = f[S] /\ IsSum(f, S)
    BY SumIs
  <1> PICK c : c = ChunkSize
    OBVIOUS
  <1>2. c \in Nat
    BY RepairAssumption
  <1>3. \A i \in S : rows[i] \in Nat
    OBVIOUS
  <1>4. m \in S /\ rows[m] \in Nat
    BY <1>3
  <1> DEFINE Full(s) == s \cap (0 .. m - 1)
             Last(s) == IF m \in s THEN rows[m] ELSE 0
             Enough(s) == f[s] \in Nat /\ f[s] >= Cardinality(Full(s)) * c + Last(s)
             T == {n \in Nat : \E s \in SUBSET S : Cardinality(s) = n /\ ~Enough(s)}
  <1>5. T = {}
    <2> SUFFICES ASSUME T # {} PROVE FALSE
      OBVIOUS
    <2>1. PICK n \in T : \A k \in T : n <= k
      <3>1. T \in SUBSET Nat
        OBVIOUS
      <3> HIDE DEF T
      <3> QED BY <3>1, Least
    <2>2. PICK s \in SUBSET S : Cardinality(s) = n /\ ~Enough(s)
      OBVIOUS
    <2>3. n \in Nat
      OBVIOUS
    <2> PICK x, r : x = Pick(s) /\ r = s \ {x}
      OBVIOUS
    <2>4. s # {}
      <3> SUFFICES ASSUME s = {} PROVE FALSE
        OBVIOUS
      <3>1. f[s] = 0 /\ Full(s) = {} /\ Last(s) = 0
        BY <1>1 DEF IsSum
      <3>2. Cardinality(Full(s)) = 0
        BY <3>1, FS_EmptySet
      <3>3. Enough(s)
        <4>1. Cardinality(Full(s)) * c = 0
          BY <1>2, <3>2
        <4> QED BY <3>1, <4>1
      <3> QED BY <2>2, <3>3
    <2>5. x \in s /\ x \in S /\ r \in SUBSET S /\ Cardinality(r) = n - 1
      BY <2>2, <2>4, PickIs
    <2>6. Enough(r)
      <3> SUFFICES ASSUME ~Enough(r) PROVE FALSE
        OBVIOUS
      <3>1. Cardinality(r) \in Nat
        BY <2>5, PickIs
      <3>2. n - 1 \in T
        BY <2>5, <3>1
      <3> HIDE DEF T
      <3> QED BY <2>1, <2>3, <3>2
    <2>7. f[s] = rows[x] + f[r] /\ rows[x] \in Nat
      BY <1>1, <1>3, <2>4, <2>5 DEF IsSum
    <2> PICK a, b : a = Cardinality(Full(s)) /\ b = Cardinality(Full(r))
      OBVIOUS
    <2>8. IsFiniteSet(Full(s)) /\ IsFiniteSet(Full(r)) /\ a \in Nat /\ b \in Nat
      BY FS_Subset, FS_CardinalityType
    <2>9. a * c \in Nat /\ b * c \in Nat /\ (b + 1) * c = b * c + c
      BY <1>2, <2>8
    <2>10. CASE x \in 0 .. m - 1
      <3>1. Full(r) = Full(s) \ {x} /\ x \in Full(s) /\ x # m
        BY <2>5, <2>10
      <3>2. a = b + 1
        <4>1. b = a - 1
          <5>1. Cardinality(Full(s) \ {x}) = Cardinality(Full(s)) - 1
            <6> HIDE DEF Full
            <6> QED BY <2>8, <3>1, FS_RemoveElement
          <5> QED BY <3>1, <5>1
        <4> QED BY <2>8, <4>1
      <3>3. Last(s) = Last(r) /\ Last(r) \in Nat /\ rows[x] >= c
        BY <1>4, <2>10, <3>1
      <3>4. Enough(s)
        BY <1>2, <2>6, <2>7, <2>8, <2>9, <3>2, <3>3
      <3> QED BY <2>2, <3>4
    <2>11. CASE x \notin 0 .. m - 1
      <3>1. Full(r) = Full(s)
        BY <2>11
      <3>2. Last(r) \in Nat /\ Last(s) \in Nat /\ Last(s) <= Last(r) + rows[x]
        BY <1>4, <2>5, <2>7
      <3>3. Enough(s)
        <4>1. a = b
          BY <3>1
        <4>2. f[r] \in Nat /\ f[r] >= b * c + Last(r)
          BY <2>6
        <4>3. f[s] \in Nat /\ f[s] >= a * c + Last(s)
          <5> HIDE DEF Last
          <5> QED BY <2>7, <2>9, <3>2, <4>1, <4>2
        <4> QED BY <4>3
      <3> QED BY <2>2, <3>3
    <2> QED BY <2>10, <2>11
  <1>6. Enough(S)
    <2>1. Cardinality(S) \in Nat
      BY FS_CardinalityType
    <2> HIDE DEF Enough
    <2> QED BY <1>5, <2>1
  <1>7. Full(S) = 0 .. m - 1 /\ Last(S) = rows[m]
    BY <1>4
  <1>8. Cardinality(0 .. m - 1) = m
    BY FS_Interval, m - 1 \in Int, m = 0 \/ 0 <= m - 1
  <1> QED BY <1>1, <1>6, <1>7, <1>8

LEMMA SumNat ==
  ASSUME rows \in [Slots -> Nat], NEW S \in SUBSET Slots, IsFiniteSet(S)
  PROVE  RowSum(S) \in Nat
  <1>1. PICK f : RowSum(S) = f[S] /\ IsSum(f, S)
    BY SumIs
  <1> DEFINE T == {n \in Nat : \E s \in SUBSET S : Cardinality(s) = n /\ f[s] \notin Nat}
  <1>2. T = {}
    <2> SUFFICES ASSUME T # {} PROVE FALSE
      OBVIOUS
    <2>1. PICK n \in T : \A k \in T : n <= k
      <3>1. T \in SUBSET Nat
        OBVIOUS
      <3> HIDE DEF T
      <3> QED BY <3>1, Least
    <2>2. PICK s \in SUBSET S : Cardinality(s) = n /\ f[s] \notin Nat
      OBVIOUS
    <2>3. n \in Nat /\ s # {}
      <3>1. f[{}] = 0
        BY <1>1 DEF IsSum
      <3> QED BY <2>2, <3>1
    <2> PICK x, r : x = Pick(s) /\ r = s \ {x}
      OBVIOUS
    <2>4. x \in s /\ r \in SUBSET S /\ Cardinality(r) = n - 1 /\ Cardinality(r) \in Nat
      BY <2>2, <2>3, PickIs
    <2>5. f[r] \in Nat
      <3> SUFFICES ASSUME f[r] \notin Nat PROVE FALSE
        OBVIOUS
      <3>1. n - 1 \in T
        BY <2>4
      <3> HIDE DEF T
      <3> QED BY <2>1, <2>3, <3>1
    <2>6. rows[x] \in Nat
      BY <2>4
    <2>7. f[s] = rows[x] + f[r]
      BY <1>1, <2>2, <2>3 DEF IsSum
    <2> QED BY <2>2, <2>5, <2>6, <2>7
  <1>3. Cardinality(S) \in Nat
    BY FS_CardinalityType
  <1> QED BY <1>1, <1>2, <1>3

-----------------------------------------------------------------------------
(* The invariant *)

RepairTypeOK ==
    /\ size \in Nat /\ wsize \in Nat /\ sparse \in BOOLEAN /\ up \in BOOLEAN
    /\ rows \in [Slots -> 0 .. ChunkSize] /\ wires \in [Slots -> 0 .. ChunkSize]
    /\ flying \in [Slots -> 0 .. ChunkSize] /\ queue \in [Slots -> 0 .. ChunkSize]
    /\ dirty \subseteq Slots /\ unstaged \subseteq Slots /\ issues \subseteq Slots
    /\ tracker \in {"idle", "running", "done", "error"}

\* The writer's size is never behind the inode row, and what it has to upload
\* begins below it.
WriterAhead ==
    up => size <= wsize /\ \A i \in dirty \cup Flying : i * ChunkSize < wsize

\* Uploads belong to a mounted daemon.
FlyingUp == (~up => Flying = {} /\ dirty = {}) /\ unstaged \subseteq Flying

\* An upload carries its slot as far as the writer's size goes: growing the
\* slot waits for it.
Carried(i, n) ==
    \A k \in 0 .. ChunkSize - 1 : i * ChunkSize + k < n => k < flying[i]
FlyingWhole == ~sparse => \A i \in Flying : Carried(i, wsize)

\* A console repair runs while nothing is mounted, so its scan stays good.
ScanFresh == tracker = "running" => ~up /\ shield = Staged

RepairInv == RepairTypeOK /\ WriterAhead /\ FlyingUp /\ FlyingWhole /\ ScanFresh

LEMMA SlotsFinite ==
  /\ IsFiniteSet(Slots) /\ Slots \subseteq Nat
  /\ \A i \in Slots : \A j \in 0 .. i : j \in Slots
  <1> PICK n : n = Expected(MaxSize)
    OBVIOUS
  <1>1. n \in Nat
    BY ExpectedIs, 0 \in Nat, RepairAssumption
  <1>2. Slots = 0 .. n - 1
    BY DEF Slots
  <1>3. IsFiniteSet(0 .. n - 1)
    BY <1>1, FS_Interval
  <1> QED BY <1>1, <1>2, <1>3

\* A part is full unless the file ends in it.
LEMMA PartIs ==
  ASSUME NEW i \in Nat, NEW n \in Nat, i * ChunkSize < n
  PROVE  /\ Part(i, n) \in 1 .. ChunkSize
         /\ \A k \in 0 .. ChunkSize - 1 : i * ChunkSize + k < n => k < Part(i, n)
         /\ \A j \in Nat : i < j /\ j * ChunkSize < n => Part(i, n) = ChunkSize
  <1> PICK c, a : c = ChunkSize /\ a = i * c
    OBVIOUS
  <1>1. c \in Nat \ {0} /\ a \in Nat /\ (i + 1) * c = a + c
    BY RepairAssumption
  <1>2. Part(i, n) = IF n >= a + c THEN c ELSE n - a
    BY <1>1 DEF Part
  <1>3. \A j \in Nat : i < j /\ j * c < n => n >= a + c
    <2> TAKE j \in Nat
    <2> HAVE i < j /\ j * c < n
    <2>1. (i + 1) * c <= j * c /\ j * c \in Nat
      BY <1>1, TimesGrows
    <2> QED BY <1>1, <2>1
  <1> QED BY <1>1, <1>2, <1>3

LEMMA RepairInitInv == RepairInit => RepairInv
  <1> SUFFICES ASSUME RepairInit PROVE RepairInv
    OBVIOUS
  <1>1. RepairTypeOK
    <2>1. 0 \in 0 .. ChunkSize /\ 0 \in Nat
      BY RepairAssumption
    <2>2. NoSlots \in [Slots -> 0 .. ChunkSize]
      BY <2>1 DEF NoSlots
    <2> QED BY <2>1, <2>2 DEF RepairInit, RepairTypeOK
  <1>2. Flying = {}
    BY DEF RepairInit, Flying, NoSlots
  <1> QED BY <1>1, <1>2 DEF RepairInit, RepairInv, WriterAhead, FlyingUp, FlyingWhole, ScanFresh

LEMMA CoveredNat == RepairTypeOK => Covered \in Nat
  <1> SUFFICES ASSUME RepairTypeOK PROVE Covered \in Nat
    OBVIOUS
  <1>1. rows \in [Slots -> Nat]
    BY RepairAssumption DEF RepairTypeOK
  <1>2. Prefix \in SUBSET Slots /\ IsFiniteSet(Prefix)
    BY SlotsFinite, FS_Subset DEF Prefix
  <1>3. Covered = RowSum(Prefix)
    BY DEF Covered, RowSum
  <1> QED BY <1>1, <1>2, <1>3, SumNat

\* What a repair leaves of the tables is well formed.
LEMMA RepairTypes ==
  ASSUME RepairTypeOK, NEW S, RepairOneInode(S)
  PROVE  size' \in Nat /\ rows' \in [Slots -> 0 .. ChunkSize]
  <1>1. Covered \in Nat /\ size \in Nat /\ rows \in [Slots -> 0 .. ChunkSize] /\ 0 \in 0 .. ChunkSize
    BY CoveredNat, RepairAssumption DEF RepairTypeOK
  <1> QED BY <1>1 DEF RepairOneInode

\* Slots, not variables, are what the definitions over Slots depend on.
LEMMA RepairFacts ==
  ASSUME RepairInv
  PROVE  /\ RepairTypeOK /\ WriterAhead /\ FlyingUp /\ FlyingWhole /\ ScanFresh
         /\ ChunkSize \in Nat \ {0} /\ 0 \in 0 .. ChunkSize /\ Slots \subseteq Nat
         /\ Sizes \subseteq Nat /\ Slots' = Slots
         /\ \A i \in Slots : i * ChunkSize \in Nat
  <1>1. ChunkSize \in Nat \ {0} /\ MaxSize \in Nat /\ Slots \subseteq Nat
    BY RepairAssumption, SlotsFinite
  <1>2. Slots' = Slots /\ Sizes \subseteq Nat
    BY <1>1 DEF Slots, Expected, Sizes
  <1>3. \A i \in Nat : i * ChunkSize \in Nat
    BY <1>1
  <1> QED BY <1>1, <1>2, <1>3 DEF RepairInv

\* A step that leaves the writer and the tools alone need only type its tables.
LEMMA TablesStep ==
  ASSUME RepairInv, UNCHANGED <<sparse, up, wsize, dirty, flying, issues>>,
         size' \in Nat, up => size' <= wsize,
         rows' \in [Slots -> 0 .. ChunkSize], wires' \in [Slots -> 0 .. ChunkSize],
         queue' \in [Slots -> 0 .. ChunkSize], unstaged' \subseteq unstaged,
         tracker' \in {"idle", "running", "done", "error"}, ScanFresh'
  PROVE  RepairInv'
  <1>1. /\ RepairTypeOK /\ WriterAhead /\ FlyingUp /\ FlyingWhole /\ Slots' = Slots
    BY RepairFacts
  <1>2. Flying' = Flying
    BY <1>1 DEF Flying
  <1>3. RepairTypeOK'
    BY <1>1 DEF RepairTypeOK
  <1>4. WriterAhead' /\ FlyingUp'
    BY <1>1, <1>2 DEF WriterAhead, FlyingUp
  <1>5. FlyingWhole'
    BY <1>1, <1>2 DEF FlyingWhole, Carried
  <1> QED BY <1>3, <1>4, <1>5 DEF RepairInv

LEMMA AppendInv ==
  ASSUME RepairInv, NEW n \in Sizes, AppendBytes(n)
  PROVE  RepairInv'
  <1> USE DEF AppendBytes, fileVars, recoveryVars, toolVars
  <1> DEFINE touched == {i \in Slots : (i + 1) * ChunkSize > wsize /\ i * ChunkSize < n}
  <1>0. /\ RepairTypeOK /\ WriterAhead /\ FlyingUp /\ FlyingWhole /\ ScanFresh
        /\ ChunkSize \in Nat \ {0} /\ Slots \subseteq Nat /\ Slots' = Slots
        /\ \A i \in Slots : i * ChunkSize \in Nat
        /\ n \in Nat /\ wsize \in Nat /\ size \in Nat /\ wsize < n /\ up
    BY RepairFacts DEF RepairTypeOK
  <1>1. Flying' = Flying /\ Flying \subseteq Slots /\ dirty \subseteq Slots
    BY <1>0 DEF Flying, RepairTypeOK
  <1>2. RepairTypeOK'
    BY <1>0 DEF RepairTypeOK
  <1>3. WriterAhead'
    <2>1. \A i \in dirty \cup Flying : i * ChunkSize < n
      BY <1>0, <1>1 DEF WriterAhead
    <2>2. \A i \in touched : i * ChunkSize < n
      OBVIOUS
    <2> QED BY <1>0, <1>1, <2>1, <2>2 DEF WriterAhead
  <1>4. FlyingWhole'
    <2> SUFFICES ASSUME ~sparse, NEW i \in Flying, NEW k \in 0 .. ChunkSize - 1,
                        i * ChunkSize + k < n
                 PROVE  k < flying[i]
      BY <1>1 DEF FlyingWhole, Carried
    <2> PICK c, a : c = ChunkSize /\ a = i * c
      OBVIOUS
    <2>1. i \in Nat /\ a \in Nat /\ (i + 1) * c = a + c
      BY <1>0, <1>1, Next1
    <2>2. i \notin touched
      OBVIOUS
    <2>3. a + c <= wsize
      BY <1>0, <1>1, <2>1, <2>2
    <2>4. i * ChunkSize + k < wsize
      BY <1>0, <2>1, <2>3
    <2> QED BY <1>0, <2>4 DEF FlyingWhole, Carried
  <1>5. FlyingUp' /\ ScanFresh'
    BY <1>0, <1>1 DEF FlyingUp, ScanFresh
  <1> QED BY <1>2, <1>3, <1>4, <1>5 DEF RepairInv

LEMMA GrowInv ==
  ASSUME RepairInv, NEW n \in Sizes, Grow(n)
  PROVE  RepairInv'
  <1> USE DEF Grow, recoveryVars, toolVars
  <1>0. /\ RepairTypeOK /\ WriterAhead /\ FlyingUp /\ ScanFresh /\ Slots' = Slots
        /\ \A i \in Slots : i * ChunkSize \in Nat
        /\ n \in Nat /\ wsize \in Nat /\ wsize < n /\ up
    BY RepairFacts DEF RepairTypeOK
  <1>1. Flying' = Flying /\ Flying \subseteq Slots /\ dirty \subseteq Slots
    BY <1>0 DEF Flying, RepairTypeOK
  <1>2. \A i \in dirty \cup Flying : i * ChunkSize < n
    BY <1>0, <1>1 DEF WriterAhead
  <1> QED BY <1>0, <1>1, <1>2
          DEF RepairInv, RepairTypeOK, WriterAhead, FlyingUp, FlyingWhole, ScanFresh

LEMMA DispatchInv ==
  ASSUME RepairInv, NEW i \in Slots, Dispatch(i)
  PROVE  RepairInv'
  <1> USE DEF Dispatch, fileVars, recoveryVars, toolVars
  <1>0. /\ RepairTypeOK /\ WriterAhead /\ FlyingUp /\ FlyingWhole /\ ScanFresh
        /\ ChunkSize \in Nat \ {0} /\ Slots \subseteq Nat /\ Slots' = Slots
        /\ up /\ i \in dirty /\ i \in Nat /\ wsize \in Nat
    BY RepairFacts DEF RepairTypeOK
  <1>1. i * ChunkSize < wsize
    BY <1>0 DEF WriterAhead
  <1>2. /\ Part(i, wsize) \in 1 .. ChunkSize
        /\ \A k \in 0 .. ChunkSize - 1 : i * ChunkSize + k < wsize => k < Part(i, wsize)
    BY <1>0, <1>1, PartIs
  <1>3. /\ flying' \in [Slots -> 0 .. ChunkSize] /\ flying'[i] = Part(i, wsize)
        /\ \A j \in Slots : j # i => flying'[j] = flying[j]
    BY <1>0, <1>2 DEF RepairTypeOK
  <1>4. Flying' = Flying \cup {i}
    BY <1>0, <1>2, <1>3 DEF Flying
  <1>5. RepairTypeOK'
    BY <1>0, <1>3 DEF RepairTypeOK
  <1>6. WriterAhead' /\ FlyingUp' /\ ScanFresh'
    BY <1>0, <1>1, <1>4 DEF WriterAhead, FlyingUp, ScanFresh
  <1>7. FlyingWhole'
    <2> SUFFICES ASSUME ~sparse, NEW j \in Flying' PROVE Carried(j, wsize)'
      BY DEF FlyingWhole
    <2>1. CASE j = i
      BY <1>2, <1>3, <2>1 DEF Carried
    <2>2. CASE j # i
      <3>1. j \in Flying /\ j \in Slots /\ flying'[j] = flying[j]
        BY <1>3, <1>4, <2>2 DEF Flying
      <3> QED BY <1>0, <3>1 DEF FlyingWhole, Carried
    <2> QED BY <2>1, <2>2
  <1> QED BY <1>5, <1>6, <1>7 DEF RepairInv

LEMMA StageInv ==
  ASSUME RepairInv, NEW i \in Slots, Stage(i)
  PROVE  RepairInv'
  <1>1. /\ RepairTypeOK /\ WriterAhead /\ ScanFresh /\ 0 \in 0 .. ChunkSize
    BY RepairFacts
  <1>2. wires' \in [Slots -> 0 .. ChunkSize] /\ queue' \in [Slots -> 0 .. ChunkSize]
    BY <1>1 DEF Stage, RepairTypeOK
  <1>3. ScanFresh'
    BY <1>1 DEF Stage, ScanFresh, toolVars
  <1> QED BY <1>1, <1>2, <1>3, TablesStep
          DEF Stage, RepairTypeOK, WriterAhead, toolVars

LEMMA LandRecoveredInv ==
  ASSUME RepairInv, NEW i \in Slots, LandRecovered(i) \/ RecoveryFails(i) \/ FsckFix(i)
  PROVE  RepairInv'
  <1> USE DEF fileVars, writerVars, recoveryVars, toolVars
  <1>1. /\ RepairTypeOK /\ WriterAhead /\ ScanFresh /\ 0 \in 0 .. ChunkSize /\ Slots' = Slots
    BY RepairFacts
  <1>2. /\ rows' \in [Slots -> 0 .. ChunkSize] /\ wires' \in [Slots -> 0 .. ChunkSize]
        /\ queue' \in [Slots -> 0 .. ChunkSize]
    BY <1>1 DEF LandRecovered, RecoveryFails, FsckFix, RepairTypeOK
  <1>3. UNCHANGED <<size, sparse, up, wsize, dirty, flying, unstaged, tracker, shield>>
    BY DEF LandRecovered, RecoveryFails, FsckFix
  <1>4. ScanFresh'
    <2>1. wires' = wires \/ up
      BY DEF LandRecovered, RecoveryFails, FsckFix
    <2> QED BY <1>1, <1>3, <2>1 DEF ScanFresh, Staged
  <1>5. issues' \subseteq Slots
    BY <1>1 DEF LandRecovered, RecoveryFails, FsckFix, RepairTypeOK
  <1>6. /\ FlyingUp /\ FlyingWhole /\ Flying' = Flying
    BY <1>1, <1>3, RepairFacts DEF Flying
  <1>7. RepairTypeOK'
    BY <1>1, <1>2, <1>3, <1>5 DEF RepairTypeOK
  <1>8. WriterAhead' /\ FlyingUp' /\ FlyingWhole'
    BY <1>1, <1>3, <1>6 DEF WriterAhead, FlyingUp, FlyingWhole, Carried
  <1> QED BY <1>4, <1>7, <1>8 DEF RepairInv

\* An upload that is over carries nothing.
LEMMA FlyingGone ==
  ASSUME RepairInv, up, NEW i \in Slots, flying' = [flying EXCEPT ![i] = 0],
         UNCHANGED <<size, sparse, up, wsize, tracker, issues>>,
         rows' \in [Slots -> 0 .. ChunkSize], wires' \in [Slots -> 0 .. ChunkSize],
         queue' = queue, unstaged' = unstaged \ {i},
         i \in Flying, dirty' \in {dirty, dirty \cup {i}}
  PROVE  RepairInv'
  <1>0. /\ RepairTypeOK /\ WriterAhead /\ FlyingUp /\ FlyingWhole /\ ScanFresh
        /\ 0 \in 0 .. ChunkSize /\ Slots' = Slots
    BY RepairFacts
  <1>1. /\ flying' \in [Slots -> 0 .. ChunkSize] /\ flying'[i] = 0
        /\ \A j \in Slots : j # i => flying'[j] = flying[j]
    BY <1>0 DEF RepairTypeOK
  <1>2. Flying' = Flying \ {i}
    BY <1>0, <1>1 DEF Flying
  <1>3. RepairTypeOK'
    BY <1>0, <1>1 DEF RepairTypeOK
  <1>4. WriterAhead' /\ FlyingUp' /\ ScanFresh'
    BY <1>0, <1>2 DEF WriterAhead, FlyingUp, ScanFresh
  <1>5. FlyingWhole'
    <2> SUFFICES ASSUME ~sparse, NEW j \in Flying' PROVE Carried(j, wsize)'
      BY DEF FlyingWhole
    <2>1. j \in Flying /\ flying'[j] = flying[j]
      BY <1>1, <1>2 DEF Flying
    <2> QED BY <1>0, <2>1 DEF FlyingWhole, Carried
  <1> QED BY <1>3, <1>4, <1>5 DEF RepairInv

LEMMA LandInv ==
  ASSUME RepairInv, NEW i \in Slots, Land(i) \/ UploadFails(i)
  PROVE  RepairInv'
  <1> USE DEF fileVars, recoveryVars, toolVars
  <1>1. RepairTypeOK /\ 0 \in 0 .. ChunkSize
    BY RepairFacts
  <1>2. CASE Land(i)
    <2>1. rows' \in [Slots -> 0 .. ChunkSize] /\ wires' \in [Slots -> 0 .. ChunkSize]
      BY <1>1, <1>2 DEF Land, RepairTypeOK
    <2>2. unstaged' = unstaged \ {i}
      BY <1>2 DEF Land
    <2> QED BY <1>2, <2>1, <2>2, FlyingGone DEF Land
  <1>3. CASE UploadFails(i)
    BY <1>1, <1>3, FlyingGone DEF UploadFails, RepairTypeOK
  <1> QED BY <1>2, <1>3

LEMMA ShrinkInv ==
  ASSUME RepairInv, NEW n \in Sizes, Shrink(n)
  PROVE  RepairInv'
  <1> USE DEF recoveryVars, toolVars
  <1>0. /\ RepairTypeOK /\ WriterAhead /\ FlyingUp /\ FlyingWhole /\ ScanFresh
        /\ ChunkSize \in Nat \ {0} /\ 0 \in 0 .. ChunkSize /\ Slots \subseteq Nat
        /\ Slots' = Slots /\ n \in Nat
        /\ \A i \in Slots : i * ChunkSize \in Nat
    BY RepairFacts
  <1>1. /\ UNCHANGED <<sparse, wires, up, flying, unstaged, queue, tracker, shield, issues>>
        /\ up /\ size' = n /\ wsize' = n /\ n < wsize /\ wsize \in Nat
    BY <1>0 DEF Shrink, RepairTypeOK
  <1>2. Flying' = Flying /\ Flying \subseteq Slots /\ Expected(n) \in Nat
    BY <1>0, <1>1, ExpectedIs, 0 \in Nat DEF Flying
  <1>3. \A i \in dirty' \cup Flying : i \in Slots /\ i < Expected(n)
    BY <1>0, <1>2 DEF Shrink, RepairTypeOK
  <1>4. \A i \in dirty' \cup Flying : i * ChunkSize < n
    BY <1>0, <1>3, ExpectedIs
  <1>5. rows' \in [Slots -> 0 .. ChunkSize]
    BY <1>0, <1>2 DEF Shrink, RepairTypeOK
  <1>6. RepairTypeOK'
    BY <1>0, <1>1, <1>3, <1>5 DEF RepairTypeOK
  <1>7. WriterAhead' /\ FlyingUp' /\ ScanFresh'
    BY <1>0, <1>1, <1>2, <1>4 DEF WriterAhead, FlyingUp, ScanFresh
  <1>8. FlyingWhole'
    <2> SUFFICES ASSUME ~sparse, NEW i \in Flying, NEW k \in 0 .. ChunkSize - 1,
                        i * ChunkSize + k < n
                 PROVE  k < flying[i]
      BY <1>1, <1>2 DEF FlyingWhole, Carried
    <2>1. i * ChunkSize \in Nat /\ i * ChunkSize + k < wsize
      BY <1>0, <1>1, <1>2
    <2> QED BY <1>0, <2>1 DEF FlyingWhole, Carried
  <1> QED BY <1>6, <1>7, <1>8 DEF RepairInv

LEMMA DownInv ==
  ASSUME RepairInv, Crash \/ Unmount
  PROVE  RepairInv'
  <1>0. /\ RepairTypeOK /\ ScanFresh /\ 0 \in 0 .. ChunkSize /\ Slots' = Slots /\ up
    BY RepairFacts DEF Crash, Unmount
  <1>1. /\ ~up' /\ wsize' = 0 /\ dirty' = {} /\ unstaged' = {}
        /\ flying' = NoSlots /\ queue' = NoSlots
        /\ UNCHANGED <<size, sparse, rows, wires, tracker, shield, issues>>
    BY DEF Crash, Unmount, Down, fileVars, toolVars
  <1>2. NoSlots \in [Slots -> 0 .. ChunkSize] /\ Flying' = {}
    BY <1>0, <1>1 DEF NoSlots, Flying
  <1>3. RepairTypeOK'
    <2>1. up' \in BOOLEAN
      BY DEF Crash, Unmount, Down
    <2> QED BY <1>0, <1>1, <1>2, <2>1, 0 \in Nat DEF RepairTypeOK
  <1> QED BY <1>0, <1>1, <1>2, <1>3
          DEF RepairInv, WriterAhead, FlyingUp, FlyingWhole, ScanFresh

LEMMA MountInv ==
  ASSUME RepairInv, Allow = {}, Mount
  PROVE  RepairInv'
  <1>0. /\ RepairTypeOK /\ FlyingUp /\ ScanFresh /\ Slots' = Slots /\ ~up
    BY RepairFacts DEF Mount
  <1>1. size' \in Nat /\ rows' \in [Slots -> 0 .. ChunkSize] /\ tracker # "running"
    BY <1>0, RepairTypes DEF Mount
  <1>2. /\ up' /\ wsize' = size' /\ queue' = wires
        /\ UNCHANGED <<sparse, wires, dirty, flying, unstaged, tracker, shield, issues>>
    BY DEF Mount, toolVars
  <1>3. Flying = {} /\ Flying' = {}
    BY <1>0, <1>2 DEF FlyingUp, Flying
  <1>4. RepairTypeOK'
    BY <1>0, <1>1, <1>2 DEF RepairTypeOK
  <1>5. dirty = {}
    BY <1>0 DEF FlyingUp
  <1> QED BY <1>0, <1>1, <1>2, <1>3, <1>4, <1>5
          DEF RepairInv, WriterAhead, FlyingUp, FlyingWhole, ScanFresh

LEMMA RepairNextInv ==
  ASSUME RepairInv, Allow = {}, [RepairNext]_repairVars
  PROVE  RepairInv'
  <1> USE DEF fileVars, writerVars, recoveryVars, toolVars
  <1>0. /\ RepairTypeOK /\ WriterAhead /\ FlyingUp /\ FlyingWhole /\ ScanFresh /\ Slots' = Slots
    BY RepairFacts
  <1>1. ASSUME NEW i \in Slots, FsckMissing(i)
        PROVE  RepairInv'
    <2>1. Flying' = Flying /\ Staged' = Staged /\ issues' \subseteq Slots
      BY <1>0, <1>1 DEF FsckMissing, Flying, Staged, RepairTypeOK, Present
    <2> QED BY <1>0, <1>1, <2>1 DEF FsckMissing, RepairInv, RepairTypeOK, WriterAhead,
               FlyingUp, FlyingWhole, Carried, ScanFresh
  <1>2. CASE FlushSetSize
    <2>1. ScanFresh'
      BY <1>0, <1>2 DEF FlushSetSize, ScanFresh, Staged
    <2> QED BY <1>0, <1>2, <2>1, TablesStep DEF FlushSetSize, RepairTypeOK
  <1>3. CASE Recover
    <2>1. ScanFresh'
      BY <1>0, <1>3 DEF Recover, ScanFresh, Staged
    <2> QED BY <1>0, <1>3, <2>1, TablesStep DEF Recover, RepairTypeOK, WriterAhead
  <1>4. CASE RepairBegin
    <2>1. ScanFresh'
      BY <1>0, <1>4 DEF RepairBegin, ScanFresh, Staged
    <2> QED BY <1>0, <1>4, <2>1, TablesStep DEF RepairBegin, RepairTypeOK, WriterAhead
  <1>5. ASSUME NEW o \in {"done", "error"}, RepairFinish(o)
        PROVE  RepairInv'
    <2>1. size' \in Nat /\ rows' \in [Slots -> 0 .. ChunkSize]
      BY <1>0, <1>5, RepairTypes DEF RepairFinish, RepairTypeOK
    <2>2. ~up /\ tracker' # "running"
      BY <1>0, <1>5 DEF RepairFinish, ScanFresh
    <2> QED BY <1>0, <1>5, <2>1, <2>2, TablesStep DEF RepairFinish, RepairTypeOK, ScanFresh
  <1>6. CASE UNCHANGED repairVars
    <2>1. ScanFresh'
      BY <1>0, <1>6 DEF repairVars, ScanFresh, Staged
    <2> QED BY <1>0, <1>6, <2>1, TablesStep DEF repairVars, RepairTypeOK, WriterAhead
  <1> QED BY <1>1, <1>2, <1>3, <1>4, <1>5, <1>6, AppendInv, GrowInv, DispatchInv, StageInv,
             LandInv, LandRecoveredInv, ShrinkInv, DownInv, MountInv
          DEF RepairNext, Shortens

-----------------------------------------------------------------------------
(* What a step leaves readable *)

\* What could be read of each slot still can, as far as the file goes.
LEMMA StillReadable ==
  ASSUME RepairTypeOK, RepairTypeOK', size <= size',
         \A j \in Slots : \A k \in 0 .. ChunkSize - 1 :
             j * ChunkSize + k < size /\ k < Read(j) => k < Read(j)'
  PROVE  Readable \subseteq Readable'
  <1> SUFFICES ASSUME NEW b \in Readable
               PROVE  b \in Readable'
    OBVIOUS
  <1> PICK i, k, c : i = b[1] /\ k = b[2] /\ c = ChunkSize
    OBVIOUS
  <1>1. /\ i \in Slots /\ i \in Nat /\ k \in 0 .. c - 1 /\ b \in Slots \X (0 .. c - 1)
        /\ i * c + k < size /\ k < Read(i)
        /\ \A j \in 0 .. i - 1 : Read(j) = c /\ j \in Slots
        /\ c \in Nat \ {0}
    BY SlotsFinite, RepairAssumption DEF Readable, Whole
  <1>2. \A j \in Slots : Read(j) \in 0 .. c /\ Read(j)' \in 0 .. c
    <2>1. Slots' = Slots
      BY DEF Slots, Expected
    <2> QED BY <2>1 DEF RepairTypeOK, Read
  <1>3. k < Read(i)' /\ i * c + k < size'
    <2>1. i * c \in Nat /\ size \in Nat /\ size' \in Nat
      BY <1>1 DEF RepairTypeOK
    <2> QED BY <1>1, <2>1
  <1>4. \A j \in 0 .. i - 1 : Read(j)' = c
    <2> TAKE j \in 0 .. i - 1
    <2> PICK a, e : a = j * c /\ e = i * c
      OBVIOUS
    <2>1. j \in Nat /\ j + 1 <= i /\ a \in Nat /\ e \in Nat /\ (j + 1) * c = a + c
      BY <1>1, Next1
    <2>2. (j + 1) * c <= e
      <3>1. i \in Nat /\ c \in Nat /\ j + 1 \in Nat
        BY <1>1, <2>1
      <3> QED BY <2>1, <3>1, TimesGrows
    <2>3. j * c + (c - 1) < size /\ c - 1 \in 0 .. c - 1
      <3>1. size \in Nat
        BY DEF RepairTypeOK
      <3> QED BY <1>1, <2>1, <2>2, <3>1
    <2>4. Read(j) = c /\ j \in Slots
      BY <1>1
    <2>5. c - 1 < Read(j)'
      BY <1>1, <2>3, <2>4
    <2> QED BY <1>1, <1>2, <2>4, <2>5
  <1>5. Slots' = Slots
    BY DEF Slots, Expected
  <1> QED BY <1>1, <1>3, <1>4, <1>5 DEF Readable, Whole

\* An upload stages, and lands, its slot as far as the file goes.
LEMMA UploadReadable ==
  ASSUME RepairInv, RepairInv', ~sparse, NEW d \in Slots, Stage(d) \/ Land(d)
  PROVE  Readable \subseteq Readable'
  <1>1. /\ RepairTypeOK /\ RepairTypeOK' /\ size' = size /\ size \in Nat /\ wsize \in Nat
        /\ up /\ size <= wsize /\ d \in Flying /\ Carried(d, wsize)
    BY DEF RepairInv, RepairTypeOK, WriterAhead, FlyingUp, FlyingWhole, Stage, Land
  <1>2. /\ \A j \in Slots : j # d => Read(j)' = Read(j)
        /\ Read(d)' = flying[d] \/ Read(d)' = Read(d)
    <2>1. /\ rows \in [Slots -> 0 .. ChunkSize] /\ wires \in [Slots -> 0 .. ChunkSize]
          /\ flying[d] > 0
      BY <1>1 DEF RepairTypeOK, Flying
    <2>2. CASE Stage(d)
      BY <2>1, <2>2 DEF Stage, Read
    <2>3. CASE Land(d)
      BY <2>1, <2>3 DEF Land, Read
    <2> QED BY <2>2, <2>3
  <1>3. ASSUME NEW j \in Slots, NEW k \in 0 .. ChunkSize - 1,
               j * ChunkSize + k < size, k < Read(j)
        PROVE  k < Read(j)'
    <2>1. j * ChunkSize + k < wsize
      <3>1. j * ChunkSize \in Nat /\ k \in Nat
        BY RepairFacts
      <3> QED BY <1>1, <1>3, <3>1
    <2> QED BY <1>1, <1>2, <1>3, <2>1 DEF Carried
  <1> QED BY <1>1, <1>3, StillReadable

\* So does a recovered wire that is no shorter than what it replaces.
LEMMA RecoveredReadable ==
  ASSUME RepairInv, RepairInv', NEW d \in Slots, LandRecovered(d), ~(queue[d] < Read(d))
  PROVE  Readable \subseteq Readable'
  <1>1. /\ RepairTypeOK /\ RepairTypeOK' /\ size' = size /\ size \in Nat
        /\ rows \in [Slots -> 0 .. ChunkSize] /\ wires \in [Slots -> 0 .. ChunkSize]
        /\ queue \in [Slots -> 0 .. ChunkSize] /\ queue[d] > 0
    BY DEF RepairInv, RepairTypeOK, LandRecovered
  <1>2. \A j \in Slots : Read(j) \in 0 .. ChunkSize
    BY <1>1 DEF Read
  <1>3. /\ \A j \in Slots : j # d => Read(j)' = Read(j)
        /\ Read(d)' = queue[d]
    BY <1>1 DEF LandRecovered, Read
  <1>4. ChunkSize \in Nat /\ queue[d] \in Nat /\ \A j \in Slots : Read(j) \in Nat
    BY <1>1, <1>2, RepairFacts
  <1>5. ASSUME NEW j \in Slots, NEW k \in 0 .. ChunkSize - 1, k < Read(j)
        PROVE  k < Read(j)'
    <2>1. CASE j = d
      BY <1>3, <1>4, <1>5, <2>1
    <2>2. CASE j # d
      BY <1>3, <1>5, <2>2
    <2> QED BY <2>1, <2>2
  <1> QED BY <1>1, <1>5, StillReadable

\* A repair that knows the staged wires cuts the file off behind what can be
\* read, if at all.
LEMMA RepairReadable ==
  ASSUME RepairInv, RepairInv', RepairOneInode(Staged), wires' = wires
  PROVE  Readable \subseteq Readable'
  <1> SUFFICES ASSUME NEW b \in Readable
               PROVE  b \in Readable'
    OBVIOUS
  <1> PICK i, k, c : i = b[1] /\ k = b[2] /\ c = ChunkSize
    OBVIOUS
  <1>1. /\ i \in Slots /\ i \in Nat /\ k \in 0 .. c - 1 /\ b \in Slots \X (0 .. c - 1)
        /\ i * c + k < size /\ k < Read(i)
        /\ \A j \in 0 .. i - 1 : Read(j) = c
        /\ \A j \in 0 .. i : j \in Slots
        /\ c \in Nat \ {0}
    BY SlotsFinite, RepairAssumption DEF Readable, Whole
  <1>2. size \in Nat /\ rows \in [Slots -> 0 .. c] /\ wires \in [Slots -> 0 .. c]
    BY DEF RepairInv, RepairTypeOK
  <1>3. Slots' = Slots
    BY DEF Slots, Expected
  <1>4. CASE UNCHANGED <<size, rows>>
    BY <1>3, <1>4 DEF Readable, Whole, Read
  <1>5. CASE ~UNCHANGED <<size, rows>>
    <2>1. ~Shielded(Staged)
      BY <1>5 DEF RepairOneInode
    <2>2. i < Expected(size) /\ Expected(size) \in Nat
      <3>1. i * c < size
        BY <1>1, <1>2
      <3> QED BY <1>1, <1>2, <3>1, ExpectedIs
    <2>3. \A j \in 0 .. i : rows[j] > 0 /\ Read(j) <= rows[j]
      <3> TAKE j \in 0 .. i
      <3>1. Read(j) > 0
        <4>1. Read(i) \in Nat /\ k \in Nat
          BY <1>1, <1>2 DEF Read
        <4>2. j = i \/ j \in 0 .. i - 1
          BY <1>1
        <4> QED BY <1>1, <4>1, <4>2
      <3>2. j \in Slots /\ j < Expected(size) /\ rows[j] \in 0 .. c /\ wires[j] \in 0 .. c
        BY <1>1, <1>2, <2>2
      <3>3. rows[j] # 0
        <4> SUFFICES ASSUME rows[j] = 0 PROVE FALSE
          OBVIOUS
        <4>1. j \notin Staged
          BY <2>1, <3>2 DEF Shielded
        <4>2. Read(j) = wires[j] /\ ~(wires[j] > 0)
          BY <3>2, <4>1 DEF Read, Staged
        <4> QED BY <3>1, <4>2
      <3> QED BY <3>2, <3>3 DEF Read
    <2>4. 0 .. i \subseteq Prefix
      <3> SUFFICES ASSUME NEW j \in 0 .. i
                   PROVE  j \in Prefix
        OBVIOUS
      <3>1. j \in Slots /\ j \in Nat /\ \A n \in 0 .. j : n \in 0 .. i
        BY <1>1
      <3>2. 0 .. j \subseteq Present
        BY <1>1, <2>3, <3>1 DEF Present
      <3> QED BY <3>1, <3>2 DEF Prefix
    <2>5. \A j \in 0 .. i : rows'[j] = rows[j]
      <3> TAKE j \in 0 .. i
      <3>1. j \in Slots /\ j \in Prefix /\ j < Expected(size)
        BY <1>1, <2>2, <2>4
      <3> QED BY <1>5, <3>1 DEF RepairOneInode
    <2>6. i * c + k < Covered /\ Covered \in Nat
      <3>1. Prefix \in SUBSET Slots /\ IsFiniteSet(Prefix)
        BY SlotsFinite, FS_Subset DEF Prefix
      <3>2. rows \in [Slots -> Nat] /\ \A j \in 0 .. i - 1 : rows[j] >= c
        <4>1. \A j \in 0 .. i - 1 : Read(j) = c /\ Read(j) <= rows[j] /\ rows[j] \in Nat
          BY <1>1, <1>2, <2>3
        <4> QED BY <1>2, <4>1
      <3>3. RowSum(Prefix) \in Nat /\ RowSum(Prefix) >= i * c + rows[i]
        BY <1>1, <2>4, <3>1, <3>2, SumAtLeast
      <3>4. Covered = RowSum(Prefix)
        BY DEF Covered, RowSum
      <3>5. k < Read(i) /\ Read(i) <= rows[i] /\ Read(i) \in Nat /\ rows[i] \in Nat
        <4>1. i \in 0 .. i
          BY <1>1
        <4>2. Read(i) \in Nat
          BY <1>1, <1>2 DEF Read
        <4> QED BY <1>1, <2>3, <3>2, <4>1, <4>2
      <3>6. i * c \in Nat
        BY <1>1
      <3> QED BY <1>1, <3>3, <3>4, <3>5, <3>6
    <2>7. i * c + k < size'
      <3>1. size' = Covered \/ size' = size
        BY <1>5 DEF RepairOneInode
      <3> QED BY <1>1, <2>6, <3>1
    <2>8. \A j \in 0 .. i : Read(j)' = Read(j)
      BY <2>5 DEF Read
    <2>9. k < Read(i)' /\ \A j \in 0 .. i - 1 : Read(j)' = c
      <3>1. i \in 0 .. i /\ \A j \in 0 .. i - 1 : j \in 0 .. i
        BY <1>1
      <3> QED BY <1>1, <2>8, <3>1
    <2> QED BY <1>1, <1>3, <2>7, <2>9 DEF Readable, Whole
  <1> QED BY <1>4, <1>5

LEMMA RepairStepKeeps ==
  ASSUME RepairInv, RepairInv', Allow = {}, [RepairNext]_repairVars, fileVars' # fileVars
  PROVE  sparse' \/ Shortens \/ StaleLands \/ Readable \subseteq Readable'
  <1> USE DEF writerVars, recoveryVars, toolVars
  <1>1. ASSUME NEW n \in Sizes, AppendBytes(n)
        PROVE  FALSE
    BY <1>1 DEF AppendBytes, fileVars
  <1>2. ASSUME NEW n \in Sizes, Grow(n)
        PROVE  sparse'
    BY <1>2 DEF Grow
  <1>3. ASSUME NEW i \in Slots, Stage(i) \/ Land(i)
        PROVE  sparse' \/ Readable \subseteq Readable'
    <2>1. sparse' = sparse /\ sparse \in BOOLEAN
      BY <1>3 DEF Stage, Land, RepairInv, RepairTypeOK
    <2> QED BY <1>3, <2>1, UploadReadable
  <1>4. ASSUME NEW i \in Slots, LandRecovered(i)
        PROVE  StaleLands \/ Readable \subseteq Readable'
    BY <1>4, RecoveredReadable DEF StaleLands
  <1>5. ASSUME NEW i \in Slots,
               Dispatch(i) \/ UploadFails(i) \/ RecoveryFails(i) \/ FsckMissing(i)
        PROVE  FALSE
    BY <1>5 DEF Dispatch, UploadFails, RecoveryFails, FsckMissing, fileVars
  <1>6. CASE FlushSetSize
    <2>1. /\ RepairTypeOK /\ RepairTypeOK' /\ size <= size' /\ rows' = rows /\ wires' = wires
      BY <1>6 DEF FlushSetSize, RepairInv, WriterAhead
    <2>2. \A j : Read(j)' = Read(j)
      BY <2>1 DEF Read
    <2> QED BY <2>1, <2>2, StillReadable
  <1>7. CASE Crash \/ Unmount \/ Recover \/ RepairBegin \/ UNCHANGED repairVars
    BY <1>7 DEF Crash, Unmount, Down, Recover, RepairBegin, repairVars, fileVars
  <1>8. CASE Mount
    BY <1>8, RepairReadable DEF Mount
  <1>9. ASSUME NEW o \in {"done", "error"}, RepairFinish(o)
        PROVE  Readable \subseteq Readable'
    <2>1. shield = Staged /\ wires' = wires
      BY <1>9 DEF RepairFinish, RepairInv, ScanFresh
    <2>2. CASE o = "done"
      BY <1>9, <2>1, <2>2, RepairReadable DEF RepairFinish
    <2>3. CASE o # "done"
      BY <1>9, <2>3 DEF RepairFinish, fileVars
    <2> QED BY <2>2, <2>3
  <1> QED BY <1>1, <1>2, <1>3, <1>4, <1>5, <1>6, <1>7, <1>8, <1>9 DEF RepairNext

\* RepairPartialFiles, run by a mount or from the console, uploads, their failures
\* and crashes leave readable what was readable, for any file and any number of
\* them; only a recovered wire shorter than what it replaces does not.  The
\* hypothesis is that no daemon writes while a console repair works from its scan.
THEOREM RepairLosesNothing ==
  ASSUME Allow = {}
  PROVE  RepairSpec => RepairKeepsData
  <1>1. RepairInv /\ [RepairNext]_repairVars => RepairInv'
    BY RepairNextInv
  <1>2. RepairInv /\ RepairInv' /\ [RepairNext]_repairVars =>
          [fileVars' # fileVars =>
             sparse' \/ Shortens \/ StaleLands \/ Readable \subseteq Readable']_repairVars
    BY RepairStepKeeps
  <1> QED BY <1>1, <1>2, RepairInitInv, PTL DEF RepairSpec, RepairKeepsData

=============================================================================
