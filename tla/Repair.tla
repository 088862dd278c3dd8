-------------------------------- MODULE Repair --------------------------------
(***************************************************************************)
(* Partial files: what a crash between an upload and its bookkeeping       *)
(* leaves of one file, and what the repair pass (at mount, before the      *)
(* staged wires are recovered, or started from the web console), fsck      *)
(* --fix and the recovery of the wires make of it.                         *)
(*                                                                         *)
(* The file is its inode row (size in bytes, sparse), the sizes of its     *)
(* chunk_map rows and of its staged wires.  ChunkPipeline has the contents *)
(* and the writer in detail; here a writer appends.  recoverPending's scan *)
(* and its submissions are one step, and of the files staged for a slot    *)
(* the newest and the one before are told apart.                           *)
(***************************************************************************)
EXTENDS Integers, FiniteSets, FiniteSetsExt

CONSTANTS
    ChunkSize,
    MaxSize,     \* bound: bytes of the file
    MaxTrouble,  \* bound: crashes, failed stagings, lost messages
    Allow        \* which of KnownRaces may happen

\* A daemon mounts, and writes, while a console repair works from its scan; a
\* console repair is forced while one is mounted.
KnownRaces == {"mountDuringRepair", "forcedRepair"}

ASSUME RepairAssumption ==
    /\ ChunkSize \in Nat \ {0} /\ MaxSize \in Nat /\ MaxTrouble \in Nat
    /\ Allow \subseteq KnownRaces

VARIABLES
    size, sparse,  \* the inodes row
    rows,          \* slot -> size of its chunk_map row, 0 for none
    wires,         \* slot -> size of its newest staged wire, 0 for none
    up,            \* a daemon is mounted
    wsize, dirty,  \* its writer: the size and the slots not yet dispatched
    flying,        \* slot -> bytes its upload carries, 0 for none
    unstaged,      \* slots in flight whose goroutine has not staged the wire
    queue,         \* slot -> size of the wire recoverPending finds, or submitted
    due,           \* recoverPending has not scanned yet
    tracker,       \* RepairTracker's state
    shield,        \* the wires the console's repair saw staged
    issues,        \* slots fsck found missing
    misfortune     \* how much trouble there was

repairVars == <<size, sparse, rows, wires, up, wsize, dirty, flying, unstaged,
                queue, due, tracker, shield, issues, misfortune>>
fileVars == <<size, sparse, rows, wires>>
writerVars == <<wsize, dirty, flying, unstaged>>
recoveryVars == <<queue, due>>
toolVars == <<tracker, shield, issues>>

-----------------------------------------------------------------------------
\* The rows a size implies.
Expected(n) == (n + ChunkSize - 1) \div ChunkSize

Slots == 0 .. Expected(MaxSize) - 1
Staged == {i \in Slots : wires[i] > 0}
Present == {i \in Slots : rows[i] > 0}
Flying == {i \in Slots : flying[i] > 0}
Part(i, n) == IF n >= (i + 1) * ChunkSize THEN ChunkSize ELSE n - i * ChunkSize
NoSlots == [i \in Slots |-> 0]

RepairInit ==
    /\ size = 0 /\ sparse = FALSE
    /\ rows = NoSlots /\ wires = NoSlots
    /\ up = TRUE /\ wsize = 0 /\ dirty = {} /\ flying = NoSlots /\ unstaged = {}
    /\ queue = NoSlots /\ due = FALSE
    /\ tracker = "idle" /\ shield = {} /\ issues = {} /\ misfortune = 0

-----------------------------------------------------------------------------
(* The daemon at work *)

\* WriteAt at the end of the file: the slots the bytes fall in become dirty.
\* loadForWrite waits for the writer's own uploads of them, not for the wires
\* recoverPending has submitted.
AppendBytes(n) ==
    LET touched == {i \in Slots : (i + 1) * ChunkSize > wsize /\ i * ChunkSize < n}
    IN /\ up /\ n > wsize
       /\ touched \cap Flying = {}
       /\ wsize' = n /\ dirty' = dirty \cup touched
       /\ UNCHANGED <<fileVars, up, flying, unstaged, recoveryVars, toolVars, misfortune>>

\* The eager loop or Flush pops a slot and starts its goroutine.
Dispatch(i) ==
    /\ up /\ i \in dirty
    /\ dirty' = dirty \ {i}
    /\ flying' = [flying EXCEPT ![i] = Part(i, wsize)]
    /\ unstaged' = unstaged \cup {i}
    /\ UNCHANGED <<fileVars, up, wsize, recoveryVars, toolVars, misfortune>>

\* PersistPending.  The name of the file is the slot and the size: a wire of the
\* same size that recoverPending has yet to find is overwritten.
Stage(i) ==
    /\ up /\ i \in unstaged
    /\ wires' = [wires EXCEPT ![i] = flying[i]]
    /\ unstaged' = unstaged \ {i}
    /\ queue' = IF due /\ queue[i] = flying[i] THEN [queue EXCEPT ![i] = 0] ELSE queue
    /\ UNCHANGED <<size, sparse, rows, up, wsize, dirty, flying, due, toolVars, misfortune>>

\* Flush: everything is dispatched, then the size is written.
FlushSetSize ==
    /\ up /\ dirty = {} /\ size # wsize
    /\ size' = wsize
    /\ UNCHANGED <<sparse, rows, wires, up, writerVars, recoveryVars, toolVars, misfortune>>

\* The upload ends: PutChunk, then DeletePending, which leaves the file of an
\* earlier generation that recoverPending has yet to find.
Land(i) ==
    /\ up /\ i \in Flying \ unstaged
    /\ rows' = [rows EXCEPT ![i] = flying[i]]
    /\ wires' = [wires EXCEPT ![i] = IF due THEN queue[i] ELSE 0]
    /\ flying' = [flying EXCEPT ![i] = 0]
    /\ UNCHANGED <<size, sparse, up, wsize, dirty, unstaged, recoveryVars, toolVars,
                   misfortune>>

\* Truncate: a shrink waits for the uploads at and past the boundary, drops
\* the rows above it and then sets the size; a grow marks the file sparse.
\* A boundary chunk that is too long is dirtied again.
Shrink(n) ==
    LET keep == Expected(n)
        trim == {i \in Slots : i = keep - 1 /\ rows[i] > Part(i, n)}
    IN /\ up /\ n < wsize
       /\ \A i \in Flying : i < keep - 1
       /\ rows' = [i \in Slots |-> IF i >= keep THEN 0 ELSE rows[i]]
       /\ size' = n /\ wsize' = n
       /\ dirty' = {i \in dirty : i < keep} \cup trim
       /\ UNCHANGED <<sparse, wires, up, flying, unstaged, recoveryVars, toolVars, misfortune>>

Grow(n) ==
    /\ up /\ n > wsize
    /\ sparse' = TRUE
    /\ size' = n /\ wsize' = n
    /\ UNCHANGED <<rows, wires, up, dirty, flying, unstaged, recoveryVars, toolVars,
                   misfortune>>

\* An upload fails: its chunk is dirty again, or the handle is closed and what
\* is staged is all there is.
UploadFails(i) ==
    /\ up /\ i \in Flying /\ misfortune < MaxTrouble
    /\ flying' = [flying EXCEPT ![i] = 0] /\ unstaged' = unstaged \ {i}
    /\ dirty' \in {dirty, dirty \cup {i}}
    /\ misfortune' = misfortune + 1
    /\ UNCHANGED <<fileVars, up, wsize, recoveryVars, toolVars>>

\* The process ends with what it had in memory.
Down ==
    /\ up' = FALSE
    /\ wsize' = 0 /\ dirty' = {} /\ flying' = NoSlots /\ unstaged' = {}
    /\ queue' = NoSlots /\ due' = FALSE
    /\ UNCHANGED <<fileVars, toolVars>>

Crash == up /\ misfortune < MaxTrouble /\ Down /\ misfortune' = misfortune + 1

\* Shutdown drains the writer's uploads.
Unmount == up /\ Flying = {} /\ dirty = {} /\ Down /\ UNCHANGED misfortune

-----------------------------------------------------------------------------
(* recoverPending *)

\* It keeps the newest generation of a slot's wires and submits it, registered
\* with nobody.
Recover ==
    /\ up /\ due
    /\ due' = FALSE /\ queue' = wires
    /\ UNCHANGED <<fileVars, up, writerVars, toolVars, misfortune>>

\* The packer commits a submitted wire and deletes the file of its name; or the
\* upload fails, and the wire stays for the next mount.
LandRecovered(i) ==
    /\ up /\ ~due /\ queue[i] > 0
    /\ rows' = [rows EXCEPT ![i] = queue[i]]
    /\ wires' = [wires EXCEPT ![i] = IF @ = queue[i] THEN 0 ELSE @]
    /\ queue' = [queue EXCEPT ![i] = 0]
    /\ UNCHANGED <<size, sparse, up, writerVars, due, toolVars, misfortune>>

RecoveryFails(i) ==
    /\ up /\ ~due /\ queue[i] > 0 /\ misfortune < MaxTrouble
    /\ queue' = [queue EXCEPT ![i] = 0]
    /\ misfortune' = misfortune + 1
    /\ UNCHANGED <<fileVars, up, writerVars, due, toolVars>>

-----------------------------------------------------------------------------
(* meta.RepairPartialFiles *)

\* Mutant: as it was before repair knew about the staged wires.
ShieldedNever(S) == FALSE

\* A slot the size implies has no row, but a wire in S.
Shielded(S) == \E i \in Slots : i < Expected(size) /\ rows[i] = 0 /\ i \in S

Candidate ==
    /\ ~sparse
    /\ \/ Present # {} /\ Present # 0 .. Expected(size) - 1
       \/ Present = {} /\ size > 0

\* Slots below the first gap, and what they hold.
Prefix == {i \in Slots : 0 .. i \subseteq Present}
Covered == MapThenSumSet(LAMBDA i : rows[i], Prefix)

\* One transaction: a gap truncates to the rows before it, a stray row is
\* dropped, a missing tail or a file without rows lowers the size.
RepairOneInode(S) ==
    IF ~Candidate \/ Shielded(S) THEN UNCHANGED <<size, rows>>
    ELSE IF Present # Prefix
    THEN /\ size' = Covered
         /\ rows' = [i \in Slots |-> IF i \in Prefix THEN rows[i] ELSE 0]
    ELSE /\ size' = IF Cardinality(Present) < Expected(size) /\ Covered < size
                    THEN Covered ELSE size
         /\ rows' = [i \in Slots |-> IF i < Expected(size) THEN rows[i] ELSE 0]

\* Mount: the pending directory is scanned, repair runs, and recoverPending is
\* started.
Mount ==
    /\ ~up
    /\ tracker # "running" \/ "mountDuringRepair" \in Allow
    /\ RepairOneInode(Staged)
    /\ up' = TRUE /\ wsize' = size' /\ due' = TRUE /\ queue' = wires
    /\ UNCHANGED <<sparse, wires, dirty, flying, unstaged, toolVars, misfortune>>

\* stateRepair: refused while a mount is active or a run is in flight; the
\* goroutine scans the pending directory once ...
RepairBegin ==
    /\ ~up \/ "forcedRepair" \in Allow
    /\ tracker # "running"
    /\ tracker' = "running" /\ shield' = Staged
    /\ UNCHANGED <<fileVars, up, writerVars, recoveryVars, issues, misfortune>>

\* ... and works through the inodes.
RepairFinish(outcome) ==
    /\ tracker = "running"
    /\ IF outcome = "done" THEN RepairOneInode(shield) ELSE UNCHANGED <<size, rows>>
    /\ tracker' = outcome /\ shield' = {}
    /\ UNCHANGED <<sparse, wires, up, writerVars, recoveryVars, issues, misfortune>>

-----------------------------------------------------------------------------
(* telfs fsck *)

\* A row's message cannot be downloaded.
FsckMissing(i) ==
    /\ i \in Present \ issues /\ misfortune < MaxTrouble
    /\ issues' = issues \cup {i} /\ misfortune' = misfortune + 1
    /\ UNCHANGED <<fileVars, up, writerVars, recoveryVars, tracker, shield>>

\* --fix: DeleteChunk of whatever row the slot has by now.
FsckFix(i) ==
    /\ i \in issues
    /\ issues' = issues \ {i}
    /\ rows' = [rows EXCEPT ![i] = 0]
    /\ UNCHANGED <<size, sparse, wires, up, writerVars, recoveryVars, tracker, shield,
                   misfortune>>

-----------------------------------------------------------------------------
Sizes == 0 .. MaxSize

Shortens == (\E n \in Sizes : Shrink(n)) \/ (\E i \in Slots : FsckFix(i))

RepairNext ==
    \/ \E n \in Sizes : AppendBytes(n) \/ Grow(n)
    \/ \E i \in Slots : \/ Dispatch(i) \/ Stage(i) \/ Land(i) \/ UploadFails(i)
                       \/ LandRecovered(i) \/ RecoveryFails(i) \/ FsckMissing(i)
    \/ Shortens \/ FlushSetSize \/ Crash \/ Unmount \/ Mount \/ Recover \/ RepairBegin
    \/ \E o \in {"done", "error"} : RepairFinish(o)

-----------------------------------------------------------------------------
(* Properties *)

\* What a read of a slot finds: the row's message, without a row the staged wire.
Read(i) == IF rows[i] > 0 THEN rows[i] ELSE wires[i]
Whole(i) == Read(i) = ChunkSize

\* The bytes <<slot, offset>> that can be read from the start of the file
\* without a gap.
Readable ==
    {b \in Slots \X (0 .. ChunkSize - 1) :
        /\ b[1] * ChunkSize + b[2] < size
        /\ b[2] < Read(b[1])
        /\ \A i \in 0 .. b[1] - 1 : Whole(i)}

\* A wire of an earlier mount lands over longer content: the slot was written
\* while recoverPending was at work, which nothing prevents.
StaleLands == \E i \in Slots : LandRecovered(i) /\ queue[i] < Read(i)

\* Nothing but a truncation, fsck's verdict or a recovered wire that is older than
\* what it replaces takes away bytes that can be read: not an upload, its failure
\* or a crash, not a mount, and not a repair, whether the mount or the console
\* starts it.  (In a sparse file a missing slot is a hole, and repair leaves the
\* file alone.)
RepairKeepsData ==
    [][fileVars' # fileVars =>
          sparse' \/ Shortens \/ StaleLands \/ Readable \subseteq Readable']_repairVars

=============================================================================
