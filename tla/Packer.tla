------------------------------- MODULE Packer -------------------------------
(***************************************************************************)
(* chunk.Packer: Submit, the flusher goroutine with its window timer, wake *)
(* and stop channels, the byte-bounded flush, DropInode and Close.         *)
(*                                                                         *)
(* A wire is an id; its inode and its length are constants.  A chunk_map   *)
(* row is the extent of a message it points at.                            *)
(***************************************************************************)
EXTENDS Naturals, Sequences, FiniteSets, Functions, Sublists

CONSTANTS
    Wires,    \* wires callers submit, each once
    Inodes,
    InoOf,    \* the inode of each wire
    SizeOf,   \* the length of each wire
    Target    \* p.target

ASSUME PackerAssumption ==
    /\ IsFiniteSet(Wires)
    /\ InoOf \in [Wires -> Inodes]
    /\ SizeOf \in [Wires -> Nat \ {0}]
    /\ Target \in Nat \ {0}

VARIABLES
    live,      \* inodes that exist
    pending,   \* p.pending
    bufBytes,  \* p.bufBytes
    signalling,\* Submit calls between their unlock and their wake send
    wake,      \* the wake channel holds a token
    stop,      \* p.stop is closed
    loopPc,    \* where the flusher is
    last,      \* the flush in progress is the one for stop
    batch,     \* wires of the flush in progress
    pos,       \* the next one of them to commit
    msg,       \* message ids used so far
    row,       \* chunk_map: extent of a message, or NoRow
    staged,    \* wires whose file is under pending/
    result,    \* the wire's result channel
    early      \* history: wires submitted before Close was called

packerVars == <<live, pending, bufBytes, signalling, wake, stop, loopPc, last, batch,
                pos, msg, row, staged, result, early>>

NoRow == [msg |-> 0, off |-> 0, size |-> 0]

-----------------------------------------------------------------------------
\* The bytes of a set of wires, one by one, and how many the wires of a list
\* have; a list holds a wire once.
Octets(S) == UNION {{w} \X (1..SizeOf[w]) : w \in S}
WireBytes(s) == Cardinality(Octets(Range(s)))

\* flush takes a wire only while the batch stays within the target, and always
\* the first one.
Fits(s, k) == k = 1 \/ WireBytes(SubSeq(s, 1, k)) <= Target

BatchLen(s) ==
    CHOOSE k \in 1..Len(s) :
        /\ \A m \in 1..k : Fits(s, m)
        /\ k < Len(s) => ~Fits(s, k + 1)

\* Mutant: the offset counts the wire itself.
OffsetAfter(s, k) == WireBytes(SubSeq(s, 1, k))

Offset(s, k) == WireBytes(SubSeq(s, 1, k - 1))

PackerInit ==
    /\ live = Inodes
    /\ pending = <<>> /\ bufBytes = 0 /\ signalling = {} /\ wake = FALSE
    /\ stop = FALSE /\ loopPc = "select" /\ last = FALSE
    /\ batch = <<>> /\ pos = 1 /\ msg = 0
    /\ row = [w \in Wires |-> NoRow]
    /\ staged = {}
    /\ result = [w \in Wires |-> "none"]
    /\ early = {}

-----------------------------------------------------------------------------
(* Callers *)

\* The caller has staged the wire; Submit appends it under the lock.
Submit(w) ==
    /\ result[w] = "none"
    /\ pending' = Append(pending, w)
    /\ bufBytes' = bufBytes + SizeOf[w]
    /\ signalling' = IF bufBytes' >= Target THEN signalling \cup {w}
                     ELSE signalling
    /\ staged' = staged \cup {w}
    /\ result' = [result EXCEPT ![w] = "waiting"]
    /\ early' = IF stop THEN early ELSE early \cup {w}
    /\ UNCHANGED <<live, wake, stop, loopPc, last, batch, pos, msg, row>>

\* ... and signals the flusher after unlocking, unless a token is there.
Signal(w) ==
    /\ w \in signalling
    /\ signalling' = signalling \ {w}
    /\ wake' = TRUE
    /\ UNCHANGED <<live, pending, bufBytes, stop, loopPc, last, batch, pos,
                   msg, row, staged, result, early>>

\* The inode goes and its rows with it.
UnlinkInode(ino) ==
    /\ ino \in live
    /\ live' = live \ {ino}
    /\ row' = [w \in Wires |-> IF InoOf[w] = ino THEN NoRow ELSE row[w]]
    /\ UNCHANGED <<pending, bufBytes, signalling, wake, stop, loopPc, last,
                   batch, pos, msg, staged, result, early>>

\* Mutant: the result channels of the dropped wires are left open.
DropInodeSilent(ino) ==
    LET drop == {w \in Range(pending) : InoOf[w] = ino}
    IN /\ ino \notin live
       /\ pending' = Keep(pending, Wires \ drop)
       /\ bufBytes' = bufBytes - WireBytes(Keep(pending, drop))
       /\ staged' = staged \ drop
       /\ UNCHANGED <<live, signalling, wake, stop, loopPc, last, batch, pos,
                      msg, row, result, early>>

\* The inode-deleted callback.
DropInode(ino) ==
    LET drop == {w \in Range(pending) : InoOf[w] = ino}
    IN /\ ino \notin live
       /\ drop # {}
       /\ pending' = Keep(pending, Wires \ drop)
       /\ bufBytes' = bufBytes - WireBytes(Keep(pending, drop))
       /\ staged' = staged \ drop
       /\ result' = [w \in Wires |-> IF w \in drop THEN "done" ELSE result[w]]
       /\ UNCHANGED <<live, signalling, wake, stop, loopPc, last, batch, pos,
                      msg, row, early>>

\* Close closes p.stop, then waits for the flusher to be done.
Close ==
    /\ ~stop
    /\ stop' = TRUE
    /\ UNCHANGED <<live, pending, bufBytes, signalling, wake, loopPc, last,
                   batch, pos, msg, row, staged, result, early>>

-----------------------------------------------------------------------------
(* The flusher *)

AfterFlush(isLast) == IF isLast THEN "done" ELSE "select"

\* Mutant: no token is left for the wires beyond the target.
BeginFlushForgets(isLast, woken) ==
    IF pending = <<>>
    THEN /\ loopPc' = AfterFlush(isLast)
         /\ wake' = woken
         /\ UNCHANGED <<pending, bufBytes, last, batch, pos>>
    ELSE LET k == BatchLen(pending)
         IN /\ batch' = SubSeq(pending, 1, k)
            /\ pending' = SubSeq(pending, k + 1, Len(pending))
            /\ bufBytes' = bufBytes - WireBytes(SubSeq(pending, 1, k))
            /\ wake' = woken
            /\ loopPc' = "upload"
            /\ last' = isLast
            /\ pos' = 1

\* flush up to its unlock, and the wake token for what it leaves behind.
BeginFlush(isLast, woken) ==
    IF pending = <<>>
    THEN /\ loopPc' = AfterFlush(isLast)
         /\ wake' = woken
         /\ UNCHANGED <<pending, bufBytes, last, batch, pos>>
    ELSE LET k == BatchLen(pending)
         IN /\ batch' = SubSeq(pending, 1, k)
            /\ pending' = SubSeq(pending, k + 1, Len(pending))
            /\ bufBytes' = bufBytes - WireBytes(SubSeq(pending, 1, k))
            /\ wake' = (woken \/ k < Len(pending))
            /\ loopPc' = "upload"
            /\ last' = isLast
            /\ pos' = 1

flushFrame == <<live, signalling, stop, msg, row, staged, result, early>>

\* The loop's select: the window timer, a wake token, or stop.
LoopTimer == loopPc = "select" /\ BeginFlush(FALSE, wake) /\ UNCHANGED flushFrame
LoopWake == /\ loopPc = "select" /\ wake
            /\ BeginFlush(FALSE, FALSE) /\ UNCHANGED flushFrame

LoopStop == /\ loopPc = "select" /\ stop
            /\ BeginFlush(TRUE, wake) /\ UNCHANGED flushFrame

\* Mutant: only the first wire of the batch hears of the failure.
UploadFailsFirst ==
    /\ loopPc = "upload"
    /\ result' = [result EXCEPT ![Head(batch)] = "failed"]
    /\ loopPc' = AfterFlush(last)
    /\ batch' = <<>> /\ pos' = 1
    /\ UNCHANGED <<live, pending, bufBytes, signalling, wake, stop, last, msg,
                   row, staged, early>>

\* uploadWithRetry gave up: every wire of the batch fails.
UploadFails ==
    /\ loopPc = "upload"
    /\ result' = [w \in Wires |-> IF w \in Range(batch) THEN "failed"
                                  ELSE result[w]]
    /\ loopPc' = AfterFlush(last)
    /\ batch' = <<>> /\ pos' = 1
    /\ UNCHANGED <<live, pending, bufBytes, signalling, wake, stop, last, msg,
                   row, staged, early>>

Upload ==
    /\ loopPc = "upload"
    /\ msg' = msg + 1
    /\ loopPc' = "put"
    /\ UNCHANGED <<live, pending, bufBytes, signalling, wake, stop, last,
                   batch, pos, row, staged, result, early>>

\* The wire is done with: answer, and go on or end the flush.
Settle(r) ==
    /\ result' = [result EXCEPT ![batch[pos]] = r]
    /\ IF pos = Len(batch)
       THEN loopPc' = AfterFlush(last) /\ batch' = <<>> /\ pos' = 1
       ELSE loopPc' = "put" /\ pos' = pos + 1 /\ UNCHANGED batch
    /\ UNCHANGED <<live, pending, bufBytes, signalling, wake, stop, last, msg,
                   early>>

Extent(k) == [msg |-> msg, off |-> Offset(batch, k), size |-> SizeOf[batch[k]]]

PackPut ==
    /\ loopPc = "put" /\ InoOf[batch[pos]] \in live
    /\ row' = [row EXCEPT ![batch[pos]] = Extent(pos)]
    /\ loopPc' = "unstage"
    /\ UNCHANGED <<live, pending, bufBytes, signalling, wake, stop, last,
                   batch, pos, msg, staged, result, early>>

\* Mutant: the staged copy of a wire whose row did not land is deleted.
PackPutFailsUnstaged ==
    /\ loopPc = "put"
    /\ staged' = staged \ {batch[pos]}
    /\ Settle("failed")
    /\ UNCHANGED row

\* The database fails for this wire; it stays staged.
PackPutFails ==
    /\ loopPc = "put"
    /\ Settle("failed")
    /\ UNCHANGED <<row, staged>>

\* The row landed, or the inode is gone.
Unstage ==
    /\ \/ loopPc = "unstage"
       \/ loopPc = "put" /\ InoOf[batch[pos]] \notin live
    /\ staged' = staged \ {batch[pos]}
    /\ Settle("done")
    /\ UNCHANGED row

-----------------------------------------------------------------------------
Flusher == \/ LoopTimer \/ LoopWake \/ LoopStop \/ UploadFails \/ Upload
           \/ PackPut \/ PackPutFails \/ Unstage

PackerNext ==
    \/ \E w \in Wires : Submit(w) \/ Signal(w)
    \/ \E ino \in Inodes : UnlinkInode(ino) \/ DropInode(ino)
    \/ Close
    \/ Flusher

PackerSpec == PackerInit /\ [][PackerNext]_packerVars

-----------------------------------------------------------------------------
(* Properties *)

\* Type invariant of the packer's state.
PackerTypeOK ==
    /\ live \subseteq Inodes
    /\ pending \in Seq(Wires) /\ bufBytes \in Nat
    /\ signalling \subseteq Wires
    /\ wake \in BOOLEAN /\ stop \in BOOLEAN /\ last \in BOOLEAN
    /\ loopPc \in {"select", "upload", "put", "unstage", "done"}
    /\ batch \in Seq(Wires) /\ pos \in Nat /\ msg \in Nat
    /\ row \in [Wires -> [msg : Nat, off : Nat, size : Nat]]
    /\ staged \subseteq Wires
    /\ result \in [Wires -> {"none", "waiting", "done", "failed"}]
    /\ early \subseteq Wires

\* p.bufBytes, which QueueDepth reports and Submit compares with the target,
\* is the length of what is buffered, through flushes and DropInode.
BufBytesExact == bufBytes = WireBytes(pending)

\* The extents of one message never overlap, so no chunk reads bytes of
\* another one; wherever its inode still exists.
ExtentsDisjoint ==
    \A v, w \in Wires :
        v # w /\ row[v] # NoRow /\ row[w] # NoRow /\ row[v].msg = row[w].msg
            => \/ row[v].off + row[v].size <= row[w].off
               \/ row[w].off + row[w].size <= row[v].off

\* A submitted wire's staged copy is deleted only after its row has landed or
\* its inode has gone: between Submit and there a kill loses nothing.
StagedUntilCommitted ==
    \A w \in Wires : result[w] # "none" /\ w \notin staged
                        => row[w] # NoRow \/ InoOf[w] \notin live

\* A buffer at the target is never left to wait for the window timer: a token
\* is in the wake channel or a Submit is about to put one there.
FullBufferSignalled ==
    bufBytes >= Target /\ loopPc # "done" => wake \/ signalling # {}

\* The packer does what its callers rely on.
Queue == INSTANCE WireQueue WITH
            queue <- SubSeq(batch, pos, Len(batch)) \o pending,
            taken <- Len(batch) - pos + 1
ImplementsQueue == Queue!Spec

\* Until Close, every submitted wire is answered.
Answered ==
    \A w \in Wires : result[w] = "waiting" ~> result[w] # "waiting" \/ stop

\* When Close returns, every wire submitted before it has been answered.
CloseUnblocks ==
    loopPc = "done" => \A w \in early : result[w] # "waiting"

=============================================================================
